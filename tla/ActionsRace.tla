---------------------------- MODULE ActionsRace -----------------------------
(***************************************************************************)
(* One action under handlers that run at the same time.  Every handler of  *)
(* crates/daemon/src/actions.rs reads the row, decides on its copy and     *)
(* writes the copy back; no lock spans the two, so here they are two steps *)
(* and any other handler may come in between.  The connectors' requests,   *)
(* the pages', the clean-up loop and the tasks that carry out agents'      *)
(* effects all run on the daemon's thread pool.                            *)
(*                                                                         *)
(* Two edits that race both make version n + 1, of different words, so     *)
(* here a version has its words beside its number: a fresh number for      *)
(* every draft written, standing for the text and for its hash.            *)
(***************************************************************************)
EXTENDS Action, Sequences

CONSTANTS
  Handlers,     \* handlers that may be under way at the same time
  MaxDrafts,    \* bound: drafts written
  MaxApprovals  \* bound: approvals given

ASSUME BoundsAssumption == MaxDrafts \in Nat \ {0} /\ MaxApprovals \in Nat

VARIABLES
  row,       \* the action as stored
  doing,     \* by handler: what it is doing, and the copy it read
  due,       \* whether now >= expires_at
  handed,    \* memory: the token the action was handed out with, or 0
  page,      \* memory: what pages that hold the nonce show
  drafts,    \* drafts written
  issued,    \* tokens issued
  approvals, \* what the user approved, with the token it got
  given      \* what executors were given, oldest first

vars == <<row, doing, due, handed, page, drafts, issued, approvals, given>>

Row   == [action : ActionRecord, words : Seq(Nat)]
Shown == [version : Nat, words : Nat]
Grant == [words : Nat, token : Nat]

Op == {"none", "edit", "approve", "decline", "take", "expire", "report"}

\* `shown` is what an approval names.
Doing == [op : Op, shown : Shown, copy : Row]

NothingShown == [version |-> 0, words |-> 0]
Idle == [op |-> "none", shown |-> NothingShown, copy |-> [action |-> NoAction, words |-> <<>>]]

\* What a page about this row shows.
Newest(r) == [version |-> r.action.current, words |-> r.words[r.action.current]]

TypeOK ==
  /\ row \in Row
  /\ Len(row.words) = row.action.current
  /\ doing \in [Handlers -> Doing]
  /\ due \in BOOLEAN
  /\ handed \in Nat
  /\ page \subseteq Shown
  /\ drafts \in Nat
  /\ issued \in Nat
  /\ approvals \subseteq Grant
  /\ given \in Seq(Grant)

Init ==
  /\ row = [action |-> Proposed, words |-> <<1>>]
  /\ doing = [h \in Handlers |-> Idle]
  /\ due = FALSE
  /\ handed = NoToken
  /\ page = {}
  /\ drafts = 1
  /\ issued = 0
  /\ approvals = {}
  /\ given = <<>>

-----------------------------------------------------------------------------
(* A handler starts by reading the row.  What it claims in memory it claims *)
(* right after: an approval needs the nonce to be there and spends it only  *)
(* at the end, a report takes the action's token out of `handed`.           *)

Read(h, op, shown) ==
  /\ doing[h] = Idle
  /\ doing' = [doing EXCEPT ![h] = [op |-> op, shown |-> shown, copy |-> row]]
  /\ UNCHANGED <<row, due, page, drafts, issued, approvals, given>>

Start(h) ==
  \/ \E op \in {"edit", "decline", "take", "expire"} :
       Read(h, op, NothingShown) /\ UNCHANGED handed
  \/ \E shown \in page : Read(h, "approve", shown) /\ UNCHANGED handed
  \/ /\ handed # NoToken
     /\ Read(h, "report", NothingShown)
     /\ handed' = NoToken

\* Silent for REPORT_WITHIN: between any two steps that much time may have passed.
Overdue(a) == InAConnectorsHands(a)

Copy(h) == doing[h].copy.action

(* It ends by writing its copy back, whatever the row is by then. *)

WriteBack(h, action) ==
  /\ row' = [doing[h].copy EXCEPT !.action = action]
  /\ doing' = [doing EXCEPT ![h] = Idle]

\* The copy does not allow it: nothing is written.
Refuse(h) ==
  /\ CASE doing[h].op = "edit"    -> ~CanEdit(Copy(h))
       [] doing[h].op = "decline" -> ~CanDecline(Copy(h)) /\ ~CanWithdraw(Copy(h))
       [] doing[h].op = "take"    -> ~Takeable(Copy(h))
       [] doing[h].op = "expire"  -> ~IsDue(Copy(h), due)
       [] OTHER                   -> FALSE
  /\ doing' = [doing EXCEPT ![h] = Idle]
  /\ UNCHANGED <<row, due, handed, page, drafts, issued, approvals, given>>

\* The page that edited shows what it wrote and gets the nonce.
Edit(h) ==
  /\ doing[h].op = "edit"
  /\ CanEdit(Copy(h))
  /\ drafts < MaxDrafts
  /\ drafts' = drafts + 1
  /\ row' = [action |-> Edited(Copy(h)), words |-> Append(doing[h].copy.words, drafts + 1)]
  /\ doing' = [doing EXCEPT ![h] = Idle]
  /\ page' = page \union {Newest(row')}
  /\ UNCHANGED <<due, handed, issued, approvals, given>>

\* Bug: the version's number is compared, its hash is not.
HashOfNumber(h) == doing[h].shown.version

\* The hash is the one shown: does the copy's version of that number have it?
HashOf(h) ==
  LET shown == doing[h].shown  words == doing[h].copy.words
  IN  IF shown.version <= Len(words) /\ words[shown.version] = shown.words
        THEN shown.version
        ELSE 0

Approvable(h) == CanApprove(Copy(h), doing[h].shown.version, HashOf(h), due)

Approve(h) ==
  /\ doing[h].op = "approve"
  /\ issued < MaxApprovals
  /\ Approvable(h)
  /\ issued' = issued + 1
  /\ WriteBack(h, Approved(Copy(h), doing[h].shown.version, issued + 1))
  /\ approvals' = approvals \union {[words |-> doing[h].shown.words, token |-> issued + 1]}
  /\ page' = {}
  /\ UNCHANGED <<due, handed, drafts, given>>

\* A refused approval saves its copy as well, lapsed if its time has come.
ApproveRefused(h) ==
  /\ doing[h].op = "approve"
  /\ ~Approvable(h)
  /\ WriteBack(h, IF IsDue(Copy(h), due) THEN Expired(Copy(h)) ELSE Copy(h))
  /\ UNCHANGED <<due, handed, page, drafts, issued, approvals, given>>

Decline(h) ==
  /\ doing[h].op = "decline"
  /\ CanDecline(Copy(h)) \/ CanWithdraw(Copy(h))
  /\ WriteBack(h, Declined(Copy(h)))
  /\ UNCHANGED <<due, handed, page, drafts, issued, approvals, given>>

\* Bug: the words handed out are looked up again in the row.
TakeLooksAgain(h) ==
  /\ doing[h].op = "take"
  /\ CanBegin(Copy(h), due)
  /\ WriteBack(h, Begun(Copy(h)))
  /\ handed' = Copy(h).token
  /\ given' = Append(given, [words |-> Newest(row).words, token |-> Copy(h).token])
  /\ UNCHANGED <<due, page, drafts, issued, approvals>>

Take(h) ==
  /\ doing[h].op = "take"
  /\ CanBegin(Copy(h), due)
  /\ WriteBack(h, Begun(Copy(h)))
  /\ handed' = Copy(h).token
  /\ given' = Append(given, [words |-> doing[h].copy.words[Copy(h).approved],
                             token |-> Copy(h).token])
  /\ UNCHANGED <<due, page, drafts, issued, approvals>>

TakeTooLate(h) ==
  /\ doing[h].op = "take"
  /\ Takeable(Copy(h))
  /\ due
  /\ WriteBack(h, Expired(Copy(h)))
  /\ UNCHANGED <<due, handed, page, drafts, issued, approvals, given>>

Expire(h) ==
  /\ doing[h].op = "expire"
  /\ \/ /\ IsDue(Copy(h), due)
        /\ WriteBack(h, Expired(Copy(h)))
        /\ UNCHANGED handed
     \/ /\ Overdue(Copy(h))
        /\ WriteBack(h, Finished(Copy(h), "unknown"))
        /\ handed' = NoToken
  /\ UNCHANGED <<due, page, drafts, issued, approvals, given>>

Report(h) ==
  /\ doing[h].op = "report"
  /\ \E outcome \in Outcome : WriteBack(h, Finished(Copy(h), outcome))
  /\ UNCHANGED <<due, handed, page, drafts, issued, approvals, given>>

-----------------------------------------------------------------------------
(* Pages, the clock, restarts. *)

Show ==
  /\ row.action.status = "pending"
  /\ page' = page \union {Newest(row)}
  /\ UNCHANGED <<row, doing, due, handed, drafts, issued, approvals, given>>

TimeIsUp ==
  /\ ~due
  /\ due' = TRUE
  /\ UNCHANGED <<row, doing, handed, page, drafts, issued, approvals, given>>

Restart ==
  /\ doing' = [h \in Handlers |-> Idle]
  /\ handed' = NoToken
  /\ page' = {}
  /\ UNCHANGED <<row, due, drafts, issued, approvals, given>>

Handle(h) ==
  \/ Start(h) \/ Refuse(h) \/ Edit(h) \/ Approve(h) \/ ApproveRefused(h)
  \/ Decline(h) \/ Take(h) \/ TakeTooLate(h) \/ Expire(h) \/ Report(h)

Next ==
  \/ \E h \in Handlers : Handle(h)
  \/ Show \/ TimeIsUp \/ Restart

Spec == Init /\ [][Next]_vars

-----------------------------------------------------------------------------
(* Properties. *)

\* Whatever the handlers do to each other's writes, an executor is given only
\* words the user approved, on the strength of the token of that approval.
OnlyApprovedIsGiven == \A k \in 1 .. Len(given) : given[k] \in approvals

\* A stale write can bring back what another handler ended, but never join a
\* token to words it was not issued for: the row that can be taken, and every
\* copy on its way to become the row, has them together.
TokenFitsItsWords ==
  \A r \in {row} \union {doing[h].copy : h \in Handlers} :
    Takeable(r.action) =>
      [words |-> r.words[r.action.approved], token |-> r.action.token] \in approvals

\* A token is good for one execution (the header of action.rs, and
\* begin_execution: a second attempt finds nothing).
TokenSpentOnce ==
  \A j, k \in 1 .. Len(given) : given[j].token = given[k].token => j = k
=============================================================================
