------------------------------ MODULE Actions -------------------------------
(***************************************************************************)
(* The core's side of actions, crates/daemon/src/actions.rs: every         *)
(* decision the user, the clock and the executors make about an action,    *)
(* with the store, the ledger and the two maps the daemon keeps in memory. *)
(* One handler is one step here; ActionsRace takes the handlers apart.     *)
(*                                                                         *)
(* The executors (connectors, the GitHub client, the dispatch runner, the  *)
(* agents' runner) are the environment: they may take any action whose     *)
(* token is unspent and report anything at any time, with any token that   *)
(* was ever issued.  Sending replaces them with the mail connector.        *)
(***************************************************************************)
EXTENDS Action, Sequences

CONSTANTS
  Ids,          \* action identifiers
  Editable,     \* the actions whose effect may be edited (Effect::editable)
  MaxVersions   \* bound: an action is edited at most MaxVersions - 1 times

ASSUME EditableAssumption == Editable \subseteq Ids
ASSUME VersionsAssumption == MaxVersions \in Nat \ {0}

VARIABLES
  store,    \* the action rows, by identifier
  due,      \* whether now >= expires_at
  issued,   \* how many tokens were issued for the action: the newest is this one
  handed,   \* memory: the token an action was handed out with, or 0
  pages,    \* memory: the versions shown on pages that hold the action's nonce
  ledger,   \* the action's ledger entries, oldest first
  taken     \* versions given to executors, oldest first

vars == <<store, due, issued, handed, pages, ledger, taken>>

Event == {"proposed", "edited", "approved", "declined", "withdrawn", "expired",
          "executing", "refused"} \union Outcome

Entry == [event : Event, version : Nat]

TypeOK ==
  /\ store  \in [Ids -> ActionRecord]
  /\ due    \in [Ids -> BOOLEAN]
  /\ issued \in [Ids -> Nat]
  /\ handed \in [Ids -> Nat]
  /\ pages  \in [Ids -> SUBSET Nat]
  /\ ledger \in [Ids -> Seq(Entry)]
  /\ taken  \in [Ids -> Seq(Nat)]

Init ==
  /\ store  = [i \in Ids |-> NoAction]
  /\ due    = [i \in Ids |-> FALSE]
  /\ issued = [i \in Ids |-> 0]
  /\ handed = [i \in Ids |-> NoToken]
  /\ pages  = [i \in Ids |-> {}]
  /\ ledger = [i \in Ids |-> <<>>]
  /\ taken  = [i \in Ids |-> <<>>]

\* Write the action, and one ledger entry that names its current version.
SaveAndRecord(i, a, event) ==
  /\ store'  = [store EXCEPT ![i] = a]
  /\ ledger' = [ledger EXCEPT ![i] = Append(@, [event |-> event, version |-> a.current])]

-----------------------------------------------------------------------------
(* Proposing and showing. *)

Propose(i) ==
  /\ store[i].status = "absent"
  /\ SaveAndRecord(i, Proposed, "proposed")
  /\ UNCHANGED <<due, issued, handed, pages, taken>>

\* A page shows a pending action and gets the action's nonce.  There is one
\* nonce at a time, kept until an approval spends it or the daemon forgets it;
\* pages[i] is what the pages that hold that nonce show.  A page with an older
\* nonce can approve nothing, so it is left out.
Show(i) ==
  /\ store[i].status = "pending"
  /\ pages' = [pages EXCEPT ![i] = @ \union {store[i].current}]
  /\ UNCHANGED <<store, due, issued, handed, ledger, taken>>

-----------------------------------------------------------------------------
(* The user decides. *)

Edit(i) ==
  /\ i \in Editable
  /\ CanEdit(store[i])
  /\ store[i].current < MaxVersions
  /\ SaveAndRecord(i, Edited(store[i]), "edited")
  /\ UNCHANGED <<due, issued, handed, pages, taken>>

\* Approval from a page that holds the nonce: it names the version, and the hash,
\* that page showed.  Any refusal but expiry changes nothing.
Approve(i, version) ==
  /\ version \in pages[i]
  /\ CanApprove(store[i], version, version, due[i])
  /\ issued' = [issued EXCEPT ![i] = @ + 1]
  /\ pages'  = [pages EXCEPT ![i] = {}]
  /\ SaveAndRecord(i, Approved(store[i], version, issued[i] + 1), "approved")
  /\ UNCHANGED <<due, handed, taken>>

\* A page that still shows an action that lapsed.  Bound: refused once more only.
LapsedBefore(i) ==
  /\ store[i].status = "expired"
  /\ \A k \in 2 .. Len(ledger[i]) :
       ledger[i][k].event = "expired" => ledger[i][k - 1].event # "expired"

\* Bug: the lapse is stored and not recorded.
ApproveTooLateUnrecorded(i) ==
  /\ pages[i] # {}
  /\ IsDue(store[i], due[i])
  /\ store' = [store EXCEPT ![i] = Expired(@)]
  /\ UNCHANGED <<due, issued, handed, pages, ledger, taken>>

\* The approval notices the action lapsed: that is written down either way, and
\* written down again when it had lapsed before.
ApproveTooLate(i) ==
  /\ pages[i] # {}
  /\ IsDue(store[i], due[i]) \/ LapsedBefore(i)
  /\ SaveAndRecord(i, Expired(store[i]), "expired")
  /\ UNCHANGED <<due, issued, handed, pages, taken>>

\* No to a pending action; an approval not yet taken is withdrawn.
Decline(i) ==
  /\ \/ /\ CanDecline(store[i])
        /\ SaveAndRecord(i, Declined(store[i]), "declined")
     \/ /\ CanWithdraw(store[i])
        /\ SaveAndRecord(i, Declined(store[i]), "withdrawn")
  /\ UNCHANGED <<due, issued, handed, pages, taken>>

-----------------------------------------------------------------------------
(* Executors take an action and report on it. *)

\* approved_for, approved_in_core and take: the same steps for one action.
HandOut(i) ==
  /\ CanBegin(store[i], due[i])
  /\ handed' = [handed EXCEPT ![i] = store[i].token]
  /\ taken'  = [taken EXCEPT ![i] = Append(@, store[i].approved)]
  /\ SaveAndRecord(i, Begun(store[i]), "executing")
  /\ UNCHANGED <<due, issued, pages>>

\* Taken after its time: the approval lapses instead.
RefuseLate(i) ==
  /\ Takeable(store[i])
  /\ due[i]
  /\ SaveAndRecord(i, Expired(store[i]), "refused")
  /\ UNCHANGED <<due, issued, handed, pages, taken>>

\* Only whoever holds the token the action was handed out with may report.
Report(i, token, outcome, submission) ==
  /\ token # NoToken
  /\ handed[i] = token
  /\ handed' = [handed EXCEPT ![i] = NoToken]
  /\ LET a == IF outcome = "unknown" THEN [store[i] EXCEPT !.submitted_as = submission]
                                     ELSE store[i]
     IN  SaveAndRecord(i, Finished(a, outcome), outcome)
  /\ UNCHANGED <<due, issued, pages, taken>>

\* Sync brought in the mail an unknown action was submitted as.
ConfirmSent(i, submission) ==
  /\ store[i].status = "unknown"
  /\ submission # 0
  /\ store[i].submitted_as = submission
  /\ SaveAndRecord(i, [store[i] EXCEPT !.status = "executed"], "executed")
  /\ UNCHANGED <<due, issued, handed, pages, taken>>

-----------------------------------------------------------------------------
(* Time, the clean-up that watches it, and the daemon's own restarts.  The *)
(* clock moves only where somebody will still look at it: at expires_at    *)
(* until the action is decided and executed, at handed_at until a report.  *)

TimeIsUp(i) ==
  /\ store[i].status \in Undecided
  /\ ~due[i]
  /\ due' = [due EXCEPT ![i] = TRUE]
  /\ UNCHANGED <<store, issued, handed, pages, ledger, taken>>

ReportIsOverdue(i) ==
  /\ InAConnectorsHands(store[i])
  /\ store[i].handed_at = "recent"
  /\ store' = [store EXCEPT ![i].handed_at = "silent"]
  /\ UNCHANGED <<due, issued, handed, pages, ledger, taken>>

\* Bug: whoever was given up on may still report.
ExpireDueKeepsHanded(i) ==
  \/ /\ IsDue(store[i], due[i])
     /\ SaveAndRecord(i, Expired(store[i]), "expired")
     /\ UNCHANGED <<due, issued, handed, pages, taken>>
  \/ /\ InAConnectorsHands(store[i])
     /\ store[i].handed_at = "silent"
     /\ SaveAndRecord(i, Finished(store[i], "unknown"), "unknown")
     /\ UNCHANGED <<due, issued, handed, pages, taken>>

\* Bug: only undecided actions are cleaned up.
ExpireDueForgetsTaken(i) ==
  /\ IsDue(store[i], due[i])
  /\ SaveAndRecord(i, Expired(store[i]), "expired")
  /\ UNCHANGED <<due, issued, handed, pages, taken>>

\* expire_due, for one action: it lapses, or its executor is given up on.
ExpireDue(i) ==
  \/ /\ IsDue(store[i], due[i])
     /\ SaveAndRecord(i, Expired(store[i]), "expired")
     /\ UNCHANGED <<due, issued, handed, pages, taken>>
  \/ /\ InAConnectorsHands(store[i])
     /\ store[i].handed_at = "silent"
     /\ handed' = [handed EXCEPT ![i] = NoToken]
     /\ SaveAndRecord(i, Finished(store[i], "unknown"), "unknown")
     /\ UNCHANGED <<due, issued, pages, taken>>

\* The daemon stops and starts: what it held in memory is gone.
Restart ==
  /\ handed' = [i \in Ids |-> NoToken]
  /\ pages'  = [i \in Ids |-> {}]
  /\ UNCHANGED <<store, due, issued, ledger, taken>>

-----------------------------------------------------------------------------
User(i) ==
  \/ Propose(i)
  \/ Show(i)
  \/ Edit(i)
  \/ \E version \in pages[i] : Approve(i, version)
  \/ ApproveTooLate(i)
  \/ Decline(i)

Executor(i) ==
  \/ HandOut(i)
  \/ RefuseLate(i)
  \/ \E token \in 1 .. issued[i], outcome \in Outcome, known \in BOOLEAN :
       Report(i, token, outcome, IF known THEN token ELSE 0)
  \/ \E submission \in 1 .. issued[i] : ConfirmSent(i, submission)

Clock(i) == TimeIsUp(i) \/ ReportIsOverdue(i) \/ ExpireDue(i)

Next == Restart \/ \E i \in Ids : User(i) \/ Executor(i) \/ Clock(i)

Spec == Init /\ [][Next]_vars

\* Time passes, and settle_actions runs expire_due every twenty seconds.
Fairness ==
  \A i \in Ids : /\ WF_vars(TimeIsUp(i))
                 /\ WF_vars(ReportIsOverdue(i))
                 /\ WF_vars(ExpireDue(i))

FairSpec == Spec /\ Fairness

-----------------------------------------------------------------------------
(* Properties. *)

\* What the others rest on, for one action.  A token exists only while the newest
\* version is approved, and then the ledger ends with that approval; what was
\* taken is never newer than the newest version, and strictly older as long as
\* that version can still be approved or taken.
Live(i) == store[i].status = "pending" \/ Takeable(store[i])

CreditOf(i) ==
  /\ store[i].status = "absent" <=> store[i].current = 0
  /\ store[i].status = "absent" => handed[i] = NoToken
  /\ store[i].token # NoToken =>
       /\ store[i].status = "approved"
       /\ store[i].approved = store[i].current
       /\ Len(ledger[i]) > 0
       /\ ledger[i][Len(ledger[i])] =
            [event |-> "approved", version |-> store[i].current]
  /\ \A k \in 1 .. Len(taken[i]) : taken[i][k] <= store[i].current
  /\ Live(i) => \A k \in 1 .. Len(taken[i]) : taken[i][k] < store[i].current

CreditIsLive == \A i \in Ids : CreditOf(i)

\* What executors were given never repeats and never goes back to older words,
\* whatever they report and however often the daemon restarts (begin_execution
\* spends the token, approve refuses all but the newest version).
HandedOutOnce ==
  \A i \in Ids : \A j, k \in 1 .. Len(taken[i]) : j < k => taken[i][j] < taken[i][k]

\* Read the ledger alone: every hand-out comes right after an approval of the
\* same version, so nothing the user did in between was overlooked.
ExecutingFollowsApproval ==
  \A i \in Ids : \A k \in 1 .. Len(ledger[i]) :
    ledger[i][k].event = "executing" =>
      /\ k > 1
      /\ ledger[i][k - 1] = [event |-> "approved", version |-> ledger[i][k].version]

\* The status each ledger event leaves behind.
StatusAfter(event) ==
  CASE event \in {"proposed", "edited"}    -> "pending"
    [] event \in {"approved", "executing"} -> "approved"
    [] event \in {"declined", "withdrawn"} -> "declined"
    [] event \in {"expired", "refused"}    -> "expired"
    [] OTHER                               -> event

\* The last entry about an action names its version and implies its stored
\* status: no decision is stored and not recorded, or recorded and not stored.
LedgerSaysStatus ==
  \A i \in Ids :
    IF ledger[i] = <<>>
      THEN store[i].status = "absent"
      ELSE LET last == ledger[i][Len(ledger[i])]
           IN  /\ store[i].status  = StatusAfter(last.event)
               /\ store[i].current = last.version

\* An effect that cannot be edited: as long as an executor's report would be
\* taken, the action is approved with its token spent, so the report lands on
\* the action the executor was given and on nothing the user decided later.
ReportFindsItsAction ==
  \A i \in Ids \ Editable : handed[i] # NoToken => InAConnectorsHands(store[i])

Settled == {"declined", "expired", "executed", "failed"}

\* For such an effect a settled action stays settled; only unknown may still
\* become executed, when sync finds the mail.
SettledStays ==
  [][\A i \in Ids \ Editable :
       store[i].status \in Settled => store'[i].status = store[i].status]_vars

\* Nothing stays pending for good: it is decided or it expires.  Nor does anything
\* stay in an executor's hands, though executors may die without a word and the
\* daemon may forget who holds what.
NothingHangs ==
  \A i \in Ids :
    /\ store[i].status = "pending" ~> store[i].status # "pending"
    /\ InAConnectorsHands(store[i]) ~> ~InAConnectorsHands(store[i])

\* The abstract promise: what was handed out was approved, once, in those words.
Promise == INSTANCE Approval WITH
  draft  <- [i \in Ids |-> store[i].current],
  credit <- [i \in Ids |-> IF Takeable(store[i]) THEN store[i].approved ELSE 0]

ApprovalKept == Promise!Spec
=============================================================================
