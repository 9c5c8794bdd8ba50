------------------------------- MODULE Action -------------------------------
(***************************************************************************)
(* One proposed effect and its transitions, as                             *)
(* crates/agent/src/action.rs defines them: the values an action can have, *)
(* when each transition is allowed, and what it leaves behind.             *)
(*                                                                         *)
(* A draft is known by its sequence number: versions are immutable, so the *)
(* number stands for the words and for their hash.  An execution token is  *)
(* a positive number, 0 is the absence of one; random tokens never repeat, *)
(* so whoever issues them passes a fresh number.  The clock enters as two  *)
(* facts: whether now >= expires_at (the argument `late`), and whether     *)
(* REPORT_WITHIN has gone by since handed_at.                              *)
(***************************************************************************)
EXTENDS Naturals

NoToken == 0

Undecided == {"pending", "approved"}
Outcome   == {"executed", "failed", "unknown"}
Status    == {"absent", "declined", "expired"} \union Undecided \union Outcome

\* When the token was spent: never, less than REPORT_WITHIN ago, or longer ago.
HandedAt == {"never", "recent", "silent"}

ActionRecord ==
  [status       : Status,
   approved     : Nat,        \* the version of Status::Approved, else 0
   current      : Nat,        \* the newest version; 0 only for an absent action
   token        : Nat,
   handed_at    : HandedAt,
   submitted_as : Nat]        \* the submission an unknown mail went out under, or 0

\* An identifier nothing was proposed under yet.
NoAction ==
  [status |-> "absent", approved |-> 0, current |-> 0, token |-> NoToken,
   handed_at |-> "never", submitted_as |-> 0]

Proposed == [NoAction EXCEPT !.status = "pending", !.current = 1]

\* Approved, the token spent, no report yet.
InAConnectorsHands(a) == a.status = "approved" /\ a.token = NoToken

\* Approved and not yet taken: begin_execution would find its token.
Takeable(a) == a.status = "approved" /\ a.token # NoToken

-----------------------------------------------------------------------------
(* Transitions of the user. *)

CanEdit(a) == a.status \in Undecided

\* Bug: an edit leaves the approval of the older words standing.
EditedKeepsApproval(a) == [a EXCEPT !.current = @ + 1]

\* A new version; any approval is void.
Edited(a) ==
  [a EXCEPT !.current = @ + 1, !.status = "pending", !.approved = 0, !.token = NoToken]

\* Bug: any version that exists may be approved, not only the newest.
CanApproveAny(a, version, hash, late) ==
  a.status = "pending" /\ ~late /\ version \in 1 .. a.current /\ hash = version

\* `hash` is the version whose words the request was shown.
CanApprove(a, version, hash, late) ==
  /\ a.status = "pending"
  /\ ~late
  /\ version \in 1 .. a.current
  /\ hash = version
  /\ version = a.current

Approved(a, version, token) ==
  [a EXCEPT !.status = "approved", !.approved = version, !.token = token]

\* Bug: an approval is taken back whether or not an executor holds the action.
CanWithdrawTaken(a) == a.status = "approved"

CanDecline(a)  == a.status = "pending"
CanWithdraw(a) == Takeable(a)

\* Both ways to say no leave the same action.
Declined(a) == [a EXCEPT !.status = "declined", !.approved = 0, !.token = NoToken]

-----------------------------------------------------------------------------
(* Transitions of time, and of execution. *)

IsDue(a, late) == a.status = "pending" /\ late

Expired(a) == [a EXCEPT !.status = "expired", !.approved = 0, !.token = NoToken]

CanBegin(a, late) == Takeable(a) /\ ~late

\* Bug: the token survives the hand-out.
BegunKeepsToken(a) == [a EXCEPT !.handed_at = "recent"]

\* Bug: nobody notes when the action was handed over.
BegunAtNoTime(a) == [a EXCEPT !.token = NoToken]

\* The token is spent the moment the action is handed over.
Begun(a) == [a EXCEPT !.token = NoToken, !.handed_at = "recent"]

\* finish looks at no status: whatever the action was, this is how it ended.
Finished(a, outcome) ==
  [a EXCEPT !.status = outcome, !.approved = 0, !.token = NoToken]
=============================================================================
