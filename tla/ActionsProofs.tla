--------------------------- MODULE ActionsProofs ----------------------------
(***************************************************************************)
(* Theorems of Actions, for every set of actions, whichever of them may be *)
(* edited, and however often.                                              *)
(***************************************************************************)
EXTENDS Actions, SequenceTheorems, TLAPS

\* Every transition of an action yields an action.
LEMMA TransitionsTyped ==
  ASSUME NEW a \in ActionRecord
  PROVE  /\ Edited(a) \in ActionRecord
         /\ \A v, t \in Nat : Approved(a, v, t) \in ActionRecord
         /\ Declined(a) \in ActionRecord
         /\ Expired(a) \in ActionRecord
         /\ Begun(a) \in ActionRecord
         /\ \A o \in Outcome : Finished(a, o) \in ActionRecord
  <1> USE DEF ActionRecord, Status, Undecided, Outcome, HandedAt, NoToken
  <1>1. Edited(a) \in ActionRecord
    <2>1. a.current \in Nat /\ a.current + 1 \in Nat
      OBVIOUS
    <2>2. [a EXCEPT !.current = a.current + 1] \in ActionRecord
      BY <2>1
    <2> QED
      BY <2>2 DEF Edited
  <1>2. \A v, t \in Nat : Approved(a, v, t) \in ActionRecord
    BY DEF Approved
  <1>3. Declined(a) \in ActionRecord
    BY DEF Declined
  <1>4. Expired(a) \in ActionRecord
    BY DEF Expired
  <1>5. Begun(a) \in ActionRecord
    BY DEF Begun
  <1>6. \A o \in Outcome : Finished(a, o) \in ActionRecord
    BY DEF Finished
  <1> QED
    BY <1>1, <1>2, <1>3, <1>4, <1>5, <1>6

LEMMA ProposedTyped == Proposed \in ActionRecord /\ NoAction \in ActionRecord
  BY DEF ActionRecord, Status, Undecided, HandedAt, NoToken, Proposed, NoAction

\* A handler that saves an action and records an event keeps both typed.
LEMMA SaveTyped ==
  ASSUME TypeOK, NEW i \in Ids, NEW a \in ActionRecord, NEW e \in Event,
         SaveAndRecord(i, a, e)
  PROVE  store' \in [Ids -> ActionRecord] /\ ledger' \in [Ids -> Seq(Entry)]
  <1>1. a.current \in Nat
    BY DEF ActionRecord
  <1>2. [event |-> e, version |-> a.current] \in Entry
    BY <1>1 DEF Entry
  <1>3. Append(ledger[i], [event |-> e, version |-> a.current]) \in Seq(Entry)
    BY <1>2 DEF TypeOK
  <1> QED
    BY <1>3 DEF TypeOK, SaveAndRecord

LEMMA TypeStep == TypeOK /\ [Next]_vars => TypeOK'
  <1> SUFFICES ASSUME TypeOK, [Next]_vars PROVE TypeOK'
    OBVIOUS
  <1> USE TransitionsTyped, ProposedTyped, SaveTyped
  <1>1. CASE UNCHANGED vars
    BY <1>1 DEF TypeOK, vars
  <1>2. CASE Restart
    BY <1>2 DEF TypeOK, Restart, NoToken
  <1>3. ASSUME NEW i \in Ids, User(i) PROVE TypeOK'
    <2>0. store[i] \in ActionRecord /\ issued[i] \in Nat /\ store[i].current \in Nat
      BY DEF TypeOK, ActionRecord
    <2>1. CASE Propose(i)
      BY <2>1 DEF TypeOK, Propose, Event
    <2>2. CASE Show(i)
      BY <2>0, <2>2 DEF TypeOK, Show
    <2>3. CASE Edit(i)
      <3>1. Edited(store[i]) \in ActionRecord /\ "edited" \in Event
        BY <2>0 DEF Event
      <3>2. SaveAndRecord(i, Edited(store[i]), "edited")
        BY <2>3 DEF Edit
      <3>3. store' \in [Ids -> ActionRecord] /\ ledger' \in [Ids -> Seq(Entry)]
        BY <3>1, <3>2
      <3> QED
        BY <2>3, <3>3 DEF TypeOK, Edit
    <2>4. ASSUME NEW v \in pages[i], Approve(i, v) PROVE TypeOK'
      <3>1. v \in Nat
        BY <2>0 DEF TypeOK
      <3>2. issued[i] + 1 \in Nat
        BY ONLY <2>0
      <3>2a. Approved(store[i], v, issued[i] + 1) \in ActionRecord
        BY ONLY <2>0, <3>1, <3>2, TransitionsTyped
      <3>3. "approved" \in Event
        BY DEF Event
      <3>4. SaveAndRecord(i, Approved(store[i], v, issued[i] + 1), "approved")
        BY <2>4 DEF Approve
      <3>5. store' \in [Ids -> ActionRecord] /\ ledger' \in [Ids -> Seq(Entry)]
        BY <3>2a, <3>3, <3>4
      <3>6. UNCHANGED <<due, handed, taken>>
        BY ONLY <2>4 DEF Approve
      <3>7. issued' \in [Ids -> Nat]
        BY ONLY <2>4, <3>2, TypeOK DEF Approve, TypeOK
      <3>8. pages' \in [Ids -> SUBSET Nat]
        BY ONLY <2>4, TypeOK DEF Approve, TypeOK
      <3> QED
        BY ONLY TypeOK, <3>6, <3>7, <3>8, <3>5 DEF TypeOK, Approve
    <2>5. CASE ApproveTooLate(i)
      BY <2>0, <2>5 DEF TypeOK, ApproveTooLate, Event
    <2>6. CASE Decline(i)
      BY <2>0, <2>6 DEF TypeOK, Decline, Event
    <2> QED
      BY <1>3, <2>1, <2>2, <2>3, <2>4, <2>5, <2>6 DEF User
  <1>4. ASSUME NEW i \in Ids, Executor(i) PROVE TypeOK'
    <2>0. store[i] \in ActionRecord /\ store[i].token \in Nat /\ store[i].approved \in Nat
      BY DEF TypeOK, ActionRecord
    <2>1. CASE HandOut(i)
      <3>1. Append(taken[i], store[i].approved) \in Seq(Nat)
        BY <2>0 DEF TypeOK
      <3> QED
        BY <2>0, <2>1, <3>1 DEF TypeOK, HandOut, Event
    <2>2. CASE RefuseLate(i)
      BY <2>0, <2>2 DEF TypeOK, RefuseLate, Event
    <2>3. ASSUME NEW t \in 1 .. issued[i], NEW o \in Outcome, NEW known \in BOOLEAN,
                 Report(i, t, o, IF known THEN t ELSE 0)
          PROVE  TypeOK'
      <3> DEFINE s == IF known THEN t ELSE 0
                 a == IF o = "unknown" THEN [store[i] EXCEPT !.submitted_as = s] ELSE store[i]
      <3>1. s \in Nat
        BY DEF TypeOK
      <3>2. a \in ActionRecord
        BY <2>0, <3>1 DEF ActionRecord
      <3>3. Finished(a, o) \in ActionRecord /\ o \in Event
        BY <3>2 DEF Event
      <3>4. SaveAndRecord(i, Finished(a, o), o)
        BY <2>3 DEF Report
      <3> HIDE DEF a, s
      <3> QED
        BY <2>3, <3>3, <3>4 DEF TypeOK, Report, NoToken
    <2>4. ASSUME NEW s \in 1 .. issued[i], ConfirmSent(i, s) PROVE TypeOK'
      <3>1. [store[i] EXCEPT !.status = "executed"] \in ActionRecord
        BY <2>0 DEF ActionRecord, Status, Outcome
      <3> QED
        BY <2>4, <3>1 DEF TypeOK, ConfirmSent, Event, Outcome
    <2> QED
      BY <1>4, <2>1, <2>2, <2>3, <2>4 DEF Executor
  <1>5. ASSUME NEW i \in Ids, Clock(i) PROVE TypeOK'
    <2>0. store[i] \in ActionRecord
      BY DEF TypeOK
    <2>1. CASE TimeIsUp(i)
      BY <2>1 DEF TypeOK, TimeIsUp
    <2>2. CASE ReportIsOverdue(i)
      <3>1. [store[i] EXCEPT !.handed_at = "silent"] \in ActionRecord
        BY <2>0 DEF ActionRecord, HandedAt
      <3> QED
        BY <2>2, <3>1 DEF TypeOK, ReportIsOverdue
    <2>3. CASE ExpireDue(i)
      <3>1. "expired" \in Event /\ "unknown" \in Event /\ "unknown" \in Outcome
        BY DEF Event, Outcome
      <3>2. Expired(store[i]) \in ActionRecord /\ Finished(store[i], "unknown") \in ActionRecord
        BY <2>0, <3>1
      <3>3. \/ SaveAndRecord(i, Expired(store[i]), "expired")
            \/ SaveAndRecord(i, Finished(store[i], "unknown"), "unknown")
        BY <2>3 DEF ExpireDue
      <3>4. store' \in [Ids -> ActionRecord] /\ ledger' \in [Ids -> Seq(Entry)]
        BY <3>1, <3>2, <3>3
      <3>5. UNCHANGED <<due, issued, pages, taken>> /\ handed' \in [Ids -> Nat]
        BY <2>3 DEF TypeOK, ExpireDue, NoToken
      <3> QED
        BY <3>4, <3>5 DEF TypeOK
    <2> QED
      BY <1>5, <2>1, <2>2, <2>3 DEF Clock
  <1> QED
    BY <1>1, <1>2, <1>3, <1>4, <1>5 DEF Next

\* Every reachable state of Actions is well typed.
THEOREM TypeCorrect == Spec => []TypeOK
  <1>1. Init => TypeOK
    BY ProposedTyped DEF Init, TypeOK, NoToken
  <1> QED
    BY <1>1, TypeStep, PTL DEF Spec

-----------------------------------------------------------------------------
(* The inductive invariant: CreditIsLive, with types. *)

\* What the transitions leave in the fields the invariants speak of.
LEMMA TransitionFields ==
  ASSUME NEW a \in ActionRecord
  PROVE  /\ Edited(a).status = "pending" /\ Edited(a).token = NoToken
         /\ Edited(a).current = a.current + 1
         /\ \A v, t \in Nat : /\ Approved(a, v, t).status = "approved"
                              /\ Approved(a, v, t).approved = v
                              /\ Approved(a, v, t).token = t
                              /\ Approved(a, v, t).current = a.current
         /\ Declined(a).status = "declined" /\ Declined(a).token = NoToken
         /\ Declined(a).current = a.current
         /\ Expired(a).status = "expired" /\ Expired(a).token = NoToken
         /\ Expired(a).current = a.current
         /\ Begun(a).status = a.status /\ Begun(a).token = NoToken
         /\ Begun(a).current = a.current
         /\ \A o \in Outcome : /\ Finished(a, o).status = o
                               /\ Finished(a, o).token = NoToken
                               /\ Finished(a, o).current = a.current
  <1> USE DEF ActionRecord
  <1>1. /\ Edited(a).status = "pending" /\ Edited(a).token = NoToken
        /\ Edited(a).current = a.current + 1
    BY DEF Edited
  <1>2. \A v, t \in Nat : /\ Approved(a, v, t).status = "approved"
                          /\ Approved(a, v, t).approved = v
                          /\ Approved(a, v, t).token = t
                          /\ Approved(a, v, t).current = a.current
    BY DEF Approved
  <1>3. /\ Declined(a).status = "declined" /\ Declined(a).token = NoToken
        /\ Declined(a).current = a.current
    BY DEF Declined
  <1>4. /\ Expired(a).status = "expired" /\ Expired(a).token = NoToken
        /\ Expired(a).current = a.current
    BY DEF Expired
  <1>5. /\ Begun(a).status = a.status /\ Begun(a).token = NoToken
        /\ Begun(a).current = a.current
    BY DEF Begun
  <1>6. \A o \in Outcome : /\ Finished(a, o).status = o
                           /\ Finished(a, o).token = NoToken
                           /\ Finished(a, o).current = a.current
    BY DEF Finished
  <1> QED
    BY <1>1, <1>2, <1>3, <1>4, <1>5, <1>6

LEMMA ProposedFields ==
  /\ Proposed.status = "pending" /\ Proposed.token = NoToken /\ Proposed.current = 1
  /\ NoAction.status = "absent" /\ NoAction.token = NoToken /\ NoAction.current = 0
  BY DEF Proposed, NoAction

\* Saving touches the one action and appends the one entry.
LEMMA SaveEffect ==
  ASSUME TypeOK, NEW i \in Ids, NEW a \in ActionRecord, NEW e \in Event,
         SaveAndRecord(i, a, e)
  PROVE  /\ store'[i] = a
         /\ Len(ledger'[i]) = Len(ledger[i]) + 1
         /\ ledger'[i][Len(ledger'[i])] = [event |-> e, version |-> a.current]
         /\ \A k \in 1 .. Len(ledger[i]) : ledger'[i][k] = ledger[i][k]
         /\ \A j \in Ids \ {i} : store'[j] = store[j] /\ ledger'[j] = ledger[j]
  <1>1. store'[i] = a /\ ledger'[i] = Append(ledger[i], [event |-> e, version |-> a.current])
    BY DEF SaveAndRecord, TypeOK
  <1>2. \A j \in Ids \ {i} : store'[j] = store[j] /\ ledger'[j] = ledger[j]
    BY DEF SaveAndRecord, TypeOK
  <1>3. ledger[i] \in Seq(Entry)
    BY DEF TypeOK
  <1> DEFINE x == [event |-> e, version |-> a.current]
  <1>4. x \in Entry
    BY DEF Entry, ActionRecord
  <1> HIDE DEF x
  <1>5. /\ Len(Append(ledger[i], x)) = Len(ledger[i]) + 1
        /\ Append(ledger[i], x)[Len(ledger[i]) + 1] = x
        /\ \A k \in 1 .. Len(ledger[i]) : Append(ledger[i], x)[k] = ledger[i][k]
    BY ONLY <1>3, <1>4
  <1> QED
    BY ONLY <1>1, <1>2, <1>5 DEF x

-----------------------------------------------------------------------------
(* What one step can do to one action j: the actions of Next, seen from j. *)

Logged(j, e) ==
  /\ Len(ledger'[j]) = Len(ledger[j]) + 1
  /\ ledger'[j][Len(ledger'[j])] = [event |-> e, version |-> store'[j].current]
  /\ \A k \in 1 .. Len(ledger[j]) : ledger'[j][k] = ledger[j][k]

Becomes(j, status, current) ==
  store'[j].status = status /\ store'[j].current = current

\* Another action's step, a page, the clock, a restart.
Quiet(j) ==
  /\ Becomes(j, store[j].status, store[j].current)
  /\ store'[j].token = store[j].token /\ store'[j].approved = store[j].approved
  /\ ledger'[j] = ledger[j] /\ taken'[j] = taken[j]
  /\ handed'[j] \in {handed[j], NoToken}

Proposing(j) ==
  /\ store[j].status = "absent"
  /\ Becomes(j, "pending", 1) /\ store'[j].token = NoToken
  /\ Logged(j, "proposed") /\ taken'[j] = taken[j] /\ handed'[j] = handed[j]

Editing(j) ==
  /\ j \in Editable /\ store[j].status \in Undecided
  /\ Becomes(j, "pending", store[j].current + 1) /\ store'[j].token = NoToken
  /\ Logged(j, "edited") /\ taken'[j] = taken[j] /\ handed'[j] = handed[j]

Approving(j) ==
  /\ store[j].status = "pending"
  /\ Becomes(j, "approved", store[j].current)
  /\ store'[j].approved = store[j].current /\ store'[j].token # NoToken
  /\ Logged(j, "approved") /\ taken'[j] = taken[j] /\ handed'[j] = handed[j]

Refusing(j, e, status) ==
  /\ store[j].status = "pending" \/ Takeable(store[j]) \/ store[j].status = status
  /\ <<e, status>> \in {<<"declined", "declined">>, <<"withdrawn", "declined">>,
                        <<"expired", "expired">>, <<"refused", "expired">>}
  /\ Becomes(j, status, store[j].current) /\ store'[j].token = NoToken
  /\ Logged(j, e) /\ taken'[j] = taken[j] /\ handed'[j] = handed[j]

HandingOut(j) ==
  /\ Takeable(store[j])
  /\ Becomes(j, "approved", store[j].current) /\ store'[j].token = NoToken
  /\ Logged(j, "executing")
  /\ taken'[j] = Append(taken[j], store[j].approved) /\ handed'[j] = store[j].token

Finishing(j, o) ==
  /\ handed[j] # NoToken \/ InAConnectorsHands(store[j])
  /\ Becomes(j, o, store[j].current) /\ store'[j].token = NoToken
  /\ Logged(j, o) /\ taken'[j] = taken[j] /\ handed'[j] = NoToken

Confirming(j) ==
  /\ store[j].status = "unknown"
  /\ Becomes(j, "executed", store[j].current) /\ store'[j].token = store[j].token
  /\ Logged(j, "executed") /\ taken'[j] = taken[j] /\ handed'[j] = handed[j]

StepOf(j) ==
  \/ Quiet(j) \/ Proposing(j) \/ Editing(j) \/ Approving(j)
  \/ \E e \in Event, status \in Status : Refusing(j, e, status)
  \/ HandingOut(j)
  \/ \E o \in Outcome : Finishing(j, o)
  \/ Confirming(j)

LEMMA EventFacts ==
  /\ "proposed" \in Event /\ "edited" \in Event /\ "approved" \in Event
  /\ "declined" \in Event /\ "withdrawn" \in Event /\ "expired" \in Event
  /\ "executing" \in Event /\ "refused" \in Event
  /\ "executed" \in Event /\ "unknown" \in Event /\ "unknown" \in Outcome
  /\ \A o \in Outcome : o \in Event
  /\ "declined" \in Status /\ "expired" \in Status
  BY DEF Event, Outcome, Status

LEMMA SaveSelf ==
  ASSUME TypeOK, NEW i \in Ids, NEW a \in ActionRecord, NEW e \in Event,
         SaveAndRecord(i, a, e)
  PROVE  store'[i] = a /\ Logged(i, e)
  <1>1. store'[i] = a
    BY SaveEffect
  <1> QED
    BY <1>1, SaveEffect DEF Logged

\* A step of action i leaves every other action alone.
LEMMA SaveOther ==
  ASSUME TypeOK, NEW i \in Ids, NEW a \in ActionRecord, NEW e \in Event,
         SaveAndRecord(i, a, e), NEW j \in Ids, i # j,
         taken'[j] = taken[j], handed'[j] = handed[j]
  PROVE  StepOf(j)
  <1>1. store'[j] = store[j] /\ ledger'[j] = ledger[j]
    BY SaveEffect
  <1> QED
    BY <1>1 DEF StepOf, Quiet, Becomes

LEMMA UserStep ==
  ASSUME TypeOK, NEW i \in Ids, User(i), NEW j \in Ids
  PROVE  StepOf(j)
  <1>0. store[i] \in ActionRecord /\ issued[i] \in Nat /\ store[i].current \in Nat
    BY DEF TypeOK, ActionRecord
  <1>1. CASE Propose(i)
    <2>1. SaveAndRecord(i, Proposed, "proposed") /\ UNCHANGED <<taken, handed>>
      BY <1>1 DEF Propose
    <2>2. Proposed \in ActionRecord /\ "proposed" \in Event
      BY ProposedTyped, EventFacts
    <2>3. store'[i] = Proposed /\ Logged(i, "proposed")
      BY ONLY TypeOK, <2>1, <2>2, SaveSelf
    <2>4. store[i].status = "absent"
      BY <1>1 DEF Propose
    <2>5. CASE i = j
      <3>1. Proposing(j)
        BY <2>1, <2>3, <2>4, <2>5, ProposedFields DEF Proposing, Becomes
      <3> QED
        BY <3>1, EventFacts DEF StepOf
    <2>6. CASE i # j
      BY ONLY TypeOK, <2>1, <2>2, <2>6, SaveOther
    <2> QED
      BY <2>5, <2>6
  <1>2. CASE Show(i)
    BY <1>2 DEF Show, StepOf, Quiet, Becomes
  <1>3. CASE Edit(i)
    <2>1. SaveAndRecord(i, Edited(store[i]), "edited") /\ UNCHANGED <<taken, handed>>
      BY <1>3 DEF Edit
    <2>2. Edited(store[i]) \in ActionRecord /\ "edited" \in Event
      BY <1>0, TransitionsTyped, EventFacts
    <2>3. store'[i] = Edited(store[i]) /\ Logged(i, "edited")
      BY ONLY TypeOK, <2>1, <2>2, SaveSelf
    <2>4. i \in Editable /\ store[i].status \in Undecided
      BY <1>3 DEF Edit, CanEdit
    <2>5. CASE i = j
      <3>1. Editing(j)
        BY <1>0, <2>1, <2>3, <2>4, <2>5, TransitionFields DEF Editing, Becomes
      <3> QED
        BY <3>1, EventFacts DEF StepOf
    <2>6. CASE i # j
      BY ONLY TypeOK, <2>1, <2>2, <2>6, SaveOther
    <2> QED
      BY <2>5, <2>6
  <1>4. ASSUME NEW v \in pages[i], Approve(i, v) PROVE StepOf(j)
    <2>0. v \in Nat /\ issued[i] + 1 \in Nat /\ issued[i] + 1 # NoToken
      BY <1>0 DEF TypeOK, NoToken
    <2>1. SaveAndRecord(i, Approved(store[i], v, issued[i] + 1), "approved") /\ UNCHANGED <<taken, handed>>
      BY <1>4 DEF Approve
    <2>2. Approved(store[i], v, issued[i] + 1) \in ActionRecord /\ "approved" \in Event
      BY <1>0, <2>0, TransitionsTyped, EventFacts
    <2>3. store'[i] = Approved(store[i], v, issued[i] + 1) /\ Logged(i, "approved")
      BY ONLY TypeOK, <2>1, <2>2, SaveSelf
    <2>4. store[i].status = "pending" /\ v = store[i].current
      BY <1>4 DEF Approve, CanApprove
    <2>5. CASE i = j
      <3>1. Approving(j)
        BY <1>0, <2>0, <2>1, <2>3, <2>4, <2>5, TransitionFields DEF Approving, Becomes
      <3> QED
        BY <3>1, EventFacts DEF StepOf
    <2>6. CASE i # j
      BY ONLY TypeOK, <2>1, <2>2, <2>6, SaveOther
    <2> QED
      BY <2>5, <2>6
  <1>5. CASE ApproveTooLate(i)
    <2>1. SaveAndRecord(i, Expired(store[i]), "expired") /\ UNCHANGED <<taken, handed>>
      BY <1>5 DEF ApproveTooLate
    <2>2. Expired(store[i]) \in ActionRecord /\ "expired" \in Event
      BY <1>0, TransitionsTyped, EventFacts
    <2>3. store'[i] = Expired(store[i]) /\ Logged(i, "expired")
      BY ONLY TypeOK, <2>1, <2>2, SaveSelf
    <2>4. store[i].status \in {"pending", "expired"}
      BY <1>5 DEF ApproveTooLate, IsDue, LapsedBefore
    <2>5. CASE i = j
      <3>1. Refusing(j, "expired", "expired")
        BY <1>0, <2>1, <2>3, <2>4, <2>5, TransitionFields DEF Refusing, Becomes
      <3> QED
        BY <3>1, EventFacts DEF StepOf
    <2>6. CASE i # j
      BY ONLY TypeOK, <2>1, <2>2, <2>6, SaveOther
    <2> QED
      BY <2>5, <2>6
  <1>6. CASE Decline(i)
    <2>1. PICK e \in {"declined", "withdrawn"} :
            SaveAndRecord(i, Declined(store[i]), e) /\ UNCHANGED <<taken, handed>>
      BY <1>6 DEF Decline
    <2>2. Declined(store[i]) \in ActionRecord /\ e \in Event
      BY <1>0, TransitionsTyped, EventFacts
    <2>3. store'[i] = Declined(store[i]) /\ Logged(i, e)
      BY ONLY TypeOK, <2>1, <2>2, SaveSelf
    <2>4. store[i].status = "pending" \/ Takeable(store[i])
      BY <1>6 DEF Decline, CanDecline, CanWithdraw
    <2>5. CASE i = j
      <3>1. Refusing(j, e, "declined")
        BY <1>0, <2>1, <2>3, <2>4, <2>5, TransitionFields DEF Refusing, Becomes
      <3> QED
        BY <2>2, <3>1, EventFacts DEF StepOf
    <2>6. CASE i # j
      BY ONLY TypeOK, <2>1, <2>2, <2>6, SaveOther
    <2> QED
      BY <2>5, <2>6
  <1> QED
    BY <1>1, <1>2, <1>3, <1>4, <1>5, <1>6 DEF User

LEMMA ExecutorStep ==
  ASSUME TypeOK, NEW i \in Ids, Executor(i), NEW j \in Ids
  PROVE  StepOf(j)
  <1>0. store[i] \in ActionRecord /\ store[i].current \in Nat /\ store[i].token \in Nat
    BY DEF TypeOK, ActionRecord
  <1>1. CASE HandOut(i)
    <2>1. SaveAndRecord(i, Begun(store[i]), "executing")
      BY <1>1 DEF HandOut
    <2>2. Begun(store[i]) \in ActionRecord /\ "executing" \in Event
      BY <1>0, TransitionsTyped, EventFacts
    <2>3. store'[i] = Begun(store[i]) /\ Logged(i, "executing")
      BY ONLY TypeOK, <2>1, <2>2, SaveSelf
    <2>4. /\ Takeable(store[i])
          /\ taken' = [taken EXCEPT ![i] = Append(@, store[i].approved)]
          /\ handed' = [handed EXCEPT ![i] = store[i].token]
      BY <1>1 DEF HandOut, CanBegin
    <2>5. CASE i = j
      <3>1. taken'[j] = Append(taken[j], store[j].approved) /\ handed'[j] = store[j].token
        BY <2>4, <2>5 DEF TypeOK
      <3>2. store[i].status = "approved"
        BY <2>4 DEF Takeable
      <3>3. HandingOut(j)
        BY <1>0, <2>3, <2>4, <2>5, <3>1, <3>2, TransitionFields DEF HandingOut, Becomes
      <3> QED
        BY <3>3 DEF StepOf
    <2>6. CASE i # j
      <3>1. taken'[j] = taken[j] /\ handed'[j] = handed[j]
        BY <2>4, <2>6 DEF TypeOK
      <3> QED
        BY ONLY TypeOK, <2>1, <2>2, <2>6, <3>1, SaveOther
    <2> QED
      BY <2>5, <2>6
  <1>2. CASE RefuseLate(i)
    <2>1. SaveAndRecord(i, Expired(store[i]), "refused") /\ UNCHANGED <<taken, handed>>
      BY <1>2 DEF RefuseLate
    <2>2. Expired(store[i]) \in ActionRecord /\ "refused" \in Event
      BY <1>0, TransitionsTyped, EventFacts
    <2>3. store'[i] = Expired(store[i]) /\ Logged(i, "refused")
      BY ONLY TypeOK, <2>1, <2>2, SaveSelf
    <2>4. Takeable(store[i])
      BY <1>2 DEF RefuseLate
    <2>5. CASE i = j
      <3>1. Refusing(j, "refused", "expired")
        BY <1>0, <2>1, <2>3, <2>4, <2>5, TransitionFields DEF Refusing, Becomes
      <3> QED
        BY <3>1, EventFacts DEF StepOf
    <2>6. CASE i # j
      BY ONLY TypeOK, <2>1, <2>2, <2>6, SaveOther
    <2> QED
      BY <2>5, <2>6
  <1>3. ASSUME NEW t \in 1 .. issued[i], NEW o \in Outcome, NEW known \in BOOLEAN,
               Report(i, t, o, IF known THEN t ELSE 0)
        PROVE  StepOf(j)
    <2> DEFINE s == IF known THEN t ELSE 0
               a == IF o = "unknown" THEN [store[i] EXCEPT !.submitted_as = s] ELSE store[i]
    <2>0. s \in Nat
      BY DEF TypeOK
    <2>1. a \in ActionRecord /\ a.current = store[i].current
      BY <1>0, <2>0 DEF ActionRecord
    <2>2. SaveAndRecord(i, Finished(a, o), o)
      BY <1>3 DEF Report
    <2>3. handed[i] # NoToken /\ handed' = [handed EXCEPT ![i] = NoToken] /\ taken' = taken
      BY <1>3 DEF Report
    <2> HIDE DEF a, s
    <2>4. Finished(a, o) \in ActionRecord /\ o \in Event
      BY ONLY <2>1, TransitionsTyped, EventFacts, o \in Outcome
    <2>5. store'[i] = Finished(a, o) /\ Logged(i, o)
      BY ONLY TypeOK, <2>2, <2>4, SaveSelf
    <2>6. CASE i = j
      <3>1. handed'[j] = NoToken
        BY <2>3, <2>6 DEF TypeOK
      <3>2. Finishing(j, o)
        BY <2>1, <2>3, <2>5, <2>6, <3>1, TransitionFields DEF Finishing, Becomes
      <3> QED
        BY <3>2 DEF StepOf
    <2>7. CASE i # j
      <3>1. handed'[j] = handed[j] /\ taken'[j] = taken[j]
        BY <2>3, <2>7 DEF TypeOK
      <3> QED
        BY ONLY TypeOK, <2>2, <2>4, <2>7, <3>1, SaveOther
    <2> QED
      BY <2>6, <2>7
  <1>4. ASSUME NEW s \in 1 .. issued[i], ConfirmSent(i, s) PROVE StepOf(j)
    <2> DEFINE a == [store[i] EXCEPT !.status = "executed"]
    <2>1. SaveAndRecord(i, a, "executed") /\ UNCHANGED <<taken, handed>>
      BY <1>4 DEF ConfirmSent
    <2>2. a \in ActionRecord /\ "executed" \in Event
      BY <1>0, EventFacts DEF ActionRecord, Status, Outcome
    <2>3. /\ a.status = "executed" /\ a.current = store[i].current
          /\ a.token = store[i].token
      BY <1>0 DEF ActionRecord
    <2>4. store[i].status = "unknown"
      BY <1>4 DEF ConfirmSent
    <2> HIDE DEF a
    <2>5. store'[i] = a /\ Logged(i, "executed")
      BY ONLY TypeOK, <2>1, <2>2, SaveSelf
    <2>6. CASE i = j
      <3>1. Confirming(j)
        BY <2>1, <2>3, <2>4, <2>5, <2>6 DEF Confirming, Becomes
      <3> QED
        BY <3>1 DEF StepOf
    <2>7. CASE i # j
      BY ONLY TypeOK, <2>1, <2>2, <2>7, SaveOther
    <2> QED
      BY <2>6, <2>7
  <1> QED
    BY <1>1, <1>2, <1>3, <1>4 DEF Executor

LEMMA ClockStep ==
  ASSUME TypeOK, NEW i \in Ids, Clock(i), NEW j \in Ids
  PROVE  StepOf(j)
  <1>0. store[i] \in ActionRecord /\ store[j] \in ActionRecord
    BY DEF TypeOK
  <1>1. CASE TimeIsUp(i)
    BY <1>1 DEF TimeIsUp, StepOf, Quiet, Becomes
  <1>2. CASE ReportIsOverdue(i)
    <2>1. /\ store'[j].status = store[j].status /\ store'[j].current = store[j].current
          /\ store'[j].token = store[j].token /\ store'[j].approved = store[j].approved
      BY <1>0, <1>2 DEF ReportIsOverdue, TypeOK, ActionRecord
    <2> QED
      BY <1>2, <2>1 DEF ReportIsOverdue, StepOf, Quiet, Becomes
  <1>3. CASE ExpireDue(i) /\ IsDue(store[i], due[i])
    <2>1. SaveAndRecord(i, Expired(store[i]), "expired") /\ UNCHANGED <<taken, handed>>
      BY <1>3 DEF ExpireDue, InAConnectorsHands, IsDue
    <2>2. Expired(store[i]) \in ActionRecord /\ "expired" \in Event
      BY <1>0, TransitionsTyped, EventFacts
    <2>3. store'[i] = Expired(store[i]) /\ Logged(i, "expired")
      BY ONLY TypeOK, <2>1, <2>2, SaveSelf
    <2>4. store[i].status = "pending"
      BY <1>3 DEF IsDue
    <2>5. CASE i = j
      <3>1. Refusing(j, "expired", "expired")
        BY <1>0, <2>1, <2>3, <2>4, <2>5, TransitionFields DEF Refusing, Becomes
      <3> QED
        BY <3>1, EventFacts DEF StepOf
    <2>6. CASE i # j
      BY ONLY TypeOK, <2>1, <2>2, <2>6, SaveOther
    <2> QED
      BY <2>5, <2>6
  <1>4. CASE ExpireDue(i) /\ ~IsDue(store[i], due[i])
    <2>1. SaveAndRecord(i, Finished(store[i], "unknown"), "unknown")
      BY <1>4 DEF ExpireDue
    <2>2. Finished(store[i], "unknown") \in ActionRecord /\ "unknown" \in Event
      BY <1>0, TransitionsTyped, EventFacts
    <2>3. store'[i] = Finished(store[i], "unknown") /\ Logged(i, "unknown")
      BY ONLY TypeOK, <2>1, <2>2, SaveSelf
    <2>4. /\ InAConnectorsHands(store[i]) /\ taken' = taken
          /\ handed' = [handed EXCEPT ![i] = NoToken]
      BY <1>4 DEF ExpireDue
    <2>5. CASE i = j
      <3>1. handed'[j] = NoToken
        BY <2>4, <2>5 DEF TypeOK
      <3>2. Finishing(j, "unknown")
        BY <1>0, <2>3, <2>4, <2>5, <3>1, TransitionFields, EventFacts DEF Finishing, Becomes
      <3> QED
        BY <3>2, EventFacts DEF StepOf
    <2>6. CASE i # j
      <3>1. handed'[j] = handed[j] /\ taken'[j] = taken[j]
        BY <2>4, <2>6 DEF TypeOK
      <3> QED
        BY ONLY TypeOK, <2>1, <2>2, <2>6, <3>1, SaveOther
    <2> QED
      BY <2>5, <2>6
  <1> QED
    BY <1>1, <1>2, <1>3, <1>4 DEF Clock

LEMMA Step ==
  ASSUME TypeOK, [Next]_vars, NEW j \in Ids
  PROVE  StepOf(j)
  <1>1. CASE UNCHANGED vars
    BY <1>1 DEF vars, StepOf, Quiet, Becomes
  <1>2. CASE Restart
    BY <1>2 DEF Restart, StepOf, Quiet, Becomes
  <1> QED
    BY <1>1, <1>2, UserStep, ExecutorStep, ClockStep DEF Next

-----------------------------------------------------------------------------
(* The inductive invariant, and what follows from it. *)

LEMMA Types ==
  ASSUME TypeOK, NEW j \in Ids
  PROVE  /\ store[j] \in ActionRecord /\ store[j].current \in Nat
         /\ store[j].token \in Nat /\ store[j].approved \in Nat
         /\ store[j].status \in Status
         /\ ledger[j] \in Seq(Entry) /\ taken[j] \in Seq(Nat) /\ handed[j] \in Nat
         /\ Len(taken[j]) \in Nat
         /\ \A k \in 1 .. Len(taken[j]) : taken[j][k] \in Nat
  BY DEF TypeOK, ActionRecord

\* A new entry is the last one of a longer ledger, and taken is as it was.
LEMMA LoggedFacts ==
  ASSUME TypeOK, TypeOK', NEW j \in Ids, NEW e \in Event, Logged(j, e)
  PROVE  /\ Len(ledger[j]) \in Nat
         /\ Len(ledger'[j]) > 0 /\ ledger'[j] # <<>>
         /\ ledger'[j][Len(ledger'[j])].event = e
         /\ ledger'[j][Len(ledger'[j])].version = store'[j].current
  BY Types DEF Logged

LEMMA CreditStep ==
  ASSUME TypeOK, TypeOK', [Next]_vars, NEW j \in Ids, CreditOf(j)
  PROVE  CreditOf(j)'
  <1> USE Types, EventFacts
  <1>1. CASE Quiet(j)
    BY <1>1 DEF Quiet, Becomes, CreditOf, Live, Takeable
  <1>2. CASE Proposing(j)
    BY <1>2 DEF Proposing, Becomes, CreditOf, Live, Takeable
  <1>3. CASE Editing(j)
    <2>1. taken'[j] = taken[j] /\ store'[j].current = store[j].current + 1
      BY <1>3 DEF Editing, Becomes
    <2>2. \A k \in 1 .. Len(taken[j]) : taken[j][k] < store[j].current + 1
      BY DEF CreditOf
    <2>3. store'[j].status = "pending" /\ store'[j].token = NoToken
      BY <1>3 DEF Editing, Becomes
    <2> QED
      BY ONLY <2>1, <2>2, <2>3, Types, TypeOK, TypeOK' DEF CreditOf, Live, Takeable
  <1>4. CASE Approving(j)
    <2>1. /\ Len(ledger'[j]) > 0
          /\ ledger'[j][Len(ledger'[j])] =
               [event |-> "approved", version |-> store'[j].current]
      BY <1>4, LoggedFacts DEF Approving, Logged
    <2> QED
      BY <1>4, <2>1 DEF Approving, Becomes, CreditOf, Live, Takeable
  <1>5. ASSUME NEW e \in Event, NEW st \in Status, Refusing(j, e, st) PROVE CreditOf(j)'
    <2>1. st \in {"declined", "expired"}
      BY <1>5 DEF Refusing
    <2> QED
      BY <1>5, <2>1 DEF Refusing, Becomes, CreditOf, Live, Takeable
  <1>6. CASE HandingOut(j)
    BY <1>6 DEF HandingOut, Becomes, CreditOf, Live, Takeable
  <1>7. ASSUME NEW o \in Outcome, Finishing(j, o) PROVE CreditOf(j)'
    <2>1. o \notin {"absent", "pending", "approved"}
      BY DEF Outcome
    <2>2. store[j].status # "absent" /\ store[j].current # 0
      BY <1>7 DEF Finishing, CreditOf, InAConnectorsHands
    <2> QED
      BY <1>7, <2>1, <2>2 DEF Finishing, Becomes, CreditOf, Live, Takeable
  <1>8. CASE Confirming(j)
    BY <1>8 DEF Confirming, Becomes, CreditOf, Live, Takeable
  <1> QED
    BY <1>1, <1>2, <1>3, <1>4, <1>5, <1>6, <1>7, <1>8, Step DEF StepOf

Increasing(s) == \A j, k \in 1 .. Len(s) : j < k => s[j] < s[k]

LEMMA AppendIncreasing ==
  ASSUME NEW s \in Seq(Nat), Increasing(s), NEW n \in Nat,
         \A k \in 1 .. Len(s) : s[k] < n
  PROVE  Increasing(Append(s, n))
  <1> DEFINE t == Append(s, n)
  <1>1. /\ Len(s) \in Nat /\ Len(t) = Len(s) + 1
        /\ t[Len(s) + 1] = n
        /\ \A k \in 1 .. Len(s) : t[k] = s[k]
    OBVIOUS
  <1> HIDE DEF t
  <1>2. ASSUME NEW j \in 1 .. Len(t), NEW k \in 1 .. Len(t), j < k PROVE t[j] < t[k]
    <2>1. j \in 1 .. Len(s)
      BY <1>1, <1>2
    <2>2. CASE k \in 1 .. Len(s)
      BY <1>1, <1>2, <2>1, <2>2 DEF Increasing
    <2>3. CASE k = Len(s) + 1
      BY <1>1, <1>2, <2>1, <2>3
    <2> QED
      BY <1>1, <2>2, <2>3
  <1> QED
    BY <1>2 DEF Increasing, t

LEMMA TakenStep ==
  ASSUME TypeOK, [Next]_vars, NEW j \in Ids, CreditOf(j), Increasing(taken[j])
  PROVE  Increasing(taken'[j])
  <1>1. CASE HandingOut(j)
    <2>1. \A k \in 1 .. Len(taken[j]) : taken[j][k] < store[j].approved
      BY <1>1 DEF HandingOut, CreditOf, Live, Takeable
    <2>2. taken'[j] = Append(taken[j], store[j].approved)
      BY <1>1 DEF HandingOut
    <2> QED
      BY <2>1, <2>2, Types, AppendIncreasing
  <1>2. CASE taken'[j] = taken[j]
    BY <1>2
  <1> QED
    BY <1>1, <1>2, Step
       DEF StepOf, Quiet, Proposing, Editing, Approving, Refusing, Finishing, Confirming

Audit(j) ==
  /\ \A k \in 1 .. Len(ledger[j]) :
       ledger[j][k].event = "executing" =>
         /\ k > 1
         /\ ledger[j][k - 1] = [event |-> "approved", version |-> ledger[j][k].version]
  /\ IF ledger[j] = <<>>
       THEN store[j].status = "absent"
       ELSE LET last == ledger[j][Len(ledger[j])]
            IN  /\ store[j].status  = StatusAfter(last.event)
                /\ store[j].current = last.version

LEMMA StatusAfterFacts ==
  /\ StatusAfter("proposed") = "pending"   /\ StatusAfter("edited") = "pending"
  /\ StatusAfter("approved") = "approved"  /\ StatusAfter("executing") = "approved"
  /\ StatusAfter("declined") = "declined"  /\ StatusAfter("withdrawn") = "declined"
  /\ StatusAfter("expired") = "expired"    /\ StatusAfter("refused") = "expired"
  /\ \A o \in Outcome : StatusAfter(o) = o
  BY DEF StatusAfter, Outcome

\* The first half of Audit survives any entry that is not a hand-out.
LEMMA OtherEntry ==
  ASSUME TypeOK, TypeOK', NEW j \in Ids, Audit(j), NEW e \in Event, e # "executing",
         Logged(j, e), store'[j].status = StatusAfter(e)
  PROVE  Audit(j)'
  <1>1. /\ Len(ledger[j]) \in Nat /\ ledger'[j] # <<>>
        /\ Len(ledger'[j]) = Len(ledger[j]) + 1
        /\ ledger'[j][Len(ledger'[j])].event = e
        /\ ledger'[j][Len(ledger'[j])].version = store'[j].current
        /\ \A k \in 1 .. Len(ledger[j]) : ledger'[j][k] = ledger[j][k]
    BY LoggedFacts DEF Logged
  <1>2. ASSUME NEW k \in 1 .. Len(ledger'[j]), ledger'[j][k].event = "executing"
        PROVE  /\ k > 1
               /\ ledger'[j][k - 1] =
                    [event |-> "approved", version |-> ledger'[j][k].version]
    <2>1. k \in 1 .. Len(ledger[j])
      BY <1>1, <1>2
    <2>2. /\ k > 1
          /\ ledger[j][k - 1] = [event |-> "approved", version |-> ledger[j][k].version]
      BY <1>1, <1>2, <2>1 DEF Audit
    <2>3. k - 1 \in 1 .. Len(ledger[j])
      BY <1>1, <2>1, <2>2
    <2> QED
      BY <1>1, <2>1, <2>2, <2>3
  <1> QED
    BY <1>1, <1>2 DEF Audit

LEMMA ExecutingEntry ==
  ASSUME TypeOK, TypeOK', NEW j \in Ids, Audit(j), CreditOf(j), HandingOut(j)
  PROVE  Audit(j)'
  <1>1. /\ Len(ledger[j]) \in Nat /\ ledger'[j] # <<>>
        /\ Len(ledger'[j]) = Len(ledger[j]) + 1
        /\ ledger'[j][Len(ledger'[j])].event = "executing"
        /\ ledger'[j][Len(ledger'[j])].version = store'[j].current
        /\ \A k \in 1 .. Len(ledger[j]) : ledger'[j][k] = ledger[j][k]
    BY LoggedFacts, EventFacts DEF Logged, HandingOut
  <1>2. /\ Len(ledger[j]) > 0
        /\ ledger[j][Len(ledger[j])] = [event |-> "approved", version |-> store[j].current]
        /\ store'[j].current = store[j].current
    BY DEF HandingOut, CreditOf, Takeable, Becomes
  <1>3. ASSUME NEW k \in 1 .. Len(ledger'[j]), ledger'[j][k].event = "executing"
        PROVE  /\ k > 1
               /\ ledger'[j][k - 1] =
                    [event |-> "approved", version |-> ledger'[j][k].version]
    <2>1. CASE k \in 1 .. Len(ledger[j])
      <3>1. /\ k > 1
            /\ ledger[j][k - 1] = [event |-> "approved", version |-> ledger[j][k].version]
        BY <1>1, <1>3, <2>1 DEF Audit
      <3>2. k - 1 \in 1 .. Len(ledger[j])
        BY <1>1, <2>1, <3>1
      <3> QED
        BY <1>1, <2>1, <3>1, <3>2
    <2>2. CASE k = Len(ledger'[j])
      <3>1. k - 1 = Len(ledger[j]) /\ k - 1 \in 1 .. Len(ledger[j])
        BY <1>1, <1>2, <2>2
      <3> QED
        BY <1>1, <1>2, <2>2, <3>1
    <2> QED
      BY <1>1, <2>1, <2>2
  <1>4. store'[j].status = "approved"
    BY DEF HandingOut, Becomes
  <1> QED
    BY <1>1, <1>3, <1>4, StatusAfterFacts DEF Audit

LEMMA AuditStep ==
  ASSUME TypeOK, TypeOK', [Next]_vars, NEW j \in Ids, CreditOf(j), Audit(j)
  PROVE  Audit(j)'
  <1> USE StatusAfterFacts, EventFacts
  <1>1. CASE Quiet(j)
    BY <1>1 DEF Quiet, Becomes, Audit
  <1>2. CASE Proposing(j)
    BY <1>2, OtherEntry DEF Proposing, Becomes
  <1>3. CASE Editing(j)
    BY <1>3, OtherEntry DEF Editing, Becomes
  <1>4. CASE Approving(j)
    BY <1>4, OtherEntry DEF Approving, Becomes
  <1>5. ASSUME NEW e \in Event, NEW st \in Status, Refusing(j, e, st) PROVE Audit(j)'
    <2>1. Logged(j, e) /\ e # "executing" /\ store'[j].status = StatusAfter(e)
      BY <1>5 DEF Refusing, Becomes
    <2> QED
      BY <2>1, OtherEntry
  <1>6. CASE HandingOut(j)
    BY <1>6, ExecutingEntry
  <1>7. ASSUME NEW o \in Outcome, Finishing(j, o) PROVE Audit(j)'
    <2>1. Logged(j, o) /\ o # "executing" /\ store'[j].status = StatusAfter(o)
      BY <1>7 DEF Finishing, Becomes, Outcome
    <2> QED
      BY <2>1, OtherEntry
  <1>8. CASE Confirming(j)
    <2>1. /\ Logged(j, "executed")
          /\ store'[j].status = StatusAfter("executed")
      BY <1>8 DEF Confirming, Becomes, Outcome
    <2> QED
      BY <2>1, OtherEntry
  <1> QED
    BY <1>1, <1>2, <1>3, <1>4, <1>5, <1>6, <1>7, <1>8, Step DEF StepOf

Hands(j) == j \notin Editable /\ handed[j] # NoToken => InAConnectorsHands(store[j])

LEMMA HandsStep ==
  ASSUME TypeOK, [Next]_vars, NEW j \in Ids, Hands(j)
  PROVE  Hands(j)'
  <1> USE DEF Hands, InAConnectorsHands, Becomes, Takeable
  <1>1. CASE Quiet(j)
    BY <1>1 DEF Quiet
  <1>2. CASE Proposing(j)
    BY <1>2 DEF Proposing
  <1>3. CASE Editing(j)
    BY <1>3 DEF Editing
  <1>4. CASE Approving(j)
    BY <1>4 DEF Approving
  <1>5. ASSUME NEW e \in Event, NEW st \in Status, Refusing(j, e, st) PROVE Hands(j)'
    BY <1>5 DEF Refusing
  <1>6. CASE HandingOut(j)
    BY <1>6 DEF HandingOut
  <1>7. ASSUME NEW o \in Outcome, Finishing(j, o) PROVE Hands(j)'
    BY <1>7 DEF Finishing
  <1>8. CASE Confirming(j)
    BY <1>8 DEF Confirming
  <1> QED
    BY <1>1, <1>2, <1>3, <1>4, <1>5, <1>6, <1>7, <1>8, Step DEF StepOf

LEMMA SettledStep ==
  ASSUME TypeOK, [Next]_vars, NEW j \in Ids \ Editable, Hands(j), store[j].status \in Settled
  PROVE  store'[j].status = store[j].status
  <1>1. store[j].status \notin {"absent", "pending", "approved", "unknown"}
    BY DEF Settled
  <1> QED
    BY <1>1, Step DEF StepOf, Quiet, Proposing, Editing, Approving, Refusing, HandingOut,
         Finishing, Confirming, Becomes, Takeable, Hands, InAConnectorsHands

Inv ==
  /\ TypeOK
  /\ \A j \in Ids : CreditOf(j) /\ Increasing(taken[j]) /\ Audit(j) /\ Hands(j)

LEMMA InvInit == Init => Inv
  <1> SUFFICES ASSUME Init PROVE Inv
    OBVIOUS
  <1>1. TypeOK
    BY ProposedTyped DEF Init, TypeOK, NoToken
  <1>2. ASSUME NEW j \in Ids PROVE CreditOf(j) /\ Increasing(taken[j]) /\ Audit(j) /\ Hands(j)
    <2>1. store[j] = NoAction /\ taken[j] = <<>> /\ ledger[j] = <<>> /\ handed[j] = NoToken
      BY DEF Init
    <2>2. CreditOf(j)
      BY <2>1, ProposedFields DEF CreditOf, Live, Takeable
    <2>3. Increasing(taken[j]) /\ Audit(j) /\ Hands(j)
      BY <2>1, ProposedFields DEF Increasing, Audit, Hands
    <2> QED
      BY <2>2, <2>3
  <1> QED
    BY <1>1, <1>2 DEF Inv

LEMMA InvStep == Inv /\ [Next]_vars => Inv'
  <1> SUFFICES ASSUME Inv, [Next]_vars PROVE Inv'
    OBVIOUS
  <1>1. TypeOK /\ TypeOK'
    BY TypeStep DEF Inv
  <1>2. ASSUME NEW j \in Ids PROVE (CreditOf(j) /\ Increasing(taken[j]) /\ Audit(j) /\ Hands(j))'
    <2>1. CreditOf(j) /\ Increasing(taken[j]) /\ Audit(j) /\ Hands(j)
      BY DEF Inv
    <2>2. CreditOf(j)' /\ Audit(j)'
      BY <1>1, <2>1, CreditStep, AuditStep
    <2>3. Increasing(taken'[j]) /\ Hands(j)'
      BY <1>1, <2>1, TakenStep, HandsStep
    <2> QED
      BY <2>2, <2>3
  <1> QED
    BY <1>1, <1>2 DEF Inv

LEMMA Invariant == Spec => []Inv
  BY InvInit, InvStep, PTL DEF Spec

-----------------------------------------------------------------------------
(* The theorems. *)

\* The credit an approval gives is live only for the newest version.
THEOREM CreditAlwaysLive == Spec => []CreditIsLive
  <1>1. Inv => CreditIsLive
    BY DEF Inv, CreditIsLive
  <1> QED
    BY <1>1, Invariant, PTL

\* No version is handed to an executor twice, and none after a newer one.
THEOREM HandedOutAtMostOnce == Spec => []HandedOutOnce
  <1>1. Inv => HandedOutOnce
    BY DEF Inv, HandedOutOnce, Increasing
  <1> QED
    BY <1>1, Invariant, PTL

\* The ledger shows an approval of the same words right before every hand-out.
THEOREM LedgerShowsApprovals == Spec => []ExecutingFollowsApproval
  <1>1. Inv => ExecutingFollowsApproval
    BY DEF Inv, Audit, ExecutingFollowsApproval
  <1> QED
    BY <1>1, Invariant, PTL

\* Ledger and store never disagree on where an action stands.
THEOREM LedgerAgrees == Spec => []LedgerSaysStatus
  <1>1. Inv => LedgerSaysStatus
    BY DEF Inv, Audit, LedgerSaysStatus
  <1> QED
    BY <1>1, Invariant, PTL

\* A report on an effect that cannot be edited lands on what was handed out.
THEOREM ReportsFindTheirAction == Spec => []ReportFindsItsAction
  <1>1. Inv => ReportFindsItsAction
    BY DEF Inv, Hands, ReportFindsItsAction
  <1> QED
    BY <1>1, Invariant, PTL

\* Settled actions whose effect cannot be edited stay settled.
THEOREM SettledStaysSettled == Spec => SettledStays
  <1> DEFINE A == \A i \in Ids \ Editable :
                    store[i].status \in Settled => store'[i].status = store[i].status
  <1>1. Inv /\ [Next]_vars => [A]_vars
    BY SettledStep DEF Inv
  <1> QED
    BY <1>1, Invariant, PTL DEF Spec, SettledStays

-----------------------------------------------------------------------------
(* Actions implements Approval. *)

CreditNow(j) == IF Takeable(store[j]) THEN store[j].approved ELSE 0

\* What a step may do to what Approval sees of action j.
Same(j) ==
  /\ store'[j].current = store[j].current
  /\ CreditNow(j)' = CreditNow(j) /\ taken'[j] = taken[j]

Drafted(j) ==
  /\ store'[j].current = store[j].current + 1
  /\ CreditNow(j)' = 0 /\ taken'[j] = taken[j]

Credited(j) ==
  /\ store[j].current # 0
  /\ \A k \in 1 .. Len(taken[j]) : taken[j][k] # store[j].current
  /\ store'[j].current = store[j].current
  /\ CreditNow(j)' = store[j].current /\ taken'[j] = taken[j]

Voided(j) ==
  /\ store'[j].current = store[j].current
  /\ CreditNow(j)' = 0 /\ taken'[j] = taken[j]

Spent(j) ==
  /\ CreditNow(j) # 0
  /\ store'[j].current = store[j].current
  /\ CreditNow(j)' = 0 /\ taken'[j] = Append(taken[j], CreditNow(j))

\* What a step does to one action is a step of that action for Approval.
LEMMA SeenStep ==
  ASSUME Inv, [Next]_vars, NEW j \in Ids
  PROVE  Same(j) \/ Drafted(j) \/ Credited(j) \/ Voided(j) \/ Spent(j)
  <1>0. TypeOK /\ CreditOf(j)
    BY DEF Inv
  <1> USE <1>0, Types DEF CreditNow, Becomes, Takeable
  <1>1. CASE Quiet(j)
    BY <1>1 DEF Quiet, Same
  <1>2. CASE Proposing(j)
    BY <1>2 DEF Proposing, Drafted, CreditOf
  <1>3. CASE Editing(j)
    BY <1>3 DEF Editing, Drafted
  <1>4. CASE Approving(j)
    <2>1. store[j].current # 0
      BY <1>4 DEF Approving, CreditOf
    <2>2. \A k \in 1 .. Len(taken[j]) : taken[j][k] < store[j].current
      BY <1>4 DEF Approving, CreditOf, Live
    <2>3. CreditNow(j)' = store[j].current
      BY <1>4 DEF Approving
    <2>4. \A k \in 1 .. Len(taken[j]) : taken[j][k] # store[j].current
      BY <2>2
    <2> QED
      BY <1>4, <2>1, <2>3, <2>4 DEF Approving, Credited
  <1>5. ASSUME NEW e \in Event, NEW st \in Status, Refusing(j, e, st) PROVE Voided(j)
    BY <1>5 DEF Refusing, Voided
  <1>6. CASE HandingOut(j)
    BY <1>6 DEF HandingOut, Spent, CreditOf
  <1>7. ASSUME NEW o \in Outcome, Finishing(j, o) PROVE Voided(j)
    BY <1>7 DEF Finishing, Voided, Outcome
  <1>8. CASE Confirming(j)
    BY <1>8 DEF Confirming, Same
  <1> QED
    BY <1>1, <1>2, <1>3, <1>4, <1>5, <1>6, <1>7, <1>8, Step DEF StepOf

\* One step changes what Approval sees of at most one action.
LEMMA OneAtATime ==
  ASSUME Inv, Next
  PROVE  \/ \A j \in Ids : Same(j)
         \/ \E i \in Ids : \A j \in Ids \ {i} : Same(j)
  <1>0. TypeOK
    BY DEF Inv
  <1>1. CASE Restart
    BY <1>1 DEF Restart, Same, CreditNow
  <1>2. ASSUME NEW i \in Ids, User(i) \/ Executor(i) \/ Clock(i), NEW j \in Ids \ {i}
        PROVE  store'[j] = store[j] /\ taken'[j] = taken[j]
    <2> USE <1>0 DEF TypeOK
    <2>1. CASE User(i)
      BY <2>1 DEF User, Propose, Show, Edit, Approve, ApproveTooLate, Decline, SaveAndRecord
    <2>2. CASE Executor(i)
      BY <2>2 DEF Executor, HandOut, RefuseLate, Report, ConfirmSent, SaveAndRecord
    <2>3. CASE Clock(i)
      BY <2>3 DEF Clock, TimeIsUp, ReportIsOverdue, ExpireDue, SaveAndRecord
    <2> QED
      BY <1>2, <2>1, <2>2, <2>3
  <1> QED
    BY <1>1, <1>2 DEF Next, Same, CreditNow

\* What Approval calls draft, credit and taken.
Drafts  == [i \in Ids |-> store[i].current]
Credits == [i \in Ids |-> IF Takeable(store[i]) THEN store[i].approved ELSE 0]

LEMMA PromiseInit == Init => Promise!Init
  BY ProposedFields DEF Init, Promise!Init, Takeable

LEMMA PromiseStep == Inv /\ [Next]_vars => [Promise!Next]_(Promise!vars)
  <1> SUFFICES ASSUME Inv, [Next]_vars
               PROVE  Promise!Next \/ UNCHANGED <<Drafts, Credits, taken>>
    BY DEF Promise!vars, Drafts, Credits
  <1>0. TypeOK
    BY DEF Inv
  <1>1. CASE UNCHANGED vars
    BY <1>1 DEF vars, Drafts, Credits
  <1>2. CASE \A j \in Ids : Same(j)
    <2>1. Drafts' = Drafts /\ Credits' = Credits
      BY <1>2 DEF Same, Drafts, Credits, CreditNow
    <2>2. taken' = taken
      BY <1>0, <1>2, TypeStep DEF Same, TypeOK
    <2> QED
      BY <2>1, <2>2
  <1>3. ASSUME NEW i \in Ids, \A j \in Ids \ {i} : Same(j)
        PROVE  Promise!Next \/ UNCHANGED <<Drafts, Credits, taken>>
    <2>1. TypeOK'
      BY <1>0, TypeStep
    <2>2. taken \in [Ids -> Seq(Nat)] /\ taken' \in [Ids -> Seq(Nat)]
      BY <1>0, <2>1 DEF TypeOK
    <2>3. \A d, c : \/ ~(store'[i].current = d /\ CreditNow(i)' = c)
                    \/ /\ Drafts' = [Drafts EXCEPT ![i] = d]
                       /\ Credits' = [Credits EXCEPT ![i] = c]
      BY <1>3 DEF Same, Drafts, Credits, CreditNow
    <2>4. \A t : taken'[i] = t => taken' = [taken EXCEPT ![i] = t]
      BY <1>3, <2>2 DEF Same
    <2>5. Drafts[i] = store[i].current /\ Credits[i] = CreditNow(i)
      BY DEF Drafts, Credits, CreditNow
    <2>6. taken'[i] = taken[i] => taken' = taken
      BY <1>3, <2>2 DEF Same
    <2>7. CASE Same(i)
      <3>1. Drafts' = Drafts /\ Credits' = Credits
        BY <1>3, <2>7 DEF Same, Drafts, Credits, CreditNow
      <3> QED
        BY <2>6, <2>7, <3>1 DEF Same
    <2>8. CASE Drafted(i)
      <3>1. /\ Drafts' = [Drafts EXCEPT ![i] = Drafts[i] + 1]
            /\ Credits' = [Credits EXCEPT ![i] = 0] /\ taken' = taken
        BY <2>3, <2>5, <2>6, <2>8 DEF Drafted
      <3>2. Promise!Draft(i)
        BY <3>1 DEF Promise!Draft, Drafts, Credits
      <3> QED
        BY <3>2 DEF Promise!Next
    <2>9. CASE Credited(i) \/ Voided(i)
      <3>1. Drafts' = [Drafts EXCEPT ![i] = Drafts[i]] /\ taken' = taken
        BY <2>3, <2>5, <2>6, <2>9 DEF Credited, Voided
      <3>2. Drafts' = Drafts
        BY <3>1 DEF Drafts
      <3>3. CASE Credited(i)
        <4>1. Credits' = [Credits EXCEPT ![i] = Drafts[i]]
          BY <2>3, <2>5, <3>3 DEF Credited
        <4>2. Drafts[i] # 0 /\ \A k \in 1 .. Len(taken[i]) : taken[i][k] # Drafts[i]
          BY <2>5, <3>3 DEF Credited
        <4>3. Promise!Approve(i)
          BY <3>1, <3>2, <4>1, <4>2 DEF Promise!Approve, Promise!WasTaken, Drafts, Credits
        <4> QED
          BY <4>3 DEF Promise!Next
      <3>4. CASE Voided(i)
        <4>1. Credits' = [Credits EXCEPT ![i] = 0]
          BY <2>3, <2>5, <3>4 DEF Voided
        <4>2. Promise!Void(i)
          BY <3>1, <3>2, <4>1 DEF Promise!Void, Drafts, Credits
        <4> QED
          BY <4>2 DEF Promise!Next
      <3> QED
        BY <2>9, <3>3, <3>4
    <2>10. CASE Spent(i)
      <3>1. /\ Drafts' = [Drafts EXCEPT ![i] = Drafts[i]]
            /\ Credits' = [Credits EXCEPT ![i] = 0]
            /\ taken' = [taken EXCEPT ![i] = Append(taken[i], Credits[i])]
            /\ Credits[i] # 0
        BY <2>3, <2>4, <2>5, <2>10 DEF Spent
      <3>2. Drafts' = Drafts
        BY <3>1 DEF Drafts
      <3>3. Promise!HandOut(i)
        BY <3>1, <3>2 DEF Promise!HandOut, Drafts, Credits
      <3> QED
        BY <3>3 DEF Promise!Next
    <2> QED
      BY <2>7, <2>8, <2>9, <2>10, SeenStep
  <1> QED
    BY <1>1, <1>2, <1>3, OneAtATime

\* Actions keeps the promise of Approval.
THEOREM ActionsImplementsApproval == Spec => ApprovalKept
  <1> QED
    BY PromiseInit, PromiseStep, Invariant, PTL DEF Spec, ApprovalKept, Promise!Spec
=============================================================================
