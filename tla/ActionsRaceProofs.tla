------------------------- MODULE ActionsRaceProofs --------------------------
(***************************************************************************)
(* Whatever handlers do to each other's writes, for any number of them, of *)
(* drafts and of approvals.                                                *)
(*                                                                         *)
(* A row is good by itself: it has as many words as versions, and if it    *)
(* can be taken, its token was issued for the words it approves.  Whether  *)
(* it is the newest does not matter, so a good copy written over a good    *)
(* row leaves a good row, however old the copy is; approvals are never     *)
(* forgotten.                                                              *)
(***************************************************************************)
EXTENDS ActionsRace, SequenceTheorems, TLAPS

Fits(r) ==
  Takeable(r.action) =>
    [words |-> r.words[r.action.approved], token |-> r.action.token] \in approvals

Good(r) ==
  /\ r \in Row
  /\ Len(r.words) = r.action.current
  /\ r.action.status = "pending" => r.action.current # 0
  /\ Fits(r)

Memory ==
  /\ due \in BOOLEAN
  /\ handed \in Nat
  /\ page \subseteq Shown
  /\ drafts \in Nat
  /\ issued \in Nat
  /\ approvals \subseteq Grant
  /\ given \in Seq(Grant)

Doings ==
  /\ doing \in [Handlers -> Doing]
  /\ \A h \in Handlers : Good(doing[h].copy)

IInv == Memory /\ Good(row) /\ Doings /\ OnlyApprovedIsGiven

-----------------------------------------------------------------------------
\* Neither to be decided nor to be taken.
Over(a) == a.status # "pending" /\ ~Takeable(a)

\* What a transition makes of an action is an action.
LEMMA TransitionsTyped ==
  ASSUME NEW a \in ActionRecord
  PROVE  /\ Edited(a) \in ActionRecord
         /\ \A v, t \in Nat : Approved(a, v, t) \in ActionRecord
         /\ Declined(a) \in ActionRecord
         /\ Expired(a) \in ActionRecord
         /\ Begun(a) \in ActionRecord
         /\ \A o \in Outcome : Finished(a, o) \in ActionRecord
<1> USE DEF ActionRecord, Status, Undecided, Outcome, HandedAt, NoToken
<1>1. Edited(a) \in ActionRecord
  <2>1. [a EXCEPT !.current = a.current + 1] \in ActionRecord
    OBVIOUS
  <2> QED
    BY <2>1 DEF Edited
<1>2. \A v, t \in Nat : Approved(a, v, t) \in ActionRecord
  BY DEF Approved
<1>3. Declined(a) \in ActionRecord /\ Expired(a) \in ActionRecord /\ Begun(a) \in ActionRecord
  BY DEF Declined, Expired, Begun
<1>4. \A o \in Outcome : Finished(a, o) \in ActionRecord
  BY DEF Finished
<1> QED
  BY <1>1, <1>2, <1>3, <1>4

\* Every transition but an edit keeps the number of the newest version, and none
\* but an approval leaves anything to take.
LEMMA TransitionsGood ==
  ASSUME NEW a \in ActionRecord
  PROVE  /\ \A v, t \in Nat : Approved(a, v, t).current = a.current
         /\ Declined(a).current = a.current /\ Over(Declined(a))
         /\ Expired(a).current = a.current /\ Over(Expired(a))
         /\ Takeable(a) => Begun(a).current = a.current /\ Over(Begun(a))
         /\ \A o \in Outcome : Finished(a, o).current = a.current /\ Over(Finished(a, o))
         /\ Edited(a).current = a.current + 1 /\ ~Takeable(Edited(a))
BY DEF ActionRecord, Approved, Declined, Expired, Begun, Finished, Edited, Takeable, NoToken,
       Outcome, Over

LEMMA IdleIsGood == Idle \in Doing /\ Good(Idle.copy)
<1>1. NoAction \in ActionRecord /\ ~Takeable(NoAction) /\ NoAction.status # "pending"
  BY DEF ActionRecord, Status, Undecided, HandedAt, NoToken, NoAction, Takeable
<1>2. Idle.copy = [action |-> NoAction, words |-> <<>>] /\ <<>> \in Seq(Nat) /\ Len(<<>>) = 0
  BY DEF Idle
<1>3. Idle.copy \in Row /\ Idle.copy.action = NoAction /\ Idle.copy.words = <<>>
  BY <1>1, <1>2 DEF Row
<1>4. Good(Idle.copy)
  BY <1>1, <1>2, <1>3 DEF Good, Fits, NoAction
<1>5. QED
  BY <1>3, <1>4 DEF Idle, Doing, Op, NothingShown, Shown

LEMMA InitHolds == Init => IInv
<1> SUFFICES ASSUME Init PROVE IInv
  OBVIOUS
<1>1. Memory
  <2>1. given \in Seq(Grant)
    BY DEF Init
  <2>2. due \in BOOLEAN /\ handed \in Nat /\ page \subseteq Shown /\ approvals \subseteq Grant
    BY DEF Init, NoToken
  <2>3. drafts \in Nat /\ issued \in Nat
    BY DEF Init
  <2>4. QED
    BY <2>1, <2>2, <2>3 DEF Memory
<1>2. Good(row)
  <2>1. Proposed \in ActionRecord /\ ~Takeable(Proposed) /\ Proposed.current = 1
    BY DEF ActionRecord, Status, Undecided, HandedAt, NoToken, NoAction, Proposed, Takeable
  <2>2. row.action = Proposed /\ row.words = <<1>> /\ row \in Row
    BY <2>1 DEF Init, Row
  <2>3. QED
    BY <2>1, <2>2 DEF Good, Fits
<1>3. Doings
  BY IdleIsGood DEF Init, Doings
<1>4. OnlyApprovedIsGiven
  BY DEF Init, OnlyApprovedIsGiven
<1>5. QED
  BY <1>1, <1>2, <1>3, <1>4 DEF IInv

-----------------------------------------------------------------------------
\* Approvals are not forgotten, so what was good is good.
LEMMA GoodStays ==
  ASSUME NEW r, Good(r), approvals \subseteq approvals'
  PROVE  Good(r)'
BY DEF Good, Fits

\* A handler that puts a good row in the store and is done.
LEMMA WritesGood ==
  ASSUME IInv, NEW h \in Handlers, doing' = [doing EXCEPT ![h] = Idle], Good(row)',
         approvals \subseteq approvals', Memory', OnlyApprovedIsGiven'
  PROVE  IInv'
<1>1. Doings'
  <2>1. doing' \in [Handlers -> Doing]
    BY IdleIsGood DEF IInv, Doings
  <2>2. ASSUME NEW k \in Handlers PROVE Good(doing[k].copy)'
    <3>1. doing'[k] = IF k = h THEN Idle ELSE doing[k]
      BY DEF IInv, Doings
    <3>2. Good(doing'[k].copy)
      BY <3>1, IdleIsGood DEF IInv, Doings
    <3>3. QED
      BY <3>2, GoodStays
  <2>3. QED
    BY <2>1, <2>2 DEF Doings
<1>2. QED
  BY <1>1 DEF IInv

Ends(h, a) == WriteBack(h, a) /\ a.current = Copy(h).current /\ Over(a)

\* One that writes back its copy with a transition made on it that leaves nothing
\* to take.
LEMMA EndsTheAction ==
  ASSUME IInv, NEW h \in Handlers, NEW a \in ActionRecord, Ends(h, a),
         approvals' = approvals, Memory', OnlyApprovedIsGiven'
  PROVE  IInv'
<1> USE DEF Ends, Over
<1>1. doing[h].copy \in Row /\ Len(doing[h].copy.words) = Copy(h).current
  BY DEF IInv, Doings, Good, Copy
<1>2. row' \in Row /\ row'.action = a /\ row'.words = doing[h].copy.words
  BY <1>1 DEF WriteBack, Row
<1>3. Good(row)'
  BY <1>1, <1>2 DEF Good, Fits
<1>4. QED
  BY <1>3, WritesGood DEF WriteBack

\* A step that leaves the row, the approvals and what was given alone, and gives
\* handlers good copies only.
LEMMA KeepsTheRow ==
  ASSUME IInv, UNCHANGED <<row, approvals, given>>, Memory',
         doing' \in [Handlers -> Doing],
         \A k \in Handlers : doing'[k] = doing[k] \/ doing'[k].copy \in {row, Idle.copy}
  PROVE  IInv'
<1>1. Good(row)'
  BY DEF IInv, Good, Fits
<1>2. Doings'
  <2>1. ASSUME NEW k \in Handlers PROVE Good(doing[k].copy)'
    <3>1. Good(doing'[k].copy)
      BY IdleIsGood DEF IInv, Doings
    <3>2. QED
      BY <3>1 DEF Good, Fits
  <2>2. QED
    BY <2>1 DEF Doings
<1>3. QED
  BY <1>1, <1>2 DEF IInv, OnlyApprovedIsGiven

-----------------------------------------------------------------------------
(* The steps of a handler.                                                 *)

LEMMA StartHolds == ASSUME IInv, NEW h \in Handlers, Start(h) PROVE IInv'
<1>1. PICK op \in Op, shown \in Shown : Read(h, op, shown) /\ handed' \in {handed, NoToken}
  <2>1. NothingShown \in Shown /\ page \subseteq Shown
    BY DEF NothingShown, Shown, IInv, Memory
  <2>2. QED
    BY <2>1 DEF Start, Op
<1>2. [op |-> op, shown |-> shown, copy |-> row] \in Doing
  BY DEF Doing, IInv, Good
<1>3. doing' \in [Handlers -> Doing]
  BY <1>1, <1>2 DEF Read, IInv, Doings
<1>4. \A k \in Handlers : doing'[k] = doing[k] \/ doing'[k].copy = row
  BY <1>1 DEF Read, IInv, Doings
<1>5. Memory'
  BY <1>1 DEF Read, IInv, Memory, NoToken
<1>6. QED
  BY <1>1, <1>3, <1>4, <1>5, KeepsTheRow DEF Read

LEMMA RefuseHolds == ASSUME IInv, NEW h \in Handlers, Refuse(h) PROVE IInv'
<1>1. doing' = [doing EXCEPT ![h] = Idle] /\ UNCHANGED <<row, due, handed, page, drafts, issued, approvals, given>>
  BY DEF Refuse
<1>2. doing' \in [Handlers -> Doing] /\ \A k \in Handlers : doing'[k] \in {doing[k], Idle}
  BY <1>1, IdleIsGood DEF IInv, Doings
<1>3. Memory'
  BY <1>1 DEF IInv, Memory
<1>4. QED
  BY <1>1, <1>2, <1>3, KeepsTheRow

\* An edit writes a row with one more version and its words.
LEMMA EditHolds == ASSUME IInv, NEW h \in Handlers, Edit(h) PROVE IInv'
<1> DEFINE words == doing[h].copy.words
<1>1. Copy(h) \in ActionRecord /\ words \in Seq(Nat) /\ Len(words) = Copy(h).current
  BY DEF IInv, Doings, Good, Copy, Row
<1>2. drafts' = drafts + 1 /\ drafts' \in Nat /\ approvals' = approvals /\ given' = given
  BY DEF Edit, IInv, Memory
<1>3. row' = [action |-> Edited(Copy(h)), words |-> Append(words, drafts + 1)]
  BY DEF Edit
<1>4. /\ Append(words, drafts + 1) \in Seq(Nat)
      /\ Len(Append(words, drafts + 1)) = Edited(Copy(h)).current
      /\ Append(words, drafts + 1)[Edited(Copy(h)).current] \in Nat
      /\ Edited(Copy(h)).current \in Nat \ {0}
  <2>1. Append(words, drafts + 1) \in Seq(Nat) /\ Len(Append(words, drafts + 1)) = Len(words) + 1
        /\ Append(words, drafts + 1)[Len(words) + 1] = drafts + 1
    BY <1>1, <1>2
  <2>2. Edited(Copy(h)).current = Len(words) + 1
    BY <1>1, TransitionsGood
  <2>3. Len(words) \in Nat /\ drafts + 1 \in Nat
    BY <1>1, <1>2
  <2> HIDE DEF words
  <2>4. QED
    BY <2>1, <2>2, <2>3
<1>5. row' \in Row /\ Good(row)'
  <2>1. Edited(Copy(h)) \in ActionRecord /\ ~Takeable(Edited(Copy(h)))
    BY <1>1, TransitionsTyped, TransitionsGood
  <2>2. row'.action = Edited(Copy(h)) /\ row'.words = Append(words, drafts + 1)
    BY <1>3
  <2>3. row' \in Row
    BY <1>3, <1>4, <2>1 DEF Row
  <2>4. QED
    BY <1>4, <2>1, <2>2, <2>3 DEF Good, Fits
<1>6. Newest(row') \in Shown
  BY <1>3, <1>4 DEF Newest, Shown
<1>7. Memory'
  BY <1>2, <1>6 DEF Edit, IInv, Memory
<1>8. QED
  BY <1>2, <1>5, <1>7, WritesGood DEF Edit, IInv, OnlyApprovedIsGiven

\* An approval is of the copy's newest version, whose words the request named.
LEMMA ApproveHolds == ASSUME IInv, NEW h \in Handlers, Approve(h) PROVE IInv'
<1> DEFINE copy == doing[h].copy
           v == doing[h].shown.version
           new == [words |-> doing[h].shown.words, token |-> issued + 1]
           a == Approved(Copy(h), v, issued + 1)
<1>1. copy \in Row /\ Len(copy.words) = Copy(h).current /\ Copy(h) \in ActionRecord
      /\ doing[h].shown \in Shown
  BY DEF IInv, Doings, Good, Copy, Row, Doing
<1>2. issued' = issued + 1 /\ issued' \in Nat /\ approvals' = approvals \union {new} /\ given' = given
  BY DEF Approve, IInv, Memory
<1>3. v \in 1 .. Copy(h).current /\ HashOf(h) = v /\ v \in Nat
  BY <1>1 DEF Approve, Approvable, CanApprove, Shown
<1>4. copy.words[v] = doing[h].shown.words
  BY <1>3 DEF HashOf
<1>5. a \in ActionRecord /\ a.current = Copy(h).current
  BY <1>1, <1>2, <1>3, TransitionsTyped, TransitionsGood
<1>6. a.approved = v /\ a.token = issued + 1
  BY <1>1 DEF Approved, ActionRecord
<1>7. row' \in Row /\ row'.action = a /\ row'.words = copy.words
  BY <1>1, <1>5 DEF Approve, WriteBack, Row
<1>8. Good(row)'
  BY <1>1, <1>3, <1>2, <1>4, <1>5, <1>6, <1>7 DEF Good, Fits
<1>9. Memory'
  <2>1. new \in Grant
    BY <1>1, <1>2 DEF Grant, Shown
  <2>2. QED
    BY <1>2, <2>1 DEF Approve, IInv, Memory
<1>10. OnlyApprovedIsGiven'
  BY <1>2 DEF IInv, OnlyApprovedIsGiven
<1>11. QED
  BY <1>2, <1>8, <1>9, <1>10, WritesGood DEF Approve, WriteBack

\* What is handed out is what a good copy says: words, and a token approved for them.
LEMMA TakeHolds == ASSUME IInv, NEW h \in Handlers, Take(h) PROVE IInv'
<1> DEFINE new == [words |-> doing[h].copy.words[Copy(h).approved], token |-> Copy(h).token]
<1>1. Copy(h) \in ActionRecord /\ Good(doing[h].copy)
  BY DEF IInv, Doings, Good, Copy, Row
<1>2. new \in approvals
  BY <1>1 DEF Take, CanBegin, Good, Fits, Copy
<1>3. given' = Append(given, new) /\ approvals' = approvals
  BY DEF Take
<1>4. given \in Seq(Grant) /\ new \in Grant
  BY <1>2 DEF IInv, Memory
<1>5. OnlyApprovedIsGiven'
  <2>1. ASSUME NEW k \in 1 .. Len(given') PROVE given'[k] \in approvals
    <3>1. Len(given') = Len(given) + 1 /\ Len(given) \in Nat
      BY <1>3, <1>4
    <3>2. CASE k = Len(given) + 1
      BY <1>2, <1>3, <1>4, <3>2
    <3>3. CASE k # Len(given) + 1
      <4>1. k \in 1 .. Len(given) /\ given'[k] = given[k]
        BY <1>3, <1>4, <3>1, <3>3
      <4>2. QED
        BY <4>1 DEF IInv, OnlyApprovedIsGiven
    <3>4. QED
      BY <3>2, <3>3
  <2>2. QED
    BY <1>3, <2>1 DEF OnlyApprovedIsGiven
<1>6. Memory'
  <2>1. given' \in Seq(Grant)
    BY <1>3, <1>4
  <2>2. Copy(h).token \in Nat
    BY <1>1 DEF ActionRecord
  <2>3. QED
    BY <2>1, <2>2 DEF Take, IInv, Memory
<1>7. Begun(Copy(h)) \in ActionRecord /\ Ends(h, Begun(Copy(h)))
  BY <1>1, TransitionsTyped, TransitionsGood DEF Take, CanBegin, Ends
<1>8. QED
  BY <1>3, <1>5, <1>6, <1>7, EndsTheAction

LEMMA OthersHold ==
  ASSUME IInv, NEW h \in Handlers,
         ApproveRefused(h) \/ Decline(h) \/ TakeTooLate(h) \/ Expire(h) \/ Report(h)
  PROVE  IInv'
<1>1. Copy(h) \in ActionRecord
  BY DEF IInv, Doings, Good, Copy, Row
<1>2. UNCHANGED <<due, page, drafts, issued, approvals, given>> /\ handed' \in {handed, NoToken}
  BY DEF ApproveRefused, Decline, TakeTooLate, Expire, Report
<1>3. Memory' /\ OnlyApprovedIsGiven'
  BY <1>2 DEF IInv, Memory, OnlyApprovedIsGiven, NoToken
<1>4. CASE \E a \in ActionRecord : Ends(h, a)
  BY <1>2, <1>3, <1>4, EndsTheAction
<1>5. CASE WriteBack(h, Copy(h))
  <2>1. row' = doing[h].copy
    BY <1>5 DEF WriteBack, Copy, IInv, Doings, Good, Row
  <2>2. Good(row)'
    BY <1>2, <2>1 DEF IInv, Doings, Good, Fits
  <2>3. QED
    BY <1>2, <1>3, <1>5, <2>2, WritesGood DEF WriteBack
<1>6. "unknown" \in Outcome
  BY DEF Outcome
<1>7. \/ \E a \in ActionRecord : Ends(h, a)
      \/ WriteBack(h, Copy(h))
  <2>1. CASE ApproveRefused(h)
    BY <1>1, <2>1, TransitionsTyped, TransitionsGood DEF ApproveRefused, Ends
  <2>2. CASE Decline(h) \/ TakeTooLate(h)
    BY <1>1, <2>2, TransitionsTyped, TransitionsGood DEF Decline, TakeTooLate, Ends
  <2>3. CASE Expire(h)
    BY <1>1, <1>6, <2>3, TransitionsTyped, TransitionsGood DEF Expire, Ends
  <2>4. CASE Report(h)
    BY <1>1, <2>4, TransitionsTyped, TransitionsGood DEF Report, Ends
  <2>5. QED
    BY <2>1, <2>2, <2>3, <2>4
<1>8. QED
  BY <1>4, <1>5, <1>7

-----------------------------------------------------------------------------

LEMMA NextHolds == IInv /\ [Next]_vars => IInv'
<1> SUFFICES ASSUME IInv, [Next]_vars PROVE IInv'
  OBVIOUS
<1>1. CASE UNCHANGED vars
  <2>1. Memory' /\ UNCHANGED <<row, approvals, given>>
    BY <1>1 DEF vars, IInv, Memory
  <2>2. doing' = doing
    BY <1>1 DEF vars
  <2>3. QED
    BY <2>1, <2>2, KeepsTheRow DEF IInv, Doings
<1>2. CASE \E h \in Handlers : Handle(h)
  BY <1>2, StartHolds, RefuseHolds, EditHolds, ApproveHolds, TakeHolds, OthersHold DEF Handle
<1>3. CASE Show
  <2>1. Newest(row) \in Shown
    <3>1. row \in Row /\ row.action.current = Len(row.words) /\ row.action \in ActionRecord
      BY DEF IInv, Good, Row
    <3>2. row.action.current \in Nat
      BY <3>1 DEF ActionRecord
    <3>3. row.action.current # 0
      BY <1>3 DEF Show, IInv, Good
    <3>4. QED
      BY <3>1, <3>2, <3>3 DEF Newest, Shown, Row
  <2>2. Memory' /\ UNCHANGED <<row, approvals, given, doing>>
    BY <1>3, <2>1 DEF Show, IInv, Memory
  <2>3. QED
    BY <2>2, KeepsTheRow DEF IInv, Doings
<1>4. CASE TimeIsUp
  <2>1. Memory' /\ UNCHANGED <<row, approvals, given, doing>>
    BY <1>4 DEF TimeIsUp, IInv, Memory
  <2>2. QED
    BY <2>1, KeepsTheRow DEF IInv, Doings
<1>5. CASE Restart
  <2>1. Memory' /\ UNCHANGED <<row, approvals, given>>
    BY <1>5 DEF Restart, IInv, Memory, Shown, NoToken
  <2>2. doing' \in [Handlers -> Doing] /\ \A k \in Handlers : doing'[k] = Idle
    BY <1>5, IdleIsGood DEF Restart
  <2>3. QED
    BY <2>1, <2>2, KeepsTheRow
<1>6. QED
  BY <1>1, <1>2, <1>3, <1>4, <1>5 DEF Next

\* Whatever handlers do to each other's writes, an executor is given only words
\* the user approved, on the strength of the token of that approval (actions.rs,
\* approve and approved_in_core).
THEOREM OnlyApprovedWordsAreGiven == Spec => []OnlyApprovedIsGiven
<1>1. IInv => OnlyApprovedIsGiven
  BY DEF IInv
<1>2. QED
  BY <1>1, InitHolds, NextHolds, PTL DEF Spec

\* No stale write joins a token to words it was not issued for (actions.rs, save).
THEOREM TokensFitTheirWords == Spec => []TokenFitsItsWords
<1>1. IInv => TokenFitsItsWords
  BY DEF IInv, Doings, Good, Fits, TokenFitsItsWords
<1>2. QED
  BY <1>1, InitHolds, NextHolds, PTL DEF Spec
=============================================================================
