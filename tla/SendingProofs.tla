--------------------------- MODULE SendingProofs ----------------------------
(***************************************************************************)
(* Theorems of Sending, for every set of actions, however often edited and *)
(* however often the connector and the core die.                           *)
(*                                                                         *)
(* The connector is one of the executors Actions allows, so its theorems   *)
(* hold of the mail on its way too.  The rest is about the hand-outs that  *)
(* still exist anywhere, in the connector's queue, on the wire or at the   *)
(* server: of one action, the newer token carries the newer words, and no  *)
(* words are in two hand-outs.                                             *)
(***************************************************************************)
EXTENDS Sending, ActionsProofs

InHands     == {queue[k] : k \in 1 .. Len(queue)}
Accepted(i) == {delivered[i][k] : k \in 1 .. Len(delivered[i])}
Sent        == wire \union UNION {Accepted(i) : i \in Ids}
Known       == InHands \union Sent

\* The store says the newest words did not go out, or may still go out.
Unsent(a) == a.status \in {"pending", "declined", "expired", "failed"} \/ Takeable(a)

\* Where a hand-out stands to its action: it carries no words newer than the
\* newest, none of an action unsent, and no token newer than the one whose report
\* is awaited.
Fits(job) ==
  LET i == job.id
      a == store[job.id]
  IN  /\ job.token \in 1 .. issued[i]
      /\ job.version <= a.current
      /\ Unsent(a) => job.version < a.current
      /\ a.token # NoToken => job.token < a.token
      /\ handed[i] # NoToken => job.token <= handed[i]

\* Of two hand-outs of an action, the newer carries newer words.
Ordered(a, b) ==
  a.id = b.id => /\ a.version < b.version => a.token < b.token
                 /\ a.version = b.version => a = b

\* A hand-out is in the queue once, has gone out only if it is the one at work
\* and its attempt did not fail, and is on the wire or at the server, not both.
Places ==
  /\ \A j, k \in 1 .. Len(queue) : queue[j] = queue[k] => j = k
  /\ \A k \in 1 .. Len(queue) :
       (k = 1 => phase \in {"asking", "working", "failed"}) => queue[k] \notin Sent
  /\ \A i \in Ids : \A k \in 1 .. Len(delivered[i]) :
       delivered[i][k].id = i /\ delivered[i][k] \notin wire
  /\ \A i \in Ids : \A j, k \in 1 .. Len(delivered[i]) :
       delivered[i][j] = delivered[i][k] => j = k
  /\ phase \in {"submitted"} \union Outcome => queue # <<>>
  /\ phase = "executed" => Head(queue) \in Accepted(Head(queue).id)

Numbered == \A i \in Ids : store[i].token <= issued[i]

MailInv ==
  /\ MailTypeOK
  /\ Inv
  /\ Numbered
  /\ \A job \in Known : Fits(job)
  /\ \A a, b \in Known : Ordered(a, b)
  /\ Places
  /\ ExecutedIsInTheData

-----------------------------------------------------------------------------
(* Tokens: what a step of Actions does to the numbers of one action. *)

TokenMove(j) ==
  \/ issued'[j] = issued[j] /\ store'[j].token \in {store[j].token, NoToken}
  \/ issued'[j] = issued[j] + 1 /\ store'[j].token = issued'[j]

\* Saving an action that has no new token.
LEMMA SaveToken ==
  ASSUME TypeOK, NEW i \in Ids, NEW a \in ActionRecord, NEW e \in Event,
         SaveAndRecord(i, a, e), a.token \in {store[i].token, NoToken}, issued' = issued,
         NEW j \in Ids
  PROVE  TokenMove(j)
<1>1. store'[j] = IF j = i THEN a ELSE store[j]
  BY SaveEffect
<1> QED
  BY <1>1 DEF TokenMove

LEMMA TokenStep ==
  ASSUME TypeOK, [Next]_vars, NEW j \in Ids
  PROVE  TokenMove(j)
<1>1. CASE UNCHANGED vars
  BY <1>1 DEF vars, TokenMove
<1>2. CASE Restart
  BY <1>2 DEF Restart, TokenMove
<1>3. ASSUME NEW i \in Ids, NEW a \in ActionRecord, NEW e \in Event,
             SaveAndRecord(i, a, e), a.token \in {store[i].token, NoToken}, issued' = issued
      PROVE  TokenMove(j)
  BY ONLY TypeOK, <1>3, SaveToken
<1>4. ASSUME NEW i \in Ids, User(i) PROVE TokenMove(j)
  <2>0. store[i] \in ActionRecord /\ issued[i] \in Nat
    BY DEF TypeOK
  <2>1. CASE Propose(i)
    BY <1>3, <2>1, ProposedTyped, ProposedFields, EventFacts DEF Propose
  <2>2. CASE Show(i)
    BY <2>2 DEF Show, TokenMove
  <2>3. CASE Edit(i)
    <3>1. Edited(store[i]) \in ActionRecord /\ Edited(store[i]).token = NoToken
      BY <2>0, TransitionsTyped, TransitionFields
    <3>2. SaveAndRecord(i, Edited(store[i]), "edited") /\ issued' = issued
      BY <2>3 DEF Edit
    <3> QED
      BY <1>3, <3>1, <3>2, EventFacts
  <2>4. ASSUME NEW v \in pages[i], Approve(i, v) PROVE TokenMove(j)
    <3>1. v \in Nat /\ issued[i] + 1 \in Nat
      BY <2>0 DEF TypeOK
    <3> DEFINE a == Approved(store[i], v, issued[i] + 1)
    <3>2. a \in ActionRecord
      BY ONLY <2>0, <3>1, TransitionsTyped
    <3>2a. a.token = issued[i] + 1
      BY ONLY <2>0, <3>1, TransitionFields
    <3>3. SaveAndRecord(i, a, "approved") /\ issued' = [issued EXCEPT ![i] = @ + 1]
      BY <2>4 DEF Approve
    <3> HIDE DEF a
    <3>4. store'[i] = a /\ \A k \in Ids \ {i} : store'[k] = store[k]
      BY ONLY TypeOK, <3>2, <3>3, SaveEffect, EventFacts
    <3> QED
      BY <3>2a, <3>3, <3>4 DEF TokenMove, TypeOK
  <2>5. CASE ApproveTooLate(i)
    <3>1. Expired(store[i]) \in ActionRecord /\ Expired(store[i]).token = NoToken
      BY <2>0, TransitionsTyped, TransitionFields
    <3>2. SaveAndRecord(i, Expired(store[i]), "expired") /\ issued' = issued
      BY <2>5 DEF ApproveTooLate
    <3> QED
      BY <1>3, <3>1, <3>2, EventFacts
  <2>6. CASE Decline(i)
    <3>1. Declined(store[i]) \in ActionRecord /\ Declined(store[i]).token = NoToken
      BY <2>0, TransitionsTyped, TransitionFields
    <3>2. /\ \/ SaveAndRecord(i, Declined(store[i]), "declined")
             \/ SaveAndRecord(i, Declined(store[i]), "withdrawn")
          /\ issued' = issued
      BY <2>6 DEF Decline
    <3> QED
      BY <1>3, <3>1, <3>2, EventFacts
  <2> QED
    BY <1>4, <2>1, <2>2, <2>3, <2>4, <2>5, <2>6 DEF User
<1>5. ASSUME NEW i \in Ids, Executor(i) PROVE TokenMove(j)
  <2>0. store[i] \in ActionRecord /\ issued[i] \in Nat
    BY DEF TypeOK
  <2>1. CASE HandOut(i)
    <3>1. Begun(store[i]) \in ActionRecord /\ Begun(store[i]).token = NoToken
      BY <2>0, TransitionsTyped, TransitionFields
    <3>2. SaveAndRecord(i, Begun(store[i]), "executing") /\ issued' = issued
      BY <2>1 DEF HandOut
    <3> QED
      BY <1>3, <3>1, <3>2, EventFacts
  <2>2. CASE RefuseLate(i)
    <3>1. Expired(store[i]) \in ActionRecord /\ Expired(store[i]).token = NoToken
      BY <2>0, TransitionsTyped, TransitionFields
    <3>2. SaveAndRecord(i, Expired(store[i]), "refused") /\ issued' = issued
      BY <2>2 DEF RefuseLate
    <3> QED
      BY <1>3, <3>1, <3>2, EventFacts
  <2>3. ASSUME NEW t \in 1 .. issued[i], NEW o \in Outcome, NEW known \in BOOLEAN,
               Report(i, t, o, IF known THEN t ELSE 0)
        PROVE  TokenMove(j)
    <3> DEFINE s == IF known THEN t ELSE 0
               a == IF o = "unknown" THEN [store[i] EXCEPT !.submitted_as = s] ELSE store[i]
    <3>1. s \in Nat
      BY <2>0
    <3>2. a \in ActionRecord
      BY <2>0, <3>1 DEF ActionRecord
    <3>3. SaveAndRecord(i, Finished(a, o), o) /\ issued' = issued
      BY <2>3 DEF Report
    <3> HIDE DEF a, s
    <3>4. Finished(a, o) \in ActionRecord /\ Finished(a, o).token = NoToken
      BY <3>2, TransitionsTyped, TransitionFields
    <3> QED
      BY <1>3, <3>3, <3>4, EventFacts
  <2>4. ASSUME NEW s \in 1 .. issued[i], ConfirmSent(i, s) PROVE TokenMove(j)
    <3> DEFINE a == [store[i] EXCEPT !.status = "executed"]
    <3>1. a \in ActionRecord /\ a.token = store[i].token
      BY <2>0 DEF ActionRecord, Status, Outcome
    <3>2. SaveAndRecord(i, a, "executed") /\ issued' = issued
      BY <2>4 DEF ConfirmSent
    <3> HIDE DEF a
    <3> QED
      BY <1>3, <3>1, <3>2, EventFacts
  <2> QED
    BY <1>5, <2>1, <2>2, <2>3, <2>4 DEF Executor
<1>6. ASSUME NEW i \in Ids, Clock(i) PROVE TokenMove(j)
  <2>0. store[i] \in ActionRecord /\ store[j] \in ActionRecord
    BY DEF TypeOK
  <2>1. CASE TimeIsUp(i)
    BY <2>1 DEF TimeIsUp, TokenMove
  <2>2. CASE ReportIsOverdue(i)
    <3>1. store'[j].token = store[j].token
      BY <2>0, <2>2 DEF ReportIsOverdue, TypeOK, ActionRecord
    <3> QED
      BY <2>2, <3>1 DEF ReportIsOverdue, TokenMove
  <2>3. CASE ExpireDue(i)
    <3>1. /\ Expired(store[i]) \in ActionRecord /\ Expired(store[i]).token = NoToken
          /\ Finished(store[i], "unknown") \in ActionRecord
          /\ Finished(store[i], "unknown").token = NoToken
      BY <2>0, TransitionsTyped, TransitionFields, EventFacts
    <3>2. /\ \/ SaveAndRecord(i, Expired(store[i]), "expired")
             \/ SaveAndRecord(i, Finished(store[i], "unknown"), "unknown")
          /\ issued' = issued
      BY <2>3 DEF ExpireDue
    <3> QED
      BY <1>3, <3>1, <3>2, EventFacts
  <2> QED
    BY <1>6, <2>1, <2>2, <2>3 DEF Clock
<1> QED
  BY <1>1, <1>2, <1>4, <1>5, <1>6 DEF Next

LEMMA NumberTypes ==
  ASSUME TypeOK, NEW i \in Ids
  PROVE  issued[i] \in Nat /\ store[i].token \in Nat /\ handed[i] \in Nat
BY Types DEF TypeOK

LEMMA NumberedStep == TypeOK /\ TypeOK' /\ [Next]_vars /\ Numbered => Numbered'
<1> SUFFICES ASSUME TypeOK, TypeOK', [Next]_vars, Numbered, NEW i \in Ids
             PROVE  store'[i].token <= issued'[i]
  BY DEF Numbered
<1>1. store[i].token <= issued[i] /\ issued[i] \in Nat /\ store[i].token \in Nat
  BY NumberTypes DEF Numbered
<1>2. TokenMove(i)
  BY TokenStep
<1> QED
  BY <1>1, <1>2 DEF TokenMove, NoToken

\* Whatever happens to the action, a hand-out goes on to fit it, unless a failure
\* is stored while the hand-out carries the newest words.
LEMMA FitsKept ==
  ASSUME TypeOK, TypeOK', [Next]_vars, Numbered, NEW job \in Job, Fits(job), CreditOf(job.id),
         store'[job.id].status = "failed" =>
           store[job.id].status = "failed" \/ job.version < store[job.id].current
  PROVE  Fits(job)'
<1> DEFINE i == job.id
<1>0. /\ i \in Ids /\ job.token \in Nat /\ job.version \in Nat
      /\ issued[i] \in Nat /\ store[i].token \in Nat /\ handed[i] \in Nat
      /\ store[i].current \in Nat
  BY NumberTypes, Types DEF Job
<1>1. /\ job.token >= 1 /\ job.token <= issued[i]
      /\ job.version <= store[i].current
      /\ Unsent(store[i]) => job.version < store[i].current
      /\ store[i].token # NoToken => job.token < store[i].token
      /\ handed[i] # NoToken => job.token <= handed[i]
  BY <1>0 DEF Fits
<1>2. TokenMove(i) /\ store[i].token <= issued[i]
  BY <1>0, TokenStep DEF Numbered
<1>3. /\ job.token \in 1 .. issued'[i]
      /\ store'[i].token # NoToken => job.token < store'[i].token
  BY <1>0, <1>1, <1>2 DEF TokenMove, NoToken
<1> DEFINE Goal ==
             /\ job.version <= store'[i].current
             /\ Unsent(store'[i]) => job.version < store'[i].current
             /\ handed'[i] # NoToken => job.token <= handed'[i]
<1>4. Goal
  <2>0. StepOf(i)
    BY <1>0, Step
  <2> HIDE DEF i
  <2>1. CASE Quiet(i)
    BY <1>0, <1>1, <2>1 DEF Quiet, Becomes, Unsent, Takeable
  <2>2. CASE Proposing(i)
    BY <1>0, <1>1, <2>2 DEF Proposing, Becomes, CreditOf, i
  <2>3. CASE Editing(i)
    BY <1>0, <1>1, <2>3 DEF Editing, Becomes
  <2>4. CASE Approving(i)
    BY <1>0, <1>1, <2>4 DEF Approving, Becomes, Unsent
  <2>5. ASSUME NEW e \in Event, NEW st \in Status, Refusing(i, e, st) PROVE Goal
    BY <1>0, <1>1, <2>5 DEF Refusing, Becomes, Unsent
  <2>6. CASE HandingOut(i)
    BY <1>0, <1>1, <2>6 DEF HandingOut, Becomes, Unsent, Takeable
  <2>7. ASSUME NEW o \in Outcome, Finishing(i, o) PROVE Goal
    BY <1>0, <1>1, <2>7 DEF Finishing, Becomes, Unsent, Takeable, Outcome, i
  <2>8. CASE Confirming(i)
    BY <1>0, <1>1, <2>8 DEF Confirming, Becomes, Unsent, Takeable
  <2> QED
    BY <2>0, <2>1, <2>2, <2>3, <2>4, <2>5, <2>6, <2>7, <2>8 DEF StepOf
<1> QED
  BY <1>3, <1>4 DEF Fits

-----------------------------------------------------------------------------
(* The connector is an executor: a step of Sending is a step of Actions. *)

LEMMA KnownTypes ==
  ASSUME MailTypeOK
  PROVE  Known \subseteq Job /\ InHands \subseteq Job /\ Sent \subseteq Job
BY DEF MailTypeOK, Known, InHands, Sent, Accepted

\* A report by whoever holds the hand-out is one Actions allows.
LEMMA ReportIsExecutors ==
  ASSUME NEW job \in Known, MailTypeOK, Fits(job), NEW o \in Outcome, NEW s \in {0, job.token},
         Report(job.id, job.token, o, s)
  PROVE  Next
<1>1. job.id \in Ids /\ job.token \in 1 .. issued[job.id]
  BY KnownTypes DEF Fits, Job
<1>2. \E known \in BOOLEAN : s = IF known THEN job.token ELSE 0
  OBVIOUS
<1>3. \E known \in BOOLEAN : Report(job.id, job.token, o, IF known THEN job.token ELSE 0)
  BY <1>2
<1>4. Executor(job.id)
  BY <1>1, <1>3 DEF Executor
<1> QED
  BY <1>1, <1>4 DEF Next

LEMMA InQueue ==
  ASSUME MailTypeOK
  PROVE  /\ \A k \in 1 .. Len(queue) : queue[k] \in Known /\ queue[k] \in Job
         /\ queue # <<>> => Head(queue) = queue[1] /\ Len(queue) >= 1 /\ Len(queue) \in Nat
BY DEF MailTypeOK, Known, InHands

LEMMA MailStep ==
  ASSUME MailTypeOK, \A job \in Known : Fits(job), Places, [MailNext]_mailVars
  PROVE  [Next]_vars
<1>1. CASE UNCHANGED mailVars
  BY <1>1 DEF mailVars
<1>2. CASE Connector
  <2>1. CASE NotGranted
    <3>1. queue # <<>> /\ Report(queue[Len(queue)].id, queue[Len(queue)].token, "failed", 0)
      BY <2>1 DEF NotGranted
    <3>2. queue[Len(queue)] \in Known /\ "failed" \in Outcome
      BY <3>1, InQueue DEF Outcome
    <3> QED
      BY <3>1, <3>2, ReportIsExecutors
  <2>2. CASE Answer \/ AskAgain \/ GiveUp \/ Submit
    BY <2>2 DEF Answer, AskAgain, GiveUp, Submit
  <2>3. CASE ReportHome
    <3>1. phase \in Outcome /\ Head(queue) \in Known
      BY <2>3, InQueue DEF ReportHome, Places
    <3>2. \/ UNCHANGED vars
          \/ Report(Head(queue).id, Head(queue).token, phase, Head(queue).token)
      BY <2>3 DEF ReportHome
    <3> QED
      BY <3>1, <3>2, ReportIsExecutors
  <2>4. ASSUME NEW i \in Ids, Take(i) \/ Refuse(i) PROVE Next
    BY <2>4 DEF Take, Refuse, Executor, Next
  <2>5. ASSUME NEW o \in Outcome, Answered(o) PROVE UNCHANGED vars
    BY <2>5 DEF Answered
  <2> QED
    BY <1>2, <2>1, <2>2, <2>3, <2>4, <2>5 DEF Connector
<1>3. ASSUME NEW job \in wire, Accept(job) PROVE UNCHANGED vars
  BY <1>3 DEF Accept
<1>4. ASSUME NEW i \in Ids, NEW token \in 1 .. issued[i], Sync(i, token) PROVE [Next]_vars
  <2>1. UNCHANGED vars \/ ConfirmSent(i, token)
    BY <1>4 DEF Sync
  <2> QED
    BY <2>1 DEF Executor, Next
<1>5. ASSUME NEW i \in Ids, User(i) \/ Clock(i) PROVE Next
  BY <1>5 DEF Next
<1>6. CASE ConnectorDies \/ CoreRestarts
  BY <1>6 DEF ConnectorDies, CoreRestarts, Next
<1> QED
  BY <1>1, <1>2, <1>3, <1>4, <1>5, <1>6 DEF MailNext

LEMMA MailTypeStep ==
  ASSUME MailTypeOK, \A job \in Known : Fits(job), Places, [MailNext]_mailVars
  PROVE  MailTypeOK'
<1>1. TypeOK'
  BY MailStep, TypeStep DEF MailTypeOK
<1> DEFINE Goal == (phase \in Phase /\ queue \in Seq(Job) /\ wire \subseteq Job
                    /\ delivered \in [Ids -> Seq(Job)] /\ items \in [Ids -> SUBSET Item])'
<1>2. Goal
  <2> USE DEF MailTypeOK
  <2>1. CASE UNCHANGED outside
    BY <2>1 DEF outside
  <2>2. CASE Connector
    <3>1. CASE NotGranted
      <4>1. \A k \in 1 .. Len(queue) - 1 : queue[k] \in Job
        BY InQueue
      <4>2. SubSeq(queue, 1, Len(queue) - 1) \in Seq(Job)
        BY <4>1
      <4> QED
        BY <3>1, <4>2 DEF NotGranted
    <3>2. CASE Answer \/ AskAgain \/ GiveUp
      BY <3>2 DEF Answer, AskAgain, GiveUp, Phase, Outcome
    <3>3. CASE Submit
      <4>1. Head(queue) \in Job
        BY <3>3 DEF Submit
      <4> QED
        BY <3>3, <4>1 DEF Submit, Phase
    <3>4. CASE ReportHome
      <4>1. queue # <<>>
        BY <3>4 DEF ReportHome, Places
      <4>2. Head(queue) \in Job /\ Tail(queue) \in Seq(Job)
        BY <4>1
      <4>3. [token |-> Head(queue).token, by |-> "report"] \in Item /\ Head(queue).id \in Ids
        BY <4>2 DEF Job, Item
      <4>4. items' \in [Ids -> SUBSET Item]
        <5>1. \/ items' = items
              \/ items' = [items EXCEPT ![Head(queue).id] =
                             @ \union {[token |-> Head(queue).token, by |-> "report"]}]
          BY <3>4 DEF ReportHome, Keep
        <5> QED
          BY <4>3, <5>1
      <4> QED
        BY <3>4, <4>2, <4>4 DEF ReportHome, Phase
    <3>5. ASSUME NEW i \in Ids, Take(i) PROVE Goal
      <4>1. [id |-> i, version |-> store[i].approved, token |-> store[i].token] \in Job
        BY Types DEF Job
      <4> QED
        BY <3>5, <4>1 DEF Take
    <3>6. ASSUME NEW i \in Ids, Refuse(i) PROVE Goal
      BY <3>6 DEF Refuse, outside
    <3>7. ASSUME NEW o \in Outcome, Answered(o) PROVE Goal
      BY <3>7 DEF Answered, Phase, Outcome
    <3> QED
      BY <2>2, <3>1, <3>2, <3>3, <3>4, <3>5, <3>6, <3>7 DEF Connector
  <2>3. ASSUME NEW job \in wire, Accept(job) PROVE Goal
    <3>1. job \in Job /\ job.id \in Ids
      BY DEF Job
    <3>2. delivered[job.id] \in Seq(Job)
      BY <3>1
    <3>3. Append(delivered[job.id], job) \in Seq(Job)
      BY <3>1, <3>2
    <3>4. delivered' \in [Ids -> Seq(Job)]
      BY <2>3, <3>1, <3>3 DEF Accept
    <3> QED
      BY <2>3, <3>4 DEF Accept
  <2>4. ASSUME NEW i \in Ids, NEW token \in 1 .. issued[i], Sync(i, token) PROVE Goal
    <3>1. [token |-> token, by |-> "sync"] \in Item
      BY NumberTypes DEF Item
    <3> QED
      BY <2>4, <3>1 DEF Sync, Keep
  <2>5. CASE Dies
    BY <2>5 DEF Dies, Phase
  <2> QED
    BY <2>1, <2>2, <2>3, <2>4, <2>5 DEF MailNext, mailVars, outside, ConnectorDies, CoreRestarts
<1> QED
  BY <1>1, <1>2 DEF MailTypeOK

-----------------------------------------------------------------------------
(* What a step does to the status of actions. *)

\* Only a report and a sync say failed or executed.
LEMMA OthersEndNothing ==
  ASSUME TypeOK, NEW i \in Ids, User(i) \/ Clock(i), NEW j \in Ids,
         store'[j].status \in {"failed", "executed"}
  PROVE  store'[j].status = store[j].status
<1>0. store[i] \in ActionRecord /\ issued[i] \in Nat
  BY DEF TypeOK
<1>1. ASSUME NEW a \in ActionRecord, NEW e \in Event, SaveAndRecord(i, a, e),
             a.status \notin {"failed", "executed"}
      PROVE  store'[j].status = store[j].status
  <2>1. store'[i] = a /\ \A k \in Ids \ {i} : store'[k] = store[k]
    BY ONLY TypeOK, <1>1, SaveEffect, i \in Ids
  <2> QED
    BY <1>1, <2>1
<1>2. CASE Propose(i)
  BY <1>1, <1>2, ProposedTyped, ProposedFields, EventFacts DEF Propose
<1>3. CASE Show(i) \/ TimeIsUp(i)
  BY <1>3 DEF Show, TimeIsUp
<1>4. CASE Edit(i)
  <2>1. Edited(store[i]) \in ActionRecord /\ Edited(store[i]).status = "pending"
    BY <1>0, TransitionsTyped, TransitionFields
  <2>2. SaveAndRecord(i, Edited(store[i]), "edited")
    BY <1>4 DEF Edit
  <2> QED
    BY <1>1, <2>1, <2>2, EventFacts
<1>5. ASSUME NEW v \in pages[i], Approve(i, v) PROVE store'[j].status = store[j].status
  <2>1. v \in Nat /\ issued[i] + 1 \in Nat
    BY <1>0 DEF TypeOK
  <2> DEFINE a == Approved(store[i], v, issued[i] + 1)
  <2>2. a \in ActionRecord
    BY ONLY <1>0, <2>1, TransitionsTyped
  <2>3. a.status = "approved"
    BY ONLY <1>0, <2>1, TransitionFields
  <2>4. SaveAndRecord(i, a, "approved")
    BY <1>5 DEF Approve
  <2> HIDE DEF a
  <2> QED
    BY <1>1, <2>2, <2>3, <2>4, EventFacts
<1>6. CASE ApproveTooLate(i)
  <2>1. Expired(store[i]) \in ActionRecord /\ Expired(store[i]).status = "expired"
    BY <1>0, TransitionsTyped, TransitionFields
  <2>2. SaveAndRecord(i, Expired(store[i]), "expired")
    BY <1>6 DEF ApproveTooLate
  <2> QED
    BY <1>1, <2>1, <2>2, EventFacts
<1>7. CASE Decline(i)
  <2>1. Declined(store[i]) \in ActionRecord /\ Declined(store[i]).status = "declined"
    BY <1>0, TransitionsTyped, TransitionFields
  <2>2. \/ SaveAndRecord(i, Declined(store[i]), "declined")
        \/ SaveAndRecord(i, Declined(store[i]), "withdrawn")
    BY <1>7 DEF Decline
  <2> QED
    BY <1>1, <2>1, <2>2, EventFacts
<1>8. CASE ReportIsOverdue(i)
  <2>1. store[j] \in ActionRecord
    BY DEF TypeOK
  <2> QED
    BY <1>0, <1>8, <2>1 DEF ReportIsOverdue, TypeOK, ActionRecord
<1>9. CASE ExpireDue(i)
  <2>1. /\ Expired(store[i]) \in ActionRecord /\ Expired(store[i]).status = "expired"
        /\ Finished(store[i], "unknown") \in ActionRecord
        /\ Finished(store[i], "unknown").status = "unknown"
    BY <1>0, TransitionsTyped, TransitionFields, EventFacts
  <2>2. \/ SaveAndRecord(i, Expired(store[i]), "expired")
        \/ SaveAndRecord(i, Finished(store[i], "unknown"), "unknown")
    BY <1>9 DEF ExpireDue
  <2> QED
    BY <1>1, <2>1, <2>2, EventFacts
<1> QED
  BY <1>2, <1>3, <1>4, <1>5, <1>6, <1>7, <1>8, <1>9 DEF User, Clock

\* A report stores its outcome in the one action it is awaited for.
LEMMA ReportEffect ==
  ASSUME TypeOK, NEW i \in Ids, NEW t \in Nat, NEW o \in Outcome, NEW s \in Nat,
         Report(i, t, o, s)
  PROVE  /\ handed[i] = t /\ t # NoToken
         /\ store'[i].status = o
         /\ \A j \in Ids \ {i} : store'[j] = store[j]
<1> DEFINE a == IF o = "unknown" THEN [store[i] EXCEPT !.submitted_as = s] ELSE store[i]
<1>1. a \in ActionRecord
  BY DEF TypeOK, ActionRecord
<1>2. SaveAndRecord(i, Finished(a, o), o) /\ handed[i] = t /\ t # NoToken
  BY DEF Report
<1> HIDE DEF a
<1>3. Finished(a, o) \in ActionRecord /\ o \in Event
  BY <1>1, TransitionsTyped, EventFacts
<1>4. Finished(a, o).status = o
  BY <1>1, TransitionFields
<1>5. store'[i] = Finished(a, o) /\ \A j \in Ids \ {i} : store'[j] = store[j]
  BY ONLY TypeOK, i \in Ids, <1>2, <1>3, SaveEffect
<1> QED
  BY <1>2, <1>4, <1>5

\* Handing out moves no other action, and spends the token.
LEMMA HandOutEffect ==
  ASSUME TypeOK, NEW i \in Ids, HandOut(i)
  PROVE  /\ Takeable(store[i])
         /\ store'[i].status = "approved" /\ store'[i].token = NoToken
         /\ store'[i].current = store[i].current
         /\ handed'[i] = store[i].token /\ issued' = issued
         /\ \A j \in Ids \ {i} : store'[j] = store[j]
<1>1. Takeable(store[i]) /\ SaveAndRecord(i, Begun(store[i]), "executing") /\ issued' = issued
  BY DEF HandOut, CanBegin
<1>2. store[i] \in ActionRecord /\ Begun(store[i]) \in ActionRecord /\ "executing" \in Event
  BY TransitionsTyped, EventFacts DEF TypeOK
<1>3. store'[i] = Begun(store[i]) /\ \A j \in Ids \ {i} : store'[j] = store[j]
  BY ONLY TypeOK, i \in Ids, <1>1, <1>2, SaveEffect
<1>4. handed'[i] = store[i].token
  BY DEF HandOut, TypeOK
<1> QED
  BY <1>1, <1>2, <1>3, <1>4, TransitionFields DEF Takeable

-----------------------------------------------------------------------------
(* The invariant, part by part. *)

FitAndOrdered ==
  /\ \A job \in Known : Fits(job)
  /\ \A a, b \in Known : Ordered(a, b)

\* What holds of every step: MailInv without what is about the hand-outs.
LEMMA BaseStep ==
  ASSUME MailInv, [MailNext]_mailVars
  PROVE  [Next]_vars /\ TypeOK /\ TypeOK' /\ (MailTypeOK /\ Inv /\ Numbered)'
<1>1. [Next]_vars /\ MailTypeOK'
  BY MailStep, MailTypeStep DEF MailInv
<1>2. Inv'
  BY <1>1, InvStep DEF MailInv
<1>3. TypeOK /\ TypeOK'
  BY <1>1 DEF MailInv, MailTypeOK
<1> QED
  BY <1>1, <1>2, <1>3, NumberedStep DEF MailInv

LEMMA HandOutsKept ==
  ASSUME MailInv, TypeOK', [Next]_vars, Known' \subseteq Known,
         \A job \in Known' : store'[job.id].status = "failed" =>
           store[job.id].status = "failed" \/ job.version < store[job.id].current
  PROVE  FitAndOrdered'
<1>1. ASSUME NEW job \in Known' PROVE Fits(job)'
  <2>1. job \in Job /\ job.id \in Ids /\ Fits(job)
    BY KnownTypes DEF MailInv, Job
  <2>2. TypeOK /\ CreditOf(job.id) /\ Numbered
    BY <2>1 DEF MailInv, Inv
  <2> QED
    BY <2>1, <2>2, FitsKept
<1>2. ASSUME NEW a \in Known', NEW b \in Known' PROVE Ordered(a, b)'
  BY DEF MailInv, Ordered
<1> QED
  BY <1>1, <1>2 DEF FitAndOrdered

\* Whoever's report is awaited holds the newest hand-out of the action.
LEMMA AwaitedIsNewest ==
  ASSUME MailInv, NEW h \in Known, handed[h.id] = h.token, h.token # NoToken,
         NEW job \in Known, job # h, job.id = h.id
  PROVE  job.version < store[h.id].current
<1>1. job \in Job /\ h \in Job /\ h.id \in Ids
  BY KnownTypes DEF MailInv, Job
<1>2. /\ job.version \in Nat /\ h.version \in Nat /\ job.token \in Nat /\ h.token \in Nat
      /\ store[h.id].current \in Nat
  BY <1>1, Types DEF Job, MailInv, Inv
<1>3. job.token <= h.token /\ h.version <= store[h.id].current
  BY DEF MailInv, Fits
<1>4. h.version < job.version => h.token < job.token
  BY DEF MailInv, Ordered
<1>5. h.version # job.version
  BY DEF MailInv, Ordered
<1> QED
  BY <1>2, <1>3, <1>4, <1>5

\* Nothing moves but the action itself, and it neither fails nor is executed.
LEMMA CoreKeeps ==
  ASSUME MailInv, [MailNext]_mailVars, UNCHANGED outside,
         \A j \in Ids : store'[j].status \in {"failed", "executed"} =>
           store'[j].status = store[j].status
  PROVE  MailInv'
<1>1. Known' = Known
  BY DEF outside, Known, InHands, Sent, Accepted
<1>2. \A job \in Known : job.id \in Ids
  BY KnownTypes DEF MailInv, Job
<1>3. FitAndOrdered'
  BY <1>1, <1>2, BaseStep, HandOutsKept
<1>4. Places'
  BY DEF MailInv, Places, outside, Sent, Accepted
<1>5. ExecutedIsInTheData'
  BY DEF MailInv, ExecutedIsInTheData, outside
<1> QED
  BY <1>3, <1>4, <1>5, BaseStep DEF MailInv, FitAndOrdered

-----------------------------------------------------------------------------
(* The pull. *)

LEMMA TakeKeeps ==
  ASSUME MailInv, [MailNext]_mailVars, NEW i \in Ids, Take(i)
  PROVE  MailInv'
<1> DEFINE job == [id |-> i, version |-> store[i].approved, token |-> store[i].token]
<1>0. /\ [Next]_vars /\ TypeOK /\ TypeOK' /\ CreditOf(i) /\ phase = "asking"
      /\ UNCHANGED <<phase, wire, delivered, items>>
  BY BaseStep DEF MailInv, Inv, Take
<1>1. /\ Takeable(store[i])
      /\ store'[i].status = "approved" /\ store'[i].token = NoToken
      /\ store'[i].current = store[i].current
      /\ handed'[i] = store[i].token /\ issued' = issued
      /\ \A j \in Ids \ {i} : store'[j] = store[j]
  BY <1>0, HandOutEffect DEF Take
<1>2. /\ job \in Job /\ job.id = i /\ job.token = store[i].token
      /\ job.version = store[i].current
      /\ job.token \in 1 .. issued[i]
  BY <1>0, <1>1, Types, NumberTypes DEF Job, Takeable, CreditOf, MailInv, Numbered, NoToken
<1>3. queue' = Append(queue, job) /\ queue \in Seq(Job)
  BY DEF Take, MailInv, MailTypeOK
<1> HIDE DEF job
<1>4. ASSUME NEW k \in Known, k.id = i PROVE k.token < job.token /\ k.version < job.version
  BY <1>1, <1>2, <1>4 DEF MailInv, Fits, Unsent, Takeable
<1>5. job \notin Known
  BY <1>2, <1>4
<1>6. /\ Len(queue) \in Nat /\ Len(queue') = Len(queue) + 1 /\ queue'[Len(queue) + 1] = job
      /\ \A k \in 1 .. Len(queue) : queue'[k] = queue[k]
  BY <1>2, <1>3
<1>7. Sent' = Sent
  BY <1>0 DEF Sent, Accepted
<1>8. Known' = Known \union {job}
  BY <1>6, <1>7 DEF Known, InHands
<1>9. ASSUME NEW k \in Known' PROVE Fits(k)'
  <2>1. CASE k = job
    <3>1. k.id = i /\ k.token = store[i].token /\ k.version = store[i].current
      BY <1>2, <2>1
    <3>2. k.token \in 1 .. issued'[i] /\ k.version \in Nat /\ k.token \in Nat
      BY <1>1, <1>2, <2>1 DEF Job
    <3> QED
      BY <1>1, <3>1, <3>2 DEF Fits, Unsent, Takeable
  <2>2. CASE k \in Known
    <3>1. k \in Job /\ k.id \in Ids /\ Fits(k)
      BY <2>2, KnownTypes DEF MailInv, Job
    <3>2. CreditOf(k.id) /\ Numbered
      BY <3>1 DEF MailInv, Inv
    <3>3. store'[k.id].status = "failed" => store[k.id].status = "failed"
      BY <1>1, <3>1
    <3> QED
      BY <1>0, <3>1, <3>2, <3>3, FitsKept
  <2> QED
    BY <1>8, <2>1, <2>2
<1>10. ASSUME NEW a \in Known', NEW b \in Known' PROVE Ordered(a, b)'
  <2>1. CASE a \in Known /\ b \in Known
    BY <2>1 DEF MailInv, Ordered
  <2>2. CASE a = job /\ b = job
    BY <1>2, <2>2 DEF Ordered, Job
  <2>3. CASE a = job /\ b \in Known
    <3>1. b \in Job
      BY <2>3, KnownTypes DEF MailInv
    <3> QED
      BY <1>2, <1>4, <2>3, <3>1 DEF Ordered, Job
  <2>4. CASE a \in Known /\ b = job
    <3>1. a \in Job
      BY <2>4, KnownTypes DEF MailInv
    <3> QED
      BY <1>2, <1>4, <2>4, <3>1 DEF Ordered, Job
  <2> QED
    BY <1>8, <2>1, <2>2, <2>3, <2>4
<1>11. Places'
  <2>1. \A k \in 1 .. Len(queue) : queue[k] \in Known /\ queue[k] \notin Sent
    BY <1>0 DEF MailInv, Places, Known, InHands
  <2>2. \A k \in 1 .. Len(queue') : queue'[k] \notin Sent'
    BY <1>5, <1>6, <1>7, <2>1 DEF Known
  <2>3. \A j, k \in 1 .. Len(queue') : queue'[j] = queue'[k] => j = k
    BY <1>5, <1>6, <2>1 DEF MailInv, Places
  <2> QED
    BY <1>0, <2>2, <2>3 DEF MailInv, Places, Outcome
<1>12. ExecutedIsInTheData'
  BY <1>0, <1>1 DEF MailInv, ExecutedIsInTheData
<1> QED
  BY <1>9, <1>10, <1>11, <1>12, BaseStep DEF MailInv

\* The account was not granted: the newest hand-out fails and never goes out.
LEMMA NotGrantedKeeps ==
  ASSUME MailInv, [MailNext]_mailVars, NotGranted
  PROVE  MailInv'
<1> DEFINE h == queue[Len(queue)]
<1>0. /\ [Next]_vars /\ TypeOK /\ TypeOK'
      /\ phase = "asking" /\ queue # <<>>
      /\ queue' = SubSeq(queue, 1, Len(queue) - 1)
      /\ Report(h.id, h.token, "failed", 0)
      /\ UNCHANGED <<phase, wire, delivered, items>>
  BY BaseStep DEF NotGranted
<1>1. /\ queue \in Seq(Job) /\ Len(queue) \in Nat /\ Len(queue) >= 1
      /\ h \in Known /\ h \in Job /\ h.id \in Ids /\ h.token \in Nat
  <2>1. queue \in Seq(Job) /\ Len(queue) \in Nat /\ Len(queue) >= 1
    BY <1>0, InQueue DEF MailInv, MailTypeOK
  <2>2. Len(queue) \in 1 .. Len(queue)
    BY <2>1
  <2>3. h \in Known /\ h \in Job
    BY <2>2, InQueue DEF MailInv
  <2> QED
    BY <2>1, <2>3 DEF Job
<1>2. /\ Len(queue') = Len(queue) - 1
      /\ \A k \in 1 .. Len(queue) - 1 : queue'[k] = queue[k]
  <2> DEFINE n == Len(queue) - 1
  <2>1. n \in Nat /\ \A k \in 1 .. n : queue[k] \in Job
    BY <1>1
  <2> HIDE DEF n
  <2>2. /\ Len(SubSeq(queue, 1, n)) = IF 1 <= n THEN n - 1 + 1 ELSE 0
        /\ \A k \in 1 .. n - 1 + 1 : SubSeq(queue, 1, n)[k] = queue[1 + k - 1]
    BY <2>1, SubSeqProperties
  <2>3. Len(SubSeq(queue, 1, n)) = n /\ \A k \in 1 .. n : SubSeq(queue, 1, n)[k] = queue[k]
    BY <2>1, <2>2
  <2> QED
    BY <1>0, <2>3 DEF n
<1>3. /\ handed[h.id] = h.token /\ h.token # NoToken
      /\ store'[h.id].status = "failed"
      /\ \A j \in Ids \ {h.id} : store'[j] = store[j]
  BY <1>0, <1>1, ReportEffect DEF Outcome
<1> HIDE DEF h
<1>4. \A k \in 1 .. Len(queue) : queue[k] \notin Sent
  BY <1>0 DEF MailInv, Places
<1>5. Sent' = Sent
  BY <1>0 DEF Sent, Accepted
<1>6. Known' \subseteq Known \ {h}
  <2>1. h \notin Sent
    BY <1>1, <1>4 DEF h
  <2>2. \A k \in 1 .. Len(queue) - 1 : queue[k] # h /\ queue[k] \in Known
    BY <1>1 DEF MailInv, Places, h, Known, InHands
  <2> QED
    BY <1>1, <1>2, <1>5, <2>1, <2>2 DEF Known, InHands
<1>7. ASSUME NEW k \in Known', store'[k.id].status = "failed"
      PROVE  store[k.id].status = "failed" \/ k.version < store[k.id].current
  <2>1. k \in Known /\ k # h /\ k.id \in Ids
    BY <1>6, KnownTypes DEF MailInv, Job
  <2> QED
    BY <1>1, <1>3, <1>7, <2>1, AwaitedIsNewest
<1>8. FitAndOrdered'
  BY <1>0, <1>6, <1>7, HandOutsKept
<1>9. Places'
  <2>1. \A k \in 1 .. Len(queue') : queue'[k] \notin Sent'
    BY <1>1, <1>2, <1>4, <1>5
  <2>2. \A j, k \in 1 .. Len(queue') : queue'[j] = queue'[k] => j = k
    BY <1>1, <1>2 DEF MailInv, Places
  <2> QED
    BY <1>0, <2>1, <2>2 DEF MailInv, Places, Outcome
<1>10. ExecutedIsInTheData'
  BY <1>0, <1>3 DEF MailInv, ExecutedIsInTheData
<1> QED
  BY <1>8, <1>9, <1>10, BaseStep DEF MailInv, FitAndOrdered

-----------------------------------------------------------------------------
(* The connector at work: nothing of Actions changes before it reports. *)

\* What a step that leaves the actions alone has to show.
LEMMA ActionsAlone ==
  ASSUME MailInv, [MailNext]_mailVars, UNCHANGED vars, Known' \subseteq Known, Places',
         UNCHANGED items, \A i \in Ids : Accepted(i) \subseteq Accepted(i)'
  PROVE  MailInv'
<1>1. FitAndOrdered'
  BY BaseStep, HandOutsKept DEF vars
<1>2. ExecutedIsInTheData'
  <2>1. ASSUME NEW i \in Ids, store'[i].status = "executed"
        PROVE  \E k \in 1 .. Len(delivered'[i]) : \E item \in items'[i] :
                 delivered'[i][k].token = item.token
    <3>1. PICK k \in 1 .. Len(delivered[i]) : \E item \in items[i] :
                 delivered[i][k].token = item.token
      BY <2>1 DEF MailInv, ExecutedIsInTheData, vars
    <3>2. delivered[i][k] \in Accepted(i)'
      BY DEF Accepted
    <3> QED
      BY <3>1, <3>2 DEF Accepted
  <2> QED
    BY <2>1 DEF ExecutedIsInTheData
<1> QED
  BY <1>1, <1>2, BaseStep DEF MailInv, FitAndOrdered

LEMMA PhaseKeeps ==
  ASSUME MailInv, [MailNext]_mailVars, Answer \/ AskAgain \/ GiveUp
  PROVE  MailInv'
<1>1. UNCHANGED <<vars, queue, wire, delivered, items>>
  BY DEF Answer, AskAgain, GiveUp
<1>2. Sent' = Sent /\ Known' = Known /\ \A i \in Ids : Accepted(i)' = Accepted(i)
  BY <1>1 DEF Sent, Known, InHands, Accepted
<1>3. /\ phase \in {"asking", "working"} /\ phase' \in {"asking", "working", "failed"}
      /\ phase' = "failed" => queue # <<>>
  BY DEF Answer, AskAgain, GiveUp
<1>4. Places'
  BY <1>1, <1>2, <1>3 DEF MailInv, Places, Outcome
<1> QED
  BY <1>1, <1>2, <1>4, ActionsAlone

LEMMA SubmitKeeps ==
  ASSUME MailInv, [MailNext]_mailVars, Submit
  PROVE  MailInv'
<1>1. /\ UNCHANGED <<vars, queue, delivered, items>>
      /\ phase = "working" /\ phase' = "submitted" /\ queue # <<>>
      /\ wire' = wire \union {Head(queue)}
  BY DEF Submit
<1>2. Head(queue) = queue[1] /\ Len(queue) \in Nat /\ Len(queue) >= 1
  BY <1>1, InQueue DEF MailInv
<1>3. Sent' = Sent \union {queue[1]} /\ \A i \in Ids : Accepted(i)' = Accepted(i)
  BY <1>1, <1>2 DEF Sent, Accepted
<1>4. Known' = Known
  BY <1>1, <1>2, <1>3 DEF Known, InHands
<1>5. \A k \in 1 .. Len(queue) : queue[k] \notin Sent
  BY <1>1 DEF MailInv, Places
<1>6. Places'
  <2>1. \A k \in 1 .. Len(queue) : k # 1 => queue[k] \notin Sent'
    BY <1>2, <1>3, <1>5 DEF MailInv, Places
  <2>2. \A i \in Ids : \A k \in 1 .. Len(delivered[i]) :
          delivered[i][k].id = i /\ delivered[i][k] \notin wire'
    <3>1. \A i \in Ids : \A k \in 1 .. Len(delivered[i]) : delivered[i][k] \in Sent
      BY DEF Sent, Accepted
    <3>2. queue[1] \notin Sent
      BY <1>2, <1>5
    <3> QED
      BY <1>1, <1>2, <3>1, <3>2 DEF MailInv, Places
  <2> QED
    BY <1>1, <2>1, <2>2 DEF MailInv, Places, Outcome
<1> QED
  BY <1>1, <1>3, <1>4, <1>6, ActionsAlone

LEMMA AnsweredKeeps ==
  ASSUME MailInv, [MailNext]_mailVars, NEW o \in Outcome, Answered(o)
  PROVE  MailInv'
<1>1. /\ UNCHANGED <<vars, queue, delivered, items>>
      /\ phase = "submitted" /\ phase' = o /\ queue # <<>>
  BY DEF Answered, MailInv, Places
<1>2. /\ Head(queue) = queue[1] /\ Len(queue) \in Nat /\ Len(queue) >= 1
      /\ queue[1] \in Job /\ queue[1].id \in Ids
  BY <1>1, InQueue DEF MailInv, Job
<1>3. \A i \in Ids : Accepted(i)' = Accepted(i)
  BY <1>1 DEF Accepted
<1>4. wire' \subseteq wire
  BY DEF Answered, Outcome
<1>5. Sent' \subseteq Sent /\ Known' \subseteq Known
  BY <1>1, <1>3, <1>4 DEF Sent, Known, InHands
<1>6. o = "executed" => queue[1] \in Accepted(queue[1].id)'
  <2>1. o = "executed" => Delivered(queue[1])
    BY <1>2 DEF Answered
  <2>2. queue[1] \in Accepted(queue[1].id) <=> Delivered(queue[1])
    BY <1>2 DEF Delivered, Accepted
  <2> QED
    BY <1>1, <1>2, <1>3, <2>1, <2>2
<1>7. o = "failed" => queue[1] \notin Sent'
  <2>1. o = "failed" => queue[1] \in wire /\ wire' = wire \ {queue[1]}
    BY <1>2 DEF Answered
  <2>2. \A i \in Ids : queue[1] \in wire => queue[1] \notin Accepted(i)
    BY DEF MailInv, Places, Accepted
  <2> QED
    BY <1>3, <2>1, <2>2 DEF Sent
<1>8. Places'
  <2>1. \A k \in 1 .. Len(queue) : k # 1 => queue[k] \notin Sent'
    BY <1>1, <1>5 DEF MailInv, Places
  <2>2. \A k \in 1 .. Len(queue) :
          (k = 1 => phase' \in {"asking", "working", "failed"}) => queue[k] \notin Sent'
    BY <1>1, <1>7, <2>1 DEF Outcome
  <2>3. phase' = "executed" => Head(queue) \in Accepted(Head(queue).id)'
    BY <1>1, <1>2, <1>6
  <2> QED
    BY <1>1, <1>3, <1>4, <2>2, <2>3 DEF MailInv, Places
<1> QED
  BY <1>1, <1>3, <1>5, <1>8, ActionsAlone

\* The server accepts a mail: it is one of those on the wire.
LEMMA AcceptKeeps ==
  ASSUME MailInv, [MailNext]_mailVars, NEW job \in wire, Accept(job)
  PROVE  MailInv'
<1>1. /\ UNCHANGED <<vars, phase, queue, items>> /\ wire' = wire \ {job}
      /\ delivered' = [delivered EXCEPT ![job.id] = Append(@, job)]
  BY DEF Accept
<1>2. job \in Job /\ job.id \in Ids /\ delivered \in [Ids -> Seq(Job)]
  BY DEF MailInv, MailTypeOK, Job
<1> DEFINE d == delivered[job.id]
<1>3. /\ d \in Seq(Job) /\ Len(d) \in Nat
      /\ delivered'[job.id] = Append(d, job)
      /\ \A i \in Ids \ {job.id} : delivered'[i] = delivered[i]
  BY <1>1, <1>2
<1>4. /\ Len(delivered'[job.id]) = Len(d) + 1
      /\ delivered'[job.id][Len(d) + 1] = job
      /\ \A k \in 1 .. Len(d) : delivered'[job.id][k] = d[k]
  BY <1>2, <1>3
<1>5. /\ Accepted(job.id)' = Accepted(job.id) \union {job}
      /\ \A i \in Ids \ {job.id} : Accepted(i)' = Accepted(i)
  BY <1>3, <1>4 DEF Accepted
<1>6. Sent' = Sent
  BY <1>1, <1>2, <1>5 DEF Sent
<1>7. Known' = Known
  BY <1>1, <1>6 DEF Known, InHands
<1>8. job \notin Accepted(job.id)
  BY <1>2 DEF MailInv, Places, Accepted
<1>9. Places'
  <2>1. \A i \in Ids : \A k \in 1 .. Len(delivered'[i]) :
          delivered'[i][k].id = i /\ delivered'[i][k] \notin wire'
    BY <1>1, <1>2, <1>3, <1>4 DEF MailInv, Places
  <2>2. \A j, k \in 1 .. Len(delivered'[job.id]) :
          delivered'[job.id][j] = delivered'[job.id][k] => j = k
    BY <1>2, <1>3, <1>4, <1>8 DEF MailInv, Places, Accepted
  <2>3. \A i \in Ids \ {job.id} : \A j, k \in 1 .. Len(delivered'[i]) :
          delivered'[i][j] = delivered'[i][k] => j = k
    BY <1>3 DEF MailInv, Places
  <2>4. phase' = "executed" => Head(queue) \in Accepted(Head(queue).id)'
    <3>1. phase = "executed" => Head(queue).id \in Ids
      BY InQueue DEF MailInv, Places, Outcome, Job
    <3> QED
      BY <1>1, <1>5, <3>1 DEF MailInv, Places
  <2> QED
    BY <1>1, <1>6, <2>1, <2>2, <2>3, <2>4 DEF MailInv, Places
<1> QED
  BY <1>1, <1>5, <1>7, <1>9, ActionsAlone

-----------------------------------------------------------------------------
(* The report, the sync and the deaths. *)

\* The hand-out at work leaves the queue, and the core hears how it ended.
LEMMA ReportHomeKeeps ==
  ASSUME MailInv, [MailNext]_mailVars, ReportHome
  PROVE  MailInv'
<1> DEFINE h == queue[1]
<1>0. /\ [Next]_vars /\ TypeOK /\ TypeOK'
      /\ phase \in Outcome /\ phase' = "working" /\ queue # <<>>
      /\ UNCHANGED <<wire, delivered>>
  BY BaseStep DEF ReportHome, MailInv, Places
<1>1. /\ queue \in Seq(Job) /\ Len(queue) \in Nat /\ Len(queue) >= 1 /\ Head(queue) = h
      /\ h \in Known /\ h \in Job /\ h.id \in Ids /\ h.token \in Nat
  <2>1. queue \in Seq(Job) /\ Len(queue) \in Nat /\ Len(queue) >= 1 /\ Head(queue) = h
    BY <1>0, InQueue DEF MailInv, MailTypeOK
  <2>2. 1 \in 1 .. Len(queue)
    BY <2>1
  <2>3. h \in Known /\ h \in Job
    BY <2>2, InQueue DEF MailInv
  <2> QED
    BY <2>1, <2>3 DEF Job
<1>2. queue' = Tail(queue)
  BY DEF ReportHome
<1>3. Len(queue') = Len(queue) - 1 /\ \A k \in 1 .. Len(queue') : queue'[k] = queue[k + 1]
  BY <1>0, <1>1, <1>2
<1>4. \/ UNCHANGED vars
      \/ handed[h.id] = h.token /\ Report(h.id, h.token, phase, h.token)
  BY <1>1 DEF ReportHome
<1>5. /\ phase = "executed" => items' = [items EXCEPT ![h.id] =
                                 @ \union {[token |-> h.token, by |-> "report"]}]
      /\ phase # "executed" => items' = items
  BY <1>1 DEF ReportHome, Keep
<1> HIDE DEF h
<1>6. Sent' = Sent
  BY <1>0 DEF Sent, Accepted
<1>7. \A k \in 1 .. Len(queue) : k > 1 => queue[k] \notin Sent /\ queue[k] # h
  BY <1>1 DEF MailInv, Places, h
<1>8. Known' \subseteq Known
  BY <1>1, <1>3, <1>6 DEF Known, InHands
<1>9. phase = "failed" => Known' \subseteq Known \ {h}
  <2>1. phase = "failed" => h \notin Sent
    BY <1>1 DEF MailInv, Places, h
  <2> QED
    BY <1>1, <1>3, <1>6, <1>7, <1>8, <2>1 DEF Known, InHands
<1>10. ASSUME NEW k \in Known', store'[k.id].status = "failed"
       PROVE  store[k.id].status = "failed" \/ k.version < store[k.id].current
  <2>1. k \in Known /\ k.id \in Ids
    BY <1>8, KnownTypes DEF MailInv, Job
  <2>2. CASE UNCHANGED vars
    BY <1>10, <2>2 DEF vars
  <2>3. CASE handed[h.id] = h.token /\ Report(h.id, h.token, phase, h.token)
    <3>1. /\ h.token # NoToken /\ store'[h.id].status = phase
          /\ \A j \in Ids \ {h.id} : store'[j] = store[j]
      BY <1>0, <1>1, <2>3, ReportEffect
    <3>2. CASE k.id = h.id
      <4>1. k # h
        BY <1>9, <1>10, <3>1, <3>2
      <4> QED
        BY <1>1, <2>1, <2>3, <3>1, <3>2, <4>1, AwaitedIsNewest
    <3>3. CASE k.id # h.id
      BY <1>10, <2>1, <3>1, <3>3
    <3> QED
      BY <3>2, <3>3
  <2> QED
    BY <1>4, <2>2, <2>3
<1>11. FitAndOrdered'
  BY <1>0, <1>8, <1>10, HandOutsKept
<1>12. Places'
  <2>1. \A k \in 1 .. Len(queue') : queue'[k] \notin Sent'
    BY <1>1, <1>3, <1>6, <1>7
  <2>2. \A j, k \in 1 .. Len(queue') : queue'[j] = queue'[k] => j = k
    BY <1>1, <1>3 DEF MailInv, Places
  <2> QED
    BY <1>0, <2>1, <2>2 DEF MailInv, Places, Outcome
<1>13. ExecutedIsInTheData'
  <2>1. \A i \in Ids : items[i] \subseteq items'[i]
    BY <1>1, <1>5 DEF MailInv, MailTypeOK
  <2>2. ASSUME NEW i \in Ids, store'[i].status = "executed", store[i].status # "executed"
        PROVE  /\ i = h.id /\ h \in Accepted(i)
               /\ [token |-> h.token, by |-> "report"] \in items'[i]
    <3>1. Report(h.id, h.token, phase, h.token)
      BY <1>4, <2>2 DEF vars
    <3>2. i = h.id /\ phase = "executed"
      BY <1>0, <1>1, <2>2, <3>1, ReportEffect
    <3>3. items'[i] = items[i] \union {[token |-> h.token, by |-> "report"]}
      BY <1>5, <3>2 DEF MailInv, MailTypeOK
    <3> QED
      BY <1>1, <3>2, <3>3 DEF MailInv, Places
  <2>3. ASSUME NEW i \in Ids, store'[i].status = "executed"
        PROVE  \E k \in 1 .. Len(delivered'[i]) : \E item \in items'[i] :
                 delivered'[i][k].token = item.token
    <3>1. CASE store[i].status = "executed"
      BY <1>0, <2>1, <3>1 DEF MailInv, ExecutedIsInTheData
    <3>2. CASE store[i].status # "executed"
      <4>1. h \in Accepted(i) /\ [token |-> h.token, by |-> "report"] \in items'[i]
        BY <2>2, <2>3, <3>2
      <4> QED
        BY <1>0, <4>1 DEF Accepted
    <3> QED
      BY <3>1, <3>2
  <2> QED
    BY <2>3 DEF ExecutedIsInTheData
<1> QED
  BY <1>11, <1>12, <1>13, BaseStep DEF MailInv, FitAndOrdered

\* The copy that confirms an action is a mail the server accepted.
LEMMA SyncKeeps ==
  ASSUME MailInv, [MailNext]_mailVars, NEW i \in Ids, NEW token \in 1 .. issued[i],
         Sync(i, token)
  PROVE  MailInv'
<1>1. /\ UNCHANGED <<phase, queue, wire, delivered>>
      /\ items' = [items EXCEPT ![i] = @ \union {[token |-> token, by |-> "sync"]}]
      /\ \E k \in 1 .. Len(delivered[i]) : delivered[i][k].token = token
      /\ UNCHANGED vars \/ ConfirmSent(i, token)
  BY DEF Sync, Keep
<1>2. /\ \A j \in Ids : items[j] \subseteq items'[j]
      /\ [token |-> token, by |-> "sync"] \in items'[i]
  BY <1>1 DEF MailInv, MailTypeOK
<1>3. Sent' = Sent /\ Known' = Known
  BY <1>1 DEF Known, InHands, Sent, Accepted
<1>4. TypeOK /\ \A j \in Ids : store[j] \in ActionRecord
  BY BaseStep DEF TypeOK
<1>5. \A j \in Ids : \/ store'[j].status = store[j].status
                     \/ j = i /\ store'[j].status = "executed"
  <2>1. CASE UNCHANGED vars
    BY <2>1 DEF vars
  <2>2. CASE ConfirmSent(i, token)
    <3>1. store' = [store EXCEPT ![i] = [store[i] EXCEPT !.status = "executed"]]
      BY <2>2 DEF ConfirmSent, SaveAndRecord
    <3> QED
      BY <1>4, <3>1 DEF TypeOK, ActionRecord
  <2> QED
    BY <1>1, <2>1, <2>2
<1>6. FitAndOrdered'
  <2>1. \A job \in Known : job.id \in Ids
    BY KnownTypes DEF MailInv, Job
  <2>2. \A job \in Known' : store'[job.id].status = "failed" => store[job.id].status = "failed"
    BY <1>3, <1>5, <2>1
  <2> QED
    BY <1>3, <2>2, BaseStep, HandOutsKept
<1>7. Places'
  BY <1>1, <1>3 DEF MailInv, Places, Accepted
<1>8. ExecutedIsInTheData'
  <2>1. ASSUME NEW j \in Ids, store'[j].status = "executed"
        PROVE  \E k \in 1 .. Len(delivered'[j]) : \E item \in items'[j] :
                 delivered'[j][k].token = item.token
    <3>1. CASE store[j].status = "executed"
      BY <1>1, <1>2, <3>1 DEF MailInv, ExecutedIsInTheData
    <3>2. CASE store[j].status # "executed"
      <4>1. j = i
        BY <1>5, <2>1, <3>2
      <4>2. PICK k \in 1 .. Len(delivered[i]) : delivered[i][k].token = token
        BY <1>1
      <4> QED
        BY <1>1, <1>2, <4>1, <4>2
    <3> QED
      BY <3>1, <3>2
  <2> QED
    BY <2>1 DEF ExecutedIsInTheData
<1> QED
  BY <1>6, <1>7, <1>8, BaseStep DEF MailInv, FitAndOrdered

\* A death loses the queue; what went out is still out.
LEMMA DeathKeeps ==
  ASSUME MailInv, [MailNext]_mailVars, ConnectorDies \/ CoreRestarts
  PROVE  MailInv'
<1>1. /\ phase' = "asking" /\ queue' = <<>> /\ UNCHANGED <<wire, delivered, items>>
      /\ UNCHANGED store
  BY DEF ConnectorDies, CoreRestarts, Dies, Restart, vars
<1>2. Sent' = Sent /\ Known' \subseteq Known
  BY <1>1 DEF Known, InHands, Sent, Accepted
<1>3. FitAndOrdered'
  BY <1>1, <1>2, BaseStep, HandOutsKept
<1>4. Places'
  BY <1>1 DEF MailInv, Places, Outcome
<1>5. ExecutedIsInTheData'
  BY <1>1 DEF MailInv, ExecutedIsInTheData
<1> QED
  BY <1>3, <1>4, <1>5, BaseStep DEF MailInv, FitAndOrdered

-----------------------------------------------------------------------------
LEMMA MailInvInit == MailInit => MailInv
<1> SUFFICES ASSUME MailInit PROVE MailInv
  OBVIOUS
<1>1. Init /\ Inv
  BY InvInit DEF MailInit
<1>2. MailTypeOK
  BY <1>1 DEF MailInit, MailTypeOK, Inv, Phase
<1>3. \A i \in Ids : /\ store[i].token = NoToken /\ issued[i] = 0
                     /\ store[i].status = "absent" /\ delivered[i] = <<>>
  BY <1>1, ProposedFields DEF Init, MailInit
<1>4. Known = {}
  BY <1>3 DEF MailInit, Known, InHands, Sent, Accepted
<1>5. Places
  BY <1>3 DEF MailInit, Places, Outcome
<1> QED
  BY <1>1, <1>2, <1>3, <1>4, <1>5 DEF MailInv, Numbered, NoToken, ExecutedIsInTheData

LEMMA MailInvStep == MailInv /\ [MailNext]_mailVars => MailInv'
<1> SUFFICES ASSUME MailInv, [MailNext]_mailVars PROVE MailInv'
  OBVIOUS
<1>1. CASE UNCHANGED mailVars
  BY <1>1, CoreKeeps DEF mailVars, vars
<1>2. CASE Connector
  <2>1. ASSUME NEW i \in Ids, Refuse(i) PROVE MailInv'
    <3>1. RefuseLate(i) /\ UNCHANGED outside
      BY <2>1 DEF Refuse
    <3>2. \A j \in Ids : store'[j].status \in {"failed", "executed"} =>
            store'[j].status = store[j].status
      <4>1. SaveAndRecord(i, Expired(store[i]), "refused") /\ TypeOK /\ store[i] \in ActionRecord
        BY <3>1, BaseStep DEF RefuseLate, TypeOK
      <4>2. Expired(store[i]) \in ActionRecord /\ Expired(store[i]).status = "expired"
        BY <4>1, TransitionsTyped, TransitionFields
      <4>3. store'[i] = Expired(store[i]) /\ \A j \in Ids \ {i} : store'[j] = store[j]
        BY ONLY i \in Ids, <4>1, <4>2, SaveEffect, EventFacts
      <4> QED
        BY <4>2, <4>3
    <3> QED
      BY <3>1, <3>2, CoreKeeps
  <2> QED
    BY <1>2, <2>1, TakeKeeps, NotGrantedKeeps, PhaseKeeps, SubmitKeeps, AnsweredKeeps,
       ReportHomeKeeps DEF Connector
<1>3. ASSUME NEW i \in Ids, (User(i) \/ Clock(i)) /\ UNCHANGED outside PROVE MailInv'
  <2>1. TypeOK
    BY BaseStep
  <2> QED
    BY <1>3, <2>1, OthersEndNothing, CoreKeeps
<1> QED
  BY <1>1, <1>2, <1>3, AcceptKeeps, SyncKeeps, DeathKeeps DEF MailNext

LEMMA MailInvariant == MailSpec => []MailInv
BY MailInvInit, MailInvStep, PTL DEF MailSpec

-----------------------------------------------------------------------------
(* The theorems. *)

\* With the mail connector in the executors' place the core still does what
\* Actions says, so every theorem of Actions holds of mail on its way out.
THEOREM SendingIsActions == MailSpec => Spec
<1>1. MailInit => Init
  BY DEF MailInit
<1>2. MailInv /\ [MailNext]_mailVars => [Next]_vars
  BY BaseStep
<1> QED
  BY <1>1, <1>2, MailInvariant, PTL DEF MailSpec, Spec

\* What the user approved was handed to the connector once, in those words.
THEOREM SendingKeepsApprovals == MailSpec => ApprovalKept
BY SendingIsActions, ActionsImplementsApproval

\* No words go out twice, whatever dies, times out or is edited meanwhile
\* (begin_execution spends the token, the connector never tries again).
THEOREM WordsGoOutOnce == MailSpec => []SentOnce
<1>1. MailInv => SentOnce
  <2> SUFFICES ASSUME MailInv, NEW i \in Ids,
                      NEW j \in 1 .. Len(delivered[i]), NEW k \in 1 .. Len(delivered[i]),
                      delivered[i][j].version = delivered[i][k].version
               PROVE  j = k
    BY DEF SentOnce
  <2>1. delivered[i][j] \in Known /\ delivered[i][k] \in Known
    BY DEF Known, Sent, Accepted
  <2>2. delivered[i][j].id = i /\ delivered[i][k].id = i
    BY DEF MailInv, Places
  <2>3. delivered[i][j] = delivered[i][k]
    BY <2>1, <2>2 DEF MailInv, Ordered
  <2> QED
    BY <2>3 DEF MailInv, Places
<1> QED
  BY <1>1, MailInvariant, PTL

\* What the store says was not sent, no server has or will get.
THEOREM UnsentStaysUnsent == MailSpec => []UnsentMeansUnsent
<1>1. MailInv => UnsentMeansUnsent
  <2> SUFFICES ASSUME MailInv, NEW i \in Ids,
                      store[i].status \in {"pending", "declined", "expired", "failed"},
                      NEW job \in wire \union {delivered[i][k] : k \in 1 .. Len(delivered[i])},
                      job.id = i
               PROVE  job.version # store[i].current
    BY DEF UnsentMeansUnsent
  <2>1. job \in Known
    BY DEF Known, Sent, Accepted
  <2>2. job \in Job /\ job.version \in Nat /\ store[i].current \in Nat
    BY <2>1, KnownTypes, Types DEF MailInv, MailTypeOK, Job
  <2>3. job.version < store[i].current
    BY <2>1 DEF MailInv, Fits, Unsent
  <2> QED
    BY <2>2, <2>3
<1> QED
  BY <1>1, MailInvariant, PTL

\* What the store says was executed, a server accepted, and it is kept.
THEOREM ExecutedIsKept == MailSpec => []ExecutedIsInTheData
<1>1. MailInv => ExecutedIsInTheData
  BY DEF MailInv
<1> QED
  BY <1>1, MailInvariant, PTL
=============================================================================
