------------------------------ MODULE Sending -------------------------------
(***************************************************************************)
(* Approved mail on its way out: Actions with the mail connector in the    *)
(* executors' place (crates/daemon/src/connectors.rs and syncing.rs on the *)
(* core's side, crates/connectors/imap on the other), the mail server, and *)
(* the sync that later brings the account's Sent folder in.                *)
(*                                                                         *)
(* The connector is one task that pulls, carries out what it got one after *)
(* another, and reports; sync is another task of the same process.  Every  *)
(* attempt composes its own Message-ID, and an attempt is made once for a  *)
(* hand-out, so the hand-out's token stands for the Message-ID.            *)
(***************************************************************************)
EXTENDS Actions

VARIABLES
  phase,      \* of the connector's task, see Phase
  queue,      \* hand-outs it has not reported on, the one at work first
  wire,       \* mails given to the network and not accepted by the server
  delivered,  \* by action: the mails the server accepted, oldest first
  items       \* by action: the items mails were kept as

outside  == <<phase, queue, wire, delivered, items>>
mailVars == <<vars, outside>>

\* asking: the core is assembling the answer to a pull; submitted: waiting for
\* the server; an outcome: about to be reported.
Phase == {"asking", "working", "submitted"} \union Outcome

Job == [id : Ids, version : Nat, token : Nat]

\* A sent mail is kept when it is reported, or when sync finds the server's copy.
Item == [token : Nat, by : {"report", "sync"}]

MailTypeOK ==
  /\ TypeOK
  /\ phase \in Phase
  /\ queue \in Seq(Job)
  /\ wire \subseteq Job
  /\ delivered \in [Ids -> Seq(Job)]
  /\ items \in [Ids -> SUBSET Item]

MailInit ==
  /\ Init
  /\ phase = "asking"
  /\ queue = <<>>
  /\ wire = {}
  /\ delivered = [i \in Ids |-> <<>>]
  /\ items = [i \in Ids |-> {}]

Delivered(job) == \E k \in 1 .. Len(delivered[job.id]) : delivered[job.id][k] = job

Keep(i, item) == items' = [items EXCEPT ![i] = @ \union {item}]

-----------------------------------------------------------------------------
(* A pull.  One answer carries everything that can be taken, and all of it *)
(* is in the connector's hands before the answer is on its way.            *)

Take(i) ==
  /\ phase = "asking"
  /\ HandOut(i)
  /\ queue' = Append(queue, [id |-> i, version |-> store[i].approved, token |-> store[i].token])
  /\ UNCHANGED <<phase, wire, delivered, items>>

Refuse(i) ==
  /\ phase = "asking"
  /\ RefuseLate(i)
  /\ UNCHANGED outside

\* The account was not granted this kind: the core takes the action back from
\* the answer and reports for the connector.
NotGranted ==
  /\ phase = "asking"
  /\ queue # <<>>
  /\ LET job == queue[Len(queue)] IN Report(job.id, job.token, "failed", 0)
  /\ queue' = SubSeq(queue, 1, Len(queue) - 1)
  /\ UNCHANGED <<phase, wire, delivered, items>>

Answer ==
  /\ phase = "asking"
  /\ \A i \in Ids : ~Takeable(store[i])
  /\ phase' = "working"
  /\ UNCHANGED <<vars, queue, wire, delivered, items>>

-----------------------------------------------------------------------------
(* The connector carries out the head of its queue. *)

\* Nothing left to do; PULL_EVERY later it asks again.
AskAgain ==
  /\ phase = "working"
  /\ queue = <<>>
  /\ phase' = "asking"
  /\ UNCHANGED <<vars, queue, wire, delivered, items>>

\* Its own check, or composing the mail, failed: nothing is sent.
GiveUp ==
  /\ phase = "working"
  /\ queue # <<>>
  /\ phase' = "failed"
  /\ UNCHANGED <<vars, queue, wire, delivered, items>>

Submit ==
  /\ phase = "working"
  /\ queue # <<>>
  /\ phase' = "submitted"
  /\ wire' = wire \union {Head(queue)}
  /\ UNCHANGED <<vars, queue, delivered, items>>

\* Bug: no answer is taken for a refusal.
AnsweredNoMeansNo(outcome) ==
  /\ phase = "submitted"
  /\ outcome \in {"executed", "failed"}
  /\ outcome = "executed" => Delivered(Head(queue))
  /\ phase' = outcome
  /\ UNCHANGED <<vars, queue, wire, delivered, items>>

\* Bug: a submission without an answer is tried once more.
AnsweredTriesAgain(outcome) ==
  /\ phase = "submitted"
  /\ outcome = "executed" => Delivered(Head(queue))
  /\ phase' = IF outcome = "unknown" THEN "working" ELSE outcome
  /\ wire' = IF outcome = "failed" THEN wire \ {Head(queue)} ELSE wire
  /\ outcome = "failed" => Head(queue) \in wire
  /\ UNCHANGED <<vars, queue, delivered, items>>

\* What classify makes of the answer: accepted, refused before anything went
\* out, or no answer, whatever became of the mail.
Answered(outcome) ==
  /\ phase = "submitted"
  /\ CASE outcome = "executed" -> Delivered(Head(queue)) /\ UNCHANGED wire
       [] outcome = "failed"   -> Head(queue) \in wire /\ wire' = wire \ {Head(queue)}
       [] outcome = "unknown"  -> UNCHANGED wire
  /\ phase' = outcome
  /\ UNCHANGED <<vars, queue, delivered, items>>

\* Bug: the action is told, and what was sent is not kept.
ReportHomeKeepsNothing ==
  /\ phase \in Outcome
  /\ LET job == Head(queue) IN
       IF handed[job.id] = job.token
         THEN Report(job.id, job.token, phase, job.token)
         ELSE UNCHANGED vars
  /\ phase' = "working"
  /\ queue' = Tail(queue)
  /\ UNCHANGED <<wire, delivered, items>>

\* take_report: what was sent is kept first, then the action is told, if the
\* token still counts.  Accepted or not, the connector goes on to the next.
ReportHome ==
  /\ phase \in Outcome
  /\ LET job == Head(queue) IN
       /\ IF phase = "executed"
            THEN Keep(job.id, [token |-> job.token, by |-> "report"])
            ELSE UNCHANGED items
       /\ IF handed[job.id] = job.token
            THEN Report(job.id, job.token, phase, job.token)
            ELSE UNCHANGED vars
  /\ phase' = "working"
  /\ queue' = Tail(queue)
  /\ UNCHANGED <<wire, delivered>>

-----------------------------------------------------------------------------
(* The server and the Sent folder.  A lost mail is one never accepted. *)

Accept(job) ==
  /\ job \in wire
  /\ wire' = wire \ {job}
  /\ delivered' = [delivered EXCEPT ![job.id] = Append(@, job)]
  /\ UNCHANGED <<vars, phase, queue, items>>

\* The server's copy comes in.  One kept by a report already is skipped; only a
\* mail that is new is held against the actions of unknown outcome.
Sync(i, token) ==
  /\ \E k \in 1 .. Len(delivered[i]) : delivered[i][k].token = token
  /\ \A by \in {"report", "sync"} : [token |-> token, by |-> by] \notin items[i]
  /\ Keep(i, [token |-> token, by |-> "sync"])
  /\ IF store[i].status = "unknown" /\ store[i].submitted_as = token
       THEN ConfirmSent(i, token)
       ELSE UNCHANGED vars
  /\ UNCHANGED <<phase, queue, wire, delivered>>

-----------------------------------------------------------------------------
(* The connector's process ends, by itself or with the core, which kills it. *)

Dies == phase' = "asking" /\ queue' = <<>> /\ UNCHANGED <<wire, delivered, items>>

ConnectorDies == Dies /\ UNCHANGED vars
CoreRestarts  == Dies /\ Restart

Connector ==
  \/ NotGranted \/ Answer \/ AskAgain \/ GiveUp \/ Submit \/ ReportHome
  \/ \E i \in Ids : Take(i) \/ Refuse(i)
  \/ \E outcome \in Outcome : Answered(outcome)

MailNext ==
  \/ Connector
  \/ \E job \in wire : Accept(job)
  \/ \E i \in Ids : \E token \in 1 .. issued[i] : Sync(i, token)
  \/ \E i \in Ids : (User(i) \/ Clock(i)) /\ UNCHANGED outside
  \/ ConnectorDies
  \/ CoreRestarts

MailSpec == MailInit /\ [][MailNext]_mailVars

\* The tasks' loops run, submissions time out after a minute, the clean-up runs,
\* and sync reaches every copy the server keeps.
MailFairness ==
  /\ WF_mailVars(Connector)
  /\ \A i \in Ids :
       /\ WF_mailVars(TimeIsUp(i) /\ UNCHANGED outside)
       /\ WF_mailVars(ReportIsOverdue(i) /\ UNCHANGED outside)
       /\ WF_mailVars(ExpireDue(i) /\ UNCHANGED outside)
       /\ WF_mailVars(\E token \in 1 .. issued[i] : Sync(i, token))

FairMailSpec == MailSpec /\ MailFairness

-----------------------------------------------------------------------------
(* Properties. *)

\* No words go out twice, though connectors die before, during and after a
\* submission and the core forgets whom it gave what (design 05: never retried).
SentOnce ==
  \A i \in Ids : \A j, k \in 1 .. Len(delivered[i]) :
    delivered[i][j].version = delivered[i][k].version => j = k

\* If the store says the user's newest words were not sent - still to be decided,
\* turned down, lapsed, failed - then no server ever accepted those words, nor
\* are they on their way to one.
UnsentMeansUnsent ==
  \A i \in Ids :
    store[i].status \in {"pending", "declined", "expired", "failed"} =>
      \A job \in wire \union {delivered[i][k] : k \in 1 .. Len(delivered[i])} :
        job.id = i => job.version # store[i].current

\* If the store says a mail was executed, a server accepted it and its text is
\* among the user's items.
ExecutedIsInTheData ==
  \A i \in Ids : store[i].status = "executed" =>
    \E k \in 1 .. Len(delivered[i]) : \E item \in items[i] :
      delivered[i][k].token = item.token

\* An approval comes to an end: taken and reported, given up on, or lapsed.
ApprovedEnds == \A i \in Ids : store[i].status = "approved" ~> store[i].status # "approved"

\* The comment in ingest::mail: a mail kept by a report is the same message as
\* the server's copy and is not doubled.
NotDoubled ==
  \A i \in Ids : \A a, b \in items[i] : a.token = b.token => a = b
=============================================================================
