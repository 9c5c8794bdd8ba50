------------------------------ MODULE Dispatch ------------------------------
(***************************************************************************)
(* One approved dispatch, carried out: crates/daemon/src/executors/run.rs  *)
(* and mod.rs, with the loop of main.rs that starts work and carries it on *)
(* and the pages' stop and answer (web/work.rs).                           *)
(*                                                                         *)
(* The work is done by a task; the row and the steps are its record on     *)
(* disk, exec is its stop button in memory.  A task, the loop and the      *)
(* user's two requests each do one store write, or one look at exec, per   *)
(* step, and the core may stop between any two.  At most one answer and    *)
(* one stop are under way at a time.  What an executor did is seen in how  *)
(* its session ends; material, prompts and tickets are left out.           *)
(***************************************************************************)
EXTENDS Recipe

CONSTANTS
  Tasks,         \* bound: tasks that may exist at the same time, numbers
  MaxQuestions   \* bound: questions the executors ask

ASSUME TasksAssumption == Tasks \subseteq Nat /\ MaxQuestions \in Nat

VARIABLES
  approval,    \* of the action: see Approval
  row,         \* the dispatch's row
  steps,       \* its steps, by seq
  workspace,   \* whether the workspace is on disk
  proposals,   \* effects proposed, oldest first
  exec,        \* memory: Exec::running, for this dispatch
  tasks,       \* memory: the tasks
  loop,        \* memory: work_as_approved, between marking a row and its task
  requests,    \* memory: the user's requests under way
  sweeping,    \* memory: recover's removal of the workspace, under way
  stops        \* the stops the user was told of: of running or of waiting work

disk    == <<approval, row, steps, workspace, proposals>>
memory  == <<exec, tasks, loop, requests, sweeping>>
vars    == <<disk, memory, stops>>

Approval == {"approved", "taken", "executed", "failed"}

Ended == {"finished", "failed", "stopped"}

\* "none": no row yet.  base: the commit work starts from is known, so there is
\* a workspace to go on in.  passed: review_passed.
Row == [state : {"none", "running", "waiting", "answered"} \union Ended,
        base : BOOLEAN, passed : Verdicts]

StepRecord ==
  [step : Steps, round : Nat, verdict : Verdicts,
   state : {"running", "refused", "waiting", "answered", "cancelled", "failed", "done"}]

PC == {"idle", "pinning", "recording", "beginning", "preparing", "choosing", "admitting",
       "session", "pausing", "bundling", "pushing", "requesting",
       "cleaning", "closing", "leaving"}

\* seq: its current step; done: what it takes for done; passed: review_passed in
\* its copy of the row; ending: how it ends.
Task == [pc : PC, seq : Nat, done : Seq(Done), passed : Verdicts,
         ending : Ended \union {"none"}]

Idle == [pc |-> "idle", seq |-> 0, done |-> <<>>, passed |-> "none", ending |-> "none"]

TypeOK ==
  /\ approval \in Approval
  /\ row \in Row
  /\ steps \in Seq(StepRecord)
  /\ workspace \in BOOLEAN
  /\ proposals \in Seq({"push", "request"})
  /\ exec \in {"absent", "running", "stopped"}
  /\ tasks \in [Tasks -> Task]
  /\ loop \in {"idle", "marked"}
  /\ requests \subseteq {"answer", "stop"}
  /\ sweeping \in BOOLEAN
  /\ stops \subseteq {"running", "waiting"}

Init ==
  /\ approval = "approved"
  /\ row = [state |-> "none", base |-> FALSE, passed |-> "none"]
  /\ steps = <<>>
  /\ workspace = FALSE
  /\ proposals = <<>>
  /\ exec = "absent"
  /\ tasks = [t \in Tasks |-> Idle]
  /\ loop = "idle"
  /\ requests = {}
  /\ sweeping = FALSE
  /\ stops = {}

-----------------------------------------------------------------------------
(* The loop: it starts approved work and carries on answered work. *)

Goto(t, pc) == tasks' = [tasks EXCEPT ![t].pc = pc]

Spawn(pc) ==
  \E t \in Tasks : tasks[t] = Idle /\ tasks' = [tasks EXCEPT ![t] = [Idle EXCEPT !.pc = pc]]

StartApproved ==
  /\ loop = "idle"
  /\ approval = "approved"
  /\ approval' = "taken"
  /\ Spawn("pinning")
  /\ UNCHANGED <<row, steps, workspace, proposals, exec, loop, requests, sweeping, stops>>

\* Bug: the row is not marked before its task runs.
MarkAnsweredLater ==
  /\ loop = "idle"
  /\ row.state = "answered"
  /\ loop' = "marked"
  /\ UNCHANGED <<disk, exec, tasks, requests, sweeping, stops>>

MarkAnswered ==
  /\ loop = "idle"
  /\ row.state = "answered"
  /\ row' = [row EXCEPT !.state = "running"]
  /\ loop' = "marked"
  /\ UNCHANGED <<approval, steps, workspace, proposals, exec, tasks, requests, sweeping, stops>>

ResumeAnswered ==
  /\ loop = "marked"
  /\ loop' = "idle"
  /\ Spawn("beginning")
  /\ UNCHANGED <<disk, exec, requests, sweeping, stops>>

\* Bug: the failure is told to nobody.
ResumeFailsUnsaid ==
  /\ loop = "marked"
  /\ loop' = "idle"
  /\ UNCHANGED <<disk, exec, tasks, requests, sweeping, stops>>

\* What the work was approved with is gone or no longer allowed.
ResumeFails ==
  /\ loop = "marked"
  /\ loop' = "idle"
  /\ row' = [row EXCEPT !.state = "failed"]
  /\ UNCHANGED <<approval, steps, workspace, proposals, exec, tasks, requests, sweeping, stops>>

-----------------------------------------------------------------------------
(* carry_out: the action is reported on, then the record begins. *)

ReportFailed(t) ==
  /\ tasks[t].pc = "pinning"
  /\ approval' = "failed"
  /\ tasks' = [tasks EXCEPT ![t] = Idle]
  /\ UNCHANGED <<row, steps, workspace, proposals, exec, loop, requests, sweeping, stops>>

ReportExecuted(t) ==
  /\ tasks[t].pc = "pinning"
  /\ approval' = "executed"
  /\ Goto(t, "recording")
  /\ UNCHANGED <<row, steps, workspace, proposals, exec, loop, requests, sweeping, stops>>

InsertRow(t) ==
  /\ tasks[t].pc = "recording"
  /\ row' = [row EXCEPT !.state = "running"]
  /\ Goto(t, "beginning")
  /\ UNCHANGED <<approval, steps, workspace, proposals, exec, loop, requests, sweeping, stops>>

-----------------------------------------------------------------------------
(* drive and work. *)

\* Exec::begin replaces whatever was there.
Begin(t) ==
  /\ tasks[t].pc = "beginning"
  /\ exec' = "running"
  /\ Goto(t, "preparing")
  /\ UNCHANGED <<disk, loop, requests, sweeping, stops>>

EndAs(t, ending) == tasks' = [tasks EXCEPT ![t].pc = "cleaning", ![t].ending = ending]

\* The steps done among the first n on record, by n.
DoneUpTo(record) ==
  LET upTo[n \in 0 .. Len(record)] ==
        IF n = 0 THEN <<>>
        ELSE IF record[n].state = "done"
          THEN Append(upTo[n - 1], [step |-> record[n].step, verdict |-> record[n].verdict])
        ELSE upTo[n - 1]
  IN  upTo

DoneIn(record) == DoneUpTo(record)[Len(record)]

\* Bug: a step that ended with an answered question counts as done.
LoadCountsAnswered(t) ==
  LET over == SelectSeq(steps, LAMBDA s : s.state \in {"done", "answered"})
  IN  [tasks[t] EXCEPT
         !.pc = "choosing",
         !.done = [k \in DOMAIN over |-> [step |-> over[k].step, verdict |-> over[k].verdict]],
         !.seq = Len(steps)]

\* Where the work stands: the steps done, from the record.
Load(t) == [tasks[t] EXCEPT !.pc = "choosing", !.done = DoneIn(steps), !.seq = Len(steps)]

\* The workspace is made once; work that goes on has it.
Prepare(t) ==
  /\ tasks[t].pc = "preparing"
  /\ workspace' = IF row.base THEN workspace ELSE TRUE
  /\ row' = [state |-> "running", base |-> TRUE, passed |-> "none"]
  /\ tasks' = [tasks EXCEPT ![t] = Load(t)]
  /\ UNCHANGED <<approval, steps, proposals, exec, loop, requests, sweeping, stops>>

\* The executor's user is missing, or the workspace cannot be made.
PrepareFails(t) ==
  /\ tasks[t].pc = "preparing"
  /\ EndAs(t, "failed")
  /\ UNCHANGED <<disk, exec, loop, requests, sweeping, stops>>

\* put_dispatch_step: a new step, or what changed on one.
Put(seq, s) ==
  steps' = IF seq \in DOMAIN steps
             THEN [steps EXCEPT ![seq].state = s.state, ![seq].verdict = s.verdict]
             ELSE Append(steps, s)

Current(t) == steps[tasks[t].seq]

StopSeen(t) ==
  /\ tasks[t].pc = "choosing"
  /\ exec # "running"
  /\ EndAs(t, "stopped")
  /\ UNCHANGED <<disk, exec, loop, requests, sweeping, stops>>

\* The recipe's next step is put on record.
StartStep(t) ==
  LET at == Stand(tasks[t].done) IN
  /\ tasks[t].pc = "choosing"
  /\ exec = "running"
  /\ at.pos \in Steps
  /\ Put(tasks[t].seq + 1,
         [step |-> at.pos, round |-> RoundAt(at), verdict |-> "none", state |-> "running"])
  /\ tasks' = [tasks EXCEPT ![t].pc = "admitting", ![t].seq = @ + 1]
  /\ UNCHANGED <<approval, row, workspace, proposals, exec, loop, requests, sweeping, stops>>

\* The recipe says stop; or the step's role or executor is not as approved.
CannotGoOn(t) ==
  LET at == Stand(tasks[t].done) IN
  /\ tasks[t].pc = "choosing"
  /\ exec = "running"
  /\ at.pos \in Steps \union {Astray}
  /\ EndAs(t, "failed")
  /\ UNCHANGED <<disk, exec, loop, requests, sweeping, stops>>

\* Bug: a verdict nobody can read ends the work like a pass.
AllDoneUnread(t) ==
  LET at == Stand(tasks[t].done) IN
  /\ tasks[t].pc = "choosing"
  /\ exec = "running"
  /\ at.pos \notin Steps
  /\ tasks' = [tasks EXCEPT ![t].pc = "bundling", ![t].passed = at.passed]
  /\ UNCHANGED <<disk, exec, loop, requests, sweeping, stops>>

AllDone(t) ==
  LET at == Stand(tasks[t].done) IN
  /\ tasks[t].pc = "choosing"
  /\ exec = "running"
  /\ at.pos > Len(Kinds)
  /\ tasks' = [tasks EXCEPT ![t].pc = "bundling", ![t].passed = at.passed]
  /\ UNCHANGED <<disk, exec, loop, requests, sweeping, stops>>

GateRefuses(t) ==
  /\ tasks[t].pc = "admitting"
  /\ \/ Put(tasks[t].seq, [Current(t) EXCEPT !.state = "refused"])
     \/ UNCHANGED steps          \* the gate could not be asked
  /\ EndAs(t, "failed")
  /\ UNCHANGED <<approval, row, workspace, proposals, exec, loop, requests, sweeping, stops>>

\* The gate signs, and Exec::arm says whether the session may start.
Admit(t) ==
  /\ tasks[t].pc = "admitting"
  /\ IF exec = "running" THEN Goto(t, "session") ELSE EndAs(t, "stopped")
  /\ UNCHANGED <<disk, exec, loop, requests, sweeping, stops>>

-----------------------------------------------------------------------------
(* A session ends.  The stop button is looked at first. *)

SessionCancelled(t) ==
  /\ tasks[t].pc = "session"
  /\ exec # "running"
  /\ Put(tasks[t].seq, [Current(t) EXCEPT !.state = "cancelled"])
  /\ EndAs(t, "stopped")
  /\ UNCHANGED <<approval, row, workspace, proposals, exec, loop, requests, sweeping, stops>>

\* The executor failed, or its changes could not be committed.
SessionFails(t) ==
  /\ tasks[t].pc = "session"
  /\ exec = "running"
  /\ Put(tasks[t].seq, [Current(t) EXCEPT !.state = "failed"])
  /\ EndAs(t, "failed")
  /\ UNCHANGED <<approval, row, workspace, proposals, exec, loop, requests, sweeping, stops>>

Questions == Len(SelectSeq(steps, LAMBDA s : s.state \in {"waiting", "answered"}))

\* The executor asks the user something; without a workspace there is none to ask.
SessionAsks(t) ==
  /\ tasks[t].pc = "session"
  /\ exec = "running"
  /\ workspace
  /\ Questions < MaxQuestions
  /\ Put(tasks[t].seq, [Current(t) EXCEPT !.state = "waiting"])
  /\ Goto(t, "pausing")
  /\ UNCHANGED <<approval, row, workspace, proposals, exec, loop, requests, sweeping, stops>>

SessionDone(t) ==
  /\ tasks[t].pc = "session"
  /\ exec = "running"
  /\ workspace
  /\ \E verdict \in IF Kinds[Current(t).step] = "verdict" THEN Verdicts ELSE {"none"} :
       /\ Put(tasks[t].seq, [Current(t) EXCEPT !.state = "done", !.verdict = verdict])
       /\ tasks' = [tasks EXCEPT ![t].pc = "choosing",
                                 ![t].done = Append(@, [step |-> Current(t).step,
                                                        verdict |-> verdict])]
  /\ UNCHANGED <<approval, row, workspace, proposals, exec, loop, requests, sweeping, stops>>

-----------------------------------------------------------------------------
(* The commits come out, and what is to become of them is proposed. *)

\* No commits, or nowhere to push them: the answers are the result.
NothingToPush(t) ==
  /\ tasks[t].pc = "bundling"
  /\ workspace
  /\ EndAs(t, "finished")
  /\ UNCHANGED <<disk, exec, loop, requests, sweeping, stops>>

BundleFails(t) ==
  /\ tasks[t].pc = "bundling"
  /\ EndAs(t, "failed")
  /\ UNCHANGED <<disk, exec, loop, requests, sweeping, stops>>

\* Bug: the pull request is proposed before the push.
ReceiveRequestsFirst(t) ==
  /\ tasks[t].pc = "bundling"
  /\ workspace
  /\ "push" \in Proposes
  /\ row' = [state |-> "running", base |-> TRUE, passed |-> tasks[t].passed]
  /\ Goto(t, "requesting")
  /\ UNCHANGED <<approval, steps, workspace, proposals, exec, loop, requests, sweeping, stops>>

\* Filed in the mirror; the row gets its tip.
Receive(t) ==
  /\ tasks[t].pc = "bundling"
  /\ workspace
  /\ "push" \in Proposes
  /\ row' = [state |-> "running", base |-> TRUE, passed |-> tasks[t].passed]
  /\ Goto(t, "pushing")
  /\ UNCHANGED <<approval, steps, workspace, proposals, exec, loop, requests, sweeping, stops>>

ProposePush(t) ==
  /\ tasks[t].pc = "pushing"
  /\ proposals' = Append(proposals, "push")
  /\ IF "request" \in Proposes THEN Goto(t, "requesting") ELSE EndAs(t, "finished")
  /\ UNCHANGED <<approval, row, steps, workspace, exec, loop, requests, sweeping, stops>>

ProposeRequest(t) ==
  /\ tasks[t].pc = "requesting"
  /\ proposals' = Append(proposals, "request")
  /\ EndAs(t, "finished")
  /\ UNCHANGED <<approval, row, steps, workspace, exec, loop, requests, sweeping, stops>>

-----------------------------------------------------------------------------
(* The work ends: the workspace goes, the row says so, the stop button     *)
(* goes.  Or it waits for the user, and the workspace stays.               *)

\* Bug: work that waits is cleaned up like work that ended.
PauseCleansUp(t) ==
  /\ tasks[t].pc = "pausing"
  /\ row' = [row EXCEPT !.state = "waiting"]
  /\ workspace' = FALSE
  /\ Goto(t, "leaving")
  /\ UNCHANGED <<approval, steps, proposals, exec, loop, requests, sweeping, stops>>

Pause(t) ==
  /\ tasks[t].pc = "pausing"
  /\ row' = [row EXCEPT !.state = "waiting"]
  /\ Goto(t, "leaving")
  /\ UNCHANGED <<approval, steps, workspace, proposals, exec, loop, requests, sweeping, stops>>

RemoveWorkspace(t) ==
  /\ tasks[t].pc = "cleaning"
  /\ workspace' = FALSE
  /\ Goto(t, "closing")
  /\ UNCHANGED <<approval, row, steps, proposals, exec, loop, requests, sweeping, stops>>

Close(t) ==
  /\ tasks[t].pc = "closing"
  /\ row' = [row EXCEPT !.state = tasks[t].ending, !.passed = tasks[t].passed]
  /\ Goto(t, "leaving")
  /\ UNCHANGED <<approval, steps, workspace, proposals, exec, loop, requests, sweeping, stops>>

Leave(t) ==
  /\ tasks[t].pc = "leaving"
  /\ exec' = "absent"
  /\ tasks' = [tasks EXCEPT ![t] = Idle]
  /\ UNCHANGED <<disk, loop, requests, sweeping, stops>>

-----------------------------------------------------------------------------
(* The user's requests. *)

\* Exec::stop: the button is pressed and the user is told it stops.
Stop ==
  /\ exec # "absent"
  /\ exec' = "stopped"
  /\ stops' = stops \union {"running"}
  /\ UNCHANGED <<disk, tasks, loop, requests, sweeping>>

\* stop_waiting: no button, and the row waits: the workspace goes, then the row.
StopWaiting ==
  /\ "stop" \notin requests
  /\ exec = "absent"
  /\ row.state = "waiting"
  /\ workspace' = FALSE
  /\ requests' = requests \union {"stop"}
  /\ stops' = stops \union {"waiting"}
  /\ UNCHANGED <<approval, row, steps, proposals, exec, tasks, loop, sweeping>>

StopIsFiled ==
  /\ "stop" \in requests
  /\ row' = [row EXCEPT !.state = "stopped"]
  /\ requests' = requests \ {"stop"}
  /\ UNCHANGED <<approval, steps, workspace, proposals, exec, tasks, loop, sweeping, stops>>

Waiting == {k \in DOMAIN steps : steps[k].state = "waiting"}

\* answer: the newest question gets the answer, then the row does.
Answer ==
  /\ "answer" \notin requests
  /\ row.state = "waiting"
  /\ Waiting # {}
  /\ LET k == CHOOSE k \in Waiting : \A j \in Waiting : j <= k
     IN  steps' = [steps EXCEPT ![k].state = "answered"]
  /\ requests' = requests \union {"answer"}
  /\ UNCHANGED <<approval, row, workspace, proposals, exec, tasks, loop, sweeping, stops>>

AnswerIsFiled ==
  /\ "answer" \in requests
  /\ row' = [row EXCEPT !.state = "answered"]
  /\ requests' = requests \ {"answer"}
  /\ UNCHANGED <<approval, steps, workspace, proposals, exec, tasks, loop, sweeping, stops>>

-----------------------------------------------------------------------------
(* The core stops and starts.  recover looks for work left running before  *)
(* the loop's first pass, five seconds in; its removal of the workspace    *)
(* goes on in the background.                                              *)

Restart ==
  /\ row' = IF row.state = "running" THEN [row EXCEPT !.state = "failed"] ELSE row
  /\ sweeping' = (row.state = "running")
  /\ exec' = "absent"
  /\ tasks' = [t \in Tasks |-> Idle]
  /\ loop' = "idle"
  /\ requests' = {}
  /\ UNCHANGED <<approval, steps, workspace, proposals, stops>>

Sweep ==
  /\ sweeping
  /\ workspace' = FALSE
  /\ sweeping' = FALSE
  /\ UNCHANGED <<approval, row, steps, proposals, exec, tasks, loop, requests, stops>>

-----------------------------------------------------------------------------
Loop == StartApproved \/ MarkAnswered \/ ResumeAnswered \/ ResumeFails

Work(t) ==
  \/ ReportFailed(t) \/ ReportExecuted(t) \/ InsertRow(t)
  \/ Begin(t) \/ Prepare(t) \/ PrepareFails(t)
  \/ StopSeen(t) \/ StartStep(t) \/ CannotGoOn(t) \/ AllDone(t)
  \/ GateRefuses(t) \/ Admit(t)
  \/ SessionCancelled(t) \/ SessionFails(t) \/ SessionAsks(t) \/ SessionDone(t)
  \/ NothingToPush(t) \/ BundleFails(t) \/ Receive(t) \/ ProposePush(t) \/ ProposeRequest(t)
  \/ Pause(t) \/ RemoveWorkspace(t) \/ Close(t) \/ Leave(t)

User == Stop \/ StopWaiting \/ StopIsFiled \/ Answer \/ AnswerIsFiled

Next == Loop \/ (\E t \in Tasks : Work(t)) \/ User \/ Restart \/ Sweep

Spec == Init /\ [][Next]_vars

\* The loop comes round every five seconds; a session ends by itself, by its
\* time limit or by the stop button.
Fairness == WF_vars(Loop) /\ \A t \in Tasks : WF_vars(Work(t))

FairSpec == Spec /\ Fairness

-----------------------------------------------------------------------------
(* Properties. *)

\* Whatever is answered, stopped and restarted, one task at most does the work:
\* resume_answered marks the row running before anything else.
AtWork == {t \in Tasks : tasks[t].pc \notin {"idle", "leaving"}}

OneAtWork == \A t, u \in AtWork : t = u

\* The steps done, read from the record across every pause, are the steps the
\* recipe calls for, in its order, each review read, and never a fix too many;
\* and a turn that ended with an answered question is followed by a turn of the
\* same step and round, never by the step after it or by the first.
DoneFollowsRecipe ==
  /\ FollowsRecipe(DoneIn(steps))
  /\ \A k \in 1 .. Len(steps) - 1 :
       steps[k].state = "answered" =>
         steps[k + 1].step = steps[k].step /\ steps[k + 1].round = steps[k].round

\* Finished means the recipe was carried out, and the row says what the last
\* review said.
FinishedIsCarriedOut ==
  row.state = "finished" =>
    /\ CarriedOut(DoneIn(steps))
    /\ row.passed = ReviewSaid(DoneIn(steps))

\* Design 13: a workspace is kept while its work waits for an answer, and after
\* it is answered, restarts or not, unless the user stopped it there.
KeptForTheAnswer ==
  row.state \in {"waiting", "answered"} /\ "waiting" \notin stops => workspace

\* The user is asked to approve the push and the request of a piece of work once,
\* the push first, and only once all its steps are done.
ProposedOnce ==
  /\ IsPrefix(proposals, <<"push", "request">>)
  /\ proposals # <<>> => CarriedOut(DoneIn(steps))

\* Work does not hang: started or answered, it comes to an end or to a question.
WorkRests ==
  row.state \in {"running", "answered"} ~> row.state \in Ended \union {"waiting"}

Starts(t) == tasks[t].pc # "session" /\ tasks'[t].pc = "session"

\* The comment on Exec::stop: once a stop was accepted, no step starts.
NoStepAfterStop ==
  [][ "running" \in stops => \A t \in Tasks : ~Starts(t)]_vars
=============================================================================
