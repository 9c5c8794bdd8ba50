------------------------------- MODULE Agents -------------------------------
(***************************************************************************)
(* Installed agents: crates/daemon/src/agents (mod.rs, life.rs, doors.rs), *)
(* their packages as web/agents.rs takes them in, their rows in            *)
(* crates/store/src/agent.rs, the space each keeps in a database of its    *)
(* own (space.rs), and what the sandbox of crates/host/src/runner.rs lets  *)
(* a run do.                                                               *)
(*                                                                         *)
(* A run is a future that waits for its turn, starts a thread for the      *)
(* agent, waits for it and settles what it leaves: the space's             *)
(* transaction, the level, the record.  The turn goes with the future; the *)
(* thread runs on when the future is dropped, which is what happens to a   *)
(* message whose client goes away.  Settling writes to three databases,    *)
(* one after the other, and any of the writes may fail.  An agent may say  *)
(* BEGIN and COMMIT in its space; one that says COMMIT while it applies    *)
(* ends the core's savepoint, which the code leaves to it and this module  *)
(* leaves out.  Time stands still within one day of the limits.            *)
(*                                                                         *)
(* An item is the row it is stored in: the row after the highest one, so   *)
(* that when the newest item is purged the next one takes its row.         *)
(***************************************************************************)
EXTENDS Naturals, FiniteSets, FiniteSetsExt

CONSTANTS
  Packages,   \* agents that may be installed, each once
  MaxItems,   \* bound: items stored at a time
  ItemLevel,  \* by item: 0 public, 1 personal, 2 secret
  MaxLevel,   \* by package: the highest level its manifest reads
  Batch,      \* BATCH
  PerDay,     \* a manifest's quota.proposals_per_day
  Ceiling,    \* the core's PROPOSALS_PER_DAY for all agents
  MaxRuns,    \* bound: runs
  MaxActs,    \* bound: proposals
  MaxWrites,  \* bound: statements of a run in its space
  MaxCuts     \* bound: writes that fail, clients and last items that go away, crashes

Items == 1 .. MaxItems
Runs == 1 .. MaxRuns
ActIds == 1 .. MaxActs
Levels == 0 .. 2

ASSUME AgentsAssumption ==
  /\ MaxItems \in Nat
  /\ ItemLevel \in [Items -> Levels] /\ MaxLevel \in [Packages -> Levels]
  /\ Batch \in Nat \ {0} /\ PerDay \in Nat /\ Ceiling \in Nat
  /\ MaxWrites \in [{"items", "message", "apply"} -> Nat]
  /\ MaxRuns \in Nat /\ MaxActs \in Nat /\ MaxCuts \in Nat

VARIABLES
  staged,  \* memory: packages read and waiting to be installed
  agent,   \* the agent rows
  space,   \* each agent's database: what is committed, and its transaction
  items,   \* the items stored
  run,     \* runs, those under way and those that were
  started, \* runs started
  turn,    \* the run whose future holds the turn, 0 for none
  records, \* runs that have a row
  wake,    \* the loop's hand-over of new items, as far as it has come
  act,     \* the actions agents proposed
  made,    \* actions proposed
  hands,   \* memory: approved effects taken and not begun
  pausing, \* by agent: how far a pause or an uninstall has come
  handed,  \* by agent and item: runs that were handed it as new
  behind,  \* by agent: hand-overs whose last item was gone when it was looked up
  cut,     \* agents a run of which was cut short
  cuts     \* how often

packageVars == <<staged, pausing>>
itemVars == <<items, wake, handed, behind>>
runVars == <<run, started, turn, records>>
actVars == <<act, made, hands>>
cutVars == <<cut, cuts>>
agentsVars == <<agent, space, packageVars, itemVars, runVars, actVars, cutVars>>

NoAgent == [state |-> "none"]
NoRun == [pc |-> "none"]
NoWake == [pc |-> "idle", agent |-> "nobody", items |-> {}, next |-> 0]
NoAct == [status |-> "none"]

Higher(l, m) == IF l >= m THEN l ELSE m
Installed(a) == agent[a] # NoAgent
UnderWay(r) == run[r].pc \in {"running", "over", "settled", "raised"}
Newest == IF items = {} THEN 0 ELSE Max(items)
Mishap == cuts < MaxCuts /\ cuts' = cuts + 1

-----------------------------------------------------------------------------
(* A space: a database with one connection.  A write outside a transaction  *)
(* is committed at once; a savepoint outside one begins one.                *)

Closed == [open |-> FALSE, begun |-> FALSE, marked |-> FALSE, writes |-> {}, mark |-> {}]
EmptySpace == [kept |-> {}, txn |-> Closed]

Written(s, w) == IF s.txn.open THEN [s EXCEPT !.txn.writes = @ \cup {w}]
                               ELSE [s EXCEPT !.kept = @ \cup {w}]
Begun(s) == IF s.txn.open THEN s ELSE [s EXCEPT !.txn.open = TRUE, !.txn.begun = TRUE]
Committed(s) == [kept |-> s.kept \cup s.txn.writes, txn |-> Closed]
RolledBack(s) == [s EXCEPT !.txn = Closed]

ApplyBegun(s) ==
  [s EXCEPT !.txn = [@ EXCEPT !.open = TRUE, !.marked = TRUE, !.mark = s.txn.writes]]

\* RELEASE, or ROLLBACK TO and RELEASE: the outermost savepoint commits.
ApplyEnded(s, keep) ==
  LET left == [s EXCEPT !.txn.writes = IF keep THEN @ ELSE s.txn.mark]
  IN  IF ~s.txn.marked THEN s
      ELSE IF s.txn.begun THEN [left EXCEPT !.txn.marked = FALSE, !.txn.mark = {}]
      ELSE Committed(left)

-----------------------------------------------------------------------------

AgentsInit ==
  /\ staged = {}
  /\ agent = [a \in Packages |-> NoAgent]
  /\ space = [a \in Packages |-> EmptySpace]
  /\ items = {}
  /\ run = [r \in Runs |-> NoRun] /\ started = 0 /\ turn = 0
  /\ records = {}
  /\ wake = NoWake
  /\ act = [x \in ActIds |-> NoAct] /\ made = 0 /\ hands = {}
  /\ pausing = [a \in Packages |-> "no"]
  /\ handed = [a \in Packages |-> [i \in Items |-> 0]] /\ behind = [a \in Packages |-> 0]
  /\ cut = {} /\ cuts = 0

Arrive ==
  /\ Newest + 1 \in Items
  /\ items' = items \cup {Newest + 1}
  /\ UNCHANGED <<agent, space, packageVars, wake, handed, behind, runVars, actVars, cutVars>>

\* An item is purged, or what it was read from is found to be junk.  A hand-over
\* that holds it holds an id without an item, and whatever takes its row is new.
Purge(i) ==
  /\ i \in items
  /\ items' = items \ {i}
  /\ handed' = [a \in Packages |-> [handed[a] EXCEPT ![i] = 0]]
  /\ IF wake.pc = "found" /\ wake.next = i
     THEN Mishap /\ wake' = [wake EXCEPT !.items = @ \ {i}, !.next = 0]
     ELSE UNCHANGED cuts /\ wake' = [wake EXCEPT !.items = @ \ {i}]
  /\ UNCHANGED <<agent, space, behind, packageVars, runVars, actVars, cut>>

-----------------------------------------------------------------------------
(* A package is read and held, and installed by its hash, once.             *)

Stage(a) ==
  /\ ~Installed(a) /\ space[a] = EmptySpace /\ \A r \in Runs : run[r] # NoRun => run[r].agent # a
  /\ staged' = staged \cup {a}
  /\ UNCHANGED <<agent, space, pausing, itemVars, runVars, actVars, cutVars>>

GoesStale(a) ==
  /\ a \in staged
  /\ staged' = staged \ {a}
  /\ UNCHANGED <<agent, space, pausing, itemVars, runVars, actVars, cutVars>>

\* New items are those that arrive from now on.
Install(a) ==
  /\ a \in staged
  /\ staged' = staged \ {a}
  /\ agent' = [agent EXCEPT ![a] = [state |-> "active", level |-> 0, cursor |-> Newest]]
  /\ UNCHANGED <<space, pausing, itemVars, runVars, actVars, cutVars>>

-----------------------------------------------------------------------------
(* A run begins when the turn is free.                                      *)

MayRun(a, inv) == Installed(a) /\ (agent[a].state = "active" \/ inv = "apply")

\* The level of the space is where the run's level starts.
Begin(a, inv, x) ==
  /\ turn = 0 /\ started < MaxRuns
  /\ started' = started + 1
  /\ turn' = started + 1
  /\ run' = [run EXCEPT ![started + 1] =
       [pc |-> "running", agent |-> a, inv |-> inv, act |-> x, left |-> FALSE,
        taint |-> agent[a].level, proposed |-> 0, writes |-> 0, well |-> FALSE, missed |-> {}]]
  /\ space' = [space EXCEPT ![a] = IF inv = "apply" THEN ApplyBegun(@) ELSE @]

InScope(a, i) == ItemLevel[i] <= MaxLevel[a]

\* The first few items of its scope behind an agent's cursor.
NewItems(a) ==
  LET new == {i \in items : i > agent[a].cursor /\ InScope(a, i)}
  IN  {i \in new : Cardinality({j \in new : j < i}) < Batch}

\* One loop wakes the agents, one after the other, and waits for each run.
WakeQueries(a) ==
  /\ wake = NoWake /\ \A r \in Runs : UnderWay(r) => run[r].inv # "items"
  /\ Installed(a) /\ agent[a].state = "active" /\ NewItems(a) # {}
  /\ wake' = [pc |-> "found", agent |-> a, items |-> NewItems(a), next |-> Max(NewItems(a))]
  /\ UNCHANGED <<agent, space, packageVars, items, handed, behind, runVars, actVars, cutVars>>

\* The row of the last item; of one that is gone there is none, and the cursor
\* is to stay where it was.
WakeFinds ==
  /\ wake.pc = "found"
  /\ wake' = [wake EXCEPT !.pc = "placed"]
  /\ behind' = [behind EXCEPT ![wake.agent] = IF wake.next = 0 THEN @ + 1 ELSE @]
  /\ UNCHANGED <<agent, space, packageVars, items, handed, runVars, actVars, cutVars>>

\* Bug: the cursor is left for the run to move.
CursorLeft(a) == agent[a].cursor
CursorAfter(a) == IF wake.next = 0 THEN agent[a].cursor ELSE wake.next

WakeMoves ==
  /\ wake.pc = "placed"
  /\ agent' = IF Installed(wake.agent)
               THEN [agent EXCEPT ![wake.agent].cursor = CursorAfter(wake.agent)] ELSE agent
  /\ wake' = [wake EXCEPT !.pc = "waiting"]
  /\ UNCHANGED <<space, packageVars, items, handed, behind, runVars, actVars, cutVars>>

WakeRuns ==
  /\ wake.pc = "waiting" /\ MayRun(wake.agent, "items")
  /\ Begin(wake.agent, "items", 0)
  /\ handed' = [handed EXCEPT ![wake.agent] =
                  [i \in Items |-> @[i] + (IF i \in wake.items THEN 1 ELSE 0)]]
  /\ wake' = NoWake
  /\ UNCHANGED <<agent, packageVars, items, behind, records, actVars, cutVars>>

\* Paused or removed while it waited: these items are behind the cursor now.
WakeIsLate ==
  /\ wake.pc = "waiting" /\ turn = 0 /\ ~MayRun(wake.agent, "items")
  /\ wake' = NoWake
  /\ UNCHANGED <<agent, space, packageVars, items, handed, behind, runVars, actVars, cutVars>>

Ask(a) ==
  /\ MayRun(a, "message")
  /\ Begin(a, "message", 0)
  /\ UNCHANGED <<agent, packageVars, itemVars, records, actVars, cutVars>>

-----------------------------------------------------------------------------
(* What a run does while it is under way.  Applying, it has its own space   *)
(* and nothing else.                                                        *)

Running(r) == run[r].pc = "running"
Applying(r) == run[r].inv = "apply"

Read(r, i) ==
  /\ Running(r) /\ ~Applying(r) /\ i \in items /\ InScope(run[r].agent, i)
  /\ run' = [run EXCEPT ![r].taint = Higher(@, ItemLevel[i])]
  /\ UNCHANGED <<agent, space, packageVars, itemVars, started, turn, records, actVars, cutVars>>

\* What is written carries the run's level, and an effect that of its proposal.
WriteOf(r) ==
  [run |-> r, n |-> run[r].writes + 1,
   level |-> IF Applying(r) THEN Higher(run[r].taint, act[run[r].act].level) ELSE run[r].taint]

\* A space that was removed takes no more writes.
Execute(r) ==
  /\ Running(r) /\ run[r].writes < MaxWrites[run[r].inv]
  /\ run' = [run EXCEPT ![r].writes = @ + 1]
  /\ space' = [space EXCEPT ![run[r].agent] = IF Installed(run[r].agent) THEN Written(@, WriteOf(r)) ELSE @]
  /\ UNCHANGED <<agent, packageVars, itemVars, started, turn, records, actVars, cutVars>>

ExecuteBegin(r) ==
  /\ Running(r) /\ ~Applying(r) /\ Installed(run[r].agent) /\ ~space[run[r].agent].txn.open
  /\ space' = [space EXCEPT ![run[r].agent] = Begun(@)]
  /\ UNCHANGED <<agent, packageVars, itemVars, runVars, actVars, cutVars>>

ExecuteCommit(r) ==
  /\ Running(r) /\ ~Applying(r) /\ space[run[r].agent].txn.open
  /\ space' = [space EXCEPT ![run[r].agent] = Committed(@)]
  /\ UNCHANGED <<agent, packageVars, itemVars, runVars, actVars, cutVars>>

-----------------------------------------------------------------------------
(* Proposing, within the day's limits.                                      *)

Proposals(rs) == {x \in ActIds : act[x] # NoAct /\ act[x].run \in rs}

\* Bug: what this run has proposed already is not counted.
CountedOnRecord(r, rs) == Cardinality(Proposals(rs))
\* The records know of finished runs, the run itself of its own.
Counted(r, rs) == Cardinality(Proposals(rs)) + run[r].proposed

WithinCap(r) ==
  /\ Counted(r, {s \in records : run[s].agent = run[r].agent}) < PerDay
  /\ Counted(r, records) < Ceiling

Propose(r, kind) ==
  /\ Running(r) /\ ~Applying(r) /\ made < MaxActs
  /\ WithinCap(r)
  /\ made' = made + 1
  /\ act' = [act EXCEPT ![made + 1] =
       [status |-> "pending", agent |-> run[r].agent, kind |-> kind, run |-> r, level |-> run[r].taint]]
  /\ run' = [run EXCEPT ![r].proposed = @ + 1]
  /\ UNCHANGED <<agent, space, packageVars, itemVars, started, turn, records, hands, cutVars>>

\* Over the limit, the agent is paused until the user looks.
ProposeTooMuch(r) ==
  /\ Running(r) /\ ~Applying(r)
  /\ ~WithinCap(r)
  /\ agent' = [agent EXCEPT ![run[r].agent] = IF Installed(run[r].agent) THEN [@ EXCEPT !.state = "paused"] ELSE @]
  /\ UNCHANGED <<space, packageVars, itemVars, runVars, actVars, cutVars>>

-----------------------------------------------------------------------------
(* The end of a run: the thread's, and then the future's.                   *)

End(r, well) ==
  /\ Running(r)
  /\ run' = [run EXCEPT ![r].pc = IF run[r].left THEN "done" ELSE "over", ![r].well = well]
  /\ UNCHANGED <<agent, space, packageVars, itemVars, started, turn, records, actVars, cutVars>>

\* Bug: what an apply that failed had written is kept.
SettledSpaceKept(r) ==
  LET s == space[run[r].agent]
  IN  RolledBack(IF Applying(r) THEN ApplyEnded(s, TRUE) ELSE s)
\* An approved effect lands whole or not at all; what the agent left open is
\* rolled back.
SettledSpace(r) ==
  LET s == space[run[r].agent]
  IN  RolledBack(IF Applying(r) THEN ApplyEnded(s, run[r].well) ELSE s)

\* A write of the settling fails, and the future ends or goes on.
Misses(r, what, pc) ==
  /\ run' = [run EXCEPT ![r].pc = pc, ![r].missed = @ \cup {what}]
  /\ turn' = IF pc = "done" THEN 0 ELSE turn
  /\ UNCHANGED <<agent, packageVars, itemVars, started, actVars, cut>>

\* Of an agent that was uninstalled meanwhile there is no space to settle.
SettleSpace(r) ==
  /\ run[r].pc = "over"
  /\ run' = [run EXCEPT ![r].pc = "settled"]
  /\ space' = [space EXCEPT ![run[r].agent] = IF Installed(run[r].agent) THEN SettledSpace(r) ELSE @]
  /\ UNCHANGED <<agent, packageVars, itemVars, started, turn, records, actVars, cutVars>>

\* What comes of the commit is not looked at.
SpaceFails(r) ==
  /\ run[r].pc = "over" /\ Applying(r) /\ Installed(run[r].agent)
  /\ Misses(r, "space", "settled") /\ Mishap
  /\ space' = [space EXCEPT ![run[r].agent] = RolledBack(@)]
  /\ UNCHANGED records

\* Bug: only a run that went well counts.
SettledLevelIfWell(r) ==
  IF run[r].well THEN Higher(agent[run[r].agent].level, run[r].taint) ELSE agent[run[r].agent].level
\* The space rises to what the run read, however the run ended.
SettledLevel(r) == Higher(agent[run[r].agent].level, run[r].taint)

RaiseLevel(r) ==
  /\ run[r].pc = "settled" /\ Installed(run[r].agent)
  /\ agent' = [agent EXCEPT ![run[r].agent].level = SettledLevel(r)]
  /\ run' = [run EXCEPT ![r].pc = "raised"]
  /\ UNCHANGED <<space, packageVars, itemVars, started, turn, records, actVars, cutVars>>

\* No row of an agent, nothing to raise, and the run counts as failed.
LevelFails(r) ==
  /\ run[r].pc = "settled"
  /\ Misses(r, "level", "done")
  /\ IF Installed(run[r].agent) THEN Mishap ELSE UNCHANGED cuts
  /\ UNCHANGED <<space, records>>

Record(r) ==
  /\ run[r].pc = "raised" /\ Installed(run[r].agent)
  /\ turn' = 0
  /\ run' = [run EXCEPT ![r].pc = "done"]
  /\ records' = records \cup {r}
  /\ UNCHANGED <<agent, space, packageVars, itemVars, started, actVars, cutVars>>

RecordFails(r) ==
  /\ run[r].pc = "raised"
  /\ Misses(r, "record", "done")
  /\ IF Installed(run[r].agent) THEN Mishap ELSE UNCHANGED cuts
  /\ UNCHANGED <<space, records>>

\* The row is there, the ledger's entry is not.
LedgerFails(r) ==
  /\ run[r].pc = "raised" /\ Installed(run[r].agent)
  /\ Misses(r, "ledger", "done") /\ Mishap
  /\ records' = records \cup {r}
  /\ UNCHANGED space

\* The client of a message goes away and its future is dropped.
ClientLeaves(r) ==
  /\ cuts < MaxCuts
  /\ run[r].pc \in {"running", "over"} /\ turn = r /\ run[r].inv = "message"
  /\ turn' = 0
  /\ run' = [run EXCEPT ![r].left = TRUE, ![r].pc = IF Running(r) THEN @ ELSE "done"]
  /\ cut' = cut \cup {run[r].agent} /\ cuts' = cuts + 1
  /\ UNCHANGED <<agent, space, packageVars, itemVars, started, records, actVars>>

-----------------------------------------------------------------------------
(* What becomes of a proposal.                                              *)

Moved(x, from, to) ==
  /\ act[x].status \in from
  /\ act' = [act EXCEPT ![x].status = to]
  /\ UNCHANGED <<agent, space, packageVars, itemVars, started, turn, records, made, cutVars>>

Approve(x) == Moved(x, {"pending"}, "approved") /\ UNCHANGED <<run, hands>>
Decline(x) == Moved(x, {"pending", "approved"}, "declined") /\ UNCHANGED <<run, hands>>

\* By the core for an agent's own kind, by a connector for a mail.
Take(x) ==
  /\ Moved(x, {"approved"}, "executing")
  /\ hands' = IF act[x].kind = "own" THEN hands \cup {x} ELSE hands
  /\ run' = run

ApplyRuns(x) ==
  /\ x \in hands /\ MayRun(act[x].agent, "apply")
  /\ Begin(act[x].agent, "apply", x)
  /\ hands' = hands \ {x}
  /\ UNCHANGED <<agent, packageVars, itemVars, records, act, made, cutVars>>

ApplyHasNoAgent(x) ==
  /\ x \in hands /\ ~Installed(act[x].agent)
  /\ Moved(x, {"executing"}, "failed")
  /\ hands' = hands \ {x}
  /\ run' = run

\* The run was carried out as far as its future knows.
WentWell(r) == run[r].well /\ run[r].missed \subseteq {"space"}

\* The future of the run, if it lives, reports to the action.
Report(r) ==
  /\ run[r].pc = "done" /\ Applying(r)
  /\ Moved(run[r].act, {"executing"}, IF WentWell(r) THEN "executed" ELSE "failed")
  /\ run' = [run EXCEPT ![r].pc = "reported"]
  /\ hands' = hands

-----------------------------------------------------------------------------
(* Pause: the row first, then what the agent has proposed; uninstall goes on *)
(* to the space and the row.                                                *)

\* Pending, or approved and not yet taken.  A mail is known for the agent's by
\* the run it names, which has to have a record.
OpenActions(a) ==
  {x \in ActIds : /\ act[x].status \in {"pending", "approved"} /\ act[x].agent = a
                  /\ act[x].kind = "own" \/ act[x].run \in records}

PauseBegins(a, why) ==
  /\ Installed(a) /\ pausing[a] = "no"
  /\ agent' = [agent EXCEPT ![a].state = "paused"]
  /\ pausing' = [pausing EXCEPT ![a] = why]
  /\ UNCHANGED <<space, staged, itemVars, runVars, actVars, cutVars>>

PauseWithdraws(a) ==
  /\ pausing[a] \in {"pause", "uninstall"}
  /\ act' = [x \in ActIds |-> IF x \in OpenActions(a) THEN [act[x] EXCEPT !.status = "declined"] ELSE act[x]]
  /\ pausing' = [pausing EXCEPT ![a] = IF @ = "pause" THEN "no" ELSE "remove"]
  /\ UNCHANGED <<agent, space, staged, itemVars, runVars, made, hands, cutVars>>

\* The rows of its runs go with the agent's.
Remove(a) ==
  /\ pausing[a] = "remove"
  /\ pausing' = [pausing EXCEPT ![a] = "no"]
  /\ agent' = [agent EXCEPT ![a] = NoAgent]
  /\ space' = [space EXCEPT ![a] = EmptySpace]
  /\ records' = {r \in records : run[r].agent # a}
  /\ UNCHANGED <<staged, itemVars, run, started, turn, actVars, cutVars>>

Resume(a) ==
  /\ Installed(a) /\ agent[a].state = "paused"
  /\ agent' = [agent EXCEPT ![a].state = "active"]
  /\ UNCHANGED <<space, packageVars, itemVars, runVars, actVars, cutVars>>

-----------------------------------------------------------------------------

\* The core stops and starts: threads end, open transactions are gone, and so is
\* what was only in memory.  What an executor held stays executing.
AgentsRestart ==
  /\ cuts < MaxCuts
  /\ cuts' = cuts + 1
  /\ staged' = {}
  /\ cut' = cut \cup {run[r].agent : r \in {s \in Runs : UnderWay(s)}}
  /\ run' = [r \in Runs |-> IF run[r] = NoRun THEN NoRun
                            ELSE [run[r] EXCEPT !.pc = IF @ = "reported" THEN @ ELSE "lost"]]
  /\ space' = [a \in Packages |-> RolledBack(space[a])]
  /\ turn' = 0
  /\ wake' = NoWake
  /\ hands' = {}
  /\ pausing' = [a \in Packages |-> "no"]
  /\ UNCHANGED <<agent, items, handed, behind, started, records, act, made>>

AgentsStep ==
  \/ Arrive \/ WakeFinds \/ WakeMoves \/ WakeRuns \/ WakeIsLate
  \/ \E i \in Items : Purge(i)
  \/ \E a \in Packages : \/ Stage(a) \/ GoesStale(a) \/ WakeQueries(a) \/ Ask(a)
                         \/ PauseBegins(a, "pause") \/ PauseWithdraws(a) \/ Remove(a) \/ Resume(a)
  \/ \E r \in Runs, i \in Items : Read(r, i)
  \/ \E r \in Runs : \/ Execute(r) \/ ExecuteBegin(r) \/ ExecuteCommit(r) \/ ProposeTooMuch(r)
                     \/ SettleSpace(r) \/ SpaceFails(r) \/ RaiseLevel(r) \/ LevelFails(r)
                     \/ Record(r) \/ RecordFails(r) \/ LedgerFails(r) \/ ClientLeaves(r) \/ Report(r)
  \/ \E r \in Runs, kind \in {"own", "mail"} : Propose(r, kind)
  \/ \E r \in Runs, well \in BOOLEAN : End(r, well)
  \/ \E x \in ActIds : Approve(x) \/ Decline(x) \/ Take(x) \/ ApplyRuns(x) \/ ApplyHasNoAgent(x)

-----------------------------------------------------------------------------

\* What an agent's space holds is at most at the level on its row, or at that of
\* a run of it that is under way or whose raising of the row failed, unless one
\* was cut short: through runs that fail, proposals carried out later and pauses
\* (mod.rs, run; agent.rs, raise_space_level).
LevelCovers ==
  \A a \in Packages \ cut : \A w \in space[a].kept :
    \/ w.level <= agent[a].level
    \/ \E r \in Runs : /\ UnderWay(r) \/ (run[r] # NoRun /\ "level" \in run[r].missed)
                       /\ run[r].agent = a /\ w.level <= run[r].taint

\* What a run wrote of an effect.
Landed(r) == {w.n : w \in {v \in space[run[r].agent].kept : v.run = r}}

\* Of an effect all is there or nothing; all of one that was reported as carried
\* out, if its commit did not fail, and nothing of one reported as failed, if
\* nothing failed after it had landed (mod.rs, execute_approved; space.rs,
\* end_apply).
LandsWhole ==
  \A r \in Runs : run[r].pc = "reported" /\ run[r].agent \notin cut /\ Installed(run[r].agent) =>
    LET told == act[run[r].act].status
    IN  /\ Landed(r) \in {{}, 1 .. run[r].writes}
        /\ told = "executed" /\ "space" \notin run[r].missed => Landed(r) = 1 .. run[r].writes
        /\ told = "failed" /\ run[r].missed = {} => Landed(r) = {}

\* What has been proposed and is counted: what a run proposed whose settling
\* failed before its record is not.
Proposed(as) ==
  {x \in ActIds : /\ act[x] # NoAct /\ act[x].agent \in as
                  /\ run[act[x].run].missed \cap {"level", "record"} = {}}

\* An agent makes no more proposals in a day than its manifest says, nor do all
\* of them together make more than the core allows, through pauses, resumptions
\* and failed runs, those aside that nothing was recorded of; an uninstalled
\* agent's count is forgotten with it (doors.rs, within_cap).
CapHolds ==
  /\ \A a \in Packages \ cut : Installed(a) => Cardinality(Proposed({a})) <= PerDay
  /\ cut = {} /\ (\A x \in 1 .. made : Installed(act[x].agent)) => Cardinality(Proposed(Packages)) <= Ceiling

\* No item is handed to an agent as new more than once, through failing runs,
\* pauses and restarts, but for the times the last item of a batch was gone
\* before its row was looked up (life.rs, new_items).
NewItemsOnce == \A a \in Packages, i \in Items : handed[a][i] <= 1 + behind[a]

\* Pausing an agent takes back what it has proposed and nobody has decided,
\* says the design (docs/design/11-agents.md).
PauseTakesBack ==
  [][\A a \in Packages : PauseWithdraws(a) =>
       \A x \in 1 .. made : act[x].agent = a => act'[x].status # "pending"]_agentsVars
=============================================================================
