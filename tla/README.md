# Genatrix, specified

TLA+ models of Genatrix's daemon, checked with TLC, and theorems about them,
proved with TLAPS. Genatrix reads a person's mail and messages on their own
computer, lets models and installed agents work on them, and carries out only
what the user approved. The models follow that round: mail coming in, content
going to a model, an agent's run, a proposal on its way to its effect, and the
devices from which the user decides; through stores, a ledger, processes that
die, networks that lose answers, and a daemon that restarts.

Run a model with `tlc -config X.cfg MCmodule`, a proof with `tlapm Module.tla`.

## The system

| Component | State it keeps | Operations | Hard behaviour | What makes it correct |
|---|---|---|---|---|
| Actions (`agent/action.rs`, `daemon/actions.rs`) | action rows with versions, status, one-time token; nonces and hand-outs in memory; ledger entries | propose, show, edit, approve, decline/withdraw, hand out, report, confirm, expire | no lock from read to write; restarts forget memory; late reports | only approved words go out, once; the ledger and the status agree; nothing hangs |
| Mail execution (`daemon/connectors.rs`, `syncing.rs`, `connectors/imap`) | connector's queue; sent copies among the items | pull, submit, report, sync, confirm | lost SMTP answers, connector and core crashes, sync overtaking reports | no words go out twice; no status denies a sent mail |
| Dispatch (`daemon/executors/run.rs`, `mod.rs`, `dispatch/machine.rs`) | row, steps, workspace; running map, tasks | start, step, ask, answer, resume, stop, propose, recover | stop against answer against loop; crash between two writes | one task, the recipe's steps in order, a workspace while it waits |
| Sync and ingest (`connectors/imap/watch.rs`, `sync.rs`, `daemon/syncing.rs`, `ingest.rs`, `junk.rs`) | two cursors a folder, raw records, items | list, fetch, store, save, mark junk, restore, reprocess | crash between raw and item, renumbering, refetch, junk marked meanwhile | no cursor goes past what is not held; every mail comes in |
| Connector supervision (`daemon/connectors.rs`, `running.rs`) | token, conversation, process | start, hello, answer, restart | a stranger's hello, death between request and answer | one process at a time, and it comes back |
| Gate and egress (`crates/gate`, `daemon/caller.rs`, `exec/session.rs`) | prepared calls, egress records | prepare, delegate, send, record the end | the core stops between any two | what leaves was recorded first; nothing secret leaves |
| Model gateway (`crates/llm`) | configuration, spent tickets | admit, decide, try the chain | a configuration other than the core's; tickets forgotten | a ticket is spent once while it lives |
| Ledger (`crates/ledger`) | hash chain, head file | open, append, verify | crash between commit and head; several processes | a cut chain is noticed, a crash is not taken for one |
| Agents (`daemon/agents`, `web/agents.rs`, `crates/host`, `store/space.rs`) | agent rows with state, level and cursor; a space each; run records | preview, install, wake, ask, run, propose, apply, pause, resume, uninstall | threads that outlive their futures; pause against run; one turn for all | levels cover, effects land whole, limits hold, items come once |
| Access and devices (`daemon/web/devices.rs`, `local.rs`, `admin.rs`) | devices, admin row; code, links, the turn in memory | pair, sign in, revoke, give a role, ask, unlock | codes and tries raced by several browsers | codes once, five tries |
| GitHub executor, executor host, drafting | none, processes, definitions | push, session, draft | a push half done | not modelled |
| Store, files and erasure (`store/files.rs`, `purge.rs`, `daemon/junk.rs`, `purge.rs`) | raw records, items, attachments in rows and in files named by their contents | put, take in, read again, mark junk, purge | rows and files cannot change together; attachments are shared; a command beside the core | what an item names is there and whole; what is removed leaves nothing behind |
| Pipelines (`daemon/pipeline`, `main.rs`, `web/api.rs`, `web/quiet.rs`) | judgements; the level and category cached on an item; promises | sort, classify, read for promises, set a level, a sender, a promise | one pass waits for a model while items come and go and pages write; a judgement and its cache are two writes | caches are what was judged; every item is judged; promises rest on what is there |
| Conversation (`daemon/conversation.rs`, `web/api.rs`) | the material shown so far, the calls made | ask, look up, draft, answer, stop | material is dropped, looked up twice, and removed or judged anew while the model is waited for | a request covers what it shows; a cite is of what was shown |
| Models, keys, front ends | files, keys | downloads | - | not modelled |

How they meet: pages and connectors call the core over HTTP and a socket, each
request on a task of its own; the core's loops (every 20 s for actions, 5 s for
dispatches, one for agents) call the same functions; everything persistent is
one SQLite store, each statement atomic, few transactions, plus the ledger's
database, each agent's own, and files. Memory (nonces, hand-outs, running
dispatches, codes, turns) is lost with the process. Commands started beside the
core open the same store and ledger.

`PROJECT.json` lists the hazards by source line, with the properties that catch
them, and maps every definition to the lines it translates.

## Modules

| Module | Models | How it corresponds |
|---|---|---|
| `Action` | `agent/action.rs` | the action record and its transitions as operators: a guard (`CanApprove`) and a result (`Approved`) for each method |
| `Actions` | `daemon/actions.rs` | one step per operation of `Actions`, the store row and the ledger entry written together; executors are the environment |
| `Approval` | - | the abstract promise: a hand-out spends a live approval of exactly those words |
| `Sending` | `connectors.rs`, `syncing.rs`, `imap/execute.rs`, `imap/send.rs` | extends `Actions`; the mail connector, the server and sync replace the executors |
| `ActionsRace` | the same handlers | each handler is two steps, read and write back, so stale writes happen |
| `Recipe` | `dispatch/recipe.rs`, `machine.rs` | what comes next, walked along the record; and, said independently, which histories follow the recipe |
| `Dispatch` | `executors/run.rs`, `mod.rs`, `main.rs`'s loop, `web/work.rs` | extends `Recipe`; one store write or one look at the stop button per step |
| `Ledger` | `ledger/ledger.rs`, `head.rs` | one step per commit, and four to a write of the head (opened, filled, renamed, or given up), by any of several processes that share `.head.tmp`; what else may happen to the files |
| `Egress` | `gate.rs`, `caller.rs`, `ticket.rs`, `gateway.rs`, `policy.rs`, `registry.rs`, `server.rs`, `session.rs` | extends `Ledger`; a call is prepared, recorded, ticketed, sent, admitted, answered and recorded, each a step; core and gateway hold a configuration each |
| `Ingest` | the core's answers: `connectors.rs`, `syncing.rs`, `ingest.rs`, `junk.rs` | one step per statement: raw record, its bytes, item, cursor, junk mark |
| `MailSync` | `imap/watch.rs`, `sync.rs`, `imap.rs`, `ipc.rs`, supervision | extends `Ingest`; the engine's program counter, its requests, the mail server, the process's life |
| `Files` | `ingest.rs` (`mail`, `build`, `reprocess`), `store/files.rs`, `blob.rs`, `purge.rs`, `junk.rs`, `daemon/junk.rs`, `purge.rs` | one step per statement, transaction, look at the disk, write and rename; the core, a page and a command at once |
| `Passes` | `pipeline/categorize.rs`, `classify.rs`, `commitments.rs`, `main.rs`'s loop, `store/annotation.rs`, `category.rs`, `commitment.rs`, `web/api.rs`, `web/quiet.rs` | extends `Files`; one step per statement of a pass or a page; every removal and every stop of `Files` takes its judgements, promises and pass along (`Follow`) |
| `Conversation` | `conversation.rs`, `web/api.rs` (`ask`), `agent/run.rs` | extends `Passes`; one step per wait for the model and per tool; it reads the items and levels as they are at that step, and what happens to them later is noted (`gone`) |
| `Access` | `web/devices.rs`, `local.rs`, `admin.rs`, `store/device.rs`, `admin.rs` | one step per lock or statement; a high-privilege request waits, compares, is allowed, and does its act |
| `Agents` | `daemon/agents`, `web/agents.rs`, `host/runner.rs`, `store/agent.rs`, `space.rs` | a run waits for the turn, its thread reads, writes and proposes, the future settles; either may go on without the other |
| `House` | - | composes the last two: an agent is installed or removed by this machine or by a device `Access` let through; both restart together |
| `MC...` | - | the instances TLC runs |
| `...Proofs` | - | theorems, one module for each component proved about |

Abstractions. A draft is its sequence number, since versions are immutable
(`ActionsRace`, where two racing edits may both write version n+1, gives words
an identity of their own). A token is a fresh number. The clock is two facts, at
or past `expires_at`, and longer than `REPORT_WITHIN` since hand-over; they turn
true at any time and stay true. A nonce is the set of versions shown by pages
that hold it. Names, payloads, rationale and wording are left out. In `Sending`
one attempt is made per hand-out, so the token also stands for the Message-ID.
In `Dispatch` the executor is how its session ends (failed, a question, done
with or without a readable verdict); the gate admits or refuses.

- `Ledger`: a hash is the pair it is made of, so different chains never share
  one. A process reads and commits in one step or its transaction is refused,
  as SQLite does. Two processes at `.head.tmp` at once may empty, tear or swap
  what the other moves into place; that this happened is noted (`crossed`), since
  a refusal may then mean nothing else.
- `Egress`: this build has no cloud transport (the gateway answers 501), so what
  reaches a cloud model is what the gateway's policy let through. Redaction is
  whether it was done, what looks secret is part of the request. A delegation
  is admitted by the executor host and never gets a result row.
- `MailSync`, `Ingest`: one account and one folder; folders have cursors of
  their own. A request a dead process left is served to its end before the next
  process's first, which is what the one conversation at a time makes of it. A
  batch is a set. A message removed from the server does not come back. A raw
  record left without its bytes, by a failing put or a stop between the two
  statements, is noted (`bare`): fetched again it counts as had, and no pass can
  make its item. Two
  mails of one Message-ID, and the skipping of one's own sent copy (that is in
  `Sending`), are left out; so are the statuses a page shows, except that an
  account waits for the user to sign in, or has stopped because the server could
  not be reached.
- `Files`: every mail has bytes of its own. The mails are one connector's and
  attachments come with nothing else. `Ingest` has the same mail without its
  files and with the cursors before it; here a mail is fetched any number of
  times. That a file is not there and the opening of the one beside it are one
  step; a write is one step after the opening, so a file is empty or short
  (torn) between the two. Reading the same bytes again gives the same item,
  since both are done by one build. A thread's row comes after its mail's raw
  record and goes with it, so it is not told apart.
- `Passes`: a level is a number. What the rules say of a mail is fixed, and of the
  categories there are two, the rules' and the user's. An item has one version
  and one promise, always in the same words, between people the store knows. The
  user says one thing about an item at most, and of a sender only that it is
  quiet, since a later word replaces an earlier. Classification lists the newest `Most`
  items (10 000 in the code); beyond that `AllJudged` promises nothing. The other
  passes take a few hundred at a time and come back for the rest, so their limits
  are left out. Passes that only read (summary,
  vectors, digest) are left out; so are their turns in the loop.
- `Conversation`: a lookup returns any of the items, in any order. Whether the
  attempts a run may make are used up is a failure that may come at any wait, and
  stands for a page that goes away too. A question is asked one at a time; the
  earlier ones sent along with it are left out (see its hazard), as are the model
  calls by which a query is embedded and a reply drafted. A proposed reply is one
  of `Actions`.
- `Access`: a device pairs once, since each pairing makes a row of its own. A
  lapsed code equals none. What comes from loopback with the local key is let
  through at once. Failures to write the ledger are ignored, as the code does.
- `Agents`: a package is installed once and not upgraded, so the check of the
  version a proposal was made with never fires. All happens within one day of
  the limits. Schedules run as items do; trial runs keep nothing. An agent may
  say BEGIN and COMMIT in its space, but not COMMIT while an effect is applied.
  `genatrix agent ask` is another process with a turn of its own, and not here.

Definitions whose comment starts with "Bug:" are mutants: plausible mistakes,
used only to show that each property would notice one.

## Runs

| Run | Instance | Shows |
|---|---|---|
| `actions` | an editable mail and an agent's effect, 3 versions; 98 k states | the safety of approval, the ledger's truth, that `Actions` implements `Approval`, and that nothing stays pending or in hands for good |
| `sending` | one reply, 3 versions; 40 k states | `SentOnce`, `UnsentMeansUnsent`, `ExecutedIsInTheData`, `ApprovedEnds` |
| `race` | two handlers at a time, 3 drafts, 2 approvals; 1.8 M states | what survives stale writes: only approved words are given, a token keeps its words |
| `dispatch` | implement, review, fix with one round, two questions, any number of restarts; 51 k states | one task at work, the recipe followed across pauses, workspaces kept for answers, proposals made once, no hanging |
| `egress` | two calls, three processes on a ledger of three rows, two configurations, one mishap, one restart; 936 k states | secrets stay, records come before calls and tell the truth, a ticket is spent once, the ledger loses nothing it acknowledged and refuses to open only for a reason |
| `mailsync` | two mails, one of them from somebody junk, one without a Message-ID; batches of one; one mishap, one deletion or renumbering; 389 k states | `NothingSkipped`, `EveryMailComesIn` |
| `files` | two mails that share an attachment, one of them from somebody who may be marked as junk; one stop, failure or change of mind, one word of the user; a question of four turns; 404 k states | `ItemsAreWhole`, `NothingLingers`; `CachesAddUp`, `AllJudged`, `PromisesStand`; `PromptIsCovered`, `CitesAreShown` |
| `house` | two devices, two codes, three requests; two agents, two runs, four proposals, one cut; 297 k states | codes once, tries counted, levels, whole effects, limits, items once |
| `doubled`, `race_twice`, `dispatch_stop`, `agent_pause` | the smallest instances | disagreements between the code and what its documents and comments say, below |

Bounds. Two actions are enough for `Actions`: it has no state they share but the
restart. Three versions let words be edited, sent, edited while in the
executor's hands and sent again. A second mail in `Sending` (410 k states) only
lengthens the queue; that instance was checked too, and is left out for its
time. Two handlers show every two-way race; a third only repeats them. In
`Dispatch` one round of fixes reaches the loop's bound and two questions allow a
question after an answer to one; two rounds (115 k states) satisfy the same
invariants. `MaxQuestions` and `Tasks` bound an otherwise unbounded record, and
at most one answer and one stop are under way at a time. In `Actions`, a page
that shows a lapsed action may be refused, and that written down, once more, not
for ever.

In `egress`, three rows let one process be overtaken by two appends of others,
and a head be left one behind and then another; one mishap is one database put
back, rewritten or cut; a mishap and two processes with heads to write are followed
one at a time. In `mailsync` a batch of one makes two mails two
batches, so that a cursor can stand between them; the mishap may be a fault, a
death, a refusal, a stop, a stranger or a change of mind, and falls at any step.
In `files` two mails with one attachment between them are all that a removal has
to tell apart. At most two may be at work at once, and after two clashed there
is no more trouble (`TwoAtATime`, a state beyond is checked and not gone on
from); a clash with a trouble after it was checked too (1.1 M states), and two
troubles. For the passes one mail is settled by a rule and the other is not, the
model is asked about one at a time, and one word of the user can be about
anything; both mails fit into one listing. `PassesAlone` follows one of the passes, with mail that comes in and is
removed while it waits or in its place.

A question may ask the model four times, two lookups and a draft of either mail
among them; its budget holds both mails, or the larger one and a note, so that
anything may be dropped and looked up again. It is
followed while a page may raise a level and items may be removed. Five turns,
where two repeats take the tools away before the last, were checked too, as were
pages that lower a level.

In `house` the limit of tries is two instead of five, which two devices can race
for; an effect is two statements, so that half of one can be seen.

The products of independent parts would be too large for `egress`, `house` and
`files`, so each has a constraint `OneThingAtATime` that follows a state only
when it is of one of a few kinds, written out in `MCEgress`, `MCHouse` and
`MCConversation`: the ledger among several processes, or the core's calls; files among
three processes, or one pass of each kind, or a question; devices that pair, sign in and ask, a
device that asks for an agent, one agent with one effect, one agent whose runs
are cut short, or two agents that share the ceiling. A state outside is
reached and checked, and not gone on from. Symmetry is over processes, calls,
devices and packages, which are interchangeable; no temporal property beyond
`[][A]_v` is checked with it.

`egress`, `mailsync`, `house` and `agent_pause` say nothing of deadlock: their
bounds, and people who owe nothing, let them stop.

Fairness. `Actions`: time passes, and `settle_actions` runs `expire_due` every
twenty seconds; nobody else need ever act. `Sending` adds the connector's loop
(it asks every fifteen seconds, a submission has a time limit) and that sync
gets round to every copy the server keeps. `Dispatch`: the loop comes round
every five seconds, and a task goes on, since every session has a time limit.
`MailSync`: the supervisor and the engine run (`Running`: a dead process is
started again, a live one goes on, a watch ends within its time limit), and the
core answers what it is asked (`CoreNext`). No fairness for users, servers,
executors' success, restarts or trouble.

Assumption. `recover` is done before the dispatch loop's first pass. The loop
is spawned first and waits five seconds; connectors are started in between. If
that took longer, recover would fail work that has just begun; see the hazards.

### Where code and documents disagree

- `doubled`: the copy of a sent mail is kept when it is reported, not before the
  server sees it; if sync came first it is kept twice. For the same reason an
  outcome reported unknown after sync came is never confirmed.
- `race_twice`: two takers that read the same row both get it, on one token.
- `dispatch_stop`: a stop accepted while a question is being filed is forgotten.
- `agent_pause`: pausing takes back what an agent proposed, says the design; a
  mail proposed in a run still under way has no run record yet, is not found,
  and stays open.

`Actions` reaches an action that an executor holds and the user has declined:
`edit` takes it back to pending, though `withdraw` would not have taken it.
`Files` reaches three things that `ItemsAreWhole` and `NothingLingers` leave out
(`contested` and `cut`), each noted at its hazard. A mail comes in while another
with the same attachment is removed: the put finds the bytes there, the item
names them, and then the file goes. Two processes put the same bytes: they share
the `.partial` beside the file, and the one that opens it second empties what
the other is about to move. And what a stop or a disk that refuses leaves on
disk, nobody looks for later.

`Ledger` reaches a head that fits no row, with nothing put back and nobody
overtaken: every process writes its head to the same `.head.tmp` before it moves it
into place, and two at once mix what they write. `MailSync` reaches a mail whose raw
record is there without its bytes, which the cursor then passes and nothing makes
up for (`bare`), and an account that stopped for good because the server's name
did not resolve once: only a connection refused or timed out is tried again
(`imap.rs`, line 367).

`Passes` reaches, and its properties leave out, what a judgement and a cache
written apart can come to (`behind`): the level of an item the model has judged
stays what it was when the pass is cut between the two, or when a pass and a page
read the judgements and write the level at once; and a category sorted by what
the user had not yet said. An item taken in after another was removed, between
two counts, is not judged (`shrunk`). A promise may be drawn from a message that
was removed while the model read it; and the design has a rejection remembered
(`store/commitment.rs`, line 206), but what was turned down is made again from
the same message if the pass was cut short before the message was marked
(`again`), since only open promises are compared with.

`Conversation` reaches a refused repeat: the model is told that the results are
above, when they may have been dropped. What it leaves out disagrees with design
02, which has a request as sensitive as everything in it: the earlier questions
and answers a page sends along count for nothing (`conversation.rs`, line 443).

`Dispatch` also reaches states that no property claims away, each noted at its
hazard: a waiting row whose question is marked answered (crash between the two
writes of `answer`), an executed approval without a row (crash in `carry_out`),
a workspace left after `resume_answered` gives up, and a task that ends as
stopped because its predecessor took the stop button with it. `Agents` reaches
a space whose level was never raised: the client of a message goes away, the
future that would settle the run is dropped, and its thread writes on;
`LevelCovers`, `LandsWhole` and `CapHolds` leave agents out to whom that, or a
crash in a run, has happened (`cut`).

## What is proved

Every safety property and every action property a passing run checks is also a
theorem, for any set of actions, processes, calls, configurations, mails,
attachments, devices and agents, any bounds, any recipe, any number of tasks,
questions, crashes and restarts; with no assumptions beyond the named ones on
constants. The runs of `egress`, `house` and `files` follow only some kinds of
state (`OneThingAtATime`); the theorems are about all of them.

The arguments go by inductive invariants. None of the properties below is
inductive by itself; what had to be added says why the code is right.

`ActionsProofs`: `TypeCorrect`; then `CreditAlwaysLive`, the strengthening. As
long as an action's token is unspent, it is approved in its newest version and
the ledger's last entry is that approval; everything taken is no newer than the
newest version, and older while that one can still be approved or taken. The
proof sorts every step into what it does to one action (`StepOf`) and takes the
kinds one by one. From it `HandedOutAtMostOnce`, `LedgerShowsApprovals`,
`LedgerAgrees`, `ReportsFindTheirAction`, the action property
`SettledStaysSettled`, and the refinement, `ActionsImplementsApproval`.

`SendingProofs`: `SendingIsActions` says that every step of the connector, the
server and sync is a step of `Actions` or a stutter, so what is proved of
actions holds of mail (`SendingKeepsApprovals`). `WordsGoOutOnce`,
`UnsentStaysUnsent` and `ExecutedIsKept` are about hand-outs that still exist
anywhere, in the connector's queue, on the wire or at the server: each fits its
action's row (`Fits`), and of two of one action the newer token carries the newer
words (`Ordered`).

`ActionsRaceProofs`: `OnlyApprovedWordsAreGiven` and `TokensFitTheirWords`, for
any number of handlers. A row, or a handler's copy of one, is good by itself: it
has as many words as versions, and its token, if any, was issued for the words
it approves. A good copy written over a good row leaves a good row, however
stale it is, and approvals are never forgotten; so what a hand-out gives is what
was approved, though it may be given twice (`race_twice`).

`DispatchProofs`: `OneTaskAtWork`: whoever is about to give the work to a task
(an approved action, an answered or waiting row, the loop between marking and
spawning, an answer being filed) holds a claim, and finds no task at work.
`DoneStepsFollowRecipe`, `FinishedWorkIsDone`, `WaitingWorkKeepsWorkspace` and
`ProposalsComeOnce`: only the newest step of the record may be open (`History`),
a task relies on so much of it by where it is (`Stage`), and the row and the
claims say no more than the record does (`Rows`).

`EgressProofs`: of the ledger, `RefusalsMeanSomething`, `ChainStaysUnbroken` and
`LedgerKeepsItsWord`: a hash holds the whole chain before it, so a database that
fits the head has every row the head ever stood for, and whoever was let in had
one that fits. That two processes met at `.head.tmp` is left out by the first
(`crossed`). Of the gate, `SecretsStay`: the invariant says of every call with
a ticket, and every request past the check of it, that what was decided fits
what was asked, whichever configuration decided; so the ticket alone, and not
the agreement of core and gateway, keeps secrets in. `TicketsAreSpentOnce`,
`RecordsComeFirst`, `ResultsTellTheTruth`: while the core has the ledger it
appends for one call at a time, so a call that goes on is on record.

`MailSyncProofs`: `MailTypesHold` and `NoMailIsSkipped`. What a cursor will claim
is decided at the listing, stored two requests later and claimed in a third; the
invariant follows a claim from the engine's hands through the batch that is
being stored to what is held (or left bare), and states it of the request and not of the
engine, since a request outlives the process that made it. No position is of a
validity newer than the folder's (`Dated`).

`HouseProofs`: of devices, `AccessTypesHold`, `NoSixthTry`, `SpentOnce`: the tries
looked at are the failures on the row, whoever compares holds the turn and found
the row unlocked (`Counting`), and a code or link in memory has paired or signed
in nobody (`Unspent`). Of agents, `AgentsKeepTheirTypes`, `HandedOnce`,
`LimitsHold`, `SpacesAreCovered` and `EffectsLandWhole`, from six parts of one
invariant, each kept by every kind of step. `NoSixthTryInTheHouse` is about both
together.

`ConversationProofs`, in three layers.

1. Files: `FilesKeepTheirTypes`, `ItemsStayWhole`, `NothingStaysBehind`,
   `FilesAreNeverTorn`. What a taker has put and recorded is there and stays
   (`Works`), what a removal has still to remove is in no row any more
   (`Removal`), and a file is whole or not there (`Disk`); all for the files that
   no two were at at once, which are the ones the properties leave out.
2. Passes: `PassesLeaveFilesAlone` (`PassesSpec` implies `FilesSpec`),
   `CachesAlwaysAddUp`, `EveryItemIsJudged`, `PromisesAlwaysStand`. An item's
   level and category are what was judged, or the pass or the page is about to
   write them and holds what is noted, or the cut between was seen
   (`LevelsFine`, `PassAtWork`, `PageAtWork`). That classification may look at a
   number of items and not at which rests on `Progress`, that it judged as many
   as it counted, and on `Counting`, that since then items only came in, or
   some went and it will run again; with more items than it lists (`Few`) it claims
   nothing.
3. Questions: `QuestionsOnlyRead` (`ConversationSpec` implies `PassesSpec`),
   `EveryPromptIsCovered`, `EveryCiteIsShown`. The material holds a source once
   and all of it is known; what is known to be gone was put there in an earlier
   round, so the same mail taken in again is another source (`Material`).

Recursion. `Standing` of `Recipe`, `DoneUpTo` of `Dispatch` and `AddItems` of
`Conversation` are recursive functions. That such a function has the value its
equation says, and what follows from it, is proved by induction over a set of
numbers (`Least` and `Induction`, from the well-foundedness of `<`), which needs
no theorem with an operator as parameter.

Only model-checked: liveness, `NothingHangs`, `ApprovedEnds`, `WorkRests` and
`EveryMailComesIn`, which need fairness and ENABLED, and the four disagreements,
which are counterexamples. Type invariants are proved where there are proofs,
and no run repeats them.

## Not modelled

- GitHub executor and executor host: to the models they are an executor that
  reports or does not, and a session that ends in one of a few ways. Their own
  state is processes and git's.
- Drafting and scope of dispatches, agent guests' programs, profile and vectors,
  summaries, the digest: functions of data, text against text.
- Models and downloads, keychain, key derivation, front ends, packaging:
  process and platform I/O, cryptography.
- Telegram and Lark connectors, the wire formats, cookies and origins.
- In modelled parts: erasing the whole directory, search chunks of what is
  removed; upgrades of agents, trial runs, schedules and the web door;
  backoff of connectors; renamed devices and workspaces.

## Plan

Next, in this order: proofs of what a reader may still ask of the proved
components (that a cursor never goes back, that a passphrase never opens a locked
row, that an approved effect is applied once); an abstract ledger that `Ledger`
implements; the Telegram connector's gap handling over `Ingest`; the executor
host's session as what `Dispatch` takes it for.
