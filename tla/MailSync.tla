------------------------------ MODULE MailSync ------------------------------
(***************************************************************************)
(* Reading a mailbox: the engine of crates/connectors/imap/src (watch.rs,  *)
(* sync.rs, imap.rs, ipc.rs), a process the core starts, supervises and    *)
(* starts again (crates/daemon/src/connectors.rs, running.rs), against a   *)
(* mail server on which messages arrive, are deleted and are renumbered.   *)
(*                                                                         *)
(* Each round takes what is new above the live cursor and then one batch   *)
(* of history, newest first.  A batch is stored before the cursor that     *)
(* covers it, each by a request the core answers (Ingest.tla).  One        *)
(* account and one folder: folders have cursors of their own and share     *)
(* nothing else.                                                           *)
(***************************************************************************)
EXTENDS Ingest, FiniteSetsExt

CONSTANTS
  Mail,        \* messages
  Named,       \* those with a Message-ID
  Garbled,     \* those that will not parse
  Present,     \* how many the folder may hold at first
  Batch,       \* how many are fetched at once
  MaxMoves     \* bound: deletions and renumberings

ASSUME MailAssumption ==
  /\ IsFiniteSet(Mail)
  /\ Present \subseteq Nat
  /\ Batch \in Nat \ {0}
  /\ MaxMoves \in Nat

VARIABLES
  box,      \* the folder: message by UID
  validity, \* its validity marker
  next,     \* the UID the next message gets
  moves,
  proc,     \* the connector process: down, started, up
  token,    \* whether a token waits for a hello
  status,   \* what the page shows of the account
  pc,       \* where the engine is, and its variables:
  val,      \* the folder's validity as listed this round
  high,     \* highest UID taken, or lowest when walking history
  list,     \* UIDs to fetch
  out,      \* messages fetched
  more      \* whether there is more history behind these

serverVars  == <<box, validity, next, moves>>
processVars == <<proc, token, status>>
engineVars  == <<pc, val, high, list, out, more>>
vars == <<ingestVars, serverVars, processVars, engineVars>>

Uids == DOMAIN box

\* A message's identifier across the account: its own, or where it was found.
ExternalId(m, v, uid) == IF m \in Named THEN m ELSE <<v, uid>>

Message == [src : Mail \cup (Nat \X Nat), ver : Mail]

\* What a fetch brings: messages still there, less those that will not parse.
Fetched(uids) ==
  {[src |-> ExternalId(box[u], val, u), ver |-> box[u]] :
     u \in {w \in uids \cap Uids : box[w] \notin Garbled}}

Lowest(S)  == {u \in S : Cardinality({w \in S : w < u}) < Batch}
Highest(S) == {u \in S : Cardinality({w \in S : w > u}) < Batch}

-----------------------------------------------------------------------------
(* The server.                                                             *)

Arrived == {box[u] : u \in Uids}

Arrive ==
  /\ \E m \in Mail \ Arrived :
       /\ \A x \in raws : x.ver # m   \* bound: a message does not come again
       /\ m \notin gone
       /\ box' = [u \in Uids \cup {next} |-> IF u = next THEN m ELSE box[u]]
  /\ next <= Cardinality(Mail)       \* bound: one UID for each message
  /\ next' = next + 1
  /\ UNCHANGED <<ingestVars, validity, moves, processVars, engineVars>>

Delete ==
  /\ moves < MaxMoves /\ moves' = moves + 1
  /\ \E u \in Uids : box' = [w \in Uids \ {u} |-> box[w]]
  /\ UNCHANGED <<ingestVars, validity, next, processVars, engineVars>>

\* Every UID means something else: the messages keep their order.
Renumber ==
  /\ moves < MaxMoves /\ moves' = moves + 1
  /\ validity' = validity + 1
  /\ LET n == Cardinality(Uids)
     IN  /\ next' = n + 1
         /\ \E order \in [1 .. n -> Uids] :
              /\ \A i, j \in 1 .. n : i < j => order[i] < order[j]
              /\ box' = [i \in 1 .. n |-> box[order[i]]]
  /\ UNCHANGED <<ingestVars, processVars, engineVars>>

-----------------------------------------------------------------------------
(* The process.                                                            *)

Engine(label) == pc' = label

\* The engine's variables begin anew with every connection.
Forget ==
  /\ val' = 0 /\ high' = 0 /\ list' = {} /\ out' = {} /\ more' = FALSE

\* Supervision starts it with a fresh token, after at least a second, in which
\* the connection of the one before has been served to its end.
Start ==
  /\ proc = "down" /\ call = Idle
  /\ proc' = "started" /\ token' = TRUE /\ status' = "connecting"
  /\ UNCHANGED <<ingestVars, serverVars, engineVars>>

StartFails ==
  /\ proc = "down" /\ Mishap
  /\ status' = "retrying"
  /\ UNCHANGED <<storeVars, junkVars, cursor, call, serverVars, proc, token, engineVars>>

\* The first hello takes the token, whoever says it.
Stranger ==
  /\ proc = "started" /\ token /\ Mishap
  /\ token' = FALSE
  /\ UNCHANGED <<storeVars, junkVars, cursor, call, serverVars, proc, status, engineVars>>

Hello ==
  /\ proc = "started" /\ token
  /\ proc' = "up" /\ token' = FALSE
  /\ Engine("connect") /\ Forget
  /\ UNCHANGED <<ingestVars, serverVars, status>>

Ended(shown) ==
  /\ proc' = "down" /\ token' = FALSE /\ status' = shown
  /\ Engine("off") /\ Forget

\* Turned away, it leaves.
Refused ==
  /\ proc = "started" /\ ~token
  /\ Ended("retrying")
  /\ UNCHANGED <<ingestVars, serverVars>>

\* It dies; the core still serves the request it left.
Dies ==
  /\ proc # "down" /\ Mishap
  /\ Ended("retrying")
  /\ UNCHANGED <<storeVars, junkVars, cursor, call, serverVars>>

\* The account list changed, or the user signed in again: another process.
Restart ==
  /\ proc # "down"
  /\ \/ pc = "stopped" /\ UNCHANGED mishaps
     \/ Mishap
  /\ Ended("starting")
  /\ UNCHANGED <<storeVars, junkVars, cursor, call, serverVars>>

\* The core stops and is started again; its connector does not outlive it.
CoreStops ==
  /\ Mishap
  /\ IngestStops
  /\ Ended("starting")
  /\ UNCHANGED <<serverVars>>

\* The answer to a request whose process is gone.
NobodyListens ==
  /\ Answered /\ proc # "up"
  /\ call' = Idle
  /\ UNCHANGED <<storeVars, junkVars, cursor, mishaps, serverVars, processVars, engineVars>>

-----------------------------------------------------------------------------
(* One account (watch.rs).  A transient fault, the core's refusals among   *)
(* them, is waited out and the account is reconnected.                     *)

Retry ==
  /\ Engine("connect") /\ Forget
  /\ status' = "retrying"
  /\ UNCHANGED <<proc, token>>

\* The server or the connection fails; at first, it refuses or does not answer.
Fault ==
  /\ pc \in {"connect", "folders", "newest", "uids", "fetch", "back", "backfetch", "wait"}
  /\ Mishap
  /\ Retry
  /\ UNCHANGED <<storeVars, junkVars, cursor, call, serverVars>>

\* The core answered a request with a failure.
Failed ==
  /\ proc = "up" /\ call.op = "failed" /\ pc # "all?"
  /\ call' = Idle
  /\ Retry
  /\ UNCHANGED <<storeVars, junkVars, cursor, mishaps, serverVars>>

Connect ==
  /\ pc = "connect"
  /\ Engine("folders")
  /\ UNCHANGED <<ingestVars, serverVars, processVars, val, high, list, out, more>>

\* The server refuses the login, which only the user can fix; or it cannot be
\* reached for any other reason (no such name, no network), and then too nobody
\* tries again.
GivesUp ==
  /\ pc = "connect" /\ Mishap
  /\ Engine("stopped") /\ status' \in {"needs_login", "stopped"}
  /\ UNCHANGED <<storeVars, junkVars, cursor, call, serverVars, proc, token,
                 val, high, list, out, more>>

\* Ask the core and wait at the label for its answer.
Ask(request, label) == call' = request /\ Engine(label)

\* Bug: any answer will do.
ToldSomething(label) == pc = label /\ Answered

\* An answer the engine waited for at the label.
Told(label) == pc = label /\ call.op = "done"

Folders ==
  /\ pc = "folders"
  /\ val' = validity
  /\ Ask(Load("live"), "live?")
  /\ UNCHANGED <<storeVars, junkVars, cursor, mishaps, serverVars, processVars, high, list, out, more>>

\* A known cursor is caught up from; on first sight of the folder, or after it
\* was renumbered, the cursors are set up instead.
LiveLoaded ==
  /\ Told("live?")
  /\ call' = Idle
  /\ IF call.cursor.val = val
       THEN Engine("uids") /\ high' = call.cursor.at
       ELSE Engine("newest") /\ UNCHANGED high
  /\ UNCHANGED <<storeVars, junkVars, cursor, mishaps, serverVars, processVars, val, list, out, more>>

Newest ==
  /\ pc = "newest"
  /\ high' = IF Uids = {} THEN 0 ELSE Max(Uids)
  /\ Ask(Save("live", At(val, high', FALSE)), "first?")
  /\ UNCHANGED <<storeVars, junkVars, cursor, mishaps, serverVars, processVars, val, list, out, more>>

LiveBegun ==
  /\ Told("first?")
  /\ Ask(Save("history", At(val, 0, high = 0)), "begun?")
  /\ UNCHANGED <<storeVars, junkVars, cursor, mishaps, serverVars, processVars, val, high, list, out, more>>

ListNew ==
  /\ pc = "uids"
  /\ list' = {u \in Uids : u > high}
  /\ Engine("fetch")
  /\ UNCHANGED <<ingestVars, serverVars, processVars, val, high, out, more>>

\* Oldest first, a chunk at a time, before anything is stored.
FetchNew ==
  /\ pc = "fetch"
  /\ IF list = {}
       THEN Ask(Store(out), "stored?") /\ UNCHANGED <<high, list, out>>
       ELSE /\ out' = out \cup Fetched(Lowest(list))
            /\ high' = Max(Lowest(list))
            /\ list' = list \ Lowest(list)
            /\ UNCHANGED <<call, pc>>
  /\ UNCHANGED <<storeVars, junkVars, cursor, mishaps, serverVars, processVars, val, more>>

StoredNew ==
  /\ Told("stored?")
  /\ Ask(Save("live", At(val, high, FALSE)), "saved?")
  /\ out' = {}
  /\ UNCHANGED <<storeVars, junkVars, cursor, mishaps, serverVars, processVars, val, high, list, more>>

\* Both cursors of the folder are there now.
CaughtUp ==
  /\ Told("begun?") \/ Told("saved?")
  /\ Ask(Load("history"), "history?")
  /\ high' = 0
  /\ UNCHANGED <<storeVars, junkVars, cursor, mishaps, serverVars, processVars, val, list, out, more>>

\* Bug: the position in a folder that was renumbered still counts.
ReachedAnyway(c) == c

\* The history position stands for the folder's current validity only.
Reached(c) == IF c.val = val THEN c ELSE At(val, 0, FALSE)

\* All of it is in: the account is up to date.
HistoryLoaded ==
  /\ Told("history?")
  /\ call' = Idle
  /\ IF Reached(call.cursor).complete
       THEN Engine("wait") /\ status' = "live" /\ UNCHANGED high
       ELSE Engine("back") /\ high' = Reached(call.cursor).at /\ UNCHANGED status
  /\ UNCHANGED <<storeVars, junkVars, cursor, mishaps, serverVars, proc, token,
                 val, list, out, more>>

\* One batch, newest first from where it left off.
ListBack ==
  /\ pc = "back"
  /\ LET behind == {u \in Uids : high = 0 \/ u < high}
     IN  /\ list' = Highest(behind)
         /\ high' = IF behind = {} THEN high ELSE Min(Highest(behind))
         /\ more' = (behind # Highest(behind))
  /\ Engine("backfetch")
  /\ UNCHANGED <<ingestVars, serverVars, processVars, val, out>>

FetchBack ==
  /\ pc = "backfetch"
  /\ out' = Fetched(list)
  /\ list' = {}
  /\ Ask(Store(out'), "backstored?")
  /\ UNCHANGED <<storeVars, junkVars, cursor, mishaps, serverVars, processVars, val, high, more>>

StoredBack ==
  /\ Told("backstored?")
  /\ Ask(Save("history", At(val, high, ~more)), "backsaved?")
  /\ out' = {}
  /\ UNCHANGED <<storeVars, junkVars, cursor, mishaps, serverVars, processVars, val, high, list, more>>

SavedBack ==
  /\ Told("backsaved?")
  /\ Ask(Load("history"), "all?")
  /\ UNCHANGED <<storeVars, junkVars, cursor, mishaps, serverVars, processVars, val, high, list, out, more>>

\* Whether every folder is complete; not knowing counts as not.
AllLoaded ==
  /\ pc = "all?" /\ Answered
  /\ call' = Idle
  /\ IF call.op = "done" /\ Reached(call.cursor).complete
       THEN Engine("wait") /\ status' = "live"
       ELSE Engine("folders") /\ status' = "backfilling"
  /\ Forget
  /\ UNCHANGED <<storeVars, junkVars, cursor, mishaps, serverVars, proc, token>>

\* The server speaks or the time is up: another round.
Wake ==
  /\ pc = "wait"
  /\ Engine("folders") /\ Forget
  /\ UNCHANGED <<ingestVars, serverVars, processVars>>

-----------------------------------------------------------------------------
MailInit ==
  /\ IngestInit
  /\ \E n \in Present : \E b \in [1 .. n -> Mail] :
       /\ \A i, j \in 1 .. n : b[i] = b[j] => i = j
       /\ box = b /\ next = n + 1
  /\ validity = 1 /\ moves = 0
  /\ proc = "down" /\ token = FALSE /\ status = "starting"
  /\ pc = "off" /\ val = 0 /\ high = 0 /\ list = {} /\ out = {} /\ more = FALSE

Server == Arrive \/ Delete \/ Renumber

Running ==
  \/ Start \/ Hello \/ Refused \/ NobodyListens
  \/ Failed \/ Connect \/ Folders \/ LiveLoaded \/ Newest \/ LiveBegun
  \/ ListNew \/ FetchNew \/ StoredNew \/ CaughtUp \/ HistoryLoaded
  \/ ListBack \/ FetchBack \/ StoredBack \/ SavedBack \/ AllLoaded \/ Wake

Trouble ==
  \/ StartFails \/ Stranger \/ Dies \/ Restart \/ CoreStops \/ Fault \/ GivesUp

CoreNext == Core /\ UNCHANGED <<serverVars, processVars, engineVars>>

MailNext ==
  \/ Server \/ Running \/ Trouble \/ CoreNext
  \/ (User \/ StoreFails) /\ UNCHANGED <<serverVars, processVars, engineVars>>

\* The processes keep running; the server, the user and trouble owe nothing.
MailSpec ==
  /\ MailInit /\ [][MailNext]_vars
  /\ WF_vars(Running) /\ WF_vars(CoreNext)

-----------------------------------------------------------------------------
\* The labels at which the engine waits for the core.
Waiting == {"live?", "first?", "begun?", "stored?", "saved?", "history?",
            "backstored?", "backsaved?", "all?"}

Request ==
  [op : {"none", "load", "save", "store", "done", "failed"}, scope : Scopes,
   cursor : Cursor, batch : SUBSET Message, row : SUBSET Message, built : SUBSET Message]

StoreTypes ==
  /\ raws \subseteq Message /\ items \subseteq raws /\ files \subseteq Mail
  /\ cursor \in [Scopes -> Cursor]
  /\ call \in Request /\ call.built \subseteq call.batch /\ call.row \subseteq call.batch

FolderTypes ==
  /\ validity \in Nat \ {0} /\ next \in Nat \ {0}
  /\ box \in [Uids -> Mail] /\ Uids \subseteq 1 .. next - 1

EngineTypes ==
  /\ val \in Nat /\ high \in Nat /\ list \subseteq Nat /\ IsFiniteSet(list)
  /\ out \subseteq Message /\ more \in BOOLEAN

Processes ==
  /\ proc \in {"down", "started", "up"}
  /\ proc = "up" <=> pc # "off"
  /\ proc = "started" => call = Idle
  /\ proc = "up" => (pc \in Waiting <=> call # Idle)
  /\ token => proc = "started"

\* The parts of the state fit: items have their raw records, the core works on
\* what the running process asked and on nothing else, a token waits for a
\* process that has not said hello.
MailTypeOK == StoreTypes /\ FolderTypes /\ EngineTypes /\ Processes

\* A message that is accounted for: its record and its bytes are there, or it was
\* junk, or it cannot be read.
Held(m) ==
  \/ m \in Garbled \/ m \in gone
  \/ m \in files /\ \E x \in raws : x.ver = m

\* Or its record is all there is of it: a put that failed or was cut short is not
\* made up for when the message is fetched again.
Settled(m) == Held(m) \/ (m \in bare /\ \E x \in raws : x.ver = m)

\* The UIDs the cursors say are taken: at or below the live one, and not below
\* where history has come to.
Behind ==
  {u \in Uids :
     /\ cursor["live"].val = validity /\ u <= cursor["live"].at
     /\ cursor["history"].val = validity
     /\ \/ cursor["history"].complete
        \/ cursor["history"].at # 0 /\ u >= cursor["history"].at}

\* Nothing is skipped: whatever the cursors have gone past is held.  A process
\* that dies, a store that fails, a folder that is renumbered or a core that
\* stops between any two steps costs a repeat, never a gap; but for the step
\* between a record and its bytes, after which the record alone is there.
NothingSkipped == \A u \in Behind : Settled(box[u])

\* Every message on the server comes in, unless it is deleted there, or the account
\* has stopped: after a refused login, or a server that could not be reached.
EveryMailComesIn ==
  \A m \in Mail :
    m \in Arrived ~> (m \notin Arrived \/ Settled(m) \/ pc = "stopped")

=============================================================================
