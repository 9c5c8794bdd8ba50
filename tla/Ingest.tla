------------------------------- MODULE Ingest -------------------------------
(***************************************************************************)
(* The core's side of keeping an account up to date: the answers of        *)
(* crates/daemon/src/connectors.rs and the sink of syncing.rs, ingestion   *)
(* in ingest.rs, the raw records, items and cursors of crates/store        *)
(* (raw.rs, item.rs, cursor.rs), and marking somebody as junk (junk.rs).   *)
(*                                                                         *)
(* One connection serves the account, one request at a time; each request  *)
(* is answered once.  A message becomes an item in three steps: its raw    *)
(* record is inserted, its bytes are written to a file named by them, its  *)
(* item is inserted; the core may stop, or fail, between any two.  A raw   *)
(* record is unique by its source and its bytes.                           *)
(***************************************************************************)
EXTENDS Naturals, FiniteSets

CONSTANTS
  Unwanted,   \* messages from somebody the user may mark as junk
  MaxMishaps  \* bound: faults, refusals, stops, strangers, changes of mind

ASSUME IngestAssumption == MaxMishaps \in Nat

VARIABLES
  raws,    \* raw records: what was fetched, by source and bytes
  files,   \* the bytes on disk
  items,   \* the items made of them
  gone,    \* memory: messages removed, or dropped on arrival, as junk
  bare,    \* memory: messages whose record was once left without its bytes
  mark,    \* how far marking the unwanted sender has come
  doomed,  \* items found when the marking began
  cursor,  \* the stored position of each scope
  call,    \* the request in flight and its answer
  mishaps

storeVars  == <<raws, files, items, gone, bare>>
junkVars   == <<mark, doomed>>
ingestVars == <<storeVars, junkVars, cursor, call, mishaps>>

-----------------------------------------------------------------------------
(* Cursors: the live one holds the highest UID taken, the history one the  *)
(* oldest, 0 before the first batch, and whether the beginning is reached. *)

Scopes == {"live", "history"}

Cursor == [val : Nat, at : Nat, complete : BOOLEAN]

At(val, at, complete) == [val |-> val, at |-> at, complete |-> complete]

\* No cursor is stored; no folder has this validity.
NoCursor == At(0, 0, FALSE)

\* Of the message being taken in: its record is there (row), and its bytes (built).
Idle == [op |-> "none", scope |-> "live", cursor |-> NoCursor, batch |-> {},
         row |-> {}, built |-> {}]

Load(scope)    == [Idle EXCEPT !.op = "load", !.scope = scope]
Save(scope, c) == [Idle EXCEPT !.op = "save", !.scope = scope, !.cursor = c]
Store(batch)   == [Idle EXCEPT !.op = "store", !.batch = batch]

Answer(verdict) == [Idle EXCEPT !.op = verdict]

Answered == call.op \in {"done", "failed"}

IsJunk(x) == mark = "marked" /\ x.ver \in Unwanted

IngestInit ==
  /\ raws = {} /\ files = {} /\ items = {} /\ gone = {} /\ bare = {}
  /\ mark = "none" /\ doomed = {}
  /\ cursor = [s \in Scopes |-> NoCursor]
  /\ call = Idle
  /\ mishaps = 0

Mishap == mishaps < MaxMishaps /\ mishaps' = mishaps + 1

-----------------------------------------------------------------------------
(* A batch.  Its order does not matter to what is kept, so it is a set.    *)

\* Junk is dropped; what is already here, byte for byte, stops at its raw record.
PassOver ==
  /\ call.op = "store" /\ call.row = {} /\ call.built = {}
  /\ \E x \in call.batch :
       /\ IsJunk(x) \/ x \in raws
       /\ call' = [call EXCEPT !.batch = @ \ {x}]
       /\ gone' = IF IsJunk(x) THEN gone \cup {x.ver} ELSE gone
  /\ UNCHANGED <<raws, files, items, bare, junkVars, cursor, mishaps>>

InsertRaw ==
  /\ call.op = "store" /\ call.row = {} /\ call.built = {}
  /\ \E x \in call.batch :
       /\ ~IsJunk(x) /\ x \notin raws
       /\ raws' = raws \cup {x}
       /\ call' = [call EXCEPT !.row = {x}]
  /\ UNCHANGED <<files, items, gone, bare, junkVars, cursor, mishaps>>

PutBytes ==
  /\ call.op = "store" /\ call.row # {}
  /\ files' = files \cup {x.ver : x \in call.row}
  /\ call' = [call EXCEPT !.row = {}, !.built = call.row]
  /\ UNCHANGED <<raws, items, gone, bare, junkVars, cursor, mishaps>>

\* The item is made of it.  One made meanwhile by reading the raw records again
\* is in the way, and a raw record removed meanwhile as junk is missed: both
\* fail the batch.
MakeItem ==
  /\ call.op = "store"
  /\ \E x \in call.built :
       IF x \in items \/ x \notin raws
         THEN call' = Answer("failed") /\ UNCHANGED items
         ELSE /\ items' = items \cup {x}
              /\ call' = [call EXCEPT !.batch = @ \ {x}, !.built = {}]
  /\ UNCHANGED <<raws, files, gone, bare, junkVars, cursor, mishaps>>

Stored ==
  /\ call.op = "store" /\ call.batch = {}
  /\ call' = Answer("done")
  /\ UNCHANGED <<storeVars, junkVars, cursor, mishaps>>

LoadCursor ==
  /\ call.op = "load"
  /\ call' = [Answer("done") EXCEPT !.scope = call.scope, !.cursor = cursor[call.scope]]
  /\ UNCHANGED <<storeVars, junkVars, cursor, mishaps>>

SaveCursor ==
  /\ call.op = "save"
  /\ cursor' = [cursor EXCEPT ![call.scope] = call.cursor]
  /\ call' = Answer("done")
  /\ UNCHANGED <<storeVars, junkVars, mishaps>>

\* A record without its bytes is there for good: fetched again, it counts as had.
LeftBare == bare' = bare \cup {x.ver : x \in call.row}

\* The store refuses: a full disk, a locked file.  What of a batch was stored
\* before stays.
StoreFails ==
  /\ call.op \in {"load", "save", "store"}
  /\ Mishap
  /\ call' = Answer("failed") /\ LeftBare
  /\ UNCHANGED <<raws, files, items, gone, junkVars, cursor>>

-----------------------------------------------------------------------------
(* The user, on the page or with a command beside the core.                *)

\* genatrix reprocess takes the raw records in turn: one without an item gets
\* its item back, if its bytes can be read.  (Two mails of one Message-ID are not
\* modelled.)
Reprocess ==
  /\ \E x \in raws \ items : x.ver \in files /\ items' = items \cup {x}
  /\ UNCHANGED <<raws, files, gone, bare, junkVars, cursor, call, mishaps>>

\* Marking as junk: what is there is found, then removed, then the mark is set.
FindJunk ==
  /\ mark = "none" /\ Unwanted # {}
  /\ mark' = "found"
  /\ doomed' = {x \in items : x.ver \in Unwanted}
  /\ UNCHANGED <<storeVars, cursor, call, mishaps>>

RemoveJunk ==
  /\ mark = "found"
  /\ mark' = "removed" /\ doomed' = {}
  /\ items' = items \ doomed
  /\ raws' = raws \ doomed
  /\ files' = files \ {x.ver : x \in {y \in doomed : \A z \in raws' : z.ver # y.ver}}
  /\ gone' = gone \cup {x.ver : x \in doomed}
  /\ UNCHANGED <<bare, cursor, call, mishaps>>

MarkJunk ==
  /\ mark = "removed"
  /\ mark' = "marked"
  /\ UNCHANGED <<storeVars, doomed, cursor, call, mishaps>>

\* New messages are kept again.
RestoreJunk ==
  /\ mark = "marked" /\ Mishap
  /\ mark' = "none"
  /\ UNCHANGED <<storeVars, doomed, cursor, call>>

\* The core stops: what is stored stays, the request and the marking do not.
IngestStops ==
  /\ call' = Idle /\ LeftBare
  /\ mark' = IF mark = "marked" THEN mark ELSE "none"
  /\ doomed' = {}
  /\ UNCHANGED <<raws, files, items, gone, cursor>>

Core ==
  \/ PassOver \/ InsertRaw \/ PutBytes \/ MakeItem \/ Stored
  \/ LoadCursor \/ SaveCursor

User == Reprocess \/ FindJunk \/ RemoveJunk \/ MarkJunk \/ RestoreJunk

=============================================================================
