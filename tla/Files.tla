------------------------------- MODULE Files --------------------------------
(***************************************************************************)
(* Rows in the database and files beside it: crates/store/src/files.rs,    *)
(* raw.rs, blob.rs and purge.rs, as ingestion fills them (ingest.rs: mail, *)
(* build, reprocess) and junk.rs and purge.rs empty them.                  *)
(*                                                                         *)
(* A mail has a raw record, kept in a file of its own, and attachments,    *)
(* each kept once, in a file named by its contents.  Rows go in and out in *)
(* transactions; files are written after the row of a raw record, before   *)
(* the row of an attachment, and removed after both.  Three may be at work *)
(* at once: the core's connection, which takes mail in, a page, where a    *)
(* sender is marked as junk, and a command beside the core, which takes    *)
(* mail in, reads what is there again, or removes all of it.               *)
(***************************************************************************)
EXTENDS Naturals, FiniteSets

CONSTANTS
  Mails,       \* the mails a server holds; each is fetched any number of times
  Attachments, \* by their contents
  Attached,    \* what each mail brings along
  Unwanted,    \* mails from somebody the user may mark as junk
  MaxTrouble   \* bound: stops, failures and changes of mind

ASSUME FilesAssumption ==
  /\ Attached \in [Mails -> SUBSET Attachments]
  /\ Unwanted \subseteq Mails
  /\ Mails \cap Attachments = {}
  /\ MaxTrouble \in Nat

VARIABLES
  raw,       \* mails with a row for their raw record
  item,      \* mails with an item
  blob,      \* attachments with a row
  file,      \* by hash: what its file holds
  temp,      \* by hash: the file beside it that a new one is written to
  up,        \* the core runs
  marked,    \* the sender of Unwanted is marked as junk
  taking,    \* by process: the mail it takes in, and how far it has come
  removing,  \* by process: what it removes
  trouble,
  contested, \* hashes that one put while another put or removed them
  cut        \* hashes somebody was cut short at, or failed to remove

rowVars == <<raw, item, blob>>
diskVars == <<file, temp>>
ghosts == <<contested, cut>>
filesVars == <<rowVars, diskVars, up, marked, taking, removing, trouble, ghosts>>

Hashes == Mails \cup Attachments
Contents == {"none", "torn", "whole"}

Takers == {"core", "command"}
Removers == {"page", "command"}

\* pc: where the work stands; does: take a fetched mail in, or read a raw record
\* again and insert its item, or only compare it; of: the file to be put; left:
\* the attachments after it; stale: the mails whose row, as read, has gone since;
\* list: the raw records still to read again.
NoTaking == [pc |-> "idle", does |-> "fetch", mail |-> "none", of |-> "none",
             left |-> {}, stale |-> {}, list |-> {}]
NoRemoving == [pc |-> "idle", found |-> {}, left |-> {}]

Bytes(m) == {m} \cup Attached[m]

Free(p) == (p \in Takers => taking[p].pc = "idle") /\ (p \in Removers => removing[p].pc = "idle")
Trouble == trouble < MaxTrouble /\ trouble' = trouble + 1

Init ==
  /\ raw = {} /\ item = {} /\ blob = {}
  /\ file = [h \in Hashes |-> "none"] /\ temp = [h \in Hashes |-> "none"]
  /\ up = FALSE /\ marked = FALSE
  /\ taking = [p \in Takers |-> NoTaking] /\ removing = [p \in Removers |-> NoRemoving]
  /\ trouble = 0 /\ contested = {} /\ cut = {}

-----------------------------------------------------------------------------
(* What two at once do to one file.  Removing what another is putting, or  *)
(* has put for an item it has not inserted yet, and putting what another   *)
(* is putting, are the two ways.                                           *)

Puts(p) == IF taking[p].pc \in {"write", "moved", "lost", "rename"} THEN {taking[p].of} ELSE {}
Needs(p) == IF taking[p].pc \in {"idle", "keep", "next"} THEN {} ELSE Bytes(taking[p].mail)
Removes(q) == removing[q].left

Clash == (Puts("core") \cap Puts("command"))
         \cup {h \in Hashes : \E p \in Takers, q \in Removers : h \in Needs(p) \cap Removes(q)}

\* Only a step that starts to put, need or remove something makes a clash.
Noted == contested' = contested \cup Clash'

-----------------------------------------------------------------------------
(* Taking a mail in.                                                       *)

\* Junk is dropped before it is stored.
TakeIn(p, m) ==
  /\ Free(p) /\ (p = "core" => up)
  /\ ~(marked /\ m \in Unwanted)
  /\ taking' = [taking EXCEPT ![p] = [NoTaking EXCEPT !.pc = "keep", !.mail = m]]
  /\ UNCHANGED <<rowVars, diskVars, up, marked, removing, trouble, ghosts>>

\* What is here already stops at its raw record; a new one is a new row, whatever
\* was removed before it.
KeepRaw(p) ==
  LET w == taking[p]
  IN  /\ w.pc = "keep"
      /\ raw' = raw \cup {w.mail}
      /\ taking' = [taking EXCEPT ![p] = IF w.mail \in raw THEN NoTaking
                       ELSE [w EXCEPT !.pc = "put", !.of = w.mail, !.left = Attached[w.mail], !.stale = {}]]
      /\ UNCHANGED <<item, blob, diskVars, up, marked, removing, trouble, cut>>
      /\ Noted

\* Giving up leaves what is there.
GivesUp(p) ==
  /\ taking' = [taking EXCEPT ![p] = NoTaking]
  /\ cut' = cut \cup Needs(p)

\* On to the next attachment, or to the item.
Onward(w) ==
  IF w.left = {} THEN {[w EXCEPT !.pc = "insert"]}
  ELSE {[w EXCEPT !.pc = "put", !.of = b, !.left = @ \ {b}] : b \in w.left}

\* An attachment has a row to come.
AfterPut(w) == IF w.of \in Attachments THEN {[w EXCEPT !.pc = "record"]} ELSE Onward(w)

Has(p) ==
  /\ taking[p].pc = "put" /\ file[taking[p].of] # "none"
  /\ \E w \in AfterPut(taking[p]) : taking' = [taking EXCEPT ![p] = w]
  /\ UNCHANGED <<rowVars, diskVars, up, marked, removing, trouble, ghosts>>

\* Two that put one file share the file beside it; opening it empties it.
Open(p) ==
  /\ taking[p].pc = "put" /\ file[taking[p].of] = "none"
  /\ temp' = [temp EXCEPT ![taking[p].of] = "torn"]
  /\ taking' = [taking EXCEPT ![p].pc = "write"]
  /\ UNCHANGED <<rowVars, file, up, marked, removing, trouble, cut>>
  /\ Noted

\* What was opened may have been renamed by the other, and then removed.
Write(p) ==
  LET w == taking[p]
  IN  /\ w.pc \in {"write", "moved", "lost"}
      /\ temp' = IF w.pc = "write" THEN [temp EXCEPT ![w.of] = "whole"] ELSE temp
      /\ file' = IF w.pc = "moved" THEN [file EXCEPT ![w.of] = "whole"] ELSE file
      /\ taking' = [taking EXCEPT ![p].pc = "rename"]
      /\ UNCHANGED <<rowVars, up, marked, removing, trouble, ghosts>>

\* Whoever is still to write to it will write to the file.
Rename(p) ==
  LET h == taking[p].of
      Moved(w) == IF w.pc = "write" /\ w.of = h THEN [w EXCEPT !.pc = "moved"] ELSE w
  IN  /\ taking[p].pc = "rename" /\ temp[h] # "none"
      /\ file' = [file EXCEPT ![h] = temp[h]]
      /\ temp' = [temp EXCEPT ![h] = "none"]
      /\ \E w \in AfterPut(taking[p]) :
           taking' = [q \in Takers |-> IF q = p THEN w ELSE Moved(taking[q])]
      /\ UNCHANGED <<rowVars, up, marked, removing, trouble, ghosts>>

\* The other has renamed it.
RenameFails(p) ==
  /\ taking[p].pc = "rename" /\ temp[taking[p].of] = "none"
  /\ GivesUp(p)
  /\ UNCHANGED <<rowVars, diskVars, up, marked, removing, trouble, contested>>

Record(p) ==
  /\ taking[p].pc = "record"
  /\ blob' = blob \cup {taking[p].of}
  /\ \E w \in Onward(taking[p]) : taking' = [taking EXCEPT ![p] = w]
  /\ UNCHANGED <<raw, item, diskVars, up, marked, removing, trouble, ghosts>>

\* One raw record has one item, and an item needs its raw record.
InTheWay(w) == w.mail \in item \cup w.stale

Insert(p) ==
  LET w == taking[p]
  IN  /\ w.pc = "insert" /\ w.does \in {"fetch", "insert"} /\ ~InTheWay(w)
      /\ item' = item \cup {w.mail}
      /\ cut' = cut \ Bytes(w.mail)
      /\ taking' = [taking EXCEPT ![p] = IF w.does = "fetch" THEN NoTaking ELSE [w EXCEPT !.pc = "next"]]
      /\ UNCHANGED <<raw, blob, diskVars, up, marked, removing, trouble, contested>>

InsertFails(p) ==
  /\ taking[p].pc = "insert" /\ taking[p].does \in {"fetch", "insert"} /\ InTheWay(taking[p])
  /\ GivesUp(p)
  /\ UNCHANGED <<rowVars, diskVars, up, marked, removing, trouble, contested>>

\* The store or the disk refuses.
TakingFails(p) ==
  /\ taking[p].pc # "idle" /\ Trouble
  /\ GivesUp(p)
  /\ UNCHANGED <<rowVars, diskVars, up, marked, removing, contested>>

-----------------------------------------------------------------------------
(* genatrix reprocess: every raw record is read again.                     *)

Reprocess ==
  /\ Free("command")
  /\ taking' = [taking EXCEPT !["command"] = [NoTaking EXCEPT !.pc = "next", !.list = raw]]
  /\ UNCHANGED <<rowVars, diskVars, up, marked, removing, trouble, ghosts>>

ReadAgain ==
  LET w == taking["command"]
  IN  /\ w.pc = "next"
      /\ \E m \in w.list :
           /\ file[m] = "whole"
           /\ \E v \in Onward([w EXCEPT !.mail = m, !.left = Attached[m], !.list = @ \ {m},
                                        !.does = IF m \in item THEN "compare" ELSE "insert"]) :
                taking' = [taking EXCEPT !["command"] = v]
      /\ UNCHANGED <<rowVars, diskVars, up, marked, removing, trouble, cut>>
      /\ Noted

\* One that cannot be read ends the command, and so does the end of the list.
ReadingEnds ==
  LET w == taking["command"]
  IN  /\ w.pc = "next"
      /\ w.list = {} \/ \E m \in w.list : file[m] # "whole"
      /\ taking' = [taking EXCEPT !["command"] = NoTaking]
      /\ UNCHANGED <<rowVars, diskVars, up, marked, removing, trouble, ghosts>>

\* One build reads the same bytes the same way.
Unchanged ==
  LET w == taking["command"]
  IN  /\ w.pc = "insert" /\ w.does = "compare"
      /\ taking' = [taking EXCEPT !["command"].pc = "next"]
      /\ UNCHANGED <<rowVars, diskVars, up, marked, removing, trouble, ghosts>>

-----------------------------------------------------------------------------
(* Removing.                                                               *)

\* The items that make up the conversation with somebody are looked for first.
FindJunk ==
  /\ up /\ Free("page")
  /\ removing' = [removing EXCEPT !["page"].pc = "remove", !["page"].found = item \cap Unwanted]
  /\ UNCHANGED <<rowVars, diskVars, up, marked, taking, trouble, ghosts>>

\* genatrix purge looks whether the core runs, and then asks.
PurgeAsks ==
  /\ ~up /\ Free("command")
  /\ removing' = [removing EXCEPT !["command"].pc = "remove"]
  /\ UNCHANGED <<rowVars, diskVars, up, marked, taking, trouble, ghosts>>

PurgeDeclined ==
  /\ removing["command"].pc = "remove"
  /\ removing' = [removing EXCEPT !["command"] = NoRemoving]
  /\ UNCHANGED <<rowVars, diskVars, up, marked, taking, trouble, ghosts>>

\* The attachments these items have and no other has.
Brought(ms) == UNION {Attached[m] : m \in ms}
\* Bug: nobody looks who else has them.
AllTheirs(ms) == Brought(ms)
OnlyTheirs(ms) == Brought(ms) \ Brought(item \ ms)

\* What is to be removed from disk once the rows are gone.
\* Bug: the attachments are not among it.
FilesOfRaws(rows, blobs) == rows
FilesOf(rows, blobs) == rows \cup blobs

\* One transaction: the items, their attachments' rows, and these raw records.
RemoveRows(q, ms, rows) ==
  LET lone == OnlyTheirs(ms)
  IN  /\ item' = item \ ms /\ raw' = raw \ rows /\ blob' = blob \ lone
      /\ removing' = [r \in Removers |->
           IF r = q THEN [pc |-> "files", found |-> {}, left |-> FilesOf(rows, lone)]
           ELSE [removing[r] EXCEPT !.found = @ \ ms]]
      /\ taking' = [p \in Takers |->
           [taking[p] EXCEPT !.stale = @ \cup (rows \cap ({taking[p].mail} \cup taking[p].list))]]
      /\ UNCHANGED <<diskVars, up, marked, trouble, cut>>
      /\ Noted

RemoveJunk ==
  /\ removing["page"].pc = "remove"
  /\ RemoveRows("page", removing["page"].found, removing["page"].found)

\* With the raw records that never became items.
Purge ==
  /\ removing["command"].pc = "remove"
  /\ RemoveRows("command", item, raw)

RemoveFile(q) ==
  \E h \in removing[q].left :
    LET Lost(w) == IF w.pc = "moved" /\ w.of = h THEN [w EXCEPT !.pc = "lost"] ELSE w
    IN  /\ file' = [file EXCEPT ![h] = "none"]
        /\ removing' = [removing EXCEPT ![q].left = @ \ {h}]
        /\ taking' = [p \in Takers |-> Lost(taking[p])]
        /\ cut' = IF temp[h] = "none" THEN cut \ {h} ELSE cut
        /\ UNCHANGED <<rowVars, temp, up, marked, trouble, contested>>

\* A file that will not go is passed over.
FileStays(q) ==
  \E h \in removing[q].left :
    /\ Trouble
    /\ removing' = [removing EXCEPT ![q].left = @ \ {h}]
    /\ cut' = cut \cup {h}
    /\ UNCHANGED <<rowVars, diskVars, up, marked, taking, contested>>

PurgeEnds ==
  /\ removing["command"].pc = "files" /\ removing["command"].left = {}
  /\ removing' = [removing EXCEPT !["command"] = NoRemoving]
  /\ UNCHANGED <<rowVars, diskVars, up, marked, taking, trouble, ghosts>>

\* What comes later is dropped.
MarkJunk ==
  /\ removing["page"].pc = "files" /\ removing["page"].left = {}
  /\ marked' = TRUE
  /\ removing' = [removing EXCEPT !["page"] = NoRemoving]
  /\ UNCHANGED <<rowVars, diskVars, up, taking, trouble, ghosts>>

RestoreJunk ==
  /\ up /\ marked /\ Trouble
  /\ marked' = FALSE
  /\ UNCHANGED <<rowVars, diskVars, up, taking, removing, ghosts>>

-----------------------------------------------------------------------------
(* Processes.                                                              *)

CoreStarts ==
  /\ ~up /\ up' = TRUE
  /\ UNCHANGED <<rowVars, diskVars, marked, taking, removing, trouble, ghosts>>

CoreStops ==
  /\ up /\ Trouble
  /\ up' = FALSE
  /\ taking' = [taking EXCEPT !["core"] = NoTaking]
  /\ removing' = [removing EXCEPT !["page"] = NoRemoving]
  /\ cut' = cut \cup Needs("core") \cup Removes("page")
  /\ UNCHANGED <<rowVars, diskVars, marked, contested>>

CommandKilled ==
  /\ ~Free("command") /\ Trouble
  /\ taking' = [taking EXCEPT !["command"] = NoTaking]
  /\ removing' = [removing EXCEPT !["command"] = NoRemoving]
  /\ cut' = cut \cup Needs("command") \cup Removes("command")
  /\ UNCHANGED <<rowVars, diskVars, up, marked, contested>>

Take(p) ==
  \/ \E m \in Mails : TakeIn(p, m)
  \/ KeepRaw(p) \/ Has(p) \/ Open(p) \/ Write(p) \/ Rename(p) \/ RenameFails(p)
  \/ Record(p) \/ Insert(p) \/ InsertFails(p) \/ TakingFails(p)

Reread == Reprocess \/ ReadAgain \/ ReadingEnds \/ Unchanged

Remove ==
  \/ FindJunk \/ PurgeAsks \/ PurgeDeclined \/ RemoveJunk \/ Purge
  \/ PurgeEnds \/ MarkJunk \/ RestoreJunk
  \/ \E q \in Removers : RemoveFile(q) \/ FileStays(q)

Next ==
  \/ \E p \in Takers : Take(p)
  \/ Reread \/ Remove
  \/ CoreStarts \/ CoreStops \/ CommandKilled

FilesSpec == Init /\ [][Next]_filesVars

-----------------------------------------------------------------------------
(* What holds.                                                             *)

\* An item has its raw record, and every attachment it names has a row, and
\* their files are whole: whatever stops when, however often the same mail comes
\* in or is read again, and whoever else had the attachment and was removed; but
\* for a file that one put or had put while another was removing it, or was
\* putting it too.
ItemsAreWhole ==
  \A m \in item :
    /\ m \in raw
    /\ \A h \in Bytes(m) \ contested : file[h] = "whole" /\ (h \in Attachments => h \in blob)

\* What is on disk or in a row is there for an item, or somebody is at work on
\* it: what is removed is removed from both; but for what somebody was cut short
\* at, or two were at.
NothingLingers ==
  \A h \in Hashes \ (contested \cup cut) :
    file[h] # "none" \/ temp[h] # "none" \/ h \in raw \cup blob =>
      \/ \E m \in item : h \in Bytes(m)
      \/ \E p \in Takers : h \in Needs(p)
      \/ \E q \in Removers : h \in Removes(q)
=============================================================================
