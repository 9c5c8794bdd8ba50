--------------------------- MODULE ConversationProofs ---------------------------
(***************************************************************************)
(* Proofs about what the core keeps of a mail, what it works out about it, *)
(* and what a question is answered from: Files, Passes, Conversation, each *)
(* with an invariant of its own.                                           *)
(*                                                                         *)
(* Files (FilesInv): what a process taking a mail in has put is there and  *)
(* stays, what a removal still has to remove is in no row (Works, Removal),*)
(* and a file is whole or not there (Disk): all of it but for the files two*)
(* processes are or were at at once (Clash, contested), where none of it   *)
(* holds.                                                                  *)
(*                                                                         *)
(* Passes (PassesInv): an item's level and category are what was judged    *)
(* about it adds up to, or are about to be written by the pass or by the   *)
(* page, or are known to be left behind (LevelFine, SortFine); what is     *)
(* about to be written is what is noted (PassAtWork, PageAtWork); a        *)
(* classification has judged what it listed and has not before it any more *)
(* (Progress), and items only came in since they were counted (Counting).  *)
(*                                                                         *)
(* Conversation (TalkInv): the material holds each source once, all of them*)
(* known, and what is known to be gone was put there in an earlier round   *)
(* (Material). What AddItems adds is defined by recursion on the number of *)
(* items: that the recursion has a solution, and what holds of it, is      *)
(* proved by induction over a set of numbers.                              *)
(*                                                                         *)
(* A step of the composition is a step of the part it belongs to or leaves *)
(* that part's variables alone: ConversationSpec implies PassesSpec, which *)
(* implies FilesSpec, and what is proved of a part holds of the whole.     *)
(***************************************************************************)
EXTENDS Conversation, SequenceTheorems, WellFoundedInduction, FiniteSetTheorems, TLAPS

-----------------------------------------------------------------------------
(* Files: the invariant.                                                   *)

TakingRow ==
  [pc : {"idle", "keep", "next", "put", "write", "moved", "lost", "rename", "record", "insert"},
   does : {"fetch", "insert", "compare"}, mail : Mails \cup {"none"}, of : Hashes \cup {"none"},
   left : SUBSET Attachments, stale : SUBSET Mails, list : SUBSET Mails]

RemovingRow == [pc : {"idle", "remove", "files"}, found : SUBSET Mails, left : SUBSET Hashes]

FilesTypes ==
  /\ raw \subseteq Mails /\ item \subseteq Mails /\ blob \subseteq Attachments
  /\ file \in [Hashes -> Contents] /\ temp \in [Hashes -> Contents]
  /\ taking \in [Takers -> TakingRow]
  /\ removing \in [Removers -> RemovingRow]
  /\ contested \subseteq Hashes /\ cut \subseteq Hashes

Busy(p) == taking[p].pc \notin {"idle", "keep", "next"}
Ready(h) == file[h] = "whole" /\ (h \in Attachments => h \in blob)
Held(h) == \E m \in item : h \in Bytes(m)

\* What of its mail a taker has put and recorded.
Done(p) ==
  (Bytes(taking[p].mail) \ taking[p].left) \ (IF taking[p].pc = "insert" THEN {} ELSE {taking[p].of})

AtWork(p) ==
  LET w == taking[p]
  IN  /\ w.mail \in Mails /\ w.left \subseteq Attached[w.mail] /\ w.mail \in raw \cup w.stale
      /\ w.pc = "insert" => w.left = {}
      /\ w.pc # "insert" => w.of \in Bytes(w.mail)
      /\ w.pc = "record" => w.of \in Attachments /\ (w.of \in contested \/ file[w.of] = "whole")
      /\ w.pc \in {"moved", "lost"} => w.of \in contested
      /\ w.pc = "write" => w.of \in contested \/ temp[w.of] # "none"
      /\ w.pc = "rename" => w.of \in contested \/ temp[w.of] = "whole"
      /\ \A h \in Done(p) \ contested : Ready(h)
      /\ w.does = "compare" => \A h \in Bytes(w.mail) \ contested : Held(h)

WorkOf(p) ==
  /\ taking[p].pc = "keep" =>
       taking[p].mail \in Mails /\ taking[p].list = {} /\ taking[p].does = "fetch"
  /\ taking[p].list \subseteq raw \cup taking[p].stale
  /\ Busy(p) => AtWork(p)

Works == \A p \in Takers : WorkOf(p)

\* What is removed from disk is in no row any more.
Removal ==
  \A q \in Removers :
    /\ removing[q].pc # "files" => removing[q].left = {}
    /\ \A h \in Removes(q) \ contested : ~Held(h) /\ h \notin raw \cup blob

\* A file is whole or not there; what is beside it is being written or was left
\* by one cut short, and the file is not there yet.
Disk ==
  \A h \in Hashes \ contested :
    /\ file[h] # "torn"
    /\ file[h] = "none" \/ temp[h] = "none"
    /\ temp[h] # "none" => h \in cut \/ \E p \in Takers : h \in Puts(p)

FilesInv ==
  /\ FilesTypes /\ Works /\ Removal /\ Disk /\ Clash \subseteq contested
  /\ ItemsAreWhole /\ NothingLingers

-----------------------------------------------------------------------------
(* What two at once do.                                                    *)

LEMMA MailsAndAttachments ==
  /\ \A m \in Mails : m \notin Attachments /\ Attached[m] \subseteq Attachments
  /\ \A m, n \in Mails : m \in Bytes(m) /\ (m \in Bytes(n) => m = n) /\ Bytes(m) \subseteq Hashes
BY FilesAssumption DEF Bytes, Hashes

LEMMA ClashMeans ==
  ASSUME \A q \in Removers : Removes(q) \subseteq Hashes
  PROVE  /\ \A p, q \in Takers : p # q => Puts(p) \cap Puts(q) \subseteq Clash
         /\ \A p \in Takers, q \in Removers : Needs(p) \cap Removes(q) \subseteq Clash
BY DEF Clash, Takers

LEMMA ClashMeansAfter ==
  ASSUME \A q \in Removers : Removes(q)' \subseteq Hashes
  PROVE  /\ \A p, q \in Takers : p # q => Puts(p)' \cap Puts(q)' \subseteq Clash'
         /\ \A p \in Takers, q \in Removers : Needs(p)' \cap Removes(q)' \subseteq Clash'
BY DEF Clash, Takers

LEMMA ClashShrinks ==
  ASSUME \A p \in Takers : Puts(p)' \subseteq Puts(p) /\ Needs(p)' \subseteq Needs(p),
         \A q \in Removers : Removes(q)' \subseteq Removes(q)
  PROVE  Clash' \subseteq Clash
<1>1. "core" \in Takers /\ "command" \in Takers
  BY DEF Takers
<1>2. (Puts("core") \cap Puts("command"))' \subseteq Puts("core") \cap Puts("command")
  BY <1>1
<1>3. ASSUME NEW p \in Takers, NEW q \in Removers
      PROVE  Needs(p)' \cap Removes(q)' \subseteq Needs(p) \cap Removes(q)
  BY <1>3
<1>4. QED
  BY <1>2, <1>3 DEF Clash

\* What a taker needs and puts.
LEMMA WhatItNeeds ==
  ASSUME NEW p \in Takers, WorkOf(p)
  PROVE  /\ ~Busy(p) => Needs(p) = {} /\ Puts(p) = {}
         /\ Busy(p) => Needs(p) = Bytes(taking[p].mail) /\ Puts(p) \subseteq Needs(p)
         /\ \A h \in Puts(p) : h = taking[p].of /\ Busy(p)
BY DEF WorkOf, AtWork, Busy, Needs, Puts

LEMMA NeedsAreHashes ==
  ASSUME NEW p \in Takers, WorkOf(p)
  PROVE  Needs(p) \subseteq Hashes
BY WhatItNeeds, MailsAndAttachments DEF WorkOf, AtWork

\* One that does not move.
LEMMA WorkStays ==
  ASSUME NEW p \in Takers, WorkOf(p), taking'[p] = taking[p],
         taking[p].list \subseteq raw => taking[p].list \subseteq raw' \cup taking[p].stale,
         raw \subseteq raw', contested \subseteq contested',
         \A h \in Needs(p) \ contested' :
           /\ file[h] = "whole" => file'[h] = "whole"
           /\ h \in blob => h \in blob'
           /\ h \in Puts(p) => temp'[h] \in {temp[h], "whole"}
           /\ Held(h) => Held(h)'
  PROVE  WorkOf(p)'
<1>1. Busy(p)' <=> Busy(p)
  BY DEF Busy
<1>2. Done(p)' = Done(p)
  BY DEF Done
<1>3. taking'[p].list \subseteq raw' \cup taking'[p].stale
  BY DEF WorkOf
<1>4. ASSUME Busy(p) PROVE AtWork(p)'
  <2>1. AtWork(p) /\ Needs(p) = Bytes(taking[p].mail)
    BY <1>4, WhatItNeeds DEF WorkOf
  <2>2. \A h \in Done(p) \ contested' : Ready(h)'
    BY <2>1 DEF AtWork, Ready, Done
  <2>3. taking[p].does = "compare" => \A h \in Bytes(taking[p].mail) \ contested' : Held(h)'
    BY <2>1 DEF AtWork
  <2>4. /\ taking[p].pc = "write" => taking[p].of \in contested' \/ temp'[taking[p].of] # "none"
        /\ taking[p].pc = "rename" => taking[p].of \in contested' \/ temp'[taking[p].of] = "whole"
    BY <2>1 DEF AtWork, Puts
  <2>5. taking[p].pc = "record" => taking[p].of \in contested' \/ file'[taking[p].of] = "whole"
    BY <2>1 DEF AtWork
  <2>6. QED
    BY <1>2, <2>1, <2>2, <2>3, <2>4, <2>5 DEF AtWork
<1>5. QED
  BY <1>1, <1>3, <1>4 DEF WorkOf

-----------------------------------------------------------------------------
(* Steps that touch no row and no file.                                     *)

Calm ==
  /\ FilesTypes'
  /\ UNCHANGED <<raw, item, blob, file, temp, contested>>
  /\ cut \subseteq cut'
  /\ \A p \in Takers :
       \/ taking'[p] = taking[p]
       \/ /\ taking'[p].pc \in {"idle", "keep", "next"}
          /\ taking'[p].list \subseteq raw \cup taking'[p].stale
          /\ taking'[p].pc = "keep" => taking'[p].mail \in Mails /\ taking'[p].list = {} /\ taking'[p].does = "fetch"
          /\ \A h \in Needs(p) \ contested : h \in cut' \/ Held(h)
  /\ \A q \in Removers :
       /\ removing'[q].pc # "files" => removing'[q].left = {}
       /\ Removes(q)' \subseteq Removes(q)
       /\ Removes(q) \ Removes(q)' \subseteq cut'

LEMMA CalmKeeps ==
  ASSUME FilesInv, Calm
  PROVE  FilesInv'
<1>1. FilesTypes'
  BY DEF Calm
<1>2. \A h : Held(h)' <=> Held(h)
  BY DEF Calm, Held
<1>3. ASSUME NEW p \in Takers
      PROVE  /\ WorkOf(p)' /\ Puts(p)' \subseteq Puts(p) /\ Needs(p)' \subseteq Needs(p)
             /\ \A h \in Needs(p) \ contested : h \in Needs(p)' \/ h \in cut' \/ Held(h)
             /\ \A h \in Puts(p) \ contested : h \in Puts(p)' \/ h \in cut' \/ Held(h)
  <2>1. WorkOf(p)
    BY DEF FilesInv, Works
  <2>2. Puts(p) \subseteq Needs(p)
    BY <2>1, WhatItNeeds
  <2>3. CASE taking'[p] = taking[p]
    <3>1. WorkOf(p)'
      BY <1>2, <2>1, <2>3, WorkStays DEF Calm
    <3>2. Puts(p)' = Puts(p) /\ Needs(p)' = Needs(p)
      BY <2>3 DEF Puts, Needs
    <3>3. QED
      BY <3>1, <3>2
  <2>4. CASE /\ taking'[p].pc \in {"idle", "keep", "next"}
             /\ taking'[p].list \subseteq raw \cup taking'[p].stale
             /\ taking'[p].pc = "keep" => taking'[p].mail \in Mails /\ taking'[p].list = {} /\ taking'[p].does = "fetch"
             /\ \A h \in Needs(p) \ contested : h \in cut' \/ Held(h)
    <3>1. WorkOf(p)'
      BY <2>4 DEF Calm, WorkOf, Busy
    <3>2. Puts(p)' = {} /\ Needs(p)' = {}
      BY <2>4 DEF Puts, Needs
    <3>3. QED
      BY <2>2, <2>4, <3>1, <3>2
  <2>5. QED
    BY <2>3, <2>4 DEF Calm
<1>4. Clash' \subseteq contested'
  <2>1. Clash' \subseteq Clash
    BY <1>3, ClashShrinks DEF Calm
  <2>2. QED
    BY <2>1 DEF Calm, FilesInv
<1>5. Removal'
  BY <1>2 DEF Calm, FilesInv, Removal
<1>6. ItemsAreWhole'
  BY DEF Calm, FilesInv, ItemsAreWhole
<1>7. Disk'
  <2>1. ASSUME NEW h \in Hashes \ contested
        PROVE  /\ file'[h] # "torn"
               /\ file'[h] = "none" \/ temp'[h] = "none"
               /\ temp'[h] # "none" => h \in cut' \/ \E p \in Takers : h \in Puts(p)'
    <3>1. /\ file[h] # "torn"
          /\ file[h] = "none" \/ temp[h] = "none"
          /\ temp[h] # "none" => h \in cut \/ \E p \in Takers : h \in Puts(p)
      BY <2>1 DEF FilesInv, Disk
    <3>2. file' = file /\ temp' = temp /\ cut \subseteq cut'
      BY DEF Calm
    <3>3. ASSUME temp[h] # "none", Held(h) PROVE FALSE
      <4>1. file[h] = "whole"
        BY <2>1, <3>3 DEF FilesInv, ItemsAreWhole, Held
      <4>2. QED
        BY <3>1, <3>3, <4>1
    <3>4. QED
      BY <1>3, <2>1, <3>1, <3>2, <3>3
  <2>2. QED
    BY <2>1 DEF Calm, Disk
<1>8. NothingLingers'
  <2>1. ASSUME NEW h \in Hashes \ (contested \cup cut'),
               file[h] # "none" \/ temp[h] # "none" \/ h \in raw \cup blob
        PROVE  \/ Held(h)
               \/ \E p \in Takers : h \in Needs(p)'
               \/ \E q \in Removers : h \in Removes(q)'
    <3>1. \/ Held(h)
          \/ \E p \in Takers : h \in Needs(p)
          \/ \E q \in Removers : h \in Removes(q)
      BY <2>1 DEF Calm, FilesInv, NothingLingers, Held
    <3>2. QED
      BY <1>3, <2>1, <3>1 DEF Calm
  <2>2. QED
    BY <2>1 DEF Calm, NothingLingers, Held
<1>9. QED
  BY <1>1, <1>3, <1>4, <1>5, <1>6, <1>7, <1>8 DEF FilesInv, Works

LEMMA TakingCalm ==
  ASSUME FilesInv, NEW p \in Takers, NEW row \in TakingRow,
         row.pc \in {"idle", "keep", "next"}, row.list \subseteq raw \cup row.stale,
         row.pc = "keep" => row.mail \in Mails /\ row.list = {} /\ row.does = "fetch",
         taking' = [taking EXCEPT ![p] = row],
         UNCHANGED <<raw, item, blob, file, temp, contested, removing>>,
         cut \subseteq cut', cut' \subseteq Hashes,
         \A h \in Needs(p) \ contested : h \in cut' \/ Held(h)
  PROVE  Calm
<1>1. taking' \in [Takers -> TakingRow] /\ taking'[p] = row /\ \A r \in Takers \ {p} : taking'[r] = taking[r]
  BY DEF FilesInv, FilesTypes
<1>2. FilesTypes'
  BY <1>1 DEF FilesInv, FilesTypes
<1>3. \A q \in Removers : /\ removing'[q].pc # "files" => removing'[q].left = {}
                          /\ Removes(q)' = Removes(q)
  BY DEF FilesInv, Removal, Removes
<1>4. QED
  BY <1>1, <1>2, <1>3 DEF Calm

LEMMA RemovingCalm ==
  ASSUME FilesInv, NEW q \in Removers, NEW row \in RemovingRow,
         row.pc # "files" => row.left = {}, row.left \subseteq Removes(q),
         removing' = [removing EXCEPT ![q] = row],
         UNCHANGED <<raw, item, blob, file, temp, contested, taking>>,
         cut \subseteq cut', cut' \subseteq Hashes, Removes(q) \ row.left \subseteq cut'
  PROVE  Calm
<1>1. removing' \in [Removers -> RemovingRow] /\ removing'[q] = row
      /\ \A r \in Removers \ {q} : removing'[r] = removing[r]
  BY DEF FilesInv, FilesTypes
<1>2. FilesTypes'
  BY <1>1 DEF FilesInv, FilesTypes
<1>3. \A r \in Removers : /\ removing'[r].pc # "files" => removing'[r].left = {}
                          /\ Removes(r)' \subseteq Removes(r)
                          /\ Removes(r) \ Removes(r)' \subseteq cut'
  BY <1>1 DEF FilesInv, Removal, Removes
<1>4. QED
  BY <1>2, <1>3 DEF Calm

LEMMA NoWork ==
  /\ NoTaking \in TakingRow /\ NoTaking.pc = "idle" /\ NoTaking.list = {}
  /\ NoRemoving \in RemovingRow /\ NoRemoving.pc = "idle" /\ NoRemoving.left = {}
BY DEF NoTaking, NoRemoving, TakingRow, RemovingRow

LEMMA NeedsAndRemovesAreHashes ==
  ASSUME FilesInv
  PROVE  /\ \A p \in Takers : Needs(p) \subseteq Hashes
         /\ \A q \in Removers : Removes(q) \subseteq Hashes
<1>1. \A p \in Takers : Needs(p) \subseteq Hashes
  BY NeedsAreHashes DEF FilesInv, Works
<1>2. ASSUME NEW q \in Removers PROVE Removes(q) \subseteq Hashes
  <2>1. removing[q] \in RemovingRow
    BY DEF FilesInv, FilesTypes
  <2>2. QED
    BY <2>1 DEF RemovingRow, Removes
<1>3. QED
  BY <1>1, <1>2

LEMMA GivesUpIsCalm ==
  ASSUME FilesInv, NEW p \in Takers, GivesUp(p),
         UNCHANGED <<raw, item, blob, file, temp, contested, removing>>
  PROVE  Calm
<1>1. cut \subseteq cut' /\ Needs(p) \subseteq cut' /\ cut' \subseteq Hashes
  BY NeedsAndRemovesAreHashes DEF GivesUp, FilesInv, FilesTypes
<1>2. taking' = [taking EXCEPT ![p] = NoTaking]
  BY DEF GivesUp
<1>3. QED
  BY <1>1, <1>2, NoWork, TakingCalm

LEMMA TakersAreCalm ==
  ASSUME FilesInv, NEW p \in Takers,
         \/ \E m \in Mails : TakeIn(p, m)
         \/ KeepRaw(p) /\ taking[p].mail \in raw
         \/ RenameFails(p) \/ InsertFails(p) \/ TakingFails(p)
  PROVE  Calm
<1> USE DEF rowVars, diskVars, ghosts
<1>1. cut \subseteq Hashes
  BY DEF FilesInv, FilesTypes
<1>2. ASSUME NEW m \in Mails, TakeIn(p, m) PROVE Calm
  <2> DEFINE row == [NoTaking EXCEPT !.pc = "keep", !.mail = m]
  <2>1. row \in TakingRow /\ row.pc = "keep" /\ row.mail = m /\ row.list = {} /\ row.does = "fetch"
    BY DEF NoTaking, TakingRow
  <2>2. Needs(p) = {}
    BY <1>2 DEF TakeIn, Free, Needs
  <2>3. taking' = [taking EXCEPT ![p] = row]
        /\ UNCHANGED <<raw, item, blob, file, temp, contested, cut, removing>>
    BY <1>2 DEF TakeIn
  <2> HIDE DEF row
  <2>4. QED
    BY <1>1, <2>1, <2>2, <2>3, TakingCalm
<1>3. CASE KeepRaw(p) /\ taking[p].mail \in raw
  <2>1. taking' = [taking EXCEPT ![p] = NoTaking]
        /\ UNCHANGED <<raw, item, blob, file, temp, cut, removing>>
        /\ contested' = contested \cup Clash'
        /\ Needs(p) = {}
    BY <1>3 DEF KeepRaw, Noted, Needs
  <2>2. Clash' \subseteq Clash
    <3>1. \A q \in Removers : Removes(q)' = Removes(q)
      BY <2>1 DEF Removes
    <3>2. ASSUME NEW r \in Takers PROVE Puts(r)' \subseteq Puts(r) /\ Needs(r)' \subseteq Needs(r)
      <4>1. CASE r = p
        <5>1. taking'[p].pc = "idle"
          BY <2>1, NoWork DEF FilesInv, FilesTypes
        <5>2. QED
          BY <4>1, <5>1 DEF Puts, Needs
      <4>2. CASE r # p
        <5>1. taking'[r] = taking[r]
          BY <2>1, <4>2 DEF FilesInv, FilesTypes
        <5>2. QED
          BY <5>1 DEF Puts, Needs
      <4>3. QED
        BY <4>1, <4>2
    <3>3. QED
      BY <3>1, <3>2, ClashShrinks
  <2>3. contested' = contested
    BY <2>1, <2>2 DEF FilesInv
  <2>4. QED
    BY <1>1, <2>1, <2>3, NoWork, TakingCalm
<1>4. CASE RenameFails(p) \/ InsertFails(p) \/ TakingFails(p)
  BY <1>4, GivesUpIsCalm DEF RenameFails, InsertFails, TakingFails
<1>5. QED
  BY <1>2, <1>3, <1>4

LEMMA RereadIsCalm ==
  ASSUME FilesInv, Reprocess \/ ReadingEnds \/ Unchanged
  PROVE  Calm
<1> USE DEF rowVars, diskVars, ghosts
<1>1. cut \subseteq Hashes /\ raw \subseteq Mails /\ "command" \in Takers /\ taking["command"] \in TakingRow
  BY DEF FilesInv, FilesTypes, Takers
<1>2. CASE Reprocess
  <2> DEFINE row == [NoTaking EXCEPT !.pc = "next", !.list = raw]
  <2>1. row \in TakingRow /\ row.pc = "next" /\ row.list = raw
    BY <1>1 DEF NoTaking, TakingRow
  <2>2. Needs("command") = {}
    BY <1>1, <1>2 DEF Reprocess, Free, Needs
  <2>3. taking' = [taking EXCEPT !["command"] = row]
        /\ UNCHANGED <<raw, item, blob, file, temp, contested, cut, removing>>
    BY <1>2 DEF Reprocess
  <2> HIDE DEF row
  <2>4. QED
    BY <1>1, <2>1, <2>2, <2>3, TakingCalm
<1>3. CASE ReadingEnds
  <2>1. Needs("command") = {}
    BY <1>3 DEF ReadingEnds, Needs
  <2>2. taking' = [taking EXCEPT !["command"] = NoTaking]
        /\ UNCHANGED <<raw, item, blob, file, temp, contested, cut, removing>>
    BY <1>3 DEF ReadingEnds
  <2>3. QED
    BY <1>1, <2>1, <2>2, NoWork, TakingCalm
<1>4. CASE Unchanged
  <2> DEFINE w == taking["command"]
             row == [w EXCEPT !.pc = "next"]
  <2>1. row \in TakingRow /\ row.pc = "next" /\ row.list = w.list /\ row.stale = w.stale
    BY <1>1 DEF TakingRow
  <2>2. taking' = [taking EXCEPT !["command"] = row]
        /\ UNCHANGED <<raw, item, blob, file, temp, contested, cut, removing>>
    BY <1>4 DEF Unchanged
  <2>3. WorkOf("command") /\ Busy("command") /\ w.does = "compare"
    BY <1>1, <1>4 DEF Unchanged, FilesInv, Works, Busy
  <2>4. w.list \subseteq raw \cup w.stale /\ \A h \in Needs("command") \ contested : Held(h)
    BY <1>1, <2>3, WhatItNeeds DEF WorkOf, AtWork
  <2> HIDE DEF row
  <2>5. QED
    BY <1>1, <2>1, <2>2, <2>4, TakingCalm
<1>5. QED
  BY <1>2, <1>3, <1>4

LEMMA RemoversAreCalm ==
  ASSUME FilesInv,
         \/ FindJunk \/ PurgeAsks \/ PurgeDeclined \/ PurgeEnds \/ MarkJunk \/ RestoreJunk
         \/ \E q \in Removers : FileStays(q)
  PROVE  Calm
<1> USE DEF rowVars, diskVars, ghosts
<1>1. /\ cut \subseteq Hashes /\ item \subseteq Mails /\ "command" \in Removers /\ "page" \in Removers
      /\ \A q \in Removers : removing[q] \in RemovingRow /\ (removing[q].pc # "files" => removing[q].left = {})
  BY DEF FilesInv, FilesTypes, Removal, Removers
<1>2. CASE FindJunk
  <2> DEFINE row == [removing["page"] EXCEPT !.pc = "remove", !.found = item \cap Unwanted]
  <2>1. row \in RemovingRow /\ row.left = Removes("page") /\ row.left = {}
    BY <1>1, <1>2 DEF RemovingRow, Removes, FindJunk, Free
  <2>2. removing' = [removing EXCEPT !["page"] = row]
        /\ UNCHANGED <<raw, item, blob, file, temp, contested, cut, taking>>
    BY <1>2 DEF FindJunk
  <2> HIDE DEF row
  <2>3. QED
    BY <1>1, <2>1, <2>2, RemovingCalm
<1>3. CASE PurgeAsks
  <2> DEFINE row == [removing["command"] EXCEPT !.pc = "remove"]
  <2>1. row \in RemovingRow /\ row.left = Removes("command") /\ row.left = {}
    BY <1>1, <1>3 DEF RemovingRow, Removes, PurgeAsks, Free
  <2>2. removing' = [removing EXCEPT !["command"] = row]
        /\ UNCHANGED <<raw, item, blob, file, temp, contested, cut, taking>>
    BY <1>3 DEF PurgeAsks
  <2> HIDE DEF row
  <2>3. QED
    BY <1>1, <2>1, <2>2, RemovingCalm
<1>4. ASSUME NEW q \in Removers, Removes(q) = {}, removing' = [removing EXCEPT ![q] = NoRemoving],
             UNCHANGED <<raw, item, blob, file, temp, contested, cut, taking>>
      PROVE  Calm
  BY <1>1, <1>4, NoWork, RemovingCalm
<1>5. CASE PurgeDeclined \/ PurgeEnds
  <2>1. Removes("command") = {}
    BY <1>1, <1>5 DEF PurgeDeclined, PurgeEnds, Removes
  <2>2. QED
    BY <1>1, <1>4, <1>5, <2>1 DEF PurgeDeclined, PurgeEnds
<1>6. CASE MarkJunk
  BY <1>1, <1>4, <1>6 DEF MarkJunk, Removes
<1>7. CASE RestoreJunk
  <2>1. UNCHANGED <<raw, item, blob, file, temp, contested, cut, taking, removing>>
    BY <1>7 DEF RestoreJunk
  <2>2. \A q \in Removers : Removes(q)' = Removes(q)
    BY <2>1 DEF Removes
  <2>3. FilesTypes'
    BY <2>1 DEF FilesInv, FilesTypes
  <2>4. QED
    BY <1>1, <2>1, <2>2, <2>3 DEF Calm
<1>8. ASSUME NEW q \in Removers, FileStays(q) PROVE Calm
  <2>1. PICK h \in removing[q].left :
          /\ removing' = [removing EXCEPT ![q].left = @ \ {h}]
          /\ cut' = cut \cup {h}
          /\ UNCHANGED <<raw, item, blob, file, temp, contested, taking>>
    BY <1>8 DEF FileStays
  <2> DEFINE row == [removing[q] EXCEPT !.left = @ \ {h}]
  <2>2. row \in RemovingRow /\ row.left = Removes(q) \ {h} /\ row.pc = removing[q].pc
    BY <1>1 DEF RemovingRow, Removes
  <2>3. removing[q].pc = "files" /\ h \in Hashes
    BY <1>1 DEF RemovingRow
  <2>4. removing' = [removing EXCEPT ![q] = row]
    BY <2>1
  <2> HIDE DEF row
  <2>5. /\ cut \subseteq cut' /\ cut' \subseteq Hashes /\ Removes(q) \ row.left \subseteq cut'
        /\ row.left \subseteq Removes(q) /\ row.pc = "files"
    BY <1>1, <2>1, <2>2, <2>3
  <2>6. QED
    BY <2>1, <2>2, <2>4, <2>5, RemovingCalm
<1>9. QED
  BY <1>2, <1>3, <1>5, <1>6, <1>7, <1>8

LEMMA ProcessesAreCalm ==
  ASSUME FilesInv, CoreStarts \/ CoreStops \/ CommandKilled \/ UNCHANGED filesVars
  PROVE  Calm
<1> USE DEF rowVars, diskVars, ghosts
<1>1. \A q \in Removers : removing[q].pc # "files" => removing[q].left = {}
  BY DEF FilesInv, Removal
<1>2. CASE CoreStarts \/ UNCHANGED filesVars
  <2>1. UNCHANGED <<raw, item, blob, file, temp, contested, cut, taking, removing>>
    BY <1>2 DEF CoreStarts, filesVars
  <2>2. \A q \in Removers : Removes(q)' = Removes(q)
    BY <2>1 DEF Removes
  <2>3. FilesTypes'
    BY <2>1 DEF FilesInv, FilesTypes
  <2>4. QED
    BY <1>1, <2>1, <2>2, <2>3 DEF Calm
<1>3. ASSUME NEW p \in Takers, NEW q \in Removers,
             taking' = [taking EXCEPT ![p] = NoTaking],
             removing' = [removing EXCEPT ![q] = NoRemoving],
             cut' = cut \cup Needs(p) \cup Removes(q),
             UNCHANGED <<raw, item, blob, file, temp, contested>>
      PROVE  Calm
  <2>1. /\ taking' \in [Takers -> TakingRow] /\ taking'[p] = NoTaking
        /\ \A r \in Takers \ {p} : taking'[r] = taking[r]
        /\ removing' \in [Removers -> RemovingRow] /\ removing'[q] = NoRemoving
        /\ \A r \in Removers \ {q} : removing'[r] = removing[r]
    BY <1>3, NoWork DEF FilesInv, FilesTypes
  <2>2. cut' \subseteq Hashes /\ cut \subseteq cut'
    BY <1>3, NeedsAndRemovesAreHashes DEF FilesInv, FilesTypes
  <2>3. FilesTypes'
    BY <1>3, <2>1, <2>2 DEF FilesInv, FilesTypes
  <2>4. \A r \in Removers : /\ removing'[r].pc # "files" => removing'[r].left = {}
                            /\ Removes(r)' \subseteq Removes(r)
                            /\ Removes(r) \ Removes(r)' \subseteq cut'
    BY <1>1, <1>3, <2>1, NoWork DEF Removes
  <2>5. QED
    BY <1>3, <2>1, <2>2, <2>3, <2>4, NoWork DEF Calm
<1>4. CASE CoreStops
  BY <1>3, <1>4 DEF CoreStops, Takers, Removers
<1>5. CASE CommandKilled
  BY <1>3, <1>5 DEF CommandKilled, Takers, Removers
<1>6. QED
  BY <1>2, <1>4, <1>5

-----------------------------------------------------------------------------
(* A taker that goes on.                                                    *)

Forward(p) ==
  /\ FilesTypes' /\ Works' /\ Clash' \subseteq contested'
  /\ UNCHANGED <<item, removing, cut>> /\ contested \subseteq contested'
  /\ \A r \in Takers : Needs(r) \subseteq Needs(r)'
  /\ raw \subseteq raw' /\ blob \subseteq blob' /\ (raw' \cup blob') \ (raw \cup blob) \subseteq Needs(p)'
  /\ \A h \in Hashes \ Needs(p)' : file'[h] = file[h] /\ temp'[h] = temp[h]
  /\ \A h \in Hashes \ contested' : file[h] = "whole" => file'[h] = "whole"
  /\ Disk'

LEMMA ForwardKeeps ==
  ASSUME FilesInv, NEW p \in Takers, Forward(p)
  PROVE  FilesInv'
<1>1. \A h : Held(h)' <=> Held(h)
  BY DEF Forward, Held
<1>2. \A q \in Removers : Removes(q)' = Removes(q) /\ Removes(q) \subseteq Hashes
  BY NeedsAndRemovesAreHashes DEF Forward, Removes
<1>3. Removal'
  <2>1. ASSUME NEW q \in Removers, NEW h \in Removes(q) \ contested' PROVE ~Held(h)' /\ h \notin raw' \cup blob'
    <3>1. h \notin Needs(p)'
      BY <1>2, <2>1, ClashMeansAfter DEF Forward
    <3>2. ~Held(h) /\ h \notin raw \cup blob
      BY <2>1 DEF Forward, FilesInv, Removal
    <3>3. QED
      BY <1>1, <3>1, <3>2 DEF Forward
  <2>2. \A q \in Removers : removing'[q].pc # "files" => removing'[q].left = {}
    BY DEF Forward, FilesInv, Removal
  <2>3. QED
    BY <1>2, <2>1, <2>2 DEF Removal
<1>4. ItemsAreWhole'
  <2>1. ASSUME NEW m \in item, NEW h \in Bytes(m) \ contested'
        PROVE  file'[h] = "whole" /\ (h \in Attachments => h \in blob')
    <3>1. h \in Hashes
      BY <2>1, MailsAndAttachments DEF FilesInv, FilesTypes
    <3>2. file[h] = "whole" /\ (h \in Attachments => h \in blob)
      BY <2>1 DEF Forward, FilesInv, ItemsAreWhole
    <3>3. QED
      BY <2>1, <3>1, <3>2 DEF Forward
  <2>2. QED
    BY <2>1 DEF Forward, FilesInv, ItemsAreWhole
<1>5. NothingLingers'
  <2>1. ASSUME NEW h \in Hashes \ (contested' \cup cut),
               file'[h] # "none" \/ temp'[h] # "none" \/ h \in raw' \cup blob',
               h \notin Needs(p)'
        PROVE  \/ Held(h)
               \/ \E r \in Takers : h \in Needs(r)'
               \/ \E q \in Removers : h \in Removes(q)
    <3>1. file[h] # "none" \/ temp[h] # "none" \/ h \in raw \cup blob
      BY <2>1 DEF Forward
    <3>2. \/ Held(h)
          \/ \E r \in Takers : h \in Needs(r)
          \/ \E q \in Removers : h \in Removes(q)
      BY <2>1, <3>1 DEF Forward, FilesInv, NothingLingers, Held
    <3>3. QED
      BY <3>2 DEF Forward
  <2>2. cut' = cut /\ item' = item
    BY DEF Forward
  <2>3. QED
    BY <1>2, <2>1, <2>2 DEF NothingLingers, Held
<1>6. QED
  BY <1>3, <1>4, <1>5 DEF Forward, FilesInv

LEMMA OnwardMeans ==
  ASSUME NEW w \in TakingRow, NEW v \in Onward(w)
  PROVE  /\ v \in TakingRow
         /\ v.mail = w.mail /\ v.does = w.does /\ v.stale = w.stale /\ v.list = w.list
         /\ \/ v.pc = "insert" /\ w.left = {} /\ v.left = {}
            \/ v.pc = "put" /\ v.of \in w.left /\ v.left = w.left \ {v.of}
<1>1. CASE w.left = {}
  <2>1. v = [w EXCEPT !.pc = "insert"]
    BY <1>1 DEF Onward
  <2>2. QED
    BY <1>1, <2>1 DEF TakingRow
<1>2. CASE w.left # {}
  <2>1. PICK b \in w.left : v = [w EXCEPT !.pc = "put", !.of = b, !.left = @ \ {b}]
    BY <1>2 DEF Onward
  <2>2. b \in Attachments /\ b \in Hashes
    BY <2>1 DEF TakingRow, Hashes
  <2>3. QED
    BY <2>1, <2>2 DEF TakingRow
<1>3. QED
  BY <1>1, <1>2

LEMMA AfterPutMeans ==
  ASSUME NEW w \in TakingRow, NEW v \in AfterPut(w)
  PROVE  \/ v \in Onward(w) /\ w.of \notin Attachments
         \/ /\ v = [w EXCEPT !.pc = "record"] /\ v \in TakingRow /\ w.of \in Attachments
            /\ v.pc = "record" /\ v.mail = w.mail /\ v.does = w.does /\ v.stale = w.stale /\ v.list = w.list
            /\ v.of = w.of /\ v.left = w.left
BY DEF AfterPut, TakingRow

\* One that has put a file, or recorded it.
LEMMA PutIsDone ==
  ASSUME NEW p \in Takers, WorkOf(p), Busy(p), taking[p] \in TakingRow,
         \/ taking'[p] \in AfterPut(taking[p])
         \/ taking'[p] \in Onward(taking[p]) /\ taking[p].of \in blob',
         taking[p].pc # "insert",
         UNCHANGED <<raw, item, contested>>,
         taking[p].of \in contested \/ file'[taking[p].of] = "whole",
         \A h \in Done(p) \ contested : Ready(h) => Ready(h)'
  PROVE  /\ WorkOf(p)' /\ Needs(p)' = Needs(p) /\ Puts(p)' = {}
         /\ taking'[p] \in TakingRow
<1> DEFINE w == taking[p]
           v == taking'[p]
<1>1. /\ w.mail \in Mails /\ w.left \subseteq Attached[w.mail] /\ w.mail \in raw \cup w.stale
      /\ w.of \in Bytes(w.mail) /\ w.list \subseteq raw \cup w.stale
      /\ \A h \in (Bytes(w.mail) \ w.left) \ {w.of} : h \in contested \/ Ready(h)'
      /\ w.does = "compare" => \A h \in Bytes(w.mail) \ contested : Held(h)
      /\ Attached[w.mail] \subseteq Bytes(w.mail)
  BY DEF WorkOf, AtWork, Done, Bytes
<1>2. \A h : Held(h)' <=> Held(h)
  BY DEF Held
<1>3. CASE v \in Onward(w) /\ (w.of \in Attachments => w.of \in blob')
  <2>1. /\ v \in TakingRow
        /\ v.mail = w.mail /\ v.does = w.does /\ v.stale = w.stale /\ v.list = w.list
        /\ \/ v.pc = "insert" /\ w.left = {} /\ v.left = {}
           \/ v.pc = "put" /\ v.of \in w.left /\ v.left = w.left \ {v.of}
    BY <1>3, OnwardMeans
  <2>2. \A h : h = w.of => h \in contested \/ Ready(h)'
    BY <1>3 DEF Ready
  <2>3. \A h \in Bytes(w.mail) \ w.left : h \in contested \/ Ready(h)'
    BY <1>1, <2>2
  <2>4. Done(p)' \subseteq Bytes(w.mail) \ w.left
    BY <2>1 DEF Done
  <2>5. AtWork(p)'
    BY <1>1, <1>2, <2>1, <2>3, <2>4 DEF AtWork
  <2>6. WorkOf(p)'
    BY <1>1, <2>1, <2>5 DEF WorkOf
  <2>7. Needs(p)' = Needs(p) /\ Puts(p)' = {}
    BY <2>1 DEF Needs, Puts, Busy
  <2>8. QED
    BY <2>1, <2>6, <2>7
<1>4. CASE /\ v \in TakingRow /\ w.of \in Attachments
           /\ v.pc = "record" /\ v.mail = w.mail /\ v.does = w.does /\ v.stale = w.stale /\ v.list = w.list
           /\ v.of = w.of /\ v.left = w.left
  <2>1. Done(p)' = (Bytes(w.mail) \ w.left) \ {w.of}
    BY <1>4 DEF Done
  <2>2. AtWork(p)'
    BY <1>1, <1>2, <1>4, <2>1 DEF AtWork
  <2>3. WorkOf(p)'
    BY <1>1, <1>4, <2>2 DEF WorkOf
  <2>4. Needs(p)' = Needs(p) /\ Puts(p)' = {}
    BY <1>4 DEF Needs, Puts, Busy
  <2>5. QED
    BY <1>4, <2>3, <2>4
<1>5. QED
  BY <1>3, <1>4, AfterPutMeans

\* The others, while one goes on.
LEMMA OthersStay ==
  ASSUME FilesInv, NEW p \in Takers, \A q \in Takers \ {p} : taking'[q] = taking[q],
         raw \subseteq raw', item' = item, blob \subseteq blob', contested \subseteq contested',
         \A h \in Hashes \ contested' : file[h] = "whole" => file'[h] = "whole",
         \A q \in Takers \ {p} : \A h \in Puts(q) \ contested' : temp'[h] \in {temp[h], "whole"}
  PROVE  \A q \in Takers \ {p} : WorkOf(q)' /\ Needs(q)' = Needs(q) /\ Puts(q)' = Puts(q)
<1>1. ASSUME NEW q \in Takers \ {p} PROVE WorkOf(q)' /\ Needs(q)' = Needs(q) /\ Puts(q)' = Puts(q)
  <2>1. WorkOf(q) /\ Needs(q) \subseteq Hashes
    BY <1>1, NeedsAndRemovesAreHashes DEF FilesInv, Works
  <2>2. \A h : Held(h) => Held(h)'
    BY DEF Held
  <2>3. \A h \in Needs(q) \ contested' :
           /\ file[h] = "whole" => file'[h] = "whole"
           /\ h \in blob => h \in blob'
           /\ h \in Puts(q) => temp'[h] \in {temp[h], "whole"}
           /\ Held(h) => Held(h)'
    BY <1>1, <2>1, <2>2
  <2>4. WorkOf(q)'
    BY <1>1, <2>1, <2>3, WorkStays
  <2>5. QED
    BY <1>1, <2>4 DEF Needs, Puts
<1>2. QED
  BY <1>1

\* Where one goes on with the same mail, and only what it puts changes.
LEMMA GoesOnForward ==
  ASSUME FilesInv, NEW p \in Takers, \A q \in Takers \ {p} : taking'[q] = taking[q],
         taking' \in [Takers -> TakingRow], blob' \subseteq Attachments,
         file' \in [Hashes -> Contents], temp' \in [Hashes -> Contents],
         UNCHANGED <<item, removing, cut>>,
         raw \subseteq raw', raw' \subseteq Mails, raw' \ raw \subseteq Needs(p)',
         WorkOf(p)', Needs(p) \subseteq Needs(p)',
         blob \subseteq blob', blob' \ blob \subseteq Needs(p)',
         contested \subseteq contested', contested' \subseteq Hashes, Clash' \subseteq contested',
         \A h \in Hashes \ Needs(p)' : file'[h] = file[h] /\ temp'[h] = temp[h],
         \A h \in Hashes \ contested' : file[h] = "whole" => file'[h] = "whole",
         \A q \in Takers \ {p} : \A h \in Puts(q) \ contested' : temp'[h] \in {temp[h], "whole"},
         Disk'
  PROVE  Forward(p)
<1>1. \A q \in Takers \ {p} : WorkOf(q)' /\ Needs(q)' = Needs(q)
  BY OthersStay
<1>2. Works'
  BY <1>1 DEF Works
<1>3. FilesTypes'
  BY DEF FilesInv, FilesTypes
<1>4. QED
  BY <1>1, <1>2, <1>3 DEF Forward

\* Where files and what is beside them stay, and nobody stops putting.
LEMMA DiskStays ==
  ASSUME FilesInv, UNCHANGED <<file, temp, cut>>, contested \subseteq contested',
         \A q \in Takers : Puts(q) \subseteq Puts(q)'
  PROVE  Disk'
BY DEF FilesInv, Disk

LEMMA HasGoesOn ==
  ASSUME FilesInv, NEW p \in Takers, Has(p)
  PROVE  Forward(p)
<1> USE DEF rowVars, diskVars, ghosts
<1> DEFINE of == taking[p].of
<1>1. PICK v \in AfterPut(taking[p]) : taking' = [taking EXCEPT ![p] = v]
  BY DEF Has
<1>2. /\ taking[p].pc = "put" /\ file[of] # "none" /\ taking[p] \in TakingRow /\ taking \in [Takers -> TakingRow]
      /\ UNCHANGED <<raw, item, blob, file, temp, removing, cut, contested>>
      /\ WorkOf(p) /\ Busy(p)
  BY DEF Has, FilesInv, FilesTypes, Works, Busy
<1>3. taking'[p] = v /\ \A q \in Takers \ {p} : taking'[q] = taking[q]
  BY <1>1, <1>2
<1>4. of \in Hashes /\ (of \in contested \/ file[of] = "whole")
  <2>1. of \in Hashes
    BY <1>2, MailsAndAttachments DEF WorkOf, AtWork
  <2>2. file[of] \in Contents
    BY <2>1 DEF FilesInv, FilesTypes
  <2>3. QED
    BY <1>2, <2>1, <2>2 DEF FilesInv, Disk, Contents
<1>5. \A h : Ready(h) => Ready(h)'
  BY <1>2 DEF Ready
<1>6. WorkOf(p)' /\ Needs(p)' = Needs(p) /\ Puts(p)' = {} /\ taking'[p] \in TakingRow
  BY <1>1, <1>2, <1>3, <1>4, <1>5, PutIsDone
<1>7. taking' \in [Takers -> TakingRow]
  BY <1>1, <1>2, <1>3, <1>6
<1>8. Puts(p) = {} /\ \A q \in Takers \ {p} : Puts(q)' = Puts(q) /\ Needs(q)' = Needs(q)
  BY <1>2, <1>3 DEF Puts, Needs
<1>9. Clash' \subseteq contested'
  <2>1. \A q \in Removers : Removes(q)' = Removes(q)
    BY <1>2 DEF Removes
  <2>2. Clash' \subseteq Clash
    BY <1>6, <1>8, <2>1, ClashShrinks
  <2>3. QED
    BY <1>2, <2>2 DEF FilesInv
<1>10. Disk'
  BY <1>2, <1>6, <1>8, DiskStays
<1>11. raw \subseteq Mails /\ blob \subseteq Attachments /\ contested \subseteq Hashes /\ file \in [Hashes -> Contents] /\ temp \in [Hashes -> Contents]
  BY DEF FilesInv, FilesTypes
<1>12. QED
  BY <1>2, <1>3, <1>6, <1>7, <1>9, <1>10, <1>11, GoesOnForward

LEMMA RecordGoesOn ==
  ASSUME FilesInv, NEW p \in Takers, Record(p)
  PROVE  Forward(p)
<1> USE DEF rowVars, diskVars, ghosts
<1> DEFINE of == taking[p].of
<1>1. PICK v \in Onward(taking[p]) : taking' = [taking EXCEPT ![p] = v]
  BY DEF Record
<1>2. /\ taking[p].pc = "record" /\ taking[p] \in TakingRow /\ taking \in [Takers -> TakingRow]
      /\ UNCHANGED <<raw, item, file, temp, removing, cut, contested>>
      /\ blob' = blob \cup {of}
      /\ WorkOf(p) /\ Busy(p)
  BY DEF Record, FilesInv, FilesTypes, Works, Busy
<1>3. taking'[p] = v /\ \A q \in Takers \ {p} : taking'[q] = taking[q]
  BY <1>1, <1>2
<1>4. of \in Attachments /\ of \in Needs(p) /\ (of \in contested \/ file[of] = "whole")
  <2>1. Needs(p) = Bytes(taking[p].mail)
    BY <1>2, WhatItNeeds
  <2>2. QED
    BY <1>2, <2>1 DEF WorkOf, AtWork
<1>5. \A h : Ready(h) => Ready(h)'
  BY <1>2 DEF Ready
<1>6. WorkOf(p)' /\ Needs(p)' = Needs(p) /\ Puts(p)' = {} /\ taking'[p] \in TakingRow
  BY <1>1, <1>2, <1>3, <1>4, <1>5, PutIsDone
<1>7. taking' \in [Takers -> TakingRow]
  BY <1>1, <1>2, <1>3, <1>6
<1>8. Puts(p) = {} /\ \A q \in Takers \ {p} : Puts(q)' = Puts(q) /\ Needs(q)' = Needs(q)
  BY <1>2, <1>3 DEF Puts, Needs
<1>9. Clash' \subseteq contested'
  <2>1. \A q \in Removers : Removes(q)' = Removes(q)
    BY <1>2 DEF Removes
  <2>2. Clash' \subseteq Clash
    BY <1>6, <1>8, <2>1, ClashShrinks
  <2>3. QED
    BY <1>2, <2>2 DEF FilesInv
<1>10. Disk'
  BY <1>2, <1>6, <1>8, DiskStays
<1>11. raw \subseteq Mails /\ blob \subseteq Attachments /\ contested \subseteq Hashes /\ file \in [Hashes -> Contents] /\ temp \in [Hashes -> Contents]
  BY DEF FilesInv, FilesTypes
<1>12. blob' \subseteq Attachments /\ blob \subseteq blob' /\ blob' \ blob \subseteq Needs(p)'
  BY <1>2, <1>4, <1>6, <1>11
<1>13. QED
  BY <1>2, <1>3, <1>6, <1>7, <1>9, <1>10, <1>11, <1>12, GoesOnForward

\* One that is overtaken: what it is still to write has been renamed, or removed.
LEMMA OvertakenStays ==
  ASSUME NEW p \in Takers, WorkOf(p), taking[p] \in TakingRow, NEW c \in {"moved", "lost"},
         taking[p].pc \in {"write", "moved"}, taking'[p] = [taking[p] EXCEPT !.pc = c],
         taking[p].of \in contested, UNCHANGED <<raw, item, contested>>,
         \A h \in Needs(p) \ contested : Ready(h) => Ready(h)'
  PROVE  WorkOf(p)' /\ Needs(p)' = Needs(p) /\ Puts(p)' = Puts(p) /\ taking'[p] \in TakingRow
<1>1. /\ taking'[p] \in TakingRow /\ taking'[p].pc = c /\ taking'[p].mail = taking[p].mail
      /\ taking'[p].does = taking[p].does /\ taking'[p].of = taking[p].of
      /\ taking'[p].left = taking[p].left /\ taking'[p].stale = taking[p].stale
      /\ taking'[p].list = taking[p].list
  BY DEF TakingRow
<1>2. Needs(p)' = Needs(p) /\ Puts(p)' = Puts(p)
  BY <1>1 DEF Needs, Puts
<1>3. Done(p)' = Done(p)
  BY <1>1 DEF Done
<1>4. \A h : Held(h)' <=> Held(h)
  BY DEF Held
<1>5. AtWork(p) /\ Needs(p) = Bytes(taking[p].mail)
  BY WhatItNeeds DEF WorkOf, Busy
<1>6. \A h \in Done(p) \ contested : Ready(h)'
  BY <1>5 DEF AtWork, Done
<1>7. AtWork(p)'
  BY <1>1, <1>3, <1>4, <1>5, <1>6 DEF AtWork
<1>8. QED
  BY <1>1, <1>2, <1>7 DEF WorkOf

LEMMA ClashIsOfHashes ==
  ASSUME Puts("core")' \subseteq Hashes
  PROVE  Clash' \subseteq Hashes
BY DEF Clash

LEMMA NotedIsOfHashes ==
  ASSUME FilesInv, Noted, NEW p \in Takers, Needs(p)' \subseteq Hashes, Puts(p)' \subseteq Needs(p)',
         \A q \in Takers \ {p} : taking'[q] = taking[q]
  PROVE  contested \subseteq contested' /\ contested' \subseteq Hashes /\ Clash' \subseteq contested'
<1>1. ASSUME NEW q \in Takers PROVE Puts(q)' \subseteq Hashes
  <2>1. CASE q = p
    BY <2>1
  <2>2. CASE q # p
    <3>1. Puts(q)' = Puts(q)
      BY <2>2 DEF Puts
    <3>2. Puts(q) \subseteq Needs(q)
      BY WhatItNeeds DEF FilesInv, Works
    <3>3. QED
      BY <3>1, <3>2, NeedsAndRemovesAreHashes
  <2>3. QED
    BY <2>1, <2>2
<1>2. Clash' \subseteq Hashes
  BY <1>1, ClashIsOfHashes DEF Takers
<1>3. QED
  BY <1>2 DEF Noted, FilesInv, FilesTypes

LEMMA OpenGoesOn ==
  ASSUME FilesInv, NEW p \in Takers, Open(p)
  PROVE  Forward(p)
<1> USE DEF rowVars, diskVars, ghosts
<1> DEFINE w == taking[p]
           v == [w EXCEPT !.pc = "write"]
<1>1. /\ w.pc = "put" /\ file[w.of] = "none" /\ w \in TakingRow /\ taking \in [Takers -> TakingRow]
      /\ UNCHANGED <<raw, item, blob, file, removing, cut>> /\ Noted
      /\ temp' = [temp EXCEPT ![w.of] = "torn"] /\ taking' = [taking EXCEPT ![p] = v]
      /\ WorkOf(p) /\ Busy(p)
  BY DEF Open, FilesInv, FilesTypes, Works, Busy
<1>2. /\ v \in TakingRow /\ v.pc = "write" /\ v.mail = w.mail /\ v.of = w.of /\ v.left = w.left
      /\ v.does = w.does /\ v.stale = w.stale /\ v.list = w.list
  BY <1>1 DEF TakingRow
<1> HIDE DEF v
<1>3. /\ taking'[p] = v /\ \A q \in Takers \ {p} : taking'[q] = taking[q]
      /\ taking' \in [Takers -> TakingRow]
  BY <1>1, <1>2
<1>4. /\ Needs(p)' = Needs(p) /\ Puts(p)' = {w.of} /\ Puts(p) = {} /\ w.of \in Needs(p)
      /\ Needs(p) \subseteq Hashes /\ AtWork(p)
  <2>1. Needs(p) = Bytes(w.mail) /\ AtWork(p) /\ Needs(p) \subseteq Hashes
    BY <1>1, WhatItNeeds, NeedsAreHashes DEF WorkOf
  <2>2. QED
    BY <1>1, <1>2, <1>3, <2>1 DEF AtWork, Needs, Puts
<1>5. contested \subseteq contested' /\ contested' \subseteq Hashes /\ Clash' \subseteq contested'
  BY <1>1, <1>3, <1>4, NotedIsOfHashes
<1>6. /\ w.of \in Hashes /\ temp \in [Hashes -> Contents] /\ file \in [Hashes -> Contents]
      /\ raw \subseteq Mails /\ blob \subseteq Attachments
  BY <1>4 DEF FilesInv, FilesTypes
<1>7. temp' \in [Hashes -> Contents] /\ temp'[w.of] = "torn" /\ \A h \in Hashes \ {w.of} : temp'[h] = temp[h]
  BY <1>1, <1>6 DEF Contents
<1>8. WorkOf(p)'
  <2>1. Done(p)' = Done(p)
    BY <1>1, <1>2, <1>3 DEF Done
  <2>2. \A h : (Held(h)' <=> Held(h)) /\ (Ready(h)' <=> Ready(h))
    BY <1>1 DEF Held, Ready
  <2>3. AtWork(p)'
    BY <1>1, <1>2, <1>3, <1>4, <1>5, <1>7, <2>1, <2>2 DEF AtWork
  <2>4. QED
    BY <1>1, <1>2, <1>3, <2>3 DEF WorkOf
<1>9. ASSUME NEW q \in Takers \ {p} PROVE Puts(q)' = Puts(q) /\ Needs(q)' = Needs(q)
  BY <1>3, <1>9 DEF Puts, Needs
<1>10. ASSUME NEW q \in Takers \ {p}, NEW h \in Puts(q) \ contested' PROVE temp'[h] \in {temp[h], "whole"}
  <2>1. \A r \in Removers : Removes(r)' \subseteq Hashes
    BY <1>1, NeedsAndRemovesAreHashes DEF Removes
  <2>2. Puts(p)' \cap Puts(q)' \subseteq Clash'
    BY <1>10, <2>1, ClashMeansAfter
  <2>3. h # w.of
    BY <1>4, <1>5, <1>9, <1>10, <2>2
  <2>4. h \in Hashes
    BY <1>10, WhatItNeeds, NeedsAndRemovesAreHashes DEF FilesInv, Works
  <2>5. QED
    BY <1>7, <2>3, <2>4
<1>11. Disk'
  <2>1. ASSUME NEW h \in Hashes \ contested'
        PROVE  /\ file[h] # "torn"
               /\ file[h] = "none" \/ temp'[h] = "none"
               /\ temp'[h] # "none" => h \in cut \/ \E q \in Takers : h \in Puts(q)'
    <3>1. CASE h = w.of
      BY <1>1, <1>4, <3>1
    <3>2. CASE h # w.of
      BY <1>4, <1>5, <1>7, <1>9, <2>1, <3>2 DEF FilesInv, Disk
    <3>3. QED
      BY <3>1, <3>2
  <2>2. file' = file /\ cut' = cut
    BY <1>1
  <2>3. QED
    BY <2>1, <2>2 DEF Disk
<1>12. \A h \in Hashes \ Needs(p)' : file'[h] = file[h] /\ temp'[h] = temp[h]
  BY <1>1, <1>4, <1>7
<1>13. QED
  BY ONLY <1>1, <1>3, <1>4, <1>5, <1>6, <1>7, <1>8, <1>10, <1>11, <1>12, GoesOnForward, FilesInv, p \in Takers

LEMMA WriteGoesOn ==
  ASSUME FilesInv, NEW p \in Takers, Write(p)
  PROVE  Forward(p)
<1> USE DEF rowVars, diskVars, ghosts
<1> DEFINE w == taking[p]
           v == [w EXCEPT !.pc = "rename"]
<1>1. /\ w.pc \in {"write", "moved", "lost"} /\ w \in TakingRow /\ taking \in [Takers -> TakingRow]
      /\ UNCHANGED <<raw, item, blob, removing, cut, contested>>
      /\ temp' = IF w.pc = "write" THEN [temp EXCEPT ![w.of] = "whole"] ELSE temp
      /\ file' = IF w.pc = "moved" THEN [file EXCEPT ![w.of] = "whole"] ELSE file
      /\ taking' = [taking EXCEPT ![p] = v]
      /\ WorkOf(p) /\ Busy(p)
  BY DEF Write, FilesInv, FilesTypes, Works, Busy
<1>2. /\ v \in TakingRow /\ v.pc = "rename" /\ v.mail = w.mail /\ v.of = w.of /\ v.left = w.left
      /\ v.does = w.does /\ v.stale = w.stale /\ v.list = w.list
  BY <1>1 DEF TakingRow
<1> HIDE DEF v
<1>3. /\ taking'[p] = v /\ \A q \in Takers \ {p} : taking'[q] = taking[q]
      /\ taking' \in [Takers -> TakingRow]
  BY <1>1, <1>2
<1>4. /\ Needs(p)' = Needs(p) /\ Puts(p)' = {w.of} /\ Puts(p) = {w.of} /\ w.of \in Needs(p)
      /\ Needs(p) \subseteq Hashes /\ AtWork(p)
  <2>1. Needs(p) = Bytes(w.mail) /\ AtWork(p) /\ Needs(p) \subseteq Hashes
    BY <1>1, WhatItNeeds, NeedsAreHashes DEF WorkOf
  <2>2. QED
    BY <1>1, <1>2, <1>3, <2>1 DEF AtWork, Needs, Puts
<1>5. /\ w.of \in Hashes /\ temp \in [Hashes -> Contents] /\ file \in [Hashes -> Contents]
      /\ raw \subseteq Mails /\ blob \subseteq Attachments /\ contested \subseteq Hashes
  BY <1>4 DEF FilesInv, FilesTypes
<1>6. /\ temp' \in [Hashes -> Contents] /\ file' \in [Hashes -> Contents]
      /\ \A h \in Hashes \ {w.of} : temp'[h] = temp[h] /\ file'[h] = file[h]
      /\ \A h \in Hashes : temp'[h] \in {temp[h], "whole"} /\ file'[h] \in {file[h], "whole"}
      /\ w.of \notin contested => file' = file /\ temp[w.of] # "none" /\ temp'[w.of] = "whole"
  BY <1>1, <1>4, <1>5 DEF Contents, AtWork
<1>7. WorkOf(p)'
  <2>1. Done(p)' = Done(p)
    BY <1>1, <1>2, <1>3 DEF Done
  <2>2. \A h : (Held(h)' <=> Held(h))
    BY <1>1 DEF Held
  <2>3. \A h \in Done(p) : Ready(h) => Ready(h)'
    <3>1. Done(p) \subseteq Hashes
      BY <1>4, MailsAndAttachments DEF Done, AtWork
    <3>2. QED
      BY <1>1, <1>6, <3>1 DEF Ready
  <2>4. AtWork(p)'
    BY <1>1, <1>2, <1>3, <1>4, <1>6, <2>1, <2>2, <2>3 DEF AtWork
  <2>5. QED
    BY <1>1, <1>2, <1>3, <2>4 DEF WorkOf
<1>8. ASSUME NEW q \in Takers PROVE Puts(q)' = Puts(q) /\ Needs(q)' = Needs(q)
  BY <1>3, <1>4, <1>8 DEF Puts, Needs
<1>9. Clash' \subseteq contested'
  <2>1. \A q \in Removers : Removes(q)' = Removes(q)
    BY <1>1 DEF Removes
  <2>2. Clash' \subseteq Clash
    BY <1>8, <2>1, ClashShrinks
  <2>3. QED
    BY <1>1, <2>2 DEF FilesInv
<1>10. ASSUME NEW q \in Takers \ {p}, NEW h \in Puts(q) \ contested' PROVE temp'[h] \in {temp[h], "whole"}
  <2>1. h \in Hashes
    BY <1>10, WhatItNeeds, NeedsAndRemovesAreHashes DEF FilesInv, Works
  <2>2. QED
    BY <1>6, <2>1
<1>11. Disk'
  <2>1. ASSUME NEW h \in Hashes \ contested
        PROVE  /\ file'[h] # "torn"
               /\ file'[h] = "none" \/ temp'[h] = "none"
               /\ temp'[h] # "none" => h \in cut \/ \E q \in Takers : h \in Puts(q)'
    <3>1. CASE h = w.of
      BY <1>4, <1>6, <2>1, <3>1 DEF FilesInv, Disk
    <3>2. CASE h # w.of
      BY <1>6, <1>8, <2>1, <3>2 DEF FilesInv, Disk
    <3>3. QED
      BY <3>1, <3>2
  <2>2. contested' = contested /\ cut' = cut
    BY <1>1
  <2>3. QED
    BY <2>1, <2>2 DEF Disk
<1>12. \A h \in Hashes \ Needs(p)' : file'[h] = file[h] /\ temp'[h] = temp[h]
  BY <1>4, <1>6
<1>13. \A h \in Hashes : file[h] = "whole" => file'[h] = "whole"
  BY <1>6
<1>14. QED
  BY ONLY <1>1, <1>3, <1>4, <1>5, <1>6, <1>7, <1>9, <1>10, <1>11, <1>12, <1>13, GoesOnForward, FilesInv, p \in Takers

\* Whoever else puts it is overtaken, and two were at it.
LEMMA RenameGoesOn ==
  ASSUME FilesInv, NEW p \in Takers, Rename(p)
  PROVE  Forward(p)
<1> USE DEF rowVars, diskVars, ghosts
<1> DEFINE w == taking[p]
<1>1. PICK v \in AfterPut(w) :
        taking' = [q \in Takers |->
          IF q = p THEN v
          ELSE IF taking[q].pc = "write" /\ taking[q].of = w.of THEN [taking[q] EXCEPT !.pc = "moved"]
          ELSE taking[q]]
  BY DEF Rename
<1>2. /\ w.pc = "rename" /\ w \in TakingRow /\ taking \in [Takers -> TakingRow] /\ temp[w.of] # "none"
      /\ UNCHANGED <<raw, item, blob, removing, cut, contested>>
      /\ file' = [file EXCEPT ![w.of] = temp[w.of]] /\ temp' = [temp EXCEPT ![w.of] = "none"]
      /\ WorkOf(p) /\ Busy(p)
  BY DEF Rename, FilesInv, FilesTypes, Works, Busy
<1>3. /\ Puts(p) = {w.of} /\ w.of \in Needs(p) /\ Needs(p) \subseteq Hashes /\ AtWork(p)
  <2>1. Needs(p) = Bytes(w.mail) /\ AtWork(p) /\ Needs(p) \subseteq Hashes
    BY <1>2, WhatItNeeds, NeedsAreHashes DEF WorkOf
  <2>2. QED
    BY <1>2, <2>1 DEF AtWork, Puts
<1>4. /\ w.of \in Hashes /\ temp \in [Hashes -> Contents] /\ file \in [Hashes -> Contents]
      /\ raw \subseteq Mails /\ blob \subseteq Attachments /\ contested \subseteq Hashes
  BY <1>3 DEF FilesInv, FilesTypes
<1>5. /\ temp' \in [Hashes -> Contents] /\ file' \in [Hashes -> Contents]
      /\ \A h \in Hashes \ {w.of} : temp'[h] = temp[h] /\ file'[h] = file[h]
      /\ temp'[w.of] = "none"
      /\ w.of \notin contested => file'[w.of] = "whole"
  BY <1>2, <1>3, <1>4 DEF Contents, AtWork
<1>6. \A h \in Hashes \ contested : Ready(h) => Ready(h)'
  BY <1>2, <1>5 DEF Ready
<1>7. taking'[p] = v /\ WorkOf(p)' /\ Needs(p)' = Needs(p) /\ Puts(p)' = {} /\ taking'[p] \in TakingRow
  <2>1. taking'[p] = v
    BY <1>1
  <2>2. Done(p) \subseteq Hashes
    BY <1>3, MailsAndAttachments DEF Done, AtWork
  <2>3. \A h \in Done(p) \ contested : Ready(h) => Ready(h)'
    BY <1>6, <2>2
  <2>4. QED
    BY <1>1, <1>2, <1>5, <2>1, <2>3, PutIsDone
<1>8. ASSUME NEW q \in Takers \ {p}
      PROVE  WorkOf(q)' /\ Needs(q)' = Needs(q) /\ Puts(q)' = Puts(q) /\ taking'[q] \in TakingRow
  <2>1. /\ WorkOf(q) /\ Needs(q) \subseteq Hashes /\ Puts(q) \subseteq Needs(q)
        /\ taking[q] \in TakingRow /\ Puts(p) \cap Puts(q) \subseteq contested
    <3>1. Puts(p) \cap Puts(q) \subseteq Clash
      BY <1>8, NeedsAndRemovesAreHashes, ClashMeans
    <3>2. QED
      BY <1>2, <1>8, <3>1, WhatItNeeds, NeedsAndRemovesAreHashes DEF FilesInv, Works
  <2>2. \A h \in Needs(q) \ contested : Ready(h) => Ready(h)'
    BY <1>6, <2>1
  <2>3. CASE taking[q].pc = "write" /\ taking[q].of = w.of
    <3>1. taking'[q] = [taking[q] EXCEPT !.pc = "moved"]
      BY <1>1, <1>8, <2>3
    <3>2. taking[q].of \in contested
      BY <1>3, <2>1, <2>3 DEF Puts
    <3>3. QED
      BY <1>2, <2>1, <2>2, <2>3, <3>1, <3>2, OvertakenStays
  <2>4. CASE ~(taking[q].pc = "write" /\ taking[q].of = w.of)
    <3>1. taking'[q] = taking[q]
      BY <1>1, <1>8, <2>4
    <3>2. \A h \in Needs(q) \ contested' :
             /\ file[h] = "whole" => file'[h] = "whole"
             /\ h \in blob => h \in blob'
             /\ h \in Puts(q) => temp'[h] \in {temp[h], "whole"}
             /\ Held(h) => Held(h)'
      <4>1. \A h : Held(h) => Held(h)'
        BY <1>2 DEF Held
      <4>2. QED
        BY <1>2, <1>3, <1>5, <2>1, <4>1
    <3>3. WorkOf(q)'
      BY <1>2, <2>1, <3>1, <3>2, WorkStays
    <3>4. QED
      BY <2>1, <3>1, <3>3 DEF Needs, Puts
  <2>5. QED
    BY <2>3, <2>4
<1>9. FilesTypes' /\ Works'
  <2>1. \A q \in Takers : WorkOf(q)' /\ taking'[q] \in TakingRow
    BY <1>7, <1>8
  <2>2. taking' \in [Takers -> TakingRow]
    BY <1>1, <2>1
  <2>3. FilesTypes'
    BY <1>2, <1>5, <2>2 DEF FilesInv, FilesTypes
  <2>4. QED
    BY <2>1, <2>3 DEF Works
<1>10. Clash' \subseteq contested'
  <2>1. \A q \in Removers : Removes(q)' = Removes(q)
    BY <1>2 DEF Removes
  <2>2. Clash' \subseteq Clash
    BY <1>7, <1>8, <2>1, ClashShrinks
  <2>3. QED
    BY <1>2, <2>2 DEF FilesInv
<1>11. Disk'
  <2>1. ASSUME NEW h \in Hashes \ contested
        PROVE  /\ file'[h] # "torn"
               /\ file'[h] = "none" \/ temp'[h] = "none"
               /\ temp'[h] # "none" => h \in cut \/ \E q \in Takers : h \in Puts(q)'
    <3>1. CASE h = w.of
      BY <1>5, <2>1, <3>1
    <3>2. CASE h # w.of
      BY <1>3, <1>5, <1>8, <2>1, <3>2 DEF FilesInv, Disk
    <3>3. QED
      BY <3>1, <3>2
  <2>2. contested' = contested /\ cut' = cut
    BY <1>2
  <2>3. QED
    BY <2>1, <2>2 DEF Disk
<1>12. \A h \in Hashes \ Needs(p)' : file'[h] = file[h] /\ temp'[h] = temp[h]
  BY <1>3, <1>5, <1>7
<1>13. \A h \in Hashes \ contested' : file[h] = "whole" => file'[h] = "whole"
  BY <1>2, <1>5
<1>14. \A r \in Takers : Needs(r)' = Needs(r)
  BY <1>7, <1>8
<1>15. QED
  BY <1>2, <1>9, <1>10, <1>11, <1>12, <1>13, <1>14 DEF Forward

LEMMA KeepRawGoesOn ==
  ASSUME FilesInv, NEW p \in Takers, KeepRaw(p), taking[p].mail \notin raw
  PROVE  Forward(p)
<1> USE DEF rowVars, diskVars, ghosts
<1> DEFINE w == taking[p]
           v == [w EXCEPT !.pc = "put", !.of = w.mail, !.left = Attached[w.mail], !.stale = {}]
<1>1. /\ w.pc = "keep" /\ w \in TakingRow /\ taking \in [Takers -> TakingRow]
      /\ w.mail \in Mails /\ w.list = {} /\ w.does = "fetch"
      /\ UNCHANGED <<item, blob, file, temp, removing, cut>> /\ Noted
      /\ raw' = raw \cup {w.mail} /\ taking' = [taking EXCEPT ![p] = v]
  BY DEF KeepRaw, FilesInv, FilesTypes, Works, WorkOf
<1>2. /\ Attached[w.mail] \subseteq Attachments /\ Bytes(w.mail) \subseteq Hashes
      /\ w.mail \in Bytes(w.mail) /\ Bytes(w.mail) = {w.mail} \cup Attached[w.mail] /\ w.mail \in Hashes
  BY <1>1, MailsAndAttachments DEF Bytes
<1>3. /\ v \in TakingRow /\ v.pc = "put" /\ v.mail = w.mail /\ v.of = w.mail /\ v.left = Attached[w.mail]
      /\ v.does = "fetch" /\ v.stale = {} /\ v.list = {}
  BY <1>1, <1>2 DEF TakingRow
<1> HIDE DEF v
<1>4. /\ taking'[p] = v /\ \A q \in Takers \ {p} : taking'[q] = taking[q]
      /\ taking' \in [Takers -> TakingRow]
  BY <1>1, <1>3
<1>5. Needs(p)' = Bytes(w.mail) /\ Puts(p)' = {} /\ Puts(p) = {} /\ Needs(p) = {}
  BY <1>1, <1>3, <1>4 DEF Needs, Puts
<1>6. contested \subseteq contested' /\ contested' \subseteq Hashes /\ Clash' \subseteq contested'
  BY <1>1, <1>2, <1>4, <1>5, NotedIsOfHashes
<1>7. /\ raw \subseteq Mails /\ blob \subseteq Attachments
      /\ temp \in [Hashes -> Contents] /\ file \in [Hashes -> Contents]
  BY DEF FilesInv, FilesTypes
<1>8. WorkOf(p)'
  <2>1. Done(p)' = {}
    BY <1>2, <1>3, <1>4 DEF Done
  <2>2. AtWork(p)'
    BY <1>1, <1>2, <1>3, <1>4, <2>1 DEF AtWork
  <2>3. QED
    BY <1>3, <1>4, <2>2 DEF WorkOf
<1>9. ASSUME NEW q \in Takers PROVE Puts(q)' = Puts(q)
  BY <1>4, <1>5, <1>9 DEF Puts
<1>10. Disk'
  BY <1>1, <1>6, <1>9, DiskStays
<1>11. raw \subseteq raw' /\ raw' \subseteq Mails /\ raw' \ raw \subseteq Needs(p)'
  BY <1>1, <1>2, <1>5, <1>7
<1>12. QED
  BY <1>1, <1>4, <1>5, <1>6, <1>7, <1>8, <1>10, <1>11, GoesOnForward

LEMMA ReadAgainGoesOn ==
  ASSUME FilesInv, ReadAgain
  PROVE  Forward("command")
<1> USE DEF rowVars, diskVars, ghosts
<1> DEFINE p == "command"
           w == taking[p]
<1>1. p \in Takers
  BY DEF Takers
<1>0. PICK m \in w.list :
        /\ file[m] = "whole"
        /\ \E u \in Onward([w EXCEPT !.mail = m, !.left = Attached[m], !.list = @ \ {m},
                                     !.does = IF m \in item THEN "compare" ELSE "insert"]) :
             taking' = [taking EXCEPT ![p] = u]
  BY DEF ReadAgain
<1>2. PICK v \in Onward([w EXCEPT !.mail = m, !.left = Attached[m], !.list = @ \ {m},
                                 !.does = IF m \in item THEN "compare" ELSE "insert"]) :
        file[m] = "whole" /\ taking' = [taking EXCEPT ![p] = v]
  BY <1>0
<1>3. /\ w.pc = "next" /\ w \in TakingRow /\ taking \in [Takers -> TakingRow]
      /\ UNCHANGED <<raw, item, blob, file, temp, removing, cut>> /\ Noted
      /\ w.list \subseteq raw \cup w.stale
  BY <1>1 DEF ReadAgain, FilesInv, FilesTypes, Works, WorkOf
<1>4. m \in Mails
  BY <1>2, <1>3 DEF TakingRow
<1>5. /\ Attached[m] \subseteq Attachments /\ Bytes(m) \subseteq Hashes /\ m \notin Attachments
      /\ Bytes(m) = {m} \cup Attached[m]
  BY <1>4, MailsAndAttachments DEF Bytes
<1> DEFINE z == [w EXCEPT !.mail = m, !.left = Attached[m], !.list = @ \ {m},
                          !.does = IF m \in item THEN "compare" ELSE "insert"]
<1>6. /\ z \in TakingRow /\ z.mail = m /\ z.left = Attached[m] /\ z.list \subseteq w.list
      /\ z.stale = w.stale /\ (z.does = "compare" => m \in item)
  BY <1>3, <1>4, <1>5 DEF TakingRow
<1>7. v \in Onward(z)
  BY <1>2
<1> HIDE DEF z
<1>8. /\ v \in TakingRow
      /\ v.mail = m /\ v.does = z.does /\ v.stale = w.stale /\ v.list \subseteq w.list
      /\ \/ v.pc = "insert" /\ Attached[m] = {} /\ v.left = {}
         \/ v.pc = "put" /\ v.of \in Attached[m] /\ v.left = Attached[m] \ {v.of}
  BY <1>6, <1>7, OnwardMeans
<1>9. /\ taking'[p] = v /\ \A q \in Takers \ {p} : taking'[q] = taking[q]
      /\ taking' \in [Takers -> TakingRow]
  BY <1>1, <1>2, <1>3, <1>8
<1>10. Needs(p)' = Bytes(m) /\ Puts(p)' = {} /\ Puts(p) = {} /\ Needs(p) = {}
  BY <1>3, <1>8, <1>9 DEF Needs, Puts
<1>11. contested \subseteq contested' /\ contested' \subseteq Hashes /\ Clash' \subseteq contested'
  BY <1>1, <1>3, <1>5, <1>9, <1>10, NotedIsOfHashes
<1>12. /\ raw \subseteq Mails /\ blob \subseteq Attachments
       /\ temp \in [Hashes -> Contents] /\ file \in [Hashes -> Contents]
  BY DEF FilesInv, FilesTypes
<1>13. WorkOf(p)'
  <2>1. Done(p)' \subseteq {m}
    BY <1>5, <1>8, <1>9 DEF Done
  <2>2. \A h : h = m => Ready(h)'
    BY <1>2, <1>3, <1>5 DEF Ready
  <2>3. m \in item => \A h \in Bytes(m) : Held(h)'
    BY <1>3 DEF Held
  <2>4. /\ m \in raw' \cup v.stale /\ v.list \subseteq raw' \cup v.stale
    BY <1>2, <1>3, <1>8
  <2>5. v.does = "compare" => \A h \in Bytes(m) : Held(h)'
    BY <1>6, <1>8, <2>3
  <2>6. AtWork(p)'
    BY <1>4, <1>5, <1>8, <1>9, <2>1, <2>2, <2>4, <2>5 DEF AtWork
  <2>7. QED
    BY <1>8, <1>9, <2>4, <2>6 DEF WorkOf
<1>14. ASSUME NEW q \in Takers PROVE Puts(q)' = Puts(q)
  BY <1>9, <1>10, <1>14 DEF Puts
<1>15. Disk'
  BY <1>3, <1>11, <1>14, DiskStays
<1>16. QED
  BY <1>1, <1>3, <1>9, <1>10, <1>11, <1>12, <1>13, <1>15, GoesOnForward

\* Once its item is there, a mail's files are there for it.
LEMMA InsertKeeps ==
  ASSUME FilesInv, NEW p \in Takers, Insert(p)
  PROVE  FilesInv'
<1> USE DEF rowVars, diskVars, ghosts
<1> DEFINE w == taking[p]
           v == IF w.does = "fetch" THEN NoTaking ELSE [w EXCEPT !.pc = "next"]
<1>1. /\ w.pc = "insert" /\ w.mail \notin w.stale /\ w \in TakingRow /\ taking \in [Takers -> TakingRow]
      /\ UNCHANGED <<raw, blob, file, temp, removing, contested>>
      /\ item' = item \cup {w.mail} /\ cut' = cut \ Bytes(w.mail) /\ taking' = [taking EXCEPT ![p] = v]
      /\ WorkOf(p) /\ Busy(p)
  BY DEF Insert, InTheWay, FilesInv, FilesTypes, Works, Busy
<1>2. v \in TakingRow /\ v.pc \in {"idle", "next"} /\ v.list \subseteq raw \cup v.stale
  BY <1>1, NoWork DEF TakingRow, WorkOf
<1> HIDE DEF v
<1>3. /\ taking'[p] = v /\ \A q \in Takers \ {p} : taking'[q] = taking[q]
      /\ taking' \in [Takers -> TakingRow]
  BY <1>1, <1>2
<1>4. /\ w.mail \in raw /\ w.mail \in Mails /\ Bytes(w.mail) \subseteq Hashes
      /\ \A h \in Bytes(w.mail) \ contested : Ready(h)
      /\ Needs(p) = Bytes(w.mail) /\ Puts(p) = {} /\ Needs(p)' = {} /\ Puts(p)' = {}
  <2>1. AtWork(p) /\ Needs(p) = Bytes(w.mail) /\ Needs(p) \subseteq Hashes
    BY <1>1, WhatItNeeds, NeedsAreHashes DEF WorkOf
  <2>2. Done(p) = Bytes(w.mail)
    BY <1>1, <2>1 DEF Done, AtWork
  <2>3. QED
    BY <1>1, <1>2, <1>3, <2>1, <2>2 DEF AtWork, Needs, Puts
<1>5. \A h : Held(h)' <=> Held(h) \/ h \in Bytes(w.mail)
  BY <1>1 DEF Held
<1>6. FilesTypes'
  BY <1>1, <1>3, <1>4 DEF FilesInv, FilesTypes
<1>7. ASSUME NEW q \in Takers \ {p} PROVE WorkOf(q)' /\ Needs(q)' = Needs(q) /\ Puts(q)' = Puts(q)
  <2>1. WorkOf(q) /\ taking'[q] = taking[q]
    BY <1>3, <1>7 DEF FilesInv, Works
  <2>2. WorkOf(q)'
    BY <1>1, <1>5, <2>1, WorkStays
  <2>3. QED
    BY <2>1, <2>2 DEF Needs, Puts
<1>8. Works'
  <2>1. WorkOf(p)'
    BY <1>1, <1>2, <1>3 DEF WorkOf, Busy
  <2>2. QED
    BY <1>7, <2>1 DEF Works
<1>9. \A q \in Removers : Removes(q)' = Removes(q) /\ removing'[q] = removing[q]
  BY <1>1 DEF Removes
<1>10. Clash' \subseteq contested'
  <2>1. Clash' \subseteq Clash
    BY <1>4, <1>7, <1>9, ClashShrinks
  <2>2. QED
    BY <1>1, <2>1 DEF FilesInv
<1>11. Removal'
  <2>1. ASSUME NEW q \in Removers, NEW h \in Removes(q) \ contested PROVE ~Held(h)' /\ h \notin raw \cup blob
    <3>1. h \notin Bytes(w.mail)
      BY <1>4, <2>1, ClashMeans, NeedsAndRemovesAreHashes DEF FilesInv
    <3>2. QED
      BY <1>5, <2>1, <3>1 DEF FilesInv, Removal
  <2>2. \A q \in Removers : removing[q].pc # "files" => removing[q].left = {}
    BY DEF FilesInv, Removal
  <2>3. QED
    BY <1>1, <1>9, <2>1, <2>2 DEF Removal
<1>12. Disk'
  <2>1. ASSUME NEW h \in Hashes \ contested
        PROVE  /\ file[h] # "torn"
               /\ file[h] = "none" \/ temp[h] = "none"
               /\ temp[h] # "none" => h \in cut' \/ \E q \in Takers : h \in Puts(q)'
    <3>1. /\ file[h] # "torn"
          /\ file[h] = "none" \/ temp[h] = "none"
          /\ temp[h] # "none" => h \in cut \/ \E q \in Takers : h \in Puts(q)
      BY <2>1 DEF FilesInv, Disk
    <3>2. h \in Bytes(w.mail) => file[h] = "whole"
      BY <1>4, <2>1 DEF Ready
    <3>3. QED
      BY <1>1, <1>4, <1>7, <3>1, <3>2
  <2>2. QED
    BY <1>1, <2>1 DEF Disk
<1>13. ItemsAreWhole'
  <2>1. ASSUME NEW m \in item \cup {w.mail}
        PROVE  /\ m \in raw
               /\ \A h \in Bytes(m) \ contested : file[h] = "whole" /\ (h \in Attachments => h \in blob)
    <3>1. CASE m = w.mail
      BY <1>4, <3>1 DEF Ready
    <3>2. CASE m \in item
      BY <3>2 DEF FilesInv, ItemsAreWhole
    <3>3. QED
      BY <2>1, <3>1, <3>2
  <2>2. QED
    BY <1>1, <2>1 DEF ItemsAreWhole
<1>14. NothingLingers'
  <2>1. ASSUME NEW h \in Hashes \ (contested \cup cut'),
               file[h] # "none" \/ temp[h] # "none" \/ h \in raw \cup blob
        PROVE  \/ Held(h)'
               \/ \E q \in Takers : h \in Needs(q)'
               \/ \E q \in Removers : h \in Removes(q)
    <3>1. CASE h \in Bytes(w.mail)
      BY <1>5, <3>1
    <3>2. CASE h \notin Bytes(w.mail)
      <4>1. \/ Held(h)
            \/ \E q \in Takers : h \in Needs(q)
            \/ \E q \in Removers : h \in Removes(q)
        BY <1>1, <2>1, <3>2 DEF FilesInv, NothingLingers, Held
      <4>2. QED
        BY <1>4, <1>5, <1>7, <3>2, <4>1
    <3>3. QED
      BY <3>1, <3>2
  <2>2. QED
    BY <1>1, <1>9, <2>1 DEF NothingLingers, Held
<1>15. QED
  BY <1>6, <1>8, <1>10, <1>11, <1>12, <1>13, <1>14 DEF FilesInv

\* Rows go before files.
LEMMA RemoveRowsKeeps ==
  ASSUME FilesInv, NEW q \in Removers, NEW ms \in SUBSET Mails, NEW rows \in SUBSET Mails,
         removing[q].pc = "remove", ms \subseteq rows, (item \ ms) \cap rows = {},
         RemoveRows(q, ms, rows)
  PROVE  FilesInv'
<1> USE DEF rowVars, diskVars, ghosts
<1> DEFINE lone == Brought(ms) \ Brought(item \ ms)
           gone == rows \cup lone
<1>1. /\ item' = item \ ms /\ raw' = raw \ rows /\ blob' = blob \ lone
      /\ removing' = [r \in Removers |->
           IF r = q THEN [pc |-> "files", found |-> {}, left |-> gone]
           ELSE [removing[r] EXCEPT !.found = @ \ ms]]
      /\ taking' = [p \in Takers |->
           [taking[p] EXCEPT !.stale = @ \cup (rows \cap ({taking[p].mail} \cup taking[p].list))]]
      /\ UNCHANGED <<file, temp, cut>> /\ Noted
  BY DEF RemoveRows, OnlyTheirs, FilesOf
<1>2. /\ taking \in [Takers -> TakingRow] /\ removing \in [Removers -> RemovingRow]
      /\ raw \subseteq Mails /\ item \subseteq Mails /\ blob \subseteq Attachments
      /\ contested \subseteq Hashes
  BY DEF FilesInv, FilesTypes
<1>3. lone \subseteq Attachments /\ gone \subseteq Hashes
  BY MailsAndAttachments DEF Brought, Hashes
<1>4. \A m \in Mails : \A h : h \in Bytes(m) => h = m \/ h \in Attached[m]
  BY DEF Bytes
\* What is not removed from disk keeps an item that has it.
<1>5. ASSUME NEW h, h \notin gone PROVE Held(h) => Held(h)'
  <2>1. ASSUME NEW m \in item, h \in Bytes(m) PROVE Held(h)'
    <3>1. CASE m \notin ms
      BY <1>1, <2>1, <3>1 DEF Held
    <3>2. CASE m \in ms
      <4>1. h # m
        BY <1>5, <3>2
      <4>2. h \in Attached[m]
        BY <1>2, <1>4, <2>1, <4>1
      <4>3. h \in Brought(ms)
        BY <3>2, <4>2 DEF Brought
      <4>4. h \in Brought(item \ ms)
        BY <1>5, <4>3
      <4>5. PICK n \in item \ ms : h \in Attached[n]
        BY <4>4 DEF Brought
      <4>6. n \in item' /\ h \in Bytes(n)
        BY <1>1, <4>5 DEF Bytes
      <4>7. QED
        BY <4>6 DEF Held
    <3>3. QED
      BY <3>1, <3>2
  <2>2. QED
    BY <2>1 DEF Held
<1>6. \A h : Held(h)' => Held(h) /\ h \notin gone
  <2>1. ASSUME NEW m \in item \ ms, NEW h \in Bytes(m) PROVE h \notin gone
    <3>1. m \notin rows /\ m \in Mails
      BY <1>2, <2>1
    <3>2. h \notin rows
      BY <1>4, <2>1, <3>1, MailsAndAttachments
    <3>3. h \notin lone
      <4>1. CASE h = m
        BY <1>3, <3>1, <4>1, MailsAndAttachments
      <4>2. CASE h \in Attached[m]
        BY <2>1, <4>2 DEF Brought
      <4>3. QED
        BY <1>4, <2>1, <3>1, <4>1, <4>2
    <3>4. QED
      BY <3>2, <3>3
  <2>2. QED
    BY <1>1, <2>1 DEF Held
<1> HIDE DEF lone
<1>7. /\ Removes(q)' = gone /\ removing'[q].pc = "files" /\ Removes(q) = {}
      /\ \A r \in Removers \ {q} : Removes(r)' = Removes(r) /\ removing'[r].pc = removing[r].pc
           /\ removing'[r].left = removing[r].left
  BY <1>1, <1>2 DEF Removes, RemovingRow, FilesInv, Removal
<1>8. removing' \in [Removers -> RemovingRow]
  <2>1. ASSUME NEW r \in Removers PROVE removing'[r] \in RemovingRow
    BY <1>1, <1>2, <1>3, <2>1 DEF RemovingRow
  <2>2. QED
    BY <1>1, <2>1
<1>9. ASSUME NEW p \in Takers
      PROVE  /\ taking'[p] \in TakingRow /\ taking'[p].pc = taking[p].pc /\ taking'[p].mail = taking[p].mail
             /\ taking'[p].does = taking[p].does /\ taking'[p].of = taking[p].of
             /\ taking'[p].left = taking[p].left /\ taking'[p].list = taking[p].list
             /\ taking'[p].stale = taking[p].stale \cup (rows \cap ({taking[p].mail} \cup taking[p].list))
  <2>1. taking[p] \in TakingRow
    BY <1>2
  <2>2. taking'[p] = [taking[p] EXCEPT !.stale = @ \cup (rows \cap ({taking[p].mail} \cup taking[p].list))]
    BY <1>1
  <2>3. QED
    BY <2>1, <2>2 DEF TakingRow
<1>10. \A p \in Takers : Needs(p)' = Needs(p) /\ Puts(p)' = Puts(p)
  BY <1>9 DEF Needs, Puts
<1>11. contested \subseteq contested' /\ contested' \subseteq Hashes /\ Clash' \subseteq contested'
  <2>1. "core" \in Takers
    BY DEF Takers
  <2>2. Puts("core")' \subseteq Hashes
    BY <1>10, <2>1, WhatItNeeds, NeedsAndRemovesAreHashes DEF FilesInv, Works
  <2>3. QED
    BY <1>1, <1>2, <2>2, ClashIsOfHashes DEF Noted
<1>12. ASSUME NEW p \in Takers PROVE Needs(p) \cap gone \subseteq contested'
  <2>1. \A r \in Removers : Removes(r)' \subseteq Hashes
    BY <1>3, <1>7, NeedsAndRemovesAreHashes
  <2>2. Needs(p)' \cap Removes(q)' \subseteq Clash'
    BY <1>12, <2>1, ClashMeansAfter
  <2>3. QED
    BY <1>7, <1>10, <1>11, <1>12, <2>2
<1>13. FilesTypes'
  <2>1. taking' \in [Takers -> TakingRow]
    BY <1>1, <1>9
  <2>2. QED
    BY <1>1, <1>8, <1>11, <2>1 DEF FilesInv, FilesTypes
<1>14. ASSUME NEW p \in Takers PROVE WorkOf(p)'
  <2>1. WorkOf(p)
    BY DEF FilesInv, Works
  <2>2. /\ taking'[p].list \subseteq raw' \cup taking'[p].stale
        /\ taking[p].mail \in raw \cup taking[p].stale => taking'[p].mail \in raw' \cup taking'[p].stale
    BY <1>1, <1>9, <2>1 DEF WorkOf
  <2>3. ASSUME Busy(p) PROVE AtWork(p)'
    <3>1. AtWork(p) /\ Needs(p) = Bytes(taking[p].mail)
      BY <2>1, <2>3, WhatItNeeds DEF WorkOf
    <3>2. Done(p)' = Done(p) /\ Done(p) \subseteq Needs(p)
      BY <1>9, <3>1 DEF Done
    <3>3. \A h \in Needs(p) \ contested' : (Ready(h) => Ready(h)') /\ (Held(h) => Held(h)')
      <4>1. ASSUME NEW h \in Needs(p) \ contested' PROVE (Ready(h) => Ready(h)') /\ (Held(h) => Held(h)')
        <5>1. h \notin gone
          BY <1>12, <4>1
        <5>2. QED
          BY <1>1, <1>5, <5>1 DEF Ready
      <4>2. QED
        BY <4>1
    <3>4. \A h \in Done(p)' \ contested' : Ready(h)'
      BY <1>11, <3>1, <3>2, <3>3 DEF AtWork
    <3>5. taking[p].does = "compare" => \A h \in Bytes(taking[p].mail) \ contested' : Held(h)'
      BY <1>11, <3>1, <3>3 DEF AtWork
    <3>6. /\ taking[p].pc = "record" => taking[p].of \in contested' \/ file'[taking[p].of] = "whole"
          /\ taking[p].pc = "write" => taking[p].of \in contested' \/ temp'[taking[p].of] # "none"
          /\ taking[p].pc = "rename" => taking[p].of \in contested' \/ temp'[taking[p].of] = "whole"
          /\ taking[p].pc \in {"moved", "lost"} => taking[p].of \in contested'
      BY <1>1, <1>11, <3>1 DEF AtWork
    <3>7. QED
      BY <1>9, <2>2, <3>1, <3>4, <3>5, <3>6 DEF AtWork
  <2>4. Busy(p)' => Busy(p)
    BY <1>9 DEF Busy
  <2>5. taking'[p].pc = "keep" => taking'[p].mail \in Mails /\ taking'[p].list = {} /\ taking'[p].does = "fetch"
    BY <1>9, <2>1 DEF WorkOf
  <2>6. QED
    BY <2>2, <2>3, <2>4, <2>5 DEF WorkOf
<1>15. Removal'
  <2>1. ASSUME NEW r \in Removers, NEW h \in Removes(r)' \ contested' PROVE ~Held(h)' /\ h \notin raw' \cup blob'
    <3>1. CASE r = q
      <4>1. h \in gone
        BY <1>7, <2>1, <3>1
      <4>2. h \notin raw' \cup blob'
        <5>1. CASE h \in rows
          BY <1>1, <1>2, <5>1, MailsAndAttachments
        <5>2. CASE h \in lone
          BY <1>1, <1>2, <1>3, <5>2, MailsAndAttachments
        <5>3. QED
          BY <4>1, <5>1, <5>2
      <4>3. QED
        BY <1>6, <4>1, <4>2
    <3>2. CASE r # q
      <4>1. h \in Removes(r) /\ h \notin contested
        BY <1>7, <1>11, <2>1, <3>2
      <4>2. ~Held(h) /\ h \notin raw \cup blob
        BY <4>1 DEF FilesInv, Removal
      <4>3. QED
        BY <1>1, <1>6, <4>2
    <3>3. QED
      BY <3>1, <3>2
  <2>2. ASSUME NEW r \in Removers PROVE removing'[r].pc # "files" => removing'[r].left = {}
    BY <1>7, <2>2 DEF FilesInv, Removal
  <2>3. QED
    BY <2>1, <2>2 DEF Removal
<1>16. Disk'
  BY <1>1, <1>10, <1>11, DiskStays
<1>17. ItemsAreWhole'
  <2>1. ASSUME NEW m \in item' PROVE m \in raw'
    BY <1>1, <2>1 DEF FilesInv, ItemsAreWhole
  <2>2. ASSUME NEW m \in item', NEW h \in Bytes(m) \ contested'
        PROVE  file'[h] = "whole" /\ (h \in Attachments => h \in blob')
    <3>1. m \in item
      BY <1>1, <2>2
    <3>2. Held(h)'
      BY <2>2 DEF Held
    <3>3. h \notin gone
      BY <1>6, <3>2
    <3>4. file[h] = "whole" /\ (h \in Attachments => h \in blob)
      BY <1>11, <2>2, <3>1 DEF FilesInv, ItemsAreWhole
    <3>5. QED
      BY <1>1, <3>3, <3>4
  <2>3. QED
    BY <2>1, <2>2 DEF ItemsAreWhole
<1>18. NothingLingers'
  <2>1. ASSUME NEW h \in Hashes \ (contested' \cup cut),
               file[h] # "none" \/ temp[h] # "none" \/ h \in raw' \cup blob'
        PROVE  \/ Held(h)'
               \/ \E p \in Takers : h \in Needs(p)'
               \/ \E r \in Removers : h \in Removes(r)'
    <3>1. file[h] # "none" \/ temp[h] # "none" \/ h \in raw \cup blob
      BY <1>1, <2>1
    <3>2. \/ Held(h)
          \/ \E p \in Takers : h \in Needs(p)
          \/ \E r \in Removers : h \in Removes(r)
      BY <1>11, <2>1, <3>1 DEF FilesInv, NothingLingers, Held
    <3>3. QED
      BY <1>5, <1>7, <1>10, <3>2
  <2>2. QED
    BY <1>1, <2>1 DEF NothingLingers, Held
<1>19. QED
  BY <1>11, <1>13, <1>14, <1>15, <1>16, <1>17, <1>18 DEF FilesInv, Works

LEMMA RemovingKeeps ==
  ASSUME FilesInv, RemoveJunk \/ Purge
  PROVE  FilesInv'
<1>1. /\ raw \subseteq Mails /\ item \subseteq Mails /\ item \subseteq raw
      /\ removing \in [Removers -> RemovingRow]
  BY DEF FilesInv, FilesTypes, ItemsAreWhole
<1>2. "page" \in Removers /\ "command" \in Removers
  BY DEF Removers
<1>3. CASE RemoveJunk
  <2> DEFINE ms == removing["page"].found
  <2>1. ms \in SUBSET Mails /\ removing["page"].pc = "remove" /\ RemoveRows("page", ms, ms)
    BY <1>1, <1>2, <1>3 DEF RemoveJunk, RemovingRow
  <2>2. ms \subseteq ms /\ (item \ ms) \cap ms = {}
    OBVIOUS
  <2>3. QED
    BY <1>2, <2>1, <2>2, RemoveRowsKeeps
<1>4. CASE Purge
  <2>1. removing["command"].pc = "remove" /\ RemoveRows("command", item, raw)
    BY <1>4 DEF Purge
  <2>2. item \in SUBSET Mails /\ raw \in SUBSET Mails /\ item \subseteq raw /\ (item \ item) \cap raw = {}
    BY <1>1
  <2>3. QED
    BY <1>2, <2>1, <2>2, RemoveRowsKeeps
<1>5. QED
  BY <1>3, <1>4

LEMMA RemoveFileKeeps ==
  ASSUME FilesInv, NEW q \in Removers, RemoveFile(q)
  PROVE  FilesInv'
<1> USE DEF rowVars, diskVars, ghosts
<1>1. PICK h \in removing[q].left :
        /\ file' = [file EXCEPT ![h] = "none"]
        /\ removing' = [removing EXCEPT ![q].left = @ \ {h}]
        /\ taking' = [p \in Takers |->
             IF taking[p].pc = "moved" /\ taking[p].of = h THEN [taking[p] EXCEPT !.pc = "lost"] ELSE taking[p]]
        /\ cut' = IF temp[h] = "none" THEN cut \ {h} ELSE cut
        /\ UNCHANGED <<raw, item, blob, temp, contested>>
  BY DEF RemoveFile
<1>2. /\ taking \in [Takers -> TakingRow] /\ removing \in [Removers -> RemovingRow]
      /\ file \in [Hashes -> Contents] /\ cut \subseteq Hashes
  BY DEF FilesInv, FilesTypes
<1>3. h \in Hashes /\ h \in Removes(q)
  BY <1>1, NeedsAndRemovesAreHashes DEF Removes
<1>4. h \in contested \/ (~Held(h) /\ h \notin raw \cup blob)
  BY <1>3 DEF FilesInv, Removal
<1>5. file' \in [Hashes -> Contents] /\ file'[h] = "none" /\ \A g \in Hashes \ {h} : file'[g] = file[g]
  BY <1>1, <1>2, <1>3 DEF Contents
<1>6. /\ removing' \in [Removers -> RemovingRow]
      /\ Removes(q)' = Removes(q) \ {h} /\ removing'[q].pc = removing[q].pc
      /\ \A r \in Removers \ {q} : removing'[r] = removing[r] /\ Removes(r)' = Removes(r)
  <2> DEFINE z == [removing[q] EXCEPT !.left = @ \ {h}]
  <2>1. z \in RemovingRow /\ z.pc = removing[q].pc /\ z.left = removing[q].left \ {h}
    BY <1>2 DEF RemovingRow
  <2>2. removing' = [removing EXCEPT ![q] = z]
    BY <1>1, <1>2
  <2> HIDE DEF z
  <2>3. removing' \in [Removers -> RemovingRow] /\ removing'[q] = z /\ \A r \in Removers \ {q} : removing'[r] = removing[r]
    BY <1>2, <2>1, <2>2
  <2>4. QED
    BY <2>1, <2>3 DEF Removes
<1>7. \A g : Held(g)' <=> Held(g)
  BY <1>1 DEF Held
<1>8. ASSUME NEW p \in Takers
      PROVE  WorkOf(p)' /\ Needs(p)' = Needs(p) /\ Puts(p)' = Puts(p) /\ taking'[p] \in TakingRow
  <2>1. WorkOf(p) /\ taking[p] \in TakingRow /\ Needs(p) \subseteq Hashes
    BY <1>2, NeedsAndRemovesAreHashes DEF FilesInv, Works
  <2>2. Needs(p) \cap Removes(q) \subseteq contested
    BY NeedsAndRemovesAreHashes, ClashMeans DEF FilesInv
  <2>3. \A g \in Needs(p) \ contested : g # h /\ file'[g] = file[g]
    BY <1>3, <1>5, <2>1, <2>2
  <2>4. \A g \in Needs(p) \ contested : Ready(g) => Ready(g)'
    BY <1>1, <2>3 DEF Ready
  <2>5. CASE taking[p].pc = "moved" /\ taking[p].of = h
    <3>1. taking'[p] = [taking[p] EXCEPT !.pc = "lost"]
      BY <1>1, <2>5
    <3>2. taking[p].of \in contested
      BY <2>1, <2>5 DEF WorkOf, AtWork, Busy
    <3>3. QED
      BY <1>1, <2>1, <2>4, <2>5, <3>1, <3>2, OvertakenStays
  <2>6. CASE ~(taking[p].pc = "moved" /\ taking[p].of = h)
    <3>1. taking'[p] = taking[p]
      BY <1>1, <2>6
    <3>2. WorkOf(p)'
      BY <1>1, <1>7, <2>1, <2>3, <3>1, WorkStays
    <3>3. QED
      BY <2>1, <3>1, <3>2 DEF Needs, Puts
  <2>7. QED
    BY <2>5, <2>6
<1>9. FilesTypes'
  <2>1. taking' \in [Takers -> TakingRow]
    BY <1>1, <1>8
  <2>2. cut' \subseteq Hashes
    BY <1>1, <1>2
  <2>3. QED
    BY <1>1, <1>5, <1>6, <2>1, <2>2 DEF FilesInv, FilesTypes
<1>10. Clash' \subseteq contested'
  <2>1. Clash' \subseteq Clash
    BY <1>6, <1>8, ClashShrinks
  <2>2. QED
    BY <1>1, <2>1 DEF FilesInv
<1>11. Removal'
  BY <1>1, <1>6, <1>7 DEF FilesInv, Removal, Removes
<1>12. Disk'
  <2>1. ASSUME NEW g \in Hashes \ contested
        PROVE  /\ file'[g] # "torn"
               /\ file'[g] = "none" \/ temp[g] = "none"
               /\ temp[g] # "none" => g \in cut' \/ \E p \in Takers : g \in Puts(p)'
    <3>1. /\ file[g] # "torn"
          /\ file[g] = "none" \/ temp[g] = "none"
          /\ temp[g] # "none" => g \in cut \/ \E p \in Takers : g \in Puts(p)
      BY <2>1 DEF FilesInv, Disk
    <3>2. QED
      BY <1>1, <1>5, <1>8, <2>1, <3>1
  <2>2. QED
    BY <1>1, <2>1 DEF Disk
<1>13. ItemsAreWhole'
  <2>1. ASSUME NEW m \in item, NEW g \in Bytes(m) \ contested
        PROVE  file'[g] = "whole" /\ (g \in Attachments => g \in blob)
    <3>1. file[g] = "whole" /\ (g \in Attachments => g \in blob)
      BY <2>1 DEF FilesInv, ItemsAreWhole
    <3>2. g # h
      BY <1>4, <2>1 DEF Held
    <3>3. g \in Hashes
      BY <2>1, MailsAndAttachments DEF FilesInv, FilesTypes
    <3>4. QED
      BY <1>5, <3>1, <3>2, <3>3
  <2>2. QED
    BY <1>1, <2>1 DEF FilesInv, ItemsAreWhole
<1>14. NothingLingers'
  <2>1. ASSUME NEW g \in Hashes \ (contested \cup cut'),
               file'[g] # "none" \/ temp[g] # "none" \/ g \in raw \cup blob
        PROVE  \/ Held(g)
               \/ \E p \in Takers : g \in Needs(p)
               \/ \E r \in Removers : g \in Removes(r)'
    <3>1. CASE g = h
      <4>1. temp[h] # "none"
        BY <1>4, <1>5, <2>1, <3>1
      <4>2. h \notin cut
        BY <1>1, <2>1, <3>1, <4>1
      <4>3. \E p \in Takers : h \in Puts(p)
        BY <1>3, <2>1, <3>1, <4>1, <4>2 DEF FilesInv, Disk
      <4>4. QED
        BY <3>1, <4>3, WhatItNeeds DEF FilesInv, Works
    <3>2. CASE g # h
      <4>1. file[g] # "none" \/ temp[g] # "none" \/ g \in raw \cup blob
        BY <1>5, <2>1, <3>2
      <4>2. g \notin cut
        BY <1>1, <2>1, <3>2
      <4>3. \/ Held(g)
            \/ \E p \in Takers : g \in Needs(p)
            \/ \E r \in Removers : g \in Removes(r)
        BY <2>1, <4>1, <4>2 DEF FilesInv, NothingLingers, Held
      <4>4. QED
        BY <1>6, <3>2, <4>3
    <3>3. QED
      BY <3>1, <3>2
  <2>2. temp' = temp /\ raw' = raw /\ blob' = blob /\ item' = item /\ contested' = contested
    BY <1>1
  <2>3. \A p \in Takers : Needs(p)' = Needs(p)
    BY <1>8
  <2>4. ASSUME NEW g \in Hashes \ (contested' \cup cut'),
               file'[g] # "none" \/ temp'[g] # "none" \/ g \in raw' \cup blob'
        PROVE  \/ \E m \in item' : g \in Bytes(m)
               \/ \E p \in Takers : g \in Needs(p)'
               \/ \E r \in Removers : g \in Removes(r)'
    BY <2>1, <2>2, <2>3, <2>4 DEF Held
  <2>5. QED
    BY ONLY <2>4 DEF NothingLingers
<1>15. QED
  BY <1>8, <1>9, <1>10, <1>11, <1>12, <1>13, <1>14 DEF FilesInv, Works

-----------------------------------------------------------------------------
(* Every step.                                                             *)

LEMMA FilesStart ==
  ASSUME Init
  PROVE  FilesInv
<1>1. FilesTypes
  <2>1. taking \in [Takers -> TakingRow] /\ removing \in [Removers -> RemovingRow]
    BY NoWork DEF Init
  <2>2. file \in [Hashes -> Contents] /\ temp \in [Hashes -> Contents]
    BY DEF Init, Contents
  <2>3. QED
    BY <2>1, <2>2 DEF Init, FilesTypes
<1>2. \A p \in Takers : taking[p] = NoTaking /\ taking[p].pc = "idle" /\ taking[p].list = {}
  BY NoWork DEF Init
<1>3. \A q \in Removers : removing[q].pc = "idle" /\ removing[q].left = {}
  BY NoWork DEF Init
<1>4. Works
  BY <1>2 DEF Works, WorkOf, Busy
<1>5. Removal
  BY <1>3 DEF Removal, Removes
<1>6. Disk
  BY DEF Init, Disk
<1>7. Clash = {}
  <2>1. "core" \in Takers
    BY DEF Takers
  <2>2. Puts("core") = {}
    BY <1>2, <2>1 DEF Puts
  <2>3. \A q \in Removers : Removes(q) = {}
    BY <1>3 DEF Removes
  <2>4. QED
    BY <2>2, <2>3 DEF Clash
<1>8. ItemsAreWhole /\ NothingLingers
  BY DEF Init, ItemsAreWhole, NothingLingers
<1>9. QED
  BY <1>1, <1>4, <1>5, <1>6, <1>7, <1>8 DEF FilesInv

LEMMA TakersKeep ==
  ASSUME FilesInv, NEW p \in Takers, Take(p)
  PROVE  FilesInv'
<1>1. CASE Has(p) \/ Record(p) \/ Open(p) \/ Write(p) \/ Rename(p)
  BY <1>1, HasGoesOn, RecordGoesOn, OpenGoesOn, WriteGoesOn, RenameGoesOn, ForwardKeeps
<1>2. CASE KeepRaw(p)
  <2>1. CASE taking[p].mail \in raw
    BY <1>2, <2>1, TakersAreCalm, CalmKeeps
  <2>2. CASE taking[p].mail \notin raw
    BY <1>2, <2>2, KeepRawGoesOn, ForwardKeeps
  <2>3. QED
    BY <2>1, <2>2
<1>3. CASE Insert(p)
  BY <1>3, InsertKeeps
<1>4. CASE (\E m \in Mails : TakeIn(p, m)) \/ RenameFails(p) \/ InsertFails(p) \/ TakingFails(p)
  BY <1>4, TakersAreCalm, CalmKeeps
<1>5. QED
  BY <1>1, <1>2, <1>3, <1>4 DEF Take

LEMMA FilesStay ==
  ASSUME FilesInv, [Next]_filesVars
  PROVE  FilesInv'
<1>1. ASSUME NEW p \in Takers, Take(p) PROVE FilesInv'
  BY <1>1, TakersKeep
<1>2. CASE Reread
  <2>1. CASE ReadAgain
    <3>1. "command" \in Takers
      BY DEF Takers
    <3>2. QED
      BY <2>1, <3>1, ReadAgainGoesOn, ForwardKeeps
  <2>2. CASE Reprocess \/ ReadingEnds \/ Unchanged
    BY <2>2, RereadIsCalm, CalmKeeps
  <2>3. QED
    BY <1>2, <2>1, <2>2 DEF Reread
<1>3. CASE Remove
  <2>1. CASE RemoveJunk \/ Purge
    BY <2>1, RemovingKeeps
  <2>2. ASSUME NEW q \in Removers, RemoveFile(q) PROVE FilesInv'
    BY <2>2, RemoveFileKeeps
  <2>3. CASE \/ FindJunk \/ PurgeAsks \/ PurgeDeclined \/ PurgeEnds \/ MarkJunk \/ RestoreJunk
             \/ \E q \in Removers : FileStays(q)
    BY <2>3, RemoversAreCalm, CalmKeeps
  <2>4. QED
    BY <1>3, <2>1, <2>2, <2>3 DEF Remove
<1>4. CASE CoreStarts \/ CoreStops \/ CommandKilled \/ UNCHANGED filesVars
  BY <1>4, ProcessesAreCalm, CalmKeeps
<1>5. QED
  BY <1>1, <1>2, <1>3, <1>4 DEF Next

\* Every variable keeps its type, whatever is taken in, read again, removed or
\* cut short: Files.
THEOREM FilesKeepTheirTypes == FilesSpec => []FilesTypes
<1>1. FilesInv => FilesTypes
  BY DEF FilesInv
<1>2. QED
  BY <1>1, FilesStart, FilesStay, PTL DEF FilesSpec

\* An item has its raw record, its attachments' rows and whole files for all of
\* them, but for the files that two were at: store and ingest, whoever stops when.
THEOREM ItemsStayWhole == FilesSpec => []ItemsAreWhole
<1>1. FilesInv => ItemsAreWhole
  BY DEF FilesInv
<1>2. QED
  BY <1>1, FilesStart, FilesStay, PTL DEF FilesSpec

\* What no item has is on its way in or on its way out, but for what somebody
\* was cut short at or two were at: junk.rs and purge.rs leave nothing behind.
THEOREM NothingStaysBehind == FilesSpec => []NothingLingers
<1>1. FilesInv => NothingLingers
  BY DEF FilesInv
<1>2. QED
  BY <1>1, FilesStart, FilesStay, PTL DEF FilesSpec

\* A file that one process alone is at is never half written, nor written over:
\* it and the file beside it are never both there.
THEOREM FilesAreNeverTorn == FilesSpec => []Disk
<1>1. FilesInv => Disk
  BY DEF FilesInv
<1>2. QED
  BY <1>1, FilesStart, FilesStay, PTL DEF FilesSpec

-----------------------------------------------------------------------------
(* Passes: the invariant.                                                  *)

NoteRow == [rule : BOOLEAN, model : SUBSET Levels, user : SUBSET Levels, sorted : BOOLEAN, read : BOOLEAN]
ItemRow == [level : Levels, category : {"unsorted", "rule", "said"}]
Answers == UNION {[ms -> SUBSET Levels] : ms \in SUBSET Mails}

Classifying == {"list", "judge", "settle", "write", "ask", "asked", "label"}
Reading == {"set aside", "read", "reading", "keep", "mark"}

PassRow ==
  [at : {"asleep", "count", "promises"} \cup Sorting \cup Classifying \cup Reading,
   todo : SUBSET Mails, pending : SUBSET Mails, of : Mails \cup {"none"}, saw : Levels,
   back : {"none", "judge", "label"}, answer : Answers, word : {"unread", "rule", "said"},
   gone : SUBSET Mails, counted : Nat]

PageRow ==
  [at : {"idle", "noted", "seen", "sender", "each", "each write"}, of : Mails \cup {"none"},
   saw : Levels, left : SUBSET Mails, gone : SUBSET Mails]

PassesTypes ==
  /\ item \subseteq Mails
  /\ note \in [Mails -> NoteRow] /\ cache \in [Mails -> ItemRow]
  /\ promise \in [Mails -> SUBSET {"open", "rejected", "stray"}]
  /\ said \in BOOLEAN /\ judgedAt \in SUBSET Nat /\ shrunk \in BOOLEAN
  /\ pass \in PassRow /\ page \in PageRow

Standing == {"open", "rejected"}

\* About a mail without an item nothing is noted.
Fresh ==
  \A m \in Mails \ item : note[m] = NoNote /\ cache[m] = NewItem /\ promise[m] \cap Standing = {}

\* The machine's judgement is never below the rules'.
ModelRaises == \A m \in Mails : \A l \in note[m].model : l >= Floor[m]

Labelling == pass.at = "label" \/ (pass.at \in {"settle", "write"} /\ pass.back = "label")

\* What a pass is still to do it listed, and is there or known to be gone; what
\* it is about to write is what is noted, or is known to be left behind.
PassListed ==
  /\ (pass.todo \cup pass.pending) \ pass.gone \subseteq item
  /\ pass.at \in {"sort note", "sort write", "settle", "write"} =>
       pass.of \in Mails /\ pass.of \in item \cup pass.gone
  /\ pass.at \in {"settle", "write"} => pass.back \in {"judge", "label"}
  /\ pass.at \in Reading => pass.todo \cap pass.pending = {}
  /\ pass.at = "keep" => DOMAIN pass.answer \subseteq pass.todo
  /\ Labelling => pass.todo \subseteq DOMAIN pass.answer
  /\ pass.at \in {"asleep", "ask", "read"} => pass.todo = {}
  /\ pass.at \in {"asleep", "list"} => pass.pending = {}

PassWrites ==
  /\ \A m \in Mails : pass.at = "write" /\ m = pass.of /\ m \notin pass.gone =>
       pass.saw = Effective(m) \/ <<m, "level">> \in behind
  /\ pass.at \in {"sort note", "sort write"} /\ pass.of \in Sender => pass.word # "unread"
  /\ pass.at \in Sorting /\ pass.word = "said" => said
  /\ pass.at \in Sorting /\ pass.word = "rule" /\ said =>
       \A m \in Sender \ pass.gone :
         m \in pass.todo \/ (m = pass.of /\ pass.at # "sort") => <<m, "category">> \in behind

PassAtWork == PassListed /\ PassWrites

PageAtWork ==
  /\ \A m \in Mails : page.at \in {"noted", "seen"} /\ m = page.of /\ m \notin page.gone =>
       m \in item /\ note[m].user # {} /\ (page.at = "seen" => page.saw = Effective(m))
  /\ page.at \in {"noted", "seen", "each write"} => page.of \in Mails
  /\ page.at \in {"sender", "each", "each write"} => said
  /\ page.at \in {"each", "each write"} => page.left \subseteq Sender /\ page.left \ page.gone \subseteq item
  /\ page.at = "each write" => page.of \in page.left

\* Items only came in since they were counted, unless it is noted that some went.
Counting ==
  /\ IsFiniteSet(item) /\ \A n, k \in judgedAt : n = k
  /\ ~shrunk => \A n \in judgedAt : n <= Cardinality(item)
  /\ pass.at \in Classifying /\ ~shrunk => \A n \in judgedAt : n < Cardinality(item)

PassSettles(m) == pass.at \in {"settle", "write"} /\ pass.of = m /\ m \notin pass.gone
PageSettles(m) == page.at \in {"noted", "seen"} /\ page.of = m /\ m \notin page.gone

LevelFine(m) ==
  \/ cache[m].level = Effective(m) \/ <<m, "level">> \in behind
  \/ PassSettles(m) \/ PageSettles(m)

Judged(m) == note[m].rule /\ (ByRule(m) \/ note[m].model # {} \/ m \in silent)

InTurn ==
  pass.pending \cup (IF pass.at = "asked" \/ Labelling THEN pass.todo ELSE {})

\* As long as nothing went, a classification has judged all it listed but what it
\* still has before it, and it listed as many as it counted or more.
Listed(ms) ==
  /\ \A m \in ms \ (pass.todo \cup pass.pending) : Judged(m) /\ LevelFine(m)
  /\ \A m \in InTurn : note[m].rule

Progress ==
  pass.at \in Classifying /\ pass.gone = {} =>
    \E ms \in SUBSET item : Cardinality(ms) >= pass.counted /\ (pass.at # "list" /\ Few => Listed(ms))

LevelsFine == \A m \in item : LevelFine(m) \/ (note[m].model = {} /\ ~UpToDate)

PassSorts(m) == pass.at = "sort write" /\ pass.of = m /\ m \notin pass.gone
PageSorts(m) ==
  \/ page.at = "sender" /\ m \in Sender \ page.gone
  \/ page.at \in {"each", "each write"} /\ m \in page.left \ page.gone

SortFine(m) ==
  \/ cache[m].category = Category(m) \/ <<m, "category">> \in behind
  \/ PassSorts(m) \/ PageSorts(m)

CategoriesFine == \A m \in item : note[m].sorted => SortFine(m)

\* What a pass has read and is still to mark as read, and what it has before it.
Marking(m) == pass.at \in {"keep", "mark"} /\ m \in pass.todo \ pass.gone
Coming ==
  pass.pending \cup (IF pass.at = "reading" THEN pass.todo
                     ELSE IF pass.at = "keep" THEN DOMAIN pass.answer ELSE {})

PromisesKept ==
  /\ \A m \in Mails : "rejected" \in promise[m] /\ m \notin again => "open" \notin promise[m]
  /\ \A m \in item : promise[m] \cap Standing # {} => note[m].read \/ m \in again \/ Marking(m)
  /\ pass.at \in Reading => \A m \in Coming \ pass.gone :
       ~note[m].read /\ (promise[m] \cap Standing # {} => m \in again)

PassesInv ==
  /\ PassesTypes /\ Fresh /\ ModelRaises /\ PassAtWork /\ PageAtWork /\ Counting /\ Progress
  /\ LevelsFine /\ CategoriesFine /\ PromisesKept /\ AllJudged

-----------------------------------------------------------------------------
(* What judgements add up to.                                              *)

LEMMA MaxIsThere ==
  ASSUME NEW S \in SUBSET Levels, S # {}
  PROVE  Max(S) \in S /\ \A l \in S : Max(S) >= l
<1>1. \E x \in S : \A y \in S : x >= y
  <2>1. \A x \in S : x = 0 \/ x = 1 \/ x = 2
    BY DEF Levels, Public, Personal, Secret
  <2>2. CASE 2 \in S
    BY <2>1, <2>2
  <2>3. CASE 2 \notin S /\ 1 \in S
    BY <2>1, <2>3
  <2>4. CASE 2 \notin S /\ 1 \notin S
    <3>1. 0 \in S /\ \A y \in S : y = 0
      BY <2>1, <2>4
    <3>2. QED
      BY <3>1
  <2>5. QED
    BY <2>2, <2>3, <2>4
<1>2. QED
  BY <1>1 DEF Max

LEMMA MaxIs ==
  ASSUME NEW S \in SUBSET Levels, NEW x \in S, \A l \in S : x >= l
  PROVE  Max(S) = x
<1>1. Max(S) \in S /\ \A l \in S : Max(S) >= l
  BY MaxIsThere
<1>2. \A l \in Levels : l \in Int
  BY DEF Levels, Public, Personal, Secret
<1>3. QED
  BY <1>1, <1>2

LEMMA EffectiveIsALevel ==
  ASSUME PassesTypes, NEW m \in Mails
  PROVE  Effective(m) \in Levels
<1>1. note[m].user \in SUBSET Levels /\ note[m].model \in SUBSET Levels /\ Floor[m] \in Levels
  BY PassesAssumption DEF PassesTypes, NoteRow
<1> DEFINE machine == note[m].model \cup (IF note[m].rule THEN {Floor[m]} ELSE {})
<1>2. machine \in SUBSET Levels
  BY <1>1
<1>3. Effective(m) = IF note[m].user # {} THEN Max(note[m].user)
                     ELSE IF machine # {} THEN Max(machine) ELSE Personal
  BY DEF Effective
<1>4. Personal \in Levels
  BY DEF Levels
<1> HIDE DEF machine
<1>5. QED
  BY <1>1, <1>2, <1>3, <1>4, MaxIsThere

LEMMA EffectiveStays ==
  ASSUME NEW m, note'[m].user = note[m].user,
         note[m].user # {} \/ (note'[m].model = note[m].model /\ note'[m].rule = note[m].rule)
  PROVE  Effective(m)' = Effective(m)
BY DEF Effective

LEMMA NothingSaidIsPersonal ==
  ASSUME NEW m, note[m] = NoNote
  PROVE  Effective(m) = Personal
BY DEF Effective, NoNote

LEMMA NothingSaidIsPersonalAfter ==
  ASSUME NEW m, note'[m] = NoNote
  PROVE  Effective(m)' = Personal
BY DEF Effective, NoNote

\* Its rule changes nothing where the model has spoken, or where the rules leave it
\* to the model.
LEMMA RuleChangesNothing ==
  ASSUME PassesTypes, ModelRaises, NEW m \in Mails, note'[m].user = note[m].user,
         note'[m].model = note[m].model, note'[m].rule = TRUE,
         note[m].model # {} \/ ~ByRule(m)
  PROVE  Effective(m)' = Effective(m)
<1>1. note[m].user \in SUBSET Levels /\ note[m].model \in SUBSET Levels /\ Floor[m] \in Levels /\ note[m].rule \in BOOLEAN
  BY PassesAssumption DEF PassesTypes, NoteRow
<1>2. CASE note[m].user # {} \/ note[m].rule
  BY <1>1, <1>2, EffectiveStays DEF Effective
<1>3. CASE note[m].user = {} /\ ~note[m].rule /\ note[m].model # {}
  <2>1. Effective(m) = Max(note[m].model) /\ Effective(m)' = Max(note[m].model \cup {Floor[m]})
    BY <1>3 DEF Effective
  <2>2. Max(note[m].model) \in note[m].model /\ \A l \in note[m].model : Max(note[m].model) >= l
    BY <1>1, <1>3, MaxIsThere
  <2>3. Max(note[m].model) >= Floor[m]
    BY <2>2 DEF ModelRaises
  <2>4. Max(note[m].model \cup {Floor[m]}) = Max(note[m].model)
    BY <1>1, <2>2, <2>3, MaxIs
  <2>5. QED
    BY <2>1, <2>4
<1>4. CASE note[m].user = {} /\ ~note[m].rule /\ note[m].model = {}
  <2>1. Floor[m] = Personal
    BY <1>4, PassesAssumption DEF ByRule
  <2>2. Effective(m) = Personal /\ Effective(m)' = Max({Personal})
    BY <1>4, <2>1 DEF Effective
  <2>3. Max({Personal}) = Personal
    BY MaxIs DEF Levels, Personal
  <2>4. QED
    BY <2>2, <2>3
<1>5. QED
  BY <1>1, <1>2, <1>3, <1>4

-----------------------------------------------------------------------------
(* Steps that only move the pass or the page.                              *)

LEMMA ClassifyingIsNotUpToDate ==
  ASSUME Counting, pass.at \in Classifying
  PROVE  ~UpToDate
<1>1. Cardinality(item) \in Nat
  BY FS_CardinalityType DEF Counting
<1>2. QED
  BY <1>1 DEF Counting, UpToDate

\* What the pass is at stands as long as nothing of it changes.
LEMMA PassAtWorkStays ==
  ASSUME PassAtWork, UNCHANGED <<item, pass, said>>, behind \subseteq behind', said \in BOOLEAN,
         \A k \in Mails : Effective(k)' = Effective(k)
  PROVE  PassAtWork'
<1>1. \A k \in Mails : pass.at = "write" /\ k = pass.of /\ k \notin pass.gone =>
        pass.saw = Effective(k)' \/ <<k, "level">> \in behind'
  BY DEF PassAtWork, PassListed, PassWrites
<1>2. Labelling' <=> Labelling
  BY DEF Labelling
<1>3. pass.at \in Sorting /\ pass.word = "rule" /\ said =>
        \A k \in Sender \ pass.gone :
          k \in pass.todo \/ (k = pass.of /\ pass.at # "sort") => <<k, "category">> \in behind'
  BY DEF PassAtWork, PassListed, PassWrites
<1>4. PassListed'
  BY ONLY PassListed, PassAtWork, <1>2, item' = item, pass' = pass DEF PassAtWork, PassListed
<1>5. PassWrites'
  BY ONLY PassAtWork, <1>1, <1>3, pass' = pass, said' = said, said \in BOOLEAN DEF PassAtWork, PassWrites
<1>6. QED
  BY <1>4, <1>5 DEF PassAtWork

\* What a pass was about to write is left behind, or nothing is.
LEMMA PassMoves ==
  ASSUME PassesInv,
         UNCHANGED <<item, note, cache, promise, said, judgedAt, page, shrunk, silent>>,
         pass' \in PassRow, behind \subseteq behind', again \subseteq again',
         PassAtWork', Progress',
         pass.at \notin {"settle", "write", "sort write"} \/ PassCut \subseteq behind',
         pass'.at \notin Classifying \/ pass.at \in Classifying \/ (~shrunk => \A n \in judgedAt : n < Cardinality(item)),
         pass'.at \in Reading => \A m \in Coming' \ pass'.gone :
           ~note[m].read /\ (promise[m] \cap Standing # {} => m \in again'),
         \A m \in item : Marking(m) /\ promise[m] # {} => note[m].read \/ m \in again' \/ Marking(m)'
  PROVE  PassesInv'
<1>1. PassesTypes'
  BY DEF PassesInv, PassesTypes
<1>2. Fresh' /\ ModelRaises'
  BY DEF PassesInv, Fresh, ModelRaises
<1>3. \A m : Effective(m)' = Effective(m)
  BY DEF Effective
<1>4. PageAtWork'
  BY <1>3 DEF PassesInv, PageAtWork
<1>5. Counting'
  BY DEF PassesInv, Counting
<1>6. \A m : PageSettles(m)' <=> PageSettles(m)
  BY DEF PageSettles
<1>7. UpToDate' <=> UpToDate
  BY DEF UpToDate, Few
<1>8. ASSUME NEW m \in item PROVE (LevelFine(m) \/ (note[m].model = {} /\ ~UpToDate))'
  <2>1. LevelFine(m) \/ (note[m].model = {} /\ ~UpToDate)
    BY DEF PassesInv, LevelsFine
  <2>2. CASE PassSettles(m)
    <3>1. ~UpToDate
      BY <2>2, ClassifyingIsNotUpToDate DEF PassSettles, Classifying, PassesInv
    <3>2. note[m].model # {} => <<m, "level">> \in behind'
      BY <2>2 DEF PassSettles, PassCut
    <3>3. QED
      BY <1>7, <3>1, <3>2 DEF LevelFine
  <2>3. CASE ~PassSettles(m)
    BY <1>3, <1>6, <1>7, <2>1, <2>3 DEF LevelFine
  <2>4. QED
    BY <2>2, <2>3
<1>9. LevelsFine'
  BY <1>8 DEF LevelsFine
<1>10. ASSUME NEW m \in item, SortFine(m) PROVE SortFine(m)'
  <2>1. PageSorts(m)' <=> PageSorts(m)
    BY DEF PageSorts
  <2>2. Category(m)' = Category(m)
    BY DEF Category
  <2>3. PassSorts(m) => <<m, "category">> \in behind'
    BY DEF PassSorts, PassCut
  <2>4. QED
    BY <1>10, <2>1, <2>2, <2>3 DEF SortFine
<1>11. CategoriesFine'
  BY <1>10 DEF PassesInv, CategoriesFine
<1>12. PromisesKept'
  <2>1. \A m \in Mails : "rejected" \in promise[m] /\ m \notin again' => "open" \notin promise[m]
    BY DEF PassesInv, PromisesKept
  <2>2. \A m \in item : promise[m] \cap Standing # {} => note[m].read \/ m \in again' \/ Marking(m)'
    BY DEF PassesInv, PromisesKept
  <2>3. QED
    BY <2>1, <2>2 DEF PromisesKept
<1>13. AllJudged'
  BY <1>7 DEF PassesInv, AllJudged, ByRule
<1>14. QED
  BY <1>1, <1>2, <1>4, <1>5, <1>9, <1>11, <1>12, <1>13 DEF PassesInv

LEMMA PageMoves ==
  ASSUME PassesInv,
         UNCHANGED <<item, note, cache, promise, said, judgedAt, pass, shrunk, silent, again>>,
         page' \in PageRow, behind \subseteq behind', PageAtWork',
         \A m \in item : PageSettles(m) => LevelFine(m)',
         \A m \in item : PageSorts(m) => SortFine(m)'
  PROVE  PassesInv'
<1>1. PassesTypes'
  BY DEF PassesInv, PassesTypes
<1>2. Fresh' /\ ModelRaises'
  BY DEF PassesInv, Fresh, ModelRaises
<1>3. \A m : Effective(m)' = Effective(m)
  BY DEF Effective
<1>4. PassAtWork'
  <2>1. /\ PassAtWork /\ item' = item /\ pass' = pass /\ said' = said /\ said \in BOOLEAN
        /\ behind \subseteq behind'
    BY DEF PassesInv, PassesTypes
  <2>2. QED
    BY ONLY <1>3, <2>1, PassAtWorkStays
<1>5. Counting'
  BY DEF PassesInv, Counting
<1>6. UpToDate' <=> UpToDate
  BY DEF UpToDate, Few
<1>7. \A m \in item : LevelFine(m) => LevelFine(m)'
  <2>1. \A m : PassSettles(m)' <=> PassSettles(m)
    BY DEF PassSettles
  <2>2. QED
    BY <1>3, <2>1 DEF LevelFine
<1>8. LevelsFine'
  BY <1>6, <1>7 DEF PassesInv, LevelsFine
<1>9. CategoriesFine'
  <2>1. \A m : Category(m)' = Category(m) /\ (PassSorts(m)' <=> PassSorts(m))
    BY DEF Category, PassSorts
  <2>2. \A m \in item : SortFine(m) => SortFine(m)'
    BY <2>1 DEF SortFine
  <2>3. QED
    BY <2>2 DEF PassesInv, CategoriesFine
<1>10. Progress'
  <2>1. ASSUME NEW ms \in SUBSET item, Listed(ms) PROVE Listed(ms)'
    <3>1. \A m : Judged(m)' <=> Judged(m)
      BY DEF Judged, ByRule
    <3>2. InTurn' = InTurn
      BY DEF InTurn, Labelling
    <3>3. QED
      BY <1>7, <2>1, <3>1, <3>2 DEF Listed
  <2>2. QED
    BY <2>1 DEF PassesInv, Progress, Few
<1>11. PromisesKept'
  <2>1. Coming' = Coming /\ \A m : Marking(m)' <=> Marking(m)
    BY DEF Coming, Marking
  <2>2. QED
    BY <2>1 DEF PassesInv, PromisesKept
<1>12. AllJudged'
  BY <1>6 DEF PassesInv, AllJudged, ByRule
<1>13. QED
  BY <1>1, <1>2, <1>4, <1>5, <1>8, <1>9, <1>10, <1>11, <1>12 DEF PassesInv

\* A classification that moves on, and is about to settle nothing.
LEMMA ListedStays ==
  ASSUME Progress, UNCHANGED <<item, note, cache, behind, silent, page>>,
         pass.at \in Classifying \ {"list", "settle", "write"}, pass'.at # "list",
         pass'.counted = pass.counted, pass'.gone = pass.gone,
         pass.todo \cup pass.pending \subseteq pass'.todo \cup pass'.pending,
         InTurn' \subseteq InTurn
  PROVE  Progress'
<1>1. \A m : LevelFine(m) => LevelFine(m)'
  <2>1. \A m : Effective(m)' = Effective(m)
    BY DEF Effective
  <2>2. \A m : (PageSettles(m)' <=> PageSettles(m)) /\ ~PassSettles(m)
    BY DEF PageSettles, PassSettles
  <2>3. QED
    BY <2>1, <2>2 DEF LevelFine
<1>2. \A m : Judged(m)' <=> Judged(m)
  BY DEF Judged, ByRule
<1>3. ASSUME NEW ms \in SUBSET item, Listed(ms) PROVE Listed(ms)'
  BY <1>1, <1>2, <1>3 DEF Listed
<1>4. QED
  BY <1>3 DEF Progress, Few

LEMMA NothingIsAnAnswer ==
  /\ Asleep \in PassRow /\ Asleep.at = "asleep" /\ Asleep.todo = {} /\ Asleep.pending = {}
  /\ NoPage \in PageRow /\ NoPage.at = "idle" /\ NoPage.gone = {} /\ NoPage.left = {}
<1>1. <<>> \in [{} -> SUBSET Levels]
  OBVIOUS
<1>2. <<>> \in Answers
  BY <1>1 DEF Answers
<1>3. QED
  BY <1>2 DEF Asleep, NoPage, PassRow, PageRow, Levels, Personal

PassVars == <<item, note, cache, promise, said, judgedAt, page, shrunk, silent>>

\* The pass stops, and what it was at is left behind.
LEMMA PassStops ==
  ASSUME PassesInv, pass' \in PassRow, pass'.at \in {"asleep", "count", "promises"},
         pass'.todo = {}, pass'.pending = {},
         UNCHANGED PassVars,
         behind \subseteq behind', again \subseteq again',
         pass.at \notin {"settle", "write", "sort write"} \/ PassCut \subseteq behind',
         \A m \in item : Marking(m) /\ promise[m] # {} => m \in again'
  PROVE  PassesInv'
<1>1. PassAtWork'
  BY DEF PassAtWork, PassListed, PassWrites, Sorting, Reading
<1>2. Progress'
  BY DEF Progress, Classifying
<1>3. pass'.at \notin Classifying /\ pass'.at \notin Reading
  BY DEF Classifying, Reading
<1>4. QED
  BY <1>1, <1>2, <1>3, PassMoves DEF PassVars

LEMMA Stopped ==
  \A a \in {"asleep", "count", "promises"} :
    /\ [Asleep EXCEPT !.at = a] \in PassRow /\ [Asleep EXCEPT !.at = a].at = a
    /\ [Asleep EXCEPT !.at = a].todo = {} /\ [Asleep EXCEPT !.at = a].pending = {}
<1>1. Asleep \in PassRow
  BY NothingIsAnAnswer
<1>2. QED
  BY <1>1 DEF Asleep, PassRow

LEMMA StopsKeep ==
  ASSUME PassesInv, UNCHANGED filesVars,
         \/ SortEnds \/ SortFails \/ ClassifyFails \/ ReadEnds \/ ReadFails
         \/ Count /\ judgedAt = {Cardinality(item)}
  PROVE  PassesInv'
<1> USE DEF filesVars, rowVars
<1>1. \/ pass' = Asleep
      \/ \E a \in {"asleep", "count", "promises"} : pass' = [Asleep EXCEPT !.at = a]
  BY DEF SortEnds, SortFails, ClassifyFails, ReadEnds, ReadFails, Count
<1>2. pass' \in PassRow /\ pass'.at \in {"asleep", "count", "promises"} /\ pass'.todo = {} /\ pass'.pending = {}
  BY <1>1, Stopped, NothingIsAnAnswer
<1>3. UNCHANGED PassVars
  BY DEF PassVars, SortEnds, SortFails, ClassifyFails, ReadEnds, ReadFails, Count
<1>4. behind \subseteq behind' /\ again \subseteq again'
  BY DEF SortEnds, SortFails, ClassifyFails, ReadEnds, ReadFails, Count
<1>5. pass.at \notin {"settle", "write", "sort write"} \/ PassCut \subseteq behind'
  BY DEF SortEnds, SortFails, ClassifyFails, ReadEnds, ReadFails, Count, Sorting
<1>6. ASSUME NEW m \in item, Marking(m), promise[m] # {} PROVE m \in again'
  <2>1. m \in Unmarked
    BY <1>6 DEF Marking, Unmarked
  <2>2. ReadFails
    BY <1>6 DEF Marking, SortEnds, SortFails, ClassifyFails, ReadEnds, ReadFails, Count, Sorting
  <2>3. QED
    BY <2>1, <2>2 DEF ReadFails
<1>7. QED
  BY <1>2, <1>3, <1>4, <1>5, <1>6, PassStops

LEMMA WakeKeeps ==
  ASSUME PassesInv, UNCHANGED filesVars, Wake
  PROVE  PassesInv'
<1> USE DEF filesVars, rowVars
<1> DEFINE todo == {m \in item : ~note[m].sorted}
           z == [Asleep EXCEPT !.at = "sort", !.todo = todo]
<1>1. todo \subseteq Mails /\ todo \subseteq item
  BY DEF PassesInv, PassesTypes
<1>2. z \in PassRow /\ z.at = "sort" /\ z.todo = todo /\ z.pending = {} /\ z.word = "unread"
  BY <1>1, NothingIsAnAnswer DEF Asleep, PassRow, Sorting
<1>3. pass' = z /\ pass.at = "asleep"
  BY DEF Wake
<1> HIDE DEF todo, z
<1>4. PassAtWork'
  BY <1>1, <1>2, <1>3 DEF Wake, PassAtWork, PassListed, PassWrites, Reading, Labelling
<1>5. Progress' /\ pass'.at \notin Classifying \cup Reading
  BY <1>2, <1>3 DEF Progress, Classifying, Reading
<1>6. \A m : ~Marking(m)
  BY <1>3 DEF Marking
<1>7. QED
  BY <1>2, <1>3, <1>4, <1>5, <1>6, PassMoves DEF Wake

LEMMA SortLookKeeps ==
  ASSUME PassesInv, UNCHANGED filesVars, SortLook
  PROVE  PassesInv'
<1> USE DEF filesVars, rowVars
<1>1. PICK m \in pass.todo :
        pass' = [pass EXCEPT !.at = "sort note", !.of = m, !.todo = @ \ {m},
                   !.word = IF m \in Sender /\ @ = "unread" THEN IF said THEN "said" ELSE "rule" ELSE @]
  BY DEF SortLook
<1>2. pass.at = "sort" /\ pass \in PassRow /\ said \in BOOLEAN /\ PassAtWork
  BY DEF SortLook, PassesInv, PassesTypes
<1>3. m \in Mails
  BY <1>2 DEF PassRow
<1>4. /\ pass' \in PassRow /\ pass'.at = "sort note" /\ pass'.of = m /\ pass'.todo = pass.todo \ {m}
      /\ pass'.pending = pass.pending /\ pass'.gone = pass.gone
      /\ pass'.word = IF m \in Sender /\ pass.word = "unread" THEN IF said THEN "said" ELSE "rule" ELSE pass.word
  BY <1>1, <1>2, <1>3 DEF PassRow, Sorting
<1>5. PassAtWork'
  <2>1. (pass'.todo \cup pass'.pending) \ pass'.gone \subseteq item /\ m \in item \cup pass.gone
    BY <1>2, <1>4 DEF PassAtWork, PassListed, PassWrites
  <2>2. m \in Sender => pass'.word # "unread"
    BY <1>4
  <2>3. pass'.word = "said" => said
    BY <1>2, <1>4 DEF PassAtWork, PassListed, PassWrites, Sorting
  <2>4. pass'.word = "rule" /\ said => pass.word = "rule"
    BY <1>4
  <2>5. pass'.word = "rule" /\ said =>
           \A n \in Sender \ pass.gone : n \in pass.todo => <<n, "category">> \in behind
    BY <1>2, <2>4 DEF PassAtWork, PassListed, PassWrites, Sorting
  <2>6. QED
    BY <1>3, <1>4, <2>1, <2>2, <2>3, <2>5 DEF SortLook, PassAtWork, PassListed, PassWrites, Reading, Sorting, Labelling
<1>6. Progress' /\ pass'.at \notin Classifying \cup Reading
  BY <1>4 DEF Progress, Classifying, Reading
<1>7. \A n : ~Marking(n)
  BY <1>2 DEF Marking
<1>8. QED
  BY <1>2, <1>4, <1>5, <1>6, <1>7, PassMoves DEF SortLook

LEMMA CountKeeps ==
  ASSUME PassesInv, UNCHANGED filesVars, Count, judgedAt # {Cardinality(item)}
  PROVE  PassesInv'
<1> USE DEF filesVars, rowVars
<1> DEFINE z == [Asleep EXCEPT !.at = "list", !.counted = Cardinality(item)]
<1>1. Cardinality(item) \in Nat
  BY FS_CardinalityType DEF PassesInv, Counting
<1>2. z \in PassRow /\ z.at = "list" /\ z.todo = {} /\ z.pending = {} /\ z.counted = Cardinality(item)
  BY <1>1, NothingIsAnAnswer DEF Asleep, PassRow, Classifying
<1>3. pass' = z /\ pass.at = "count"
  BY DEF Count
<1> HIDE DEF z
<1>4. PassAtWork'
  BY <1>2, <1>3 DEF Count, PassAtWork, PassListed, PassWrites, Reading, Sorting
<1>5. Progress'
  <2>1. Cardinality(item) >= pass'.counted
    BY <1>1, <1>2, <1>3
  <2>2. QED
    BY <1>2, <1>3, <2>1 DEF Count, Progress
<1>6. ~shrunk => \A n \in judgedAt : n < Cardinality(item)
  <2>1. /\ \A n, k \in judgedAt : n = k
        /\ ~shrunk => \A n \in judgedAt : n <= Cardinality(item)
        /\ judgedAt \subseteq Nat
    BY DEF PassesInv, PassesTypes, Counting
  <2>2. ASSUME NEW n \in judgedAt PROVE n # Cardinality(item)
    <3>1. judgedAt = {n}
      BY <2>1, <2>2
    <3>2. QED
      BY <3>1
  <2>3. QED
    BY <1>1, <2>1, <2>2
<1>7. \A m : ~Marking(m)
  BY <1>3 DEF Marking
<1>8. pass'.at \notin Reading
  BY <1>2, <1>3 DEF Reading
<1>9. QED
  BY <1>2, <1>3, <1>4, <1>5, <1>6, <1>7, <1>8, PassMoves DEF Count

LEMMA BatchesAreOfThem ==
  ASSUME NEW ms, NEW b \in Batches(ms)
  PROVE  b \subseteq ms
BY DEF Batches

LEMMA ListKeeps ==
  ASSUME PassesInv, UNCHANGED filesVars, List
  PROVE  PassesInv'
<1> USE DEF filesVars, rowVars
<1>1. /\ pass.at = "list" /\ pass \in PassRow /\ item \subseteq Mails /\ PassAtWork /\ Progress
  BY DEF List, PassesInv, PassesTypes
<1>0. PICK seen \in SUBSET item :
        /\ Few => seen = item
        /\ pass' = [pass EXCEPT !.at = "judge", !.todo = seen]
  BY DEF List
<1>2. /\ pass' \in PassRow /\ pass'.at = "judge" /\ pass'.todo = seen /\ pass'.pending = {}
      /\ pass'.gone = pass.gone /\ pass'.counted = pass.counted
  BY <1>0, <1>1 DEF PassRow, Classifying, PassAtWork, PassListed, PassWrites
<1>3. PassAtWork'
  BY <1>2 DEF List, PassAtWork, PassListed, PassWrites, Reading, Sorting, Labelling
<1>4. Progress'
  <2>1. InTurn' = {}
    BY <1>2 DEF InTurn, Labelling
  <2>2. ASSUME NEW ms \in SUBSET item, Few PROVE Listed(ms)'
    BY <1>0, <1>2, <2>1, <2>2 DEF Listed
  <2>3. item' = item /\ (Few' <=> Few)
    BY DEF List, Few
  <2>4. QED
    BY <1>1, <1>2, <2>2, <2>3 DEF Progress, Classifying
<1>5. \A m : ~Marking(m)
  BY <1>1 DEF Marking
<1>6. pass'.at \notin Reading /\ pass.at \in Classifying
  BY <1>1, <1>2 DEF Reading, Classifying
<1>7. QED
  BY <1>1, <1>2, <1>3, <1>4, <1>5, <1>6, PassMoves DEF List

LEMMA AskingKeeps ==
  ASSUME PassesInv, UNCHANGED filesVars, JudgeEnds \/ Ask \/ Answered \/ LabelEnds
  PROVE  PassesInv'
<1> USE DEF filesVars, rowVars
<1>1. /\ pass \in PassRow /\ PassAtWork /\ Progress /\ pass.at \in {"judge", "ask", "asked", "label"}
      /\ UNCHANGED PassVars /\ behind' = behind /\ again' = again
  BY DEF JudgeEnds, Ask, Answered, LabelEnds, PassesInv, PassesTypes, PassVars
<1>2. /\ pass' \in PassRow /\ pass'.at \in {"ask", "asked", "label"}
      /\ pass'.gone = pass.gone /\ pass'.counted = pass.counted
      /\ pass'.todo \cup pass'.pending = pass.todo \cup pass.pending
      /\ pass'.at = "ask" => pass'.todo = {}
      /\ pass'.at = "label" => pass'.todo \subseteq DOMAIN pass'.answer
      /\ InTurn' \subseteq InTurn
  <2>1. CASE JudgeEnds
    <3>1. /\ pass' \in PassRow /\ pass'.at = "ask" /\ pass'.gone = pass.gone /\ pass'.counted = pass.counted
          /\ pass'.todo = pass.todo /\ pass'.pending = pass.pending /\ pass.todo = {}
      BY <1>1, <2>1 DEF JudgeEnds, PassRow, Classifying
    <3>2. QED
      BY <3>1 DEF InTurn, Labelling
  <2>2. CASE LabelEnds
    <3>1. /\ pass' \in PassRow /\ pass'.at = "ask" /\ pass'.gone = pass.gone /\ pass'.counted = pass.counted
          /\ pass'.todo = pass.todo /\ pass'.pending = pass.pending /\ pass.todo = {}
      BY <1>1, <2>2 DEF LabelEnds, PassRow, Classifying
    <3>2. QED
      BY <3>1 DEF InTurn, Labelling
  <2>3. CASE Ask
    <3>1. PICK b \in Batches(pass.pending) : pass' = [pass EXCEPT !.at = "asked", !.todo = b, !.pending = @ \ b]
      BY <2>3 DEF Ask
    <3>2. b \subseteq pass.pending /\ pass.pending \subseteq Mails
      BY <1>1, <3>1, BatchesAreOfThem DEF PassRow
    <3>3. /\ pass' \in PassRow /\ pass'.at = "asked" /\ pass'.gone = pass.gone /\ pass'.counted = pass.counted
          /\ pass'.todo = b /\ pass'.pending = pass.pending \ b
      BY <1>1, <3>1, <3>2 DEF PassRow, Classifying
    <3>4. pass.todo = {}
      BY <1>1, <2>3 DEF Ask, PassAtWork, PassListed, PassWrites
    <3>5. QED
      BY <3>2, <3>3, <3>4 DEF InTurn, Labelling
  <2>4. CASE Answered
    <3>1. PICK a \in [pass.todo -> {{}} \cup {{l} : l \in Levels}] : pass' = [pass EXCEPT !.at = "label", !.answer = a]
      BY <2>4 DEF Answered
    <3>2. a \in [pass.todo -> SUBSET Levels] /\ pass.todo \in SUBSET Mails
      BY <1>1, <3>1 DEF PassRow
    <3>3. a \in Answers
      BY <3>2 DEF Answers
    <3>4. /\ pass' \in PassRow /\ pass'.at = "label" /\ pass'.gone = pass.gone /\ pass'.counted = pass.counted
          /\ pass'.todo = pass.todo /\ pass'.pending = pass.pending /\ pass'.answer = a
      BY <1>1, <3>1, <3>3 DEF PassRow, Classifying
    <3>5. pass.at = "asked" /\ DOMAIN a = pass.todo
      BY <2>4, <3>2 DEF Answered
    <3>6. QED
      BY <3>4, <3>5 DEF InTurn, Labelling
  <2>5. QED
    BY <2>1, <2>2, <2>3, <2>4
<1>3. PassAtWork'
  BY <1>1, <1>2 DEF PassVars, PassAtWork, PassListed, PassWrites, Reading, Sorting, Labelling
<1>4. Progress'
  BY <1>1, <1>2, ListedStays DEF Classifying, PassVars
<1>5. \A m : ~Marking(m)
  BY <1>1 DEF Marking
<1>6. pass'.at \notin Reading /\ pass.at \in Classifying
  BY <1>1, <1>2 DEF Reading, Classifying
<1>7. QED
  BY <1>1, <1>2, <1>3, <1>4, <1>5, <1>6, PassMoves DEF PassVars

LEMMA ReadingMoves ==
  ASSUME PassesInv, pass' \in PassRow, UNCHANGED PassVars, behind' = behind, again' = again,
         pass.at \in Reading, pass'.at \in Reading, PassAtWork',
         pass'.gone = pass.gone, Coming' \subseteq Coming,
         pass.at \in {"keep", "mark"} =>
           pass.todo = {} \/ (pass'.at \in {"keep", "mark"} /\ pass'.todo = pass.todo)
  PROVE  PassesInv'
<1>1. Progress' /\ pass'.at \notin Classifying
  BY DEF Progress, Classifying, Reading
<1>2. \A m \in item : Marking(m) => Marking(m)'
  BY DEF Marking
<1>3. \A m \in Coming' \ pass'.gone : ~note[m].read /\ (promise[m] \cap Standing # {} => m \in again')
  BY DEF PassesInv, PromisesKept
<1>4. pass.at \notin {"settle", "write", "sort write"}
  BY DEF Reading
<1>5. QED
  BY <1>1, <1>2, <1>3, <1>4, PassMoves DEF PassVars

LEMMA ReadingKeeps ==
  ASSUME PassesInv, UNCHANGED filesVars, Marked \/ Read \/ Found \/ Kept
  PROVE  PassesInv'
<1> USE DEF filesVars, rowVars
<1>1. /\ pass \in PassRow /\ PassAtWork /\ UNCHANGED PassVars /\ behind' = behind /\ again' = again
  BY DEF Marked, Read, Found, Kept, PassesInv, PassesTypes, PassVars
<1>2. CASE Marked
  <2>1. /\ pass.at \in {"set aside", "mark"} /\ pass.todo = {}
        /\ pass' \in PassRow /\ pass'.at = "read" /\ pass'.gone = pass.gone
        /\ pass'.todo = pass.todo /\ pass'.pending = pass.pending
    BY <1>1, <1>2 DEF Marked, PassRow, Reading
  <2>2. Coming' = Coming
    BY <2>1 DEF Coming
  <2>3. PassAtWork'
    BY <1>1, <2>1 DEF PassVars, PassAtWork, PassListed, PassWrites, Reading, Sorting
  <2>4. QED
    BY <1>1, <2>1, <2>2, <2>3, ReadingMoves DEF Reading
<1>3. CASE Read
  <2>1. PICK b \in Batches(pass.pending) : pass' = [pass EXCEPT !.at = "reading", !.todo = b, !.pending = @ \ b]
    BY <1>3 DEF Read
  <2>2. b \subseteq pass.pending /\ pass.pending \subseteq Mails /\ pass.at = "read"
    BY <1>1, <1>3, <2>1, BatchesAreOfThem DEF PassRow, Read
  <2>3. /\ pass' \in PassRow /\ pass'.at = "reading" /\ pass'.gone = pass.gone
        /\ pass'.todo = b /\ pass'.pending = pass.pending \ b
    BY <1>1, <2>1, <2>2 DEF PassRow, Reading
  <2>4. Coming' = Coming
    BY <2>2, <2>3 DEF Coming
  <2>5. PassAtWork'
    BY <1>1, <2>2, <2>3 DEF PassVars, PassAtWork, PassListed, PassWrites, Reading, Sorting, Labelling
  <2>6. QED
    BY <1>1, <2>2, <2>3, <2>4, <2>5, ReadingMoves DEF Reading
<1>4. CASE Found
  <2>1. PICK f \in SUBSET pass.todo : pass' = [pass EXCEPT !.at = "keep", !.answer = [m \in f |-> {}]]
    BY <1>4 DEF Found
  <2>2. f \in SUBSET Mails /\ pass.at = "reading"
    BY <1>1, <1>4, <2>1 DEF PassRow, Found
  <2> DEFINE a == [m \in f |-> {}]
  <2>3. a \in [f -> SUBSET Levels] /\ DOMAIN a = f
    OBVIOUS
  <2>4. a \in Answers
    BY <2>2, <2>3 DEF Answers
  <2> HIDE DEF a
  <2>5. /\ pass' \in PassRow /\ pass'.at = "keep" /\ pass'.gone = pass.gone
        /\ pass'.todo = pass.todo /\ pass'.pending = pass.pending /\ pass'.answer = a
    <3>1. pass' = [pass EXCEPT !.at = "keep", !.answer = a]
      BY <2>1 DEF a
    <3>2. QED
      BY <1>1, <2>4, <3>1 DEF PassRow, Reading
  <2>6. Coming' \subseteq Coming
    BY <2>1, <2>2, <2>3, <2>5 DEF Coming
  <2>7. PassAtWork'
    BY <1>1, <2>1, <2>2, <2>3, <2>5 DEF PassVars, PassAtWork, PassListed, PassWrites, Reading, Sorting, Labelling
  <2>8. QED
    BY <1>1, <2>2, <2>5, <2>6, <2>7, ReadingMoves DEF Reading
<1>5. CASE Kept
  <2>1. /\ pass.at = "keep" /\ DOMAIN pass.answer = {}
        /\ pass' \in PassRow /\ pass'.at = "mark" /\ pass'.gone = pass.gone
        /\ pass'.todo = pass.todo /\ pass'.pending = pass.pending
    BY <1>1, <1>5 DEF Kept, PassRow, Reading
  <2>2. Coming' = Coming
    BY <2>1 DEF Coming
  <2>3. PassAtWork'
    BY <1>1, <2>1 DEF PassVars, PassAtWork, PassListed, PassWrites, Reading, Sorting, Labelling
  <2>4. QED
    BY <1>1, <2>1, <2>2, <2>3, ReadingMoves DEF Reading
<1>6. QED
  BY <1>2, <1>3, <1>4, <1>5

LEMMA ListUnreadKeeps ==
  ASSUME PassesInv, UNCHANGED filesVars, ListUnread
  PROVE  PassesInv'
<1> USE DEF filesVars, rowVars
<1> DEFINE todo == {m \in Unread : cache[m].level = Public}
           pending == {m \in Unread : cache[m].level # Public}
           z == [Asleep EXCEPT !.at = "set aside", !.todo = todo, !.pending = pending]
<1>1. /\ todo \subseteq Mails /\ todo \subseteq item /\ pending \subseteq Mails /\ pending \subseteq item
      /\ todo \cap pending = {} /\ \A m \in pending : ~note[m].read
  BY DEF PassesInv, PassesTypes, Unread
<1>2. z \in PassRow /\ z.at = "set aside" /\ z.todo = todo /\ z.pending = pending
  BY <1>1, NothingIsAnAnswer DEF Asleep, PassRow, Reading
<1>3. pass' = z /\ pass.at = "promises"
  BY DEF ListUnread
<1> HIDE DEF todo, pending, z
<1>4. PassAtWork'
  BY <1>1, <1>2, <1>3 DEF ListUnread, PassAtWork, PassListed, PassWrites, Sorting, Reading, Labelling
<1>5. Progress' /\ pass'.at \notin Classifying
  BY <1>2, <1>3 DEF Progress, Classifying
<1>6. \A m : ~Marking(m)
  BY <1>3 DEF Marking
<1>7. \A m \in Coming' \ pass'.gone : ~note[m].read /\ (promise[m] \cap Standing # {} => m \in again)
  <2>1. Coming' = pending
    BY <1>2, <1>3 DEF Coming
  <2>2. QED
    BY <1>1, <1>6, <2>1 DEF PassesInv, PromisesKept
<1>8. QED
  BY <1>2, <1>3, <1>4, <1>5, <1>6, <1>7, PassMoves DEF ListUnread

\* One field of one note.
LEMMA OneNote ==
  ASSUME PassesTypes, NEW m \in Mails, NEW row \in NoteRow, note' = [note EXCEPT ![m] = row]
  PROVE  note' \in [Mails -> NoteRow] /\ note'[m] = row /\ \A k \in Mails \ {m} : note'[k] = note[k]
BY DEF PassesTypes

LEMMA NotesAsBefore ==
  ASSUME PassesTypes, NEW m \in Mails, NEW row \in NoteRow, note' = [note EXCEPT ![m] = row],
         row.rule = note[m].rule, row.model = note[m].model, row.user = note[m].user
  PROVE  /\ note' \in [Mails -> NoteRow]
         /\ note'[m] = row /\ \A k \in Mails \ {m} : note'[k] = note[k]
         /\ \A k \in Mails : note'[k].rule = note[k].rule /\ note'[k].model = note[k].model
                             /\ note'[k].user = note[k].user /\ Effective(k)' = Effective(k)
<1>1. /\ note' \in [Mails -> NoteRow]
      /\ note'[m] = row /\ \A k \in Mails \ {m} : note'[k] = note[k]
  BY OneNote
<1>2. \A k \in Mails : note'[k].rule = note[k].rule /\ note'[k].model = note[k].model
                       /\ note'[k].user = note[k].user
  BY <1>1
<1>3. QED
  BY <1>1, <1>2, EffectiveStays

\* Where only what says how far the passes have come is noted.
LEMMA LevelsStay ==
  ASSUME PassesInv, UNCHANGED <<item, cache, judgedAt, shrunk, silent, behind>>,
         \A k \in Mails : note'[k].rule = note[k].rule /\ note'[k].model = note[k].model
                          /\ note'[k].user = note[k].user,
         \A k \in item : (PassSettles(k) => PassSettles(k)') /\ (PageSettles(k) => PageSettles(k)')
  PROVE  ModelRaises' /\ LevelsFine' /\ AllJudged' /\ \A k \in item : LevelFine(k) => LevelFine(k)'
<1>1. \A k \in Mails : Effective(k)' = Effective(k)
  BY EffectiveStays
<1>2. item \subseteq Mails
  BY DEF PassesInv, PassesTypes
<1>3. \A k \in item : LevelFine(k) => LevelFine(k)'
  BY <1>1, <1>2 DEF LevelFine
<1>4. UpToDate' <=> UpToDate
  BY DEF UpToDate, Few
<1>5. LevelsFine'
  BY <1>2, <1>3, <1>4 DEF PassesInv, LevelsFine
<1>6. AllJudged'
  BY <1>2, <1>4 DEF PassesInv, AllJudged, ByRule
<1>7. ModelRaises'
  BY DEF PassesInv, ModelRaises
<1>8. QED
  BY <1>3, <1>5, <1>6, <1>7

LEMMA MarkKeeps ==
  ASSUME PassesInv, UNCHANGED filesVars, Mark
  PROVE  PassesInv'
<1> USE DEF filesVars, rowVars
<1>1. PICK m \in pass.todo \ pass.gone :
        /\ note' = [note EXCEPT ![m].read = TRUE]
        /\ pass' = [pass EXCEPT !.todo = @ \ {m}]
  BY DEF Mark
<1>2. /\ pass.at \in {"set aside", "mark"} /\ pass \in PassRow /\ PassAtWork /\ PassesTypes /\ item \subseteq Mails
      /\ UNCHANGED <<item, cache, promise, said, judgedAt, page, behind, shrunk, silent, again>>
  BY DEF Mark, PassesInv, PassesTypes
<1>3. m \in item /\ m \in Mails
  BY <1>1, <1>2 DEF PassAtWork, PassListed, PassWrites
<1>4. /\ pass' \in PassRow /\ pass'.at = pass.at /\ pass'.todo = pass.todo \ {m}
      /\ pass'.pending = pass.pending /\ pass'.gone = pass.gone
  BY <1>1, <1>2 DEF PassRow
<1> DEFINE row == [note[m] EXCEPT !.read = TRUE]
<1>5. /\ row \in NoteRow /\ row.rule = note[m].rule /\ row.model = note[m].model /\ row.user = note[m].user
      /\ row.read = TRUE /\ row.sorted = note[m].sorted
  BY <1>2, <1>3 DEF PassesTypes, NoteRow
<1>6. note' = [note EXCEPT ![m] = row]
  BY <1>1, <1>2, <1>3 DEF PassesTypes
<1> HIDE DEF row
<1>7. /\ note' \in [Mails -> NoteRow]
      /\ note'[m] = row /\ \A k \in Mails \ {m} : note'[k] = note[k]
      /\ \A k \in Mails : note'[k].rule = note[k].rule /\ note'[k].model = note[k].model
                          /\ note'[k].user = note[k].user /\ Effective(k)' = Effective(k)
  BY <1>2, <1>3, <1>5, <1>6, NotesAsBefore
<1>8. PassesTypes'
  BY <1>2, <1>4, <1>7 DEF PassesTypes
<1>9. Fresh'
  BY <1>2, <1>3, <1>7 DEF PassesInv, Fresh
<1>10. PassAtWork'
  BY <1>2, <1>4 DEF PassAtWork, PassListed, PassWrites, Sorting, Reading, Labelling
<1>11. PageAtWork'
  BY <1>2, <1>7 DEF PassesInv, PageAtWork
<1>12. Counting' /\ Progress'
  BY <1>2, <1>4 DEF PassesInv, Counting, Progress, Classifying
<1>13. ModelRaises' /\ LevelsFine' /\ AllJudged'
  <2>1. \A k \in item : (PassSettles(k) => PassSettles(k)') /\ (PageSettles(k) => PageSettles(k)')
    BY <1>2, <1>4 DEF PassSettles, PageSettles
  <2>2. QED
    BY <1>2, <1>7, <2>1, LevelsStay
<1>14. CategoriesFine'
  <2>1. ASSUME NEW k \in item PROVE note'[k].sorted = note[k].sorted /\ (SortFine(k) => SortFine(k)')
    <3>1. note'[k].sorted = note[k].sorted
      BY <1>2, <1>5, <1>7, <2>1
    <3>2. Category(k)' = Category(k) /\ ~PassSorts(k) /\ (PageSorts(k)' <=> PageSorts(k))
      BY <1>2 DEF Category, PassSorts, PageSorts
    <3>3. QED
      BY <1>2, <3>1, <3>2 DEF SortFine
  <2>2. QED
    BY <1>2, <2>1 DEF PassesInv, CategoriesFine
<1>15. PromisesKept'
  <2>1. ASSUME NEW k \in item, promise[k] \cap Standing # {} PROVE note'[k].read \/ k \in again \/ Marking(k)'
    <3>1. note[k].read \/ k \in again \/ Marking(k)
      BY <2>1 DEF PassesInv, PromisesKept
    <3>2. CASE k = m
      BY <1>5, <1>7, <3>2
    <3>3. CASE k # m
      BY <1>2, <1>4, <1>7, <2>1, <3>1, <3>3 DEF Marking
    <3>4. QED
      BY <3>2, <3>3
  <2>2. Coming' = pass.pending /\ Coming = pass.pending /\ m \notin Coming
    BY <1>1, <1>2, <1>4 DEF Coming, PassAtWork, PassListed, PassWrites, Reading
  <2>3. \A k \in Coming' \ pass'.gone : k \in Mails /\ ~note'[k].read /\ (promise[k] \cap Standing # {} => k \in again)
    <3>1. pass.at \in Reading /\ pass.pending \subseteq Mails
      BY <1>2 DEF Reading, PassRow
    <3>2. QED
      BY <1>4, <1>7, <2>2, <3>1 DEF PassesInv, PromisesKept
  <2>4. \A k \in Mails : "rejected" \in promise[k] /\ k \notin again => "open" \notin promise[k]
    BY DEF PassesInv, PromisesKept
  <2>5. QED
    BY <1>2, <2>1, <2>3, <2>4 DEF PromisesKept
<1>16. QED
  BY <1>8, <1>9, <1>10, <1>11, <1>12, <1>13, <1>14, <1>15 DEF PassesInv

LEMMA KeepKeeps ==
  ASSUME PassesInv, UNCHANGED filesVars, Keep
  PROVE  PassesInv'
<1> USE DEF filesVars, rowVars
<1>1. PICK m \in DOMAIN pass.answer :
        /\ pass' = [pass EXCEPT !.answer = [k \in DOMAIN @ \ {m} |-> {}]]
        /\ promise' = IF promise[m] \cap {"open", "stray"} # {} THEN promise
                      ELSE [promise EXCEPT ![m] = @ \cup {IF m \in pass.gone THEN "stray" ELSE "open"}]
  BY DEF Keep
<1>2. /\ pass.at = "keep" /\ pass \in PassRow /\ PassAtWork /\ PassesTypes /\ item \subseteq Mails
      /\ UNCHANGED <<item, note, cache, said, judgedAt, page, behind, shrunk, silent, again>>
  BY DEF Keep, PassesInv, PassesTypes
<1>3. DOMAIN pass.answer \subseteq pass.todo /\ pass.todo \subseteq Mails /\ m \in Mails /\ (m \notin pass.gone => m \in item)
  BY <1>1, <1>2 DEF PassAtWork, PassListed, PassWrites, PassRow
<1> DEFINE a == [k \in DOMAIN pass.answer \ {m} |-> {}]
<1>4. a \in Answers /\ DOMAIN a = DOMAIN pass.answer \ {m}
  <2> DEFINE f == DOMAIN pass.answer \ {m}
  <2>1. f \in SUBSET Mails
    BY <1>3
  <2>2. a \in [f -> SUBSET Levels] /\ DOMAIN a = f
    OBVIOUS
  <2> HIDE DEF a, f
  <2>3. a \in Answers
    BY <2>1, <2>2 DEF Answers
  <2>4. QED
    BY <2>2, <2>3 DEF f
<1>5. pass' = [pass EXCEPT !.answer = a]
  BY <1>1
<1> HIDE DEF a
<1>6. /\ pass' \in PassRow /\ pass'.at = "keep" /\ pass'.todo = pass.todo /\ pass'.answer = a
      /\ pass'.pending = pass.pending /\ pass'.gone = pass.gone
  BY <1>2, <1>4, <1>5 DEF PassRow
<1>7. /\ promise' \in [Mails -> SUBSET {"open", "rejected", "stray"}]
      /\ \A k \in Mails \ {m} : promise'[k] = promise[k]
      /\ \/ promise'[m] = promise[m]
         \/ m \notin pass.gone /\ promise'[m] = promise[m] \cup {"open"}
         \/ m \in pass.gone /\ promise'[m] = promise[m] \cup {"stray"}
  BY <1>1, <1>2, <1>3 DEF PassesTypes
<1>8. PassesTypes'
  BY <1>2, <1>6, <1>7 DEF PassesTypes
<1>9. Fresh'
  BY <1>2, <1>3, <1>7 DEF PassesInv, Fresh, Standing
<1>10. PassAtWork'
  BY <1>2, <1>4, <1>6 DEF PassAtWork, PassListed, PassWrites, Sorting, Reading, Labelling
<1>11. \A k : Effective(k)' = Effective(k)
  BY <1>2 DEF Effective
<1>12. PageAtWork'
  BY <1>2, <1>11 DEF PassesInv, PageAtWork
<1>13. Counting' /\ Progress'
  BY <1>2, <1>6 DEF PassesInv, Counting, Progress, Classifying
<1>14. ModelRaises' /\ LevelsFine' /\ AllJudged'
  <2>1. \A k \in item : (PassSettles(k) => PassSettles(k)') /\ (PageSettles(k) => PageSettles(k)')
    BY <1>2, <1>6 DEF PassSettles, PageSettles
  <2>2. QED
    BY <1>2, <2>1, LevelsStay
<1>15. CategoriesFine'
  <2>1. ASSUME NEW k \in item PROVE SortFine(k) => SortFine(k)'
    <3>1. Category(k)' = Category(k) /\ ~PassSorts(k) /\ (PageSorts(k)' <=> PageSorts(k))
      BY <1>2 DEF Category, PassSorts, PageSorts
    <3>2. QED
      BY <1>2, <3>1 DEF SortFine
  <2>2. QED
    BY <1>2, <2>1 DEF PassesInv, CategoriesFine
<1>16. PromisesKept'
  <2>1. Coming = pass.pending \cup DOMAIN pass.answer /\ Coming' = pass.pending \cup DOMAIN a
        /\ m \notin pass.pending /\ pass.at \in Reading
    BY <1>1, <1>2, <1>3, <1>6 DEF Coming, PassAtWork, PassListed, PassWrites, Reading
  <2>2. \A k \in Coming \ pass.gone : ~note[k].read /\ (promise[k] \cap Standing # {} => k \in again)
    BY <2>1 DEF PassesInv, PromisesKept
  <2>3. ASSUME NEW k \in Mails, "rejected" \in promise'[k], k \notin again PROVE "open" \notin promise'[k]
    <3>1. "rejected" \in promise[k]
      BY <1>7, <2>3
    <3>2. "open" \notin promise[k]
      BY <2>3, <3>1 DEF PassesInv, PromisesKept
    <3>3. CASE k # m
      BY <1>7, <2>3, <3>2, <3>3
    <3>4. CASE k = m /\ m \in pass.gone
      BY <1>7, <3>2, <3>4
    <3>5. CASE k = m /\ m \notin pass.gone
      <4>1. promise[m] \cap Standing # {}
        BY <3>1, <3>5 DEF Standing
      <4>2. m \in again
        BY <1>1, <2>1, <2>2, <3>5, <4>1
      <4>3. QED
        BY <2>3, <3>5, <4>2
    <3>6. QED
      BY <3>3, <3>4, <3>5
  <2>4. ASSUME NEW k \in item, promise'[k] \cap Standing # {} PROVE note[k].read \/ k \in again \/ Marking(k)'
    <3>1. \A j : Marking(j)' <=> Marking(j)
      BY <1>2, <1>6 DEF Marking
    <3>2. CASE promise[k] \cap Standing # {}
      BY <2>4, <3>1, <3>2 DEF PassesInv, PromisesKept
    <3>3. CASE promise[k] \cap Standing = {}
      <4>1. k = m /\ m \notin pass.gone
        BY <1>2, <1>7, <2>4, <3>3 DEF Standing
      <4>2. QED
        BY <1>1, <1>2, <1>3, <1>6, <4>1 DEF Marking
    <3>4. QED
      BY <3>2, <3>3
  <2>5. \A k \in Coming' \ pass'.gone : ~note[k].read /\ (promise'[k] \cap Standing # {} => k \in again)
    <3>1. \A k \in Coming' : k \in Coming /\ k # m /\ k \in Mails
      BY <1>2, <1>3, <1>4, <2>1 DEF PassRow
    <3>2. QED
      BY <1>6, <1>7, <2>2, <3>1
  <2>6. QED
    BY <1>2, <2>3, <2>4, <2>5 DEF PromisesKept
<1>17. QED
  BY <1>8, <1>9, <1>10, <1>12, <1>13, <1>14, <1>15, <1>16 DEF PassesInv

LEMMA SortNoteKeeps ==
  ASSUME PassesInv, UNCHANGED filesVars, SortNote
  PROVE  PassesInv'
<1> USE DEF filesVars, rowVars
<1> DEFINE m == pass.of
           row == [note[m] EXCEPT !.sorted = TRUE]
<1>1. /\ pass.at = "sort note" /\ m \notin pass.gone
      /\ pass \in PassRow /\ PassAtWork /\ PassesTypes /\ item \subseteq Mails
      /\ pass' = [pass EXCEPT !.at = "sort write"] /\ note' = [note EXCEPT ![m].sorted = TRUE]
      /\ UNCHANGED <<item, cache, promise, said, judgedAt, page, behind, shrunk, silent, again>>
  BY DEF SortNote, PassesInv, PassesTypes
<1>2. m \in item /\ m \in Mails
  BY <1>1 DEF PassAtWork, PassListed, PassWrites
<1>3. /\ pass' \in PassRow /\ pass'.at = "sort write" /\ pass'.todo = pass.todo /\ pass'.of = m
      /\ pass'.pending = pass.pending /\ pass'.gone = pass.gone /\ pass'.word = pass.word
  BY <1>1 DEF PassRow, Sorting
<1>4. /\ row \in NoteRow /\ row.rule = note[m].rule /\ row.model = note[m].model /\ row.user = note[m].user
      /\ row.read = note[m].read /\ row.sorted = TRUE
  BY <1>1, <1>2 DEF PassesTypes, NoteRow
<1>5. note' = [note EXCEPT ![m] = row]
  BY <1>1, <1>2 DEF PassesTypes
<1> HIDE DEF row
<1>6. /\ note' \in [Mails -> NoteRow]
      /\ note'[m] = row /\ \A k \in Mails \ {m} : note'[k] = note[k]
      /\ \A k \in Mails : note'[k].rule = note[k].rule /\ note'[k].model = note[k].model
                          /\ note'[k].user = note[k].user /\ Effective(k)' = Effective(k)
  BY <1>1, <1>2, <1>4, <1>5, NotesAsBefore
<1>7. PassesTypes'
  BY <1>1, <1>3, <1>6 DEF PassesTypes
<1>8. Fresh'
  BY <1>1, <1>2, <1>6 DEF PassesInv, Fresh
<1>9. PassAtWork'
  BY <1>1, <1>2, <1>3 DEF PassAtWork, PassListed, PassWrites, Sorting, Reading, Labelling
<1>10. PageAtWork'
  <2>1. PageAtWork /\ page' = page /\ item' = item /\ said' = said
    BY <1>1 DEF PassesInv
  <2>2. QED
    BY ONLY <1>6, <2>1 DEF PageAtWork
<1>11. Counting' /\ Progress'
  BY <1>1, <1>3 DEF PassesInv, Counting, Progress, Classifying
<1>12. ModelRaises' /\ LevelsFine' /\ AllJudged'
  <2>1. \A k \in item : (PassSettles(k) => PassSettles(k)') /\ (PageSettles(k) => PageSettles(k)')
    BY <1>1, <1>3 DEF PassSettles, PageSettles
  <2>2. QED
    BY <1>1, <1>6, <2>1, LevelsStay
<1>13. CategoriesFine'
  <2>1. ASSUME NEW k \in item, note'[k].sorted PROVE SortFine(k)'
    <3>1. CASE k = m
      BY <1>1, <1>3, <3>1 DEF SortFine, PassSorts
    <3>2. CASE k # m
      <4>1. note[k].sorted
        BY <1>1, <1>6, <2>1, <3>2
      <4>2. SortFine(k)
        BY <4>1 DEF PassesInv, CategoriesFine
      <4>3. Category(k)' = Category(k) /\ ~PassSorts(k) /\ (PageSorts(k)' <=> PageSorts(k))
        BY <1>1 DEF Category, PassSorts, PageSorts
      <4>4. QED
        BY <1>1, <4>2, <4>3 DEF SortFine
    <3>3. QED
      BY <3>1, <3>2
  <2>2. QED
    BY <1>1, <2>1 DEF CategoriesFine
<1>14. PromisesKept'
  <2>1. \A k \in item : note'[k].read = note[k].read
    BY <1>1, <1>4, <1>6
  <2>2. \A k : ~Marking(k)
    BY <1>1 DEF Marking
  <2>3. pass'.at \notin Reading
    BY <1>3 DEF Reading
  <2>4. QED
    BY <1>1, <2>1, <2>2, <2>3 DEF PassesInv, PromisesKept
<1>15. QED
  BY <1>7, <1>8, <1>9, <1>10, <1>11, <1>12, <1>13, <1>14 DEF PassesInv

\* A row of the items with another category or another level.
LEMMA OneRow ==
  ASSUME PassesTypes, NEW m \in Mails, NEW row \in ItemRow, cache' = [cache EXCEPT ![m] = row]
  PROVE  cache' \in [Mails -> ItemRow] /\ cache'[m] = row /\ \A k \in Mails \ {m} : cache'[k] = cache[k]
BY DEF PassesTypes

LEMMA SortWriteKeeps ==
  ASSUME PassesInv, UNCHANGED filesVars, SortWrite
  PROVE  PassesInv'
<1> USE DEF filesVars, rowVars
<1> DEFINE m == pass.of
<1>1. /\ pass.at = "sort write"
      /\ pass \in PassRow /\ PassAtWork /\ PassesTypes /\ item \subseteq Mails
      /\ pass' = [pass EXCEPT !.at = "sort"]
      /\ UNCHANGED <<item, note, promise, said, judgedAt, page, behind, shrunk, silent, again>>
  BY DEF SortWrite, PassesInv, PassesTypes
<1>2. m \in Mails /\ (m \notin pass.gone => m \in item)
  BY <1>1 DEF PassAtWork, PassListed, PassWrites
<1>3. /\ pass' \in PassRow /\ pass'.at = "sort" /\ pass'.todo = pass.todo
      /\ pass'.pending = pass.pending /\ pass'.gone = pass.gone /\ pass'.word = pass.word
  BY <1>1 DEF PassRow, Sorting
<1> DEFINE c == IF m \in Sender THEN pass.word ELSE "rule"
           row == [cache[m] EXCEPT !.category = c]
<1>4. /\ c \in {"rule", "said"} /\ (m \in Sender \ pass.gone => c = Category(m) \/ <<m, "category">> \in behind)
      /\ (m \notin Sender => c = Category(m))
  BY <1>1, <1>2 DEF PassAtWork, PassListed, PassWrites, PassRow, Category, Sorting
<1> HIDE DEF c
<1>5. row \in ItemRow /\ row.category = c /\ row.level = cache[m].level
  BY <1>1, <1>2, <1>4 DEF PassesTypes, ItemRow
<1>6. cache' = IF m \in pass.gone THEN cache ELSE [cache EXCEPT ![m] = row]
  BY <1>1, <1>2 DEF SortWrite, PassesTypes, c
<1> HIDE DEF row
<1>7. /\ cache' \in [Mails -> ItemRow] /\ \A k \in Mails \ {m} : cache'[k] = cache[k]
      /\ \A k \in Mails : cache'[k].level = cache[k].level
      /\ IF m \in pass.gone THEN cache'[m] = cache[m] ELSE cache'[m].category = c
  <2>1. CASE m \in pass.gone
    BY <1>1, <1>6, <2>1 DEF PassesTypes
  <2>2. CASE m \notin pass.gone
    <3>1. cache' \in [Mails -> ItemRow] /\ cache'[m] = row /\ \A k \in Mails \ {m} : cache'[k] = cache[k]
      BY <1>1, <1>2, <1>5, <1>6, <2>2, OneRow
    <3>2. QED
      BY <1>5, <2>2, <3>1
  <2>3. QED
    BY <2>1, <2>2
<1>8. PassesTypes'
  BY <1>1, <1>3, <1>7 DEF PassesTypes
<1>9. Fresh' /\ ModelRaises'
  BY <1>1, <1>2, <1>7 DEF PassesInv, Fresh, ModelRaises
<1>10. PassAtWork'
  BY <1>1, <1>2, <1>3 DEF PassAtWork, PassListed, PassWrites, Sorting, Reading, Labelling
<1>11. \A k : Effective(k)' = Effective(k)
  BY <1>1 DEF Effective
<1>12. PageAtWork'
  BY <1>1, <1>11 DEF PassesInv, PageAtWork
<1>13. Counting' /\ Progress'
  BY <1>1, <1>3 DEF PassesInv, Counting, Progress, Classifying
<1>14. UpToDate' <=> UpToDate
  BY <1>1 DEF UpToDate, Few
<1>15. LevelsFine'
  <2>1. ASSUME NEW k \in item PROVE LevelFine(k) => LevelFine(k)'
    <3>1. ~PassSettles(k) /\ (PageSettles(k)' <=> PageSettles(k)) /\ cache'[k].level = cache[k].level
      BY <1>1, <1>7 DEF PassSettles, PageSettles
    <3>2. QED
      BY <1>1, <1>11, <3>1 DEF LevelFine
  <2>2. QED
    BY <1>1, <1>14, <2>1 DEF PassesInv, LevelsFine
<1>16. AllJudged'
  BY <1>1, <1>14 DEF PassesInv, AllJudged, ByRule
<1>17. CategoriesFine'
  <2>1. ASSUME NEW k \in item, note[k].sorted PROVE SortFine(k)'
    <3>1. SortFine(k)
      BY <2>1 DEF PassesInv, CategoriesFine
    <3>2. Category(k)' = Category(k) /\ (PageSorts(k)' <=> PageSorts(k))
      BY <1>1 DEF Category, PageSorts
    <3>3. CASE k = m /\ m \notin pass.gone
      <4>1. cache'[k].category = c /\ (c = Category(k) \/ <<k, "category">> \in behind)
        BY <1>4, <1>7, <3>3
      <4>2. QED
        BY <1>1, <3>2, <4>1 DEF SortFine
    <3>4. CASE ~(k = m /\ m \notin pass.gone)
      <4>1. cache'[k] = cache[k] /\ ~PassSorts(k)
        BY <1>1, <1>7, <3>4 DEF PassSorts
      <4>2. QED
        BY <1>1, <3>1, <3>2, <4>1 DEF SortFine
    <3>5. QED
      BY <3>3, <3>4
  <2>2. QED
    BY <1>1, <2>1 DEF CategoriesFine
<1>18. PromisesKept'
  <2>1. \A k : ~Marking(k)
    BY <1>1 DEF Marking
  <2>2. pass'.at \notin Reading
    BY <1>3 DEF Reading
  <2>3. QED
    BY <1>1, <2>1, <2>2 DEF PassesInv, PromisesKept
<1>19. QED
  BY <1>8, <1>9, <1>10, <1>12, <1>13, <1>15, <1>16, <1>17, <1>18 DEF PassesInv

LEMMA JudgeKeeps ==
  ASSUME PassesInv, UNCHANGED filesVars, Judge
  PROVE  PassesInv'
<1> USE DEF filesVars, rowVars
<1>1. PICK m \in pass.todo \ pass.gone :
       /\ note' = [note EXCEPT ![m].rule = TRUE]
       /\ pass' = [pass EXCEPT
            !.at = IF Settles(m) THEN "settle" ELSE @,
            !.of = m, !.back = "judge", !.todo = @ \ {m},
            !.pending = IF ~ByRule(m) /\ note[m].model = {} THEN @ \cup {m} ELSE @]
  BY DEF Judge
<1>2. /\ pass.at = "judge" /\ pass \in PassRow /\ PassAtWork /\ PassesTypes /\ item \subseteq Mails
      /\ UNCHANGED <<item, cache, promise, said, judgedAt, page, behind, shrunk, silent, again>>
  BY DEF Judge, PassesInv, PassesTypes
<1>3. m \in item /\ m \in Mails
  BY <1>1, <1>2 DEF PassAtWork, PassListed, PassWrites
<1>4. /\ pass' \in PassRow /\ pass'.at = (IF Settles(m) THEN "settle" ELSE "judge")
      /\ pass'.todo = pass.todo \ {m} /\ pass'.of = m /\ pass'.back = "judge"
      /\ pass'.pending = (IF ~ByRule(m) /\ note[m].model = {} THEN pass.pending \cup {m} ELSE pass.pending)
      /\ pass'.gone = pass.gone /\ pass'.counted = pass.counted
  BY <1>1, <1>2, <1>3 DEF PassRow, Classifying
<1> DEFINE row == [note[m] EXCEPT !.rule = TRUE]
<1>5. /\ row \in NoteRow /\ row.rule = TRUE /\ row.model = note[m].model /\ row.user = note[m].user
      /\ row.read = note[m].read /\ row.sorted = note[m].sorted
  BY <1>2, <1>3 DEF PassesTypes, NoteRow
<1>6. note' = [note EXCEPT ![m] = row]
  BY <1>1, <1>2, <1>3 DEF PassesTypes
<1> HIDE DEF row
<1>7. note' \in [Mails -> NoteRow] /\ note'[m] = row /\ \A k \in Mails \ {m} : note'[k] = note[k]
  BY <1>2, <1>3, <1>5, <1>6, OneNote
<1>8. \A k \in Mails : /\ note'[k].model = note[k].model /\ note'[k].user = note[k].user
                       /\ note'[k].read = note[k].read /\ note'[k].sorted = note[k].sorted
                       /\ (note[k].rule => note'[k].rule)
  BY <1>5, <1>7
<1>9. \A k \in Mails : k # m \/ note[k].user # {} \/ ~Settles(m) => Effective(k)' = Effective(k)
  <2>1. \A k \in Mails : k # m \/ note[k].user # {} => Effective(k)' = Effective(k)
    BY <1>7, <1>8, EffectiveStays
  <2>2. ~Settles(m) => Effective(m)' = Effective(m)
    BY <1>2, <1>3, <1>5, <1>7, RuleChangesNothing DEF PassesInv, Settles
  <2>3. QED
    BY <2>1, <2>2
<1>10. PassesTypes'
  BY <1>2, <1>4, <1>7 DEF PassesTypes
<1>11. Fresh'
  BY <1>2, <1>3, <1>7 DEF PassesInv, Fresh
<1>12. ModelRaises'
  BY <1>8 DEF PassesInv, ModelRaises
<1>13. PassAtWork'
  BY <1>2, <1>3, <1>4 DEF PassAtWork, PassListed, PassWrites, Sorting, Reading, Labelling
<1>14. PageAtWork'
  <2>1. PageAtWork /\ page' = page /\ item' = item /\ said' = said
    BY <1>2 DEF PassesInv
  <2>2. QED
    BY ONLY <1>8, <1>9, <2>1 DEF PageAtWork
<1>15. pass.at \in Classifying /\ pass'.at \in Classifying /\ pass'.at # "list" /\ pass'.at \notin Reading
  BY <1>2, <1>4 DEF Classifying, Reading
<1>16. Counting'
  BY <1>2, <1>15 DEF PassesInv, Counting
<1>17. ~UpToDate /\ ~UpToDate'
  BY <1>2, <1>15, <1>16, ClassifyingIsNotUpToDate DEF PassesInv, UpToDate, Few
<1>18. AllJudged'
  BY <1>17 DEF AllJudged
<1>19. \A k \in item : k # m \/ ~Settles(m) => (LevelFine(k) => LevelFine(k)')
  <2>1. \A k : ~PassSettles(k) /\ (PageSettles(k)' <=> PageSettles(k))
    BY <1>2 DEF PassSettles, PageSettles
  <2>2. QED
    BY <1>2, <1>9, <2>1 DEF LevelFine
<1>20. Settles(m) => LevelFine(m)'
  <2>1. Settles(m) => PassSettles(m)'
    BY <1>1, <1>4 DEF PassSettles
  <2>2. QED
    BY <2>1 DEF LevelFine
<1>21. LevelsFine'
  <2>1. ASSUME NEW k \in item PROVE LevelFine(k)' \/ (note'[k].model = {} /\ ~UpToDate')
    BY <1>2, <1>8, <1>17, <1>19, <1>20 DEF PassesInv, LevelsFine
  <2>2. QED
    BY <1>2, <2>1 DEF LevelsFine
<1>22. Progress'
  <2>1. ASSUME NEW ms \in SUBSET item, Listed(ms) PROVE Listed(ms)'
    <3>1. InTurn = pass.pending /\ InTurn' = pass'.pending
      BY <1>2, <1>4 DEF InTurn, Labelling
    <3>2. \A k \in InTurn' : note'[k].rule
      <4>1. \A k \in InTurn : k \in Mails /\ note[k].rule
        BY <1>2, <2>1, <3>1 DEF Listed, PassRow
      <4>2. \A k \in InTurn' : k \in InTurn \/ k = m
        BY <1>4, <3>1
      <4>3. QED
        BY <1>5, <1>7, <1>8, <4>1, <4>2
    <3>3. ASSUME NEW k \in ms \ (pass'.todo \cup pass'.pending) PROVE Judged(k)' /\ LevelFine(k)'
      <4>1. CASE k # m
        <5>1. Judged(k) /\ LevelFine(k) /\ k \in item /\ k \in Mails
          BY <1>2, <1>4, <2>1, <3>3, <4>1 DEF Listed
        <5>2. QED
          BY <1>2, <1>8, <1>19, <4>1, <5>1 DEF Judged, ByRule
      <4>2. CASE k = m
        <5>1. ByRule(m) \/ note[m].model # {}
          BY <1>4, <3>3, <4>2
        <5>2. Judged(m)'
          BY <1>3, <1>5, <1>7, <1>8, <5>1 DEF Judged, ByRule
        <5>3. LevelFine(m)'
          <6>1. CASE Settles(m)
            BY <1>20, <6>1
          <6>2. CASE ~Settles(m)
            <7>1. note[m].model # {}
              BY <5>1, <6>2 DEF Settles
            <7>2. LevelFine(m)
              BY <1>3, <7>1 DEF PassesInv, LevelsFine
            <7>3. QED
              BY <1>3, <1>19, <6>2, <7>2
          <6>3. QED
            BY <6>1, <6>2
        <5>4. QED
          BY <4>2, <5>2, <5>3
      <4>3. QED
        BY <4>1, <4>2
    <3>4. QED
      BY <3>2, <3>3 DEF Listed
  <2>2. Progress /\ item' = item /\ pass'.gone = pass.gone /\ pass'.counted = pass.counted /\ pass.at # "list"
    BY <1>2, <1>4 DEF PassesInv
  <2>3. QED
    BY <1>15, <2>1, <2>2 DEF Progress, Few
<1>23. CategoriesFine'
  <2>1. \A k : Category(k)' = Category(k) /\ ~PassSorts(k) /\ (PageSorts(k)' <=> PageSorts(k))
    BY <1>2 DEF Category, PassSorts, PageSorts
  <2>2. \A k \in item : SortFine(k) => SortFine(k)'
    BY <1>2, <2>1 DEF SortFine
  <2>3. QED
    BY <1>2, <1>8, <2>2 DEF PassesInv, CategoriesFine
<1>24. PromisesKept'
  <2>1. \A k : ~Marking(k)
    BY <1>2 DEF Marking
  <2>2. QED
    BY <1>2, <1>8, <1>15, <2>1 DEF PassesInv, PromisesKept
<1>25. QED
  BY <1>10, <1>11, <1>12, <1>13, <1>14, <1>16, <1>18, <1>21, <1>22, <1>23, <1>24 DEF PassesInv

\* A classification that settles: what is fine stays fine.
LEMMA SettlingMoves ==
  ASSUME PassesInv, pass' \in PassRow, cache' \in [Mails -> ItemRow],
         pass.at \in {"settle", "write"}, pass'.at \in Classifying \ {"list", "ask"},
         UNCHANGED <<item, note, promise, said, judgedAt, page, shrunk, silent, again>>,
         \A k \in Mails \ item : cache'[k] = cache[k],
         \A k \in Mails : cache'[k].category = cache[k].category,
         \A k : <<k, "category">> \in behind => <<k, "category">> \in behind',
         pass'.todo = pass.todo, pass'.pending = pass.pending, pass'.gone = pass.gone, pass'.counted = pass.counted,
         Labelling' <=> Labelling, pass'.at # "asked",
         PassAtWork',
         \A k \in item : LevelFine(k) => LevelFine(k)'
  PROVE  PassesInv'
<1>1. PassesTypes' /\ Fresh' /\ ModelRaises' /\ item \subseteq Mails
  BY DEF PassesInv, PassesTypes, Fresh, ModelRaises
<1>2. \A k : Effective(k)' = Effective(k)
  BY DEF Effective
<1>3. PageAtWork'
  BY <1>2 DEF PassesInv, PageAtWork
<1>4. pass.at \in Classifying /\ pass'.at \in Classifying /\ pass'.at # "list" /\ pass'.at \notin Reading
  BY DEF Classifying, Reading
<1>5. Counting'
  BY <1>4 DEF PassesInv, Counting
<1>6. UpToDate' <=> UpToDate
  BY DEF UpToDate, Few
<1>7. LevelsFine' /\ AllJudged'
  BY <1>6 DEF PassesInv, LevelsFine, AllJudged, ByRule
<1>8. Progress'
  <2>1. \A k : Judged(k)' <=> Judged(k)
    BY DEF Judged, ByRule
  <2>2. InTurn' = InTurn
    BY DEF InTurn
  <2>3. ASSUME NEW ms \in SUBSET item, Listed(ms) PROVE Listed(ms)'
    BY <2>1, <2>2, <2>3 DEF Listed
  <2>4. pass.at # "list"
    OBVIOUS
  <2>5. QED
    BY <1>4, <2>3, <2>4 DEF PassesInv, Progress, Few
<1>9. CategoriesFine'
  <2>1. \A k : Category(k)' = Category(k) /\ ~PassSorts(k) /\ (PageSorts(k)' <=> PageSorts(k))
    BY DEF Category, PassSorts, PageSorts
  <2>2. \A k \in item : SortFine(k) => SortFine(k)'
    BY <1>1, <2>1 DEF SortFine
  <2>3. QED
    BY <2>2 DEF PassesInv, CategoriesFine
<1>10. PromisesKept'
  <2>1. \A k : ~Marking(k)
    BY DEF Marking
  <2>2. QED
    BY <1>4, <2>1 DEF PassesInv, PromisesKept
<1>11. QED
  BY <1>1, <1>3, <1>5, <1>7, <1>8, <1>9, <1>10 DEF PassesInv

LEMMA SettleReadKeeps ==
  ASSUME PassesInv, UNCHANGED filesVars, SettleRead
  PROVE  PassesInv'
<1> USE DEF filesVars, rowVars
<1> DEFINE m == pass.of
<1>1. /\ pass.at = "settle" /\ m \notin pass.gone /\ pass \in PassRow /\ PassAtWork /\ PassesTypes
      /\ item \subseteq Mails /\ cache \in [Mails -> ItemRow]
      /\ pass' = [pass EXCEPT !.at = "write", !.saw = Effective(m)]
      /\ behind' = behind \ {<<m, "level">>}
      /\ UNCHANGED <<item, note, cache, promise, said, judgedAt, page, shrunk, silent, again>>
  BY DEF SettleRead, PassesInv, PassesTypes
<1>2. m \in Mails /\ Effective(m) \in Levels
  BY <1>1, EffectiveIsALevel DEF PassAtWork, PassListed, PassWrites
<1>3. /\ pass' \in PassRow /\ pass'.at = "write" /\ pass'.todo = pass.todo /\ pass'.of = m
      /\ pass'.pending = pass.pending /\ pass'.gone = pass.gone /\ pass'.counted = pass.counted
      /\ pass'.back = pass.back /\ pass'.saw = Effective(m)
  BY <1>1, <1>2 DEF PassRow, Classifying
<1>4. \A k : Effective(k)' = Effective(k)
  BY <1>1 DEF Effective
<1>5. PassAtWork'
  BY <1>1, <1>3, <1>4 DEF PassAtWork, PassListed, PassWrites, Sorting, Reading, Labelling
<1>6. ASSUME NEW k \in item, LevelFine(k) PROVE LevelFine(k)'
  <2>1. CASE k = m
    BY <1>1, <1>3, <2>1 DEF LevelFine, PassSettles
  <2>2. CASE k # m
    <3>1. ~PassSettles(k) /\ (PageSettles(k)' <=> PageSettles(k))
      BY <1>1, <2>2 DEF PassSettles, PageSettles
    <3>2. QED
      BY <1>1, <1>4, <1>6, <2>2, <3>1 DEF LevelFine
  <2>3. QED
    BY <2>1, <2>2
<1>7. Labelling' <=> Labelling
  BY <1>1, <1>3 DEF Labelling
<1>8. pass'.at \in Classifying \ {"list", "ask"} /\ pass'.at # "asked"
  BY <1>3 DEF Classifying
<1>9. \A k : <<k, "category">> \in behind => <<k, "category">> \in behind'
  BY <1>1
<1>10. QED
  BY ONLY <1>1, <1>3, <1>5, <1>6, <1>7, <1>8, <1>9, SettlingMoves, PassesInv

LEMMA SettleWriteKeeps ==
  ASSUME PassesInv, UNCHANGED filesVars, SettleWrite
  PROVE  PassesInv'
<1> USE DEF filesVars, rowVars
<1> DEFINE m == pass.of
           row == [cache[m] EXCEPT !.level = pass.saw]
<1>1. /\ pass.at = "write" /\ m \notin pass.gone /\ pass \in PassRow /\ PassAtWork /\ PassesTypes
      /\ item \subseteq Mails
      /\ pass' = [pass EXCEPT !.at = pass.back]
      /\ cache' = [cache EXCEPT ![m].level = pass.saw]
      /\ UNCHANGED <<item, note, promise, said, judgedAt, page, behind, shrunk, silent, again>>
  BY DEF SettleWrite, PassesInv, PassesTypes
<1>2. /\ m \in Mails /\ m \in item /\ pass.back \in {"judge", "label"} /\ pass.saw \in Levels
      /\ pass.saw = Effective(m) \/ <<m, "level">> \in behind
  BY <1>1 DEF PassAtWork, PassListed, PassWrites, PassRow
<1>3. /\ pass' \in PassRow /\ pass'.at = pass.back /\ pass'.todo = pass.todo /\ pass'.of = m
      /\ pass'.pending = pass.pending /\ pass'.gone = pass.gone /\ pass'.counted = pass.counted
      /\ pass'.back = pass.back /\ pass'.answer = pass.answer
  BY <1>1, <1>2 DEF PassRow, Classifying
<1>4. row \in ItemRow /\ row.level = pass.saw /\ row.category = cache[m].category
  BY <1>1, <1>2 DEF PassesTypes, ItemRow
<1>5. cache' = [cache EXCEPT ![m] = row]
  BY <1>1, <1>2 DEF PassesTypes
<1> HIDE DEF row
<1>6. cache' \in [Mails -> ItemRow] /\ cache'[m] = row /\ \A k \in Mails \ {m} : cache'[k] = cache[k]
  BY <1>1, <1>2, <1>4, <1>5, OneRow
<1>7. \A k : Effective(k)' = Effective(k)
  BY <1>1 DEF Effective
<1>8. PassAtWork'
  BY <1>1, <1>2, <1>3 DEF PassAtWork, PassListed, PassWrites, Sorting, Reading, Labelling
<1>9. ASSUME NEW k \in item, LevelFine(k) PROVE LevelFine(k)'
  <2>1. CASE k = m
    BY <1>1, <1>2, <1>4, <1>6, <1>7, <2>1 DEF LevelFine
  <2>2. CASE k # m
    <3>1. ~PassSettles(k) /\ (PageSettles(k)' <=> PageSettles(k)) /\ cache'[k] = cache[k]
      BY <1>1, <1>6, <2>2 DEF PassSettles, PageSettles
    <3>2. QED
      BY <1>1, <1>7, <1>9, <2>2, <3>1 DEF LevelFine
  <2>3. QED
    BY <2>1, <2>2
<1>10. Labelling' <=> Labelling
  BY <1>1, <1>2, <1>3 DEF Labelling
<1>11. pass'.at \in Classifying \ {"list", "ask"} /\ pass'.at # "asked"
  BY <1>2, <1>3 DEF Classifying
<1>12. /\ \A k \in Mails \ item : cache'[k] = cache[k]
       /\ \A k \in Mails : cache'[k].category = cache[k].category
  BY <1>2, <1>4, <1>6
<1>13. QED
  BY ONLY <1>1, <1>3, <1>6, <1>8, <1>9, <1>10, <1>11, <1>12, SettlingMoves, PassesInv

LEMMA LabelsAreLevels ==
  ASSUME NEW S \in SUBSET Levels, NEW f \in Levels
  PROVE  /\ {Max({l, f}) : l \in S} \in SUBSET Levels
         /\ \A k \in {Max({l, f}) : l \in S} : k >= f
         /\ S # {} => {Max({l, f}) : l \in S} # {}
<1>1. \A l \in S : Max({l, f}) \in Levels /\ Max({l, f}) >= f
  <2>1. TAKE l \in S
  <2>2. {l, f} \in SUBSET Levels /\ {l, f} # {}
    OBVIOUS
  <2>3. Max({l, f}) \in {l, f} /\ Max({l, f}) >= f
    BY <2>2, MaxIsThere
  <2>4. QED
    BY <2>3
<1>2. QED
  BY <1>1

LEMMA LabelKeeps ==
  ASSUME PassesInv, UNCHANGED filesVars, Label
  PROVE  PassesInv'
<1> USE DEF filesVars, rowVars
<1>1. PICK m \in pass.todo \ pass.gone :
       /\ note' = [note EXCEPT ![m].model = {Max({l, Floor[m]}) : l \in pass.answer[m]}]
       /\ silent' = IF pass.answer[m] = {} THEN silent \cup {m} ELSE silent
       /\ pass' = [pass EXCEPT !.at = "settle", !.of = m, !.back = "label", !.todo = @ \ {m}]
  BY DEF Label
<1>2. /\ pass.at = "label" /\ pass \in PassRow /\ PassAtWork /\ PassesTypes /\ item \subseteq Mails
      /\ UNCHANGED <<item, cache, promise, said, judgedAt, page, behind, shrunk, again>>
  BY DEF Label, PassesInv, PassesTypes
<1>3. m \in item /\ m \in Mails /\ m \in DOMAIN pass.answer
  BY <1>1, <1>2 DEF PassAtWork, PassListed, PassWrites, Labelling
<1>4. /\ pass' \in PassRow /\ pass'.at = "settle"
      /\ pass'.todo = pass.todo \ {m} /\ pass'.of = m /\ pass'.back = "label"
      /\ pass'.pending = pass.pending /\ pass'.answer = pass.answer
      /\ pass'.gone = pass.gone /\ pass'.counted = pass.counted
  BY <1>1, <1>2, <1>3 DEF PassRow, Classifying
<1> DEFINE labels == {Max({l, Floor[m]}) : l \in pass.answer[m]}
           row == [note[m] EXCEPT !.model = labels]
<1>5. pass.answer[m] \in SUBSET Levels /\ Floor[m] \in Levels
  <2>1. PICK ms \in SUBSET Mails : pass.answer \in [ms -> SUBSET Levels]
    BY <1>2 DEF PassRow, Answers
  <2>2. QED
    BY <1>3, <2>1, PassesAssumption
<1>6. labels \in SUBSET Levels /\ (\A k \in labels : k >= Floor[m]) /\ (pass.answer[m] # {} => labels # {})
  BY <1>5, LabelsAreLevels
<1>7. note' = [note EXCEPT ![m].model = labels]
  BY <1>1
<1> HIDE DEF labels
<1>8. /\ row \in NoteRow /\ row.model = labels /\ row.rule = note[m].rule /\ row.user = note[m].user
      /\ row.read = note[m].read /\ row.sorted = note[m].sorted
  BY <1>2, <1>3, <1>6 DEF PassesTypes, NoteRow
<1>9. note' = [note EXCEPT ![m] = row]
  BY <1>2, <1>3, <1>7 DEF PassesTypes
<1> HIDE DEF row
<1>10. note' \in [Mails -> NoteRow] /\ note'[m] = row /\ \A k \in Mails \ {m} : note'[k] = note[k]
  BY <1>2, <1>3, <1>8, <1>9, OneNote
<1>11. \A k \in Mails : /\ note'[k].rule = note[k].rule /\ note'[k].user = note[k].user
                        /\ note'[k].read = note[k].read /\ note'[k].sorted = note[k].sorted
  BY <1>8, <1>10
<1>12. \A k \in Mails : k # m \/ note[k].user # {} => Effective(k)' = Effective(k)
  BY <1>10, <1>11, EffectiveStays
<1>13. PassesTypes'
  BY <1>2, <1>4, <1>10 DEF PassesTypes
<1>14. Fresh'
  BY <1>2, <1>3, <1>10 DEF PassesInv, Fresh
<1>15. ModelRaises'
  BY <1>6, <1>8, <1>10 DEF PassesInv, ModelRaises
<1>16. PassAtWork'
  BY <1>2, <1>3, <1>4 DEF PassAtWork, PassListed, PassWrites, Sorting, Reading, Labelling
<1>17. PageAtWork'
  <2>1. PageAtWork /\ page' = page /\ item' = item /\ said' = said
    BY <1>2 DEF PassesInv
  <2>2. QED
    BY ONLY <1>11, <1>12, <2>1 DEF PageAtWork
<1>18. pass.at \in Classifying /\ pass'.at \in Classifying /\ pass'.at # "list" /\ pass'.at \notin Reading
  BY <1>2, <1>4 DEF Classifying, Reading
<1>19. Counting'
  BY <1>2, <1>18 DEF PassesInv, Counting
<1>20. ~UpToDate /\ ~UpToDate'
  BY <1>2, <1>18, <1>19, ClassifyingIsNotUpToDate DEF PassesInv, UpToDate, Few
<1>21. AllJudged'
  BY <1>20 DEF AllJudged
<1>22. \A k \in item : k # m => (LevelFine(k) => LevelFine(k)')
  <2>1. \A k : ~PassSettles(k) /\ (PageSettles(k)' <=> PageSettles(k))
    BY <1>2 DEF PassSettles, PageSettles
  <2>2. QED
    BY <1>2, <1>12, <2>1 DEF LevelFine
<1>23. LevelFine(m)'
  BY <1>1, <1>4 DEF PassSettles, LevelFine
<1>24. LevelsFine'
  <2>1. ASSUME NEW k \in item PROVE LevelFine(k)' \/ (note'[k].model = {} /\ ~UpToDate')
    <3>1. CASE k = m
      BY <1>23, <3>1
    <3>2. CASE k # m
      BY <1>2, <1>10, <1>20, <1>22, <3>2 DEF PassesInv, LevelsFine
    <3>3. QED
      BY <3>1, <3>2
  <2>2. QED
    BY <1>2, <2>1 DEF LevelsFine
<1>25. Progress'
  <2>1. ASSUME NEW ms \in SUBSET item, Listed(ms) PROVE Listed(ms)'
    <3>1. InTurn = pass.pending \cup pass.todo /\ InTurn' = pass'.pending \cup pass'.todo
      BY <1>2, <1>4 DEF InTurn, Labelling
    <3>2. \A k \in InTurn : k \in Mails /\ note[k].rule
      BY <1>2, <2>1, <3>1 DEF Listed, PassRow
    <3>3. \A k \in InTurn' : note'[k].rule
      BY <1>4, <1>11, <3>1, <3>2
    <3>4. Judged(m)'
      <4>1. note'[m].rule
        BY <1>1, <1>3, <1>11, <3>1, <3>2
      <4>2. note'[m].model # {} \/ m \in silent'
        BY <1>1, <1>6, <1>8, <1>10
      <4>3. QED
        BY <4>1, <4>2 DEF Judged
    <3>5. ASSUME NEW k \in ms \ (pass'.todo \cup pass'.pending) PROVE Judged(k)' /\ LevelFine(k)'
      <4>1. CASE k # m
        <5>1. Judged(k) /\ LevelFine(k) /\ k \in item /\ k \in Mails
          BY <1>2, <1>4, <2>1, <3>5, <4>1 DEF Listed
        <5>2. silent \subseteq silent'
          BY <1>1
        <5>3. QED
          BY <1>10, <1>22, <4>1, <5>1, <5>2 DEF Judged, ByRule
      <4>2. CASE k = m
        BY <1>23, <3>4, <4>2
      <4>3. QED
        BY <4>1, <4>2
    <3>6. QED
      BY <3>3, <3>5 DEF Listed
  <2>2. Progress /\ item' = item /\ pass'.gone = pass.gone /\ pass'.counted = pass.counted /\ pass.at # "list"
    BY <1>2, <1>4 DEF PassesInv
  <2>3. QED
    BY <1>18, <2>1, <2>2 DEF Progress, Few
<1>26. CategoriesFine'
  <2>1. \A k : Category(k)' = Category(k) /\ ~PassSorts(k) /\ (PageSorts(k)' <=> PageSorts(k))
    BY <1>2 DEF Category, PassSorts, PageSorts
  <2>2. \A k \in item : SortFine(k) => SortFine(k)'
    BY <1>2, <2>1 DEF SortFine
  <2>3. QED
    BY <1>2, <1>11, <2>2 DEF PassesInv, CategoriesFine
<1>27. PromisesKept'
  <2>1. \A k : ~Marking(k)
    BY <1>2 DEF Marking
  <2>2. QED
    BY <1>2, <1>11, <1>18, <2>1 DEF PassesInv, PromisesKept
<1>28. QED
  BY <1>13, <1>14, <1>15, <1>16, <1>17, <1>19, <1>21, <1>24, <1>25, <1>26, <1>27 DEF PassesInv

\* When it is done, it has judged what it counted, or what it counted has changed.
LEMMA ClassifyEndsKeeps ==
  ASSUME PassesInv, UNCHANGED filesVars, ClassifyEnds
  PROVE  PassesInv'
<1> USE DEF filesVars, rowVars
<1>1. /\ pass.at = "ask" /\ pass.pending = {} /\ pass.todo = {} /\ pass.counted \in Nat
      /\ judgedAt' = {pass.counted} /\ shrunk' = (pass.gone # {})
      /\ pass' = [Asleep EXCEPT !.at = "promises"]
      /\ UNCHANGED <<item, note, cache, promise, said, page, behind, silent, again>>
  BY DEF ClassifyEnds, Counted, PassesInv, PassesTypes, PassRow, PassAtWork, PassListed, PassWrites
<1>2. pass' \in PassRow /\ pass'.at = "promises" /\ pass'.todo = {} /\ pass'.pending = {}
  BY <1>1, Stopped
<1>3. PassesTypes'
  BY <1>1, <1>2 DEF PassesInv, PassesTypes
<1>4. Fresh' /\ ModelRaises'
  BY <1>1 DEF PassesInv, Fresh, ModelRaises
<1>5. \A m : Effective(m)' = Effective(m)
  BY <1>1 DEF Effective
<1>6. PassAtWork'
  BY <1>2 DEF PassAtWork, PassListed, PassWrites, Sorting, Reading, Labelling
<1>7. PageAtWork'
  <2>1. PageAtWork /\ page' = page /\ item' = item /\ said' = said /\ note' = note
    BY <1>1 DEF PassesInv
  <2>2. QED
    BY ONLY <1>5, <2>1 DEF PageAtWork
<1>8. pass.at \in Classifying /\ pass'.at \notin Classifying /\ pass'.at \notin Reading
  BY <1>1, <1>2 DEF Classifying, Reading
<1>9. IsFiniteSet(item) /\ Cardinality(item) \in Nat
  BY FS_CardinalityType DEF PassesInv, Counting
<1>10. pass.gone = {} => \E ms \in SUBSET item : Cardinality(ms) >= pass.counted /\ (Few => \A m \in ms : Judged(m) /\ LevelFine(m))
  BY <1>1, <1>8 DEF PassesInv, Progress, Listed
<1>11. pass.gone = {} => pass.counted <= Cardinality(item)
  <2>1. \A ms \in SUBSET item : Cardinality(ms) \in Nat /\ Cardinality(ms) <= Cardinality(item)
    BY <1>9, FS_Subset, FS_CardinalityType
  <2>2. QED
    BY <1>1, <1>9, <1>10, <2>1
<1>12. Counting'
  BY <1>1, <1>8, <1>9, <1>11 DEF Counting
<1>13. UpToDate' => \A m \in item : Judged(m) /\ LevelFine(m)
  <2>1. SUFFICES ASSUME UpToDate' PROVE \A m \in item : Judged(m) /\ LevelFine(m)
    OBVIOUS
  <2>2. pass.gone = {} /\ pass.counted = Cardinality(item) /\ Few
    BY <1>1, <2>1 DEF UpToDate, Few
  <2>3. PICK ms \in SUBSET item : Cardinality(ms) >= pass.counted /\ \A m \in ms : Judged(m) /\ LevelFine(m)
    BY <1>10, <2>2
  <2>4. Cardinality(ms) \in Nat /\ Cardinality(ms) <= Cardinality(item) /\ (Cardinality(ms) = Cardinality(item) => ms = item)
    BY <1>9, FS_Subset, FS_CardinalityType
  <2>5. ms = item
    BY <1>9, <2>2, <2>3, <2>4
  <2>6. QED
    BY <2>3, <2>5
<1>14. AllJudged'
  BY <1>1, <1>13 DEF AllJudged, Judged, ByRule
<1>15. \A m \in item : LevelFine(m) => LevelFine(m)'
  <2>1. \A m : ~PassSettles(m) /\ (PageSettles(m)' <=> PageSettles(m))
    BY <1>1 DEF PassSettles, PageSettles
  <2>2. QED
    BY <1>1, <1>5, <2>1 DEF LevelFine
<1>16. LevelsFine'
  <2>1. ASSUME NEW m \in item PROVE LevelFine(m)' \/ (note'[m].model = {} /\ ~UpToDate')
    <3>1. LevelFine(m) \/ note[m].model = {}
      BY DEF PassesInv, LevelsFine
    <3>2. QED
      BY <1>1, <1>13, <1>15, <3>1
  <2>2. QED
    BY <1>1, <2>1 DEF LevelsFine
<1>17. Progress'
  BY <1>8 DEF Progress, Few
<1>18. CategoriesFine'
  <2>1. \A m : Category(m)' = Category(m) /\ ~PassSorts(m) /\ (PageSorts(m)' <=> PageSorts(m))
    BY <1>1 DEF Category, PassSorts, PageSorts
  <2>2. \A m \in item : SortFine(m) => SortFine(m)'
    BY <1>1, <2>1 DEF SortFine
  <2>3. QED
    BY <1>1, <2>2 DEF PassesInv, CategoriesFine
<1>19. PromisesKept'
  <2>1. \A m : ~Marking(m)
    BY <1>1 DEF Marking
  <2>2. QED
    BY <1>1, <1>8, <2>1 DEF PassesInv, PromisesKept
<1>20. QED
  BY <1>3, <1>4, <1>6, <1>7, <1>12, <1>14, <1>16, <1>17, <1>18, <1>19 DEF PassesInv

-----------------------------------------------------------------------------
(* The user's word.                                                        *)

\* The page moves, or fails and leaves behind what it was at.
LEMMA PageMovesKeep ==
  ASSUME PassesInv, UNCHANGED filesVars, LevelRead \/ SenderFind \/ SenderEnds \/ PageFails
  PROVE  PassesInv'
<1> USE DEF filesVars, rowVars
<1>1. /\ page \in PageRow /\ PageAtWork /\ PassesTypes /\ item \subseteq Mails
      /\ UNCHANGED <<item, note, cache, promise, said, judgedAt, pass, shrunk, silent, again>>
      /\ behind \subseteq behind'
  BY DEF LevelRead, SenderFind, SenderEnds, PageFails, PassesInv, PassesTypes
<1>2. NoPage \in PageRow /\ NoPage.at = "idle" /\ (page' = NoPage => PageAtWork')
  BY NothingIsAnAnswer DEF PageAtWork
<1>3. CASE LevelRead /\ page.of \in page.gone
  <2>1. page' = NoPage /\ page.at = "noted"
    BY <1>3 DEF LevelRead
  <2>2. \A m : ~PageSettles(m) /\ ~PageSorts(m)
    BY <1>3, <2>1 DEF PageSettles, PageSorts
  <2>3. QED
    BY <1>1, <1>2, <2>1, <2>2, PageMoves
<1>4. CASE LevelRead /\ page.of \notin page.gone
  <2>1. page' = [page EXCEPT !.at = "seen", !.saw = Effective(page.of)] /\ page.at = "noted"
    BY <1>4 DEF LevelRead
  <2>2. page.of \in Mails /\ Effective(page.of) \in Levels
    BY <1>1, <2>1, EffectiveIsALevel DEF PageAtWork
  <2>3. /\ page' \in PageRow /\ page'.at = "seen" /\ page'.of = page.of /\ page'.saw = Effective(page.of)
        /\ page'.gone = page.gone
    BY <1>1, <2>1, <2>2 DEF PageRow
  <2>4. \A m : Effective(m)' = Effective(m)
    BY <1>1 DEF Effective
  <2>5. PageAtWork'
    BY <1>1, <2>1, <2>2, <2>3, <2>4 DEF PageAtWork
  <2>6. \A m : (PageSettles(m) => PageSettles(m)') /\ ~PageSorts(m)
    BY <2>1, <2>3 DEF PageSettles, PageSorts
  <2>7. QED
    BY <1>1, <2>3, <2>5, <2>6, PageMoves DEF LevelFine
<1>5. CASE SenderFind
  <2>1. page' = [page EXCEPT !.at = "each", !.left = item \cap Sender] /\ page.at = "sender"
    BY <1>5 DEF SenderFind
  <2>2. /\ page' \in PageRow /\ page'.at = "each" /\ page'.left = item \cap Sender /\ page'.gone = page.gone
    BY <1>1, <2>1 DEF PageRow
  <2>3. PageAtWork'
    BY <1>1, <2>1, <2>2 DEF PageAtWork
  <2>4. \A m \in item : (PageSorts(m) => PageSorts(m)') /\ ~PageSettles(m)
    BY <2>1, <2>2 DEF PageSettles, PageSorts
  <2>5. QED
    BY <1>1, <2>2, <2>3, <2>4, PageMoves DEF SortFine
<1>6. CASE SenderEnds
  <2>1. page' = NoPage /\ page.at = "each" /\ page.left = {}
    BY <1>6 DEF SenderEnds
  <2>2. \A m : ~PageSettles(m) /\ ~PageSorts(m)
    BY <2>1 DEF PageSettles, PageSorts
  <2>3. QED
    BY <1>1, <1>2, <2>1, <2>2, PageMoves
<1>7. CASE PageFails
  <2>1. page' = NoPage /\ PageCut \subseteq behind'
    BY <1>7 DEF PageFails
  <2>2. \A m : PageSettles(m) => <<m, "level">> \in behind'
    BY <2>1 DEF PageSettles, PageCut
  <2>3. \A m \in item : PageSorts(m) => <<m, "category">> \in behind'
    BY <2>1 DEF PageSorts, PageCut
  <2>4. QED
    BY <1>1, <1>2, <2>1, <2>2, <2>3, PageMoves DEF LevelFine, SortFine
<1>8. QED
  BY <1>3, <1>4, <1>5, <1>6, <1>7

\* The user's word changes neither what the machine judged nor what was read.
LEMMA SpeakingMoves ==
  ASSUME PassesInv, UNCHANGED <<item, promise, judgedAt, pass, shrunk, silent, again>>,
         PassesTypes', Fresh', PassAtWork', PageAtWork', CategoriesFine',
         \A k \in Mails : /\ note'[k].rule = note[k].rule /\ note'[k].model = note[k].model
                          /\ note'[k].read = note[k].read,
         \A k \in item : LevelFine(k) => LevelFine(k)'
  PROVE  PassesInv'
<1>1. item \subseteq Mails /\ pass \in PassRow
  BY DEF PassesInv, PassesTypes
<1>2. ModelRaises'
  BY DEF PassesInv, ModelRaises
<1>3. Counting'
  BY DEF PassesInv, Counting
<1>4. UpToDate' <=> UpToDate
  BY DEF UpToDate, Few
<1>5. LevelsFine' /\ AllJudged'
  BY <1>1, <1>4 DEF PassesInv, LevelsFine, AllJudged, ByRule
<1>6. Progress'
  <2>1. InTurn' = InTurn /\ InTurn \subseteq Mails
    BY <1>1 DEF InTurn, Labelling, PassRow
  <2>2. \A k \in item : Judged(k)' <=> Judged(k)
    BY <1>1 DEF Judged, ByRule
  <2>3. ASSUME NEW ms \in SUBSET item, Listed(ms) PROVE Listed(ms)'
    BY <2>1, <2>2, <2>3 DEF Listed
  <2>4. QED
    BY <2>3 DEF PassesInv, Progress, Few
<1>7. PromisesKept'
  <2>1. Coming' = Coming /\ Coming \subseteq Mails /\ \A k : Marking(k)' <=> Marking(k)
    <3>1. Coming' = Coming /\ \A k : Marking(k)' <=> Marking(k)
      BY DEF Coming, Marking
    <3>2. pass.at = "keep" => DOMAIN pass.answer \subseteq pass.todo
      BY DEF PassesInv, PassAtWork, PassListed, PassWrites
    <3>3. QED
      BY <1>1, <3>1, <3>2 DEF Coming, PassRow
  <2>2. QED
    BY <1>1, <2>1 DEF PassesInv, PromisesKept
<1>8. QED
  BY <1>2, <1>3, <1>5, <1>6, <1>7 DEF PassesInv

LEMMA SayLevelKeeps ==
  ASSUME PassesInv, UNCHANGED filesVars, NEW m \in Mails, NEW l \in Levels, SayLevel(m, l)
  PROVE  PassesInv'
<1> USE DEF filesVars, rowVars
<1> DEFINE row == [note[m] EXCEPT !.user = {l}]
           z == [NoPage EXCEPT !.at = "noted", !.of = m]
<1>1. /\ page.at = "idle" /\ m \in item /\ PassAtWork /\ PassesTypes /\ item \subseteq Mails
      /\ note' = [note EXCEPT ![m].user = {l}]
      /\ page' = z
      /\ behind' = (IF pass.at = "write" /\ pass.of = m THEN behind \cup {<<m, "level">>} ELSE behind)
      /\ UNCHANGED <<item, cache, promise, said, judgedAt, pass, shrunk, silent, again>>
  BY DEF SayLevel, PassesInv, PassesTypes
<1>2. z \in PageRow /\ z.at = "noted" /\ z.of = m /\ z.gone = {}
  BY NothingIsAnAnswer DEF NoPage, PageRow
<1> HIDE DEF z
<1>3. /\ row \in NoteRow /\ row.rule = note[m].rule /\ row.model = note[m].model /\ row.user = {l}
      /\ row.read = note[m].read /\ row.sorted = note[m].sorted
  BY <1>1 DEF PassesTypes, NoteRow
<1>4. note' = [note EXCEPT ![m] = row]
  BY <1>1 DEF PassesTypes
<1> HIDE DEF row
<1>5. note' \in [Mails -> NoteRow] /\ note'[m] = row /\ \A k \in Mails \ {m} : note'[k] = note[k]
  BY <1>1, <1>3, <1>4, OneNote
<1>6. \A k \in Mails : /\ note'[k].rule = note[k].rule /\ note'[k].model = note[k].model
                       /\ note'[k].read = note[k].read /\ note'[k].sorted = note[k].sorted
  BY <1>3, <1>5
<1>7. \A k \in Mails \ {m} : Effective(k)' = Effective(k)
  BY <1>5, EffectiveStays
<1>8. PassesTypes'
  BY <1>1, <1>2, <1>5 DEF PassesTypes
<1>9. Fresh'
  BY <1>1, <1>5 DEF PassesInv, Fresh
<1>10. behind \subseteq behind' /\ (pass.at = "write" /\ pass.of = m => <<m, "level">> \in behind')
  BY <1>1
<1>11. PassAtWork'
  <2>1. \A k \in Mails : pass.at = "write" /\ k = pass.of /\ k \notin pass.gone =>
          pass.saw = Effective(k)' \/ <<k, "level">> \in behind'
    BY <1>1, <1>7, <1>10 DEF PassAtWork, PassListed, PassWrites
  <2>2. PassAtWork /\ item' = item /\ pass' = pass /\ said' = said /\ said \in BOOLEAN
    BY <1>1 DEF PassesTypes
  <2>3. Labelling' <=> Labelling
    BY <2>2 DEF Labelling
  <2>4. pass.at \in Sorting /\ pass.word = "rule" /\ said =>
          \A k \in Sender \ pass.gone :
            k \in pass.todo \/ (k = pass.of /\ pass.at # "sort") => <<k, "category">> \in behind'
    BY <1>10, <2>2 DEF PassAtWork, PassListed, PassWrites
  <2>5. QED
    BY ONLY <2>1, <2>2, <2>3, <2>4 DEF PassAtWork, PassListed, PassWrites
<1>12. PageAtWork'
  BY <1>1, <1>2, <1>3, <1>5 DEF PageAtWork
<1>13. ASSUME NEW k \in item, LevelFine(k) PROVE LevelFine(k)'
  <2>1. CASE k = m
    BY <1>1, <1>2, <2>1 DEF LevelFine, PageSettles
  <2>2. CASE k # m
    <3>1. (PassSettles(k)' <=> PassSettles(k)) /\ ~PageSettles(k)
      BY <1>1 DEF PassSettles, PageSettles
    <3>2. QED
      BY <1>1, <1>7, <1>10, <1>13, <2>2, <3>1 DEF LevelFine
  <2>3. QED
    BY <2>1, <2>2
<1>14. CategoriesFine'
  <2>1. \A k : Category(k)' = Category(k) /\ (PassSorts(k)' <=> PassSorts(k)) /\ ~PageSorts(k)
    BY <1>1 DEF Category, PassSorts, PageSorts
  <2>2. \A k \in item : SortFine(k) => SortFine(k)'
    BY <1>1, <1>10, <2>1 DEF SortFine
  <2>3. QED
    BY <1>1, <1>6, <2>2 DEF PassesInv, CategoriesFine
<1>15. QED
  BY <1>1, <1>6, <1>8, <1>9, <1>11, <1>12, <1>13, <1>14, SpeakingMoves

LEMMA LevelWriteKeeps ==
  ASSUME PassesInv, UNCHANGED filesVars, LevelWrite
  PROVE  PassesInv'
<1> USE DEF filesVars, rowVars
<1> DEFINE m == page.of
           row == [cache[m] EXCEPT !.level = page.saw]
<1>1. /\ page.at = "seen" /\ page \in PageRow /\ PageAtWork /\ PassesTypes /\ item \subseteq Mails
      /\ page' = NoPage
      /\ UNCHANGED <<item, note, promise, said, judgedAt, pass, behind, shrunk, silent, again>>
  BY DEF LevelWrite, PassesInv, PassesTypes
<1>2. m \in Mails /\ page.saw \in Levels /\ (m \notin page.gone => m \in item /\ page.saw = Effective(m))
  BY <1>1 DEF PageAtWork, PageRow
<1>3. row \in ItemRow /\ row.level = page.saw /\ row.category = cache[m].category
  BY <1>1, <1>2 DEF PassesTypes, ItemRow
<1>4. cache' = IF m \in page.gone THEN cache ELSE [cache EXCEPT ![m] = row]
  BY <1>1, <1>2 DEF LevelWrite, PassesTypes
<1> HIDE DEF row
<1>5. /\ cache' \in [Mails -> ItemRow] /\ \A k \in Mails \ {m} : cache'[k] = cache[k]
      /\ \A k \in Mails : cache'[k].category = cache[k].category
      /\ IF m \in page.gone THEN cache'[m] = cache[m] ELSE cache'[m].level = page.saw
  <2>1. CASE m \in page.gone
    BY <1>1, <1>4, <2>1 DEF PassesTypes
  <2>2. CASE m \notin page.gone
    <3>1. cache' \in [Mails -> ItemRow] /\ cache'[m] = row /\ \A k \in Mails \ {m} : cache'[k] = cache[k]
      BY <1>1, <1>2, <1>3, <1>4, <2>2, OneRow
    <3>2. QED
      BY <1>3, <2>2, <3>1
  <2>3. QED
    BY <2>1, <2>2
<1>6. page' \in PageRow /\ page'.at = "idle"
  BY <1>1, NothingIsAnAnswer
<1>7. PassesTypes'
  BY <1>1, <1>5, <1>6 DEF PassesTypes
<1>8. Fresh'
  BY <1>1, <1>2, <1>5 DEF PassesInv, Fresh
<1>9. \A k : Effective(k)' = Effective(k)
  BY <1>1 DEF Effective
<1>10. PassAtWork'
  <2>1. /\ PassAtWork /\ item' = item /\ pass' = pass /\ said' = said /\ behind \subseteq behind'
        /\ said \in BOOLEAN
    BY <1>1 DEF PassesInv, PassesTypes
  <2>2. QED
    BY ONLY <1>9, <2>1, PassAtWorkStays
<1>11. PageAtWork'
  BY <1>6 DEF PageAtWork
<1>12. ASSUME NEW k \in item, LevelFine(k) PROVE LevelFine(k)'
  <2>1. PassSettles(k)' <=> PassSettles(k)
    BY <1>1 DEF PassSettles
  <2>2. CASE k = m /\ m \notin page.gone
    BY <1>2, <1>5, <1>9, <2>2 DEF LevelFine
  <2>3. CASE ~(k = m /\ m \notin page.gone)
    <3>1. cache'[k] = cache[k] /\ ~PageSettles(k)
      BY <1>1, <1>5, <2>3 DEF PageSettles
    <3>2. QED
      BY <1>1, <1>9, <1>12, <2>1, <3>1 DEF LevelFine
  <2>4. QED
    BY <2>2, <2>3
<1>13. CategoriesFine'
  <2>1. \A k : Category(k)' = Category(k) /\ (PassSorts(k)' <=> PassSorts(k)) /\ ~PageSorts(k)
    BY <1>1 DEF Category, PassSorts, PageSorts
  <2>2. \A k \in item : SortFine(k) => SortFine(k)'
    BY <1>1, <1>5, <2>1 DEF SortFine
  <2>3. QED
    BY <1>1, <2>2 DEF PassesInv, CategoriesFine
<1>14. QED
  BY <1>1, <1>7, <1>8, <1>10, <1>11, <1>12, <1>13, SpeakingMoves

LEMMA SaySenderKeeps ==
  ASSUME PassesInv, UNCHANGED filesVars, SaySender
  PROVE  PassesInv'
<1> USE DEF filesVars, rowVars
<1> DEFINE shorter == IF pass.at \in Sorting /\ pass.word = "rule"
                  THEN ((pass.todo \cup {pass.of}) \cap Sender) \X {"category"} ELSE {}
           z == [NoPage EXCEPT !.at = "sender"]
<1>1. /\ page.at = "idle" /\ said' = TRUE /\ page' = z /\ behind' = behind \cup shorter
      /\ PassAtWork /\ PassesTypes /\ item \subseteq Mails
      /\ UNCHANGED <<item, note, cache, promise, judgedAt, pass, shrunk, silent, again>>
  BY DEF SaySender, PassesInv, PassesTypes
<1>2. z \in PageRow /\ z.at = "sender" /\ z.gone = {}
  BY NothingIsAnAnswer DEF NoPage, PageRow
<1> HIDE DEF z
<1>3. /\ behind \subseteq behind' /\ \A k : <<k, "level">> \in behind' <=> <<k, "level">> \in behind
      /\ pass.at \in Sorting /\ pass.word = "rule" =>
           \A k \in Sender : k \in pass.todo \/ k = pass.of => <<k, "category">> \in behind'
  BY <1>1
<1> HIDE DEF shorter
<1>4. PassesTypes' /\ Fresh'
  BY <1>1, <1>2 DEF PassesInv, PassesTypes, Fresh
<1>5. \A k : Effective(k)' = Effective(k)
  BY <1>1 DEF Effective
<1>6. PassAtWork'
  <2>1. PassAtWork /\ item' = item /\ pass' = pass /\ said' = TRUE
    BY <1>1
  <2>2. QED
    BY ONLY <1>3, <1>5, <2>1 DEF PassAtWork, PassListed, PassWrites, Labelling
<1>7. PageAtWork'
  BY <1>1, <1>2 DEF PageAtWork
<1>8. ASSUME NEW k \in item, LevelFine(k) PROVE LevelFine(k)'
  <2>1. (PassSettles(k)' <=> PassSettles(k)) /\ ~PageSettles(k)
    BY <1>1 DEF PassSettles, PageSettles
  <2>2. QED
    BY <1>1, <1>3, <1>5, <1>8, <2>1 DEF LevelFine
<1>9. CategoriesFine'
  <2>1. ASSUME NEW k \in item, note[k].sorted PROVE SortFine(k)'
    <3>1. CASE k \in Sender
      BY <1>1, <1>2, <3>1 DEF SortFine, PageSorts
    <3>2. CASE k \notin Sender
      <4>1. Category(k)' = Category(k) /\ (PassSorts(k)' <=> PassSorts(k)) /\ ~PageSorts(k)
        BY <1>1, <3>2 DEF Category, PassSorts, PageSorts
      <4>2. SortFine(k)
        BY <2>1 DEF PassesInv, CategoriesFine
      <4>3. QED
        BY <1>1, <1>3, <4>1, <4>2 DEF SortFine
    <3>3. QED
      BY <3>1, <3>2
  <2>2. QED
    BY <1>1, <2>1 DEF CategoriesFine
<1>10. QED
  BY <1>1, <1>4, <1>6, <1>7, <1>8, <1>9, SpeakingMoves

LEMMA SenderNoteKeeps ==
  ASSUME PassesInv, UNCHANGED filesVars, SenderNote
  PROVE  PassesInv'
<1> USE DEF filesVars, rowVars
<1>1. PICK m \in page.left \ page.gone :
       /\ note' = [note EXCEPT ![m].sorted = TRUE]
       /\ page' = [page EXCEPT !.at = "each write", !.of = m]
  BY DEF SenderNote
<1>2. /\ page.at = "each" /\ page \in PageRow /\ PageAtWork /\ PassAtWork /\ PassesTypes /\ item \subseteq Mails
      /\ UNCHANGED <<item, cache, promise, said, judgedAt, pass, behind, shrunk, silent, again>>
  BY DEF SenderNote, PassesInv, PassesTypes
<1>3. m \in item /\ m \in Mails /\ m \in Sender
  BY <1>1, <1>2 DEF PageAtWork
<1>4. /\ page' \in PageRow /\ page'.at = "each write" /\ page'.of = m /\ page'.left = page.left
      /\ page'.gone = page.gone
  BY <1>1, <1>2, <1>3 DEF PageRow
<1> DEFINE row == [note[m] EXCEPT !.sorted = TRUE]
<1>5. /\ row \in NoteRow /\ row.rule = note[m].rule /\ row.model = note[m].model /\ row.user = note[m].user
      /\ row.read = note[m].read /\ row.sorted = TRUE
  BY <1>2, <1>3 DEF PassesTypes, NoteRow
<1>6. note' = [note EXCEPT ![m] = row]
  BY <1>1, <1>2, <1>3 DEF PassesTypes
<1> HIDE DEF row
<1>7. /\ note' \in [Mails -> NoteRow]
      /\ note'[m] = row /\ \A k \in Mails \ {m} : note'[k] = note[k]
      /\ \A k \in Mails : note'[k].rule = note[k].rule /\ note'[k].model = note[k].model
                          /\ note'[k].user = note[k].user /\ Effective(k)' = Effective(k)
  BY <1>2, <1>3, <1>5, <1>6, NotesAsBefore
<1>8. \A k \in Mails : note'[k].read = note[k].read
  BY <1>5, <1>7
<1>9. PassesTypes'
  BY <1>2, <1>4, <1>7 DEF PassesTypes
<1>10. Fresh'
  BY <1>2, <1>3, <1>7 DEF PassesInv, Fresh
<1>11. PassAtWork'
  <2>1. /\ PassAtWork /\ item' = item /\ pass' = pass /\ said' = said /\ behind \subseteq behind'
        /\ said \in BOOLEAN
    BY <1>2 DEF PassesTypes
  <2>2. QED
    BY ONLY <1>7, <2>1, PassAtWorkStays
<1>12. PageAtWork'
  <2>1. said /\ page.left \subseteq Sender /\ page.left \ page.gone \subseteq item
    BY <1>2 DEF PageAtWork
  <2>2. said'
    BY <1>2, <2>1 DEF PassesTypes
  <2>3. QED
    BY <1>1, <1>2, <1>3, <1>4, <2>1, <2>2 DEF PageAtWork
<1>13. ASSUME NEW k \in item, LevelFine(k) PROVE LevelFine(k)'
  <2>1. (PassSettles(k)' <=> PassSettles(k)) /\ ~PageSettles(k)
    BY <1>2 DEF PassSettles, PageSettles
  <2>2. QED
    BY <1>2, <1>7, <1>13, <2>1 DEF LevelFine
<1>14. CategoriesFine'
  <2>1. ASSUME NEW k \in item, note'[k].sorted PROVE SortFine(k)'
    <3>1. CASE k = m
      BY <1>1, <1>4, <3>1 DEF SortFine, PageSorts
    <3>2. CASE k # m
      <4>1. note[k].sorted
        BY <1>2, <1>7, <2>1, <3>2
      <4>2. SortFine(k)
        BY <4>1 DEF PassesInv, CategoriesFine
      <4>3. Category(k)' = Category(k) /\ (PassSorts(k)' <=> PassSorts(k)) /\ (PageSorts(k)' <=> PageSorts(k))
        BY <1>2, <1>4 DEF Category, PassSorts, PageSorts
      <4>4. QED
        BY <1>2, <4>2, <4>3 DEF SortFine
    <3>3. QED
      BY <3>1, <3>2
  <2>2. QED
    BY <1>2, <2>1 DEF CategoriesFine
<1>15. QED
  BY <1>2, <1>7, <1>8, <1>9, <1>10, <1>11, <1>12, <1>13, <1>14, SpeakingMoves

LEMMA SenderWriteKeeps ==
  ASSUME PassesInv, UNCHANGED filesVars, SenderWrite
  PROVE  PassesInv'
<1> USE DEF filesVars, rowVars
<1> DEFINE m == page.of
           row == [cache[m] EXCEPT !.category = "said"]
<1>1. /\ page.at = "each write" /\ page \in PageRow /\ PageAtWork /\ PassesTypes /\ item \subseteq Mails
      /\ page' = [page EXCEPT !.at = "each", !.left = @ \ {m}]
      /\ UNCHANGED <<item, note, promise, said, judgedAt, pass, behind, shrunk, silent, again>>
  BY DEF SenderWrite, PassesInv, PassesTypes
<1>2. m \in Mails /\ m \in Sender /\ said = TRUE /\ (m \notin page.gone => m \in item)
  BY <1>1 DEF PageAtWork, PassesTypes
<1>3. row \in ItemRow /\ row.level = cache[m].level /\ row.category = "said"
  BY <1>1, <1>2 DEF PassesTypes, ItemRow
<1>4. cache' = IF m \in page.gone THEN cache ELSE [cache EXCEPT ![m] = row]
  BY <1>1, <1>2 DEF SenderWrite, PassesTypes
<1> HIDE DEF row
<1>5. /\ cache' \in [Mails -> ItemRow] /\ \A k \in Mails \ {m} : cache'[k] = cache[k]
      /\ \A k \in Mails : cache'[k].level = cache[k].level
      /\ IF m \in page.gone THEN cache'[m] = cache[m] ELSE cache'[m].category = "said"
  <2>1. CASE m \in page.gone
    BY <1>1, <1>4, <2>1 DEF PassesTypes
  <2>2. CASE m \notin page.gone
    <3>1. cache' \in [Mails -> ItemRow] /\ cache'[m] = row /\ \A k \in Mails \ {m} : cache'[k] = cache[k]
      BY <1>1, <1>2, <1>3, <1>4, <2>2, OneRow
    <3>2. QED
      BY <1>3, <2>2, <3>1
  <2>3. QED
    BY <2>1, <2>2
<1>6. page' \in PageRow /\ page'.at = "each" /\ page'.left = page.left \ {m} /\ page'.gone = page.gone
  BY <1>1 DEF PageRow
<1>7. PassesTypes'
  BY <1>1, <1>5, <1>6 DEF PassesTypes
<1>8. Fresh'
  BY <1>1, <1>2, <1>5 DEF PassesInv, Fresh
<1>9. \A k : Effective(k)' = Effective(k)
  BY <1>1 DEF Effective
<1>10. PassAtWork'
  <2>1. /\ PassAtWork /\ item' = item /\ pass' = pass /\ said' = said /\ behind \subseteq behind'
        /\ said \in BOOLEAN
    BY <1>1 DEF PassesInv, PassesTypes
  <2>2. QED
    BY ONLY <1>9, <2>1, PassAtWorkStays
<1>11. PageAtWork'
  BY <1>1, <1>2, <1>6 DEF PageAtWork
<1>12. ASSUME NEW k \in item, LevelFine(k) PROVE LevelFine(k)'
  <2>1. (PassSettles(k)' <=> PassSettles(k)) /\ ~PageSettles(k) /\ cache'[k].level = cache[k].level
    BY <1>1, <1>5 DEF PassSettles, PageSettles
  <2>2. QED
    BY <1>1, <1>9, <1>12, <2>1 DEF LevelFine
<1>13. CategoriesFine'
  <2>1. ASSUME NEW k \in item, note[k].sorted PROVE SortFine(k)'
    <3>1. Category(k)' = Category(k) /\ (PassSorts(k)' <=> PassSorts(k))
      BY <1>1 DEF Category, PassSorts
    <3>2. SortFine(k)
      BY <2>1 DEF PassesInv, CategoriesFine
    <3>3. CASE k = m /\ m \notin page.gone
      <4>1. cache'[k].category = "said" /\ Category(k) = "said"
        BY <1>2, <1>5, <3>3 DEF Category
      <4>2. QED
        BY <3>1, <4>1 DEF SortFine
    <3>4. CASE ~(k = m /\ m \notin page.gone)
      <4>1. cache'[k] = cache[k] /\ (PageSorts(k) => PageSorts(k)')
        BY <1>1, <1>5, <1>6, <3>4 DEF PageSorts
      <4>2. QED
        BY <1>1, <3>1, <3>2, <4>1 DEF SortFine
    <3>5. QED
      BY <3>3, <3>4
  <2>2. QED
    BY <1>1, <2>1 DEF CategoriesFine
<1>14. QED
  BY <1>1, <1>7, <1>8, <1>10, <1>11, <1>12, <1>13, SpeakingMoves

LEMMA RejectKeeps ==
  ASSUME PassesInv, UNCHANGED filesVars, NEW m \in Mails, Reject(m)
  PROVE  PassesInv'
<1> USE DEF filesVars, rowVars
<1>1. /\ "open" \in promise[m] /\ PassesTypes /\ PassAtWork /\ PageAtWork /\ item \subseteq Mails
      /\ promise' = [promise EXCEPT ![m] = (@ \ {"open"}) \cup {"rejected"}]
      /\ UNCHANGED <<item, note, cache, said, judgedAt, pass, page, behind, shrunk, silent, again>>
  BY DEF Reject, PassesInv, PassesTypes
<1>2. m \in item
  BY <1>1 DEF PassesInv, Fresh, Standing
<1>3. /\ promise' \in [Mails -> SUBSET {"open", "rejected", "stray"}]
      /\ promise'[m] = (promise[m] \ {"open"}) \cup {"rejected"}
      /\ \A k \in Mails \ {m} : promise'[k] = promise[k]
  BY <1>1 DEF PassesTypes
<1>4. \A k \in Mails : promise'[k] \cap Standing # {} <=> promise[k] \cap Standing # {}
  BY <1>1, <1>3 DEF Standing
<1>5. PassesTypes'
  BY <1>1, <1>3 DEF PassesTypes
<1>6. Fresh' /\ ModelRaises' /\ Counting'
  BY <1>1, <1>2, <1>3 DEF PassesInv, Fresh, ModelRaises, Counting
<1>7. \A k : Effective(k)' = Effective(k)
  BY <1>1 DEF Effective
<1>8. PassAtWork' /\ PageAtWork'
  <2>1. /\ PassAtWork /\ PageAtWork /\ item' = item /\ pass' = pass /\ page' = page
        /\ said' = said /\ behind' = behind /\ note' = note /\ said \in BOOLEAN
    BY <1>1 DEF PassesTypes
  <2>2. PassAtWork'
    BY ONLY <1>7, <2>1, PassAtWorkStays
  <2>3. PageAtWork'
    BY ONLY <1>7, <2>1 DEF PageAtWork
  <2>4. QED
    BY <2>2, <2>3
<1>9. \A k : LevelFine(k) => LevelFine(k)'
  BY <1>1, <1>7 DEF LevelFine, PassSettles, PageSettles
<1>10. (UpToDate' <=> UpToDate) /\ \A k : Judged(k)' <=> Judged(k)
  BY <1>1 DEF UpToDate, Few, Judged, ByRule
<1>11. LevelsFine' /\ AllJudged'
  BY <1>1, <1>9, <1>10 DEF PassesInv, LevelsFine, AllJudged, ByRule
<1>12. Progress'
  <2>1. InTurn' = InTurn
    BY <1>1 DEF InTurn, Labelling
  <2>2. ASSUME NEW ms \in SUBSET item, Listed(ms) PROVE Listed(ms)'
    BY <1>1, <1>9, <1>10, <2>1, <2>2 DEF Listed
  <2>3. QED
    BY <1>1, <2>2 DEF PassesInv, Progress, Few
<1>13. CategoriesFine'
  BY <1>1 DEF PassesInv, CategoriesFine, SortFine, Category, PassSorts, PageSorts
<1>14. PromisesKept'
  <2>1. \A k \in Mails : "rejected" \in promise'[k] /\ k \notin again => "open" \notin promise'[k]
    BY <1>3 DEF PassesInv, PromisesKept
  <2>2. (\A k : Marking(k)' <=> Marking(k)) /\ Coming' = Coming /\ Coming \subseteq Mails
    <3>1. (\A k : Marking(k)' <=> Marking(k)) /\ Coming' = Coming
      BY <1>1 DEF Marking, Coming
    <3>2. Coming \subseteq Mails
      BY <1>1 DEF PassesTypes, PassAtWork, PassListed, PassWrites, Coming, PassRow
    <3>3. QED
      BY <3>1, <3>2
  <2>3. QED
    BY <1>1, <1>4, <2>1, <2>2 DEF PassesInv, PromisesKept
<1>15. QED
  BY <1>5, <1>6, <1>8, <1>11, <1>12, <1>13, <1>14 DEF PassesInv

\* Every step of the passes and of the user's word.
LEMMA WorkKeeps ==
  ASSUME PassesInv, UNCHANGED filesVars, Pass \/ Speak
  PROVE  PassesInv'
<1>1. CASE Pass
  <2>1. CASE Wake \/ SortLook \/ SortNote \/ SortWrite
    BY <2>1, WakeKeeps, SortLookKeeps, SortNoteKeeps, SortWriteKeeps
  <2>2. CASE SortEnds \/ SortFails \/ ClassifyFails \/ ReadEnds \/ ReadFails
    BY <2>2, StopsKeep
  <2>3. CASE Count
    BY <2>3, StopsKeep, CountKeeps
  <2>4. CASE List \/ Judge \/ SettleRead \/ SettleWrite
    BY <2>4, ListKeeps, JudgeKeeps, SettleReadKeeps, SettleWriteKeeps
  <2>5. CASE JudgeEnds \/ Ask \/ Answered \/ LabelEnds
    BY <2>5, AskingKeeps
  <2>6. CASE Label \/ ClassifyEnds \/ ListUnread \/ Mark \/ Keep
    BY <2>6, LabelKeeps, ClassifyEndsKeeps, ListUnreadKeeps, MarkKeeps, KeepKeeps
  <2>7. CASE Marked \/ Read \/ Found \/ Kept
    BY <2>7, ReadingKeeps
  <2>8. QED
    BY <1>1, <2>1, <2>2, <2>3, <2>4, <2>5, <2>6, <2>7 DEF Pass
<1>2. CASE Speak
  <2>1. CASE LevelRead \/ SenderFind \/ SenderEnds \/ PageFails
    BY <2>1, PageMovesKeep
  <2>2. CASE LevelWrite \/ SaySender \/ SenderNote \/ SenderWrite
    BY <2>2, LevelWriteKeeps, SaySenderKeeps, SenderNoteKeeps, SenderWriteKeeps
  <2>3. CASE (\E m \in Mails, l \in Levels : SayLevel(m, l)) \/ \E m \in Mails : Reject(m)
    BY <2>3, SayLevelKeeps, RejectKeeps
  <2>4. QED
    BY <1>2, <2>1, <2>2, <2>3 DEF Speak
<1>3. QED
  BY <1>1, <1>2

-----------------------------------------------------------------------------
(* Items come and go.                                                      *)

\* What is there of a mail whose item stays is as it was; of one whose item came
\* in there is nothing, as there is of one whose item went.
WhatStays ==
  \A m \in Mails :
    IF m \in item \ item'
    THEN note'[m] = NoNote /\ cache'[m] = NewItem /\ promise'[m] = promise[m] \cap {"stray"}
    ELSE note'[m] = note[m] /\ cache'[m] = cache[m] /\ promise'[m] = promise[m]

LEMMA FollowKeepsRows ==
  ASSUME PassesInv, Follow, item' \subseteq Mails
  PROVE  /\ WhatStays /\ Fresh' /\ ModelRaises'
         /\ note' \in [Mails -> NoteRow] /\ cache' \in [Mails -> ItemRow]
         /\ promise' \in [Mails -> SUBSET {"open", "rejected", "stray"}]
         /\ \A m \in item' \ item : note'[m] = NoNote /\ cache'[m] = NewItem /\ promise'[m] \cap Standing = {}
<1> DEFINE left == item \ item'
<1>1. /\ note' = [m \in Mails |-> IF m \in left THEN NoNote ELSE note[m]]
      /\ cache' = [m \in Mails |-> IF m \in left THEN NewItem ELSE cache[m]]
      /\ promise' = [m \in Mails |-> IF m \in left THEN promise[m] \cap {"stray"} ELSE promise[m]]
  BY DEF Follow, PromisesWithout
<1>2. /\ item \subseteq Mails /\ note \in [Mails -> NoteRow] /\ cache \in [Mails -> ItemRow]
      /\ promise \in [Mails -> SUBSET {"open", "rejected", "stray"}]
  BY DEF PassesInv, PassesTypes
<1>3. NoNote \in NoteRow /\ NewItem \in ItemRow /\ NoNote.model = {}
  BY DEF NoNote, NewItem, NoteRow, ItemRow, Levels, Personal
<1>4. WhatStays
  BY <1>1, <1>2 DEF WhatStays
<1>5. /\ note' \in [Mails -> NoteRow] /\ cache' \in [Mails -> ItemRow]
      /\ promise' \in [Mails -> SUBSET {"open", "rejected", "stray"}]
  BY <1>1, <1>2, <1>3
<1>6. \A m \in Mails \ item : note[m] = NoNote /\ cache[m] = NewItem /\ promise[m] \cap Standing = {}
  BY DEF PassesInv, Fresh
<1>7. \A m \in item' \ item : note'[m] = NoNote /\ cache'[m] = NewItem /\ promise'[m] \cap Standing = {}
  BY <1>4, <1>6 DEF WhatStays
<1>8. Fresh'
  <2>1. \A m \in Mails \ item' : note'[m] = NoNote /\ cache'[m] = NewItem /\ promise'[m] \cap Standing = {}
    BY <1>4, <1>6 DEF WhatStays, Standing
  <2>2. QED
    BY <2>1 DEF Fresh
<1>9. ModelRaises'
  BY <1>3, <1>4 DEF PassesInv, ModelRaises, WhatStays
<1>10. QED
  BY <1>4, <1>5, <1>7, <1>8, <1>9

\* The core stops, and the pass and the page with it.
LEMMA StoppedKeeps ==
  ASSUME PassesInv, Follow, item' \subseteq Mails, IsFiniteSet(item)', up, ~up'
  PROVE  PassesInv'
<1>1. /\ WhatStays /\ Fresh' /\ ModelRaises'
      /\ note' \in [Mails -> NoteRow] /\ cache' \in [Mails -> ItemRow]
      /\ promise' \in [Mails -> SUBSET {"open", "rejected", "stray"}]
      /\ \A m \in item' \ item : note'[m] = NoNote /\ cache'[m] = NewItem /\ promise'[m] \cap Standing = {}
  BY FollowKeepsRows
<1>2. /\ behind' = {b \in behind \cup (PassCut \cup PageCut) : b[1] \notin item \ item'}
      /\ again' = (again \cup Unmarked) \ (item \ item')
      /\ shrunk' = FALSE /\ judgedAt' = {} /\ pass' = Asleep /\ page' = NoPage /\ said' = said
  BY DEF Follow
<1>3. item \subseteq Mails /\ pass \in PassRow /\ said \in BOOLEAN
  BY DEF PassesInv, PassesTypes
<1>4. pass' \in PassRow /\ pass'.at = "asleep" /\ pass'.todo = {} /\ pass'.pending = {}
  BY <1>2, NothingIsAnAnswer
<1>5. page' \in PageRow /\ page'.at = "idle"
  BY <1>2, NothingIsAnAnswer
<1>6. PassesTypes'
  BY <1>1, <1>2, <1>3, <1>4, <1>5 DEF PassesTypes
<1>7. PassAtWork'
  BY <1>4 DEF PassAtWork, PassListed, PassWrites, Sorting, Reading, Labelling
<1>8. PageAtWork'
  BY <1>5 DEF PageAtWork
<1>9. pass'.at \notin Classifying /\ pass'.at \notin Reading
  BY <1>4 DEF Classifying, Reading
<1>10. Counting'
  BY <1>2, <1>9 DEF Counting
<1>11. Progress'
  BY <1>9 DEF Progress, Few
<1>12. ~UpToDate'
  BY <1>2 DEF UpToDate, Few
<1>13. AllJudged'
  BY <1>12 DEF AllJudged
<1>14. \A m \in item' : \A c \in {"level", "category"} :
         <<m, c>> \in behind \cup PassCut \cup PageCut => <<m, c>> \in behind'
  BY <1>2
<1>15. ASSUME NEW m \in item' PROVE LevelFine(m)' \/ (note'[m].model = {} /\ ~UpToDate')
  <2>1. CASE m \notin item
    BY <1>1, <1>12, <2>1 DEF NoNote
  <2>2. CASE m \in item
    <3>1. note'[m] = note[m] /\ cache'[m] = cache[m]
      BY <1>1, <1>3, <1>15, <2>2 DEF WhatStays
    <3>2. Effective(m)' = Effective(m)
      BY <3>1 DEF Effective
    <3>3. LevelFine(m) \/ note[m].model = {}
      BY <2>2 DEF PassesInv, LevelsFine
    <3>4. PassSettles(m) => <<m, "level">> \in PassCut \/ note[m].model = {}
      BY DEF PassSettles, PassCut
    <3>5. PageSettles(m) => <<m, "level">> \in PageCut
      BY DEF PageSettles, PageCut
    <3>6. QED
      BY <1>12, <1>14, <1>15, <3>1, <3>2, <3>3, <3>4, <3>5 DEF LevelFine
  <2>3. QED
    BY <2>1, <2>2
<1>16. LevelsFine'
  BY <1>15 DEF LevelsFine
<1>17. ASSUME NEW m \in item', note'[m].sorted PROVE SortFine(m)'
  <2>1. m \in item
    BY <1>1, <1>17 DEF NoNote
  <2>2. note'[m] = note[m] /\ cache'[m] = cache[m]
    BY <1>1, <1>3, <1>17, <2>1 DEF WhatStays
  <2>3. SortFine(m)
    BY <1>17, <2>1, <2>2 DEF PassesInv, CategoriesFine
  <2>4. PassSorts(m) => <<m, "category">> \in PassCut
    BY DEF PassSorts, PassCut
  <2>5. PageSorts(m) => <<m, "category">> \in PageCut
    BY <2>1 DEF PageSorts, PageCut
  <2>6. Category(m)' = Category(m)
    BY <1>2, <1>3 DEF Category
  <2>7. QED
    BY <1>14, <1>17, <2>2, <2>3, <2>4, <2>5, <2>6 DEF SortFine
<1>18. CategoriesFine'
  BY <1>17 DEF CategoriesFine
<1>19. PromisesKept'
  <2>1. ASSUME NEW m \in Mails, "rejected" \in promise'[m], m \notin again' PROVE "open" \notin promise'[m]
    <3>1. m \notin item \ item' /\ promise'[m] = promise[m]
      BY <1>1, <2>1 DEF WhatStays
    <3>2. m \notin again
      BY <1>2, <2>1, <3>1
    <3>3. QED
      BY <2>1, <3>1, <3>2 DEF PassesInv, PromisesKept
  <2>2. ASSUME NEW m \in item', promise'[m] \cap Standing # {} PROVE note'[m].read \/ m \in again'
    <3>1. m \in item /\ m \in Mails
      BY <1>1, <1>3, <2>2
    <3>2. note'[m] = note[m] /\ promise'[m] = promise[m]
      BY <1>1, <2>2, <3>1 DEF WhatStays
    <3>3. note[m].read \/ m \in again \/ Marking(m)
      BY <2>2, <3>1, <3>2 DEF PassesInv, PromisesKept
    <3>4. Marking(m) => m \in Unmarked
      BY <2>2, <3>2 DEF Marking, Unmarked
    <3>5. QED
      BY <1>2, <2>2, <3>2, <3>3, <3>4
  <2>3. QED
    BY <1>9, <2>1, <2>2 DEF PromisesKept
<1>20. QED
  BY <1>1, <1>6, <1>7, <1>8, <1>10, <1>11, <1>13, <1>16, <1>18, <1>19 DEF PassesInv

\* The core runs on, or did not run: what was listed and is gone is known to be.
LEMMA FollowedKeeps ==
  ASSUME PassesInv, Follow, item' \subseteq Mails, IsFiniteSet(item'), ~(up /\ ~up')
  PROVE  PassesInv'
<1> DEFINE left == item \ item'
<1>1. /\ WhatStays /\ Fresh' /\ ModelRaises'
      /\ note' \in [Mails -> NoteRow] /\ cache' \in [Mails -> ItemRow]
      /\ promise' \in [Mails -> SUBSET {"open", "rejected", "stray"}]
      /\ \A m \in item' \ item : note'[m] = NoNote /\ cache'[m] = NewItem /\ promise'[m] \cap Standing = {}
  BY FollowKeepsRows
<1>2. /\ behind' = {b \in behind : b[1] \notin left}
      /\ again' = again \ left /\ silent' = silent \ left
      /\ shrunk' = (judgedAt # {} /\ (shrunk \/ left # {}))
      /\ pass' = (IF pass.at = "asleep" THEN pass ELSE [pass EXCEPT !.gone = @ \cup left])
      /\ page' = (IF page.at = "idle" THEN page ELSE [page EXCEPT !.gone = @ \cup left])
      /\ judgedAt' = judgedAt /\ said' = said
  BY DEF Follow
<1>3. /\ item \subseteq Mails /\ pass \in PassRow /\ page \in PageRow /\ said \in BOOLEAN /\ shrunk \in BOOLEAN
      /\ judgedAt \subseteq Nat /\ PassAtWork /\ PageAtWork
  BY DEF PassesInv, PassesTypes
<1>4. /\ pass' \in PassRow /\ pass'.at = pass.at /\ pass'.todo = pass.todo /\ pass'.pending = pass.pending
      /\ pass'.of = pass.of /\ pass'.saw = pass.saw /\ pass'.back = pass.back /\ pass'.answer = pass.answer
      /\ pass'.word = pass.word /\ pass'.counted = pass.counted
      /\ pass'.gone = (IF pass.at = "asleep" THEN pass.gone ELSE pass.gone \cup left)
  BY <1>2, <1>3 DEF PassRow
<1>5. /\ page' \in PageRow /\ page'.at = page.at /\ page'.of = page.of /\ page'.saw = page.saw
      /\ page'.left = page.left
      /\ page'.gone = (IF page.at = "idle" THEN page.gone ELSE page.gone \cup left)
  BY <1>2, <1>3 DEF PageRow
<1>6. PassesTypes'
  BY <1>1, <1>2, <1>3, <1>4, <1>5 DEF PassesTypes
<1>7. \A m \in item' : \A c \in {"level", "category"} : <<m, c>> \in behind => <<m, c>> \in behind'
  BY <1>2
<1>8. \A m \in Mails \ left : /\ note'[m] = note[m] /\ cache'[m] = cache[m] /\ promise'[m] = promise[m]
                              /\ Effective(m)' = Effective(m)
                              /\ \A c \in {"level", "category"} : <<m, c>> \in behind => <<m, c>> \in behind'
  <2>1. TAKE m \in Mails \ left
  <2>2. note'[m] = note[m] /\ cache'[m] = cache[m] /\ promise'[m] = promise[m]
    BY <1>1 DEF WhatStays
  <2>3. Effective(m)' = Effective(m)
    BY <2>2 DEF Effective
  <2>4. QED
    BY <1>2, <2>2, <2>3
<1>9. \A m \in item : m \notin left => m \in item'
  OBVIOUS
<1>10. Labelling' <=> Labelling
  BY <1>4 DEF Labelling
<1>11. PassAtWork'
  <2>1. CASE pass.at = "asleep"
    BY <1>4, <2>1 DEF PassAtWork, PassListed, PassWrites, Sorting, Reading, Labelling, PassesInv
  <2>2. CASE pass.at # "asleep"
    <3>1. pass'.gone = pass.gone \cup left
      BY <1>4, <2>2
    <3>2. PassListed'
      BY <1>3, <1>4, <1>10, <3>1 DEF PassAtWork, PassListed
    <3>3. \A m \in Mails : pass.at = "write" /\ m = pass.of /\ m \notin pass'.gone =>
            pass.saw = Effective(m)' \/ <<m, "level">> \in behind'
      BY <1>3, <1>8, <3>1 DEF PassAtWork, PassWrites
    <3>4. pass.at \in Sorting /\ pass.word = "rule" /\ said =>
            \A m \in Sender \ pass'.gone :
              m \in pass.todo \/ (m = pass.of /\ pass.at # "sort") => <<m, "category">> \in behind'
      BY <1>3, <1>8, <3>1, PassesAssumption DEF PassAtWork, PassWrites
    <3>5. PassWrites'
      BY ONLY <1>2, <1>3, <1>4, <3>3, <3>4 DEF PassAtWork, PassWrites
    <3>6. QED
      BY <3>2, <3>5 DEF PassAtWork
  <2>3. QED
    BY <2>1, <2>2
<1>12. PageAtWork'
  <2>1. CASE page.at = "idle"
    BY <1>5, <2>1 DEF PageAtWork
  <2>2. CASE page.at # "idle"
    <3>1. page'.gone = page.gone \cup left
      BY <1>5, <2>2
    <3>2. \A m \in Mails : page.at \in {"noted", "seen"} /\ m = page.of /\ m \notin page'.gone =>
            m \in item' /\ note'[m].user # {} /\ (page.at = "seen" => page.saw = Effective(m)')
      BY <1>3, <1>8, <3>1 DEF PageAtWork
    <3>3. page.at \in {"each", "each write"} => page.left \subseteq Sender /\ page.left \ page'.gone \subseteq item'
      BY <1>3, <3>1 DEF PageAtWork
    <3>4. QED
      BY ONLY <1>2, <1>3, <1>5, <3>2, <3>3 DEF PageAtWork
  <2>3. QED
    BY <2>1, <2>2
<1>13. \A n, k \in judgedAt : n = k
  BY DEF PassesInv, Counting
<1>14. left = {} => IsFiniteSet(item) /\ Cardinality(item) \in Nat /\ Cardinality(item') \in Nat
                    /\ Cardinality(item) <= Cardinality(item')
                    /\ (Cardinality(item) = Cardinality(item') => item' = item)
  BY FS_Subset, FS_CardinalityType
<1>15. ~shrunk' /\ judgedAt # {} => ~shrunk /\ left = {}
  BY <1>2, <1>3
<1>16. Counting'
  <2>1. ASSUME ~shrunk', NEW n \in judgedAt
        PROVE  n <= Cardinality(item') /\ (pass.at \in Classifying => n < Cardinality(item'))
    <3>1. ~shrunk /\ left = {} /\ n \in Nat
      BY <1>3, <1>15, <2>1
    <3>2. n <= Cardinality(item) /\ (pass.at \in Classifying => n < Cardinality(item))
      BY <2>1, <3>1 DEF PassesInv, Counting
    <3>3. QED
      BY <1>14, <3>1, <3>2
  <2>2. QED
    BY <1>2, <1>4, <1>13, <2>1 DEF Counting
<1>17. UpToDate' => UpToDate /\ item' = item /\ left = {}
  <2>1. SUFFICES ASSUME UpToDate' PROVE UpToDate /\ item' = item /\ left = {}
    OBVIOUS
  <2>2. judgedAt = {Cardinality(item')} /\ ~shrunk' /\ Cardinality(item') <= Most
    BY <1>2, <2>1 DEF UpToDate, Few
  <2>3. ~shrunk /\ left = {}
    BY <1>15, <2>2
  <2>4. Cardinality(item') <= Cardinality(item)
    BY <2>2, <2>3 DEF PassesInv, Counting
  <2>5. Cardinality(item) = Cardinality(item') /\ item' = item
    BY <1>14, <2>3, <2>4
  <2>6. QED
    BY <2>2, <2>3, <2>5 DEF UpToDate, Few
<1>18. AllJudged'
  <2>1. ASSUME UpToDate', NEW m \in item'
        PROVE  note'[m].rule /\ (ByRule(m) \/ note'[m].model # {} \/ m \in silent')
    <3>1. UpToDate /\ m \in item /\ m \in Mails /\ left = {}
      BY <1>3, <1>17, <2>1
    <3>2. note'[m] = note[m] /\ (m \in silent => m \in silent')
      BY <1>2, <1>8, <3>1
    <3>3. QED
      BY <3>1, <3>2 DEF PassesInv, AllJudged
  <2>2. QED
    BY <2>1 DEF AllJudged, ByRule
<1>19. ASSUME NEW m \in item \cap item', LevelFine(m) PROVE LevelFine(m)'
  <2>1. m \in Mails \ left
    BY <1>3, <1>19
  <2>2. (PassSettles(m) => PassSettles(m)') /\ (PageSettles(m) => PageSettles(m)')
    BY <1>4, <1>5, <2>1 DEF PassSettles, PageSettles
  <2>3. QED
    BY <1>8, <1>19, <2>1, <2>2 DEF LevelFine
<1>20. ASSUME NEW m \in item' PROVE LevelFine(m)' \/ (note'[m].model = {} /\ ~UpToDate')
  <2>1. CASE m \notin item
    <3>1. note'[m].model = {}
      BY <1>1, <1>20, <2>1 DEF NoNote
    <3>2. ~UpToDate'
      BY <1>17, <1>20, <2>1
    <3>3. QED
      BY <3>1, <3>2
  <2>2. CASE m \in item
    <3>1. note'[m] = note[m]
      BY <1>3, <1>8, <1>20, <2>2
    <3>2. LevelFine(m) \/ (note[m].model = {} /\ ~UpToDate)
      BY <2>2 DEF PassesInv, LevelsFine
    <3>3. QED
      BY <1>17, <1>19, <1>20, <2>2, <3>1, <3>2
  <2>3. QED
    BY <2>1, <2>2
<1>21. LevelsFine'
  BY <1>20 DEF LevelsFine
<1>22. Progress'
  <2>1. SUFFICES ASSUME pass'.at \in Classifying, pass'.gone = {}
                 PROVE  \E ms \in SUBSET item' : /\ Cardinality(ms) >= pass'.counted
                                                 /\ (pass'.at # "list" /\ Few' => Listed(ms)')
    BY DEF Progress, Few
  <2>2. pass.at \in Classifying /\ pass.gone = {} /\ left = {}
    BY <1>4, <2>1 DEF Classifying
  <2>0. Few' => Few
    <3>1. item \subseteq item' /\ IsFiniteSet(item') /\ IsFiniteSet(item)
      BY <1>13, <2>2 DEF PassesInv, Counting
    <3>2. Cardinality(item) <= Cardinality(item') /\ Cardinality(item) \in Nat /\ Cardinality(item') \in Nat
      BY <3>1, FS_Subset, FS_CardinalityType
    <3>3. QED
      BY <3>2, PassesAssumption DEF Few
  <2>3. PICK ms \in SUBSET item : Cardinality(ms) >= pass.counted /\ (pass.at # "list" /\ Few => Listed(ms))
    BY <2>2 DEF PassesInv, Progress, Few
  <2>4. ms \subseteq item'
    BY <2>2
  <2>5. ASSUME Listed(ms) PROVE Listed(ms)'
    <3>1. InTurn' = InTurn
      BY <1>4, <1>10 DEF InTurn
    <3>2. InTurn \subseteq Mails
      BY <1>3 DEF InTurn, PassRow
    <3>3. \A m \in ms : Judged(m) => Judged(m)'
      BY <1>2, <1>3, <1>8, <2>2 DEF Judged, ByRule
    <3>4. \A m \in ms : LevelFine(m) => LevelFine(m)'
      BY <1>19, <2>4
    <3>5. \A m \in InTurn' : note'[m].rule
      BY <1>8, <2>2, <2>5, <3>1, <3>2 DEF Listed
    <3>6. QED
      BY <1>4, <2>5, <3>3, <3>4, <3>5 DEF Listed
  <2>6. /\ ms \in SUBSET item' /\ Cardinality(ms) >= pass'.counted
        /\ (pass'.at # "list" /\ Few' => Listed(ms)')
    BY <1>4, <2>0, <2>3, <2>4, <2>5
  <2>7. QED
    BY <2>6
<1>23. ASSUME NEW m \in item', note'[m].sorted PROVE SortFine(m)'
  <2>1. m \in item
    BY <1>1, <1>23 DEF NoNote
  <2>2. m \in Mails \ left
    BY <1>3, <1>23, <2>1
  <2>3. SortFine(m)
    BY <1>8, <1>23, <2>1, <2>2 DEF PassesInv, CategoriesFine
  <2>4. (PassSorts(m) => PassSorts(m)') /\ (PageSorts(m) => PageSorts(m)')
    BY <1>4, <1>5, <2>2 DEF PassSorts, PageSorts
  <2>5. Category(m)' = Category(m)
    BY <1>2, <1>3 DEF Category
  <2>6. QED
    BY <1>8, <2>2, <2>3, <2>4, <2>5 DEF SortFine
<1>24. CategoriesFine'
  BY <1>23 DEF CategoriesFine
<1>25. PromisesKept'
  <2>1. ASSUME NEW m \in Mails, "rejected" \in promise'[m], m \notin again' PROVE "open" \notin promise'[m]
    <3>1. m \notin left /\ promise'[m] = promise[m]
      BY <1>1, <2>1 DEF WhatStays
    <3>2. m \notin again
      BY <1>2, <2>1, <3>1
    <3>3. QED
      BY <2>1, <3>1, <3>2 DEF PassesInv, PromisesKept
  <2>2. ASSUME NEW m \in item', promise'[m] \cap Standing # {} PROVE note'[m].read \/ m \in again' \/ Marking(m)'
    <3>1. m \in item /\ m \in Mails \ left
      BY <1>1, <1>3, <2>2
    <3>2. note'[m] = note[m] /\ promise'[m] = promise[m]
      BY <1>8, <3>1
    <3>3. note[m].read \/ m \in again \/ Marking(m)
      BY <2>2, <3>1, <3>2 DEF PassesInv, PromisesKept
    <3>4. Marking(m) => Marking(m)'
      BY <1>4, <3>1 DEF Marking
    <3>5. QED
      BY <1>2, <3>1, <3>2, <3>3, <3>4
  <2>3. ASSUME pass.at \in Reading, NEW m \in Coming' \ pass'.gone
        PROVE  ~note'[m].read /\ (promise'[m] \cap Standing # {} => m \in again')
    <3>1. Coming' = Coming /\ Coming \subseteq Mails
      BY <1>3, <1>4 DEF Coming, PassRow, PassAtWork, PassListed
    <3>2. m \in Coming \ pass.gone /\ m \in Mails \ left
      BY <1>4, <2>3, <3>1 DEF Reading
    <3>3. note'[m] = note[m] /\ promise'[m] = promise[m]
      BY <1>8, <3>2
    <3>4. ~note[m].read /\ (promise[m] \cap Standing # {} => m \in again)
      BY <2>3, <3>2 DEF PassesInv, PromisesKept
    <3>5. QED
      BY <1>2, <3>2, <3>3, <3>4
  <2>4. QED
    BY <1>4, <2>1, <2>2, <2>3 DEF PromisesKept
<1>26. QED
  BY <1>1, <1>6, <1>11, <1>12, <1>16, <1>18, <1>21, <1>22, <1>24, <1>25 DEF PassesInv

\* A step of the store brings one item, removes some, or leaves them.
LEMMA ItemsComeAndGo ==
  ASSUME Next
  PROVE  (\E m : item' = item \cup {m}) \/ item' \subseteq item
<1> USE DEF rowVars, diskVars, ghosts
<1>1. ASSUME NEW p \in Takers, Take(p) PROVE (\E m : item' = item \cup {m}) \/ item' \subseteq item
  <2>1. CASE Insert(p)
    BY <2>1 DEF Insert
  <2>2. CASE ~Insert(p)
    BY <1>1, <2>2 DEF Take, TakeIn, KeepRaw, Has, Open, Write, Rename, RenameFails, Record,
                      InsertFails, TakingFails
  <2>3. QED
    BY <2>1, <2>2
<1>2. CASE Reread
  BY <1>2 DEF Reread, Reprocess, ReadAgain, ReadingEnds, Unchanged
<1>3. CASE Remove
  <2>1. CASE RemoveJunk
    BY <2>1 DEF RemoveJunk, RemoveRows
  <2>2. CASE Purge
    BY <2>2 DEF Purge, RemoveRows
  <2>3. CASE FindJunk \/ PurgeAsks \/ PurgeDeclined \/ PurgeEnds \/ MarkJunk \/ RestoreJunk
    BY <2>3 DEF FindJunk, PurgeAsks, PurgeDeclined, PurgeEnds, MarkJunk, RestoreJunk
  <2>4. CASE \E q \in Removers : RemoveFile(q) \/ FileStays(q)
    BY <2>4 DEF RemoveFile, FileStays
  <2>5. QED
    BY <1>3, <2>1, <2>2, <2>3, <2>4 DEF Remove
<1>4. CASE CoreStarts \/ CoreStops \/ CommandKilled
  BY <1>4 DEF CoreStarts, CoreStops, CommandKilled
<1>5. QED
  BY <1>1, <1>2, <1>3, <1>4 DEF Next

LEMMA FollowKeeps ==
  ASSUME FilesInv, PassesInv, Next, Follow
  PROVE  PassesInv'
<1>1. item' \subseteq Mails
  BY FilesStay DEF FilesInv, FilesTypes
<1>2. IsFiniteSet(item')
  BY ItemsComeAndGo, FS_AddElement, FS_Subset DEF PassesInv, Counting
<1>3. QED
  BY <1>1, <1>2, StoppedKeeps, FollowedKeeps

LEMMA PassesStart ==
  ASSUME PassesInit
  PROVE  PassesInv
<1>1. /\ item = {} /\ note = [m \in Mails |-> NoNote] /\ cache = [m \in Mails |-> NewItem]
      /\ promise = [m \in Mails |-> {}] /\ said = FALSE /\ judgedAt = {}
      /\ pass = Asleep /\ page = NoPage /\ behind = {} /\ shrunk = FALSE /\ silent = {} /\ again = {}
  BY DEF PassesInit, Init
<1>2. /\ pass \in PassRow /\ pass.at = "asleep" /\ pass.todo = {} /\ pass.pending = {}
      /\ page \in PageRow /\ page.at = "idle"
  BY <1>1, NothingIsAnAnswer
<1>3. NoNote \in NoteRow /\ NewItem \in ItemRow /\ NoNote.model = {}
  BY DEF NoNote, NewItem, NoteRow, ItemRow, Levels, Personal
<1>4. PassesTypes
  BY <1>1, <1>2, <1>3 DEF PassesTypes
<1>5. Fresh /\ ModelRaises
  BY <1>1, <1>3 DEF Fresh, ModelRaises
<1>6. PassAtWork
  BY <1>2 DEF PassAtWork, PassListed, PassWrites, Sorting, Reading, Labelling
<1>7. PageAtWork
  BY <1>2 DEF PageAtWork
<1>8. Counting /\ Progress
  BY <1>1, <1>2, FS_EmptySet DEF Counting, Progress, Classifying
<1>9. LevelsFine /\ CategoriesFine
  BY <1>1 DEF LevelsFine, CategoriesFine
<1>10. AllJudged
  BY <1>1 DEF AllJudged, UpToDate, Few
<1>11. PromisesKept
  BY <1>1, <1>2 DEF PromisesKept, Reading
<1>12. QED
  BY <1>4, <1>5, <1>6, <1>7, <1>8, <1>9, <1>10, <1>11 DEF PassesInv

LEMMA PassesStay ==
  ASSUME FilesInv, PassesInv, [PassesNext]_<<filesVars, passesVars>>
  PROVE  FilesInv' /\ PassesInv'
<1>1. FilesInv'
  BY FilesStay DEF PassesNext
<1>2. CASE Next /\ Follow
  BY <1>1, <1>2, FollowKeeps
<1>3. CASE up /\ (Pass \/ Speak) /\ UNCHANGED filesVars
  BY <1>1, <1>3, WorkKeeps
<1>4. CASE UNCHANGED <<filesVars, passesVars>>
  <2> USE DEF filesVars, rowVars, passesVars
  <2>1. UNCHANGED <<item, note, cache, promise, said, judgedAt, pass, page, behind, shrunk, silent, again>>
    BY <1>4
  <2>2. \A m : Effective(m)' = Effective(m)
    BY <2>1 DEF Effective
  <2>3. PageAtWork'
    <3>1. /\ PageAtWork /\ page' = page /\ item' = item /\ said' = said /\ note' = note
          /\ said \in BOOLEAN
      BY <2>1 DEF PassesInv, PassesTypes
    <3>2. QED
      BY ONLY <2>2, <3>1 DEF PageAtWork
  <2>4. \A m : (LevelFine(m) => LevelFine(m)') /\ (SortFine(m) => SortFine(m)')
    BY <2>1, <2>2 DEF LevelFine, SortFine, PassSettles, PageSettles, PassSorts, PageSorts, Category
  <2>5. page \in PageRow
    BY DEF PassesInv, PassesTypes
  <2>6. QED
    BY <1>1, <2>1, <2>3, <2>4, <2>5, PageMoves DEF LevelFine, SortFine
<1>5. QED
  BY <1>1, <1>2, <1>3, <1>4 DEF PassesNext

LEMMA PassesInvHolds == PassesSpec => [](FilesInv /\ PassesInv)
<1>1. PassesInit => FilesInv /\ PassesInv
  BY PassesStart, FilesStart DEF PassesInit
<1>2. FilesInv /\ PassesInv /\ [PassesNext]_<<filesVars, passesVars>> => (FilesInv /\ PassesInv)'
  BY PassesStay
<1>3. QED
  BY <1>1, <1>2, PTL DEF PassesSpec

\* Whatever is worked out about the items, they come and go as Files says: the
\* passes and the page write nothing of the store's rows and files.
THEOREM PassesLeaveFilesAlone == PassesSpec => FilesSpec
<1>1. PassesInit => Init
  BY DEF PassesInit
<1>2. [PassesNext]_<<filesVars, passesVars>> => [Next]_filesVars
  BY DEF PassesNext
<1>3. QED
  BY <1>1, <1>2, PTL DEF PassesSpec, FilesSpec

\* The level and the category on an item are what was judged about it adds up to,
\* but for what was cut between the judgement and the cache: categorize.rs,
\* classify.rs and the pages, in any order and whatever fails.
THEOREM CachesAlwaysAddUp == PassesSpec => []CachesAddUp
<1>1. PassesInv => CachesAddUp
  <2>1. SUFFICES ASSUME PassesInv, NEW m \in item
                 PROVE  /\ \/ cache[m].level = Effective(m)
                           \/ <<m, "level">> \in behind \/ Settling(m)
                           \/ note[m].model = {} /\ ~UpToDate
                        /\ \/ note[m].sorted => cache[m].category = Category(m)
                           \/ <<m, "category">> \in behind \/ Speaking(m)
    BY DEF CachesAddUp
  <2>2. (PassSettles(m) \/ PageSettles(m) => Settling(m)) /\ (PassSorts(m) \/ PageSorts(m) => Speaking(m))
    BY DEF PassSettles, PageSettles, PassSorts, PageSorts, Settling, Speaking
  <2>3. LevelFine(m) \/ (note[m].model = {} /\ ~UpToDate)
    BY <2>1 DEF PassesInv, LevelsFine
  <2>4. note[m].sorted => SortFine(m)
    BY <2>1 DEF PassesInv, CategoriesFine
  <2>5. QED
    BY <2>2, <2>3, <2>4 DEF LevelFine, SortFine
<1>2. QED
  BY <1>1, PassesInvHolds, PTL

\* When classification sees no reason to run again every item has been judged:
\* classify.rs, which looks at how many items there are and not at which.
THEOREM EveryItemIsJudged == PassesSpec => []AllJudged
<1>1. PassesInv => AllJudged
  BY DEF PassesInv
<1>2. QED
  BY <1>1, PassesInvHolds, PTL

\* A promise rests on an item that is there, and one turned down is not made
\* again: commitments.rs, but for a pass cut short before the message was marked.
THEOREM PromisesAlwaysStand == PassesSpec => []PromisesStand
<1>1. PassesInv => PromisesStand
  BY DEF PassesInv, PromisesKept, PromisesStand, Fresh, Standing
<1>2. QED
  BY <1>1, PassesInvHolds, PTL

-----------------------------------------------------------------------------
(* The conversation: numbers have a least, and induction over them, on a   *)
(* set of them.                                                            *)

LEMMA Least ==
  ASSUME NEW T, T \subseteq Nat, T # {}
  PROVE  \E x \in T : \A y \in T : x <= y
<1> DEFINE R == OpToRel(<, Nat)
<1>1. IsWellFoundedOn(R, Nat)
  BY NatLessThanWellFounded
<1>2. \A x, y \in Nat : y < x => <<y, x>> \in R
  BY DEF OpToRel
<1> HIDE DEF R
<1>3. PICK x \in T : \A y \in T : ~ (<<y, x>> \in R)
  BY <1>1, WFMin
<1>4. ASSUME NEW y \in T PROVE x <= y
  <2>1. x \in Nat /\ y \in Nat /\ ~ (y < x)
    BY <1>2, <1>3, Zenon
  <2>2. QED
    BY <2>1
<1>5. QED
  BY <1>4

LEMMA Induction ==
  ASSUME NEW S, 0 \in S, \A n \in Nat : n \in S => n + 1 \in S
  PROVE  Nat \subseteq S
<1> DEFINE T == {n \in Nat : n \notin S}
<1>1. SUFFICES ASSUME T # {} PROVE FALSE
  OBVIOUS
<1>2. PICK x \in T : \A y \in T : x <= y
  BY <1>1, Least
<1>3. x # 0 /\ x - 1 \in Nat
  BY <1>2
<1>4. x - 1 \in S
  BY <1>2, <1>3
<1>5. QED
  BY <1>2, <1>3, <1>4

-----------------------------------------------------------------------------
(* Conversation: the invariant.                                            *)

SourceRow == [of : Mails \cup {"note"}, read : Nat, level : Levels]

TalkRow ==
  [at : {"idle", "ask", "asked", "tool", "drafting", "answered", "stopped", "lost"},
   round : Nat, repeats : Nat, made : SUBSET Calls, call : Calls \cup {"none"}, typed : Levels,
   sources : Seq(SourceRow), known : SUBSET SourceRow, gone : SUBSET SourceRow,
   level : Levels, cited : SUBSET SourceRow]

\* What is in the material is known, once; what is known to be gone was put there
\* in an earlier round, so that the same mail taken in again is another source.
Material(t) ==
  /\ t \in TalkRow /\ t.round # 0
  /\ t.known = {t.sources[i] : i \in DOMAIN t.sources} \ {Note}
  /\ \A i, j \in DOMAIN t.sources : t.sources[i] = t.sources[j] /\ t.sources[i] # Note => i = j
  /\ \A s \in t.known : s.read <= t.round
  /\ \A s \in t.gone : s.read < t.round

Settled(t) == \A s \in t.known : s.read < t.round

Talking == {"ask", "asked", "tool", "drafting", "answered"}

TalkInv ==
  /\ talk \in TalkRow
  /\ talk.at \in Talking => Material(talk) /\ Settled(talk)
  /\ talk.at = "asked" => \A s \in talk.known : s.level <= talk.level
  /\ talk.at = "answered" => talk.cited \subseteq talk.known

LEMMA NoteIsARow == Note \in SourceRow /\ Note.read = 0
BY DEF Note, SourceRow, Levels

LEMMA SourceIsARow ==
  ASSUME PassesTypes, NEW m \in Mails, NEW round \in Nat
  PROVE  Source(m, round) \in SourceRow /\ Source(m, round).read = round /\ Source(m, round).of = m
BY DEF PassesTypes, ItemRow, Source, SourceRow

-----------------------------------------------------------------------------
(* What is put into the material.                                          *)

Goes(t, u) == Material(u) /\ u.round = t.round /\ u.gone = t.gone /\ u.at = t.at

Put(t, s, known) == [t EXCEPT !.sources = Append(@, s), !.known = known]

\* One thing more, that was not there or is a note.
LEMMA OneMore ==
  ASSUME NEW t, Material(t), NEW s \in SourceRow, s = Note \/ s \notin t.known, NEW known,
         known = IF s = Note THEN t.known ELSE t.known \cup {s},
         s.read <= t.round
  PROVE  Goes(t, Put(t, s, known)) /\ Put(t, s, known).known = known
<1> DEFINE u == Put(t, s, known)
           r == Append(t.sources, s)
           n == Len(t.sources)
<1>1. t \in TalkRow /\ t.sources \in Seq(SourceRow) /\ t.known \subseteq SourceRow
  BY DEF Material, TalkRow
<1>2. /\ r \in Seq(SourceRow) /\ Len(r) = n + 1 /\ n \in Nat
      /\ \A i \in 1 .. n : r[i] = t.sources[i]
      /\ r[n + 1] = s /\ DOMAIN r = 1 .. n + 1 /\ DOMAIN t.sources = 1 .. n
  BY <1>1, AppendProperties, LenProperties
<1> HIDE DEF r, n
<1>3. known \in SUBSET SourceRow
  BY <1>1
<1>4. u = [t EXCEPT !.sources = r, !.known = known]
  BY DEF r, Put
<1> HIDE DEF u
<1>5. /\ u \in TalkRow /\ u.sources = r /\ u.known = known /\ u.round = t.round /\ u.gone = t.gone /\ u.at = t.at
  BY <1>1, <1>2, <1>3, <1>4 DEF TalkRow
<1>6. {r[i] : i \in 1 .. n + 1} = {t.sources[i] : i \in 1 .. n} \cup {s}
  BY <1>2
<1>7. known = {r[i] : i \in 1 .. n + 1} \ {Note}
  BY <1>2, <1>6 DEF Material
<1>8. \A i, j \in 1 .. n + 1 : r[i] = r[j] /\ r[i] # Note => i = j
  <2>1. \A i \in 1 .. n : r[i] = s => s = Note
    BY <1>2 DEF Material
  <2>2. \A i, j \in 1 .. n : r[i] = r[j] /\ r[i] # Note => i = j
    BY <1>2 DEF Material
  <2>3. \A i \in 1 .. n + 1 : i \in 1 .. n \/ i = n + 1
    BY <1>2
  <2>4. QED
    BY <1>2, <2>1, <2>2, <2>3
<1>9. (\A k \in known : k.read <= t.round) /\ \A k \in t.gone : k.read < t.round
  BY DEF Material
<1>10. Material(u)
  <2>1. u.sources = r /\ u.known = known /\ DOMAIN r = 1 .. n + 1 /\ u.round # 0
    BY <1>2, <1>5 DEF Material
  <2>2. u.known = {u.sources[i] : i \in DOMAIN u.sources} \ {Note}
    BY <1>7, <2>1
  <2>3. \A i, j \in DOMAIN u.sources : u.sources[i] = u.sources[j] /\ u.sources[i] # Note => i = j
    BY <1>8, <2>1
  <2>4. QED
    BY <1>5, <1>9, <2>1, <2>2, <2>3 DEF Material
<1>11. Goes(t, u) /\ u.known = known
  BY <1>5, <1>10 DEF Goes
<1>12. QED
  BY <1>11 DEF u

LEMMA NoteAdded ==
  ASSUME NEW t, Material(t)
  PROVE  Goes(t, AddNote(t)) /\ AddNote(t).known = t.known
<1>1. t \in TalkRow /\ t.round \in Nat
  BY DEF Material, TalkRow
<1>2. AddNote(t) = Put(t, Note, t.known)
  BY <1>1 DEF AddNote, Put, TalkRow
<1>3. Note \in SourceRow /\ Note.read <= t.round
  BY <1>1, NoteIsARow
<1>4. QED
  BY <1>2, <1>3, OneMore

LEMMA ItemAdded ==
  ASSUME PassesTypes, NEW t, Material(t), NEW m \in Mails
  PROVE  Goes(t, AddItem(t, m))
<1> DEFINE s == Source(m, t.round)
<1>1. t.round \in Nat /\ t.round # 0
  BY DEF Material, TalkRow
<1>2. s \in SourceRow /\ s.read = t.round /\ s.of = m /\ s # Note
  BY <1>1, SourceIsARow, NoteIsARow
<1>3. CASE \E h \in t.known \ t.gone : h.of = m
  BY <1>3 DEF AddItem, Goes
<1>4. CASE ~ \E h \in t.known \ t.gone : h.of = m
  <2>1. AddItem(t, m) = Put(t, s, t.known \cup {s})
    BY <1>1, <1>4 DEF AddItem, Put, Material, TalkRow
  <2>2. s \notin t.gone
    BY <1>1, <1>2 DEF Material
  <2>3. s \notin t.known
    BY <1>2, <1>4, <2>2
  <2>4. s.read <= t.round
    BY <1>1, <1>2
  <2> HIDE DEF s
  <2>5. QED
    BY <1>2, <2>1, <2>3, <2>4, OneMore
<1>5. QED
  BY <1>3, <1>4

\* The recursion of AddItems has a solution, and what is added one by one is added.
LEMMA ItemsAdded ==
  ASSUME PassesTypes, NEW t, Material(t), NEW ms, NEW n \in Nat, Len(ms) = n, \A i \in 1 .. n : ms[i] \in Mails
  PROVE  Goes(t, AddItems(t, ms))
<1> DEFINE Good(f, m) == f = [i \in 0 .. m |-> IF i = 0 THEN t ELSE AddItem(f[i - 1], ms[i])]
           S == {m \in Nat : \E f : Good(f, m)}
<1>1. AddItems(t, ms) = (CHOOSE f : Good(f, n))[n]
  BY DEF AddItems
<1>2. 0 \in S
  <2>1. Good([i \in 0 .. 0 |-> t], 0)
    OBVIOUS
  <2>2. QED
    BY <2>1
<1>3. ASSUME NEW m \in S PROVE m + 1 \in S
  <2>1. PICK f : Good(f, m)
    OBVIOUS
  <2> DEFINE g == [i \in 0 .. m + 1 |-> IF i = m + 1 THEN AddItem(f[m], ms[m + 1]) ELSE f[i]]
  <2>2. m \in Nat /\ \A i \in 0 .. m : f[i] = IF i = 0 THEN t ELSE AddItem(f[i - 1], ms[i])
    BY <2>1
  <2>3. g[m + 1] = AddItem(f[m], ms[m + 1]) /\ \A i \in 0 .. m : g[i] = f[i]
    BY <2>2
  <2>4. \A i \in 0 .. m + 1 : g[i] = IF i = 0 THEN t ELSE AddItem(g[i - 1], ms[i])
    <3> SUFFICES ASSUME NEW i \in 0 .. m + 1
                 PROVE  g[i] = IF i = 0 THEN t ELSE AddItem(g[i - 1], ms[i])
      OBVIOUS
    <3> HIDE DEF g
    <3>1. CASE i = m + 1
      BY <2>2, <2>3, <3>1
    <3>2. CASE i \in 0 .. m
      BY <2>2, <2>3, <3>2
    <3>3. QED
      BY <2>2, <3>1, <3>2
  <2>5. g = [i \in 0 .. m + 1 |-> g[i]]
    OBVIOUS
  <2>6. Good(g, m + 1)
    <3> HIDE DEF g
    <3>1. QED
      BY <2>4, <2>5
  <2> HIDE DEF g
  <2>7. QED
    BY <2>2, <2>6
<1>4. Nat \subseteq S
  <2> HIDE DEF S
  <2>1. QED
    BY <1>2, <1>3, Induction
<1>5. PICK f : f = (CHOOSE g : Good(g, n)) /\ Good(f, n)
  BY <1>4
<1>6. f[0] = t /\ \A i \in 1 .. n : f[i] = AddItem(f[i - 1], ms[i])
  <2>1. \A i \in 0 .. n : f[i] = IF i = 0 THEN t ELSE AddItem(f[i - 1], ms[i])
    BY ONLY <1>5
  <2>2. QED
    BY <2>1
<1>7. AddItems(t, ms) = f[n]
  BY <1>1, <1>5
<1> HIDE DEF Good, S
<1> DEFINE P == {i \in Nat : i <= n => Goes(t, f[i])}
<1>8. 0 \in P
  BY <1>6 DEF Goes
<1>9. ASSUME NEW i \in Nat, i \in P PROVE i + 1 \in P
  <2>1. SUFFICES ASSUME i + 1 <= n PROVE Goes(t, f[i + 1])
    OBVIOUS
  <2>2. Goes(t, f[i]) /\ i + 1 \in 1 .. n /\ f[i + 1] = AddItem(f[i], ms[i + 1]) /\ ms[i + 1] \in Mails
    BY <1>6, <1>9, <2>1
  <2>3. QED
    BY <2>2, ItemAdded DEF Goes
<1>10. Nat \subseteq P
  <2> HIDE DEF P
  <2>1. QED
    BY <1>8, <1>9, Induction
<1>11. Goes(t, f[n])
  BY <1>10
<1>12. QED
  BY <1>7, <1>11

\* What is dropped is the oldest, and no more than there is.
LEMMA DroppedIsThere ==
  ASSUME NEW s, Len(s) \in Nat
  PROVE  Dropped(s) \in 0 .. Len(s)
<1> DEFINE T == {d \in 0 .. Len(s) : Len(s) - d <= 1 \/ Weighs(SubSeq(s, d + 1, Len(s))) <= ZoneBudget}
<1>1. T \subseteq Nat /\ T \subseteq 0 .. Len(s)
  OBVIOUS
<1>2. Len(s) \in T
  OBVIOUS
<1>3. Dropped(s) = Min(T)
  BY DEF Dropped
<1> HIDE DEF T
<1>4. \E x \in T : \A y \in T : x <= y
  BY <1>1, <1>2, Least
<1>5. Min(T) \in T
  BY <1>4 DEF Min
<1>6. QED
  BY <1>1, <1>3, <1>5

\* What is left of the material is known, and what was dropped is not.
LEMMA Trimmed ==
  ASSUME NEW t, Material(t)
  PROVE  Goes(t, Trim(t)) /\ Trim(t).known \subseteq t.known
<1> DEFINE s == t.sources
           n == Len(s)
           d == Dropped(s)
           r == SubSeq(s, d + 1, n)
           u == Trim(t)
           known == t.known \ {s[i] : i \in 1 .. d}
<1>1. t \in TalkRow /\ s \in Seq(SourceRow) /\ t.known \subseteq SourceRow
  BY DEF Material, TalkRow
<1>2. n \in Nat /\ DOMAIN s = 1 .. n /\ \A i \in 1 .. n : s[i] \in SourceRow
  BY <1>1, LenProperties
<1>3. d \in 0 .. n
  BY <1>2, DroppedIsThere
<1>4. u = [t EXCEPT !.sources = r, !.known = known]
  BY DEF Trim
<1> HIDE DEF s, n, d, u
<1>5. /\ r \in Seq(SourceRow) /\ Len(r) = n - d /\ \A i \in 1 .. n - d : r[i] = s[d + i]
  <2>1. \A i \in d + 1 .. n : s[i] \in SourceRow
    BY <1>2, <1>3
  <2>2. /\ SubSeq(s, d + 1, n) \in Seq(SourceRow)
        /\ Len(SubSeq(s, d + 1, n)) = IF d + 1 <= n THEN n - (d + 1) + 1 ELSE 0
        /\ \A i \in 1 .. n - (d + 1) + 1 : SubSeq(s, d + 1, n)[i] = s[d + 1 + i - 1]
    BY <1>2, <1>3, <2>1, SubSeqProperties
  <2>3. QED
    BY <1>2, <1>3, <2>2
<1>6. DOMAIN r = 1 .. n - d
  BY <1>5, LenProperties
<1> HIDE DEF r
<1>7. known \in SUBSET SourceRow /\ known \subseteq t.known
  BY <1>1
<1>8. /\ t.known = {s[i] : i \in 1 .. n} \ {Note}
      /\ \A i, j \in 1 .. n : s[i] = s[j] /\ s[i] # Note => i = j
  BY <1>2 DEF Material, s
<1>9. known = {r[i] : i \in 1 .. n - d} \ {Note}
  <2>1. ASSUME NEW x \in known PROVE x \in {r[i] : i \in 1 .. n - d} \ {Note}
    <3>1. PICK i \in 1 .. n : x = s[i] /\ x # Note
      BY <1>8, <2>1
    <3>2. i \notin 1 .. d
      BY <2>1, <3>1
    <3>3. i - d \in 1 .. n - d /\ d + (i - d) = i
      BY <1>2, <1>3, <3>2
    <3>4. r[i - d] = x
      BY <1>5, <3>1, <3>3
    <3>5. QED
      BY <3>1, <3>3, <3>4
  <2>2. ASSUME NEW i \in 1 .. n - d, r[i] # Note PROVE r[i] \in known
    <3>1. d + i \in 1 .. n /\ d + i \notin 1 .. d /\ r[i] = s[d + i]
      BY <1>2, <1>3, <1>5
    <3>2. r[i] \in t.known
      BY <1>8, <2>2, <3>1
    <3>3. \A j \in 1 .. d : s[j] # r[i]
      BY <1>2, <1>3, <1>8, <2>2, <3>1
    <3>4. QED
      BY <3>2, <3>3
  <2> HIDE DEF known
  <2>3. QED
    BY <2>1, <2>2
<1>10. \A i, j \in 1 .. n - d : r[i] = r[j] /\ r[i] # Note => i = j
  <2>1. ASSUME NEW i \in 1 .. n - d, NEW j \in 1 .. n - d, r[i] = r[j], r[i] # Note PROVE i = j
    <3>1. d + i \in 1 .. n /\ d + j \in 1 .. n /\ r[i] = s[d + i] /\ r[j] = s[d + j]
      BY <1>2, <1>3, <1>5
    <3>2. d + i = d + j
      BY <1>8, <2>1, <3>1
    <3>3. QED
      BY <1>2, <1>3, <3>2
  <2>2. QED
    BY <2>1
<1> HIDE DEF known
<1>11. /\ u \in TalkRow /\ u.sources = r /\ u.known = known /\ u.round = t.round /\ u.gone = t.gone /\ u.at = t.at
  BY <1>1, <1>4, <1>5, <1>7 DEF TalkRow
<1>12. Material(u)
  <2>1. u.known = {u.sources[i] : i \in DOMAIN u.sources} \ {Note}
    BY <1>6, <1>9, <1>11
  <2>2. \A i, j \in DOMAIN u.sources : u.sources[i] = u.sources[j] /\ u.sources[i] # Note => i = j
    BY <1>6, <1>10, <1>11
  <2>3. u.round # 0 /\ (\A k \in u.known : k.read <= u.round) /\ \A k \in u.gone : k.read < u.round
    BY <1>7, <1>11 DEF Material
  <2>4. QED
    BY <1>11, <2>1, <2>2, <2>3 DEF Material
<1>13. Goes(t, u) /\ u.known \subseteq t.known
  BY <1>7, <1>11, <1>12 DEF Goes
<1>14. QED
  BY <1>13 DEF u

LEMMA MaterialAsBefore ==
  ASSUME NEW t, Material(t), NEW u \in TalkRow, u.round = t.round, u.sources = t.sources,
         u.known = t.known, u.gone = t.gone
  PROVE  Material(u) /\ (Settled(t) => Settled(u))
BY DEF Material, Settled

-----------------------------------------------------------------------------
(* The steps.                                                              *)

\* A round is over; there is a next one, or the question has stopped.
LEMMA OnwardsKeeps ==
  ASSUME NEW u, Material(u), talk' = Onwards(u)
  PROVE  TalkInv'
<1>1. u \in TalkRow /\ u.round \in Nat /\ u.round # 0
  BY DEF Material, TalkRow
<1>2. CASE u.round = MaxSteps
  <2>1. talk' = [u EXCEPT !.at = "stopped", !.call = "none"]
    BY <1>1, <1>2 DEF Onwards, TalkRow
  <2>2. talk' \in TalkRow /\ talk'.at = "stopped"
    BY <1>1, <2>1 DEF TalkRow
  <2>3. QED
    BY <2>2 DEF TalkInv, Talking
<1>3. CASE u.round # MaxSteps
  <2>1. talk' = [u EXCEPT !.at = "ask", !.call = "none", !.round = u.round + 1]
    BY <1>1, <1>3 DEF Onwards, TalkRow
  <2>2. /\ talk' \in TalkRow /\ talk'.at = "ask" /\ talk'.round = u.round + 1
        /\ talk'.sources = u.sources /\ talk'.known = u.known /\ talk'.gone = u.gone
    <3>1. u.round + 1 \in Nat
      BY <1>1
    <3>2. QED
      BY ONLY <1>1, <2>1, <3>1 DEF TalkRow
  <2>3. (\A s \in u.known : s.read < u.round + 1) /\ \A s \in u.gone : s.read < u.round + 1
    <3>1. u.known \subseteq SourceRow /\ u.gone \subseteq SourceRow
      BY <1>1 DEF TalkRow
    <3>2. \A s \in u.known \cup u.gone : s.read \in Nat
      BY <3>1 DEF SourceRow
    <3>3. QED
      BY <1>1, <3>2 DEF Material
  <2>4. \A s \in u.known : s.read <= u.round + 1
    <3>1. \A s \in u.known : s.read \in Nat
      BY <1>1 DEF TalkRow, SourceRow
    <3>2. QED
      BY <1>1, <2>3, <3>1
  <2>5. Material(talk)' /\ Settled(talk)'
    BY <1>1, <2>2, <2>3, <2>4 DEF Material, Settled
  <2>6. QED
    BY <2>2, <2>5 DEF TalkInv
<1>4. QED
  BY <1>2, <1>3

LEMMA NoTalkIsFine == NoTalk \in TalkRow /\ NoTalk.at = "idle"
<1>1. <<>> \in Seq(SourceRow)
  BY EmptySeq
<1>2. QED
  BY <1>1 DEF NoTalk, TalkRow, Levels, Public

LEMMA AsksKeep ==
  ASSUME TalkInv, AskQuestion
  PROVE  TalkInv'
<1>1. PICK l \in {Personal, Secret} : talk' = [NoTalk EXCEPT !.at = "ask", !.round = 1, !.typed = l]
  BY DEF AskQuestion
<1>2. /\ talk' \in TalkRow /\ talk'.at = "ask" /\ talk'.round = 1 /\ talk'.sources = <<>>
      /\ talk'.known = {} /\ talk'.gone = {}
  BY <1>1, NoTalkIsFine DEF NoTalk, TalkRow, Levels
<1>3. Material(talk)' /\ Settled(talk)'
  BY <1>2 DEF Material, Settled
<1>4. QED
  BY <1>2, <1>3 DEF TalkInv

\* A request is as sensitive as the most sensitive of what it names.
LEMMA PlanKeeps ==
  ASSUME TalkInv, Plan
  PROVE  TalkInv'
<1> DEFINE t == Trim(talk)
           levels == {t.typed} \cup {s.level : s \in t.known}
<1>1. talk' = [t EXCEPT !.at = "asked", !.level = Max(levels)] /\ talk.at = "ask"
  BY DEF Plan
<1>2. Material(talk) /\ Settled(talk) /\ Goes(talk, t) /\ t.known \subseteq talk.known
  BY <1>1, Trimmed DEF TalkInv, Talking
<1> HIDE DEF t
<1>3. Material(t) /\ Settled(t) /\ t \in TalkRow
  BY <1>2 DEF Goes, Settled, Material
<1>4. levels \in SUBSET Levels /\ levels # {}
  BY <1>3 DEF TalkRow, SourceRow
<1>5. Max(levels) \in Levels /\ \A l \in levels : Max(levels) >= l
  BY <1>4, MaxIsThere
<1>6. \A s \in t.known : s.level \in levels
  OBVIOUS
<1> HIDE DEF levels
<1>7. /\ talk' \in TalkRow /\ talk'.at = "asked" /\ talk'.level = Max(levels) /\ talk'.round = t.round
      /\ talk'.sources = t.sources /\ talk'.known = t.known /\ talk'.gone = t.gone
  BY <1>1, <1>3, <1>5 DEF TalkRow
<1>8. Material(talk)' /\ Settled(talk)'
  BY <1>3, <1>7 DEF Material, Settled
<1>9. \A s \in t.known : s.level <= Max(levels)
  <2>1. TAKE s \in t.known
  <2>2. s.level \in Levels /\ Max(levels) \in Levels /\ Max(levels) >= s.level
    BY <1>4, <1>5, <1>6
  <2>3. \A l \in Levels : l \in Int
    BY DEF Levels, Public, Personal, Secret
  <2>4. QED
    BY <2>2, <2>3
<1>10. QED
  BY <1>7, <1>8, <1>9 DEF TalkInv

LEMMA AnswerKeeps ==
  ASSUME TalkInv, Answer
  PROVE  TalkInv'
<1>1. PICK cites \in SUBSET Mails :
        talk' = [talk EXCEPT !.at = "answered", !.cited = {s \in talk.known : s.of \in cites}]
  BY DEF Answer
<1>2. talk.at = "asked" /\ talk \in TalkRow /\ Material(talk) /\ Settled(talk)
  BY DEF Answer, TalkInv, Talking
<1> DEFINE cited == {s \in talk.known : s.of \in cites}
<1>3. cited \subseteq talk.known /\ cited \in SUBSET SourceRow
  BY <1>2 DEF TalkRow
<1>4. talk' = [talk EXCEPT !.at = "answered", !.cited = cited]
  BY <1>1
<1> HIDE DEF cited
<1>5. /\ talk' \in TalkRow /\ talk'.at = "answered" /\ talk'.cited = cited /\ talk'.known = talk.known
      /\ talk'.sources = talk.sources /\ talk'.round = talk.round /\ talk'.gone = talk.gone
  BY <1>2, <1>3, <1>4 DEF TalkRow
<1>6. Material(talk)' /\ Settled(talk)'
  BY <1>2, <1>5 DEF Material, Settled
<1>7. QED
  BY <1>3, <1>5, <1>6 DEF TalkInv

\* Where the question goes on without a new round.
LEMMA TalkMoves ==
  ASSUME TalkInv, talk' \in TalkRow, talk.at \in Talking, talk'.at \notin {"asked", "answered"},
         talk'.round = talk.round, talk'.sources = talk.sources, talk'.known = talk.known,
         talk'.gone = talk.gone
  PROVE  TalkInv'
<1>1. Material(talk)' /\ Settled(talk)'
  BY DEF TalkInv, Material, Settled
<1>2. QED
  BY <1>1 DEF TalkInv

LEMMA WantsKeeps ==
  ASSUME TalkInv, NEW c \in Calls, Wants(c)
  PROVE  TalkInv'
<1>1. /\ talk.at = "asked" /\ talk \in TalkRow
      /\ talk' = [talk EXCEPT !.at = "tool", !.call = c, !.made = @ \cup {c}]
  BY DEF Wants, TalkInv
<1>2. /\ talk' \in TalkRow /\ talk'.at = "tool" /\ talk'.round = talk.round
      /\ talk'.sources = talk.sources /\ talk'.known = talk.known /\ talk'.gone = talk.gone
  BY <1>1 DEF TalkRow
<1>3. QED
  BY <1>1, <1>2, TalkMoves DEF Talking

LEMMA RepeatsKeep ==
  ASSUME TalkInv, NEW c \in Calls, Repeats(c)
  PROVE  TalkInv'
<1> DEFINE t == [talk EXCEPT !.repeats = @ + 1]
<1>1. talk.at = "asked" /\ talk \in TalkRow /\ Material(talk) /\ talk' = Onwards(AddNote(t))
  BY DEF Repeats, TalkInv, Talking
<1>2. /\ t \in TalkRow /\ t.round = talk.round /\ t.sources = talk.sources /\ t.known = talk.known
      /\ t.gone = talk.gone
  BY <1>1 DEF TalkRow
<1> HIDE DEF t
<1>3. Material(t)
  BY <1>1, <1>2, MaterialAsBefore
<1>4. Material(AddNote(t))
  BY <1>3, NoteAdded DEF Goes
<1>5. QED
  BY <1>1, <1>4, OnwardsKeeps

LEMMA SameCardinality ==
  ASSUME NEW S
  PROVE  Sequence!Cardinality(S) = Cardinality(S)
  BY DEF Cardinality, Sequence!Cardinality

LEMMA OrdersAreFunctions ==
  ASSUME NEW S, NEW ms \in Sequence!SetToSeqs(S)
  PROVE  ms \in [1 .. Cardinality(S) -> S]
  BY SameCardinality DEF Sequence!SetToSeqs

LEMMA SameLength ==
  ASSUME NEW m \in Nat, NEW n \in Nat, 1 .. m = 1 .. n
  PROVE  m = n
<1>1. m = 0 \/ m \in 1 .. m
  OBVIOUS
<1>2. n = 0 \/ n \in 1 .. n
  OBVIOUS
<1>3. QED
  BY <1>1, <1>2

LEMMA LookupKeeps ==
  ASSUME TalkInv, PassesTypes, IsFiniteSet(item), Lookup
  PROVE  TalkInv'
<1>1. PICK found \in SUBSET item, card \in BOOLEAN :
        \E ms \in Sequence!SetToSeqs(found) :
          talk' = Onwards(AddItems(IF card \/ found = {} THEN AddNote(talk) ELSE talk, ms))
  BY DEF Lookup
<1>2. PICK ms \in Sequence!SetToSeqs(found) :
        talk' = Onwards(AddItems(IF card \/ found = {} THEN AddNote(talk) ELSE talk, ms))
  BY <1>1
<1> DEFINE n == Cardinality(found)
           t == IF card \/ found = {} THEN AddNote(talk) ELSE talk
<1>3. n \in Nat /\ found \subseteq Mails
  BY FS_Subset, FS_CardinalityType DEF PassesTypes
<1>4. ms \in [1 .. n -> found]
  BY <1>2, OrdersAreFunctions
<1> HIDE DEF n
<1>5. Len(ms) = n /\ \A i \in 1 .. n : ms[i] \in Mails
  <2>1. ms \in Seq(found)
    BY <1>3, <1>4, SeqDef
  <2>2. Len(ms) \in Nat /\ DOMAIN ms = 1 .. Len(ms)
    BY <2>1, LenProperties
  <2>3. 1 .. Len(ms) = 1 .. n
    BY <1>4, <2>2
  <2>4. Len(ms) = n
    BY <1>3, <2>2, <2>3, SameLength
  <2>5. QED
    BY <1>3, <1>4, <2>4
<1>6. Material(talk)
  BY DEF Lookup, TalkInv, Talking
<1>7. Material(t)
  BY <1>6, NoteAdded DEF Goes
<1>8. talk' = Onwards(AddItems(t, ms))
  BY <1>2
<1> HIDE DEF t
<1>9. Material(AddItems(t, ms))
  BY <1>3, <1>5, <1>7, ItemsAdded DEF Goes
<1>10. QED
  BY <1>8, <1>9, OnwardsKeeps

LEMMA DraftsKeep ==
  ASSUME TalkInv, Draft \/ Drafted
  PROVE  TalkInv'
<1>1. talk.at \in {"tool", "drafting"} /\ talk \in TalkRow /\ Material(talk)
  BY DEF Draft, Drafted, TalkInv, Talking
<1>2. CASE talk' = Onwards(AddNote(talk))
  <2>1. Material(AddNote(talk))
    BY <1>1, NoteAdded DEF Goes
  <2>2. QED
    BY <1>2, <2>1, OnwardsKeeps
<1>3. CASE talk' = [talk EXCEPT !.at = "drafting"]
  <2>1. /\ talk' \in TalkRow /\ talk'.at = "drafting" /\ talk'.round = talk.round
        /\ talk'.sources = talk.sources /\ talk'.known = talk.known /\ talk'.gone = talk.gone
    BY <1>1, <1>3 DEF TalkRow
  <2>2. QED
    BY <1>1, <2>1, TalkMoves DEF Talking
<1>4. QED
  BY <1>2, <1>3 DEF Draft, Drafted

LEMMA TalkStopsKeep ==
  ASSUME TalkInv, TalkFails
  PROVE  TalkInv'
<1>1. talk' \in {[talk EXCEPT !.at = "stopped"], [talk EXCEPT !.at = "lost"]} /\ talk \in TalkRow
  BY DEF TalkFails, Stops, TalkInv
<1>2. talk' \in TalkRow /\ talk'.at \in {"stopped", "lost"}
  BY <1>1 DEF TalkRow
<1>3. QED
  BY <1>2 DEF TalkInv, Talking

LEMMA TalkOver ==
  ASSUME talk' = NoTalk
  PROVE  TalkInv'
BY NoTalkIsFine DEF TalkInv, Talking

LEMMA TalkFollowsKeeps ==
  ASSUME TalkInv, TalkFollows
  PROVE  TalkInv'
<1> DEFINE gone == talk.gone \cup {s \in talk.known : s.of \in item \ item'}
<1>1. talk' = NoTalk \/ talk' = [talk EXCEPT !.gone = gone]
  BY DEF TalkFollows
<1>2. talk \in TalkRow
  BY DEF TalkInv
<1>3. gone \in SUBSET SourceRow /\ gone \subseteq talk.gone \cup talk.known
  BY <1>2 DEF TalkRow
<1> HIDE DEF gone
<1>4. CASE talk' = [talk EXCEPT !.gone = gone]
  <2>1. /\ talk' \in TalkRow /\ talk'.at = talk.at /\ talk'.round = talk.round
        /\ talk'.sources = talk.sources /\ talk'.known = talk.known /\ talk'.gone = gone
        /\ talk'.level = talk.level /\ talk'.cited = talk.cited
    BY <1>2, <1>3, <1>4 DEF TalkRow
  <2>2. talk.at \in Talking => Material(talk)' /\ Settled(talk)'
    <3>1. SUFFICES ASSUME talk.at \in Talking PROVE Material(talk)' /\ Settled(talk)'
      OBVIOUS
    <3>2. Material(talk) /\ Settled(talk)
      BY <3>1 DEF TalkInv
    <3>3. \A s \in gone : s.read < talk.round
      BY <1>3, <3>2 DEF Material, Settled
    <3>4. QED
      BY <2>1, <3>2, <3>3 DEF Material, Settled
  <2>3. QED
    BY <2>1, <2>2 DEF TalkInv
<1>5. QED
  BY <1>1, <1>4, TalkOver

LEMMA ConverseKeeps ==
  ASSUME TalkInv, PassesInv, Converse
  PROVE  TalkInv'
<1>1. CASE AskQuestion \/ Plan \/ Answer
  BY <1>1, AsksKeep, PlanKeeps, AnswerKeeps
<1>2. CASE Lookup
  BY <1>2, LookupKeeps DEF PassesInv, Counting
<1>3. CASE Draft \/ Drafted \/ TalkFails
  BY <1>3, DraftsKeep, TalkStopsKeep
<1>4. CASE Replied
  BY <1>4, TalkOver DEF Replied
<1>5. CASE \E c \in Calls : Wants(c) \/ Repeats(c)
  BY <1>5, WantsKeeps, RepeatsKeep
<1>6. QED
  BY <1>1, <1>2, <1>3, <1>4, <1>5 DEF Converse

LEMMA TalkStays ==
  ASSUME PassesInv, TalkInv, [ConversationNext]_conversationVars
  PROVE  TalkInv'
<1>1. CASE PassesNext /\ TalkFollows
  BY <1>1, TalkFollowsKeeps
<1>2. CASE Converse
  BY <1>2, ConverseKeeps
<1>3. CASE talk' = talk
  BY <1>3 DEF TalkInv, Material, Settled
<1>4. QED
  BY <1>1, <1>2, <1>3 DEF ConversationNext, conversationVars

\* Whatever is asked, the items and what is worked out about them go on as Files
\* and Passes say: a question writes neither.
THEOREM QuestionsOnlyRead == ConversationSpec => PassesSpec
<1>1. ConversationInit => PassesInit
  BY DEF ConversationInit
<1>2. [ConversationNext]_conversationVars => [PassesNext]_<<filesVars, passesVars>>
  BY DEF ConversationNext, conversationVars
<1>3. QED
  BY <1>1, <1>2, PTL DEF ConversationSpec, PassesSpec

LEMMA TalkInvHolds == ConversationSpec => []TalkInv
<1>1. ConversationInit => TalkInv
  BY NoTalkIsFine DEF ConversationInit, TalkInv, Talking
<1>2. FilesInv /\ PassesInv /\ TalkInv /\ [ConversationNext]_conversationVars => TalkInv'
  BY TalkStays
<1>3. ConversationSpec => [](FilesInv /\ PassesInv)
  BY QuestionsOnlyRead, PassesInvHolds, PTL
<1>4. QED
  BY <1>1, <1>2, <1>3, PTL DEF ConversationSpec

LEMMA ShownIsKnown ==
  ASSUME Material(talk)
  PROVE  Shown = talk.known
BY DEF Material, Shown

\* Every message in the material of a request is among the items it names, and
\* none is above its level: conversation.rs, whatever was looked up twice,
\* dropped, found again or removed meanwhile.
THEOREM EveryPromptIsCovered == ConversationSpec => []PromptIsCovered
<1>1. TalkInv => PromptIsCovered
  BY ShownIsKnown DEF TalkInv, Talking, PromptIsCovered
<1>2. QED
  BY <1>1, TalkInvHolds, PTL

\* What an answer cites was in the material it was made from: conversation.rs.
THEOREM EveryCiteIsShown == ConversationSpec => []CitesAreShown
<1>1. TalkInv => CitesAreShown
  BY ShownIsKnown DEF TalkInv, Talking, CitesAreShown
<1>2. QED
  BY <1>1, TalkInvHolds, PTL

\* Files, passes and questions at once, as the files run has them: what holds of a
\* part by itself holds of it there too.
THEOREM AllOfItTogether ==
  ConversationSpec => [](ItemsAreWhole /\ NothingLingers /\ CachesAddUp /\ AllJudged /\ PromisesStand)
  BY QuestionsOnlyRead, PassesLeaveFilesAlone, ItemsStayWhole, NothingStaysBehind, CachesAlwaysAddUp,
     EveryItemIsJudged, PromisesAlwaysStand, PTL

===============================================================================
