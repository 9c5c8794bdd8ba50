------------------------------- MODULE Ledger -------------------------------
(***************************************************************************)
(* The append-only ledger of crates/ledger/src/ledger.rs and the head file *)
(* of head.rs beside it.  Every row names the hash of the row before it;   *)
(* the head file says where the chain ends, so that a database put back or *)
(* rewritten is noticed when the ledger is next opened.                    *)
(*                                                                         *)
(* Several processes use one ledger: the core while it serves, and every   *)
(* command that opens the system beside it.  Within a process the mutex    *)
(* around the connection lets one append run at a time; between processes  *)
(* there is only SQLite's write lock and its refusal of a transaction that *)
(* read before another one committed.  The commit and the head file are    *)
(* two writes, and the head is written to a file beside it that all of     *)
(* them share, and renamed.                                                *)
(***************************************************************************)
EXTENDS Integers, Sequences

CONSTANTS
  Procs,      \* processes that use the ledger
  Bodies,     \* what a row may say
  Altered,    \* what a row says after somebody rewrote the database
  MaxRows,    \* bound: rows
  MaxMishaps  \* bound: what happens to the database behind the core's back

ASSUME LedgerAssumption ==
  /\ Altered \notin Bodies
  /\ MaxRows \in Nat
  /\ MaxMishaps \in Nat

VARIABLES
  rows,    \* the table `entry`, in order of seq
  head,    \* the head file
  temp,    \* .head.tmp beside it
  pen,     \* by process: the file it writes a head to, and how far it is
  proc,    \* by process: what it is doing with the ledger
  verdict, \* by process: what the last verify said of the chain
  told,    \* memory: rows an append was acknowledged for
  setBack, \* memory: the head came to say less than it had, or than was acknowledged
  crossed, \* memory: two processes were at .head.tmp at once
  mishaps  \* things done to the database

headVars == <<head, temp, pen, setBack, crossed>>
ledgerVars == <<rows, headVars, proc, verdict, told, mishaps>>

Genesis == <<"root">>

\* hash_entry: different chains never share a hash.
HashOf(prev, body) == <<prev, body>>

RowOf(prev, body) == [body |-> body, prev |-> prev, hash |-> HashOf(prev, body)]

\* A point of the chain: how many rows, and the hash of the last one.
PointAt(rs, n) == [seq |-> n, hash |-> IF n = 0 THEN Genesis ELSE rs[n].hash]
End(rs) == PointAt(rs, Len(rs))

\* No file, and one that cannot be read: empty, half written, or of two hands.
NoHead == [seq |-> -1, hash |-> Genesis]
Torn   == [seq |-> -2, hash |-> Genesis]

\* An open file is followed where it is renamed to.
Pen == [on : {"none", "temp", "head", "lost"}, done : BOOLEAN, mixed : BOOLEAN]
NoPen == [on |-> "none", done |-> FALSE, mixed |-> FALSE]

\* Bug: what a row says is not hashed again.
LinksByPrev(rs, n) == rs[n].prev = PointAt(rs, n - 1).hash

Links(rs, n) ==
  /\ rs[n].prev = PointAt(rs, n - 1).hash
  /\ rs[n].hash = HashOf(rs[n].prev, rs[n].body)

\* Whether the rows after `point` run on from it, unbroken.
RunsOn(rs, point) ==
  /\ point.seq <= Len(rs)
  /\ PointAt(rs, point.seq).hash = point.hash
  /\ \A n \in (point.seq + 1) .. Len(rs) : Links(rs, n)

Closed == [pc |-> "closed", at |-> NoHead, row |-> RowOf(Genesis, Altered)]

\* Past reconcile_head: the process has the ledger.
InUse(p) == proc[p].pc \in {"open", "begun", "committed", "walked"}

LedgerInit ==
  /\ rows = <<>>
  /\ head = NoHead /\ temp = NoHead
  /\ pen = [p \in Procs |-> NoPen]
  /\ proc = [p \in Procs |-> Closed]
  /\ verdict = [p \in Procs |-> "none"]
  /\ told = {}
  /\ setBack = FALSE /\ crossed = FALSE
  /\ mishaps = 0

Goto(p, pc) == proc' = [proc EXCEPT ![p].pc = pc]
Ready(p) == proc' = [proc EXCEPT ![p] = [Closed EXCEPT !.pc = "open"]]

-----------------------------------------------------------------------------
(* HeadFile::write: create (or empty) the file beside the head, write the    *)
(* point into it, rename it.  It is the same file for everybody.            *)

PutsHead(p) == proc[p].pc \in {"catching up", "committed"}

\* What it is to say: where the row just committed ends the chain, or the last row.
Aim(p) ==
  IF proc[p].pc = "committed" THEN [seq |-> proc[p].at.seq + 1, hash |-> proc[p].row.hash]
                              ELSE proc[p].at

\* The head file says something else, whatever it said by then.
HeadSays(text, least) ==
  /\ head' = text
  /\ setBack' = (setBack \/ text.seq < head.seq \/ text.seq < least)

\* In the middle of writing to .head.tmp.
Scribbles(q) == pen[q].on = "temp" /\ ~pen[q].done

\* What others have in the file is cut off, and what they are about to write gets
\* between what this one writes.
OpenTemp(p) ==
  /\ PutsHead(p) /\ pen[p].on = "none"
  /\ temp' = Torn
  /\ pen' = [q \in Procs |->
       IF q = p THEN [on |-> "temp", done |-> FALSE, mixed |-> \E r \in Procs : Scribbles(r)]
                ELSE IF Scribbles(q) THEN [pen[q] EXCEPT !.mixed = TRUE] ELSE pen[q]]
  /\ crossed' = (crossed \/ \E q \in Procs : pen[q].on # "none")
  /\ UNCHANGED <<rows, head, proc, verdict, told, setBack, mishaps>>

\* The file this one opened may be the head by now, or nowhere.
FillTemp(p) ==
  /\ pen[p].on # "none" /\ ~pen[p].done
  /\ \E text \in {Aim(p), Torn}, done \in BOOLEAN :
       /\ text = Torn \/ ~done => pen[p].mixed
       /\ pen' = [pen EXCEPT ![p].done = done]
       /\ temp' = IF pen[p].on = "temp" THEN text ELSE temp
       /\ IF pen[p].on = "head" THEN HeadSays(text, text.seq) ELSE UNCHANGED <<head, setBack>>
  /\ UNCHANGED <<rows, proc, verdict, told, crossed, mishaps>>

\* Whatever is at .head.tmp becomes the head, whoever wrote it.
Rename(p) ==
  /\ pen[p].done /\ temp # NoHead
  /\ HeadSays(temp, Aim(p).seq)
  /\ temp' = NoHead
  /\ pen' = [q \in Procs |->
       IF q = p THEN NoPen
                ELSE CASE pen[q].on = "temp" -> [pen[q] EXCEPT !.on = "head"]
                       [] pen[q].on = "head" -> [pen[q] EXCEPT !.on = "lost"]
                       [] OTHER -> pen[q]]
  /\ UNCHANGED crossed

PutsDown(p) == pen' = [pen EXCEPT ![p] = NoPen] /\ UNCHANGED <<head, temp, setBack, crossed>>

-----------------------------------------------------------------------------
(* Opening: the last row is read, then the head file, then the head is      *)
(* written or caught up.                                                    *)

StartOpening(p) ==
  /\ proc[p].pc = "closed"
  /\ proc' = [proc EXCEPT ![p] = [pc |-> "opening", at |-> End(rows), row |-> @.row]]
  /\ UNCHANGED <<rows, headVars, verdict, told, mishaps>>

Agrees(p) == head = proc[p].at

\* Bug: the head may only be further behind than the append that was under way.
IsFarBehind(p) ==
  head \notin {NoHead, Torn} /\ head.seq < proc[p].at.seq - 1 /\ RunsOn(rows, head)

IsBehind(p) == /\ head \notin {NoHead, Torn}
               /\ head.seq < proc[p].at.seq
               /\ RunsOn(rows, head)

CompareHead(p) ==
  /\ proc[p].pc = "opening"
  /\ \/ Agrees(p) /\ Ready(p)
     \/ (head = NoHead \/ IsBehind(p)) /\ Goto(p, "catching up")
  /\ UNCHANGED <<rows, headVars, verdict, told, mishaps>>

CatchUp(p) ==
  /\ proc[p].pc = "catching up"
  /\ Rename(p)
  /\ Ready(p)
  /\ UNCHANGED <<rows, verdict, told, mishaps>>

\* The disk is full, or .head.tmp is gone: the process does not start.
CatchUpFails(p) ==
  /\ proc[p].pc = "catching up"
  /\ PutsDown(p)
  /\ proc' = [proc EXCEPT ![p] = Closed]
  /\ UNCHANGED <<rows, verdict, told, mishaps>>

\* HeadMismatch: the process does not start.
RefuseToOpen(p) ==
  /\ proc[p].pc = "opening"
  /\ ~Agrees(p) /\ head # NoHead /\ ~IsBehind(p)
  /\ proc' = [proc EXCEPT ![p] = Closed]
  /\ UNCHANGED <<rows, headVars, verdict, told, mishaps>>

-----------------------------------------------------------------------------
(* Appending: a deferred transaction reads the last row, inserts and        *)
(* commits; then the head is written.                                       *)

Begin(p, body) ==
  /\ proc[p].pc = "open"
  /\ Len(rows) < MaxRows
  /\ proc' = [proc EXCEPT ![p] = [pc |-> "begun", at |-> End(rows),
                                  row |-> RowOf(End(rows).hash, body)]]
  /\ UNCHANGED <<rows, headVars, verdict, told, mishaps>>

\* SQLite lets the snapshot be written to if nobody committed since it was read.
Commit(p) ==
  /\ proc[p].pc = "begun"
  /\ proc[p].at = End(rows)
  /\ rows' = Append(rows, proc[p].row)
  /\ Goto(p, "committed")
  /\ UNCHANGED <<headVars, verdict, told, mishaps>>

\* Somebody did, or the disk is full: the append is an error.
CommitFails(p) ==
  /\ proc[p].pc = "begun"
  /\ Ready(p)
  /\ UNCHANGED <<rows, headVars, verdict, told, mishaps>>

WriteHead(p) ==
  /\ proc[p].pc = "committed"
  /\ Rename(p)
  /\ told' = told \cup {proc[p].row}
  /\ Ready(p)
  /\ UNCHANGED <<rows, verdict, mishaps>>

\* The row is there, but the append is an error.
HeadFails(p) ==
  /\ proc[p].pc = "committed"
  /\ PutsDown(p)
  /\ Ready(p)
  /\ UNCHANGED <<rows, verdict, told, mishaps>>

-----------------------------------------------------------------------------
(* verify: the chain is walked under the lock, then the lock is given back  *)
(* and the head file is read.                                               *)

Walk(p) ==
  /\ proc[p].pc = "open"
  /\ IF \A n \in DOMAIN rows : Links(rows, n)
     THEN /\ proc' = [proc EXCEPT ![p] = [pc |-> "walked", at |-> End(rows), row |-> @.row]]
          /\ UNCHANGED verdict
     ELSE /\ verdict' = [verdict EXCEPT ![p] = "broken"]
          /\ UNCHANGED proc
  /\ UNCHANGED <<rows, headVars, told, mishaps>>

CompareEnd(p) ==
  /\ proc[p].pc = "walked"
  /\ verdict' = [verdict EXCEPT ![p] =
       IF head \in {NoHead, proc[p].at} THEN "good" ELSE "mismatch"]
  /\ Ready(p)
  /\ UNCHANGED <<rows, headVars, told, mishaps>>

-----------------------------------------------------------------------------
(* A process ends, at any moment; and what the head file is there for: with *)
(* nothing running, the database is put back or rewritten.                  *)

Stop(p) ==
  /\ proc[p].pc # "closed"
  /\ PutsDown(p)
  /\ proc' = [proc EXCEPT ![p] = Closed]
  /\ verdict' = [verdict EXCEPT ![p] = "none"]
  /\ UNCHANGED <<rows, told, mishaps>>

Mishap ==
  /\ mishaps < MaxMishaps
  /\ \A p \in Procs : proc[p].pc = "closed"
  /\ rows # <<>>
  /\ \/ \E n \in 0 .. (Len(rows) - 1) : rows' = SubSeq(rows, 1, n)
     \/ \E n \in DOMAIN rows : rows' = [rows EXCEPT ![n].body = Altered]
     \/ rows' = [rows EXCEPT ![Len(rows)] = RowOf(@.prev, Altered)]
  /\ mishaps' = mishaps + 1
  /\ UNCHANGED <<headVars, proc, verdict, told>>

\* What a process does that no caller waits for.
LedgerStep(p) ==
  \/ CompareHead(p) \/ RefuseToOpen(p)
  \/ OpenTemp(p) \/ FillTemp(p) \/ CatchUp(p) \/ CatchUpFails(p)
  \/ Walk(p) \/ CompareEnd(p)

\* An append of one's own, from beginning to end.
AppendStep(p) ==
  \/ \E body \in Bodies : Begin(p, body)
  \/ Commit(p) \/ CommitFails(p) \/ WriteHead(p) \/ HeadFails(p)

LedgerNext ==
  \/ \E p \in Procs : StartOpening(p) \/ LedgerStep(p) \/ AppendStep(p) \/ Stop(p)
  \/ Mishap

LedgerSpec == LedgerInit /\ [][LedgerNext]_ledgerVars

-----------------------------------------------------------------------------
\* The ledger a process was let into still has every row whose append was
\* acknowledged, whatever was done to the database meanwhile: cut back or with its
\* end rewritten it does not fit the head file.  And a chain that verify calls good
\* says what it was told, word for word.  (Unless processes that wrote their heads
\* in the wrong order, or both at once, left a head that vouches for less.)
NothingToldIsLost ==
  ~setBack =>
    \A p \in Procs, row \in told :
      /\ InUse(p) => \E n \in DOMAIN rows : rows[n].hash = row.hash
      /\ verdict[p] = "good" => \E n \in DOMAIN rows : rows[n] = row

\* A ledger nobody touched is refused only by a process that was overtaken while
\* it opened it (a row was appended after it read the last one), or after two
\* processes were at .head.tmp at once: crashes, full disks and what they leave
\* half written do not lock anybody out.
RefusedOnlyIfOvertaken ==
  [][\A p \in Procs :
       RefuseToOpen(p) => mishaps > 0 \/ Len(rows) > proc[p].at.seq \/ crossed]_ledgerVars

=============================================================================
