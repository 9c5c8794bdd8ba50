---------------------------- MODULE EgressProofs ----------------------------
(***************************************************************************)
(* What Ledger.tla and Egress.tla promise, for every number of processes,  *)
(* rows, calls, models and configurations.  In four parts:                 *)
(*                                                                         *)
(* The ledger.  Whatever happens to the database, the table stays a chain  *)
(* of hashes, and a hash holds the whole chain before it.  So a ledger     *)
(* that fits the head file has every row the head file ever stood for, and *)
(* a process that was let in had a ledger that fits.                       *)
(*                                                                         *)
(* The gate.  The gateway decides by the ticket and by where its own       *)
(* configuration says the model runs; all that is needed of the gate is    *)
(* that a ticket that lets content leave is minted for public content or   *)
(* for redacted bytes.                                                     *)
(*                                                                         *)
(* The tickets.  What a request drops from the spent nonces had expired    *)
(* before it read the clock.                                               *)
(*                                                                         *)
(* The records.  While the core has the ledger nobody touches the          *)
(* database, and the core appends for one call at a time; so a call that   *)
(* goes on is on record, and goes on being so.                             *)
(***************************************************************************)
EXTENDS Egress, WellFoundedInduction, TLAPS

-----------------------------------------------------------------------------
(* Numbers. *)

\* Numbers have a least.
LEMMA Least ==
  ASSUME NEW T, T \subseteq Nat, T # {}
  PROVE  \E x \in T : \A y \in T : x <= y
<1> DEFINE R == OpToRel(<, Nat)
<1>1. IsWellFoundedOn(R, Nat)
  BY NatLessThanWellFounded
<1>2. \A x, y \in Nat : y < x => <<y, x>> \in R
  BY DEF OpToRel
<1> HIDE DEF R
<1>3. \E x \in T : \A y \in T : ~ (<<y, x>> \in R)
  BY <1>1, WFMin
<1>4. PICK x \in T : \A y \in T : ~ (<<y, x>> \in R)
  BY <1>3
<1>5. x \in Nat /\ \A y \in T : y \in Nat
  OBVIOUS
<1>6. ASSUME NEW y \in T PROVE x <= y
  <2>1. ~ (y < x)
    BY <1>2, <1>4, <1>5, Zenon
  <2> QED
    BY <2>1, <1>5
<1> QED
  BY <1>6

-----------------------------------------------------------------------------
(* The chain.  A row's hash holds the whole chain up to it, so two chains   *)
(* with the same hash at a point are the same up to there.                  *)

\* The hashes nest without bound, so the rows have no type but being a sequence.
IsSeq(s) == \E S : s \in Seq(S)

IsPoint(rs, at) == at.seq \in 0 .. Len(rs) /\ at = PointAt(rs, at.seq)

IsRow(r) == \E body, prev, hash : r = [body |-> body, prev |-> prev, hash |-> hash]

\* What no rewriting of the database we know of undoes: each row goes on from the
\* row before it, and its hash was made for some content.
Chained(rs) ==
  \A n \in 1 .. Len(rs) :
    /\ IsRow(rs[n])
    /\ rs[n].prev = PointAt(rs, n - 1).hash
    /\ \E body : rs[n].hash = HashOf(rs[n].prev, body)

Unbroken(rs) == \A n \in 1 .. Len(rs) : Links(rs, n)

\* A ledger that has this point has a row with this row's hash.
Vouches(at, row) ==
  \A rs : IsSeq(rs) /\ Chained(rs) /\ IsPoint(rs, at) =>
            \E n \in 1 .. at.seq : rs[n].hash = row.hash

LEMMA Pairs ==
  ASSUME NEW a, NEW b, NEW c, NEW d, <<a, b>> = <<c, d>>
  PROVE  a = c /\ b = d
<1>1. /\ <<a, b>>[1] = a /\ <<a, b>>[2] = b
      /\ <<c, d>>[1] = c /\ <<c, d>>[2] = d
  OBVIOUS
<1> QED
  BY <1>1

LEMMA SameBelow ==
  ASSUME NEW rs, NEW qs, Chained(rs), Chained(qs), Len(rs) \in Nat, Len(qs) \in Nat,
         NEW n \in Nat, n <= Len(rs), n <= Len(qs),
         PointAt(rs, n).hash = PointAt(qs, n).hash,
         NEW m \in 0 .. n
  PROVE  PointAt(rs, m).hash = PointAt(qs, m).hash
<1> DEFINE Same(k) == PointAt(rs, k).hash = PointAt(qs, k).hash
           T == {j \in 0 .. n : ~Same(n - j)}
<1>1. SUFFICES ASSUME T # {} PROVE FALSE
  <2>1. n - m \in 0 .. n /\ n - (n - m) = m
    OBVIOUS
  <2> QED
    BY <2>1
<1>2. PICK j \in T : \A i \in T : j <= i
  <2>1. T \subseteq Nat
    OBVIOUS
  <2> HIDE DEF T
  <2> QED
    BY <1>1, <2>1, Least
<1>3. j \in 1 .. n
  BY <1>2
<1>4. Same(n - (j - 1))
  <2>1. j - 1 \in 0 .. n /\ j - 1 \notin T
    BY <1>2, <1>3
  <2> QED
    BY <2>1
<1> DEFINE k == n - (j - 1)
<1>5. k \in 1 .. n /\ k - 1 = n - j /\ k # 0 /\ k \in 1 .. Len(rs) /\ k \in 1 .. Len(qs)
  BY <1>3
<1> HIDE DEF k
<1>6. rs[k].hash = qs[k].hash
  BY <1>4, <1>5 DEF PointAt, k
<1>7. rs[k].prev = qs[k].prev
  <2>1. PICK a : rs[k].hash = <<rs[k].prev, a>>
    BY <1>5 DEF Chained, HashOf
  <2>2. PICK b : qs[k].hash = <<qs[k].prev, b>>
    BY <1>5 DEF Chained, HashOf
  <2>3. <<rs[k].prev, a>> = <<qs[k].prev, b>>
    BY <1>6, <2>1, <2>2
  <2> QED
    BY ONLY <2>3, Pairs
<1>8. Same(k - 1)
  BY <1>5, <1>7 DEF Chained
<1> QED
  BY <1>2, <1>5, <1>8

LEMMA SeqLen ==
  ASSUME NEW rs, IsSeq(rs)
  PROVE  Len(rs) \in Nat /\ DOMAIN rs = 1 .. Len(rs)
BY DEF IsSeq

\* What a point vouches for, every later point of the chain does.
LEMMA VouchesOn ==
  ASSUME NEW rs, IsSeq(rs), Chained(rs), NEW a, NEW b, IsPoint(rs, a), IsPoint(rs, b),
         a.seq <= b.seq, NEW row, Vouches(a, row)
  PROVE  Vouches(b, row)
<1> SUFFICES ASSUME NEW qs, IsSeq(qs), Chained(qs), IsPoint(qs, b)
             PROVE  \E n \in 1 .. b.seq : qs[n].hash = row.hash
  BY DEF Vouches
<1>1. Len(rs) \in Nat /\ Len(qs) \in Nat
  BY SeqLen
<1>2. /\ b.seq \in Nat /\ b.seq <= Len(rs) /\ b.seq <= Len(qs)
      /\ a.seq \in 0 .. b.seq
  BY <1>1 DEF IsPoint
<1>3. PointAt(rs, b.seq) = PointAt(qs, b.seq)
  BY DEF IsPoint
<1>4. PointAt(rs, a.seq).hash = PointAt(qs, a.seq).hash
  BY <1>1, <1>2, <1>3, SameBelow
<1>5. IsPoint(qs, a)
  <2>1. PointAt(qs, a.seq) = PointAt(rs, a.seq)
    BY <1>4 DEF PointAt
  <2> QED
    BY <1>1, <1>2, <2>1 DEF IsPoint
<1>6. PICK n \in 1 .. a.seq : qs[n].hash = row.hash
  BY <1>5 DEF Vouches
<1>7. n \in 1 .. b.seq
  BY <1>2
<1> QED
  BY <1>6, <1>7

\* The point a row makes vouches for the row.
LEMMA VouchesForItself ==
  ASSUME NEW row, NEW n \in Nat, n # 0
  PROVE  Vouches([seq |-> n, hash |-> row.hash], row)
<1> DEFINE at == [seq |-> n, hash |-> row.hash]
<1> SUFFICES ASSUME NEW rs, IsPoint(rs, at) PROVE rs[n].hash = row.hash /\ n \in 1 .. n
  BY DEF Vouches
<1>1. PointAt(rs, n) = at
  BY DEF IsPoint
<1> QED
  BY <1>1 DEF PointAt

\* Appending to the table: the rows before stay what they are.
LEMMA AppendedRows ==
  ASSUME NEW rs, IsSeq(rs), NEW row
  PROVE  /\ IsSeq(Append(rs, row))
         /\ Len(rs) \in Nat
         /\ Len(Append(rs, row)) = Len(rs) + 1
         /\ Append(rs, row)[Len(rs) + 1] = row
         /\ \A n \in 1 .. Len(rs) : Append(rs, row)[n] = rs[n]
<1>1. PICK S : rs \in Seq(S)
  BY DEF IsSeq
<1>2. rs \in Seq(S \cup {row}) /\ row \in S \cup {row}
  BY <1>1
<1>3. Append(rs, row) \in Seq(S \cup {row})
  BY <1>2
<1>4. QED
  BY <1>2, <1>3 DEF IsSeq

\* A point of the table is one of the table with a row more.
LEMMA PointStays ==
  ASSUME NEW rs, IsSeq(rs), NEW row, NEW at, IsPoint(rs, at)
  PROVE  IsPoint(Append(rs, row), at)
BY AppendedRows DEF IsPoint, PointAt

LEMMA EndIsPoint ==
  ASSUME NEW rs, IsSeq(rs)
  PROVE  IsPoint(rs, End(rs)) /\ End(rs).seq = Len(rs) /\ Len(rs) \in Nat
<1>1. Len(rs) \in Nat
  BY AppendedRows
<1>2. QED
  BY <1>1 DEF IsPoint, End, PointAt

\* The row that was made for the end of the table fits there.
LEMMA ChainGrows ==
  ASSUME NEW rs, IsSeq(rs), Chained(rs), NEW body,
         NEW row, row = RowOf(End(rs).hash, body)
  PROVE  /\ Chained(Append(rs, row))
         /\ Unbroken(rs) => Unbroken(Append(rs, row))
         /\ IsPoint(Append(rs, row), [seq |-> Len(rs) + 1, hash |-> row.hash])
<1> DEFINE more == Append(rs, row)
<1>1. /\ Len(rs) \in Nat
      /\ Len(more) = Len(rs) + 1
      /\ more[Len(rs) + 1] = row
      /\ \A n \in 1 .. Len(rs) : more[n] = rs[n]
  BY AppendedRows
<1> HIDE DEF more
<1>2. \A n \in 0 .. Len(rs) : PointAt(more, n) = PointAt(rs, n)
  BY <1>1 DEF PointAt
<1>3. ASSUME NEW n \in 1 .. Len(rs)
      PROVE  /\ more[n] = rs[n] /\ PointAt(more, n - 1) = PointAt(rs, n - 1)
             /\ Links(rs, n) => Links(more, n)
  <2>1. n - 1 \in 0 .. Len(rs) /\ more[n] = rs[n]
    BY <1>1
  <2>2. QED
    BY <1>2, <2>1 DEF Links
<1>4. /\ row.prev = PointAt(more, (Len(rs) + 1) - 1).hash
      /\ row.hash = HashOf(row.prev, row.body) /\ IsRow(row)
  <2>1. PointAt(more, Len(rs)) = End(rs)
    BY <1>1, <1>2 DEF End
  <2>2. (Len(rs) + 1) - 1 = Len(rs)
    BY <1>1
  <2>3. QED
    BY <2>1, <2>2 DEF RowOf, IsRow
<1>5. \A n \in 1 .. Len(more) : n \in 1 .. Len(rs) \/ n = Len(rs) + 1
  BY <1>1
<1>6. Chained(more)
  <2>1. ASSUME NEW n \in 1 .. Len(more)
        PROVE  /\ IsRow(more[n])
               /\ more[n].prev = PointAt(more, n - 1).hash
               /\ \E b : more[n].hash = HashOf(more[n].prev, b)
    <3>1. CASE n \in 1 .. Len(rs)
      BY <1>3, <3>1 DEF Chained
    <3>2. CASE n = Len(rs) + 1
      BY <1>1, <1>4, <3>2
    <3>3. QED
      BY <1>5, <3>1, <3>2
  <2>2. QED
    BY <2>1 DEF Chained
<1>7. Unbroken(rs) => Unbroken(more)
  BY <1>1, <1>3, <1>4, <1>5 DEF Unbroken, Links
<1>8. IsPoint(more, [seq |-> Len(rs) + 1, hash |-> row.hash])
  BY <1>1 DEF IsPoint, PointAt
<1>9. QED
  BY <1>6, <1>7, <1>8 DEF more

\* From any of its points an unbroken chain runs on.
LEMMA RunsOnFromPoints ==
  ASSUME NEW rs, IsSeq(rs), Unbroken(rs), NEW at, IsPoint(rs, at)
  PROVE  RunsOn(rs, at)
<1>1. Len(rs) \in Nat
  BY AppendedRows
<1>2. QED
  BY <1>1 DEF IsPoint, RunsOn, Unbroken

\* Where a row's hash says what it says, the row is the one the hash was made for.
LEMMA HashTells ==
  ASSUME NEW rs, Chained(rs), Unbroken(rs), NEW n \in 1 .. Len(rs),
         NEW row, row = RowOf(row.prev, row.body), rs[n].hash = row.hash
  PROVE  rs[n] = row
<1>1. PICK b, p, h : rs[n] = [body |-> b, prev |-> p, hash |-> h]
  BY DEF Chained, IsRow
<1>2. rs[n].hash = <<rs[n].prev, rs[n].body>>
  BY DEF Unbroken, Links, HashOf
<1>3. row.hash = <<row.prev, row.body>>
  BY DEF RowOf, HashOf
<1>4. rs[n].prev = row.prev /\ rs[n].body = row.body
  <2>1. <<rs[n].prev, rs[n].body>> = <<row.prev, row.body>>
    BY <1>2, <1>3
  <2>2. QED
    BY ONLY <2>1, Pairs
<1>5. QED
  BY <1>1, <1>4 DEF RowOf

-----------------------------------------------------------------------------
(* The ledger's invariant. *)

IsHead(h) == h.seq \in Nat /\ h = [seq |-> h.seq, hash |-> h.hash]

LedgerShape ==
  /\ DOMAIN proc = Procs /\ proc = [p \in Procs |-> proc[p]]
  /\ \A p \in Procs : DOMAIN proc[p] = {"pc", "at", "row"}
  /\ DOMAIN verdict = Procs
  /\ mishaps \in Nat
  /\ head \in {NoHead, Torn} \/ IsHead(head)

\* A head file that a process in possession of the ledger can meet.
Fits(rs, h) == h = Torn \/ IsPoint(rs, h)

\* What a process remembers while it is in the middle of something, and what it
\* knows of the head file: while it has the ledger, that it fits.
Remembers(p) ==
  /\ proc[p].pc \in {"opening", "catching up", "walked", "begun"} => IsPoint(rows, proc[p].at)
  /\ proc[p].pc = "begun" => \E body : proc[p].row = RowOf(proc[p].at.hash, body)
  /\ proc[p].pc = "committed" =>
       /\ proc[p].at.seq \in Nat
       /\ proc[p].row = RowOf(proc[p].row.prev, proc[p].row.body)
       /\ IsPoint(rows, [seq |-> proc[p].at.seq + 1, hash |-> proc[p].row.hash])
       /\ rows[proc[p].at.seq + 1] = proc[p].row
  /\ InUse(p) => Fits(rows, head)
  /\ proc[p].pc = "catching up" => head = NoHead \/ Fits(rows, head)
  /\ proc[p].pc \in {"closed", "opening", "catching up"} => verdict[p] = "none"
  /\ proc[p].pc = "walked" \/ verdict[p] = "good" => InUse(p) /\ Unbroken(rows)

ToldIsKept ==
  /\ \A row \in told : row = RowOf(row.prev, row.body)
  /\ head = NoHead => told = {}
  /\ ~setBack => \A row \in told : Vouches(head, row)

Untouched == Unbroken(rows) /\ (head = NoHead \/ Fits(rows, head))

AtTemp(p) == pen[p].on # "none"

\* What is in .head.tmp while somebody is at it: nothing, a mess, or a point of the
\* table; and what a process wrote there itself, as long as it was alone.
Holds(p) ==
  AtTemp(p) =>
    /\ PutsHead(p)
    /\ temp = NoHead \/ Fits(rows, temp)
    /\ ~crossed => /\ pen[p].on = "temp" /\ ~pen[p].mixed
                   /\ pen[p].done => temp = Aim(p)
                   /\ \A q \in Procs \ {p} : ~AtTemp(q)

PenInv ==
  /\ pen \in [Procs -> Pen] /\ crossed \in BOOLEAN /\ setBack \in BOOLEAN
  /\ \A p \in Procs : Holds(p)
  /\ \A p \in Procs : pen[p].on = "none" => ~pen[p].done
  /\ head = Torn => crossed /\ setBack

LedgerInv ==
  /\ LedgerShape
  /\ IsSeq(rows) /\ Chained(rows)
  /\ \A p \in Procs : Remembers(p)
  /\ ToldIsKept
  /\ PenInv
  /\ mishaps = 0 => Untouched

\* A step of anybody's, whatever the row it writes says.
AnyLedgerStep ==
  \/ \E p \in Procs :
       \/ StartOpening(p) \/ LedgerStep(p) \/ Stop(p)
       \/ \E body : Begin(p, body)
       \/ Commit(p) \/ CommitFails(p) \/ WriteHead(p) \/ HeadFails(p)
  \/ Mishap

LEMMA LedgerInitHolds == LedgerInit => LedgerInv
<1> SUFFICES ASSUME LedgerInit PROVE LedgerInv
  OBVIOUS
<1>1. LedgerShape
  BY DEF LedgerInit, LedgerShape, Closed
<1>2. IsSeq(rows) /\ Len(rows) = 0
  <2>1. rows \in Seq({})
    BY DEF LedgerInit
  <2>2. QED
    BY <2>1 DEF LedgerInit, IsSeq
<1>3. \A p \in Procs : Remembers(p)
  BY DEF LedgerInit, Closed, Remembers, InUse
<1>4. ToldIsKept
  BY DEF LedgerInit, ToldIsKept
<1>5. PenInv
  <2>1. pen \in [Procs -> Pen] /\ (\A p \in Procs : pen[p].on = "none" /\ ~pen[p].done)
    BY DEF LedgerInit, Pen, NoPen
  <2>2. head # Torn /\ crossed = FALSE /\ setBack = FALSE
    <3>1. NoHead.seq = -1 /\ Torn.seq = -2
      BY DEF NoHead, Torn
    <3>2. QED
      BY <3>1 DEF LedgerInit
  <2>3. QED
    BY <2>1, <2>2 DEF PenInv, Holds, AtTemp
<1>6. QED
  BY <1>1, <1>2, <1>3, <1>4, <1>5 DEF LedgerInit, LedgerInv, Untouched, Unbroken, Chained

LEMMA PointsAreHeads ==
  ASSUME NEW rs, IsSeq(rs), NEW at, IsPoint(rs, at)
  PROVE  IsHead(at)
<1>1. at.seq \in Nat
  BY SeqLen DEF IsPoint
<1>2. QED
  BY <1>1 DEF IsPoint, PointAt, IsHead

\* A step of one process that leaves the table alone.
LEMMA QuietStep ==
  ASSUME LedgerInv, NEW p \in Procs, NEW next,
         proc' = [proc EXCEPT ![p] = next],
         DOMAIN next = {"pc", "at", "row"},
         DOMAIN verdict' = Procs, \A q \in Procs \ {p} : verdict'[q] = verdict[q],
         rows' = rows, mishaps' = mishaps,
         head' = head \/ Fits(rows, head'),
         Remembers(p)', ToldIsKept', PenInv'
  PROVE  LedgerInv'
<1>1. LedgerShape'
  <2>1. head' \in {NoHead, Torn} \/ IsHead(head')
    BY PointsAreHeads DEF LedgerInv, LedgerShape, Fits
  <2>2. QED
    BY <2>1 DEF LedgerInv, LedgerShape
<1>2. ASSUME NEW q \in Procs \ {p} PROVE Remembers(q)'
  <2>1. Remembers(q) /\ proc'[q] = proc[q] /\ verdict'[q] = verdict[q]
    BY DEF LedgerInv, LedgerShape
  <2>2. InUse(q)' = InUse(q)
    BY <2>1 DEF InUse
  <2>3. Fits(rows, head) => Fits(rows, head')
    OBVIOUS
  <2>4. QED
    BY <2>1, <2>2, <2>3 DEF Remembers
<1>3. mishaps = 0 => Untouched'
  BY DEF LedgerInv, Untouched
<1>4. QED
  BY <1>1, <1>2, <1>3 DEF LedgerInv

LEMMA OthersStay ==
  ASSUME LedgerInv, NEW p \in Procs,
         Ready(p) \/ \E pc : Goto(p, pc)
  PROVE  \A q \in Procs \ {p} : proc'[q] = proc[q]
BY DEF Ready, Goto, LedgerInv, LedgerShape

\* A process that is not writing a head moves, and the table keeps its points.
LEMMA PensKept ==
  ASSUME PenInv, NEW p \in Procs, UNCHANGED headVars,
         \A at : Fits(rows, at) => Fits(rows', at),
         \A q \in Procs \ {p} : proc'[q] = proc[q],
         ~PutsHead(p)
  PROVE  PenInv'
<1>1. ~AtTemp(p) /\ UNCHANGED <<head, temp, pen, setBack, crossed>>
  BY DEF PenInv, Holds, headVars
<1>2. ASSUME NEW q \in Procs, AtTemp(q)' PROVE Holds(q)'
  <2>1. AtTemp(q) /\ q # p /\ Holds(q)
    BY <1>1, <1>2 DEF AtTemp, PenInv
  <2>2. PutsHead(q)' /\ Aim(q)' = Aim(q)
    BY <2>1 DEF Holds, PutsHead, Aim
  <2>3. \A r \in Procs : AtTemp(r)' <=> AtTemp(r)
    BY <1>1 DEF AtTemp
  <2>4. QED
    BY <1>1, <2>1, <2>2, <2>3 DEF Holds
<1>3. QED
  BY <1>1, <1>2 DEF PenInv, Holds

LEMMA PensStay ==
  ASSUME LedgerInv, NEW p \in Procs, UNCHANGED headVars, rows' = rows,
         \/ \A q \in Procs \ {p} : proc'[q] = proc[q]
         \/ \E next : proc' = [proc EXCEPT ![p] = next],
         ~PutsHead(p)
  PROVE  PenInv'
<1>1. \A q \in Procs \ {p} : proc'[q] = proc[q]
  BY DEF LedgerInv, LedgerShape
<1>2. QED
  BY <1>1, PensKept DEF LedgerInv

\* A process lets go of .head.tmp, or never had it.
LEMMA PensDown ==
  ASSUME LedgerInv, NEW p \in Procs, PutsDown(p), rows' = rows,
         \E next : proc' = [proc EXCEPT ![p] = next]
  PROVE  PenInv'
<1>1. /\ PenInv /\ UNCHANGED <<head, temp, setBack, crossed>>
      /\ pen' = [pen EXCEPT ![p] = NoPen] /\ \A q \in Procs \ {p} : proc'[q] = proc[q]
  BY DEF PutsDown, LedgerInv, LedgerShape
<1>2. /\ pen' \in [Procs -> Pen] /\ ~AtTemp(p)'
      /\ \A q \in Procs \ {p} : pen'[q] = pen[q]
      /\ \A q \in Procs : pen'[q].on = "none" => ~pen'[q].done
  BY <1>1 DEF PenInv, Pen, NoPen, AtTemp
<1>3. ASSUME NEW q \in Procs, AtTemp(q)' PROVE Holds(q)'
  <2>1. q # p /\ Holds(q) /\ pen'[q] = pen[q] /\ AtTemp(q)
    BY <1>1, <1>2, <1>3 DEF PenInv, AtTemp
  <2>2. PutsHead(q)' /\ Aim(q)' = Aim(q)
    BY <1>1, <2>1 DEF Holds, PutsHead, Aim
  <2>3. \A r \in Procs : AtTemp(r)' => AtTemp(r)
    BY <1>2 DEF AtTemp
  <2>4. QED
    BY <1>1, <2>1, <2>2, <2>3 DEF Holds
<1>4. QED
  BY <1>1, <1>2, <1>3 DEF PenInv, Holds

\* Where a process is to put the head is a point of the table.
LEMMA AimIsPoint ==
  ASSUME LedgerInv, NEW p \in Procs, PutsHead(p)
  PROVE  /\ IsPoint(rows, Aim(p)) /\ Aim(p).seq \in Nat /\ Aim(p) \notin {NoHead, Torn}
         /\ head = NoHead \/ Fits(rows, head)
<1>1. IsPoint(rows, Aim(p))
  BY DEF LedgerInv, Remembers, PutsHead, Aim
<1>2. head = NoHead \/ Fits(rows, head)
  BY DEF LedgerInv, Remembers, PutsHead, InUse
<1>3. Len(rows) \in Nat
  BY SeqLen DEF LedgerInv
<1>4. QED
  BY <1>1, <1>2, <1>3 DEF IsPoint, NoHead, Torn

\* The head comes to say something of the table: what was told is still vouched for,
\* or it was set back.
LEMMA HeadSaysKeeps ==
  ASSUME LedgerInv, NEW text, NEW least \in Int, HeadSays(text, least),
         Fits(rows, text), head = NoHead \/ Fits(rows, head),
         told' = told
           \/ \E row, at : /\ told' = told \cup {row} /\ row = RowOf(row.prev, row.body)
                           /\ IsPoint(rows, at) /\ at.seq = least /\ Vouches(at, row)
  PROVE  /\ ToldIsKept' /\ head' = text
         /\ setBack' \in BOOLEAN /\ (text = Torn => setBack')
<1>1. /\ head' = text /\ setBack' = (setBack \/ text.seq < head.seq \/ text.seq < least)
      /\ Len(rows) \in Nat /\ IsSeq(rows) /\ Chained(rows)
      /\ ToldIsKept /\ setBack \in BOOLEAN /\ (head = Torn => setBack)
  BY SeqLen DEF HeadSays, LedgerInv, PenInv
<1>2. text # NoHead
  BY <1>1 DEF Fits, Torn, NoHead, IsPoint
<1>3. text = Torn => setBack'
  <2>1. head = NoHead \/ head = Torn \/ head.seq \in Nat
    BY <1>1 DEF Fits, IsPoint
  <2>2. NoHead.seq = -1 /\ Torn.seq = -2
    BY DEF NoHead, Torn
  <2>3. text = Torn /\ head # Torn => text.seq < head.seq
    BY <2>1, <2>2
  <2>4. QED
    BY <1>1, <2>3
<1>4. ASSUME ~setBack' PROVE /\ IsPoint(rows, text) /\ ~setBack /\ ~(text.seq < least)
                             /\ head # NoHead => IsPoint(rows, head) /\ head.seq <= text.seq
  <2>1. text # Torn /\ ~setBack /\ head # Torn /\ ~(text.seq < head.seq) /\ ~(text.seq < least)
    BY <1>1, <1>3, <1>4
  <2>2. IsPoint(rows, text) /\ (head # NoHead => IsPoint(rows, head))
    BY <2>1 DEF Fits
  <2>3. head # NoHead => head.seq <= text.seq
    BY <1>1, <2>1, <2>2 DEF IsPoint
  <2>4. QED
    BY <2>1, <2>2, <2>3
<1>5. ASSUME ~setBack', NEW row \in told PROVE Vouches(text, row)
  <2>1. head # NoHead /\ Vouches(head, row)
    BY <1>1, <1>4, <1>5 DEF ToldIsKept
  <2>2. QED
    BY <1>1, <1>4, <1>5, <2>1, VouchesOn
<1>6. ASSUME ~setBack', NEW row, NEW at, IsPoint(rows, at), at.seq = least, Vouches(at, row)
      PROVE  Vouches(text, row)
  <2>1. at.seq <= text.seq
    BY <1>1, <1>4, <1>6 DEF IsPoint
  <2>2. QED
    BY <1>1, <1>4, <1>6, <2>1, VouchesOn
<1>7. ToldIsKept'
  <2>1. CASE told' = told
    BY <1>1, <1>2, <1>5, <2>1 DEF ToldIsKept
  <2>2. CASE ~(told' = told)
    <3>1. PICK row, at : /\ told' = told \cup {row} /\ row = RowOf(row.prev, row.body)
                         /\ IsPoint(rows, at) /\ at.seq = least /\ Vouches(at, row)
      BY <2>2
    <3>2. \A r \in told' : r = RowOf(r.prev, r.body)
      BY <1>1, <3>1 DEF ToldIsKept
    <3>3. ~setBack' => \A r \in told' : Vouches(text, r)
      BY <1>5, <1>6, <3>1
    <3>4. QED
      BY <1>1, <1>2, <3>2, <3>3 DEF ToldIsKept
  <2>3. QED
    BY <2>1, <2>2
<1>8. setBack' \in BOOLEAN
  BY <1>1
<1>9. QED
  BY <1>1, <1>3, <1>7, <1>8

\* What is renamed into the head's place is of the table too, and one's own if
\* nobody else was at the file.
LEMMA RenameKeeps ==
  ASSUME LedgerInv, NEW p \in Procs, Rename(p), rows' = rows,
         \E next : proc' = [proc EXCEPT ![p] = next],
         told' = told
           \/ \E row : /\ told' = told \cup {row} /\ row = RowOf(row.prev, row.body)
                       /\ Vouches(Aim(p), row)
  PROVE  ToldIsKept' /\ Fits(rows, head') /\ PenInv'
<1>1. /\ PenInv /\ pen \in [Procs -> Pen] /\ crossed \in BOOLEAN
      /\ pen[p].done /\ temp # NoHead /\ temp' = NoHead /\ crossed' = crossed
      /\ HeadSays(temp, Aim(p).seq)
      /\ \A q \in Procs \ {p} : proc'[q] = proc[q]
  BY DEF Rename, LedgerInv, LedgerShape, PenInv
<1>2. AtTemp(p) => PutsHead(p) /\ Fits(rows, temp) /\ (~crossed => temp = Aim(p))
  BY <1>1 DEF PenInv, Holds
<1>3. QED
  <2>1. CASE AtTemp(p)
    <3>1. PutsHead(p) /\ Fits(rows, temp) /\ (~crossed => temp = Aim(p))
      BY <1>2, <2>1
    <3>2. /\ IsPoint(rows, Aim(p)) /\ Aim(p).seq \in Int /\ Aim(p) \notin {NoHead, Torn}
          /\ head = NoHead \/ Fits(rows, head)
      BY <3>1, AimIsPoint
    <3>3. ToldIsKept' /\ head' = temp /\ setBack' \in BOOLEAN /\ (temp = Torn => setBack')
      BY <1>1, <3>1, <3>2, HeadSaysKeeps
    <3>4. /\ pen' \in [Procs -> Pen] /\ ~AtTemp(p)'
          /\ \A q \in Procs \ {p} : AtTemp(q)' <=> AtTemp(q)
          /\ \A q \in Procs : pen'[q].on = "none" => ~pen'[q].done
      BY <1>1 DEF Rename, Pen, NoPen, AtTemp, PenInv
    <3>5. ASSUME NEW q \in Procs, AtTemp(q)' PROVE Holds(q)'
      <4>1. q # p /\ Holds(q) /\ AtTemp(q)
        BY <1>1, <3>4, <3>5 DEF PenInv
      <4>2. PutsHead(q)' /\ crossed
        BY <1>1, <2>1, <4>1 DEF Holds, PutsHead
      <4>3. QED
        BY <1>1, <4>2 DEF Holds
    <3>6. temp = Torn => crossed
      BY <3>1, <3>2
    <3>7. QED
      BY <1>1, <3>1, <3>3, <3>4, <3>5, <3>6 DEF PenInv, Holds
  <2>2. QED
    BY <1>1, <2>1 DEF PenInv, AtTemp

LEMMA ToldStays ==
  ASSUME LedgerInv, UNCHANGED <<head, told, setBack>>
  PROVE  ToldIsKept'
BY DEF LedgerInv, ToldIsKept

LEMMA ProcMoves ==
  ASSUME LedgerInv, NEW p \in Procs, NEW pc, Goto(p, pc)
  PROVE  /\ proc' = [proc EXCEPT ![p] = [proc[p] EXCEPT !.pc = pc]]
         /\ DOMAIN [proc[p] EXCEPT !.pc = pc] = {"pc", "at", "row"}
         /\ proc'[p].pc = pc /\ proc'[p].at = proc[p].at /\ proc'[p].row = proc[p].row
BY DEF Goto, LedgerInv, LedgerShape

\* A step after which the process is in the middle of nothing.
LEMMA RestingStep ==
  ASSUME LedgerInv, NEW p \in Procs,
         \/ Ready(p) /\ Fits(rows, head')
         \/ proc' = [proc EXCEPT ![p] = Closed] /\ verdict'[p] = "none",
         rows' = rows, mishaps' = mishaps,
         head' = head \/ Fits(rows, head'),
         ToldIsKept', PenInv',
         DOMAIN verdict' = Procs, \A q \in Procs \ {p} : verdict'[q] = verdict[q],
         verdict'[p] = "good" => Unbroken(rows)
  PROVE  LedgerInv'
<1>1. CASE Ready(p) /\ Fits(rows, head')
  <2> DEFINE next == [Closed EXCEPT !.pc = "open"]
  <2>1. DOMAIN next = {"pc", "at", "row"} /\ next.pc = "open"
    BY DEF Closed
  <2>2. proc' = [proc EXCEPT ![p] = next]
    BY <1>1 DEF Ready
  <2> HIDE DEF next
  <2>3. proc'[p].pc = "open"
    BY <2>1, <2>2 DEF LedgerInv, LedgerShape
  <2>4. Remembers(p)'
    BY <1>1, <2>3 DEF Remembers, InUse
  <2>5. QED
    BY <2>1, <2>2, <2>4, QuietStep
<1>2. CASE proc' = [proc EXCEPT ![p] = Closed] /\ verdict'[p] = "none"
  <2>1. DOMAIN Closed = {"pc", "at", "row"} /\ Closed.pc = "closed"
    BY DEF Closed
  <2>2. proc'[p].pc = "closed"
    BY <1>2, <2>1 DEF LedgerInv, LedgerShape
  <2>3. Remembers(p)'
    BY <1>2, <2>2 DEF Remembers, InUse
  <2>4. QED
    BY <1>2, <2>1, <2>3, QuietStep
<1>3. QED
  BY <1>1, <1>2

LEMMA StartOpeningHolds ==
  ASSUME LedgerInv, NEW p \in Procs, StartOpening(p)
  PROVE  LedgerInv'
<1> DEFINE next == [pc |-> "opening", at |-> End(rows), row |-> proc[p].row]
<1>1. IsPoint(rows, End(rows))
  BY EndIsPoint DEF LedgerInv
<1>2. /\ proc' = [proc EXCEPT ![p] = next] /\ DOMAIN next = {"pc", "at", "row"}
      /\ proc'[p] = next /\ verdict[p] = "none"
  BY DEF StartOpening, LedgerInv, LedgerShape, Remembers
<1>3. /\ proc'[p].pc = "opening" /\ proc'[p].at = End(rows)
      /\ rows' = rows /\ verdict'[p] = "none"
  BY <1>2 DEF StartOpening
<1>3a. Remembers(p)'
  BY ONLY <1>1, <1>3 DEF Remembers, InUse
<1> HIDE DEF next
<1>4. QED
  BY <1>2, <1>3a, QuietStep, ToldStays, PensStay
     DEF StartOpening, headVars, PutsHead, LedgerInv, LedgerShape

LEMMA CompareHeadHolds ==
  ASSUME LedgerInv, NEW p \in Procs, CompareHead(p)
  PROVE  LedgerInv'
<1>1. /\ UNCHANGED <<rows, headVars, verdict, told, mishaps>> /\ head' = head /\ ToldIsKept'
      /\ IsPoint(rows, proc[p].at) /\ verdict[p] = "none" /\ DOMAIN verdict = Procs
      /\ ~PutsHead(p)
  BY ToldStays DEF CompareHead, headVars, PutsHead, LedgerInv, LedgerShape, Remembers
<1>1a. PenInv'
  BY <1>1, OthersStay, PensStay DEF CompareHead
<1>2. CASE Agrees(p) /\ Ready(p)
  <2>1. Fits(rows, head)
    BY <1>1, <1>2 DEF Agrees, Fits
  <2>2. QED
    BY <1>1, <1>1a, <1>2, <2>1, RestingStep
<1>3. CASE (head = NoHead \/ IsBehind(p)) /\ Goto(p, "catching up")
  <2>1. head = NoHead \/ Fits(rows, head)
    <3>1. ASSUME IsBehind(p) PROVE IsPoint(rows, head)
      <4>1. RunsOn(rows, head) /\ IsHead(head) /\ Len(rows) \in Nat
        BY <3>1, SeqLen DEF IsBehind, LedgerInv, LedgerShape
      <4>2. QED
        BY <4>1 DEF RunsOn, IsHead, IsPoint, PointAt
    <3>2. QED
      BY <1>3, <3>1 DEF Fits
  <2>2. proc'[p].pc = "catching up" /\ proc'[p].at = proc[p].at
    BY <1>3, ProcMoves
  <2>2a. Remembers(p)'
    BY ONLY <1>1, <2>1, <2>2 DEF Remembers, InUse
  <2>3. QED
    BY <1>1, <1>1a, <1>3, <2>2a, ProcMoves, QuietStep
<1>4. QED
  BY <1>2, <1>3 DEF CompareHead

LEMMA OpenTempHolds ==
  ASSUME LedgerInv, NEW p \in Procs, OpenTemp(p)
  PROVE  LedgerInv'
<1>1. /\ UNCHANGED <<rows, head, proc, verdict, told, setBack, mishaps>>
      /\ temp' = Torn /\ PutsHead(p) /\ PenInv
      /\ crossed' = (crossed \/ \E q \in Procs : AtTemp(q))
      /\ pen' = [q \in Procs |->
           IF q = p THEN [on |-> "temp", done |-> FALSE, mixed |-> \E r \in Procs : Scribbles(r)]
                    ELSE IF Scribbles(q) THEN [pen[q] EXCEPT !.mixed = TRUE] ELSE pen[q]]
  BY DEF OpenTemp, AtTemp, LedgerInv
<1>2. /\ pen' \in [Procs -> Pen] /\ crossed' \in BOOLEAN
      /\ pen'[p].on = "temp" /\ pen'[p].done = FALSE
      /\ \A q \in Procs \ {p} : AtTemp(q)' <=> AtTemp(q)
  BY <1>1 DEF PenInv, Pen, AtTemp
<1>3. ~crossed' => pen'[p].mixed = FALSE
  BY <1>1, <1>2 DEF Scribbles, AtTemp
<1>4. ASSUME NEW q \in Procs, AtTemp(q)' PROVE Holds(q)'
  <2>1. PutsHead(q)'
    BY <1>1, <1>2, <1>4 DEF PenInv, Holds, PutsHead
  <2>2. q # p => crossed'
    BY <1>1, <1>2, <1>4
  <2>3. ~crossed' => \A r \in Procs \ {p} : ~AtTemp(r)'
    BY <1>1, <1>2
  <2>4. QED
    BY <1>1, <1>2, <1>3, <2>1, <2>2, <2>3 DEF Holds, Fits
<1>5. PenInv'
  BY <1>1, <1>2, <1>4 DEF PenInv, Holds
<1>6. \A q \in Procs : Remembers(q)'
  BY <1>1 DEF LedgerInv, Remembers, InUse
<1>7. QED
  BY <1>1, <1>5, <1>6, ToldStays DEF LedgerInv, LedgerShape, Untouched

LEMMA FillTempHolds ==
  ASSUME LedgerInv, NEW p \in Procs, FillTemp(p)
  PROVE  LedgerInv'
<1>1. PICK text \in {Aim(p), Torn}, done \in BOOLEAN :
        /\ text = Torn \/ ~done => pen[p].mixed
        /\ pen' = [pen EXCEPT ![p].done = done]
        /\ temp' = IF pen[p].on = "temp" THEN text ELSE temp
        /\ IF pen[p].on = "head" THEN HeadSays(text, text.seq) ELSE UNCHANGED <<head, setBack>>
  BY DEF FillTemp
<1>2. /\ UNCHANGED <<rows, proc, verdict, told, crossed, mishaps>>
      /\ AtTemp(p) /\ PenInv /\ Holds(p)
  BY DEF FillTemp, AtTemp, LedgerInv, PenInv
<1>3. /\ PutsHead(p) /\ IsPoint(rows, Aim(p)) /\ Aim(p) \notin {NoHead, Torn}
      /\ head = NoHead \/ Fits(rows, head)
  BY <1>2, AimIsPoint DEF Holds
<1>4. Fits(rows, text) /\ text.seq \in Int
  BY <1>3, AimIsPoint DEF Fits, Torn
<1>5. /\ pen' \in [Procs -> Pen] /\ pen'[p].done = done
      /\ pen'[p].on = pen[p].on /\ pen'[p].mixed = pen[p].mixed
      /\ \A q \in Procs \ {p} : pen'[q] = pen[q]
      /\ \A q \in Procs : AtTemp(q)' <=> AtTemp(q)
      /\ \A q \in Procs : pen'[q].on = "none" => ~pen'[q].done
  BY <1>1, <1>2 DEF PenInv, Pen, AtTemp
<1>6. /\ ToldIsKept' /\ (head' = head \/ Fits(rows, head'))
      /\ setBack' \in BOOLEAN /\ (head' = Torn => crossed' /\ setBack')
  <2>1. CASE pen[p].on = "head"
    <3>1. HeadSays(text, text.seq)
      BY <1>1, <2>1
    <3>2. ToldIsKept' /\ head' = text /\ setBack' \in BOOLEAN /\ (text = Torn => setBack')
      BY <1>2, <1>3, <1>4, <3>1, HeadSaysKeeps
    <3>3. crossed
      BY <1>2, <2>1 DEF Holds
    <3>4. QED
      BY <1>2, <1>4, <3>2, <3>3
  <2>2. CASE pen[p].on # "head"
    BY <1>1, <1>2, <2>2, ToldStays DEF PenInv
  <2>3. QED
    BY <2>1, <2>2
<1>7. ASSUME NEW q \in Procs, AtTemp(q)' PROVE Holds(q)'
  <2>1. AtTemp(q) /\ Holds(q) /\ PutsHead(q)' /\ Aim(q)' = Aim(q)
    BY <1>2, <1>5, <1>7 DEF PenInv, Holds, PutsHead, Aim
  <2>2. temp' = NoHead \/ Fits(rows', temp')
    BY <1>1, <1>2, <1>4 DEF Holds
  <2>3. ASSUME ~crossed
        PROVE  /\ q = p /\ pen[p].on = "temp" /\ ~pen[p].mixed
               /\ \A r \in Procs \ {q} : ~AtTemp(r)
    BY <1>2, <2>1, <2>3 DEF Holds
  <2>4. ~crossed => temp' = Aim(p)
    BY <1>1, <2>3
  <2>5. QED
    BY <1>2, <1>5, <2>1, <2>2, <2>3, <2>4 DEF Holds
<1>8. PenInv'
  BY <1>2, <1>5, <1>6, <1>7 DEF PenInv, Holds
<1> DEFINE same == proc[p]
<1>9. proc' = [proc EXCEPT ![p] = same] /\ DOMAIN same = {"pc", "at", "row"}
  BY <1>2 DEF LedgerInv, LedgerShape
<1>10. Remembers(p)'
  <2>1. Remembers(p) /\ (InUse(p)' <=> InUse(p)) /\ (Fits(rows, head) => Fits(rows, head'))
    BY <1>2, <1>6 DEF LedgerInv, InUse
  <2>2. head = NoHead \/ Fits(rows, head) => head' = NoHead \/ Fits(rows, head')
    BY <1>6
  <2>3. /\ rows' = rows /\ proc'[p] = proc[p] /\ verdict'[p] = verdict[p]
        /\ IsPoint(rows, proc[p].at)' = IsPoint(rows, proc[p].at)
        /\ Unbroken(rows)' = Unbroken(rows)
        /\ Fits(rows, head)' = Fits(rows, head')
    BY <1>2
  <2>4. QED
    BY <1>2, <2>1, <2>2, <2>3 DEF Remembers
<1>11. DOMAIN verdict' = Procs /\ \A q \in Procs \ {p} : verdict'[q] = verdict[q]
  BY <1>2 DEF LedgerInv, LedgerShape
<1>12. rows' = rows /\ mishaps' = mishaps
  BY <1>2
<1> HIDE DEF same
<1>13. QED
  BY <1>6, <1>8, <1>9, <1>10, <1>11, <1>12, QuietStep

LEMMA CatchUpHolds ==
  ASSUME LedgerInv, NEW p \in Procs, CatchUp(p)
  PROVE  LedgerInv'
<1>1. /\ UNCHANGED <<rows, verdict, told, mishaps>> /\ DOMAIN verdict = Procs
      /\ Rename(p) /\ Ready(p) /\ verdict[p] = "none"
  BY DEF CatchUp, LedgerInv, LedgerShape, Remembers
<1>2. ToldIsKept' /\ Fits(rows, head') /\ PenInv'
  BY <1>1, RenameKeeps DEF Ready
<1>3. QED
  BY <1>1, <1>2, RestingStep

LEMMA CatchUpFailsHolds ==
  ASSUME LedgerInv, NEW p \in Procs, CatchUpFails(p)
  PROVE  LedgerInv'
<1>1. /\ UNCHANGED <<rows, head, verdict, told, setBack, mishaps>> /\ DOMAIN verdict = Procs
      /\ PutsDown(p) /\ proc' = [proc EXCEPT ![p] = Closed] /\ verdict[p] = "none"
  BY DEF CatchUpFails, PutsDown, LedgerInv, LedgerShape, Remembers
<1>2. PenInv'
  BY <1>1, PensDown
<1>3. QED
  BY <1>1, <1>2, ToldStays, RestingStep

LEMMA RefuseToOpenHolds ==
  ASSUME LedgerInv, NEW p \in Procs, RefuseToOpen(p)
  PROVE  LedgerInv'
<1>1. /\ UNCHANGED <<rows, headVars, verdict, told, mishaps>> /\ DOMAIN verdict = Procs
      /\ UNCHANGED <<head, setBack>> /\ ~PutsHead(p)
      /\ proc' = [proc EXCEPT ![p] = Closed] /\ verdict[p] = "none"
  BY DEF RefuseToOpen, headVars, PutsHead, LedgerInv, LedgerShape, Remembers
<1>2. PenInv'
  BY <1>1, PensStay
<1>3. QED
  BY <1>1, <1>2, ToldStays, RestingStep

LEMMA BeginHolds ==
  ASSUME LedgerInv, NEW p \in Procs, NEW body, Begin(p, body)
  PROVE  LedgerInv'
<1> DEFINE next == [pc |-> "begun", at |-> End(rows), row |-> RowOf(End(rows).hash, body)]
<1>1. /\ UNCHANGED <<rows, headVars, verdict, told, mishaps>> /\ DOMAIN verdict = Procs
      /\ UNCHANGED <<head, setBack>> /\ ~PutsHead(p)
      /\ proc' = [proc EXCEPT ![p] = next] /\ DOMAIN next = {"pc", "at", "row"}
      /\ IsPoint(rows, End(rows)) /\ Fits(rows, head)
      /\ verdict[p] = "good" => Unbroken(rows)
  BY EndIsPoint DEF Begin, headVars, PutsHead, LedgerInv, LedgerShape, Remembers, InUse
<1>2. /\ proc'[p].pc = "begun" /\ proc'[p].at = End(rows)
      /\ proc'[p].row = RowOf(End(rows).hash, body)
  BY <1>1 DEF LedgerInv, LedgerShape
<1>3. Remembers(p)'
  BY ONLY <1>1, <1>2 DEF Remembers, InUse
<1> HIDE DEF next
<1>4. PenInv'
  BY <1>1, PensStay
<1>5. QED
  BY <1>1, <1>3, <1>4, ToldStays, QuietStep

LEMMA CommitHolds ==
  ASSUME LedgerInv, NEW p \in Procs, Commit(p)
  PROVE  LedgerInv'
<1>1. /\ UNCHANGED <<headVars, verdict, told, mishaps>> /\ UNCHANGED <<head, setBack>>
      /\ proc[p].at = End(rows) /\ rows' = Append(rows, proc[p].row)
      /\ proc[p].pc = "begun" /\ Goto(p, "committed")
  BY DEF Commit, headVars
<1>2. PICK body : proc[p].row = RowOf(End(rows).hash, body)
  BY <1>1 DEF LedgerInv, Remembers
<1>3. /\ IsSeq(rows) /\ Chained(rows) /\ Len(rows) \in Nat
      /\ End(rows).seq = Len(rows) /\ Fits(rows, head)
  BY <1>1, EndIsPoint DEF LedgerInv, Remembers, InUse
<1>4. /\ IsSeq(rows') /\ Chained(rows') /\ rows'[Len(rows) + 1] = proc[p].row
      /\ IsPoint(rows', [seq |-> Len(rows) + 1, hash |-> proc[p].row.hash])
      /\ Unbroken(rows) => Unbroken(rows')
      /\ \A at : IsPoint(rows, at) => IsPoint(rows', at)
      /\ \A at : Fits(rows, at) => Fits(rows', at)
      /\ \A n \in 1 .. Len(rows) : rows'[n] = rows[n]
  BY <1>1, <1>2, <1>3, ChainGrows, AppendedRows, PointStays DEF Fits
<1>5. /\ proc'[p].pc = "committed" /\ proc'[p].at = proc[p].at /\ proc'[p].row = proc[p].row
      /\ proc' = [proc EXCEPT ![p] = [proc[p] EXCEPT !.pc = "committed"]]
      /\ DOMAIN [proc[p] EXCEPT !.pc = "committed"] = {"pc", "at", "row"}
  BY <1>1, ProcMoves
<1>6. LedgerShape'
  BY <1>1, <1>5 DEF LedgerInv, LedgerShape
<1>7. Remembers(p)'
  <2>1. /\ proc[p].row = RowOf(proc[p].row.prev, proc[p].row.body)
        /\ proc[p].at.seq + 1 = Len(rows) + 1 /\ proc[p].at.seq \in Nat
        /\ verdict[p] = "good" => Unbroken(rows)
    <3>1. proc[p].row = RowOf(proc[p].row.prev, proc[p].row.body)
      BY <1>2 DEF RowOf
    <3>2. verdict[p] = "good" => Unbroken(rows)
      BY DEF LedgerInv, Remembers
    <3>3. QED
      BY <1>1, <1>3, <3>1, <3>2
  <2>2. QED
    BY ONLY <1>1, <1>3, <1>4, <1>5, <2>1 DEF Remembers, InUse
<1>8. ASSUME NEW q \in Procs \ {p} PROVE Remembers(q)'
  <2>1. Remembers(q) /\ proc'[q] = proc[q] /\ verdict'[q] = verdict[q] /\ head' = head
    BY <1>1, <1>5 DEF LedgerInv, LedgerShape
  <2>2. /\ proc[q].pc = "committed" =>
             /\ proc[q].at.seq + 1 \in 1 .. Len(rows)
             /\ rows'[proc[q].at.seq + 1] = rows[proc[q].at.seq + 1]
    <3>1. ASSUME proc[q].pc = "committed" PROVE proc[q].at.seq + 1 \in 1 .. Len(rows)
      BY <1>3, <2>1, <3>1 DEF Remembers, IsPoint
    <3>2. QED
      BY <1>4, <3>1
  <2>3. QED
    BY ONLY <1>4, <2>1, <2>2 DEF Remembers, InUse
<1>9. ToldIsKept'
  BY <1>1, ToldStays
<1>10. mishaps' = 0 => Untouched'
  BY <1>1, <1>4 DEF LedgerInv, Untouched
<1>11. PenInv'
  <2>1. ~PutsHead(p) /\ rows' = Append(rows, proc[p].row) /\ PenInv
    BY <1>1 DEF PutsHead, LedgerInv
  <2>2. \A q \in Procs \ {p} : proc'[q] = proc[q]
    BY <1>5 DEF LedgerInv, LedgerShape
  <2>3. QED
    BY ONLY <1>1, <1>4, <2>1, <2>2, PensKept
<1>12. QED
  BY <1>4, <1>6, <1>7, <1>8, <1>9, <1>10, <1>11 DEF LedgerInv

LEMMA FailHolds ==
  ASSUME LedgerInv, NEW p \in Procs, CommitFails(p) \/ HeadFails(p)
  PROVE  LedgerInv'
<1>1. /\ UNCHANGED <<rows, head, verdict, told, setBack, mishaps>> /\ DOMAIN verdict = Procs
      /\ Ready(p) /\ Fits(rows, head)
      /\ verdict[p] = "good" => Unbroken(rows)
      /\ PutsDown(p) \/ (UNCHANGED headVars /\ ~PutsHead(p))
  BY DEF CommitFails, HeadFails, PutsDown, headVars, PutsHead, LedgerInv, LedgerShape, Remembers, InUse
<1>2. PenInv'
  BY <1>1, PensDown, PensStay DEF Ready
<1>3. QED
  BY <1>1, <1>2, ToldStays, RestingStep

LEMMA WriteHeadHolds ==
  ASSUME LedgerInv, NEW p \in Procs, WriteHead(p)
  PROVE  LedgerInv'
<1> DEFINE row == proc[p].row
           n == proc[p].at.seq + 1
<1>1. /\ UNCHANGED <<rows, verdict, mishaps>> /\ DOMAIN verdict = Procs
      /\ Rename(p) /\ told' = told \cup {row} /\ Ready(p)
      /\ Aim(p) = [seq |-> n, hash |-> row.hash]
      /\ row = RowOf(row.prev, row.body) /\ n \in Nat /\ n # 0
      /\ verdict[p] = "good" => Unbroken(rows)
  <2>1. /\ UNCHANGED <<rows, verdict, mishaps>> /\ DOMAIN verdict = Procs
        /\ Rename(p) /\ told' = told \cup {row} /\ Ready(p) /\ proc[p].pc = "committed"
        /\ Aim(p) = [seq |-> n, hash |-> row.hash]
    BY DEF WriteHead, Aim, LedgerInv, LedgerShape
  <2>2. /\ proc[p].at.seq \in Nat
        /\ row = RowOf(row.prev, row.body)
        /\ verdict[p] = "good" => Unbroken(rows)
    BY <2>1 DEF LedgerInv, Remembers
  <2>3. n \in Nat /\ n # 0
    BY ONLY <2>2
  <2>4. QED
    BY ONLY <2>1, <2>2, <2>3
<1> HIDE DEF row, n
<1>2. Vouches(Aim(p), row)
  BY <1>1, VouchesForItself
<1>3. ToldIsKept' /\ Fits(rows, head') /\ PenInv'
  BY <1>1, <1>2, RenameKeeps DEF Ready
<1>4. QED
  BY <1>1, <1>3, RestingStep

LEMMA WalkHolds ==
  ASSUME LedgerInv, NEW p \in Procs, Walk(p)
  PROVE  LedgerInv'
<1> DEFINE next == [pc |-> "walked", at |-> End(rows), row |-> proc[p].row]
<1>1. /\ UNCHANGED <<rows, headVars, told, mishaps>> /\ head' = head /\ ToldIsKept'
      /\ proc[p].pc = "open" /\ Fits(rows, head) /\ IsPoint(rows, End(rows))
      /\ DOMAIN rows = 1 .. Len(rows) /\ p \in DOMAIN verdict /\ DOMAIN verdict = Procs
      /\ ~PutsHead(p)
  BY EndIsPoint, SeqLen, ToldStays
     DEF Walk, headVars, PutsHead, LedgerInv, LedgerShape, Remembers, InUse
<1>2. CASE \A n \in DOMAIN rows : Links(rows, n)
  <2>1. /\ proc' = [proc EXCEPT ![p] = next] /\ DOMAIN next = {"pc", "at", "row"}
        /\ verdict' = verdict /\ Unbroken(rows)
    BY <1>1, <1>2 DEF Walk, Unbroken
  <2>2. proc'[p].pc = "walked" /\ proc'[p].at = End(rows)
    BY <2>1 DEF LedgerInv, LedgerShape
  <2>3. Remembers(p)'
    BY ONLY <1>1, <2>1, <2>2 DEF Remembers, InUse
  <2> HIDE DEF next
  <2>4. PenInv'
    BY <1>1, <2>1, PensStay
  <2>5. QED
    BY <1>1, <2>1, <2>3, <2>4, QuietStep
<1>3. CASE ~ \A n \in DOMAIN rows : Links(rows, n)
  <2>1. proc' = proc /\ verdict' = [verdict EXCEPT ![p] = "broken"]
    BY <1>3 DEF Walk
  <2>2. proc' = [proc EXCEPT ![p] = proc[p]] /\ DOMAIN proc[p] = {"pc", "at", "row"}
    BY <2>1 DEF LedgerInv, LedgerShape
  <2>3. verdict'[p] = "broken" /\ DOMAIN verdict' = Procs
        /\ \A q \in Procs \ {p} : verdict'[q] = verdict[q]
    BY <1>1, <2>1
  <2>4. Remembers(p)'
    BY ONLY <1>1, <2>1, <2>3 DEF Remembers, InUse
  <2>5. PenInv'
    BY <1>1, <2>2, PensStay
  <2>6. QED
    BY <1>1, <2>2, <2>3, <2>4, <2>5, QuietStep
<1>4. QED
  BY <1>2, <1>3

LEMMA CompareEndHolds ==
  ASSUME LedgerInv, NEW p \in Procs, CompareEnd(p)
  PROVE  LedgerInv'
<1>1. /\ UNCHANGED <<rows, headVars, told, mishaps>> /\ UNCHANGED <<head, setBack>> /\ Ready(p)
      /\ Fits(rows, head) /\ Unbroken(rows) /\ ~PutsHead(p)
      /\ DOMAIN verdict' = Procs /\ \A q \in Procs \ {p} : verdict'[q] = verdict[q]
  BY DEF CompareEnd, headVars, PutsHead, LedgerInv, LedgerShape, Remembers, InUse
<1>2. PenInv'
  BY <1>1, PensStay DEF Ready
<1>3. QED
  BY <1>1, <1>2, ToldStays, RestingStep

LEMMA StopHolds ==
  ASSUME LedgerInv, NEW p \in Procs, Stop(p)
  PROVE  LedgerInv'
<1>1. /\ UNCHANGED <<rows, head, told, setBack, mishaps>> /\ PutsDown(p)
      /\ proc' = [proc EXCEPT ![p] = Closed] /\ verdict'[p] = "none"
      /\ DOMAIN verdict' = Procs /\ \A q \in Procs \ {p} : verdict'[q] = verdict[q]
  BY DEF Stop, PutsDown, LedgerInv, LedgerShape
<1>2. PenInv'
  BY <1>1, PensDown
<1>3. QED
  BY <1>1, <1>2, ToldStays, RestingStep

\* Cutting rows off, or writing over what one says, leaves a chain: what a row
\* says is not part of the link to it.
LEMMA MishapChained ==
  ASSUME IsSeq(rows), Chained(rows), Mishap
  PROVE  IsSeq(rows') /\ Chained(rows')
<1>1. PICK S : rows \in Seq(S)
  BY DEF IsSeq
<1>2. Len(rows) \in Nat /\ DOMAIN rows = 1 .. Len(rows)
  BY <1>1
<1>3. CASE \E n \in 0 .. (Len(rows) - 1) : rows' = SubSeq(rows, 1, n)
  <2>1. PICK n \in 0 .. (Len(rows) - 1) : rows' = SubSeq(rows, 1, n)
    BY <1>3
  <2>2. /\ n \in Nat /\ n <= Len(rows) /\ rows' \in Seq(S) /\ Len(rows') = n
        /\ \A m \in 1 .. n : rows'[m] = rows[m]
    BY <1>1, <1>2, <2>1
  <2>3. \A m \in 1 .. n : m \in 1 .. Len(rows) /\ PointAt(rows', m - 1).hash = PointAt(rows, m - 1).hash
    BY <1>2, <2>2 DEF PointAt
  <2>4. QED
    BY <2>2, <2>3 DEF Chained, IsSeq
<1>4. ASSUME NEW n \in 1 .. Len(rows), NEW row, rows' = [rows EXCEPT ![n] = row],
             IsRow(row), row.prev = rows[n].prev, \E body : row.hash = HashOf(row.prev, body),
             n = Len(rows) \/ row.hash = rows[n].hash
      PROVE  IsSeq(rows') /\ Chained(rows')
  <2>1. /\ rows' \in Seq(S \cup {row}) /\ Len(rows') = Len(rows) /\ rows'[n] = row
        /\ \A m \in 1 .. Len(rows) : m # n => rows'[m] = rows[m]
    <3>1. rows \in Seq(S \cup {row})
      BY <1>1
    <3>2. QED
      BY <1>2, <1>4, <3>1
  <2>2. ASSUME NEW m \in 1 .. Len(rows)
        PROVE  PointAt(rows', m - 1).hash = PointAt(rows, m - 1).hash
    BY <1>2, <1>4, <2>1 DEF PointAt
  <2>3. ASSUME NEW m \in 1 .. Len(rows')
        PROVE  /\ IsRow(rows'[m])
               /\ rows'[m].prev = PointAt(rows', m - 1).hash
               /\ \E b : rows'[m].hash = HashOf(rows'[m].prev, b)
    <3>1. CASE m = n
      BY <1>4, <2>1, <2>2, <3>1 DEF Chained
    <3>2. CASE m # n
      BY <2>1, <2>2, <3>2 DEF Chained
    <3>3. QED
      BY <3>1, <3>2
  <2>4. QED
    BY <2>1, <2>3 DEF Chained, IsSeq
<1>5. CASE \E n \in DOMAIN rows : rows' = [rows EXCEPT ![n].body = Altered]
  <2>1. PICK n \in DOMAIN rows : rows' = [rows EXCEPT ![n].body = Altered]
    BY <1>5
  <2>2. PICK b, p, h : rows[n] = [body |-> b, prev |-> p, hash |-> h]
    BY <1>2 DEF Chained, IsRow
  <2>2a. PICK said : h = HashOf(p, said)
    <3>1. rows[n].hash = h /\ rows[n].prev = p
      BY <2>2
    <3>2. QED
      BY <1>2, <3>1 DEF Chained
  <2> DEFINE row == [body |-> Altered, prev |-> p, hash |-> h]
  <2>3. rows' = [rows EXCEPT ![n] = row]
    <3>1. [rows[n] EXCEPT !.body = Altered] = row
      BY <2>2
    <3>2. QED
      BY <2>1, <3>1
  <2>4. /\ IsRow(row) /\ row.prev = rows[n].prev /\ row.hash = rows[n].hash
        /\ \E body : row.hash = HashOf(row.prev, body)
    <3>1. row.prev = p /\ row.hash = h /\ rows[n].prev = p /\ rows[n].hash = h
      BY <2>2
    <3>2. IsRow(row)
      BY DEF IsRow
    <3> HIDE DEF row
    <3>3. \E body : row.hash = HashOf(row.prev, body)
      BY ONLY <2>2a, <3>1
    <3>4. QED
      BY ONLY <3>1, <3>2, <3>3
  <2> HIDE DEF row
  <2>5. QED
    BY <1>2, <1>4, <2>3, <2>4
<1>6. CASE rows # <<>> /\ rows' = [rows EXCEPT ![Len(rows)] = RowOf(rows[Len(rows)].prev, Altered)]
  <2> DEFINE row == RowOf(rows[Len(rows)].prev, Altered)
  <2>1. Len(rows) \in 1 .. Len(rows)
    BY <1>1, <1>6
  <2>2. /\ IsRow(row) /\ row.prev = rows[Len(rows)].prev
        /\ \E body : row.hash = HashOf(row.prev, body)
    BY DEF RowOf, IsRow
  <2> HIDE DEF row
  <2>3. QED
    BY <1>4, <1>6, <2>1, <2>2 DEF row
<1>7. QED
  BY <1>3, <1>5, <1>6 DEF Mishap

LEMMA MishapHolds ==
  ASSUME LedgerInv, Mishap
  PROVE  LedgerInv'
<1>1. /\ UNCHANGED <<head, proc, verdict, told, setBack>> /\ mishaps' = mishaps + 1
      /\ UNCHANGED <<temp, pen, crossed>>
  BY DEF Mishap, headVars
<1>2. IsSeq(rows') /\ Chained(rows')
  BY MishapChained DEF LedgerInv
<1>3. LedgerShape' /\ mishaps' # 0
  BY <1>1 DEF LedgerInv, LedgerShape
<1>4. ASSUME NEW p \in Procs PROVE Remembers(p)'
  <2>1. proc'[p].pc = "closed" /\ verdict'[p] = "none"
    BY <1>1 DEF Mishap, LedgerInv, Remembers
  <2>2. QED
    BY ONLY <2>1 DEF Remembers, InUse
<1>5. ToldIsKept'
  BY <1>1, ToldStays
<1>6. PenInv'
  <2>1. \A p \in Procs : ~AtTemp(p)
    BY DEF Mishap, LedgerInv, PenInv, Holds, PutsHead
  <2>2. \A p \in Procs : ~AtTemp(p)'
    BY <1>1, <2>1 DEF AtTemp
  <2>3. QED
    BY <1>1, <2>2 DEF LedgerInv, PenInv, Holds
<1>7. QED
  BY <1>2, <1>3, <1>4, <1>5, <1>6 DEF LedgerInv

LEMMA LedgerStutters ==
  ASSUME LedgerInv, UNCHANGED ledgerVars
  PROVE  LedgerInv'
<1>1. LedgerShape' /\ ToldIsKept' /\ (mishaps' = 0 => Untouched') /\ IsSeq(rows') /\ Chained(rows')
  BY DEF LedgerInv, LedgerShape, ToldIsKept, Untouched, ledgerVars, headVars
<1>2. \A p \in Procs : Remembers(p)'
  BY DEF LedgerInv, Remembers, InUse, ledgerVars, headVars
<1>3. PenInv'
  BY DEF LedgerInv, PenInv, Holds, AtTemp, PutsHead, Aim, ledgerVars, headVars
<1>4. QED
  BY <1>1, <1>2, <1>3 DEF LedgerInv

LEMMA LedgerHolds == LedgerInv /\ [AnyLedgerStep]_ledgerVars => LedgerInv'
BY StartOpeningHolds, CompareHeadHolds, OpenTempHolds, FillTempHolds, CatchUpHolds,
   CatchUpFailsHolds, RefuseToOpenHolds, BeginHolds, CommitHolds, FailHolds, WriteHeadHolds, WalkHolds, CompareEndHolds, StopHolds, MishapHolds,
   LedgerStutters
   DEF AnyLedgerStep, LedgerStep

LEMMA LedgerNextHolds == LedgerInv /\ [LedgerNext]_ledgerVars => LedgerInv'
<1>1. LedgerNext => AnyLedgerStep
  BY DEF LedgerNext, AppendStep, AnyLedgerStep
<1>2. QED
  BY <1>1, LedgerHolds

LEMMA Refused ==
  ASSUME LedgerInv, NEW p \in Procs, RefuseToOpen(p)
  PROVE  mishaps > 0 \/ Len(rows) > proc[p].at.seq \/ crossed
<1> SUFFICES ASSUME mishaps = 0, ~crossed PROVE Len(rows) > proc[p].at.seq
  BY DEF LedgerInv, LedgerShape
<1>0. head # Torn
  BY DEF LedgerInv, PenInv
<1>1. /\ IsSeq(rows) /\ Unbroken(rows) /\ Len(rows) \in Nat
      /\ IsPoint(rows, proc[p].at)
      /\ IsPoint(rows, head)
      /\ head # proc[p].at
      /\ ~(head.seq < proc[p].at.seq /\ RunsOn(rows, head))
  BY <1>0, AppendedRows DEF LedgerInv, Untouched, Fits, Remembers, RefuseToOpen, Agrees, IsBehind
<1>2. RunsOn(rows, head)
  BY <1>1, RunsOnFromPoints
<1>3. head.seq # proc[p].at.seq
  BY <1>1 DEF IsPoint
<1>4. QED
  BY <1>1, <1>2, <1>3 DEF IsPoint

\* A ledger a process was let into has every row whose append was acknowledged.
LEMMA NothingIsLost ==
  ASSUME LedgerInv
  PROVE  NothingToldIsLost
<1> SUFFICES ASSUME ~setBack, NEW p \in Procs, NEW row \in told
             PROVE  /\ InUse(p) => \E n \in DOMAIN rows : rows[n].hash = row.hash
                    /\ verdict[p] = "good" => \E n \in DOMAIN rows : rows[n] = row
  BY DEF NothingToldIsLost
<1>1. /\ Vouches(head, row) /\ row = RowOf(row.prev, row.body)
      /\ IsSeq(rows) /\ Chained(rows) /\ Len(rows) \in Nat /\ DOMAIN rows = 1 .. Len(rows)
  BY SeqLen DEF LedgerInv, ToldIsKept
<1>2. ASSUME InUse(p)
      PROVE  \E n \in 1 .. Len(rows) : rows[n].hash = row.hash
  <2>1. IsPoint(rows, head)
    BY <1>2 DEF LedgerInv, Remembers, Fits, PenInv
  <2>2. PICK n \in 1 .. head.seq : rows[n].hash = row.hash
    BY <1>1, <2>1 DEF Vouches
  <2>3. n \in 1 .. Len(rows)
    BY <1>1, <2>1 DEF IsPoint
  <2>4. QED
    BY <2>2, <2>3
<1>3. ASSUME verdict[p] = "good"
      PROVE  \E n \in 1 .. Len(rows) : rows[n] = row
  <2>1. InUse(p) /\ Unbroken(rows)
    BY <1>3 DEF LedgerInv, Remembers, InUse
  <2>2. PICK n \in 1 .. Len(rows) : rows[n].hash = row.hash
    BY <1>2, <2>1
  <2>3. QED
    BY <1>1, <2>1, <2>2, HashTells
<1>4. QED
  BY <1>1, <1>2, <1>3

\* A ledger nobody touched is refused only by a process that was overtaken while
\* it opened it, or after two were at .head.tmp at once (reconcile_head in ledger.rs,
\* write in head.rs).
THEOREM RefusalsMeanSomething == LedgerSpec => RefusedOnlyIfOvertaken
<1>1. LedgerInv /\ [LedgerNext]_ledgerVars =>
        [\A p \in Procs : RefuseToOpen(p) => mishaps > 0 \/ Len(rows) > proc[p].at.seq \/ crossed]_ledgerVars
  BY Refused
<1>2. QED
  BY <1>1, LedgerInitHolds, LedgerNextHolds, PTL DEF LedgerSpec, RefusedOnlyIfOvertaken

\* The chain nobody touched is unbroken: every walk of verify ends well.
THEOREM ChainStaysUnbroken == LedgerSpec => [](mishaps = 0 => Unbroken(rows))
<1>1. LedgerInv => (mishaps = 0 => Unbroken(rows))
  BY DEF LedgerInv, Untouched
<1>2. QED
  BY <1>1, LedgerInitHolds, LedgerNextHolds, PTL DEF LedgerSpec

\* A database that lost an acknowledged row is not opened, and one in which such a
\* row says something else is not called good (reconcile_head and verify in ledger.rs).
THEOREM LedgerKeepsItsWord == LedgerSpec => []NothingToldIsLost
BY LedgerInitHolds, LedgerNextHolds, NothingIsLost, PTL DEF LedgerSpec

-----------------------------------------------------------------------------
(* The gate. *)

Shape ==
  /\ DOMAIN call = Calls
  /\ \A c \in Calls : DOMAIN call[c] = {"pc", "ask", "made", "outcome"}
  /\ visit \in [Calls -> [Attempts -> Visit]]
  /\ lapsed \subseteq Calls

\* A call was asked for and prepared, or neither.
Judged(c) ==
  \/ call[c].ask = NotAsked
  \/ /\ call[c].ask \in Asks
     /\ \E k : call[c].made = Prepared(k, call[c].ask)

\* Only calls that were asked for get anywhere.
Asked(c) == call[c].pc # "new"

MayReach(r) ==
  /\ r.call \in Calls
  /\ Asked(r.call)
  /\ call[r.call].ask # NotAsked
  /\ r.location = "cloud" =>
       MayLeave(call[r.call].made.level) /\ call[r.call].ask.purpose # "corpus"

IInv ==
  /\ Shape
  /\ \A c \in Calls :
       /\ Judged(c)
       /\ call[c].pc = "new" => call[c].ask = NotAsked
       /\ call[c].pc = "ticketed" => call[c].ask # NotAsked
       /\ \A a \in Attempts :
            visit[c][a].pc = "checked" => Asked(c) /\ call[c].ask # NotAsked
       /\ call[c].pc \in {"prepared", "recording"} => call[c].ask # NotAsked
  /\ \A r \in reached : MayReach(r)

-----------------------------------------------------------------------------
\* A ticket that lets content leave is for public content or redacted bytes.
LEMMA TicketsAreTrue ==
  ASSUME NEW ask \in Asks, NEW k, MayLeave(Prepared(k, ask).level)
  PROVE  LET level == IF ask.purpose = "delegate" THEN DelegatedLevel(ask) ELSE ask.level
         IN  level = "public" \/ (level = "personal" /\ Prepared(k, ask).redacted)
<1>1. ask.level \in {"public", "personal", "secret"}
  BY EgressAssumption
<1>2. CASE ask.purpose = "delegate"
  BY <1>1, <1>2 DEF Prepared, MayLeave, DelegationDecision, DelegatedLevel
<1>3. CASE ask.purpose # "delegate"
  <2>1. Prepared(k, ask).level = TicketLevel(k, ask)
    BY <1>3 DEF Prepared
  <2>2. Prepared(k, ask).redacted = (Decision(k, ask) = "allowed redacted")
    BY <1>3 DEF Prepared
  <2>3. ask.level = "personal" /\ Leaving(k, ask) => Decision(k, ask) = "allowed redacted"
    BY DEF Decision
  <2>4. QED
    BY <1>1, <1>3, <2>1, <2>2, <2>3 DEF TicketLevel, MayLeave
<1>4. QED
  BY <1>2, <1>3

LEMMA InvariantSuffices == IInv => NothingSecretLeaves
<1> SUFFICES ASSUME IInv, NEW r \in reached, r.location = "cloud"
             PROVE  LET ask == call[r.call].ask
                        level == IF ask.purpose = "delegate" THEN DelegatedLevel(ask) ELSE ask.level
                    IN  /\ ask.purpose # "corpus"
                        /\ level = "public" \/ (level = "personal" /\ call[r.call].made.redacted)
  BY DEF NothingSecretLeaves
<1>1. /\ r.call \in Calls /\ call[r.call].ask # NotAsked
      /\ MayLeave(call[r.call].made.level) /\ call[r.call].ask.purpose # "corpus"
  BY DEF IInv, MayReach
<1>2. Judged(r.call)
  BY <1>1 DEF IInv
<1>3. PICK k : call[r.call].ask \in Asks /\ call[r.call].made = Prepared(k, call[r.call].ask)
  BY <1>1, <1>2 DEF Judged
<1>4. QED
  BY <1>1, <1>3, TicketsAreTrue

LEMMA InitHolds == Init => IInv
<1> SUFFICES ASSUME Init PROVE IInv
  OBVIOUS
<1>1. /\ call = [c \in Calls |-> NoCall] /\ reached = {} /\ lapsed = {}
      /\ visit = [c \in Calls |-> [a \in Attempts |-> NoVisit]]
  BY DEF Init
<1>2. visit \in [Calls -> [Attempts -> Visit]]
  BY <1>1 DEF NoVisit, Visit
<1>3. Shape
  BY <1>1, <1>2 DEF Shape, NoCall
<1>4. \A c \in Calls : call[c].pc = "new" /\ call[c].ask = NotAsked
  BY <1>1 DEF NoCall
<1>5. \A c \in Calls, a \in Attempts : visit[c][a].pc = "none"
  BY <1>1 DEF NoVisit
<1>6. QED
  BY <1>1, <1>3, <1>4, <1>5 DEF IInv, Judged

-----------------------------------------------------------------------------
\* What a call asked for and what was made of it stay.
SameAsk(c) ==
  /\ DOMAIN call'[c] = {"pc", "ask", "made", "outcome"}
  /\ call'[c].ask = call[c].ask
  /\ call'[c].made = call[c].made
  /\ call[c].pc # "new" => call'[c].pc # "new"
  /\ call'[c].pc \in {"prepared", "recording", "ticketed"} =>
       call[c].pc \in {"prepared", "recording"} \/ call'[c].pc = call[c].pc

LEMMA Ends ==
  ASSUME IInv, NEW c \in Calls, call[c].pc # "new", NEW outcome, Ended(c, outcome)
  PROVE  DOMAIN call' = Calls /\ \A d \in Calls : SameAsk(d)
<1>1. /\ DOMAIN call' = Calls
      /\ \A d \in Calls \ {c} : call'[d] = call[d]
      /\ call'[c] = [call[c] EXCEPT !.pc = "ended", !.outcome = outcome]
  BY DEF Ended, IInv, Shape
<1>2. DOMAIN call[c] = {"pc", "ask", "made", "outcome"}
  BY DEF IInv, Shape
<1>3. SameAsk(c)
  BY <1>1, <1>2 DEF SameAsk
<1>4. \A d \in Calls \ {c} : SameAsk(d)
  BY <1>1 DEF IInv, Shape, SameAsk
<1>5. QED
  BY <1>1, <1>3, <1>4

LEMMA Stays ==
  ASSUME IInv, call' = call
  PROVE  DOMAIN call' = Calls /\ \A d \in Calls : SameAsk(d)
BY DEF IInv, Shape, SameAsk

LEMMA Goes ==
  ASSUME IInv, NEW c \in Calls, call[c].pc # "new", NEW pc, CallTo(c, pc),
         pc # "new",
         pc \in {"prepared", "recording", "ticketed"} => call[c].pc \in {"prepared", "recording"}
  PROVE  DOMAIN call' = Calls /\ \A d \in Calls : SameAsk(d)
<1>1. /\ DOMAIN call' = Calls
      /\ \A d \in Calls \ {c} : call'[d] = call[d]
      /\ call'[c] = [call[c] EXCEPT !.pc = pc]
  BY DEF CallTo, IInv, Shape
<1>2. DOMAIN call[c] = {"pc", "ask", "made", "outcome"}
  BY DEF IInv, Shape
<1>3. SameAsk(c)
  BY <1>1, <1>2 DEF SameAsk
<1>4. \A d \in Calls \ {c} : SameAsk(d)
  BY <1>1 DEF IInv, Shape, SameAsk
<1>5. QED
  BY <1>1, <1>3, <1>4

\* One attempt of one call moves on, and is checked only if the call was asked for.
LEMMA Visits ==
  ASSUME IInv, NEW c \in Calls, NEW a \in Attempts, NEW next \in Visit,
         visit' = [visit EXCEPT ![c][a] = next]
  PROVE  /\ visit' \in [Calls -> [Attempts -> Visit]]
         /\ \A d \in Calls, b \in Attempts :
              visit'[d][b].pc = "checked" =>
                visit[d][b].pc = "checked" \/ (d = c /\ next.pc = "checked")
BY DEF IInv, Shape

LEMMA CallMoves ==
  ASSUME IInv, DOMAIN call' = Calls, \A c \in Calls : SameAsk(c),
         visit' \in [Calls -> [Attempts -> Visit]],
         lapsed' \subseteq Calls,
         \A c \in Calls, a \in Attempts : visit'[c][a].pc = "checked" =>
           visit[c][a].pc = "checked" \/ (Asked(c) /\ call[c].ask # NotAsked),
         \A r \in reached' : r \in reached \/ MayReach(r)
  PROVE  IInv'
<1>1. Shape'
  BY DEF Shape, SameAsk
<1>2. ASSUME NEW c \in Calls
      PROVE  /\ Judged(c)'
             /\ call'[c].pc = "new" => call'[c].ask = NotAsked
             /\ call'[c].pc \in {"prepared", "recording", "ticketed"} => call'[c].ask # NotAsked
             /\ \A a \in Attempts :
                  visit'[c][a].pc = "checked" => Asked(c)' /\ call'[c].ask # NotAsked
  <2>1. SameAsk(c) /\ Judged(c)
    BY DEF IInv
  <2>2. Judged(c)'
    BY <2>1 DEF Judged, SameAsk
  <2>3. QED
    BY <2>1, <2>2 DEF IInv, SameAsk, Asked
<1>3. ASSUME NEW r \in reached' PROVE MayReach(r)'
  <2>1. MayReach(r)
    BY DEF IInv
  <2>2. SameAsk(r.call)
    BY <2>1 DEF MayReach
  <2>3. QED
    BY <2>1, <2>2 DEF MayReach, SameAsk, Asked
<1>4. QED
  BY <1>1, <1>2, <1>3 DEF IInv

LEMMA AskHolds ==
  ASSUME IInv, NEW c \in Calls, NEW ask \in Asks, Ask(c, ask)
  PROVE  IInv'
<1> USE DEF Ask, CallTo, callVars, gatewayVars
<1>1. /\ visit' = visit /\ reached' = reached /\ lapsed' = lapsed
      /\ call[c].pc = "new" /\ call[c].ask = NotAsked
      /\ \A d \in Calls \ {c} : call'[d] = call[d]
      /\ DOMAIN call' = Calls
      /\ DOMAIN call'[c] = {"pc", "ask", "made", "outcome"}
  BY DEF IInv, Shape
<1>2. /\ call'[c].pc = "over" \/ (call'[c].pc = "prepared" /\ call'[c].ask # NotAsked)
      /\ Judged(c)'
  <2>1. ask # NotAsked
    BY EgressAssumption DEF NotAsked, None
  <2>2. CASE call' = [call EXCEPT ![c].pc = "over"]
    BY <1>1, <2>2 DEF IInv, Shape, Judged
  <2>3. CASE call' = [call EXCEPT ![c] = [pc |-> "prepared", ask |-> ask,
                                          made |-> Prepared(known, ask), outcome |-> None]]
    BY <1>1, <2>1, <2>3 DEF IInv, Shape, Judged
  <2>4. QED
    BY <2>2, <2>3
<1>3. Shape'
  BY <1>1 DEF IInv, Shape
<1>4. \A r \in reached' : r.call # c /\ MayReach(r)'
  BY <1>1 DEF IInv, MayReach, Asked
<1>5. \A a \in Attempts : visit[c][a].pc # "checked"
  BY <1>1 DEF IInv, Asked
<1>6. ASSUME NEW d \in Calls
      PROVE  /\ Judged(d)'
             /\ call'[d].pc = "new" => call'[d].ask = NotAsked
             /\ call'[d].pc \in {"prepared", "recording", "ticketed"} => call'[d].ask # NotAsked
             /\ \A a \in Attempts :
                  visit'[d][a].pc = "checked" => Asked(d)' /\ call'[d].ask # NotAsked
  <2>1. CASE d = c
    BY <1>1, <1>2, <1>5, <2>1 DEF Asked
  <2>2. CASE d # c
    BY <1>1, <2>2 DEF IInv, Judged, Asked
  <2>3. QED
    BY <2>1, <2>2
<1>7. QED
  BY <1>3, <1>4, <1>6 DEF IInv

\* The gate, the caller and the time.
LEMMA CallerHolds ==
  ASSUME IInv, NEW c \in Calls,
         \/ Record(c) \/ Recorded(c) \/ NotRecorded(c) \/ Unreachable(c)
         \/ Delegate(c) \/ Answer(c) \/ Lapse(c)
  PROVE  IInv'
<1> USE DEF callVars, gatewayVars
<1>1. CASE Record(c) \/ Recorded(c) \/ NotRecorded(c) \/ Unreachable(c)
  <2>1. visit' = visit /\ reached' = reached /\ lapsed' = lapsed
    BY <1>1 DEF Record, Recorded, NotRecorded, Unreachable
  <2>2. DOMAIN call' = Calls /\ \A d \in Calls : SameAsk(d)
    <3>1. CASE Record(c)
      <4>1. \/ call[c].pc = "prepared" /\ CallTo(c, "recording")
            \/ call[c].pc = "ended" /\ CallTo(c, "reporting")
        BY <3>1 DEF Record
      <4>2. QED
        BY <4>1, Goes
    <3>2. CASE Recorded(c)
      <4>1. PICK pc \in {"over", "ticketed"} :
              CallTo(c, pc) /\ (pc = "ticketed" => call[c].pc = "recording")
        BY <3>2 DEF Recorded
      <4>2. call[c].pc \in {"recording", "reporting"}
        BY <3>2 DEF Recorded
      <4>3. QED
        BY <4>1, <4>2, Goes
    <3>3. CASE NotRecorded(c)
      <4>1. call[c].pc \in {"recording", "reporting"} /\ CallTo(c, "over")
        BY <3>3 DEF NotRecorded
      <4>2. QED
        BY <4>1, Goes
    <3>4. CASE Unreachable(c)
      <4>1. call[c].pc \in {"ticketed", "sent"} /\ Ended(c, "unknown")
        BY <3>4 DEF Unreachable
      <4>2. QED
        BY <4>1, Ends
    <3>5. QED
      BY <1>1, <3>1, <3>2, <3>3, <3>4
  <2>3. QED
    BY <2>1, <2>2, CallMoves DEF IInv, Shape
<1>2. CASE Delegate(c)
  <2>1. visit' = visit /\ lapsed' = lapsed
    BY <1>2 DEF Delegate
  <2>2. DOMAIN call' = Calls /\ \A d \in Calls : SameAsk(d)
    BY <1>2, Goes DEF Delegate
  <2>3. \A r \in reached' : r \in reached \/ MayReach(r)
    BY <1>2 DEF Delegate, IInv, MayReach, Asked, NotAsked
  <2>4. QED
    BY <2>1, <2>2, <2>3, CallMoves DEF IInv, Shape
<1>3. CASE Answer(c)
  <2>1. reached' = reached /\ lapsed' = lapsed
    BY <1>3 DEF Answer
  <2>2. visit' = [visit EXCEPT ![c]["own"].pc = "gone"]
    BY <1>3 DEF Answer
  <2>3. /\ visit' \in [Calls -> [Attempts -> Visit]]
        /\ \A d \in Calls, a \in Attempts :
             visit'[d][a].pc = "checked" => visit[d][a].pc = "checked"
    <3> DEFINE next == [visit[c]["own"] EXCEPT !.pc = "gone"]
    <3>1. "own" \in Attempts /\ next \in Visit /\ next.pc = "gone"
      BY DEF IInv, Shape, Attempts, Visit
    <3>2. visit' = [visit EXCEPT ![c]["own"] = next]
      BY <2>2
    <3>3. QED
      BY <3>1, <3>2, Visits
  <2>4. DOMAIN call' = Calls /\ \A d \in Calls : SameAsk(d)
    <3>1. call' = call \/ (call[c].pc = "sent" /\ \E outcome \in {"sent", "failed"} : Ended(c, outcome))
      BY <1>3 DEF Answer
    <3>2. QED
      BY <3>1, Ends, Stays
  <2>5. QED
    BY <2>1, <2>3, <2>4, CallMoves DEF IInv, Shape
<1>4. CASE Lapse(c)
  <2>1. visit' = visit /\ reached' = reached /\ call' = call /\ lapsed' \subseteq Calls
    BY <1>4 DEF Lapse, IInv, Shape
  <2>2. QED
    BY <2>1, CallMoves DEF IInv, Shape, SameAsk
<1>5. QED
  BY <1>1, <1>2, <1>3, <1>4

\* The gateway.
LEMMA VisitHolds ==
  ASSUME IInv, NEW c \in Calls, NEW a \in Attempts, Present(c, a) \/ Spend(c, a)
  PROVE  IInv'
<1> USE DEF callVars, gatewayVars
<1>1. CASE Present(c, a)
  <2>1. reached' = reached /\ lapsed' = lapsed
    BY <1>1 DEF Present
  <2>2. /\ visit' \in [Calls -> [Attempts -> Visit]]
        /\ \A d \in Calls, b \in Attempts :
             visit'[d][b].pc = "checked" => visit[d][b].pc = "checked" \/ d = c
    <3>1. PICK next \in Visit : visit' = [visit EXCEPT ![c][a] = next]
      <4>1. visit[c][a] \in Visit
        BY DEF IInv, Shape
      <4>2. CASE visit' = [visit EXCEPT ![c][a].pc = "gone"]
        <5>1. [visit[c][a] EXCEPT !.pc = "gone"] \in Visit
          BY <4>1 DEF Visit
        <5>2. QED
          BY <4>2, <5>1
      <4>3. CASE visit' = [visit EXCEPT ![c][a] = [pc |-> "checked", late |-> lapsed]]
        <5>1. [pc |-> "checked", late |-> lapsed] \in Visit
          BY DEF IInv, Shape, Visit
        <5>2. QED
          BY <4>3, <5>1
      <4>4. QED
        BY <1>1, <4>2, <4>3 DEF Present
    <3>2. QED
      BY <3>1, Visits
  <2>3. Asked(c) /\ call[c].ask # NotAsked
    BY <1>1 DEF Present, IInv, Asked, NotAsked
  <2>4. DOMAIN call' = Calls /\ \A d \in Calls : SameAsk(d)
    <3>1. \/ call' = call
          \/ call[c].pc = "ticketed" /\ (Ended(c, "failed") \/ CallTo(c, "sent"))
      BY <1>1 DEF Present
    <3>2. QED
      BY <3>1, Ends, Stays, Goes
  <2>5. QED
    BY <2>1, <2>2, <2>3, <2>4, CallMoves DEF IInv, Shape
<1>2. CASE Spend(c, a)
  <2>1. PICK location : \/ reached' = reached
                        \/ /\ Permits(location, call[c].ask.purpose, call[c].made.level)
                           /\ reached' = reached \cup {[call |-> c, location |-> location]}
    BY <1>2 DEF Spend
  <2>2. /\ visit' \in [Calls -> [Attempts -> Visit]]
        /\ \A d \in Calls, b \in Attempts :
             visit'[d][b].pc = "checked" => visit[d][b].pc = "checked"
    <3>1. PICK pc \in {"through", "gone"} :
            visit' = [visit EXCEPT ![c][a] = [pc |-> pc, late |-> {}]]
      BY <1>2 DEF Spend
    <3>2. [pc |-> pc, late |-> {}] \in Visit
      BY DEF Visit
    <3>3. QED
      BY <3>1, <3>2, Visits
  <2>3. Asked(c) /\ call[c].ask # NotAsked
    BY <1>2 DEF Spend, IInv
  <2>4. \A r \in reached' : r \in reached \/ MayReach(r)
    BY <2>1, <2>3 DEF Permits, MayUseCloud, MayReach
  <2>5. DOMAIN call' = Calls /\ \A d \in Calls : SameAsk(d)
    <3>1. call' = call \/ (call[c].pc = "sent" /\ Ended(c, "failed"))
      BY <1>2 DEF Spend
    <3>2. QED
      BY <3>1, Ends, Stays
  <2>6. lapsed' = lapsed
    BY <1>2 DEF Spend
  <2>7. QED
    BY <2>2, <2>4, <2>5, <2>6, CallMoves DEF IInv, Shape
<1>3. QED
  BY <1>1, <1>2

\* Everything else.
LEMMA RestHolds ==
  ASSUME IInv,
         \/ GatewayStops \/ GatewayStarts \/ EditConfig
         \/ CoreOpens \/ CoreSteps \/ CoreStops \/ Others
         \/ UNCHANGED vars
  PROVE  IInv'
<1> USE DEF callVars, gatewayVars
<1>1. CASE CoreStops
  <2>1. visit' = visit /\ reached' = reached /\ lapsed' = lapsed
    BY <1>1 DEF CoreStops
  <2>2. DOMAIN call' = Calls /\ \A d \in Calls : SameAsk(d)
    BY <1>1 DEF CoreStops, IInv, Shape, SameAsk
  <2>3. QED
    BY <2>1, <2>2, CallMoves DEF IInv, Shape
<1>2. CASE GatewayStops
  <2>1. reached' = reached /\ lapsed' = lapsed /\ call' = call
    BY <1>2 DEF GatewayStops
  <2>2. /\ visit' \in [Calls -> [Attempts -> Visit]]
        /\ \A d \in Calls, a \in Attempts : visit'[d][a].pc # "checked"
    <3> DEFINE gone(c, a) == IF visit[c][a].pc = "none" THEN NoVisit ELSE [pc |-> "gone", late |-> {}]
    <3>1. visit' = [c \in Calls |-> [a \in Attempts |-> gone(c, a)]]
      BY <1>2 DEF GatewayStops
    <3>2. \A c, a : gone(c, a) \in Visit /\ gone(c, a).pc # "checked"
      BY DEF NoVisit, Visit
    <3> HIDE DEF gone
    <3>3. QED
      BY <3>1, <3>2
  <2>3. QED
    BY <2>1, <2>2, CallMoves DEF IInv, Shape, SameAsk
<1>3. CASE GatewayStarts \/ EditConfig \/ CoreOpens \/ CoreSteps \/ Others \/ UNCHANGED vars
  <2>1. visit' = visit /\ reached' = reached /\ lapsed' = lapsed /\ call' = call
    BY <1>3 DEF GatewayStarts, EditConfig, CoreOpens, CoreSteps, Others, vars
  <2>2. QED
    BY <2>1, CallMoves DEF IInv, Shape, SameAsk
<1>4. QED
  BY <1>1, <1>2, <1>3

LEMMA NextHolds == IInv /\ [Next]_vars => IInv'
BY AskHolds, CallerHolds, VisitHolds, RestHolds DEF Next

\* What reaches a cloud model or an executor is public or redacted, and never for a
\* corpus purpose, whatever the core and the gateway each believe about where a
\* model runs (gate.rs prepare and prepare_delegation, policy.rs check_request).
THEOREM SecretsStay == Spec => []NothingSecretLeaves
BY InitHolds, NextHolds, InvariantSuffices, PTL DEF Spec

-----------------------------------------------------------------------------
(* Tickets.  A request reads the clock before it takes the lock, so what it *)
(* drops from the spent nonces had expired already.                         *)

TicketInv ==
  /\ admitted \in [Calls -> Nat]
  /\ DOMAIN gateway = {"up", "known", "seen"}
  /\ ~gateway.up => gateway = NoGateway
  /\ \A c \in Calls :
       /\ admitted[c] > 0 /\ c \notin lapsed => admitted[c] = 1 /\ c \in gateway.seen
       /\ \A a \in Attempts : visit[c][a].late \subseteq lapsed

LEMMA TicketInitHolds == Init => TicketInv
BY DEF Init, TicketInv, NoVisit

LEMMA SpendKeepsTickets ==
  ASSUME IInv, TicketInv, NEW c \in Calls, NEW a \in Attempts, Spend(c, a)
  PROVE  TicketInv'
<1> DEFINE seen == Kept(c, a) \cup {c}
           fresh == c \notin Kept(c, a)
<1>1. /\ gateway' = [gateway EXCEPT !.seen = seen] /\ lapsed' = lapsed /\ gateway.up
      /\ admitted' = IF fresh THEN [admitted EXCEPT ![c] = @ + 1] ELSE admitted
  BY DEF Spend
<1>2. /\ DOMAIN gateway' = {"up", "known", "seen"} /\ gateway'.up /\ gateway'.seen = seen
      /\ admitted' \in [Calls -> Nat]
  BY <1>1 DEF TicketInv
<1>3. \A d \in Calls : d \in gateway.seen /\ d \notin lapsed => d \in Kept(c, a)
  BY DEF TicketInv, Kept
<1>4. ASSUME NEW d \in Calls, admitted'[d] > 0, d \notin lapsed
      PROVE  admitted'[d] = 1 /\ d \in gateway'.seen
  <2>1. CASE d = c
    <3>1. d \in gateway'.seen
      BY <1>2, <2>1
    <3>2. CASE fresh
      <4>1. d \notin gateway.seen
        BY <1>3, <1>4, <2>1, <3>2
      <4>2. admitted[d] \in Nat /\ ~(admitted[d] > 0)
        BY <1>4, <4>1 DEF TicketInv
      <4>3. admitted'[d] = admitted[d] + 1
        BY <1>1, <2>1, <3>2 DEF TicketInv
      <4>4. QED
        BY <3>1, <4>2, <4>3
    <3>3. CASE ~fresh
      BY <1>1, <1>4, <3>1, <3>3 DEF TicketInv
    <3>4. QED
      BY <3>2, <3>3
  <2>2. CASE d # c
    <3>1. admitted'[d] = admitted[d]
      BY <1>1, <2>2 DEF TicketInv
    <3>2. admitted[d] = 1 /\ d \in gateway.seen
      BY <1>4, <3>1 DEF TicketInv
    <3>3. QED
      BY <1>2, <1>3, <1>4, <3>1, <3>2
  <2>3. QED
    BY <2>1, <2>2
<1>5. \A d \in Calls, b \in Attempts : visit'[d][b].late \subseteq lapsed'
  <2>1. PICK pc \in {"through", "gone"} : visit' = [visit EXCEPT ![c][a] = [pc |-> pc, late |-> {}]]
    BY DEF Spend
  <2>2. QED
    BY <1>1, <2>1 DEF TicketInv, IInv, Shape
<1> HIDE DEF seen, fresh
<1>6. QED
  BY <1>1, <1>2, <1>4, <1>5 DEF TicketInv

\* A step of the requests that spends nothing.
LEMMA VisitKeepsTickets ==
  ASSUME IInv, TicketInv, UNCHANGED <<gateway, admitted>>, lapsed \subseteq lapsed',
         \A d \in Calls, b \in Attempts : visit'[d][b].late \subseteq lapsed'
  PROVE  TicketInv'
BY DEF TicketInv

LEMMA PresentKeepsTickets ==
  ASSUME IInv, TicketInv, NEW c \in Calls, NEW a \in Attempts, Present(c, a)
  PROVE  TicketInv'
<1>1. UNCHANGED <<gateway, admitted, lapsed>>
  BY DEF Present
<1>2. \A d \in Calls, b \in Attempts : visit'[d][b].late \subseteq lapsed'
  <2>1. /\ visit \in [Calls -> [Attempts -> Visit]]
        /\ \A d \in Calls, b \in Attempts : visit[d][b].late \subseteq lapsed
    BY DEF IInv, Shape, TicketInv
  <2>2. \A d \in Calls, b \in Attempts : visit[d][b] \in Visit
    BY <2>1
  <2>3. PICK next \in Visit : visit' = [visit EXCEPT ![c][a] = next] /\ next.late \subseteq lapsed
    <3>1. CASE visit' = [visit EXCEPT ![c][a].pc = "gone"]
      <4>1. /\ [visit[c][a] EXCEPT !.pc = "gone"] \in Visit
            /\ [visit[c][a] EXCEPT !.pc = "gone"].late \subseteq lapsed
        BY <2>1, <2>2 DEF Visit
      <4>2. QED
        BY <3>1, <4>1
    <3>2. CASE visit' = [visit EXCEPT ![c][a] = [pc |-> "checked", late |-> lapsed]]
      <4>1. [pc |-> "checked", late |-> lapsed] \in Visit
        BY DEF IInv, Shape, Visit
      <4>2. QED
        BY <3>2, <4>1
    <3>3. QED
      BY <3>1, <3>2 DEF Present
  <2>4. QED
    BY <1>1, <2>1, <2>3
<1>3. QED
  BY <1>1, <1>2, VisitKeepsTickets

LEMMA TicketNextHolds == IInv /\ TicketInv /\ [Next]_vars => TicketInv'
<1> SUFFICES ASSUME IInv, TicketInv, [Next]_vars PROVE TicketInv'
  OBVIOUS
<1>1. ASSUME NEW c \in Calls, Answer(c) PROVE TicketInv'
  <2>1. /\ visit' = [visit EXCEPT ![c]["own"].pc = "gone"] /\ UNCHANGED <<gateway, admitted, lapsed>>
        /\ visit \in [Calls -> [Attempts -> Visit]]
    BY <1>1 DEF Answer, IInv, Shape
  <2>2. \A d \in Calls, b \in Attempts : visit'[d][b].late = visit[d][b].late
    BY <2>1 DEF Visit
  <2>3. QED
    BY <2>1, <2>2, VisitKeepsTickets DEF TicketInv
<1>2. ASSUME NEW c \in Calls,
             \/ \E ask \in Asks : Ask(c, ask)
             \/ Record(c) \/ Recorded(c) \/ NotRecorded(c) \/ Unreachable(c) \/ Delegate(c) \/ Lapse(c)
      PROVE  TicketInv'
  <2>1. UNCHANGED <<gateway, admitted, visit>> /\ lapsed \subseteq lapsed'
    BY <1>2 DEF Ask, Record, Recorded, NotRecorded, Unreachable, Delegate, Lapse, gatewayVars
  <2>2. QED
    BY <2>1, VisitKeepsTickets DEF TicketInv
<1>3. CASE GatewayStops
  <2>1. /\ gateway' = NoGateway /\ admitted' = [c \in Calls |-> 0] /\ lapsed' = lapsed
        /\ \A c \in Calls, a \in Attempts : visit'[c][a].late = {}
    BY <1>3 DEF GatewayStops, NoVisit
  <2>2. QED
    BY <2>1 DEF TicketInv, NoGateway
<1>4. CASE GatewayStarts
  BY <1>4 DEF GatewayStarts, TicketInv, NoGateway
<1>5. CASE EditConfig \/ CoreOpens \/ CoreSteps \/ CoreStops \/ Others \/ UNCHANGED vars
  <2>1. UNCHANGED <<gateway, admitted, visit, lapsed>>
    BY <1>5 DEF EditConfig, CoreOpens, CoreSteps, CoreStops, Others, gatewayVars, vars
  <2>2. QED
    BY <2>1, VisitKeepsTickets DEF TicketInv
<1>6. QED
  BY <1>1, <1>2, <1>3, <1>4, <1>5, SpendKeepsTickets, PresentKeepsTickets DEF Next

\* A ticket is admitted once while it lives, however requests that carry it overtake
\* each other and whatever is forgotten of what has expired (ticket.rs admit).
THEOREM TicketsAreSpentOnce == Spec => []OnceWhileItLives
<1>1. TicketInv => OnceWhileItLives
  BY DEF TicketInv, OnceWhileItLives
<1>2. QED
  BY <1>1, InitHolds, NextHolds, TicketInitHolds, TicketNextHolds, PTL DEF Spec

-----------------------------------------------------------------------------
(* Records.  While the core has the ledger nothing happens to the database, *)
(* so what is recorded of a call that goes on stays recorded; and the core  *)
(* appends for one call at a time.                                          *)

Seen(c) == \E n \in 1 .. Len(rows) : rows[n].body = EgressRow(c)
Did(c) == \E r \in reached : r.call = c
Came(c) == Did(c) \/ \E a \in Attempts : visit[c][a].pc # "none"

Writing(p) == proc[p].pc \in {"begun", "committed"}
Writes(c) == \/ call[c].pc = "recording" /\ proc[Core].row.body = EgressRow(c)
             \/ call[c].pc = "reporting" /\ proc[Core].row.body = ResultRow(c)

Traced(c) ==
  /\ call[c].pc \notin {"new", "over"} => InUse(Core)
  /\ call[c].pc \in {"recording", "reporting"} => Writing(Core) /\ Writes(c)
  /\ call[c].pc \in {"ticketed", "sent", "ended", "reporting"} => Seen(c)
  /\ mishaps = 0 /\ Came(c) => Seen(c)
  /\ call[c].outcome = "sent" \/ visit[c]["own"].pc = "through" => Did(c)
  /\ call[c].pc = "new" => ~Came(c)

IsTrue(n) ==
  rows[n].body[1] = "result" =>
    LET c == rows[n].body[2]
    IN  /\ c \in Calls /\ call[c].pc # "new"
        /\ \E m \in 1 .. (n - 1) : rows[m].body \in {EgressRow(c), Altered}
        /\ rows[n].body[3] = "sent" => Did(c)

TraceInv ==
  /\ \A c \in Calls : Traced(c)
  /\ Writing(Core) => \E c \in Calls : Writes(c)
  /\ \A p \in Procs \ {Core} : Writing(p) => proc[p].row.body[1] = "other"
  /\ \A n \in 1 .. Len(rows) : IsTrue(n)

LEMMA TraceInitHolds == Init => TraceInv
<1> SUFFICES ASSUME Init PROVE TraceInv
  OBVIOUS
<1>1. /\ call = [c \in Calls |-> NoCall] /\ reached = {} /\ rows = <<>>
      /\ visit = [c \in Calls |-> [a \in Attempts |-> NoVisit]]
      /\ proc = [p \in Procs |-> Closed]
  BY DEF Init, LedgerInit
<1>2. ASSUME NEW c \in Calls PROVE Traced(c)
  <2>1. /\ call[c].pc = "new" /\ call[c].outcome = "none" /\ "own" \in Attempts
        /\ \A a \in Attempts : visit[c][a].pc = "none"
    BY <1>1 DEF NoCall, NoVisit, None, Attempts
  <2>2. QED
    BY <1>1, <2>1 DEF Traced, Came, Did
<1>3. \A p \in Procs : ~Writing(p)
  BY <1>1 DEF Closed, Writing
<1>4. Len(rows) = 0
  BY <1>1
<1>5. QED
  BY <1>2, <1>3, <1>4, EgressAssumption DEF TraceInv

LEMMA Triples ==
  ASSUME NEW a, NEW b, NEW c, NEW d, NEW e, NEW f, <<a, b, c>> = <<d, e, f>>
  PROVE  a = d /\ b = e /\ c = f
<1>1. /\ <<a, b, c>>[1] = a /\ <<a, b, c>>[2] = b /\ <<a, b, c>>[3] = c
      /\ <<d, e, f>>[1] = d /\ <<d, e, f>>[2] = e /\ <<d, e, f>>[3] = f
  OBVIOUS
<1> QED
  BY <1>1

LEMMA EgressRowSays ==
  ASSUME NEW c
  PROVE  /\ EgressRow(c)[1] = "egress" /\ EgressRow(c)[2] = c
         /\ ResultRow(c)[1] = "result" /\ ResultRow(c)[2] = c
         /\ ResultRow(c)[3] = call[c].outcome
BY DEF EgressRow, ResultRow

\* One call at a time is being recorded.
LEMMA OneIsWritten ==
  ASSUME NEW c, NEW d, Writes(c), Writes(d)
  PROVE  c = d
BY EgressRowSays DEF Writes

-----------------------------------------------------------------------------
\* Away from the ledger.

\* What was made of a call that was asked for stays.
SameMade(c) ==
  call[c].pc # "new" => call'[c].pc # "new" /\ call'[c].made = call[c].made

LEMMA SeenStays ==
  ASSUME NEW c, Seen(c), call'[c].made = call[c].made, rows' = rows
  PROVE  Seen(c)'
BY DEF Seen, EgressRow

LEMMA TraceMoves ==
  ASSUME TraceInv, UNCHANGED ledgerVars, reached \subseteq reached',
         \A c \in Calls : Traced(c)' /\ SameMade(c),
         \A c \in Calls : call[c].pc \in {"recording", "reporting"} => call'[c] = call[c]
  PROVE  TraceInv'
<1>1. proc' = proc /\ rows' = rows
  BY DEF ledgerVars
<1>2. ASSUME Writing(Core)' PROVE \E c \in Calls : Writes(c)'
  <2>1. PICK c \in Calls : Writes(c)
    BY <1>1, <1>2 DEF TraceInv, Writing
  <2>2. Writes(c)'
    BY <1>1, <2>1 DEF Writes, EgressRow, ResultRow
  <2>3. QED
    BY <2>2
<1>3. ASSUME NEW n \in 1 .. Len(rows') PROVE IsTrue(n)'
  <2>1. IsTrue(n)
    BY <1>1 DEF TraceInv
  <2>2. QED
    BY <1>1, <2>1 DEF IsTrue, SameMade, EgressRow, Did
<1>4. \A p \in Procs \ {Core} : Writing(p)' => proc'[p].row.body[1] = "other"
  BY <1>1 DEF TraceInv, Writing
<1>5. QED
  BY <1>2, <1>3, <1>4 DEF TraceInv

\* A call nothing happens to.
LEMMA TracedStays ==
  ASSUME NEW c \in Calls, Traced(c), UNCHANGED ledgerVars, call'[c] = call[c],
         \A a \in Attempts : visit'[c][a].pc = "none" <=> visit[c][a].pc = "none",
         visit'[c]["own"].pc = "through" => visit[c]["own"].pc = "through",
         Did(c)' <=> Did(c)
  PROVE  Traced(c)' /\ SameMade(c)
<1>1. Came(c)' <=> Came(c)
  BY DEF Came
<1>2. /\ InUse(Core)' <=> InUse(Core)
      /\ Writing(Core)' <=> Writing(Core)
      /\ Writes(c)' <=> Writes(c)
      /\ Seen(c)' <=> Seen(c)
      /\ mishaps' = mishaps
  BY DEF ledgerVars, InUse, Writing, Writes, Seen, EgressRow, ResultRow
<1>3. QED
  BY <1>1, <1>2 DEF Traced, SameMade

\* One call moves on, by itself or in the gateway.
LEMMA OffLedger ==
  ASSUME IInv, TraceInv, UNCHANGED ledgerVars, NEW c \in Calls,
         Traced(c)', SameMade(c),
         call[c].pc \in {"recording", "reporting"} => call'[c] = call[c],
         \A d \in Calls \ {c} : call'[d] = call[d] /\ visit'[d] = visit[d],
         \/ reached' = reached
         \/ \E where : reached' = reached \cup {[call |-> c, location |-> where]}
  PROVE  TraceInv'
<1>1. \A d \in Calls \ {c} : Did(d)' <=> Did(d)
  BY DEF Did
<1>2. ASSUME NEW d \in Calls \ {c} PROVE Traced(d)' /\ SameMade(d)
  BY <1>1, TracedStays DEF TraceInv
<1>3. QED
  BY <1>2, TraceMoves

\* What is left to show of a call that moves on, once its record is there.
LEMMA MovedIsTraced ==
  ASSUME IInv, UNCHANGED ledgerVars, NEW c \in Calls, Traced(c), call[c].pc # "new",
         call'[c].made = call[c].made, call'[c].pc \notin {"new", "recording", "reporting"},
         call'[c].pc \notin {"new", "over"} => InUse(Core),
         Seen(c) \/ (call'[c].pc \notin {"ticketed", "sent", "ended"} /\ (Came(c)' => Came(c))),
         call'[c].outcome = "sent" \/ visit'[c]["own"].pc = "through" => Did(c)'
  PROVE  Traced(c)' /\ SameMade(c)
<1>1. /\ InUse(Core)' <=> InUse(Core)
      /\ Seen(c)' <=> Seen(c)
      /\ mishaps' = mishaps
  BY DEF ledgerVars, InUse, Seen, EgressRow
<1>2. QED
  BY <1>1 DEF Traced, SameMade

LEMMA CallGoes ==
  ASSUME IInv, NEW c \in Calls, NEW pc, CallTo(c, pc)
  PROVE  /\ call'[c].pc = pc /\ call'[c].made = call[c].made /\ call'[c].outcome = call[c].outcome
         /\ call'[c].ask = call[c].ask
         /\ \A d \in Calls \ {c} : call'[d] = call[d]
BY DEF CallTo, IInv, Shape

LEMMA CallEnds ==
  ASSUME IInv, NEW c \in Calls, NEW outcome, Ended(c, outcome)
  PROVE  /\ call'[c].pc = "ended" /\ call'[c].made = call[c].made /\ call'[c].outcome = outcome
         /\ \A d \in Calls \ {c} : call'[d] = call[d]
BY DEF Ended, IInv, Shape

LEMMA VisitGoes ==
  ASSUME IInv, NEW c \in Calls, NEW a \in Attempts, NEW next, visit' = [visit EXCEPT ![c][a] = next]
  PROVE  /\ visit'[c][a] = next
         /\ \A b \in Attempts \ {a} : visit'[c][b] = visit[c][b]
         /\ \A d \in Calls \ {c} : visit'[d] = visit[d]
BY DEF IInv, Shape

LEMMA AskTraced ==
  ASSUME IInv, TraceInv, NEW c \in Calls, NEW ask \in Asks, Ask(c, ask)
  PROVE  TraceInv'
<1>1. /\ UNCHANGED ledgerVars /\ UNCHANGED <<visit, reached>> /\ call[c].pc = "new" /\ InUse(Core)
      /\ Traced(c)
  BY DEF Ask, gatewayVars, TraceInv
<1>2. /\ call'[c].pc \in {"over", "prepared"} /\ call'[c].outcome # "sent"
      /\ \A d \in Calls \ {c} : call'[d] = call[d]
  <2>1. CASE CallTo(c, "over")
    <3>1. call[c].outcome # "sent"
      BY <1>1 DEF Traced, Came
    <3>2. QED
      BY <2>1, <3>1, CallGoes
  <2>2. CASE call' = [call EXCEPT ![c] = [pc |-> "prepared", ask |-> ask,
                                          made |-> Prepared(known, ask), outcome |-> None]]
    BY <2>2 DEF IInv, Shape, None
  <2>3. QED
    BY <2>1, <2>2 DEF Ask
<1>3. ~Came(c)'
  BY <1>1 DEF Traced, Came, Did
<1>4. visit[c]["own"].pc = "none"
  BY <1>1 DEF Traced, Came, Attempts
<1>5. Traced(c)' /\ SameMade(c)
  BY <1>1, <1>2, <1>3, <1>4 DEF Traced, SameMade, InUse, ledgerVars
<1>6. QED
  BY <1>1, <1>2, <1>5, OffLedger

LEMMA UnreachableTraced ==
  ASSUME IInv, TraceInv, NEW c \in Calls, Unreachable(c)
  PROVE  TraceInv'
<1>1. /\ UNCHANGED ledgerVars /\ UNCHANGED <<visit, reached>> /\ call[c].pc \in {"ticketed", "sent"}
      /\ Traced(c) /\ Ended(c, "unknown")
  BY DEF Unreachable, gatewayVars, TraceInv
<1>2. /\ call'[c].pc = "ended" /\ call'[c].made = call[c].made /\ call'[c].outcome = "unknown"
      /\ \A d \in Calls \ {c} : call'[d] = call[d]
  BY <1>1, CallEnds
<1>3. InUse(Core) /\ Seen(c) /\ (visit[c]["own"].pc = "through" => Did(c)')
  BY <1>1 DEF Traced, Did
<1>4. Traced(c)' /\ SameMade(c)
  BY <1>1, <1>2, <1>3, MovedIsTraced
<1>5. QED
  BY <1>1, <1>2, <1>4, OffLedger

LEMMA DelegateTraced ==
  ASSUME IInv, TraceInv, NEW c \in Calls, Delegate(c)
  PROVE  TraceInv'
<1>1. /\ UNCHANGED ledgerVars /\ UNCHANGED visit /\ call[c].pc = "ticketed"
      /\ Traced(c) /\ CallTo(c, "over")
      /\ \/ reached' = reached
         \/ \E where : reached' = reached \cup {[call |-> c, location |-> where]}
  BY DEF Delegate, TraceInv
<1>2. /\ call'[c].pc = "over" /\ call'[c].made = call[c].made /\ call'[c].outcome = call[c].outcome
      /\ \A d \in Calls \ {c} : call'[d] = call[d]
  BY <1>1, CallGoes
<1>3. Seen(c) /\ (call[c].outcome = "sent" \/ visit[c]["own"].pc = "through" => Did(c)')
  BY <1>1 DEF Traced, Did
<1>4. Traced(c)' /\ SameMade(c)
  BY <1>1, <1>2, <1>3, MovedIsTraced
<1>5. QED
  BY <1>1, <1>2, <1>4, OffLedger

LEMMA AnswerTraced ==
  ASSUME IInv, TraceInv, NEW c \in Calls, Answer(c)
  PROVE  TraceInv'
<1>1. /\ UNCHANGED ledgerVars /\ UNCHANGED reached /\ Traced(c)
      /\ visit[c]["own"].pc = "through" /\ Did(c)
      /\ \/ call[c].pc = "sent" /\ \E outcome \in {"sent", "failed"} : Ended(c, outcome)
         \/ call' = call
  BY DEF Answer, TraceInv, Traced
<1>2. /\ \A a \in Attempts : visit'[c][a].pc = "none" <=> visit[c][a].pc = "none"
      /\ visit'[c]["own"].pc = "gone"
      /\ \A d \in Calls \ {c} : visit'[d] = visit[d]
  <2> DEFINE next == [visit[c]["own"] EXCEPT !.pc = "gone"]
  <2>1. "own" \in Attempts /\ next.pc = "gone" /\ visit' = [visit EXCEPT ![c]["own"] = next]
    BY DEF Answer, Attempts, IInv, Shape, Visit
  <2> HIDE DEF next
  <2>2. /\ visit'[c]["own"] = next
        /\ \A b \in Attempts \ {"own"} : visit'[c][b] = visit[c][b]
        /\ \A d \in Calls \ {c} : visit'[d] = visit[d]
    BY <2>1, VisitGoes
  <2>3. ASSUME NEW a \in Attempts PROVE visit'[c][a].pc = "none" <=> visit[c][a].pc = "none"
    BY ONLY <1>1, <2>1, <2>2, <2>3
  <2>4. QED
    BY <2>1, <2>2, <2>3
<1>3. Did(c)'
  BY <1>1 DEF Did
<1>4. CASE call[c].pc = "sent" /\ \E outcome \in {"sent", "failed"} : Ended(c, outcome)
  <2>1. /\ call'[c].pc = "ended" /\ call'[c].made = call[c].made
        /\ \A d \in Calls \ {c} : call'[d] = call[d]
    BY <1>4, CallEnds
  <2>2. InUse(Core) /\ Seen(c)
    BY <1>1, <1>4 DEF Traced
  <2>3. Traced(c)' /\ SameMade(c)
    BY <1>1, <1>3, <1>4, <2>1, <2>2, MovedIsTraced
  <2>4. QED
    BY <1>1, <1>2, <1>4, <2>1, <2>3, OffLedger
<1>5. CASE call' = call
  <2>1. Traced(c)' /\ SameMade(c)
    BY <1>1, <1>2, <1>3, <1>5, TracedStays
  <2>2. QED
    BY <1>1, <1>2, <1>5, <2>1, OffLedger
<1>6. QED
  BY <1>1, <1>4, <1>5

LEMMA PresentTraced ==
  ASSUME IInv, TraceInv, NEW c \in Calls, NEW a \in Attempts, Present(c, a)
  PROVE  TraceInv'
<1>1. /\ UNCHANGED ledgerVars /\ UNCHANGED reached /\ Traced(c)
      /\ \/ a = "own" /\ call[c].pc = "ticketed"
         \/ a = "again" /\ visit[c]["own"].pc # "none" /\ call' = call
      /\ \/ a = "own" /\ (CallTo(c, "sent") \/ Ended(c, "failed"))
         \/ call' = call
  BY DEF Present, TraceInv
<1>2. PICK next : visit' = [visit EXCEPT ![c][a] = next] /\ next.pc \in {"gone", "checked"}
  <2>1. CASE visit' = [visit EXCEPT ![c][a].pc = "gone"]
    <3>1. [visit[c][a] EXCEPT !.pc = "gone"].pc = "gone"
      BY DEF IInv, Shape, Visit
    <3>2. QED
      BY <2>1, <3>1
  <2>2. CASE visit' = [visit EXCEPT ![c][a] = [pc |-> "checked", late |-> lapsed]]
    <3>1. [pc |-> "checked", late |-> lapsed].pc = "checked"
      OBVIOUS
    <3>2. QED
      BY <2>2, <3>1
  <2>3. QED
    BY <2>1, <2>2 DEF Present
<1>3. /\ visit'[c][a] = next
      /\ \A b \in Attempts \ {a} : visit'[c][b] = visit[c][b]
      /\ \A d \in Calls \ {c} : visit'[d] = visit[d]
  BY <1>2, VisitGoes
<1>4. Did(c)' <=> Did(c)
  BY <1>1 DEF Did
<1>5. visit'[c]["own"].pc = "through" => visit[c]["own"].pc = "through"
  BY <1>2, <1>3 DEF Attempts
<1>6. CASE a = "own" /\ call[c].pc = "ticketed"
  <2>1. Seen(c) /\ InUse(Core)
    BY <1>1, <1>6 DEF Traced
  <2>2. CASE CallTo(c, "sent") \/ Ended(c, "failed")
    <3>1. /\ call'[c].pc \in {"sent", "ended"} /\ call'[c].made = call[c].made
          /\ call'[c].outcome = "sent" => call[c].outcome = "sent"
          /\ \A d \in Calls \ {c} : call'[d] = call[d]
      BY <2>2, CallGoes, CallEnds
    <3>2. call'[c].outcome = "sent" \/ visit'[c]["own"].pc = "through" => Did(c)'
      BY <1>1, <1>4, <1>5, <3>1 DEF Traced
    <3>3. Traced(c)' /\ SameMade(c)
      BY <1>1, <1>6, <2>1, <3>1, <3>2, MovedIsTraced
    <3>4. QED
      BY <1>1, <1>3, <1>6, <3>1, <3>3, OffLedger
  <2>3. CASE call' = call
    <3>1. call[c].outcome = "sent" \/ visit'[c]["own"].pc = "through" => Did(c)'
      BY <1>1, <1>4, <1>5 DEF Traced
    <3>2. Traced(c)' /\ SameMade(c)
      BY <1>1, <1>6, <2>1, <2>3, <3>1, MovedIsTraced
    <3>3. QED
      BY <1>1, <1>3, <2>3, <3>2, OffLedger
  <2>4. QED
    BY <1>1, <2>2, <2>3
<1>7. CASE a = "again" /\ visit[c]["own"].pc # "none" /\ call' = call
  <2>1. Came(c)
    BY <1>7 DEF Came, Attempts
  <2>2. Traced(c)' /\ SameMade(c)
    <3>1. /\ InUse(Core)' <=> InUse(Core)
          /\ Writing(Core)' <=> Writing(Core)
          /\ Writes(c)' <=> Writes(c)
          /\ Seen(c)' <=> Seen(c)
          /\ mishaps' = mishaps
      BY <1>1, <1>7 DEF ledgerVars, InUse, Writing, Writes, Seen, EgressRow, ResultRow
    <3>2. QED
      BY <1>1, <1>4, <1>5, <1>7, <2>1, <3>1 DEF Traced, SameMade
  <2>3. QED
    BY <1>1, <1>3, <1>7, <2>2, OffLedger
<1>8. QED
  BY <1>1, <1>6, <1>7

LEMMA SpendTraced ==
  ASSUME IInv, TraceInv, NEW c \in Calls, NEW a \in Attempts, Spend(c, a)
  PROVE  TraceInv'
<1>1. /\ UNCHANGED ledgerVars /\ Traced(c) /\ visit[c][a].pc = "checked"
      /\ \/ call[c].pc = "sent" /\ Ended(c, "failed")
         \/ call' = call
  BY DEF Spend, TraceInv
<1>2. PICK next, where :
        /\ visit' = [visit EXCEPT ![c][a] = next] /\ next.pc \in {"through", "gone"}
        /\ \/ reached' = reached /\ next.pc = "gone"
           \/ reached' = reached \cup {[call |-> c, location |-> where]}
  <2> DEFINE location == gateway.known.location[call[c].made.target]
             passed == /\ c \notin Kept(c, a)
                       /\ Permits(location, call[c].ask.purpose, call[c].made.level)
             forwarded == a = "own" /\ passed /\ location = "local"
             stays == [pc |-> "gone", late |-> {}]
             passes == [pc |-> "through", late |-> {}]
  <2>1. /\ reached' = IF passed THEN reached \cup {[call |-> c, location |-> location]} ELSE reached
        /\ visit' = [visit EXCEPT ![c][a] = [pc |-> IF forwarded THEN "through" ELSE "gone", late |-> {}]]
        /\ forwarded => passed
    BY DEF Spend
  <2>2. stays.pc = "gone" /\ passes.pc = "through"
    OBVIOUS
  <2>3. CASE forwarded
    <3>1. visit' = [visit EXCEPT ![c][a] = passes] /\ passed
      BY <2>1, <2>3
    <3> HIDE DEF passes, passed, location
    <3>2. QED
      BY <2>1, <2>2, <3>1
  <2>4. CASE ~forwarded
    <3>1. visit' = [visit EXCEPT ![c][a] = stays]
      BY <2>1, <2>4
    <3> HIDE DEF stays, passed, location
    <3>2. QED
      BY <2>1, <2>2, <3>1
  <2>5. QED
    BY <2>3, <2>4
<1>3. /\ visit'[c][a] = next
      /\ \A b \in Attempts \ {a} : visit'[c][b] = visit[c][b]
      /\ \A d \in Calls \ {c} : visit'[d] = visit[d]
  BY <1>2, VisitGoes
<1>4. /\ Did(c) => Did(c)'
      /\ visit'[c]["own"].pc = "through" => Did(c)' \/ visit[c]["own"].pc = "through"
  <2>1. CASE reached' = reached /\ next.pc = "gone"
    BY <1>3, <2>1 DEF Did, Attempts
  <2>2. CASE reached' = reached \cup {[call |-> c, location |-> where]}
    <3>1. [call |-> c, location |-> where].call = c /\ [call |-> c, location |-> where] \in reached'
      BY <2>2
    <3>2. QED
      BY <3>1 DEF Did
  <2>3. QED
    BY <1>2, <2>1, <2>2
<1>5. Came(c) /\ call[c].pc # "new"
  BY <1>1 DEF Came, Traced
<1>6. CASE call[c].pc = "sent" /\ Ended(c, "failed")
  <2>1. /\ call'[c].pc = "ended" /\ call'[c].made = call[c].made /\ call'[c].outcome = "failed"
        /\ \A d \in Calls \ {c} : call'[d] = call[d]
    BY <1>6, CallEnds
  <2>2. InUse(Core) /\ Seen(c) /\ (visit'[c]["own"].pc = "through" => Did(c)')
    BY <1>1, <1>4, <1>6 DEF Traced
  <2>3. Traced(c)' /\ SameMade(c)
    BY <1>1, <1>6, <2>1, <2>2, MovedIsTraced
  <2>4. QED
    BY <1>1, <1>2, <1>3, <1>6, <2>1, <2>3, OffLedger
<1>7. CASE call' = call
  <2>1. Traced(c)' /\ SameMade(c)
    <3>1. /\ InUse(Core)' <=> InUse(Core)
          /\ Writing(Core)' <=> Writing(Core)
          /\ Writes(c)' <=> Writes(c)
          /\ Seen(c)' <=> Seen(c)
          /\ mishaps' = mishaps
      BY <1>1, <1>7 DEF ledgerVars, InUse, Writing, Writes, Seen, EgressRow, ResultRow
    <3>2. QED
      BY <1>1, <1>4, <1>5, <1>7, <3>1 DEF Traced, SameMade
  <2>2. QED
    BY <1>1, <1>2, <1>3, <1>7, <2>1, OffLedger
<1>8. QED
  BY <1>1, <1>6, <1>7

\* The gateway as a whole, and what changes nothing a record depends on.
LEMMA GatewayTraced ==
  ASSUME IInv, TraceInv,
         \/ GatewayStops \/ GatewayStarts \/ EditConfig \/ (\E c \in Calls : Lapse(c))
         \/ UNCHANGED vars
  PROVE  TraceInv'
<1>1. /\ UNCHANGED ledgerVars /\ UNCHANGED <<call, reached>>
      /\ \A c \in Calls, a \in Attempts :
           /\ visit'[c][a].pc = "none" <=> visit[c][a].pc = "none"
           /\ visit'[c][a].pc = "through" => visit[c][a].pc = "through"
  <2>1. CASE GatewayStops
    BY <2>1 DEF GatewayStops, NoVisit, callVars
  <2>2. CASE GatewayStarts \/ EditConfig \/ (\E c \in Calls : Lapse(c)) \/ UNCHANGED vars
    BY <2>2 DEF GatewayStarts, EditConfig, Lapse, vars, callVars, gatewayVars
  <2>3. QED
    BY <2>1, <2>2
<1>2. ASSUME NEW c \in Calls PROVE Traced(c)' /\ SameMade(c)
  <2>1. Did(c)' <=> Did(c)
    BY <1>1 DEF Did
  <2>2. "own" \in Attempts
    BY DEF Attempts
  <2>3. QED
    BY <1>1, <2>1, <2>2, TracedStays DEF TraceInv
<1>3. QED
  BY <1>1, <1>2, TraceMoves

-----------------------------------------------------------------------------
(* At the ledger. *)

\* A process that has the ledger remembers the row it is writing.
LEMMA CommittedIsThere ==
  ASSUME LedgerInv, NEW p \in Procs, proc[p].pc = "committed"
  PROVE  \E n \in 1 .. Len(rows) : rows[n] = proc[p].row
<1>1. /\ proc[p].at.seq \in Nat /\ rows[proc[p].at.seq + 1] = proc[p].row
      /\ IsPoint(rows, [seq |-> proc[p].at.seq + 1, hash |-> proc[p].row.hash])
      /\ Len(rows) \in Nat
  BY SeqLen DEF LedgerInv, Remembers
<1>2. proc[p].at.seq + 1 \in 1 .. Len(rows)
  BY <1>1 DEF IsPoint
<1>3. QED
  BY <1>1, <1>2

\* What only another process does, or the core while it appends nothing.
LEMMA Beside ==
  ASSUME TraceInv, UNCHANGED <<call, visit, reached, rows, mishaps>>,
         \A p \in Procs \ {Core} : Writing(p)' =>
           (Writing(p) /\ proc'[p].row = proc[p].row) \/ proc'[p].row.body[1] = "other",
         \/ proc'[Core] = proc[Core]
         \/ ~Writing(Core) /\ ~Writing(Core)' /\ (InUse(Core) => InUse(Core)')
  PROVE  TraceInv'
<1>1. ASSUME NEW c \in Calls PROVE Traced(c)'
  <2>1. Traced(c)
    BY DEF TraceInv
  <2>2. /\ Seen(c)' <=> Seen(c)
        /\ Came(c)' <=> Came(c)
        /\ Did(c)' <=> Did(c)
    BY DEF Seen, Came, Did, EgressRow
  <2>3. CASE proc'[Core] = proc[Core]
    <3>1. /\ InUse(Core)' <=> InUse(Core)
          /\ Writing(Core)' <=> Writing(Core)
          /\ Writes(c)' <=> Writes(c)
      BY <2>3 DEF InUse, Writing, Writes, EgressRow, ResultRow
    <3>2. QED
      BY ONLY <2>1, <2>2, <3>1, UNCHANGED <<call, visit, mishaps>> DEF Traced
  <2>4. CASE ~Writing(Core) /\ ~Writing(Core)' /\ (InUse(Core) => InUse(Core)')
    BY ONLY <2>1, <2>2, <2>4, UNCHANGED <<call, visit, mishaps>> DEF Traced
  <2>5. QED
    BY <2>3, <2>4
<1>2. ASSUME Writing(Core)' PROVE \E c \in Calls : Writes(c)'
  <2>1. proc'[Core] = proc[Core] /\ Writing(Core)
    BY <1>2 DEF Writing
  <2>2. PICK c \in Calls : Writes(c)
    BY <2>1 DEF TraceInv
  <2>3. Writes(c)'
    BY <2>1, <2>2 DEF Writes, EgressRow, ResultRow
  <2>4. QED
    BY <2>3
<1>3. ASSUME NEW n \in 1 .. Len(rows') PROVE IsTrue(n)'
  <2>1. IsTrue(n)
    BY DEF TraceInv
  <2>2. QED
    BY <2>1 DEF IsTrue, EgressRow, Did
<1>4. \A p \in Procs \ {Core} : Writing(p)' => proc'[p].row.body[1] = "other"
  BY DEF TraceInv
<1>5. QED
  BY <1>1, <1>2, <1>3, <1>4 DEF TraceInv

\* The row a process commits is the core's, and then it is the record of a call on
\* its way, or somebody else's.
LEMMA CommitTraced ==
  ASSUME LedgerInv, TraceInv, UNCHANGED <<call, visit, reached>>, NEW p \in Procs, Commit(p)
  PROVE  TraceInv'
<1>1. /\ rows' = Append(rows, proc[p].row) /\ mishaps' = mishaps /\ Writing(p)
      /\ proc'[p].pc = "committed" /\ proc'[p].row = proc[p].row
      /\ \A q \in Procs \ {p} : proc'[q] = proc[q]
  BY ProcMoves DEF Commit, Writing, Goto, LedgerInv, LedgerShape
<1>2. /\ Len(rows) \in Nat /\ Len(rows') = Len(rows) + 1
      /\ rows'[Len(rows) + 1] = proc[p].row
      /\ \A n \in 1 .. Len(rows) : rows'[n] = rows[n]
  BY <1>1, AppendedRows DEF LedgerInv
<1>3. \A q \in Procs : /\ Writing(q)' <=> Writing(q)
                       /\ InUse(q)' <=> InUse(q)
                       /\ Writing(q) => proc'[q].row = proc[q].row
  <2>1. Writing(p)' /\ InUse(p) /\ InUse(p)'
    BY <1>1 DEF Writing, InUse
  <2>2. QED
    BY <1>1, <2>1 DEF Writing, InUse
<1>4. \A c : Seen(c) => Seen(c)'
  <2>1. \A n \in 1 .. Len(rows) : n \in 1 .. Len(rows')
    BY <1>2
  <2>2. QED
    BY <1>2, <2>1 DEF Seen, EgressRow
<1>5. Core \in Procs
  BY EgressAssumption
<1>6. \A c \in Calls : Writing(Core) /\ Writes(c) => Writes(c)'
  BY <1>3, <1>5 DEF Writes, EgressRow, ResultRow
<1>7. ASSUME NEW c \in Calls PROVE Traced(c)'
  <2>1. Traced(c) /\ (Came(c)' <=> Came(c)) /\ (Did(c)' <=> Did(c))
    BY DEF TraceInv, Came, Did
  <2>2. QED
    BY ONLY <1>1, <1>3, <1>4, <1>5, <1>6, <2>1, c \in Calls, UNCHANGED <<call, visit>> DEF Traced
<1>8. Writing(Core)' => \E c \in Calls : Writes(c)'
  BY <1>3, <1>5, <1>6 DEF TraceInv
<1>9. \A q \in Procs \ {Core} : Writing(q)' => proc'[q].row.body[1] = "other"
  BY <1>3 DEF TraceInv
<1>10. ASSUME NEW n \in 1 .. Len(rows') PROVE IsTrue(n)'
  <2>1. CASE n \in 1 .. Len(rows)
    <3>1. IsTrue(n) /\ rows'[n] = rows[n] /\ \A m \in 1 .. (n - 1) : rows'[m] = rows[m]
      BY <1>2, <2>1 DEF TraceInv
    <3>2. QED
      BY <3>1 DEF IsTrue, EgressRow, Did
  <2>2. CASE n = Len(rows) + 1
    <3>1. CASE p # Core
      <4>1. proc[p].row.body[1] = "other"
        BY <1>1, <3>1 DEF TraceInv
      <4>2. QED
        BY <1>2, <2>2, <4>1 DEF IsTrue
    <3>2. CASE p = Core
      <4>1. PICK c \in Calls : Writes(c)
        BY <1>1, <3>2 DEF TraceInv
      <4>2. CASE proc[Core].row.body = EgressRow(c)
        BY <1>2, <2>2, <3>2, <4>2, EgressRowSays DEF IsTrue
      <4>3. CASE call[c].pc = "reporting" /\ proc[Core].row.body = ResultRow(c)
        <5>1. rows'[n].body = ResultRow(c)
          BY <1>2, <2>2, <3>2, <4>3
        <5>2. rows'[n].body[2] = c /\ rows'[n].body[3] = call[c].outcome
          BY <5>1, EgressRowSays
        <5>3. Seen(c) /\ (call[c].outcome = "sent" => Did(c))
          BY <4>3 DEF TraceInv, Traced
        <5>4. PICK m \in 1 .. Len(rows) : rows[m].body = EgressRow(c)
          BY <5>3 DEF Seen
        <5>5. m \in 1 .. (n - 1) /\ rows'[m].body = EgressRow(c)
          BY <1>2, <2>2, <5>4
        <5>6. EgressRow(c)' = EgressRow(c) /\ (Did(c)' <=> Did(c))
          BY DEF EgressRow, Did
        <5>7. QED
          BY <4>3, <5>2, <5>3, <5>5, <5>6 DEF IsTrue
      <4>4. QED
        BY <4>1, <4>2, <4>3 DEF Writes
    <3>3. QED
      BY <3>1, <3>2
  <2>3. QED
    BY <1>2, <2>1, <2>2
<1>11. QED
  BY <1>7, <1>8, <1>9, <1>10 DEF TraceInv

\* What happens to the database may take a record away, or write over it; but then
\* nobody has the ledger, and no result comes without what was before it.
LEMMA MishapTraced ==
  ASSUME LedgerInv, TraceInv, UNCHANGED <<call, visit, reached>>, Mishap
  PROVE  TraceInv'
<1>1. /\ proc' = proc /\ mishaps' # 0
      /\ \A p \in Procs : proc[p].pc = "closed"
      /\ Core \in Procs
  BY EgressAssumption DEF Mishap, LedgerInv, LedgerShape
<1>2. ASSUME NEW c \in Calls PROVE Traced(c)'
  <2>1. Traced(c) /\ (Came(c)' <=> Came(c)) /\ (Did(c)' <=> Did(c))
    BY DEF TraceInv, Came, Did
  <2>2. ~InUse(Core) /\ ~InUse(Core)'
    BY <1>1 DEF InUse
  <2>3. QED
    BY ONLY <1>1, <2>1, <2>2, UNCHANGED <<call, visit>> DEF Traced
<1>3. \A p \in Procs : ~Writing(p)'
  BY <1>1 DEF Writing
<1>4. PICK S : rows \in Seq(S)
  BY DEF LedgerInv, IsSeq
<1>5. Len(rows) \in Nat /\ DOMAIN rows = 1 .. Len(rows)
  BY <1>4
<1>6. /\ Len(rows') \in Nat /\ Len(rows') <= Len(rows)
      /\ \A n \in 1 .. Len(rows') : rows'[n].body = rows[n].body \/ rows'[n].body = Altered
  <2>1. CASE \E n \in 0 .. (Len(rows) - 1) : rows' = SubSeq(rows, 1, n)
    <3>1. PICK n \in 0 .. (Len(rows) - 1) : rows' = SubSeq(rows, 1, n)
      BY <2>1
    <3>2. n \in Nat /\ n <= Len(rows) /\ Len(rows') = n /\ \A m \in 1 .. n : rows'[m] = rows[m]
      BY <1>4, <1>5, <3>1
    <3>3. QED
      BY <1>5, <3>2
  <2>2. ASSUME NEW n \in 1 .. Len(rows), NEW row, rows' = [rows EXCEPT ![n] = row], row.body = Altered
        PROVE  /\ Len(rows') \in Nat /\ Len(rows') <= Len(rows)
               /\ \A m \in 1 .. Len(rows') : rows'[m].body = rows[m].body \/ rows'[m].body = Altered
    <3>1. rows \in Seq(S \cup {row})
      BY <1>4
    <3>2. Len(rows') = Len(rows) /\ \A m \in 1 .. Len(rows) : rows'[m] = IF m = n THEN row ELSE rows[m]
      BY <1>5, <2>2, <3>1
    <3>3. QED
      BY <1>5, <2>2, <3>2
  <2>3. CASE \E n \in DOMAIN rows : rows' = [rows EXCEPT ![n].body = Altered]
    <3>1. PICK n \in DOMAIN rows : rows' = [rows EXCEPT ![n].body = Altered]
      BY <2>3
    <3> DEFINE row == [rows[n] EXCEPT !.body = Altered]
    <3>2. row.body = Altered
      <4>1. IsRow(rows[n])
        BY <1>5 DEF LedgerInv, Chained
      <4>2. QED
        BY <4>1 DEF IsRow
    <3>3. rows' = [rows EXCEPT ![n] = row]
      BY <3>1
    <3> HIDE DEF row
    <3>4. QED
      BY <1>5, <2>2, <3>2, <3>3
  <2>4. CASE rows # <<>> /\ rows' = [rows EXCEPT ![Len(rows)] = RowOf(rows[Len(rows)].prev, Altered)]
    <3> DEFINE row == RowOf(rows[Len(rows)].prev, Altered)
    <3>1. Len(rows) \in 1 .. Len(rows) /\ row.body = Altered /\ rows' = [rows EXCEPT ![Len(rows)] = row]
      BY <1>4, <1>5, <2>4 DEF RowOf
    <3> HIDE DEF row
    <3>2. QED
      BY <2>2, <3>1
  <2>5. QED
    BY <2>1, <2>3, <2>4 DEF Mishap
<1>7. ASSUME NEW n \in 1 .. Len(rows') PROVE IsTrue(n)'
  <2>1. SUFFICES ASSUME rows'[n].body[1] = "result" PROVE IsTrue(n)'
    BY DEF IsTrue
  <2>2. rows'[n].body = rows[n].body
    BY <1>6, <2>1, EgressAssumption
  <2>3. IsTrue(n) /\ n \in Nat
    BY <1>5, <1>6 DEF TraceInv
  <2> DEFINE c == rows[n].body[2]
  <2>4. /\ c \in Calls /\ call[c].pc # "new"
        /\ rows[n].body[3] = "sent" => Did(c)
    BY <2>1, <2>2, <2>3 DEF IsTrue
  <2>5. PICK m \in 1 .. (n - 1) : rows[m].body \in {EgressRow(c), Altered}
    BY <2>1, <2>2, <2>3 DEF IsTrue
  <2>6. rows'[m].body \in {EgressRow(c), Altered}
    <3>1. m \in 1 .. Len(rows')
      BY <1>6, <2>3
    <3>2. QED
      BY <1>6, <2>5, <3>1
  <2>7. QED
    BY <2>2, <2>4, <2>5, <2>6 DEF IsTrue, EgressRow, Did
<1>8. QED
  BY <1>1, <1>2, <1>3, <1>7 DEF TraceInv

\* Opening and verifying, which append nothing.
LEMMA LookingIsQuiet ==
  ASSUME LedgerInv, NEW p \in Procs, StartOpening(p) \/ LedgerStep(p)
  PROVE  /\ rows' = rows /\ mishaps' = mishaps
         /\ \/ proc' = proc
            \/ ~Writing(p) /\ ~Writing(p)' /\ (InUse(p) => InUse(p)')
         /\ \A q \in Procs \ {p} : proc'[q] = proc[q]
<1>1. DOMAIN proc = Procs
  BY DEF LedgerInv, LedgerShape
<1>1a. CASE OpenTemp(p) \/ FillTemp(p)
  BY <1>1a DEF OpenTemp, FillTemp
<1>4. CASE CatchUp(p) \/ CatchUpFails(p)
  <2>1. proc[p].pc = "catching up" /\ rows' = rows /\ mishaps' = mishaps
    BY <1>4 DEF CatchUp, CatchUpFails
  <2>2. Ready(p) \/ proc' = [proc EXCEPT ![p] = Closed]
    BY <1>4 DEF CatchUp, CatchUpFails
  <2>3. proc'[p].pc \in {"open", "closed"} /\ \A q \in Procs \ {p} : proc'[q] = proc[q]
    BY <1>1, <2>2 DEF Ready, Closed
  <2>4. QED
    BY <2>1, <2>3 DEF Writing, InUse
<1>2. CASE StartOpening(p)
  BY <1>1, <1>2 DEF StartOpening, Writing, InUse
<1>3. CASE CompareHead(p)
  <2>1. proc[p].pc = "opening" /\ rows' = rows /\ mishaps' = mishaps
    BY <1>3 DEF CompareHead
  <2>2. proc'[p].pc \in {"open", "catching up"} /\ \A q \in Procs \ {p} : proc'[q] = proc[q]
    <3>1. CASE Ready(p)
      BY <1>1, <3>1 DEF Ready, Closed
    <3>2. CASE Goto(p, "catching up")
      BY <1>1, <3>2, ProcMoves
    <3>3. QED
      BY <1>3, <3>1, <3>2 DEF CompareHead
  <2>3. QED
    BY <2>1, <2>2 DEF Writing, InUse
<1>5. CASE RefuseToOpen(p)
  BY <1>1, <1>5 DEF RefuseToOpen, Closed, Writing, InUse
<1>6. CASE Walk(p)
  BY <1>1, <1>6 DEF Walk, Writing, InUse
<1>7. CASE CompareEnd(p)
  BY <1>1, <1>7 DEF CompareEnd, Ready, Closed, Writing, InUse
<1>8. QED
  BY <1>1a, <1>2, <1>3, <1>4, <1>5, <1>6, <1>7 DEF LedgerStep

LEMMA EndingIsQuiet ==
  ASSUME LedgerInv, NEW p \in Procs, CommitFails(p) \/ WriteHead(p) \/ HeadFails(p) \/ Stop(p)
  PROVE  /\ rows' = rows /\ mishaps' = mishaps /\ ~Writing(p)'
         /\ \A q \in Procs \ {p} : proc'[q] = proc[q]
         /\ Stop(p) \/ (Writing(p) /\ InUse(p)')
<1>1. DOMAIN proc = Procs
  BY DEF LedgerInv, LedgerShape
<1>2. CASE Stop(p)
  BY <1>1, <1>2 DEF Stop, Closed, Writing
<1>3. CASE CommitFails(p) \/ WriteHead(p) \/ HeadFails(p)
  <2>1. Ready(p) /\ rows' = rows /\ mishaps' = mishaps /\ Writing(p)
    BY <1>3 DEF CommitFails, WriteHead, HeadFails, Writing
  <2>2. proc'[p].pc = "open" /\ \A q \in Procs \ {p} : proc'[q] = proc[q]
    BY <1>1, <2>1 DEF Ready, Closed
  <2>3. QED
    BY <2>1, <2>2 DEF Writing, InUse
<1>4. QED
  BY <1>2, <1>3

LEMMA OthersTraced ==
  ASSUME IInv, LedgerInv, TraceInv, Others
  PROVE  TraceInv'
<1>1. UNCHANGED <<call, visit, reached>> /\ Core \in Procs
  BY EgressAssumption DEF Others, callVars, gatewayVars
<1>2. ASSUME NEW p \in Procs \ {Core}, StartOpening(p) \/ LedgerStep(p) PROVE TraceInv'
  BY <1>1, <1>2, LookingIsQuiet, Beside DEF Writing
<1>3. ASSUME NEW p \in Procs \ {Core}, Begin(p, <<"other", p>>) PROVE TraceInv'
  <2>1. /\ rows' = rows /\ mishaps' = mishaps
        /\ \A q \in Procs \ {p} : proc'[q] = proc[q]
        /\ proc'[p].row.body[1] = "other"
    BY <1>3 DEF Begin, LedgerInv, LedgerShape, RowOf
  <2>2. QED
    BY <1>1, <2>1, Beside DEF Writing
<1>4. ASSUME NEW p \in Procs \ {Core}, CommitFails(p) \/ WriteHead(p) \/ HeadFails(p) \/ Stop(p)
      PROVE  TraceInv'
  BY <1>1, <1>4, EndingIsQuiet, Beside DEF Writing
<1>5. QED
  BY <1>1, <1>2, <1>3, <1>4, CommitTraced, MishapTraced DEF Others

LEMMA CoreStepsTraced ==
  ASSUME IInv, LedgerInv, TraceInv, CoreOpens \/ CoreSteps
  PROVE  TraceInv'
<1>1. UNCHANGED <<call, visit, reached>> /\ Core \in Procs
  BY EgressAssumption DEF CoreOpens, CoreSteps, callVars, gatewayVars
<1>2. CASE StartOpening(Core) \/ LedgerStep(Core)
  <2>1. /\ rows' = rows /\ mishaps' = mishaps
        /\ \/ proc' = proc
           \/ ~Writing(Core) /\ ~Writing(Core)' /\ (InUse(Core) => InUse(Core)')
        /\ \A q \in Procs \ {Core} : proc'[q] = proc[q]
    BY <1>1, <1>2, LookingIsQuiet
  <2>2. QED
    BY <1>1, <2>1, Beside DEF Writing
<1>3. QED
  BY <1>1, <1>2, CommitTraced DEF CoreOpens, CoreSteps

\* A step of the core's append at which the call it is for moves on: before it, or
\* after it, nothing is being written.
LEMMA CoreMoves ==
  ASSUME IInv, LedgerInv, TraceInv, UNCHANGED <<visit, reached, rows, mishaps>>,
         NEW c \in Calls, NEW pc, CallTo(c, pc), pc # "new", call[c].pc # "new",
         \A p \in Procs \ {Core} : proc'[p] = proc[p],
         InUse(Core)',
         \/ Writing(Core)' /\ ~Writing(Core) /\ Writes(c)'
         \/ ~Writing(Core)' /\ Writes(c) /\ pc \notin {"recording", "reporting"},
         pc \in {"ticketed", "sent", "ended", "reporting"} => Seen(c)
  PROVE  TraceInv'
<1>1. /\ call'[c].pc = pc /\ call'[c].made = call[c].made /\ call'[c].outcome = call[c].outcome
      /\ \A d \in Calls \ {c} : call'[d] = call[d]
  BY CallGoes
<1>2. \A d \in Calls : /\ Came(d)' <=> Came(d)
                       /\ Did(d)' <=> Did(d)
                       /\ Seen(d)' <=> Seen(d)
                       /\ EgressRow(d)' = EgressRow(d)
                       /\ ResultRow(d)' = ResultRow(d)
  BY <1>1 DEF Came, Did, Seen, EgressRow, ResultRow
<1>3. Traced(c)'
  <2>1. pc \in {"recording", "reporting"} => Writing(Core)' /\ Writes(c)'
    OBVIOUS
  <2>2. Traced(c)
    BY DEF TraceInv
  <2>3. QED
    BY <1>1, <1>2, <2>1, <2>2 DEF Traced
<1>4. ASSUME NEW d \in Calls \ {c} PROVE Traced(d)'
  <2>1. Traced(d) /\ call'[d] = call[d]
    BY <1>1 DEF TraceInv
  <2>2. call[d].pc \notin {"recording", "reporting"}
    BY <2>1, OneIsWritten DEF Traced
  <2>3. QED
    BY <1>2, <2>1, <2>2 DEF Traced
<1>5. Writing(Core)' => \E d \in Calls : Writes(d)'
  OBVIOUS
<1>6. \A p \in Procs \ {Core} : Writing(p)' => proc'[p].row.body[1] = "other"
  BY DEF TraceInv, Writing
<1>7. ASSUME NEW n \in 1 .. Len(rows') PROVE IsTrue(n)'
  <2>1. IsTrue(n) /\ \A d \in Calls : call[d].pc # "new" => call'[d].pc # "new"
    BY <1>1 DEF TraceInv
  <2>2. QED
    BY <1>2, <2>1 DEF IsTrue
<1>8. QED
  BY <1>3, <1>4, <1>5, <1>6, <1>7 DEF TraceInv

LEMMA RecordTraced ==
  ASSUME IInv, LedgerInv, TraceInv, NEW c \in Calls, Record(c)
  PROVE  TraceInv'
<1>1. PICK body, pc :
        /\ \/ call[c].pc = "prepared" /\ body = EgressRow(c) /\ pc = "recording"
           \/ call[c].pc = "ended" /\ body = ResultRow(c) /\ pc = "reporting"
        /\ Begin(Core, body) /\ CallTo(c, pc)
  BY DEF Record
<1>2. /\ UNCHANGED <<visit, reached, rows, mishaps>> /\ Core \in Procs
      /\ proc[Core].pc = "open" /\ proc'[Core].pc = "begun" /\ proc'[Core].row.body = body
      /\ \A p \in Procs \ {Core} : proc'[p] = proc[p]
  BY <1>1, EgressAssumption DEF Record, Begin, gatewayVars, LedgerInv, LedgerShape, RowOf
<1>3. ~Writing(Core) /\ Writing(Core)' /\ InUse(Core)'
  BY <1>2 DEF Writing, InUse
<1>4. Writes(c)'
  <2>1. call'[c].pc = pc /\ call'[c].made = call[c].made /\ call'[c].outcome = call[c].outcome
    BY <1>1, CallGoes
  <2>2. EgressRow(c)' = EgressRow(c) /\ ResultRow(c)' = ResultRow(c)
    BY <2>1 DEF EgressRow, ResultRow
  <2>3. QED
    BY <1>1, <1>2, <2>1, <2>2 DEF Writes
<1>5. pc = "reporting" => Seen(c)
  BY <1>1 DEF TraceInv, Traced
<1>6. QED
  BY <1>1, <1>2, <1>3, <1>4, <1>5, CoreMoves

LEMMA RecordedTraced ==
  ASSUME IInv, LedgerInv, TraceInv, NEW c \in Calls, Recorded(c) \/ NotRecorded(c)
  PROVE  TraceInv'
<1>1. PICK pc \in {"over", "ticketed"} :
        /\ CallTo(c, pc) /\ call[c].pc \in {"recording", "reporting"}
        /\ CommitFails(Core) \/ WriteHead(Core) \/ HeadFails(Core)
        /\ pc = "ticketed" => call[c].pc = "recording" /\ WriteHead(Core)
  BY DEF Recorded, NotRecorded
<1>2. UNCHANGED <<visit, reached>> /\ Core \in Procs /\ ~Stop(Core)
  <2>1. ~Stop(Core)
    BY <1>1, EgressAssumption DEF CommitFails, WriteHead, HeadFails, Ready, Stop, Closed, LedgerInv, LedgerShape
  <2>2. QED
    BY <2>1, EgressAssumption DEF Recorded, NotRecorded, gatewayVars
<1>3. /\ UNCHANGED <<rows, mishaps>> /\ ~Writing(Core)' /\ InUse(Core)'
      /\ \A p \in Procs \ {Core} : proc'[p] = proc[p]
  BY <1>1, <1>2, EndingIsQuiet
<1>4. Writes(c)
  BY <1>1 DEF TraceInv, Traced
<1>5. ASSUME pc = "ticketed" PROVE Seen(c)
  <2>1. proc[Core].row.body = EgressRow(c) /\ proc[Core].pc = "committed"
    BY <1>1, <1>4, <1>5 DEF Writes, WriteHead
  <2>2. QED
    BY <1>2, <2>1, CommittedIsThere DEF Seen
<1>6. QED
  BY <1>1, <1>2, <1>3, <1>4, <1>5, CoreMoves

LEMMA CoreStopsTraced ==
  ASSUME IInv, LedgerInv, TraceInv, CoreStops
  PROVE  TraceInv'
<1>1. /\ UNCHANGED <<visit, reached, rows, mishaps>> /\ Core \in Procs /\ ~Writing(Core)'
      /\ \A p \in Procs \ {Core} : proc'[p] = proc[p]
  <2>1. UNCHANGED <<visit, reached>> /\ Core \in Procs /\ Stop(Core)
    BY EgressAssumption DEF CoreStops, gatewayVars
  <2>2. QED
    BY <2>1, EndingIsQuiet
<1>2. ASSUME NEW c \in Calls
      PROVE  /\ call'[c].made = call[c].made /\ call'[c].outcome = call[c].outcome
             /\ call[c].pc = "new" <=> call'[c].pc = "new"
             /\ call'[c].pc \in {"new", "over"}
  BY DEF CoreStops, IInv, Shape
<1>3. \A c \in Calls : /\ Came(c)' <=> Came(c)
                       /\ Did(c)' <=> Did(c)
                       /\ Seen(c)' <=> Seen(c)
                       /\ EgressRow(c)' = EgressRow(c)
  BY <1>1, <1>2 DEF Came, Did, Seen, EgressRow
<1>4. ASSUME NEW c \in Calls PROVE Traced(c)'
  <2>1. Traced(c)
    BY DEF TraceInv
  <2>2. QED
    BY <1>1, <1>2, <1>3, <2>1 DEF Traced
<1>5. \A p \in Procs \ {Core} : Writing(p)' => proc'[p].row.body[1] = "other"
  BY <1>1 DEF TraceInv, Writing
<1>6. ASSUME NEW n \in 1 .. Len(rows') PROVE IsTrue(n)'
  <2>1. IsTrue(n)
    BY <1>1 DEF TraceInv
  <2>2. QED
    BY <1>1, <1>2, <1>3, <2>1 DEF IsTrue
<1>7. QED
  BY <1>1, <1>4, <1>5, <1>6 DEF TraceInv

\* Every step of the whole is a step of the ledger's, or leaves the ledger alone.
LEMMA LedgerIsMoved ==
  ASSUME [Next]_vars
  PROVE  [AnyLedgerStep]_ledgerVars
<1>1. Core \in Procs
  BY EgressAssumption
<1>2. ASSUME NEW c \in Calls, Record(c) \/ Recorded(c) \/ NotRecorded(c) PROVE AnyLedgerStep
  BY <1>1, <1>2 DEF Record, Recorded, NotRecorded, AnyLedgerStep
<1>3. ASSUME NEW c \in Calls,
             \/ \E ask \in Asks : Ask(c, ask)
             \/ Unreachable(c) \/ Delegate(c) \/ Answer(c) \/ Lapse(c)
             \/ \E a \in Attempts : Present(c, a) \/ Spend(c, a)
      PROVE  UNCHANGED ledgerVars
  BY <1>3 DEF Ask, Unreachable, Delegate, Answer, Lapse, Present, Spend
<1>4. CASE GatewayStops \/ GatewayStarts \/ EditConfig \/ UNCHANGED vars
  BY <1>4 DEF GatewayStops, GatewayStarts, EditConfig, vars
<1>5. CASE CoreOpens \/ CoreSteps \/ CoreStops \/ Others
  BY <1>1, <1>5 DEF CoreOpens, CoreSteps, CoreStops, Others, AnyLedgerStep
<1>6. QED
  BY <1>2, <1>3, <1>4, <1>5 DEF Next

LEMMA LedgerHoldsInEgress == LedgerInv /\ [Next]_vars => LedgerInv'
BY LedgerIsMoved, LedgerHolds

LEMMA TraceNextHolds == IInv /\ LedgerInv /\ TraceInv /\ [Next]_vars => TraceInv'
BY AskTraced, UnreachableTraced, DelegateTraced, AnswerTraced, PresentTraced, SpendTraced,
   GatewayTraced, OthersTraced, CoreStepsTraced, RecordTraced, RecordedTraced, CoreStopsTraced
   DEF Next

-----------------------------------------------------------------------------
\* Nothing reaches a model or an executor that is not on record first, as what was
\* decided about it: a record that cannot be written stops the call (gate.rs prepare).
THEOREM RecordsComeFirst == Spec => []RecordedFirst
<1>1. IInv /\ LedgerInv /\ TraceInv => RecordedFirst
  <2> SUFFICES ASSUME IInv, LedgerInv, TraceInv, mishaps = 0, NEW r \in reached
               PROVE  \E n \in DOMAIN rows : rows[n].body = EgressRow(r.call)
    BY DEF RecordedFirst
  <2>1. r.call \in Calls
    BY DEF IInv, MayReach
  <2>2. Came(r.call)
    BY DEF Came, Did
  <2>3. Seen(r.call)
    BY <2>1, <2>2 DEF TraceInv, Traced
  <2>4. QED
    BY <2>3, SeqLen DEF Seen, LedgerInv
<1>2. Init => LedgerInv
  BY LedgerInitHolds DEF Init
<1>3. QED
  BY <1>1, <1>2, InitHolds, NextHolds, TraceInitHolds, TraceNextHolds, LedgerHoldsInEgress, PTL DEF Spec

\* A row that says how a call ended stands behind the row that allowed it, and says
\* it was answered only if the call reached a model (caller.rs send).
THEOREM ResultsTellTheTruth == Spec => []ResultsAreTrue
<1>1. LedgerInv /\ TraceInv => ResultsAreTrue
  <2> SUFFICES ASSUME LedgerInv, TraceInv PROVE ResultsAreTrue
    OBVIOUS
  <2>1. DOMAIN rows = 1 .. Len(rows)
    BY SeqLen DEF LedgerInv
  <2>2. QED
    BY <2>1 DEF TraceInv, IsTrue, Did, ResultsAreTrue
<1>2. Init => LedgerInv
  BY LedgerInitHolds DEF Init
<1>3. QED
  BY <1>1, <1>2, InitHolds, NextHolds, TraceInitHolds, TraceNextHolds, LedgerHoldsInEgress, PTL DEF Spec

\* What an append was acknowledged for is not lost unnoticed, with the core making
\* its calls on the same ledger (ledger.rs).
THEOREM AcknowledgedStays == Spec => []NothingToldIsLost
<1>1. Init => LedgerInv
  BY LedgerInitHolds DEF Init
<1>2. QED
  BY <1>1, LedgerHoldsInEgress, NothingIsLost, PTL DEF Spec

\* And the core, when it starts, is refused an untouched ledger only if a command
\* appended to it meanwhile, or two processes were at .head.tmp at once (ledger.rs
\* reconcile_head, head.rs write).
THEOREM RefusalsMeanTheSame == Spec => RefusedOnlyIfOvertaken
<1>1. LedgerInv /\ [Next]_vars =>
        [\A p \in Procs : RefuseToOpen(p) => mishaps > 0 \/ Len(rows) > proc[p].at.seq \/ crossed]_ledgerVars
  BY Refused
<1>2. Init => LedgerInv
  BY LedgerInitHolds DEF Init
<1>3. QED
  BY <1>1, <1>2, LedgerHoldsInEgress, PTL DEF Spec, RefusedOnlyIfOvertaken

=============================================================================
