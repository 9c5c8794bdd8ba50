--------------------------- MODULE MailSyncProofs ---------------------------
(***************************************************************************)
(* No message is skipped, for every folder, every number of faults, stops, *)
(* renumberings and junk marks, and every size of a batch.                 *)
(*                                                                         *)
(* The invariant follows a claim from where it is made to where it is      *)
(* stored: a fetched UID is held or in the engine's hands, then held or in *)
(* the batch the core is storing, then held, and only then does a request  *)
(* to save a cursor claim it.  A request outlives the process that made    *)
(* it, so what it claims is stated of the request and not of the engine.   *)
(* Everything is relative to the validity the claim was made under: after  *)
(* a renumbering the old claims say nothing.                               *)
(***************************************************************************)
EXTENDS MailSync, FiniteSetTheorems, WellFoundedInduction, TLAPS

\* Settled, Held, or in the batch that is on its way.
Kept(u, batch) == Settled(box[u]) \/ \E x \in batch : x.ver = box[u]

\* A history position claims a UID.
Claims(at, complete, u) == complete \/ (at # 0 /\ u >= at)

\* What is at or below the live position and claimed by the stored history.
Upto(at, batch) ==
  cursor["history"].val = validity =>
    \A u \in Uids :
      u <= at /\ Claims(cursor["history"].at, cursor["history"].complete, u) => Kept(u, batch)

\* What a history position claims of what the stored live one covers.
Downto(at, complete, batch) ==
  \A u \in Uids : u <= cursor["live"].at /\ Claims(at, complete, u) => Kept(u, batch)

\* Positions are of the validity they were found under, and no later.
Working ==
  {"live?", "newest", "first?", "begun?", "uids", "fetch", "stored?", "saved?", "history?",
   "back", "backfetch", "backstored?", "backsaved?", "all?"}

Dated ==
  /\ val <= validity
  /\ \A s \in Scopes : cursor[s].val <= validity
  /\ pc \in Working => \A s \in Scopes : cursor[s].val <= val
  /\ call.op = "save" =>
       call.cursor.val <= validity /\ \A s \in Scopes : cursor[s].val <= call.cursor.val
  /\ cursor["live"].val = validity => cursor["live"].at < next
  /\ cursor["history"].val = validity => cursor["live"].val = validity

\* Each label waits for the answer to what was asked there.
Asked ==
  /\ pc \in {"live?", "history?", "all?"} => call.op \in {"load", "done", "failed"}
  /\ pc = "live?" /\ call.op = "load" => call.scope = "live"
  /\ pc = "live?" /\ call.op = "done" => call.cursor = cursor["live"]
  /\ pc = "history?" /\ call.op = "load" => call.scope = "history"
  /\ pc = "history?" /\ call.op = "done" => call.cursor = cursor["history"]
  /\ pc \in {"stored?", "backstored?"} => call.op \in {"store", "done", "failed"}
  /\ pc \in {"first?", "begun?", "saved?", "backsaved?"} =>
       call.op \in {"save", "done", "failed"} /\ (call.op = "save" => call.cursor.val = val)
  /\ pc = "first?" /\ call.op = "save" => call.scope = "live" /\ call.cursor.at = high
  /\ call.op # "store" => call.batch = {}
  /\ \A x \in call.built : Settled(x.ver)

\* What a request to save claims is true already.
Pending ==
  call.op = "save" /\ call.cursor.val = validity =>
    /\ call.scope = "live" => call.cursor.at < next /\ Upto(call.cursor.at, {})
    /\ call.scope = "history" =>
         /\ cursor["live"].val = validity
         /\ Downto(call.cursor.at, call.cursor.complete, {})

\* The labels at which the live position is known to be of this validity.
Known == {"uids", "fetch", "stored?", "saved?", "begun?", "history?", "back", "backfetch",
          "backstored?", "backsaved?", "all?"}

\* What the engine holds in its variables.
Taken ==
  val = validity =>
    /\ pc = "newest" => cursor["history"].val # validity
    /\ pc = "first?" /\ call.op = "done" =>
         cursor["live"].val = validity /\ (high = 0 => cursor["live"].at = 0)
    /\ pc \in Known => cursor["live"].val = validity
    /\ pc \in {"uids", "fetch", "stored?"} => high < next
    /\ pc = "uids" => Upto(high, {})
    /\ pc = "fetch" =>
         /\ Upto(high, out)
         /\ \A l \in list : high < l /\ l < next
         /\ \A u \in Uids, l \in list : high < u /\ u <= l => u \in list
    /\ pc = "stored?" /\ call.op # "failed" => Upto(high, call.batch)
    /\ pc = "back" => Downto(high, FALSE, {})
    /\ pc = "backfetch" =>
         \A u \in Uids :
           u <= cursor["live"].at /\ Claims(high, ~more, u) => Settled(box[u]) \/ u \in list
    /\ pc = "backstored?" /\ call.op # "failed" => Downto(high, ~more, call.batch)

Stands == cursor["live"].val = validity => Upto(cursor["live"].at, {})

\* A record has its bytes, or awaits them in the batch being stored, or was left
\* without them; it alone was removed as junk.
Rows ==
  /\ call.op # "store" => call.row = {}
  /\ call.built # {} => call.row = {}
  /\ \A x \in call.row : x \in raws \/ x.ver \in gone
  /\ \A x \in raws : x \in call.row \/ x.ver \in files \cup bare \cup gone

IInv == MailTypeOK /\ Dated /\ Asked /\ Pending /\ Taken /\ Stands

-----------------------------------------------------------------------------
(* Chunks of a list of UIDs.                                               *)

\* A set of UIDs that is not empty has a least one: of the sets of what lies
\* below its members, one has none of the others within it.
LEMMA LeastExists ==
  ASSUME NEW S \in SUBSET Nat, IsFiniteSet(S), S # {}
  PROVE  \E x \in S : \A y \in S : x <= y
<1> DEFINE Below(x) == {w \in S : w < x}
           T == {Below(x) : x \in S}
<1>0. ASSUME NEW x \in S
      PROVE  Below(x) \in FiniteSubsetsOf(S)
  <2>1. Below(x) \in SUBSET S
    OBVIOUS
  <2>2. IsFiniteSet(Below(x))
    BY <2>1, FS_Subset
  <2> HIDE DEF Below
  <2>3. QED
    BY <2>1, <2>2 DEF FiniteSubsetsOf
<1>1. T \subseteq FiniteSubsetsOf(S) /\ T # {}
  <2> HIDE DEF Below
  <2> QED
    BY <1>0
<1>2. IsWellFoundedOn(StrictSubsetOrdering(S), FiniteSubsetsOf(S))
  BY FS_StrictSubsetOrderingWellFounded
<1>3. PICK b \in T : \A c \in T : ~ (<<c, b>> \in StrictSubsetOrdering(S))
  <2> HIDE DEF T
  <2> QED
    BY <1>1, <1>2, WFMin
<1>4. PICK x \in S : b = Below(x)
  OBVIOUS
<1>5. ASSUME NEW y \in S, y < x
      PROVE  FALSE
  <2>0. \A v \in S : v < y => v < x
    BY <1>5
  <2>1. Below(y) \subseteq Below(x) /\ Below(x) \subseteq S
    BY <2>0, Zenon
  <2>2. y \in Below(x) /\ y \notin Below(y)
    BY <1>5
  <2>3. Below(y) \in T
    OBVIOUS
  <2> HIDE DEF Below, T
  <2>4. <<Below(y), Below(x)>> \in StrictSubsetOrdering(S)
    BY <2>1, <2>2 DEF StrictSubsetOrdering
  <2>5. QED
    BY <1>3, <1>4, <2>3, <2>4
<1>6. QED
  BY <1>5

LEMMA GreatestExists ==
  ASSUME NEW S \in SUBSET Nat, IsFiniteSet(S), S # {}
  PROVE  \E x \in S : \A y \in S : x >= y
<1> DEFINE Above(x) == {w \in S : w > x}
           T == {Above(x) : x \in S}
<1>0. ASSUME NEW x \in S
      PROVE  Above(x) \in FiniteSubsetsOf(S)
  <2>1. Above(x) \in SUBSET S
    OBVIOUS
  <2>2. IsFiniteSet(Above(x))
    BY <2>1, FS_Subset
  <2> HIDE DEF Above
  <2>3. QED
    BY <2>1, <2>2 DEF FiniteSubsetsOf
<1>1. T \subseteq FiniteSubsetsOf(S) /\ T # {}
  <2> HIDE DEF Above
  <2> QED
    BY <1>0
<1>2. IsWellFoundedOn(StrictSubsetOrdering(S), FiniteSubsetsOf(S))
  BY FS_StrictSubsetOrderingWellFounded
<1>3. PICK b \in T : \A c \in T : ~ (<<c, b>> \in StrictSubsetOrdering(S))
  <2> HIDE DEF T
  <2> QED
    BY <1>1, <1>2, WFMin
<1>4. PICK x \in S : b = Above(x)
  OBVIOUS
<1>5. ASSUME NEW y \in S, y > x
      PROVE  FALSE
  <2>0. \A v \in S : v > y => v > x
    BY <1>5
  <2>1. Above(y) \subseteq Above(x) /\ Above(x) \subseteq S
    BY <2>0, Zenon
  <2>2. y \in Above(x) /\ y \notin Above(y)
    BY <1>5
  <2>3. Above(y) \in T
    OBVIOUS
  <2> HIDE DEF Above, T
  <2>4. <<Above(y), Above(x)>> \in StrictSubsetOrdering(S)
    BY <2>1, <2>2 DEF StrictSubsetOrdering
  <2>5. QED
    BY <1>3, <1>4, <2>3, <2>4
<1>6. QED
  BY <1>5

LEMMA MinIsLeast ==
  ASSUME NEW S \in SUBSET Nat, IsFiniteSet(S), S # {}
  PROVE  Min(S) \in S /\ \A y \in S : Min(S) <= y
BY LeastExists DEF Min

LEMMA MaxIsGreatest ==
  ASSUME NEW S \in SUBSET Nat, IsFiniteSet(S), S # {}
  PROVE  Max(S) \in S /\ \A y \in S : Max(S) >= y
BY GreatestExists DEF Max

\* The oldest chunk of a list is not empty, and whatever is older than one of it
\* is of it.
LEMMA LowestIsAStart ==
  ASSUME NEW S \in SUBSET Nat, IsFiniteSet(S), S # {}
  PROVE  /\ Lowest(S) \subseteq S /\ Lowest(S) # {} /\ IsFiniteSet(Lowest(S))
         /\ \A u \in S, w \in Lowest(S) : u <= w => u \in Lowest(S)
<1>1. Lowest(S) \subseteq S
  BY DEF Lowest
<1>2. Min(S) \in Lowest(S)
  <2>1. PICK m \in S : m = Min(S) /\ \A y \in S : m <= y
    BY MinIsLeast
  <2>2. \A v \in S : ~ (v < m)
    BY <2>1
  <2>3. {w \in S : w < m} = {}
    BY <2>2, Zenon
  <2>4. Cardinality({w \in S : w < m}) < Batch
    BY <2>3, FS_EmptySet, MailAssumption
  <2>5. QED
    BY <2>1, <2>4 DEF Lowest
<1>3. ASSUME NEW u \in S, NEW w \in Lowest(S), u <= w
      PROVE  u \in Lowest(S)
  <2> w \in S
    BY <1>1
  <2>0. \A v \in S : v < u => v < w
    BY <1>3
  <2>1. {v \in S : v < u} \subseteq {v \in S : v < w} /\ {v \in S : v < w} \subseteq S
    BY <2>0, Zenon
  <2>2. IsFiniteSet({v \in S : v < w})
    BY <2>1, FS_Subset
  <2>3. Cardinality({v \in S : v < u}) <= Cardinality({v \in S : v < w})
    BY <2>1, <2>2, FS_Subset
  <2>4. Cardinality({v \in S : v < u}) \in Nat /\ Cardinality({v \in S : v < w}) \in Nat
    BY <2>1, <2>2, FS_Subset, FS_CardinalityType
  <2>5. Cardinality({v \in S : v < w}) < Batch
    BY <1>3 DEF Lowest
  <2>6. QED
    BY <2>3, <2>4, <2>5, MailAssumption DEF Lowest
<1>4. QED
  BY <1>1, <1>2, <1>3, FS_Subset

\* The newest chunk is not empty, and whatever is newer than one of it is of it.
LEMMA HighestIsAnEnd ==
  ASSUME NEW S \in SUBSET Nat, IsFiniteSet(S), S # {}
  PROVE  /\ Highest(S) \subseteq S /\ Highest(S) # {} /\ IsFiniteSet(Highest(S))
         /\ \A u \in S, w \in Highest(S) : u >= w => u \in Highest(S)
<1>1. Highest(S) \subseteq S
  BY DEF Highest
<1>2. Max(S) \in Highest(S)
  <2>1. PICK m \in S : m = Max(S) /\ \A y \in S : m >= y
    BY MaxIsGreatest
  <2>2. \A v \in S : ~ (v > m)
    BY <2>1
  <2>3. {w \in S : w > m} = {}
    BY <2>2, Zenon
  <2>4. Cardinality({w \in S : w > m}) < Batch
    BY <2>3, FS_EmptySet, MailAssumption
  <2>5. QED
    BY <2>1, <2>4 DEF Highest
<1>3. ASSUME NEW u \in S, NEW w \in Highest(S), u >= w
      PROVE  u \in Highest(S)
  <2> w \in S
    BY <1>1
  <2>0. \A v \in S : v > u => v > w
    BY <1>3
  <2>1. {v \in S : v > u} \subseteq {v \in S : v > w} /\ {v \in S : v > w} \subseteq S
    BY <2>0, Zenon
  <2>2. IsFiniteSet({v \in S : v > w})
    BY <2>1, FS_Subset
  <2>3. Cardinality({v \in S : v > u}) <= Cardinality({v \in S : v > w})
    BY <2>1, <2>2, FS_Subset
  <2>4. Cardinality({v \in S : v > u}) \in Nat /\ Cardinality({v \in S : v > w}) \in Nat
    BY <2>1, <2>2, FS_Subset, FS_CardinalityType
  <2>5. Cardinality({v \in S : v > w}) < Batch
    BY <1>3 DEF Highest
  <2>6. QED
    BY <2>3, <2>4, <2>5, MailAssumption DEF Highest
<1>4. QED
  BY <1>1, <1>2, <1>3, FS_Subset

\* The UIDs of a folder are finitely many.
LEMMA FewUids == MailTypeOK => IsFiniteSet(Uids) /\ Uids \subseteq Nat
<1> SUFFICES ASSUME MailTypeOK PROVE IsFiniteSet(Uids) /\ Uids \subseteq Nat
  OBVIOUS
<1>1. Uids \subseteq 1 .. next - 1 /\ next \in Nat \ {0}
  BY DEF MailTypeOK, FolderTypes
<1>2. IsFiniteSet(1 .. next - 1)
  BY <1>1, FS_Interval
<1>3. IsFiniteSet(Uids)
  BY <1>1, <1>2, FS_Subset
<1>4. QED
  BY <1>1, <1>3
-----------------------------------------------------------------------------
(* What requests are.                                                      *)

LEMMA Requests ==
  /\ Idle \in Request /\ Idle.op = "none" /\ Idle.batch = {} /\ Idle.built = {} /\ Idle.row = {}
  /\ \A s \in Scopes :
       /\ Load(s) \in Request /\ Load(s).op = "load" /\ Load(s).scope = s
       /\ Load(s).batch = {} /\ Load(s).built = {} /\ Load(s).row = {}
  /\ \A s \in Scopes, c \in Cursor :
       /\ Save(s, c) \in Request /\ Save(s, c).op = "save" /\ Save(s, c).scope = s
       /\ Save(s, c).cursor = c /\ Save(s, c).batch = {} /\ Save(s, c).built = {} /\ Save(s, c).row = {}
  /\ \A b \in SUBSET Message :
       /\ Store(b) \in Request /\ Store(b).op = "store" /\ Store(b).batch = b
       /\ Store(b).built = {} /\ Store(b).row = {}
  /\ \A v \in {"done", "failed"} :
       /\ Answer(v) \in Request /\ Answer(v).op = v /\ Answer(v).batch = {}
       /\ Answer(v).built = {} /\ Answer(v).row = {}
<1>1. NoCursor \in Cursor
  BY DEF NoCursor, At, Cursor
<1>2. QED
  BY <1>1 DEF Idle, Load, Save, Store, Answer, Request, Scopes

LEMMA Shrinks ==
  ASSUME call \in Request, NEW x
  PROVE  /\ [call EXCEPT !.batch = call.batch \ {x}] \in Request
         /\ [call EXCEPT !.batch = call.batch \ {x}].op = call.op
         /\ [call EXCEPT !.batch = call.batch \ {x}].batch = call.batch \ {x}
         /\ [call EXCEPT !.batch = call.batch \ {x}].built = call.built
         /\ [call EXCEPT !.batch = call.batch \ {x}].row = call.row
         /\ [call EXCEPT !.batch = call.batch \ {x}, !.built = {}] \in Request
         /\ [call EXCEPT !.batch = call.batch \ {x}, !.built = {}].op = call.op
         /\ [call EXCEPT !.batch = call.batch \ {x}, !.built = {}].batch = call.batch \ {x}
         /\ [call EXCEPT !.batch = call.batch \ {x}, !.built = {}].built = {}
         /\ [call EXCEPT !.batch = call.batch \ {x}, !.built = {}].row = call.row
<1>1. call.batch \ {x} \in SUBSET Message
  BY DEF Request
<1>2. ASSUME NEW rest \in SUBSET Message
      PROVE  /\ [call EXCEPT !.batch = rest] \in Request
             /\ [call EXCEPT !.batch = rest].op = call.op
             /\ [call EXCEPT !.batch = rest].batch = rest
             /\ [call EXCEPT !.batch = rest].built = call.built
             /\ [call EXCEPT !.batch = rest].row = call.row
             /\ [call EXCEPT !.batch = rest, !.built = {}] \in Request
             /\ [call EXCEPT !.batch = rest, !.built = {}].op = call.op
             /\ [call EXCEPT !.batch = rest, !.built = {}].batch = rest
             /\ [call EXCEPT !.batch = rest, !.built = {}].built = {}
             /\ [call EXCEPT !.batch = rest, !.built = {}].row = call.row
  BY DEF Request
<1>3. QED
  BY <1>1, <1>2

LEMMA Positions ==
  ASSUME NEW v \in Nat, NEW at \in Nat, NEW complete \in BOOLEAN
  PROVE  /\ At(v, at, complete) \in Cursor
         /\ At(v, at, complete).val = v /\ At(v, at, complete).at = at
         /\ At(v, at, complete).complete = complete
BY DEF At, Cursor

\* Whatever is settled stays settled.
LEMMA SettledStays ==
  ASSUME gone \subseteq gone', bare \subseteq bare',
         \A x \in raws : x \in raws' \/ x.ver \in gone',
         \A m \in files : m \in files' \/ m \in gone'
  PROVE  \A m : Settled(m) => Settled(m)'
BY DEF Settled, Held

LEMMA Saves ==
  ASSUME NEW s \in Scopes, NEW v \in Nat, NEW at \in Nat, NEW complete \in BOOLEAN,
         call' = Save(s, At(v, at, complete))
  PROVE  /\ call' \in Request /\ call'.op = "save" /\ call'.scope = s
         /\ call'.batch = {} /\ call'.built = {} /\ call'.row = {}
         /\ call'.cursor.val = v /\ call'.cursor.at = at /\ call'.cursor.complete = complete
BY Requests, Positions

LEMMA InitHolds == MailInit => IInv
<1> SUFFICES ASSUME MailInit PROVE IInv
  OBVIOUS
<1>1. cursor = [s \in Scopes |-> NoCursor] /\ call = Idle /\ raws = {} /\ files = {} /\ items = {}
  BY DEF MailInit, IngestInit
<1>2. /\ validity = 1 /\ val = 0 /\ high = 0 /\ list = {} /\ out = {} /\ more = FALSE
      /\ pc = "off" /\ proc = "down" /\ token = FALSE
  BY DEF MailInit
<1>3. PICK n \in Present : box \in [1 .. n -> Mail] /\ next = n + 1
  BY DEF MailInit
<1>4. n \in Nat /\ next \in Nat \ {0} /\ box \in [Uids -> Mail] /\ Uids \subseteq 1 .. next - 1
  BY <1>3, MailAssumption DEF Uids
<1>5. \A s \in Scopes : cursor[s].val = 0
  BY <1>1 DEF NoCursor, At
<1>6. cursor \in [Scopes -> Cursor]
  BY <1>1 DEF NoCursor, At, Cursor
<1>7. MailTypeOK
  <2>1. StoreTypes
    BY <1>1, <1>6, Requests DEF StoreTypes
  <2>2. FolderTypes
    BY <1>2, <1>4 DEF FolderTypes
  <2>3. EngineTypes
    BY <1>2, FS_EmptySet DEF EngineTypes
  <2>4. Processes
    BY <1>1, <1>2 DEF Processes
  <2>5. QED
    BY <2>1, <2>2, <2>3, <2>4 DEF MailTypeOK
<1>8. QED
  BY <1>1, <1>2, <1>5, <1>7, Requests
  DEF IInv, Dated, Asked, Pending, Taken, Stands, Working, Known, Scopes

\* What is fetched of a folder that was not renumbered.
LEMMA FetchedIsKept ==
  ASSUME MailTypeOK, NEW S
  PROVE  /\ Fetched(S) \subseteq Message
         /\ \A u \in S \cap Uids : Settled(box[u]) \/ \E x \in Fetched(S) : x.ver = box[u]
<1>1. /\ Uids \subseteq Nat /\ val \in Nat
      /\ \A u \in Uids : box[u] \in Mail
  BY DEF MailTypeOK, FolderTypes, EngineTypes
<1>2. \A u \in Uids : ExternalId(box[u], val, u) \in Mail \cup (Nat \X Nat)
  BY <1>1 DEF ExternalId
<1>3. \A u \in Uids : [src |-> ExternalId(box[u], val, u), ver |-> box[u]] \in Message
  BY <1>1, <1>2 DEF Message
<1>4. \A u \in S \cap Uids : box[u] \notin Garbled =>
        [src |-> ExternalId(box[u], val, u), ver |-> box[u]] \in Fetched(S)
  BY DEF Fetched
<1>5. QED
  BY <1>3, <1>4 DEF Fetched, Settled, Held

-----------------------------------------------------------------------------
(* Steps of the engine and of its process.                                 *)

\* They leave what is stored and the server alone.
Still == UNCHANGED <<raws, files, bare, items, gone, cursor, box, validity, next>>

\* The engine begins anew.
Anew == val' = 0 /\ high' = 0 /\ list' = {} /\ out' = {} /\ more' = FALSE

SameProcess == proc' = proc /\ token' = token

\* A step that takes the engine to a label at which it knows and asks nothing.
LEMMA Anywhere ==
  ASSUME IInv, Still, EngineTypes', val' <= validity,
         pc' \in {"off", "connect", "folders", "wait", "stopped"},
         call' = call \/ call' = Idle,
         Processes'
  PROVE  IInv'
<1> USE DEF IInv, MailTypeOK, Still
<1>1. StoreTypes' /\ FolderTypes'
  BY Requests DEF StoreTypes, FolderTypes, Uids
<1>2. EngineTypes'
  OBVIOUS
<1>3. Dated'
  BY Requests DEF Dated, FolderTypes, Working
<1>4. Asked'
  BY Requests DEF Asked, Settled, Held
<1>5. Pending'
  BY Requests DEF Pending, Upto, Downto, Kept, Settled, Held, Uids
<1>6. Taken' /\ Stands'
  BY DEF Taken, Known, Stands, Upto, Kept, Settled, Held, Uids
<1>7. QED
  BY <1>1, <1>2, <1>3, <1>4, <1>5, <1>6

LEMMA AnewIsTyped == ASSUME Anew PROVE EngineTypes' /\ val' = 0
BY FS_EmptySet DEF Anew, EngineTypes

\* A step of the process that leaves the engine and the requests alone.
LEMMA ProcessOnly ==
  ASSUME IInv, Still, UNCHANGED <<call, pc, val, high, list, out, more>>, Processes'
  PROVE  IInv'
<1> USE DEF IInv, MailTypeOK, Still
<1>1. StoreTypes' /\ FolderTypes' /\ EngineTypes'
  BY DEF StoreTypes, FolderTypes, EngineTypes, Uids
<1>2. Dated'
  BY DEF Dated
<1>3. Asked'
  BY DEF Asked, Settled, Held
<1>4. Pending'
  BY DEF Pending, Upto, Downto, Kept, Settled, Held, Uids
<1>5. Taken' /\ Stands'
  <2>1. Uids' = Uids /\ \A m : Settled(m)' = Settled(m)
    BY DEF Uids, Settled, Held
  <2>2. /\ \A at, b : Upto(at, b)' = Upto(at, b)
        /\ \A at, c, b : Downto(at, c, b)' = Downto(at, c, b)
    BY <2>1 DEF Upto, Downto, Kept
  <2>3. Stands'
    BY <2>2 DEF Stands
  <2>4. Taken'
    BY <2>1, <2>2 DEF Taken
  <2>5. QED
    BY <2>3, <2>4
<1>6. QED
  BY <1>1, <1>2, <1>3, <1>4, <1>5

LEMMA ProcessKeeps ==
  IInv /\ (Start \/ StartFails \/ Stranger \/ Hello \/ Refused \/ Dies \/ Restart \/ NobodyListens
            \/ Fault \/ Failed) => IInv'
<1> SUFFICES ASSUME IInv,
                    Start \/ StartFails \/ Stranger \/ Hello \/ Refused \/ Dies \/ Restart
                      \/ NobodyListens \/ Fault \/ Failed
             PROVE  IInv'
  OBVIOUS
<1>0. Processes
  BY DEF IInv, MailTypeOK
<1>1. CASE Start \/ StartFails \/ Stranger
  <2>1. Still /\ UNCHANGED <<call, pc, val, high, list, out, more>>
    BY <1>1 DEF Start, StartFails, Stranger, Still, engineVars, serverVars, storeVars, junkVars, ingestVars, processVars
  <2>2. Processes'
    BY <1>0, <1>1 DEF Processes, Start, StartFails, Stranger, Waiting, engineVars, serverVars, storeVars, junkVars, ingestVars, processVars
  <2>3. QED
    BY <2>1, <2>2, ProcessOnly
<1>2. CASE Hello
  <2>1. /\ Still /\ Anew /\ pc' \in {"off", "connect", "folders", "stopped"}
        /\ call' = call \/ call' = Idle
    BY <1>2 DEF Hello, Engine, Forget, Still, Anew, engineVars, serverVars, storeVars, junkVars, ingestVars, processVars
  <2>2. Processes'
    BY <1>0, <1>2, Requests DEF Processes, Hello, Engine, Forget, Waiting, engineVars, serverVars, storeVars, junkVars, ingestVars, processVars
  <2>3. QED
    BY <2>1, <2>2, AnewIsTyped, Anywhere DEF IInv, MailTypeOK, FolderTypes
<1>3. CASE Refused
  <2>1. /\ Still /\ Anew /\ pc' \in {"off", "connect", "folders", "stopped"}
        /\ call' = call \/ call' = Idle
    BY <1>3 DEF Refused, Ended, Engine, Forget, Still, Anew, engineVars, serverVars, storeVars, junkVars, ingestVars, processVars
  <2>2. Processes'
    BY <1>0, <1>3, Requests DEF Processes, Refused, Ended, Engine, Forget, Waiting, engineVars, serverVars, storeVars, junkVars, ingestVars, processVars
  <2>3. QED
    BY <2>1, <2>2, AnewIsTyped, Anywhere DEF IInv, MailTypeOK, FolderTypes
<1>4. CASE Dies
  <2>1. /\ Still /\ Anew /\ pc' \in {"off", "connect", "folders", "stopped"}
        /\ call' = call \/ call' = Idle
    BY <1>4 DEF Dies, Ended, Engine, Forget, Still, Anew, engineVars, serverVars, storeVars, junkVars, ingestVars, processVars
  <2>2. Processes'
    BY <1>0, <1>4, Requests DEF Processes, Dies, Ended, Engine, Forget, Waiting, engineVars, serverVars, storeVars, junkVars, ingestVars, processVars
  <2>3. QED
    BY <2>1, <2>2, AnewIsTyped, Anywhere DEF IInv, MailTypeOK, FolderTypes
<1>5. CASE Restart
  <2>1. /\ Still /\ Anew /\ pc' \in {"off", "connect", "folders", "stopped"}
        /\ call' = call \/ call' = Idle
    BY <1>5 DEF Restart, Ended, Engine, Forget, Still, Anew, engineVars, serverVars, storeVars, junkVars, ingestVars, processVars
  <2>2. Processes'
    BY <1>0, <1>5, Requests DEF Processes, Restart, Ended, Engine, Forget, Waiting, engineVars, serverVars, storeVars, junkVars, ingestVars, processVars
  <2>3. QED
    BY <2>1, <2>2, AnewIsTyped, Anywhere DEF IInv, MailTypeOK, FolderTypes
<1>7. CASE Fault
  <2>1. /\ Still /\ Anew /\ pc' \in {"off", "connect", "folders", "stopped"}
        /\ call' = call \/ call' = Idle
    BY <1>7 DEF Fault, Retry, Engine, Forget, Still, Anew, engineVars, serverVars, storeVars, junkVars, ingestVars, processVars
  <2>2. Processes'
    BY <1>0, <1>7, Requests DEF Processes, Fault, Retry, Engine, Forget, Waiting, engineVars, serverVars, storeVars, junkVars, ingestVars, processVars
  <2>3. QED
    BY <2>1, <2>2, AnewIsTyped, Anywhere DEF IInv, MailTypeOK, FolderTypes
<1>8. CASE Failed
  <2>1. /\ Still /\ Anew /\ pc' \in {"off", "connect", "folders", "stopped"}
        /\ call' = call \/ call' = Idle
    BY <1>8 DEF Failed, Retry, Engine, Forget, Still, Anew, engineVars, serverVars, storeVars, junkVars, ingestVars, processVars
  <2>2. Processes'
    BY <1>0, <1>8, Requests DEF Processes, Failed, Retry, Engine, Forget, Waiting, engineVars, serverVars, storeVars, junkVars, ingestVars, processVars
  <2>3. QED
    BY <2>1, <2>2, AnewIsTyped, Anywhere DEF IInv, MailTypeOK, FolderTypes
<1>9. CASE NobodyListens
  <2>1. /\ Still /\ UNCHANGED <<pc, val, high, list, out, more, proc, token>>
        /\ call' = Idle /\ pc = "off"
    BY <1>0, <1>9 DEF NobodyListens, Still, Processes, engineVars, serverVars, storeVars, junkVars, ingestVars, processVars
  <2> USE DEF IInv, MailTypeOK, Still
  <2>2. StoreTypes' /\ FolderTypes' /\ EngineTypes'
    BY <2>1, Requests DEF StoreTypes, FolderTypes, EngineTypes, Uids
  <2>3. Processes'
    BY <1>0, <2>1 DEF Processes, Waiting
  <2>4. Dated' /\ Asked'
    BY <2>1, Requests DEF Dated, Asked, Working
  <2>5. Pending' /\ Taken'
    BY <2>1, Requests DEF Pending, Taken, Known
  <2>6. Stands'
    BY <2>1 DEF Stands, Upto, Kept, Settled, Held, Uids
  <2>7. QED
    BY <2>2, <2>3, <2>4, <2>5, <2>6
<1>10. QED
  BY <1>1, <1>2, <1>3, <1>4, <1>5, <1>7, <1>8, <1>9

\* Steps after which the engine knows nothing of the folder.
LEMMA RestKeeps == IInv /\ (Connect \/ GivesUp \/ AllLoaded \/ Wake) => IInv'
<1> SUFFICES ASSUME IInv, Connect \/ GivesUp \/ AllLoaded \/ Wake PROVE IInv'
  OBVIOUS
<1>0. Processes /\ EngineTypes /\ val <= validity /\ validity \in Nat
  BY DEF IInv, MailTypeOK, FolderTypes, Dated
<1>1. CASE Connect \/ GivesUp
  <2>1. /\ Still /\ UNCHANGED <<call, proc, token, val, high, list, out, more>>
        /\ pc = "connect" /\ pc' \in {"folders", "stopped"}
    BY <1>1 DEF Connect, GivesUp, Engine, Still, engineVars, serverVars, storeVars, junkVars, ingestVars, processVars
  <2>2. Processes' /\ EngineTypes'
    BY <1>0, <2>1 DEF Processes, Waiting, EngineTypes
  <2>3. QED
    BY <1>0, <2>1, <2>2, Anywhere DEF Still
<1>2. CASE AllLoaded \/ Wake
  <2>1. /\ Still /\ Anew /\ SameProcess /\ pc' \in {"folders", "wait"} /\ pc \in {"all?", "wait"}
        /\ (pc = "all?" /\ call' = Idle) \/ (pc = "wait" /\ call' = call)
    BY <1>2 DEF AllLoaded, Wake, Engine, Forget, Anew, SameProcess, Still, engineVars, serverVars, storeVars, junkVars, ingestVars, processVars
  <2>2. Processes'
    BY <1>0, <2>1 DEF Processes, Waiting, SameProcess
  <2>3. QED
    BY <1>0, <2>1, <2>2, AnewIsTyped, Anywhere
<1>3. QED
  BY <1>1, <1>2

\* The folder is listed.
LEMMA FoldersKeeps == IInv /\ Folders => IInv'
<1> SUFFICES ASSUME IInv, Folders PROVE IInv'
  OBVIOUS
<1> USE DEF IInv, MailTypeOK
<1>0. /\ Still /\ SameProcess /\ pc = "folders" /\ pc' = "live?" /\ val' = validity
      /\ UNCHANGED <<high, list, out, more>>
      /\ call' \in Request /\ call'.op = "load" /\ call'.scope = "live"
      /\ call'.batch = {} /\ call'.built = {} /\ call'.row = {}
  BY Requests DEF Folders, Scopes, Engine, Ask, Told, Still, SameProcess, engineVars, serverVars, storeVars, junkVars, ingestVars, processVars
<1>1. StoreTypes' /\ FolderTypes'
  BY <1>0, Requests DEF StoreTypes, FolderTypes, Uids, Still
<1>2. EngineTypes'
  BY <1>0 DEF EngineTypes, FolderTypes
<1>3. Processes'
  BY <1>0, Requests DEF Processes, Waiting, SameProcess
<1>4. Dated'
  BY <1>0, Requests DEF Dated, Working, FolderTypes, EngineTypes, Scopes, Still
<1>5. Asked'
  BY <1>0, Requests DEF Asked, Settled, Held, Still
<1>6. Pending'
  BY <1>0, Requests DEF Pending, Still
<1>7. Taken'
  BY <1>0, Requests DEF Taken, Known, Still
<1>8. Stands'
  BY <1>0 DEF Stands, Upto, Kept, Settled, Held, Uids, Still
<1>9. QED
  BY <1>1, <1>2, <1>3, <1>4, <1>5, <1>6, <1>7, <1>8

\* The live position stands, or the folder is new.
LEMMA LiveLoadedKeeps == IInv /\ LiveLoaded => IInv'
<1> SUFFICES ASSUME IInv, LiveLoaded PROVE IInv'
  OBVIOUS
<1> USE DEF IInv, MailTypeOK
<1>0. /\ Still /\ SameProcess /\ pc = "live?" /\ call.op = "done" /\ call' = Idle
      /\ \/ call.cursor.val = val /\ pc' = "uids" /\ high' = call.cursor.at
         \/ call.cursor.val # val /\ pc' = "newest" /\ high' = high
      /\ UNCHANGED <<val, list, out, more>>
  BY DEF LiveLoaded, Engine, Ask, Told, Still, SameProcess, engineVars, serverVars, storeVars, junkVars, ingestVars, processVars
<1>1. StoreTypes' /\ FolderTypes'
  BY <1>0, Requests DEF StoreTypes, FolderTypes, Uids, Still
<1>2. EngineTypes'
  BY <1>0 DEF EngineTypes, StoreTypes, Request, Cursor
<1>3. Processes'
  BY <1>0, Requests DEF Processes, Waiting, SameProcess
<1>4. Dated'
  BY <1>0, Requests DEF Dated, Working, Still
<1>5. Asked'
  BY <1>0, Requests DEF Asked, Settled, Held, Still
<1>6. Pending'
  BY <1>0, Requests DEF Pending, Still
<1>7. Taken'
  <2>1. call.cursor = cursor["live"]
    BY <1>0 DEF Asked
  <2>2. CASE call.cursor.val = val
    BY <1>0, <2>1, <2>2 DEF Taken, Known, Stands, Dated, Upto, Kept, Settled, Held, Uids, Still
  <2>3. CASE call.cursor.val # val
    BY <1>0, <2>1, <2>3 DEF Taken, Known, Dated, Still
  <2>4. QED
    BY <2>2, <2>3
<1>8. Stands'
  BY <1>0 DEF Stands, Upto, Kept, Settled, Held, Uids, Still
<1>9. QED
  BY <1>1, <1>2, <1>3, <1>4, <1>5, <1>6, <1>7, <1>8

\* On first sight of a folder the live position is its newest UID.
LEMMA NewestKeeps == IInv /\ Newest => IInv'
<1> SUFFICES ASSUME IInv, Newest PROVE IInv'
  OBVIOUS
<1> USE DEF IInv, MailTypeOK
<1>0. /\ Still /\ SameProcess /\ pc = "newest" /\ pc' = "first?"
        /\ UNCHANGED <<val, list, out, more>>
        /\ high' \in Nat /\ high' < next
        /\ call' \in Request /\ call'.op = "save" /\ call'.scope = "live"
        /\ call'.batch = {} /\ call'.built = {} /\ call'.row = {}
        /\ call'.cursor.val = val /\ call'.cursor.at = high' /\ call'.cursor.complete = FALSE
  <2>1. high' \in Nat /\ high' < next
    <3>1. CASE Uids = {}
      BY <3>1 DEF Newest, FolderTypes
    <3>2. CASE Uids # {}
      <4>1. PICK m \in Uids : m = Max(Uids)
        BY <3>2, FewUids, MaxIsGreatest
      <4>2. high' = m
        BY <3>2, <4>1 DEF Newest
      <4>3. QED
        BY <4>1, <4>2 DEF FolderTypes
    <3>3. QED
      BY <3>1, <3>2
  <2>2. val \in Nat
    BY DEF EngineTypes
  <2>3. call' = Save("live", At(val, high', FALSE))
    BY DEF Newest, Ask
  <2>4. /\ call' \in Request /\ call'.op = "save" /\ call'.scope = "live"
        /\ call'.batch = {} /\ call'.built = {} /\ call'.row = {}
        /\ call'.cursor.val = val /\ call'.cursor.at = high' /\ call'.cursor.complete = FALSE
    BY <2>1, <2>2, <2>3, Saves DEF Scopes
  <2>5. QED
    BY <2>1, <2>4 DEF Newest, Engine, Ask, Told, Still, SameProcess, engineVars, serverVars, storeVars, junkVars, ingestVars, processVars
<1>1. StoreTypes' /\ FolderTypes'
  BY <1>0, Requests DEF StoreTypes, FolderTypes, Uids, Still
<1>2. EngineTypes'
  BY <1>0, FS_EmptySet DEF EngineTypes, StoreTypes
<1>3. Processes'
  BY <1>0, Requests DEF Processes, Waiting, SameProcess
<1>4. Dated'
  BY <1>0, Requests DEF Dated, Working, FolderTypes, EngineTypes, Scopes, Still
<1>5. Asked'
  BY <1>0, Requests DEF Asked, Settled, Held, Still
<1>6. Pending'
  BY <1>0 DEF Pending, Taken, Upto, Still
<1>7. Taken'
  BY <1>0, Requests DEF Taken, Known, Still
<1>8. Stands'
  BY <1>0 DEF Stands, Upto, Kept, Settled, Held, Uids, Still
<1>9. QED
  BY <1>1, <1>2, <1>3, <1>4, <1>5, <1>6, <1>7, <1>8

\* There is no history behind an empty folder, and none is claimed otherwise.
LEMMA LiveBegunKeeps == IInv /\ LiveBegun => IInv'
<1> SUFFICES ASSUME IInv, LiveBegun PROVE IInv'
  OBVIOUS
<1> USE DEF IInv, MailTypeOK
<1>0. /\ Still /\ SameProcess /\ pc = "first?" /\ call.op = "done" /\ pc' = "begun?"
        /\ UNCHANGED <<val, high, list, out, more>>
        /\ call' \in Request /\ call'.op = "save" /\ call'.scope = "history"
        /\ call'.batch = {} /\ call'.built = {} /\ call'.row = {}
        /\ call'.cursor.val = val /\ call'.cursor.at = 0 /\ call'.cursor.complete = (high = 0)
  <2>1. val \in Nat /\ 0 \in Nat /\ (high = 0) \in BOOLEAN
    BY DEF EngineTypes
  <2>2. call' = Save("history", At(val, 0, (high = 0)))
    BY DEF LiveBegun, Ask
  <2>3. /\ call' \in Request /\ call'.op = "save" /\ call'.scope = "history"
        /\ call'.batch = {} /\ call'.built = {} /\ call'.row = {}
        /\ call'.cursor.val = val /\ call'.cursor.at = 0 /\ call'.cursor.complete = (high = 0)
    BY <2>1, <2>2, Saves DEF Scopes
  <2>4. QED
    BY <2>1, <2>3 DEF LiveBegun, Engine, Ask, Told, Still, SameProcess, engineVars, serverVars, storeVars, junkVars, ingestVars, processVars
<1>1. StoreTypes' /\ FolderTypes'
  BY <1>0, Requests DEF StoreTypes, FolderTypes, Uids, Still
<1>2. EngineTypes'
  BY <1>0, FS_EmptySet DEF EngineTypes, StoreTypes
<1>3. Processes'
  BY <1>0, Requests DEF Processes, Waiting, SameProcess
<1>4. Dated'
  BY <1>0, Requests DEF Dated, Working, FolderTypes, EngineTypes, Scopes, Still
<1>5. Asked'
  BY <1>0, Requests DEF Asked, Settled, Held, Still
<1>6. Pending'
  <2>1. call'.cursor.complete => high = 0
    BY <1>0
  <2>2. \A u \in Uids : u \in Nat /\ ~ (u <= 0)
    BY DEF FolderTypes
  <2>3. val = validity => cursor["live"].val = validity /\ (high = 0 => cursor["live"].at = 0)
    BY <1>0 DEF Taken
  <2>4. val = validity => Downto(0, call'.cursor.complete, {})
    BY <2>1, <2>2, <2>3 DEF Downto, Claims
  <2>5. Downto(0, call'.cursor.complete, {}) => Downto(call.cursor.at, call.cursor.complete, {})'
    BY <1>0 DEF Downto, Claims, Kept, Settled, Held, Uids, Still
  <2>6. QED
    BY <1>0, <2>3, <2>4, <2>5 DEF Pending, Still
<1>7. Taken'
  BY <1>0, Requests DEF Taken, Known, Still
<1>8. Stands'
  BY <1>0 DEF Stands, Upto, Kept, Settled, Held, Uids, Still
<1>9. QED
  BY <1>1, <1>2, <1>3, <1>4, <1>5, <1>6, <1>7, <1>8

\* Whatever is above the live position is listed.
LEMMA ListNewKeeps == IInv /\ ListNew => IInv'
<1> SUFFICES ASSUME IInv, ListNew PROVE IInv'
  OBVIOUS
<1> USE DEF IInv, MailTypeOK
<1>0. /\ Still /\ SameProcess /\ pc = "uids" /\ pc' = "fetch" /\ call = Idle /\ call' = Idle
      /\ list' = {u \in Uids : u > high}
      /\ UNCHANGED <<val, high, out, more>>
  BY DEF ListNew, Processes, Waiting, Engine, Ask, Told, Still, SameProcess, engineVars, serverVars, storeVars, junkVars, ingestVars, processVars
<1>1. StoreTypes' /\ FolderTypes'
  BY <1>0, Requests DEF StoreTypes, FolderTypes, Uids, Still
<1>2. EngineTypes'
  <2>1. list' \subseteq Nat /\ IsFiniteSet(list')
    BY <1>0, FewUids, FS_Subset
  <2>2. QED
    BY <1>0, <2>1 DEF EngineTypes
<1>3. Processes'
  BY <1>0, Requests DEF Processes, Waiting, SameProcess
<1>4. Dated'
  BY <1>0, Requests DEF Dated, Working, FolderTypes, EngineTypes, Scopes, Still
<1>5. Asked'
  BY <1>0, Requests DEF Asked, Settled, Held, Still
<1>6. Pending'
  BY <1>0, Requests DEF Pending, Still
<1>7. Taken'
  <2>1. \A l \in list' : l \in Uids /\ high < l /\ l < next
    BY <1>0 DEF FolderTypes, EngineTypes
  <2>2. \A u \in Uids : high < u => u \in list'
    BY <1>0 DEF FolderTypes, EngineTypes
  <2>3. val = validity => Upto(high, {})
    BY <1>0 DEF Taken
  <2>4. val = validity => Upto(high, out)'
    BY <1>0, <2>3 DEF Upto, Kept, Settled, Held, Uids, Still
  <2>5. QED
    BY <1>0, <2>1, <2>2, <2>4 DEF Taken, Known, Uids, Still
<1>8. Stands'
  BY <1>0 DEF Stands, Upto, Kept, Settled, Held, Uids, Still
<1>9. QED
  BY <1>1, <1>2, <1>3, <1>4, <1>5, <1>6, <1>7, <1>8

\* A chunk is fetched: with what was there before it is all up to its newest.
LEMMA FetchNewKeeps == IInv /\ FetchNew => IInv'
<1> SUFFICES ASSUME IInv, FetchNew PROVE IInv'
  OBVIOUS
<1> USE DEF IInv, MailTypeOK
<1>0. /\ Still /\ SameProcess /\ pc = "fetch" /\ call = Idle
        /\ UNCHANGED <<val, more>>
        /\ \/ /\ list = {} /\ pc' = "stored?" /\ UNCHANGED <<high, list, out>>
              /\ call' \in Request /\ call'.op = "store" /\ call'.batch = out /\ call'.built = {} /\ call'.row = {}
           \/ /\ list # {} /\ pc' = "fetch" /\ call' = Idle
              /\ out' = out \cup Fetched(Lowest(list))
              /\ high' = Max(Lowest(list)) /\ list' = list \ Lowest(list)
  BY Requests DEF FetchNew, EngineTypes, Processes, Waiting, Engine, Ask, Told, Still, SameProcess, engineVars, serverVars, storeVars, junkVars, ingestVars, processVars
<1>a. list \in SUBSET Nat /\ IsFiniteSet(list)
  BY DEF EngineTypes
<1>b. list # {} =>
        /\ Lowest(list) \subseteq list /\ Lowest(list) # {}
        /\ \A u \in list, w \in Lowest(list) : u <= w => u \in Lowest(list)
        /\ Max(Lowest(list)) \in Lowest(list)
        /\ \A w \in Lowest(list) : w <= Max(Lowest(list))
        /\ Max(Lowest(list)) \in Nat
        /\ list \ Lowest(list) \subseteq Nat /\ IsFiniteSet(list \ Lowest(list))
        /\ Fetched(Lowest(list)) \subseteq Message
  <2> SUFFICES ASSUME list # {}
               PROVE  /\ Lowest(list) \subseteq list /\ Lowest(list) # {}
                      /\ \A u \in list, w \in Lowest(list) : u <= w => u \in Lowest(list)
                      /\ Max(Lowest(list)) \in Lowest(list)
                      /\ \A w \in Lowest(list) : w <= Max(Lowest(list))
                      /\ Max(Lowest(list)) \in Nat
                      /\ list \ Lowest(list) \subseteq Nat /\ IsFiniteSet(list \ Lowest(list))
                      /\ Fetched(Lowest(list)) \subseteq Message
    OBVIOUS
  <2>1. /\ Lowest(list) \subseteq list /\ Lowest(list) # {} /\ IsFiniteSet(Lowest(list))
        /\ \A u \in list, w \in Lowest(list) : u <= w => u \in Lowest(list)
    BY <1>a, LowestIsAStart
  <2>2. Lowest(list) \in SUBSET Nat
    BY <1>a, <2>1
  <2>3. PICK m \in Lowest(list) : m = Max(Lowest(list)) /\ \A w \in Lowest(list) : m >= w
    BY <2>1, <2>2, MaxIsGreatest
  <2>4. \A w \in Lowest(list) : w <= m
    BY <2>2, <2>3
  <2>5. IsFiniteSet(list \ Lowest(list))
    BY <1>a, FS_Subset
  <2>6. QED
    BY <1>a, <2>1, <2>2, <2>3, <2>4, <2>5, FetchedIsKept
<1>1. StoreTypes' /\ FolderTypes'
  BY <1>0, Requests DEF StoreTypes, FolderTypes, Uids, Still
<1>2. EngineTypes'
  BY <1>0, <1>b DEF EngineTypes
<1>3. Processes'
  BY <1>0, Requests DEF Processes, Waiting, SameProcess
<1>4. Dated'
  BY <1>0, Requests DEF Dated, Working, FolderTypes, EngineTypes, Scopes, Still
<1>5. Asked'
  BY <1>0, Requests DEF Asked, Settled, Held, Still
<1>6. Pending'
  BY <1>0, Requests DEF Pending
<1>7. Taken'
  <2>1. CASE list = {}
    <3>1. val = validity => Upto(high, out) /\ cursor["live"].val = validity /\ high < next
      BY <1>0 DEF Taken, Known
    <3>2. Upto(high, out) => Upto(high, call.batch)'
      BY <1>0, <2>1 DEF Upto, Kept, Settled, Held, Uids, Still
    <3>3. QED
      BY <1>0, <2>1, <3>1, <3>2 DEF Taken, Known, Still
  <2>2. CASE list # {}
    <3> SUFFICES ASSUME val = validity PROVE Taken'
      BY <1>0 DEF Taken, Still
    <3>1. /\ Upto(high, out) /\ cursor["live"].val = validity
          /\ \A l \in list : high < l /\ l < next
          /\ \A u \in Uids, l \in list : high < u /\ u <= l => u \in list
      BY <1>0 DEF Taken, Known
    <3>2. PICK m \in Lowest(list) : m = high' /\ \A w \in Lowest(list) : w <= m
      BY <1>0, <1>b, <2>2
    <3>3. m \in list /\ m \in Nat /\ high \in Nat /\ list \subseteq Nat /\ Uids \subseteq Nat
      BY <1>b, <2>2, FewUids DEF EngineTypes
    <3>4. \A u \in Uids : u <= m => u <= high \/ u \in Lowest(list)
      <4> TAKE u \in Uids
      <4>1. u <= m /\ ~ (u <= high) => u \in list
        BY <3>1, <3>3
      <4>2. QED
        BY <4>1, <1>b, <2>2
    <3>5. Upto(m, out')
      <4>1. \A u \in Uids \cap Lowest(list) : Kept(u, Fetched(Lowest(list)))
        BY FetchedIsKept DEF Kept
      <4>2. \A u : Kept(u, out) \/ Kept(u, Fetched(Lowest(list))) => Kept(u, out')
        BY <1>0, <2>2 DEF Kept
      <4>3. QED
        BY <3>1, <3>4, <4>1, <4>2 DEF Upto
    <3>6. \A l \in list' : l \in list /\ m < l
      <4> TAKE l \in list'
      <4>1. l \in list /\ l \notin Lowest(list)
        BY <1>0, <2>2
      <4>2. ~ (l <= m)
        BY <1>b, <2>2, <4>1
      <4>3. QED
        BY <3>3, <4>1, <4>2
    <3>7. \A u \in Uids, l \in list' : m < u /\ u <= l => u \in list'
      <4> TAKE u \in Uids, l \in list'
      <4>1. m < u => u \notin Lowest(list)
        BY <3>2, <3>3
      <4>2. m < u => high < u
        BY <3>1, <3>3
      <4>3. QED
        BY <1>0, <2>2, <3>1, <3>6, <4>1, <4>2
    <3>8. Upto(m, out') => Upto(high, out)'
      BY <1>0, <3>2 DEF Upto, Kept, Settled, Held, Uids, Still
    <3>9. QED
      BY <1>0, <2>2, <3>1, <3>2, <3>3, <3>5, <3>6, <3>7, <3>8 DEF Taken, Known, Uids, Still
  <2>3. QED
    BY <2>1, <2>2
<1>8. Stands'
  BY <1>0 DEF Stands, Upto, Kept, Settled, Held, Uids, Still
<1>9. QED
  BY <1>1, <1>2, <1>3, <1>4, <1>5, <1>6, <1>7, <1>8

\* The batch is stored, so the position that covers it may be saved.
LEMMA StoredNewKeeps == IInv /\ StoredNew => IInv'
<1> SUFFICES ASSUME IInv, StoredNew PROVE IInv'
  OBVIOUS
<1> USE DEF IInv, MailTypeOK
<1>0. /\ Still /\ SameProcess /\ pc = "stored?" /\ call.op = "done" /\ pc' = "saved?"
        /\ UNCHANGED <<val, high, list, more>>
        /\ out' = {}
        /\ call' \in Request /\ call'.op = "save" /\ call'.scope = "live"
        /\ call'.batch = {} /\ call'.built = {} /\ call'.row = {}
        /\ call'.cursor.val = val /\ call'.cursor.at = high /\ call'.cursor.complete = FALSE
  <2>1. val \in Nat /\ high \in Nat /\ FALSE \in BOOLEAN
    BY DEF EngineTypes
  <2>2. call' = Save("live", At(val, high, FALSE))
    BY DEF StoredNew, Ask
  <2>3. /\ call' \in Request /\ call'.op = "save" /\ call'.scope = "live"
        /\ call'.batch = {} /\ call'.built = {} /\ call'.row = {}
        /\ call'.cursor.val = val /\ call'.cursor.at = high /\ call'.cursor.complete = FALSE
    BY <2>1, <2>2, Saves DEF Scopes
  <2>4. QED
    BY <2>1, <2>3 DEF StoredNew, Engine, Ask, Told, Still, SameProcess, engineVars, serverVars, storeVars, junkVars, ingestVars, processVars
<1>1. StoreTypes' /\ FolderTypes'
  BY <1>0, Requests DEF StoreTypes, FolderTypes, Uids, Still
<1>2. EngineTypes'
  BY <1>0, FS_EmptySet DEF EngineTypes, StoreTypes
<1>3. Processes'
  BY <1>0, Requests DEF Processes, Waiting, SameProcess
<1>4. Dated'
  BY <1>0, Requests DEF Dated, Working, FolderTypes, EngineTypes, Scopes, Still
<1>5. Asked'
  BY <1>0, Requests DEF Asked, Settled, Held, Still
<1>6. Pending'
  <2>1. call.batch = {}
    BY <1>0 DEF Asked
  <2>2. val = validity => Upto(high, {}) /\ high < next
    BY <1>0, <2>1 DEF Taken
  <2>3. Upto(high, {}) => Upto(call.cursor.at, {})'
    BY <1>0 DEF Upto, Kept, Settled, Held, Uids, Still
  <2>4. QED
    BY <1>0, <2>2, <2>3 DEF Pending, Still
<1>7. Taken'
  BY <1>0, Requests DEF Taken, Known, Still
<1>8. Stands'
  BY <1>0 DEF Stands, Upto, Kept, Settled, Held, Uids, Still
<1>9. QED
  BY <1>1, <1>2, <1>3, <1>4, <1>5, <1>6, <1>7, <1>8

\* The live position is saved; the history one is asked for.
LEMMA CaughtUpKeeps == IInv /\ CaughtUp => IInv'
<1> SUFFICES ASSUME IInv, CaughtUp PROVE IInv'
  OBVIOUS
<1> USE DEF IInv, MailTypeOK
<1>0. /\ Still /\ SameProcess /\ call.op = "done" /\ pc' = "history?"
      /\ pc = "begun?" \/ pc = "saved?"
      /\ UNCHANGED <<val, list, out, more>> /\ high' = 0
      /\ call' \in Request /\ call'.op = "load" /\ call'.scope = "history"
      /\ call'.batch = {} /\ call'.built = {} /\ call'.row = {}
  BY Requests DEF CaughtUp, Scopes, Engine, Ask, Told, Still, SameProcess, engineVars, serverVars, storeVars, junkVars, ingestVars, processVars
<1>1. StoreTypes' /\ FolderTypes'
  BY <1>0, Requests DEF StoreTypes, FolderTypes, Uids, Still
<1>2. EngineTypes'
  BY <1>0 DEF EngineTypes
<1>3. Processes'
  BY <1>0, Requests DEF Processes, Waiting, SameProcess
<1>4. Dated'
  BY <1>0, Requests DEF Dated, Working, FolderTypes, EngineTypes, Scopes, Still
<1>5. Asked'
  BY <1>0, Requests DEF Asked, Settled, Held, Still
<1>6. Pending'
  BY <1>0, Requests DEF Pending, Still
<1>7. Taken'
  BY <1>0, Requests DEF Taken, Known, Still
<1>8. Stands'
  BY <1>0 DEF Stands, Upto, Kept, Settled, Held, Uids, Still
<1>9. QED
  BY <1>1, <1>2, <1>3, <1>4, <1>5, <1>6, <1>7, <1>8

\* Another look at the history position.
LEMMA SavedBackKeeps == IInv /\ SavedBack => IInv'
<1> SUFFICES ASSUME IInv, SavedBack PROVE IInv'
  OBVIOUS
<1> USE DEF IInv, MailTypeOK
<1>0. /\ Still /\ SameProcess /\ call.op = "done" /\ pc' = "all?" /\ pc = "backsaved?"
      /\ UNCHANGED <<val, high, list, out, more>>
      /\ call' \in Request /\ call'.op = "load" /\ call'.scope = "history"
      /\ call'.batch = {} /\ call'.built = {} /\ call'.row = {}
  BY Requests DEF SavedBack, Scopes, Engine, Ask, Told, Still, SameProcess, engineVars, serverVars, storeVars, junkVars, ingestVars, processVars
<1>1. StoreTypes' /\ FolderTypes'
  BY <1>0, Requests DEF StoreTypes, FolderTypes, Uids, Still
<1>2. EngineTypes'
  BY <1>0 DEF EngineTypes
<1>3. Processes'
  BY <1>0, Requests DEF Processes, Waiting, SameProcess
<1>4. Dated'
  BY <1>0, Requests DEF Dated, Working, FolderTypes, EngineTypes, Scopes, Still
<1>5. Asked'
  BY <1>0, Requests DEF Asked, Settled, Held, Still
<1>6. Pending'
  BY <1>0, Requests DEF Pending, Still
<1>7. Taken'
  BY <1>0, Requests DEF Taken, Known, Still
<1>8. Stands'
  BY <1>0 DEF Stands, Upto, Kept, Settled, Held, Uids, Still
<1>9. QED
  BY <1>1, <1>2, <1>3, <1>4, <1>5, <1>6, <1>7, <1>8

\* A history position found under the folder's validity claims only what is held.
LEMMA HistoryLoadedKeeps == IInv /\ HistoryLoaded => IInv'
<1> SUFFICES ASSUME IInv, HistoryLoaded PROVE IInv'
  OBVIOUS
<1> USE DEF IInv, MailTypeOK
<1>0. /\ Still /\ SameProcess /\ pc = "history?" /\ call.op = "done" /\ call' = Idle
      /\ UNCHANGED <<val, list, out, more>>
      /\ \/ pc' = "wait" /\ high' = high
         \/ /\ pc' = "back" /\ high' \in Nat
            /\ high' = 0 \/ (call.cursor.val = val /\ high' = call.cursor.at)
  <2>1. call.cursor.at \in Nat
    BY DEF StoreTypes, Request, Cursor
  <2>2. Reached(call.cursor).at = 0 \/ (call.cursor.val = val /\ Reached(call.cursor).at = call.cursor.at)
    BY DEF Reached, At
  <2>3. QED
    BY <2>1, <2>2 DEF HistoryLoaded, Engine, Ask, Told, Still, SameProcess, engineVars, serverVars, storeVars, junkVars, ingestVars, processVars
<1>1. StoreTypes' /\ FolderTypes'
  BY <1>0, Requests DEF StoreTypes, FolderTypes, Uids, Still
<1>2. EngineTypes'
  BY <1>0 DEF EngineTypes
<1>3. Processes'
  BY <1>0, Requests DEF Processes, Waiting, SameProcess
<1>4. Dated'
  BY <1>0, Requests DEF Dated, Working, FolderTypes, EngineTypes, Scopes, Still
<1>5. Asked'
  BY <1>0, Requests DEF Asked, Settled, Held, Still
<1>6. Pending'
  BY <1>0, Requests DEF Pending, Still
<1>7. Taken'
  <2>1. call.cursor = cursor["history"]
    BY <1>0 DEF Asked
  <2>2. val = validity => cursor["live"].val = validity
    BY <1>0 DEF Taken, Known
  <2>3. val = validity /\ pc' = "back" => Downto(high', FALSE, {})
    <3> SUFFICES ASSUME val = validity, pc' = "back", NEW u \in Uids,
                        u <= cursor["live"].at, high' # 0, u >= high'
                 PROVE  Kept(u, {})
      BY DEF Downto, Claims
    <3>1. cursor["history"].val = validity /\ u >= cursor["history"].at /\ cursor["history"].at # 0
      BY <1>0, <2>1
    <3>2. QED
      BY <2>2, <3>1 DEF Stands, Upto, Claims
  <2>4. Downto(high', FALSE, {}) => Downto(high, FALSE, {})'
    BY <1>0 DEF Downto, Claims, Kept, Settled, Held, Uids, Still
  <2>5. QED
    BY <1>0, <2>2, <2>3, <2>4 DEF Taken, Known, Still
<1>8. Stands'
  BY <1>0 DEF Stands, Upto, Kept, Settled, Held, Uids, Still
<1>9. QED
  BY <1>1, <1>2, <1>3, <1>4, <1>5, <1>6, <1>7, <1>8

\* With the newest chunk of what lies behind there is all down to its oldest.
LEMMA ListBackKeeps == IInv /\ ListBack => IInv'
<1> SUFFICES ASSUME IInv, ListBack PROVE IInv'
  OBVIOUS
<1> USE DEF IInv, MailTypeOK
<1> DEFINE Older == {u \in Uids : high = 0 \/ u < high}
<1>0. /\ Still /\ SameProcess /\ pc = "back" /\ pc' = "backfetch" /\ call = Idle /\ call' = Idle
      /\ UNCHANGED <<val, out>>
      /\ list' = Highest(Older) /\ more' = (Older # Highest(Older))
      /\ high' = IF Older = {} THEN high ELSE Min(Highest(Older))
  BY DEF ListBack, Processes, Waiting, Engine, Ask, Told, Still, SameProcess, engineVars, serverVars, storeVars, junkVars, ingestVars, processVars
<1>a. Older \in SUBSET Nat /\ IsFiniteSet(Older)
  BY FewUids, FS_Subset
<1> HIDE DEF Older
<1>b. Older # {} =>
        /\ Highest(Older) \subseteq Older
        /\ \A u \in Older, w \in Highest(Older) : u >= w => u \in Highest(Older)
        /\ Min(Highest(Older)) \in Highest(Older) /\ Min(Highest(Older)) \in Nat
  <2> SUFFICES ASSUME Older # {}
               PROVE  /\ Highest(Older) \subseteq Older
                      /\ \A u \in Older, w \in Highest(Older) : u >= w => u \in Highest(Older)
                      /\ Min(Highest(Older)) \in Highest(Older) /\ Min(Highest(Older)) \in Nat
    OBVIOUS
  <2>1. /\ Highest(Older) \subseteq Older /\ Highest(Older) # {} /\ IsFiniteSet(Highest(Older))
        /\ \A u \in Older, w \in Highest(Older) : u >= w => u \in Highest(Older)
    BY <1>a, HighestIsAnEnd
  <2>2. Highest(Older) \in SUBSET Nat
    BY <1>a, <2>1
  <2>3. Min(Highest(Older)) \in Highest(Older)
    BY <2>1, <2>2, MinIsLeast
  <2>4. QED
    BY <2>1, <2>2, <2>3
<1>c. Highest(Older) \subseteq Nat /\ IsFiniteSet(Highest(Older)) /\ high \in Nat
  <2>1. Highest(Older) \subseteq Older
    BY DEF Highest
  <2>2. QED
    BY <1>a, <2>1, FS_Subset DEF EngineTypes
<1> USE DEF Older
<1>1. StoreTypes' /\ FolderTypes'
  BY <1>0, Requests DEF StoreTypes, FolderTypes, Uids, Still
<1>2. EngineTypes'
  BY <1>0, <1>b, <1>c DEF EngineTypes
<1>3. Processes'
  BY <1>0, Requests DEF Processes, Waiting, SameProcess
<1>4. Dated'
  BY <1>0, Requests DEF Dated, Working, Still
<1>5. Asked'
  BY <1>0, Requests DEF Asked, Settled, Held, Still
<1>6. Pending'
  BY <1>0, Requests DEF Pending, Still
<1>7. Taken'
  <2> SUFFICES ASSUME val = validity PROVE Taken'
    BY <1>0 DEF Taken, Still
  <2>1. cursor["live"].val = validity /\ Downto(high, FALSE, {})
    BY <1>0 DEF Taken, Known
  <2>2. ASSUME NEW u \in Uids, u <= cursor["live"].at, Claims(high', ~more', u)
        PROVE  Settled(box[u]) \/ u \in list'
    <3>1. u \in Older \/ (high # 0 /\ u >= high)
      BY FewUids DEF EngineTypes
    <3>2. CASE u \notin Older
      <4>1. Claims(high, FALSE, u)
        BY <3>1, <3>2 DEF Claims
      <4>2. QED
        BY <2>1, <2>2, <4>1 DEF Downto, Kept
    <3>3. CASE u \in Older
      <4> HIDE DEF Older
      <4>1. CASE Older = Highest(Older)
        BY <1>0, <3>3, <4>1
      <4>2. CASE Older # Highest(Older)
        <5>1. Claims(high', FALSE, u)
          BY <1>0, <2>2, <4>2 DEF Claims
        <5>2. u >= Min(Highest(Older)) /\ Min(Highest(Older)) \in Highest(Older)
          BY <1>0, <1>b, <3>3, <5>1 DEF Claims
        <5>3. QED
          BY <1>0, <1>b, <3>3, <5>2
      <4>3. QED
        BY <4>1, <4>2
    <3>4. QED
      BY <3>2, <3>3
  <2> HIDE DEF Older
  <2>3. QED
    BY <1>0, <2>1, <2>2 DEF Taken, Known, Settled, Held, Uids, Claims, Still
<1>8. Stands'
  BY <1>0 DEF Stands, Upto, Kept, Settled, Held, Uids, Still
<1>9. QED
  BY <1>1, <1>2, <1>3, <1>4, <1>5, <1>6, <1>7, <1>8

\* What is listed is fetched.
LEMMA FetchBackKeeps == IInv /\ FetchBack => IInv'
<1> SUFFICES ASSUME IInv, FetchBack PROVE IInv'
  OBVIOUS
<1> USE DEF IInv, MailTypeOK
<1>0. /\ Still /\ SameProcess /\ pc = "backfetch" /\ pc' = "backstored?" /\ call = Idle
      /\ UNCHANGED <<val, high, more>>
      /\ out' = Fetched(list) /\ list' = {}
      /\ call' \in Request /\ call'.op = "store" /\ call'.batch = Fetched(list) /\ call'.built = {} /\ call'.row = {}
  BY FetchedIsKept, Requests DEF FetchBack, Processes, Waiting, Engine, Ask, Told, Still, SameProcess, engineVars, serverVars, storeVars, junkVars, ingestVars, processVars
<1>1. StoreTypes' /\ FolderTypes'
  BY <1>0, Requests DEF StoreTypes, FolderTypes, Uids, Still
<1>2. EngineTypes'
  BY <1>0, FetchedIsKept, FS_EmptySet DEF EngineTypes
<1>3. Processes'
  BY <1>0, Requests DEF Processes, Waiting, SameProcess
<1>4. Dated'
  BY <1>0, Requests DEF Dated, Working, FolderTypes, EngineTypes, Scopes, Still
<1>5. Asked'
  BY <1>0, Requests DEF Asked, Settled, Held, Still
<1>6. Pending'
  BY <1>0, Requests DEF Pending, Still
<1>7. Taken'
  <2> SUFFICES ASSUME val = validity PROVE Taken'
    BY <1>0 DEF Taken, Still
  <2>1. /\ cursor["live"].val = validity
        /\ \A u \in Uids : u <= cursor["live"].at /\ Claims(high, ~more, u) =>
             Settled(box[u]) \/ u \in list
    BY <1>0 DEF Taken, Known
  <2>2. Downto(high, ~more, Fetched(list))
    BY <2>1, FetchedIsKept DEF Downto, Kept
  <2>3. Downto(high, ~more, Fetched(list)) => Downto(high, ~more, call.batch)'
    BY <1>0 DEF Downto, Kept, Settled, Held, Claims, Uids, Still
  <2>4. QED
    BY <1>0, <2>1, <2>2, <2>3 DEF Taken, Known, Still
<1>8. Stands'
  BY <1>0 DEF Stands, Upto, Kept, Settled, Held, Uids, Still
<1>9. QED
  BY <1>1, <1>2, <1>3, <1>4, <1>5, <1>6, <1>7, <1>8

\* The chunk is stored, so the history position that covers it may be saved.
LEMMA StoredBackKeeps == IInv /\ StoredBack => IInv'
<1> SUFFICES ASSUME IInv, StoredBack PROVE IInv'
  OBVIOUS
<1> USE DEF IInv, MailTypeOK
<1>0. /\ Still /\ SameProcess /\ pc = "backstored?" /\ call.op = "done" /\ pc' = "backsaved?"
        /\ UNCHANGED <<val, high, list, more>>
        /\ out' = {}
        /\ call' \in Request /\ call'.op = "save" /\ call'.scope = "history"
        /\ call'.batch = {} /\ call'.built = {} /\ call'.row = {}
        /\ call'.cursor.val = val /\ call'.cursor.at = high /\ call'.cursor.complete = (~more)
  <2>1. val \in Nat /\ high \in Nat /\ (~more) \in BOOLEAN
    BY DEF EngineTypes
  <2>2. call' = Save("history", At(val, high, (~more)))
    BY DEF StoredBack, Ask
  <2>3. /\ call' \in Request /\ call'.op = "save" /\ call'.scope = "history"
        /\ call'.batch = {} /\ call'.built = {} /\ call'.row = {}
        /\ call'.cursor.val = val /\ call'.cursor.at = high /\ call'.cursor.complete = (~more)
    BY <2>1, <2>2, Saves DEF Scopes
  <2>4. QED
    BY <2>1, <2>3 DEF StoredBack, Engine, Ask, Told, Still, SameProcess, engineVars, serverVars, storeVars, junkVars, ingestVars, processVars
<1>1. StoreTypes' /\ FolderTypes'
  BY <1>0, Requests DEF StoreTypes, FolderTypes, Uids, Still
<1>2. EngineTypes'
  BY <1>0, FS_EmptySet DEF EngineTypes, StoreTypes
<1>3. Processes'
  BY <1>0, Requests DEF Processes, Waiting, SameProcess
<1>4. Dated'
  BY <1>0, Requests DEF Dated, Working, FolderTypes, EngineTypes, Scopes, Still
<1>5. Asked'
  BY <1>0, Requests DEF Asked, Settled, Held, Still
<1>6. Pending'
  <2>1. call.batch = {}
    BY <1>0 DEF Asked
  <2>2. val = validity => Downto(high, ~more, {}) /\ cursor["live"].val = validity
    BY <1>0, <2>1 DEF Taken, Known
  <2>3. Downto(high, ~more, {}) => Downto(call.cursor.at, call.cursor.complete, {})'
    BY <1>0 DEF Downto, Claims, Kept, Settled, Held, Uids, Still
  <2>4. QED
    BY <1>0, <2>2, <2>3 DEF Pending, Still
<1>7. Taken'
  BY <1>0, Requests DEF Taken, Known, Still
<1>8. Stands'
  BY <1>0 DEF Stands, Upto, Kept, Settled, Held, Uids, Still
<1>9. QED
  BY <1>1, <1>2, <1>3, <1>4, <1>5, <1>6, <1>7, <1>8

-----------------------------------------------------------------------------
(* Steps of the core and of the user.                                      *)

SameEngine == UNCHANGED <<box, validity, next, proc, token, pc, val, high, list, out, more>>

SettledGrows == \A m : Settled(m) => Settled(m)'

\* The core goes on with a batch, or answers.
LEMMA CoreStep ==
  ASSUME IInv, SameEngine, SettledGrows, cursor' = cursor, StoreTypes',
         call.op # "none", call'.op \in {"store", "done", "failed"},
         call'.op = "store" => call.op = "store",
         call'.op = "store" => \A x \in call.batch : x \in call'.batch \/ Settled(x.ver)',
         call'.op # "store" => call'.batch = {},
         call'.op = "done" =>
           \/ call.op = "store" /\ call.batch = {}
           \/ call.op = "load" /\ call'.cursor = cursor[call.scope],
         \A x \in call'.built : Settled(x.ver)'
  PROVE  IInv'
<1> USE DEF IInv, MailTypeOK, SameEngine
<1>1. FolderTypes' /\ EngineTypes'
  BY DEF FolderTypes, EngineTypes, Uids
<1>2. Processes'
  BY Requests DEF Processes, Waiting
<1>3. Dated'
  BY DEF Dated
<1>4. Asked'
  BY DEF Asked
<1>5. Pending'
  BY DEF Pending
<1>6. \A u \in Uids : (Kept(u, {}) => Kept(u, {})') /\ (Kept(u, out) => Kept(u, out)')
  BY DEF Kept, SettledGrows
<1>7. \A u \in Uids : call'.op = "store" /\ Kept(u, call.batch) => Kept(u, call.batch)'
  BY DEF Kept, SettledGrows
<1>8. \A u \in Uids : call'.op = "done" /\ call.op = "store" /\ Kept(u, call.batch) => Kept(u, call.batch)'
  BY DEF Kept, SettledGrows
<1>9. Stands'
  BY <1>6 DEF Stands, Upto, Uids
<1>10. Taken'
  <2> SUFFICES ASSUME val = validity PROVE Taken'
    BY DEF Taken
  <2>1. CASE pc \in {"stored?", "backstored?"}
    <3>1. call'.op # "failed" => \A u \in Uids : Kept(u, call.batch) => Kept(u, call.batch)'
      BY <1>7, <1>8, <2>1 DEF Asked
    <3>2. cursor["live"].val = validity /\ (pc = "stored?" => high < next)
      BY <2>1 DEF Taken, Known
    <3>3. pc = "stored?" /\ call'.op # "failed" => Upto(high, call.batch)'
      BY <2>1, <3>1 DEF Taken, Asked, Upto, Uids
    <3>4. pc = "backstored?" /\ call'.op # "failed" => Downto(high, ~more, call.batch)'
      BY <2>1, <3>1 DEF Taken, Asked, Downto, Claims, Uids
    <3>5. QED
      BY <2>1, <3>2, <3>3, <3>4 DEF Taken, Known
  <2>2. CASE pc \in {"uids", "fetch", "back", "backfetch"}
    BY <2>2 DEF Processes, Waiting, Idle
  <2>3. CASE pc \notin {"stored?", "backstored?", "uids", "fetch", "back", "backfetch"}
    BY <2>3 DEF Taken, Known, Asked
  <2>4. QED
    BY <2>1, <2>2, <2>3
<1>11. QED
  BY <1>1, <1>2, <1>3, <1>4, <1>5, <1>9, <1>10

\* The user adds or takes away, and what was held is held.
LEMMA UserStep ==
  ASSUME IInv, SameEngine, SettledGrows, UNCHANGED <<cursor, call>>, raws' \subseteq raws,
         items' \subseteq raws', files' \subseteq files
  PROVE  IInv'
<1> USE DEF IInv, MailTypeOK, SameEngine
<1>1. StoreTypes' /\ FolderTypes' /\ EngineTypes'
  BY DEF StoreTypes, FolderTypes, EngineTypes, Uids
<1>2. Processes' /\ Dated'
  BY DEF Processes, Dated
<1>3. Asked'
  BY DEF Asked, SettledGrows
<1>4. \A u, b : Kept(u, b) => Kept(u, b)'
  BY DEF Kept, SettledGrows
<1>5. \A at, b : Upto(at, b) => Upto(at, b)'
  BY <1>4 DEF Upto, Uids
<1>6. \A at, c, b : Downto(at, c, b) => Downto(at, c, b)'
  BY <1>4 DEF Downto, Uids, Claims
<1>7. Pending'
  BY <1>5, <1>6 DEF Pending
<1>8. Stands'
  BY <1>5 DEF Stands
<1>9. Taken'
  BY <1>5, <1>6 DEF Taken, Uids, SettledGrows, Claims
<1>10. QED
  BY <1>1, <1>2, <1>3, <1>7, <1>8, <1>9

LEMMA UserKeeps ==
  IInv /\ User /\ UNCHANGED <<serverVars, processVars, engineVars>> => IInv'
<1> SUFFICES ASSUME IInv, User, UNCHANGED <<serverVars, processVars, engineVars>> PROVE IInv'
  OBVIOUS
<1>1. SameEngine
  BY DEF SameEngine, serverVars, processVars, engineVars
<1>2. items \subseteq raws
  BY DEF IInv, MailTypeOK, StoreTypes
<1>3. CASE Reprocess
  <2>1. /\ UNCHANGED <<raws, files, bare, gone, cursor, call>> /\ items' \subseteq raws'
    BY <1>2, <1>3 DEF Reprocess
  <2>2. QED
    BY <1>1, <2>1, SettledStays, UserStep DEF SettledGrows
<1>4. CASE FindJunk \/ MarkJunk \/ RestoreJunk
  <2>1. UNCHANGED <<raws, files, bare, items, gone, cursor, call>>
    BY <1>4 DEF FindJunk, MarkJunk, RestoreJunk, storeVars
  <2>2. QED
    BY <1>1, <1>2, <2>1, SettledStays, UserStep DEF SettledGrows
<1>5. CASE RemoveJunk
  <2>1. /\ UNCHANGED <<cursor, call>> /\ raws' = raws \ doomed /\ items' = items \ doomed
        /\ gone' = gone \cup {x.ver : x \in doomed} /\ bare' = bare
        /\ files' = files \ {x.ver : x \in {y \in doomed : \A z \in raws' : z.ver # y.ver}}
    BY <1>5 DEF RemoveJunk
  <2>2. SettledGrows
    BY <2>1, SettledStays DEF SettledGrows
  <2>3. QED
    BY <1>1, <1>2, <2>1, <2>2, UserStep
<1>6. QED
  BY <1>3, <1>4, <1>5 DEF User

LEMMA PassOverKeeps ==
  IInv /\ Rows /\ PassOver /\ UNCHANGED <<serverVars, processVars, engineVars>> => IInv'
<1> SUFFICES ASSUME IInv, Rows, PassOver, UNCHANGED <<serverVars, processVars, engineVars>> PROVE IInv'
  OBVIOUS
<1>1. SameEngine
  BY DEF SameEngine, serverVars, processVars, engineVars
<1>2. StoreTypes /\ Asked
  BY DEF IInv, MailTypeOK
<1>3. PICK x \in call.batch :
        /\ call.op = "store" /\ call.built = {} /\ call.row = {} /\ (IsJunk(x) \/ x \in raws)
        /\ call' = [call EXCEPT !.batch = call.batch \ {x}]
        /\ gone' = IF IsJunk(x) THEN gone \cup {x.ver} ELSE gone
        /\ UNCHANGED <<raws, files, bare, items, cursor>>
  BY DEF PassOver
<1>4. SettledGrows
  BY <1>3, SettledStays DEF SettledGrows
<1>5. StoreTypes'
  <2>1. call' = [call EXCEPT !.batch = call.batch \ {x}] /\ call \in Request
    BY <1>2, <1>3 DEF StoreTypes
  <2>2. /\ call' \in Request /\ call'.op = call.op
        /\ call'.batch = call.batch \ {x} /\ call'.built = call.built /\ call'.row = call.row
    BY <2>1, Shrinks, Zenon
  <2>3. QED
    BY <1>2, <1>3, <2>2 DEF StoreTypes
<1>6. Settled(x.ver)'
  BY <1>2, <1>3 DEF Rows, Settled, Held, StoreTypes
<1>7. call'.op = "store" /\ call'.batch = call.batch \ {x} /\ call'.built = {} /\ call'.row = {}
  <2>1. call' = [call EXCEPT !.batch = call.batch \ {x}] /\ call \in Request
    BY <1>2, <1>3 DEF StoreTypes
  <2>2. call'.op = call.op /\ call'.batch = call.batch \ {x} /\ call'.built = call.built /\ call'.row = call.row
    BY <2>1, Shrinks, Zenon
  <2>3. QED
    BY <1>3, <2>2
<1>8. QED
  BY <1>1, <1>3, <1>4, <1>5, <1>6, <1>7, CoreStep

LEMMA InsertRawKeeps ==
  IInv /\ Rows /\ InsertRaw /\ UNCHANGED <<serverVars, processVars, engineVars>> => IInv'
<1> SUFFICES ASSUME IInv, Rows, InsertRaw, UNCHANGED <<serverVars, processVars, engineVars>> PROVE IInv'
  OBVIOUS
<1>1. SameEngine
  BY DEF SameEngine, serverVars, processVars, engineVars
<1>2. StoreTypes /\ Asked
  BY DEF IInv, MailTypeOK
<1>3. PICK x \in call.batch :
        /\ call.op = "store" /\ call.built = {}
        /\ raws' = raws \cup {x} /\ call' = [call EXCEPT !.row = {x}]
        /\ UNCHANGED <<files, bare, items, gone, cursor>>
  BY DEF InsertRaw
<1>4. SettledGrows
  BY <1>3, SettledStays DEF SettledGrows
<1>5. /\ call \in Request /\ call' \in Request /\ call'.op = "store" /\ call'.batch = call.batch
      /\ call'.built = {} /\ call'.row = {x}
  BY <1>2, <1>3 DEF StoreTypes, Request
<1>6. StoreTypes'
  BY <1>2, <1>3, <1>5 DEF StoreTypes, Request
<1>7. QED
  BY <1>1, <1>3, <1>4, <1>5, <1>6, CoreStep

LEMMA PutBytesKeeps ==
  IInv /\ Rows /\ PutBytes /\ UNCHANGED <<serverVars, processVars, engineVars>> => IInv'
<1> SUFFICES ASSUME IInv, Rows, PutBytes, UNCHANGED <<serverVars, processVars, engineVars>> PROVE IInv'
  OBVIOUS
<1>1. SameEngine
  BY DEF SameEngine, serverVars, processVars, engineVars
<1>2. StoreTypes /\ Asked
  BY DEF IInv, MailTypeOK
<1>3. /\ call.op = "store" /\ call.row # {} /\ files' = files \cup {x.ver : x \in call.row}
      /\ call' = [call EXCEPT !.row = {}, !.built = call.row]
      /\ UNCHANGED <<raws, bare, items, gone, cursor>>
  BY DEF PutBytes
<1>4. SettledGrows
  BY <1>3, SettledStays DEF SettledGrows
<1>5. /\ call \in Request /\ call' \in Request /\ call'.op = "store" /\ call'.batch = call.batch
      /\ call'.built = call.row /\ call'.row = {}
  BY <1>2, <1>3 DEF StoreTypes, Request
<1>6. StoreTypes'
  BY <1>2, <1>3, <1>5 DEF StoreTypes, Request, Message
<1>7. \A x \in call'.built : Settled(x.ver)'
  BY <1>3, <1>5 DEF Rows, Settled, Held
<1>8. QED
  BY <1>1, <1>3, <1>4, <1>5, <1>6, <1>7, CoreStep

LEMMA MakeItemKeeps ==
  IInv /\ Rows /\ MakeItem /\ UNCHANGED <<serverVars, processVars, engineVars>> => IInv'
<1> SUFFICES ASSUME IInv, Rows, MakeItem, UNCHANGED <<serverVars, processVars, engineVars>> PROVE IInv'
  OBVIOUS
<1>1. SameEngine
  BY DEF SameEngine, serverVars, processVars, engineVars
<1>2. StoreTypes /\ Asked
  BY DEF IInv, MailTypeOK
<1>3. PICK x \in call.built :
        /\ call.op = "store" /\ call.row = {} /\ UNCHANGED <<raws, files, bare, gone, cursor>>
        /\ \/ call' = Answer("failed") /\ items' = items
           \/ /\ items' = items \cup {x} /\ x \in raws
              /\ call' = [call EXCEPT !.batch = call.batch \ {x}, !.built = {}]
  BY DEF MakeItem, Rows
<1>4. SettledGrows
  BY <1>3, SettledStays DEF SettledGrows
<1>5. StoreTypes'
  <2>1. CASE call' = Answer("failed")
    BY <1>2, <1>3, <2>1, Requests DEF StoreTypes
  <2>2. CASE call' # Answer("failed")
    <3>1. call' \in Request /\ call'.batch = call.batch \ {x} /\ call'.built = {} /\ call'.row = call.row
      <4>1. call' = [call EXCEPT !.batch = call.batch \ {x}, !.built = {}] /\ call \in Request
        BY <1>2, <1>3, <2>2 DEF StoreTypes
      <4>2. QED
        BY <4>1, Shrinks, Zenon
    <3>2. QED
      BY <1>2, <1>3, <2>2, <3>1 DEF StoreTypes
  <2>3. QED
    BY <2>1, <2>2
<1>6. Settled(x.ver)'
  BY <1>2, <1>3, <1>4 DEF Asked, SettledGrows
<1>7. /\ call'.built = {} /\ call'.row = {}
      /\ \/ call'.op = "failed" /\ call'.batch = {}
         \/ call'.op = "store" /\ call'.batch = call.batch \ {x}
  <2>1. CASE call' = Answer("failed")
    BY <2>1, Requests
  <2>2. CASE call' # Answer("failed")
    <3>1. call' = [call EXCEPT !.batch = call.batch \ {x}, !.built = {}] /\ call \in Request
      BY <1>2, <1>3, <2>2 DEF StoreTypes
    <3>2. call'.op = call.op /\ call'.batch = call.batch \ {x} /\ call'.built = {} /\ call'.row = call.row
      BY <3>1, Shrinks, Zenon
    <3>3. QED
      BY <1>3, <3>2
  <2>3. QED
    BY <2>1, <2>2
<1>8. QED
  BY <1>1, <1>3, <1>4, <1>5, <1>6, <1>7, CoreStep

LEMMA StoredKeeps ==
  IInv /\ Stored /\ UNCHANGED <<serverVars, processVars, engineVars>> => IInv'
<1> SUFFICES ASSUME IInv, Stored, UNCHANGED <<serverVars, processVars, engineVars>> PROVE IInv'
  OBVIOUS
<1>1. SameEngine
  BY DEF SameEngine, serverVars, processVars, engineVars
<1>2. StoreTypes /\ Asked
  BY DEF IInv, MailTypeOK
<1>3. /\ call.op = "store" /\ call.batch = {} /\ call' = Answer("done")
        /\ UNCHANGED <<raws, files, bare, items, gone, cursor>>
  BY DEF Stored, storeVars
<1>4. SettledGrows
  BY <1>3, SettledStays DEF SettledGrows
<1>5. StoreTypes'
  BY <1>2, <1>3, Requests DEF StoreTypes
<1>6. QED
  BY <1>1, <1>2, <1>3, <1>4, <1>5, CoreStep, Requests

LEMMA LoadCursorKeeps ==
  IInv /\ LoadCursor /\ UNCHANGED <<serverVars, processVars, engineVars>> => IInv'
<1> SUFFICES ASSUME IInv, LoadCursor, UNCHANGED <<serverVars, processVars, engineVars>> PROVE IInv'
  OBVIOUS
<1>1. SameEngine
  BY DEF SameEngine, serverVars, processVars, engineVars
<1>2. StoreTypes /\ Asked
  BY DEF IInv, MailTypeOK
<1>3. /\ call.op = "load" /\ call' \in Request /\ call'.op = "done" /\ call'.batch = {} /\ call'.built = {} /\ call'.row = {}
        /\ call'.cursor = cursor[call.scope]
        /\ UNCHANGED <<raws, files, bare, items, gone, cursor>>
  <2>1. call' = [Answer("done") EXCEPT !.scope = call.scope, !.cursor = cursor[call.scope]]
    BY DEF LoadCursor
  <2>2. Answer("done") \in Request /\ Answer("done").op = "done"
        /\ Answer("done").batch = {} /\ Answer("done").built = {} /\ Answer("done").row = {}
    BY Requests
  <2>3. call.scope \in Scopes /\ cursor[call.scope] \in Cursor
    BY <1>2 DEF StoreTypes, Request
  <2> HIDE DEF Answer
  <2>4. QED
    BY <2>1, <2>2, <2>3 DEF LoadCursor, storeVars, Request
<1>4. SettledGrows
  BY <1>3, SettledStays DEF SettledGrows
<1>5. StoreTypes'
  BY <1>2, <1>3 DEF StoreTypes
<1>6. QED
  BY <1>1, <1>2, <1>3, <1>4, <1>5, CoreStep

LEMMA StoreFailsKeeps ==
  IInv /\ StoreFails /\ UNCHANGED <<serverVars, processVars, engineVars>> => IInv'
<1> SUFFICES ASSUME IInv, StoreFails, UNCHANGED <<serverVars, processVars, engineVars>> PROVE IInv'
  OBVIOUS
<1>1. SameEngine
  BY DEF SameEngine, serverVars, processVars, engineVars
<1>2. StoreTypes /\ Asked
  BY DEF IInv, MailTypeOK
<1>3. /\ call.op \in {"load", "save", "store"} /\ call' = Answer("failed")
        /\ bare \subseteq bare'
        /\ UNCHANGED <<raws, files, items, gone, cursor>>
  BY DEF StoreFails, LeftBare
<1>4. SettledGrows
  BY <1>3, SettledStays DEF SettledGrows
<1>5. StoreTypes'
  BY <1>2, <1>3, Requests DEF StoreTypes
<1>6. QED
  BY <1>1, <1>2, <1>3, <1>4, <1>5, CoreStep, Requests

LEMMA CoreStopsKeeps == IInv /\ CoreStops => IInv'
<1> SUFFICES ASSUME IInv, CoreStops PROVE IInv'
  OBVIOUS
<1> USE DEF IInv, MailTypeOK
<1>1. /\ UNCHANGED <<raws, files, items, gone, cursor, box, validity, next>>
      /\ bare \subseteq bare' /\ call' = Idle /\ pc' = "off" /\ proc' = "down" /\ token' = FALSE
      /\ Anew
  BY DEF CoreStops, IngestStops, LeftBare, Ended, Engine, Forget, Anew, serverVars
<1>2. SettledGrows
  BY <1>1, SettledStays DEF SettledGrows
<1>3. EngineTypes' /\ val' = 0 /\ validity \in Nat
  BY <1>1, AnewIsTyped DEF FolderTypes
<1>4. StoreTypes' /\ FolderTypes' /\ Processes'
  BY <1>1, Requests DEF StoreTypes, FolderTypes, Processes, Uids, Waiting
<1>5. Dated' /\ Asked'
  BY <1>1, <1>3, Requests DEF Dated, Asked, Working
<1>6. Pending' /\ Taken'
  BY <1>1, Requests DEF Pending, Taken, Known
<1>7. Stands'
  BY <1>1, <1>2 DEF Stands, Upto, Kept, SettledGrows, Uids
<1>8. QED
  BY <1>3, <1>4, <1>5, <1>6, <1>7

\* What is saved was true when it was asked for and still is.
LEMMA SaveCursorKeeps ==
  IInv /\ SaveCursor /\ UNCHANGED <<serverVars, processVars, engineVars>> => IInv'
<1> SUFFICES ASSUME IInv, SaveCursor, UNCHANGED <<serverVars, processVars, engineVars>> PROVE IInv'
  OBVIOUS
<1>1. SameEngine
  BY DEF SameEngine, serverVars, processVars, engineVars
<1> USE DEF IInv, MailTypeOK, SameEngine
<1>2. /\ call.op = "save" /\ UNCHANGED <<raws, files, bare, items, gone>> /\ call' = Answer("done")
      /\ call'.op = "done" /\ call' \in Request /\ call'.batch = {} /\ call'.built = {} /\ call'.row = {}
  BY Requests DEF SaveCursor, storeVars
<1>3. /\ call.scope \in Scopes /\ call.cursor \in Cursor
      /\ cursor' \in [Scopes -> Cursor]
      /\ cursor'[call.scope] = call.cursor
      /\ \A s \in Scopes \ {call.scope} : cursor'[s] = cursor[s]
  BY DEF StoreTypes, Request, SaveCursor
<1>4. StoreTypes' /\ FolderTypes' /\ EngineTypes'
  BY <1>1, <1>2, <1>3 DEF StoreTypes, FolderTypes, EngineTypes, Uids
<1>5. Processes'
  BY <1>1, <1>2, Requests DEF Processes, Waiting
<1>6. call.cursor.val <= validity /\ \A s \in Scopes : cursor[s].val <= call.cursor.val
  BY <1>2 DEF Dated
<1>7. /\ validity \in Nat /\ val \in Nat /\ call.cursor.val \in Nat
      /\ \A s \in Scopes : cursor[s].val \in Nat
  BY <1>3 DEF FolderTypes, EngineTypes, StoreTypes, Cursor
<1>8. CASE call.scope = "live"
  <2>1. cursor'["live"] = call.cursor /\ cursor'["history"] = cursor["history"]
    BY <1>3, <1>8 DEF Scopes
  <2>2. cursor["history"].val = validity => call.cursor.val = validity
    BY <1>6, <1>7 DEF Scopes
  <2>3. call.cursor.val = validity => call.cursor.at < next /\ Upto(call.cursor.at, {})
    BY <1>2, <1>8 DEF Pending
  <2>4. Dated'
    <3>1. pc \in Working => call.cursor.val <= val
      BY <1>2, <1>7, Requests DEF Asked, Processes, Waiting, Working
    <3>2. QED
      BY <1>1, <1>2, <1>6, <2>1, <2>2, <2>3, <3>1 DEF Dated, Scopes
  <2>5. Stands'
    BY <1>1, <1>2, <2>1, <2>3 DEF Stands, Upto, Kept, Settled, Held, Uids
  <2>6. Asked' /\ Pending'
    BY <1>1, <1>2, <2>1, Requests DEF Asked, Pending, Processes, Waiting, Settled, Held
  <2>7. Taken'
    <3> SUFFICES ASSUME val = validity PROVE Taken'
      BY <1>1 DEF Taken
    <3>1. CASE pc = "first?"
      <4>1. call.cursor.val = val /\ call.cursor.at = high
        BY <1>2, <3>1 DEF Asked
      <4>2. QED
        BY <1>1, <1>2, <2>1, <3>1, <4>1 DEF Taken, Known
    <3>2. CASE pc \in {"begun?", "saved?", "backsaved?"}
      BY <1>1, <1>2, <2>1, <3>2 DEF Asked, Taken, Known
    <3>3. CASE pc \notin {"first?", "begun?", "saved?", "backsaved?"}
      <4>1. pc \notin Known /\ pc # "newest"
        BY <1>2, <3>3, Requests DEF Asked, Processes, Waiting, Known
      <4>2. QED
        BY <1>1, <3>3, <4>1 DEF Taken, Known
    <3>4. QED
      BY <3>1, <3>2, <3>3
  <2>8. QED
    BY <1>4, <1>5, <2>4, <2>5, <2>6, <2>7
<1>9. CASE call.scope = "history"
  <2>1. cursor'["history"] = call.cursor /\ cursor'["live"] = cursor["live"]
    BY <1>3, <1>9 DEF Scopes
  <2>2. call.cursor.val = validity =>
          cursor["live"].val = validity /\ Downto(call.cursor.at, call.cursor.complete, {})
    BY <1>2, <1>9 DEF Pending
  <2>3. Dated'
    <3>1. pc \in Working => call.cursor.val <= val
      BY <1>2, <1>7, Requests DEF Asked, Processes, Waiting, Working
    <3>2. QED
      BY <1>1, <1>2, <1>6, <2>1, <2>2, <3>1 DEF Dated, Scopes
  <2>4. Stands'
    BY <1>1, <1>2, <2>1, <2>2 DEF Stands, Upto, Downto, Kept, Settled, Held, Uids
  <2>5. Asked' /\ Pending'
    BY <1>1, <1>2, <2>1, Requests DEF Asked, Pending, Processes, Waiting, Settled, Held
  <2>6. Taken'
    <3>1. pc # "first?"
      BY <1>2, <1>9 DEF Asked
    <3>2. pc \notin {"newest", "uids", "fetch", "stored?", "back", "backfetch", "backstored?"}
      BY <1>2, Requests DEF Asked, Processes, Waiting
    <3>3. QED
      BY <1>1, <2>1, <3>1, <3>2 DEF Taken, Known
  <2>7. QED
    BY <1>4, <1>5, <2>3, <2>4, <2>5, <2>6
<1>10. QED
  BY <1>3, <1>8, <1>9 DEF Scopes

-----------------------------------------------------------------------------
(* Steps of the server.                                                    *)

LEMMA ArriveKeeps == IInv /\ Arrive => IInv'
<1> SUFFICES ASSUME IInv, Arrive PROVE IInv'
  OBVIOUS
<1> USE DEF IInv, MailTypeOK
<1>1. /\ UNCHANGED <<raws, files, bare, items, gone, cursor, call, validity, proc, token, pc, val, high, list, out, more>>
      /\ next' = next + 1
  BY DEF Arrive, ingestVars, storeVars, processVars, engineVars
<1>2. PICK m \in Mail : box' = [u \in Uids \cup {next} |-> IF u = next THEN m ELSE box[u]]
  BY DEF Arrive
<1>3. /\ Uids' = Uids \cup {next} /\ \A u \in Uids : u # next /\ u < next /\ box'[u] = box[u]
      /\ Uids \subseteq Nat /\ next \in Nat \ {0}
  BY <1>2 DEF Uids, FolderTypes
<1>4. FolderTypes'
  <2>1. \A u \in Uids' : u \in 1 .. next' - 1
    BY <1>1, <1>3 DEF FolderTypes
  <2>2. box' \in [Uids' -> Mail]
    BY <1>2, <1>3 DEF FolderTypes
  <2>3. QED
    BY <1>1, <1>3, <2>1, <2>2 DEF FolderTypes
<1>5. StoreTypes' /\ EngineTypes' /\ Processes'
  BY <1>1 DEF StoreTypes, EngineTypes, Processes
<1>6. Dated' /\ Asked'
  BY <1>1, <1>3 DEF Dated, Asked, Settled, Held, StoreTypes, Cursor, Scopes
<1>7. \A b : \A u \in Uids : Kept(u, b) => Kept(u, b)'
  BY <1>1, <1>3 DEF Kept, Settled, Held
<1>8. \A b : \A at \in Nat : at < next /\ Upto(at, b) => Upto(at, b)'
  <2> SUFFICES ASSUME NEW b, NEW at \in Nat, at < next, Upto(at, b)
               PROVE  Upto(at, b)'
    OBVIOUS
  <2>1. ASSUME NEW u \in Uids', u <= at
        PROVE  u \in Uids
    BY <1>3, <2>1
  <2>2. QED
    BY <1>1, <1>7, <2>1 DEF Upto
<1>9. \A at, c, b : cursor["live"].val = validity /\ Downto(at, c, b) => Downto(at, c, b)'
  <2>1. cursor["live"].val = validity => cursor["live"].at < next
    BY DEF Dated
  <2>2. cursor["live"].at \in Nat
    BY DEF StoreTypes, Cursor, Scopes
  <2>3. QED
    BY <1>1, <1>3, <1>7, <2>1, <2>2 DEF Downto, Claims
<1>10. Stands'
  <2>1. cursor["live"].at \in Nat
    BY DEF StoreTypes, Cursor, Scopes
  <2>2. QED
    BY <1>1, <1>8, <2>1 DEF Stands, Dated
<1>11. Pending'
  <2>1. call.cursor.at \in Nat
    BY DEF StoreTypes, Request, Cursor
  <2>2. QED
    BY <1>1, <1>3, <1>8, <1>9, <2>1 DEF Pending
<1>12. Taken'
  <2>1. high \in Nat /\ list \subseteq Nat
    BY DEF EngineTypes
  <2> SUFFICES ASSUME val = validity PROVE Taken'
    BY <1>1 DEF Taken
  <2>2. pc \in {"uids", "fetch", "stored?"} => high < next /\ high < next'
    BY <1>1, <1>3, <2>1 DEF Taken
  <2>3. pc = "uids" => Upto(high, {})'
    BY <1>1, <1>8, <2>1, <2>2 DEF Taken
  <2>4. pc = "fetch" => Upto(high, out)'
    BY <1>1, <1>8, <2>1, <2>2 DEF Taken
  <2>5. pc = "fetch" =>
          /\ \A l \in list : high < l /\ l < next'
          /\ \A u \in Uids', l \in list : high < u /\ u <= l => u \in list
    BY <1>1, <1>3, <2>1 DEF Taken
  <2>6. pc = "stored?" /\ call.op # "failed" => Upto(high, call.batch)'
    BY <1>1, <1>8, <2>1, <2>2 DEF Taken
  <2>7. pc \in Known => cursor["live"].val = validity
    BY DEF Taken
  <2>8. /\ pc = "back" => Downto(high, FALSE, {})'
        /\ pc = "backstored?" /\ call.op # "failed" => Downto(high, ~more, call.batch)'
    BY <1>1, <1>9, <2>7 DEF Taken, Known
  <2>9. pc = "backfetch" =>
          \A u \in Uids' :
            u <= cursor["live"].at /\ Claims(high, ~more, u) => Settled(box[u])' \/ u \in list
    <3>1. cursor["live"].at \in Nat
      BY DEF StoreTypes, Cursor, Scopes
    <3>2. pc = "backfetch" => cursor["live"].at < next
      BY <2>7 DEF Known, Dated
    <3>3. QED
      BY <1>1, <1>3, <3>1, <3>2 DEF Taken, Settled, Held
  <2>10. /\ pc = "newest" => cursor["history"].val # validity
         /\ pc = "first?" /\ call.op = "done" =>
              cursor["live"].val = validity /\ (high = 0 => cursor["live"].at = 0)
    BY DEF Taken
  <2>11. QED
    BY <1>1, <2>2, <2>3, <2>4, <2>5, <2>6, <2>7, <2>8, <2>9, <2>10 DEF Taken, Settled, Held, Claims
<1>13. QED
  BY <1>4, <1>5, <1>6, <1>10, <1>11, <1>12

LEMMA DeleteKeeps == IInv /\ Delete => IInv'
<1> SUFFICES ASSUME IInv, Delete PROVE IInv'
  OBVIOUS
<1> USE DEF IInv, MailTypeOK
<1>1. UNCHANGED <<raws, files, bare, items, gone, cursor, call, validity, next, proc, token, pc, val, high, list, out, more>>
  BY DEF Delete, ingestVars, storeVars, processVars, engineVars
<1>2. PICK d \in Uids : box' = [w \in Uids \ {d} |-> box[w]]
  BY DEF Delete
<1>3. Uids' \subseteq Uids /\ \A u \in Uids' : box'[u] = box[u]
  BY <1>2 DEF Uids
<1>4. FolderTypes'
  BY <1>1, <1>2 DEF FolderTypes, Uids
<1>5. StoreTypes' /\ EngineTypes' /\ Processes'
  BY <1>1 DEF StoreTypes, EngineTypes, Processes
<1>6. Dated' /\ Asked'
  BY <1>1 DEF Dated, Asked, Settled, Held
<1>7. \A b : \A u \in Uids' : Kept(u, b) => Kept(u, b)'
  BY <1>1, <1>3 DEF Kept, Settled, Held
<1>8. \A at, b : Upto(at, b) => Upto(at, b)'
  BY <1>1, <1>3, <1>7 DEF Upto
<1>9. \A at, c, b : Downto(at, c, b) => Downto(at, c, b)'
  BY <1>1, <1>3, <1>7 DEF Downto, Claims
<1>10. Stands' /\ Pending'
  BY <1>1, <1>8, <1>9 DEF Stands, Pending
<1>11. Taken'
  BY <1>1, <1>3, <1>8, <1>9 DEF Taken, Settled, Held, Claims
<1>12. QED
  BY <1>4, <1>5, <1>6, <1>10, <1>11

\* Nothing was found under the validity that begins now.
LEMMA RenumberKeeps == IInv /\ Renumber => IInv'
<1> SUFFICES ASSUME IInv, Renumber PROVE IInv'
  OBVIOUS
<1> USE DEF IInv, MailTypeOK
<1>1. UNCHANGED <<raws, files, bare, items, gone, cursor, call, proc, token, pc, val, high, list, out, more>>
  BY DEF Renumber, ingestVars, storeVars, processVars, engineVars
<1>2. validity' = validity + 1 /\ validity \in Nat \ {0}
  BY DEF Renumber, FolderTypes
<1>3. FolderTypes'
  <2> DEFINE n == Cardinality(Uids)
  <2>1. n \in Nat
    BY FewUids, FS_CardinalityType
  <2>2. PICK order \in [1 .. n -> Uids] : box' = [i \in 1 .. n |-> box[order[i]]]
    BY DEF Renumber
  <2>3. next' = n + 1
    BY DEF Renumber
  <2> HIDE DEF n
  <2>4. Uids' = 1 .. n /\ box' \in [1 .. n -> Mail]
    BY <2>2 DEF Uids, FolderTypes
  <2>5. 1 .. n \subseteq 1 .. next' - 1 /\ next' \in Nat \ {0}
    BY <2>1, <2>3
  <2>6. QED
    BY <1>2, <2>4, <2>5 DEF FolderTypes
<1>4. StoreTypes' /\ EngineTypes' /\ Processes'
  BY <1>1 DEF StoreTypes, EngineTypes, Processes
<1>5. /\ val < validity' /\ val <= validity'
      /\ \A s \in Scopes : cursor[s].val < validity' /\ cursor[s].val <= validity'
      /\ call.op = "save" => call.cursor.val < validity' /\ call.cursor.val <= validity'
  BY <1>2 DEF Dated, EngineTypes, StoreTypes, Request, Cursor
<1>6. /\ val # validity' /\ \A s \in Scopes : cursor[s].val # validity'
      /\ call.op = "save" => call.cursor.val # validity'
  BY <1>2, <1>5 DEF EngineTypes, StoreTypes, Request, Cursor
<1>7. Dated' /\ Asked'
  BY <1>1, <1>5, <1>6 DEF Dated, Asked, Settled, Held, Scopes
<1>8. Pending' /\ Taken' /\ Stands'
  BY <1>1, <1>6 DEF Pending, Taken, Stands, Scopes
<1>9. QED
  BY <1>3, <1>4, <1>7, <1>8

-----------------------------------------------------------------------------
LEMMA StepHolds == IInv /\ Rows /\ [MailNext]_vars => IInv'
<1> SUFFICES ASSUME IInv, Rows, [MailNext]_vars PROVE IInv'
  OBVIOUS
<1>1. CASE Server
  BY <1>1, ArriveKeeps, DeleteKeeps, RenumberKeeps DEF Server
<1>2. CASE Running
  BY <1>2, ProcessKeeps, RestKeeps, FoldersKeeps, LiveLoadedKeeps, NewestKeeps, LiveBegunKeeps,
     ListNewKeeps, FetchNewKeeps, StoredNewKeeps, CaughtUpKeeps, HistoryLoadedKeeps, ListBackKeeps,
     FetchBackKeeps, StoredBackKeeps, SavedBackKeeps DEF Running
<1>3. CASE Trouble
  BY <1>3, ProcessKeeps, CoreStopsKeeps, RestKeeps DEF Trouble
<1>4. CASE CoreNext
  BY <1>4, PassOverKeeps, InsertRawKeeps, PutBytesKeeps,
     MakeItemKeeps, StoredKeeps, LoadCursorKeeps, SaveCursorKeeps
  DEF CoreNext, Core
<1>5. CASE (User \/ StoreFails) /\ UNCHANGED <<serverVars, processVars, engineVars>>
  BY <1>5, UserKeeps, StoreFailsKeeps
<1>6. CASE UNCHANGED vars
  <2>1. /\ Still /\ UNCHANGED <<call, pc, val, high, list, out, more, proc, token>>
    BY <1>6 DEF vars, Still, ingestVars, storeVars, serverVars, processVars, engineVars
  <2>2. Processes'
    BY <2>1 DEF IInv, MailTypeOK, Processes
  <2>3. QED
    BY <2>1, <2>2, ProcessOnly
<1>7. QED
  BY <1>1, <1>2, <1>3, <1>4, <1>5, <1>6 DEF MailNext

LEMMA RowsHold == IInv /\ Rows /\ [MailNext]_vars => Rows'
<1> SUFFICES ASSUME IInv, Rows, [MailNext]_vars PROVE Rows'
  OBVIOUS
<1>0. Processes /\ call \in Request /\ items \subseteq raws
  BY DEF IInv, MailTypeOK, StoreTypes
<1> USE DEF Rows
<1>1. ASSUME UNCHANGED <<storeVars, call>>
      PROVE  Rows'
  BY <1>1 DEF storeVars
<1>2. ASSUME UNCHANGED storeVars, call' = call \/ (call.op # "store" /\ call'.row = {})
      PROVE  Rows'
  BY <1>2 DEF storeVars
<1>3. /\ Idle.row = {} /\ \A q : Load(q).row = {} /\ Store(q).row = {} /\ Answer(q).row = {}
      /\ \A q, c : Save(q, c).row = {}
  BY DEF Idle, Load, Store, Save, Answer
<1>4. CASE Server
  BY <1>1, <1>4 DEF Server, Arrive, Delete, Renumber, ingestVars
<1>5. CASE Running
  <2>1. pc \notin Waiting /\ pc # "off" => call.op = "none"
    BY <1>0, Requests DEF Processes
  <2>2. CASE Start \/ Hello \/ Refused \/ Connect \/ ListNew \/ ListBack \/ Wake
    BY <1>1, <2>2 DEF Start, Hello, Refused, Connect, ListNew, ListBack, Wake, ingestVars
  <2>3. CASE NobodyListens \/ Failed \/ LiveLoaded \/ HistoryLoaded \/ AllLoaded
    BY <1>2, <1>3, <2>3 DEF NobodyListens, Failed, LiveLoaded, HistoryLoaded, AllLoaded, Told, Answered
  <2>4. CASE LiveBegun \/ StoredNew \/ CaughtUp \/ StoredBack \/ SavedBack
    <3>1. call.op = "done"
      BY <2>4 DEF LiveBegun, StoredNew, CaughtUp, StoredBack, SavedBack, Told
    <3>2. UNCHANGED storeVars
      BY <2>4 DEF LiveBegun, StoredNew, CaughtUp, StoredBack, SavedBack
    <3>3. call' \in {Save("history", At(val, 0, high = 0)), Save("live", At(val, high, FALSE)),
                     Save("history", At(val, high, ~more)), Load("history")}
      BY <2>4 DEF LiveBegun, StoredNew, CaughtUp, StoredBack, SavedBack, Ask
    <3>4. call'.row = {}
      BY <3>3 DEF Save, Load, Idle
    <3>5. QED
      BY <1>2, <3>1, <3>2, <3>4
  <2>5. CASE Folders \/ Newest \/ FetchBack
    <3>1. call.op # "store"
      BY <2>1, <2>5 DEF Folders, Newest, FetchBack, Waiting
    <3>2. QED
      BY <1>2, <1>3, <2>5, <3>1 DEF Folders, Newest, FetchBack, Ask
  <2>6. CASE FetchNew
    <3>1. call.op # "store"
      BY <2>1, <2>6 DEF FetchNew, Waiting
    <3>2. UNCHANGED storeVars /\ (call' = call \/ call' = Store(out))
      BY <2>6 DEF FetchNew, Ask
    <3>3. QED
      BY <1>2, <1>3, <3>1, <3>2
  <2>7. QED
    BY <1>5, <2>2, <2>3, <2>4, <2>5, <2>6 DEF Running
<1>6. CASE Trouble
  <2>1. CASE CoreStops
    <3>1. UNCHANGED <<raws, files, gone>> /\ call' = Idle /\ bare' = bare \cup {x.ver : x \in call.row}
      BY <2>1 DEF CoreStops, IngestStops, LeftBare
    <3>2. QED
      BY <1>3, <3>1, Requests
  <2>2. CASE ~ CoreStops
    BY <1>1, <1>6, <2>2
    DEF Trouble, StartFails, Stranger, Dies, Restart, Fault, GivesUp, ingestVars
  <2>3. QED
    BY <2>1, <2>2
<1>7. CASE CoreNext
  <2>1. CASE PassOver
    <3>1. PICK x \in call.batch :
            /\ call' = [call EXCEPT !.batch = call.batch \ {x}] /\ gone \subseteq gone'
            /\ call.row = {} /\ call.built = {} /\ UNCHANGED <<raws, files, bare>>
      BY <2>1 DEF PassOver
    <3>2. call'.row = {} /\ call'.built = {}
      BY <1>0, <3>1, Shrinks
    <3>3. QED
      BY <3>1, <3>2
  <2>2. CASE InsertRaw
    <3>1. PICK x \in call.batch :
            /\ call.op = "store" /\ call.row = {} /\ call.built = {} /\ raws' = raws \cup {x}
            /\ call' = [call EXCEPT !.row = {x}] /\ UNCHANGED <<files, bare, gone>>
      BY <2>2 DEF InsertRaw
    <3>2. call'.row = {x} /\ call'.built = {} /\ call'.op = "store"
      BY <1>0, <3>1 DEF Request
    <3>3. QED
      BY <3>1, <3>2
  <2>3. CASE PutBytes
    <3>1. /\ call.op = "store" /\ files' = files \cup {x.ver : x \in call.row}
          /\ call' = [call EXCEPT !.row = {}, !.built = call.row] /\ UNCHANGED <<raws, gone, bare>>
      BY <2>3 DEF PutBytes
    <3>2. call'.row = {} /\ call'.op = "store"
      BY <1>0, <3>1 DEF Request
    <3>3. QED
      BY <3>1, <3>2
  <2>4. CASE MakeItem
    <3>1. PICK x \in call.built :
            /\ UNCHANGED <<raws, files, bare, gone>>
            /\ call' = Answer("failed") \/ call' = [call EXCEPT !.batch = call.batch \ {x}, !.built = {}]
      BY <2>4 DEF MakeItem
    <3>2. call.row = {} /\ call'.row = {}
      <4>1. [call EXCEPT !.batch = call.batch \ {x}, !.built = {}].row = call.row
        BY <1>0, Shrinks
      <4>2. QED
        BY <1>3, <3>1, <4>1
    <3>3. QED
      BY <3>1, <3>2
  <2>5. CASE Stored
    <3>1. call.batch = {} /\ UNCHANGED storeVars /\ call' = Answer("done")
      BY <2>5 DEF Stored
    <3>2. call.row = {}
      BY <3>1 DEF IInv, MailTypeOK, StoreTypes
    <3>3. QED
      BY <1>3, <3>1, <3>2 DEF storeVars
  <2>6. CASE LoadCursor
    <3>1. call.op = "load" /\ UNCHANGED storeVars
          /\ call' = [Answer("done") EXCEPT !.scope = call.scope, !.cursor = cursor[call.scope]]
      BY <2>6 DEF LoadCursor
    <3>2. call'.row = {}
      BY <3>1 DEF Answer, Idle
    <3>3. QED
      BY <1>2, <3>1, <3>2
  <2>7. CASE SaveCursor
    BY <1>2, <1>3, <2>7 DEF SaveCursor
  <2>8. QED
    BY <1>7, <2>1, <2>2, <2>3, <2>4, <2>5, <2>6, <2>7 DEF CoreNext, Core
<1>8. CASE User \/ StoreFails
  <2>1. CASE Reprocess \/ FindJunk \/ MarkJunk \/ RestoreJunk
    BY <1>1, <2>1 DEF Reprocess, FindJunk, MarkJunk, RestoreJunk, storeVars
  <2>2. CASE RemoveJunk
    <3>1. /\ raws' = raws \ doomed /\ gone' = gone \cup {x.ver : x \in doomed}
          /\ files' = files \ {x.ver : x \in {y \in doomed : \A z \in raws' : z.ver # y.ver}}
          /\ UNCHANGED <<bare, call>>
      BY <2>2 DEF RemoveJunk
    <3>2. \A x \in raws : x \in raws' \/ x.ver \in gone'
      BY <3>1
    <3>3. gone \subseteq gone' /\ \A m \in files : m \in files' \/ m \in gone'
      BY <3>1
    <3>4. raws' \subseteq raws
      BY <3>1
    <3>5. \A x \in call'.row : x \in raws' \/ x.ver \in gone'
      BY <3>1, <3>2, <3>3
    <3>6. \A x \in raws' : x \in call'.row \/ x.ver \in files' \cup bare' \cup gone'
      BY <3>1, <3>3, <3>4
    <3>7. QED
      BY <3>1, <3>5, <3>6
  <2>3. CASE StoreFails
    <3>1. /\ UNCHANGED <<raws, files, gone>> /\ call' = Answer("failed")
          /\ bare' = bare \cup {x.ver : x \in call.row}
      BY <2>3 DEF StoreFails, LeftBare
    <3>2. QED
      BY <1>3, <3>1
  <2>4. QED
    BY <1>8, <2>1, <2>2, <2>3 DEF User
<1>9. CASE UNCHANGED vars
  BY <1>1, <1>9 DEF vars, ingestVars
<1>10. QED
  BY <1>4, <1>5, <1>6, <1>7, <1>8, <1>9 DEF MailNext

LEMMA InvariantHolds == MailSpec => [](IInv /\ Rows)
<1>1. MailInit => IInv /\ Rows
  BY InitHolds, Requests DEF MailInit, IngestInit, Rows
<1>2. IInv /\ Rows /\ [MailNext]_vars => (IInv /\ Rows)'
  BY StepHolds, RowsHold
<1>3. QED
  BY <1>1, <1>2, PTL DEF MailSpec

\* The parts of the state fit in every state.
THEOREM MailTypesHold == MailSpec => []MailTypeOK
<1>1. IInv => MailTypeOK
  BY DEF IInv
<1>2. QED
  BY <1>1, InvariantHolds, PTL

\* Whatever the cursors have gone past is held, or its record stands without the
\* bytes because a store failed or the core stopped exactly between the two: for
\* every folder and every size of a batch, whoever dies, fails, renumbers or stops
\* between whichever other steps, a round may be repeated and no message is skipped.
THEOREM NoMailIsSkipped == MailSpec => []NothingSkipped
<1>1. IInv => NothingSkipped
  <2> SUFFICES ASSUME IInv, NEW u \in Behind PROVE Settled(box[u])
    BY DEF NothingSkipped
  <2>1. /\ u \in Uids /\ cursor["live"].val = validity /\ u <= cursor["live"].at
        /\ cursor["history"].val = validity
        /\ Claims(cursor["history"].at, cursor["history"].complete, u)
    BY DEF Behind, Claims
  <2>2. Kept(u, {})
    BY <2>1 DEF IInv, Stands, Upto
  <2>3. QED
    BY <2>2 DEF Kept
<1>2. QED
  BY <1>1, InvariantHolds, PTL

=============================================================================
