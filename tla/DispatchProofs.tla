--------------------------- MODULE DispatchProofs ---------------------------
(***************************************************************************)
(* What holds of the work of one dispatch, for every recipe and any number *)
(* of tasks and questions.                                                 *)
(*                                                                         *)
(* First the walk along a recipe: Standing and DoneUpTo are recursive      *)
(* functions; each has a value wherever it is asked for one, and the walk  *)
(* that is not astray followed the recipe (Followed).                      *)
(*                                                                         *)
(* Then one task at most does the work.  Whoever is about to give the work *)
(* to a task holds a claim: an approved action, a row that waits or was    *)
(* answered, an answer being filed, the loop between marking the row and   *)
(* spawning the task.  No task is at work while there is a claim, and no   *)
(* two claims lead to two tasks.                                           *)
(*                                                                         *)
(* Then what the record says: only its newest step may be open (History),  *)
(* what a task at work may rely on by where it is (Stage), and what the    *)
(* row and the claims have to do with the record (Rows).                   *)
(***************************************************************************)
EXTENDS Dispatch, SequenceTheorems, WellFoundedInduction, FiniteSetTheorems, TLAPS

(* Induction over the numbers, on a set of them.                           *)

\* Numbers have a least.
LEMMA Least ==
  ASSUME NEW T, T \subseteq Nat, T # {}
  PROVE  \E x \in T : \A y \in T : x <= y
<1> DEFINE R == OpToRel(<, Nat)
<1>1. IsWellFoundedOn(R, Nat)
  BY NatLessThanWellFounded
<1>2. \A x, y \in Nat : y < x => <<y, x>> \in R
  BY DEF OpToRel
<1> HIDE DEF R
<1>3. \E x \in T : \A y \in T : ~ (<<y, x>> \in R)
  BY <1>1, WFMin
<1>4. PICK x \in T : \A y \in T : ~ (<<y, x>> \in R)
  BY <1>3
<1>5. x \in Nat /\ \A y \in T : y \in Nat
  OBVIOUS
<1>6. ASSUME NEW y \in T PROVE x <= y
  <2>1. ~ (y < x)
    BY <1>2, <1>4, <1>5, Zenon
  <2> QED
    BY <2>1, <1>5
<1> QED
  BY <1>6

LEMMA Induction ==
  ASSUME NEW S, 0 \in S, \A n \in Nat : n \in S => n + 1 \in S
  PROVE  Nat \subseteq S
<1> DEFINE T == {n \in Nat : n \notin S}
<1>1. SUFFICES ASSUME T # {} PROVE FALSE
  OBVIOUS
<1>2. PICK x \in T : \A y \in T : x <= y
  BY <1>1, Least
<1>3. x # 0 /\ x - 1 \in Nat
  BY <1>2
<1>4. x - 1 \in S
  BY <1>2, <1>3
<1> QED
  BY <1>2, <1>3, <1>4

-----------------------------------------------------------------------------
(* The walk along the recipe. *)

\* The recursion of Standing has a solution, and Standing is one.
LEMMA StandingDefined ==
  ASSUME NEW done, Len(done) \in Nat
  PROVE  Standing(done) = [n \in 0 .. Len(done) |->
           IF n = 0 THEN Outset ELSE After(Standing(done)[n - 1], done[n])]
<1> DEFINE Good(f, m) == f = [n \in 0 .. m |-> IF n = 0 THEN Outset ELSE After(f[n - 1], done[n])]
           S == {m \in Nat : \E f : Good(f, m)}
<1>1. 0 \in S
  <2>1. Good([n \in 0 .. 0 |-> Outset], 0)
    OBVIOUS
  <2> QED
    BY <2>1
<1>2. ASSUME NEW m \in S PROVE m + 1 \in S
  <2>1. PICK f : Good(f, m)
    OBVIOUS
  <2> DEFINE g == [n \in 0 .. m + 1 |-> IF n = m + 1 THEN After(f[m], done[m + 1]) ELSE f[n]]
  <2>2. m \in Nat /\ \A n \in 0 .. m : f[n] = IF n = 0 THEN Outset ELSE After(f[n - 1], done[n])
    BY <2>1
  <2>3. g[m + 1] = After(f[m], done[m + 1]) /\ \A n \in 0 .. m : g[n] = f[n]
    BY <2>2
  <2>4. \A n \in 0 .. m + 1 : g[n] = IF n = 0 THEN Outset ELSE After(g[n - 1], done[n])
    <3> SUFFICES ASSUME NEW n \in 0 .. m + 1
                 PROVE  g[n] = IF n = 0 THEN Outset ELSE After(g[n - 1], done[n])
      OBVIOUS
    <3> HIDE DEF g
    <3>1. CASE n = m + 1
      BY <2>2, <2>3, <3>1
    <3>2. CASE n \in 0 .. m
      BY <2>2, <2>3, <3>2
    <3> QED
      BY <2>2, <3>1, <3>2
  <2>5. g = [n \in 0 .. m + 1 |-> g[n]]
    OBVIOUS
  <2>6. Good(g, m + 1)
    <3> HIDE DEF g
    <3> QED BY <2>4, <2>5
  <2> HIDE DEF g
  <2> QED
    BY <2>2, <2>6
<1>3. Nat \subseteq S
  <2> HIDE DEF S
  <2> QED BY <1>1, <1>2, Induction
<1>4. \E f : Good(f, Len(done))
  BY <1>3
<1>5. Standing(done) = CHOOSE f : Good(f, Len(done))
  BY DEF Standing
<1> HIDE DEF Good
<1>6. Good(Standing(done), Len(done))
  BY <1>4, <1>5
<1> QED
  BY <1>6 DEF Good

\* And that of DoneUpTo.
LEMMA DoneUpToDefined ==
  ASSUME NEW record, Len(record) \in Nat
  PROVE  DoneUpTo(record) = [n \in 0 .. Len(record) |->
           IF n = 0 THEN <<>>
           ELSE IF record[n].state = "done"
             THEN Append(DoneUpTo(record)[n - 1],
                         [step |-> record[n].step, verdict |-> record[n].verdict])
           ELSE DoneUpTo(record)[n - 1]]
<1> DEFINE More(s, n) == IF record[n].state = "done"
                           THEN Append(s, [step |-> record[n].step, verdict |-> record[n].verdict])
                           ELSE s
           Good(f, m) == f = [n \in 0 .. m |-> IF n = 0 THEN <<>> ELSE More(f[n - 1], n)]
           S == {m \in Nat : \E f : Good(f, m)}
<1>5. DoneUpTo(record) = CHOOSE f : Good(f, Len(record))
  BY DEF DoneUpTo
<1> HIDE DEF More
<1>1. 0 \in S
  <2>1. Good([n \in 0 .. 0 |-> <<>>], 0)
    OBVIOUS
  <2> QED
    BY <2>1
<1>2. ASSUME NEW m \in S PROVE m + 1 \in S
  <2>1. PICK f : Good(f, m)
    OBVIOUS
  <2> DEFINE g == [n \in 0 .. m + 1 |-> IF n = m + 1 THEN More(f[m], m + 1) ELSE f[n]]
  <2>2. m \in Nat /\ \A n \in 0 .. m : f[n] = IF n = 0 THEN <<>> ELSE More(f[n - 1], n)
    BY <2>1
  <2>3. g[m + 1] = More(f[m], m + 1) /\ \A n \in 0 .. m : g[n] = f[n]
    BY <2>2
  <2>4. \A n \in 0 .. m + 1 : g[n] = IF n = 0 THEN <<>> ELSE More(g[n - 1], n)
    <3> SUFFICES ASSUME NEW n \in 0 .. m + 1
                 PROVE  g[n] = IF n = 0 THEN <<>> ELSE More(g[n - 1], n)
      OBVIOUS
    <3> HIDE DEF g
    <3>1. CASE n = m + 1
      BY <2>2, <2>3, <3>1
    <3>2. CASE n \in 0 .. m
      BY <2>2, <2>3, <3>2
    <3> QED
      BY <2>2, <3>1, <3>2
  <2>5. g = [n \in 0 .. m + 1 |-> g[n]]
    OBVIOUS
  <2>6. Good(g, m + 1)
    <3> HIDE DEF g
    <3> QED
      BY <2>4, <2>5
  <2> HIDE DEF g
  <2> QED
    BY <2>2, <2>6
<1>3. Nat \subseteq S
  <2> HIDE DEF S
  <2> QED
    BY <1>1, <1>2, Induction
<1>4. \E f : Good(f, Len(record))
  BY <1>3
<1> HIDE DEF Good
<1>6. Good(DoneUpTo(record), Len(record))
  BY <1>4, <1>5
<1> QED
  BY <1>6 DEF Good, More

\* The steps done among the first m depend on which of those are done, and how.
LEMMA SameDone ==
  ASSUME NEW r, NEW q, Len(r) \in Nat, Len(q) \in Nat,
         NEW m \in Nat, m <= Len(r), m <= Len(q),
         \A k \in 1 .. m : /\ r[k].state = "done" <=> q[k].state = "done"
                           /\ r[k].state = "done" => /\ r[k].step = q[k].step
                                                     /\ r[k].verdict = q[k].verdict
  PROVE  DoneUpTo(r)[m] = DoneUpTo(q)[m]
<1> DEFINE S == {n \in Nat : n <= m => DoneUpTo(r)[n] = DoneUpTo(q)[n]}
<1>1. 0 \in S
  <2>1. 0 \in 0 .. Len(r) /\ 0 \in 0 .. Len(q)
    OBVIOUS
  <2> QED
    BY <2>1, DoneUpToDefined
<1>2. ASSUME NEW n \in S PROVE n + 1 \in S
  <2>1. CASE n + 1 <= m
    <3>1. n \in Nat /\ n + 1 \in 0 .. Len(r) /\ n + 1 \in 0 .. Len(q) /\ n + 1 # 0 /\ n + 1 - 1 = n
      BY <2>1
    <3>2. DoneUpTo(r)[n] = DoneUpTo(q)[n]
      BY <2>1, <3>1
    <3>3. DoneUpTo(r)[n + 1] = IF r[n + 1].state = "done"
             THEN Append(DoneUpTo(r)[n],
                         [step |-> r[n + 1].step, verdict |-> r[n + 1].verdict])
           ELSE DoneUpTo(r)[n]
      BY <3>1, DoneUpToDefined
    <3>4. DoneUpTo(q)[n + 1] = IF q[n + 1].state = "done"
             THEN Append(DoneUpTo(q)[n],
                         [step |-> q[n + 1].step, verdict |-> q[n + 1].verdict])
           ELSE DoneUpTo(q)[n]
      BY <3>1, DoneUpToDefined
    <3>5. n + 1 \in 1 .. m
      BY <2>1, <3>1
    <3> QED
      BY <3>1, <3>2, <3>3, <3>4, <3>5
  <2> QED
    BY <2>1
<1>3. Nat \subseteq S
  <2> HIDE DEF S
  <2> QED
    BY <1>1, <1>2, Induction
<1> QED
  BY <1>3

LEMMA DoneInEmpty == DoneIn(<<>>) = <<>>
<1>1. Len(<<>>) = 0 /\ 0 \in 0 .. 0
  OBVIOUS
<1>2. DoneUpTo(<<>>)[0] = <<>>
  BY <1>1, DoneUpToDefined
<1> QED
  BY <1>1, <1>2 DEF DoneIn

\* A record that is not done, changed into another one, or added.
LEMMA DoneInKept ==
  ASSUME NEW r \in Seq(StepRecord), NEW q \in Seq(StepRecord), NEW k \in Nat,
         \/ Len(q) = Len(r) /\ k \in 1 .. Len(r) /\ r[k].state # "done"
         \/ Len(q) = Len(r) + 1 /\ k = Len(q),
         q[k].state # "done",
         \A j \in 1 .. Len(r) : j # k => q[j] = r[j]
  PROVE  DoneIn(q) = DoneIn(r)
<1>1. Len(r) \in Nat /\ Len(q) \in Nat
  OBVIOUS
<1>2. DoneUpTo(q)[Len(r)] = DoneUpTo(r)[Len(r)]
  <2> DEFINE n == Len(r)
  <2>1. n \in Nat /\ n <= Len(r) /\ n <= Len(q)
    BY <1>1
  <2>2. \A j \in 1 .. n : /\ r[j].state = "done" <=> q[j].state = "done"
                         /\ r[j].state = "done" => /\ r[j].step = q[j].step
                                                   /\ r[j].verdict = q[j].verdict
    BY <1>1
  <2> HIDE DEF n
  <2>3. DoneUpTo(r)[n] = DoneUpTo(q)[n]
    BY <1>1, <2>1, <2>2, SameDone
  <2> QED
    BY <2>3 DEF n
<1>3. CASE Len(q) = Len(r)
  BY <1>2, <1>3 DEF DoneIn
<1>4. CASE Len(q) = Len(r) + 1 /\ k = Len(q)
  <2>1. Len(q) \in 0 .. Len(q) /\ Len(q) # 0 /\ Len(q) - 1 = Len(r) /\ q[Len(q)].state # "done"
    BY <1>1, <1>4
  <2>2. DoneUpTo(q)[Len(q)] = DoneUpTo(q)[Len(r)]
    BY <1>1, <2>1, DoneUpToDefined
  <2> QED
    BY <1>2, <2>2 DEF DoneIn
<1> QED
  BY <1>3, <1>4

\* The last record becomes done.
LEMMA DoneInMore ==
  ASSUME NEW r \in Seq(StepRecord), NEW q \in Seq(StepRecord),
         Len(q) = Len(r), r # <<>>, r[Len(r)].state # "done", q[Len(r)].state = "done",
         \A j \in 1 .. Len(r) : j # Len(r) => q[j] = r[j]
  PROVE  DoneIn(q) = Append(DoneIn(r), [step |-> q[Len(r)].step, verdict |-> q[Len(r)].verdict])
<1> DEFINE n == Len(r)
<1>1. n \in Nat /\ n # 0 /\ n \in 0 .. n /\ n - 1 \in Nat /\ n - 1 <= n
  OBVIOUS
<1>2. Len(r) = n /\ Len(q) = n /\ r[n].state # "done" /\ q[n].state = "done"
  OBVIOUS
<1>3. \A j \in 1 .. n - 1 : q[j] = r[j]
  BY <1>1
<1> HIDE DEF n
<1>4. DoneUpTo(q)[n - 1] = DoneUpTo(r)[n - 1]
  BY <1>1, <1>2, <1>3, SameDone
<1>5. DoneUpTo(r)[n] = DoneUpTo(r)[n - 1]
  BY <1>1, <1>2, DoneUpToDefined
<1>6. DoneUpTo(q)[n] = Append(DoneUpTo(q)[n - 1], [step |-> q[n].step, verdict |-> q[n].verdict])
  BY <1>1, <1>2, DoneUpToDefined
<1> QED
  BY <1>2, <1>4, <1>5, <1>6 DEF DoneIn

LEMMA StandEmpty == Stand(<<>>) = Outset
<1>1. Len(<<>>) = 0 /\ 0 \in 0 .. 0
  OBVIOUS
<1>2. Standing(<<>>)[0] = Outset
  BY <1>1, StandingDefined
<1> QED
  BY <1>1, <1>2 DEF Stand

LEMMA StandAppend ==
  ASSUME NEW d \in Seq(Done), NEW x \in Done
  PROVE  Stand(Append(d, x)) = After(Stand(d), x)
<1> DEFINE e == Append(d, x)
           n == Len(d)
           S == {m \in Nat : m <= n => Standing(e)[m] = Standing(d)[m]}
<1>1. n \in Nat /\ Len(e) = n + 1 /\ e[n + 1] = x /\ \A k \in 1 .. n : e[k] = d[k]
  OBVIOUS
<1> HIDE DEF e
<1>2. 0 \in S
  <2>1. 0 \in 0 .. Len(e) /\ 0 \in 0 .. Len(d)
    BY <1>1
  <2> QED
    BY <1>1, <2>1, StandingDefined
<1>3. ASSUME NEW m \in S PROVE m + 1 \in S
  <2>1. CASE m + 1 <= n
    <3>1. /\ m \in Nat /\ m + 1 \in 0 .. Len(d) /\ m + 1 \in 0 .. Len(e)
          /\ m + 1 # 0 /\ m + 1 - 1 = m /\ e[m + 1] = d[m + 1]
      BY <1>1, <2>1
    <3>2. Standing(e)[m] = Standing(d)[m]
      BY <1>1, <2>1, <3>1
    <3>3. Standing(d)[m + 1] = After(Standing(d)[m], d[m + 1])
      BY <1>1, <3>1, StandingDefined
    <3>4. Standing(e)[m + 1] = After(Standing(e)[m], e[m + 1])
      BY <1>1, <3>1, StandingDefined
    <3> QED
      BY <3>1, <3>2, <3>3, <3>4
  <2> QED
    BY <2>1
<1>4. Nat \subseteq S
  <2> HIDE DEF S
  <2> QED
    BY <1>2, <1>3, Induction
<1>5. Standing(e)[n] = Standing(d)[n]
  BY <1>1, <1>4
<1>6. Len(e) \in 0 .. Len(e) /\ Len(e) # 0 /\ Len(e) - 1 = n /\ Len(e) \in Nat
  BY <1>1
<1>7. Standing(e)[Len(e)] = After(Standing(e)[n], e[Len(e)])
  BY <1>6, StandingDefined
<1> QED
  BY <1>1, <1>5, <1>7 DEF Stand, e

-----------------------------------------------------------------------------
(* Standing at a step means having followed the recipe to it. *)

At == [pos : 0 .. Len(Kinds) + 1, fixes : Nat, passed : Verdicts]

Followed(d) ==
  LET at == Stand(d) IN
  /\ d \in Seq(Done)
  /\ at \in At
  /\ FollowsRecipe(d)
  /\ at.passed = ReviewSaid(d)
  /\ at.fixes = FixesBefore(d, Len(d) + 1)
  /\ d = <<>> => at.pos = 1
  /\ d # <<>> /\ at.pos # Astray =>
       /\ Calls(d, Len(d)) = at.pos
       /\ HasLoop /\ Last(d).step = Review => Last(d).verdict # "none"

LEMMA FixesBeforeEmpty == FixesBefore(<<>>, Len(<<>>) + 1) = 0
<1>1. {j \in 1 .. Len(<<>>) + 1 - 1 : HasLoop /\ <<>>[j].step = Fix} = {}
  OBVIOUS
<1> QED
  BY <1>1, FS_EmptySet DEF FixesBefore

LEMMA FixesBeforeAppend ==
  ASSUME NEW d \in Seq(Done), NEW x \in Done
  PROVE  /\ \A k \in 1 .. Len(d) + 1 : FixesBefore(Append(d, x), k) = FixesBefore(d, k)
         /\ FixesBefore(d, Len(d) + 1) \in Nat
         /\ FixesBefore(Append(d, x), Len(d) + 2) =
              FixesBefore(d, Len(d) + 1) + (IF HasLoop /\ x.step = Fix THEN 1 ELSE 0)
<1> DEFINE e == Append(d, x)
           n == Len(d)
           F(s, k) == {j \in 1 .. k - 1 : HasLoop /\ s[j].step = Fix}
<1>1. n \in Nat /\ Len(e) = n + 1 /\ e[n + 1] = x /\ \A k \in 1 .. n : e[k] = d[k]
  OBVIOUS
<1> HIDE DEF e
<1>2. \A k \in 1 .. n + 1 : F(e, k) = F(d, k)
  BY <1>1
<1>3. F(e, n + 2) = IF HasLoop /\ x.step = Fix THEN F(d, n + 1) \union {n + 1} ELSE F(d, n + 1)
  BY <1>1
<1>4. IsFiniteSet(F(d, n + 1)) /\ n + 1 \notin F(d, n + 1)
  <2>1. IsFiniteSet(1 .. n + 1 - 1)
    BY <1>1, FS_Interval
  <2> QED
    BY <1>1, <2>1, FS_Subset
<1>5. \A s, k : FixesBefore(s, k) = Cardinality(F(s, k))
  BY DEF FixesBefore
<1> HIDE DEF F
<1>6. Cardinality(F(d, n + 1)) \in Nat
  BY <1>4, FS_CardinalityType
<1>7. Cardinality(F(d, n + 1) \union {n + 1}) = Cardinality(F(d, n + 1)) + 1
  BY <1>4, FS_AddElement
<1> QED
  BY <1>1, <1>2, <1>3, <1>5, <1>6, <1>7 DEF e

LEMMA ReviewSaidAppend ==
  ASSUME NEW d \in Seq(Done), NEW x \in Done
  PROVE  ReviewSaid(Append(d, x)) = IF HasLoop /\ x.step = Review THEN x.verdict ELSE ReviewSaid(d)
<1> DEFINE e == Append(d, x)
           n == Len(d)
           R(s) == {k \in DOMAIN s : HasLoop /\ s[k].step = Review}
<1>1. /\ n \in Nat /\ DOMAIN d = 1 .. n /\ DOMAIN e = 1 .. n + 1
      /\ e[n + 1] = x /\ \A k \in 1 .. n : e[k] = d[k]
  OBVIOUS
<1>2. \A s : ReviewSaid(s) = IF R(s) = {} THEN "none" ELSE s[Max(R(s))].verdict
  BY DEF ReviewSaid
<1> HIDE DEF e
<1>3. CASE HasLoop /\ x.step = Review
  <2>1. n + 1 \in R(e) /\ \A k \in R(e) : k \in Nat /\ n + 1 >= k
    BY <1>1, <1>3
  <2>2. Max(R(e)) = n + 1
    <3> HIDE DEF R
    <3>1. Max(R(e)) \in R(e) /\ \A y \in R(e) : Max(R(e)) >= y
      BY <2>1 DEF Max
    <3> QED
      BY <1>1, <2>1, <3>1
  <2> QED
    BY <1>1, <1>2, <1>3, <2>1, <2>2 DEF e
<1>4. CASE ~(HasLoop /\ x.step = Review)
  <2>1. R(e) = R(d)
    BY <1>1, <1>4
  <2>2. R(d) # {} => Max(R(d)) \in 1 .. n
    <3>1. ASSUME R(d) # {} PROVE \E k \in R(d) : \A y \in R(d) : k >= y
      <4> DEFINE T == {n - k : k \in R(d)}
      <4>1. T \subseteq Nat /\ T # {}
        BY <1>1, <3>1
      <4>2. PICK m \in T : \A y \in T : m <= y
        BY <4>1, Least
      <4>3. PICK k \in R(d) : m = n - k
        BY <4>2
      <4>4. ASSUME NEW y \in R(d) PROVE k >= y
        <5>1. n - y \in T
          BY <4>4
        <5>2. n - k <= n - y /\ k \in Nat /\ y \in Nat
          BY <1>1, <4>2, <4>3, <5>1
        <5> QED
          BY <1>1, <5>2
      <4> QED
        BY <4>4
    <3>2. R(d) # {} => Max(R(d)) \in R(d)
      BY <3>1 DEF Max
    <3> QED
      BY <1>1, <3>2
  <2> QED
    BY <1>1, <1>2, <1>4, <2>1, <2>2 DEF e
<1> QED
  BY <1>3, <1>4

LEMMA RecipeTypes ==
  /\ Len(Kinds) \in Nat /\ Len(Kinds) >= 1
  /\ Steps = 1 .. Len(Kinds) /\ 1 \in Steps
  /\ Review \in Nat
  /\ HasLoop => Review \in Steps /\ Fix \in Steps /\ Fix = Review + 1 /\ MaxFixes \in Nat
BY RecipeAssumption DEF Steps, HasLoop, Fix

LEMMA FollowedEmpty == Followed(<<>>)
<1>1. Stand(<<>>).pos = 1 /\ Stand(<<>>).fixes = 0 /\ Stand(<<>>).passed = "none" /\ Stand(<<>>) \in At
  BY StandEmpty, RecipeTypes DEF Outset, At, Verdicts
<1>2. <<>> \in Seq(Done) /\ Len(<<>>) = 0 /\ DOMAIN <<>> = {}
  OBVIOUS
<1>3. ReviewSaid(<<>>) = "none"
  BY <1>2 DEF ReviewSaid
<1>4. FollowsRecipe(<<>>)
  BY <1>2 DEF FollowsRecipe
<1> QED
  BY <1>1, <1>2, <1>3, <1>4, FixesBeforeEmpty DEF Followed

LEMMA FollowedAppend ==
  ASSUME NEW d, Followed(d), NEW x \in Done, x.step = Stand(d).pos
  PROVE  Followed(Append(d, x))
<1> DEFINE at == Stand(d)
           e == Append(d, x)
           to == Stand(e)
           n == Len(d)
<1>1. /\ d \in Seq(Done) /\ at \in At /\ FollowsRecipe(d)
      /\ at.passed = ReviewSaid(d) /\ at.fixes = FixesBefore(d, n + 1)
      /\ d = <<>> => at.pos = 1
      /\ d # <<>> /\ at.pos # Astray =>
           /\ Calls(d, n) = at.pos
           /\ HasLoop /\ Last(d).step = Review => Last(d).verdict # "none"
  BY DEF Followed
<1>2. to = After(at, x)
  BY <1>1, StandAppend
<1>3. /\ n \in Nat /\ e \in Seq(Done) /\ e # <<>> /\ Len(e) = n + 1
      /\ e[n + 1] = x /\ \A k \in 1 .. n : e[k] = d[k]
      /\ d = <<>> <=> n = 0
  BY <1>1
<1>4. x.step \in Steps /\ x.verdict \in Verdicts /\ at.pos = x.step /\ at.pos # Astray
  BY RecipeTypes DEF Done, Astray
<1>5. at.pos \in Nat /\ at.fixes \in Nat /\ at.passed \in Verdicts
  BY <1>1 DEF At
<1>6. /\ \A k \in 1 .. n + 1 : FixesBefore(e, k) = FixesBefore(d, k)
      /\ FixesBefore(e, n + 2) = at.fixes + (IF HasLoop /\ x.step = Fix THEN 1 ELSE 0)
  BY <1>1, FixesBeforeAppend
<1>7. ReviewSaid(e) = IF HasLoop /\ x.step = Review THEN x.verdict ELSE at.passed
  BY <1>1, ReviewSaidAppend
<1> HIDE DEF e, to, at
<1>8. FollowsRecipe(e)
  <2>1. e[1].step = 1
    <3>1. CASE n = 0
      BY <1>1, <1>3, <1>4, <3>1
    <3>2. CASE n # 0
      BY <1>1, <1>3, <3>2 DEF FollowsRecipe
    <3> QED
      BY <3>1, <3>2
  <2>2. ASSUME NEW k \in 1 .. Len(e) - 1
        PROVE  /\ e[k + 1].step = Calls(e, k)
               /\ HasLoop /\ e[k].step = Review => e[k].verdict # "none"
    <3>1. k \in 1 .. n
      BY <1>3
    <3>2. Calls(e, k) = Calls(d, k)
      BY <1>3, <1>6, <3>1 DEF Calls
    <3>3. CASE k < n
      <4>1. k \in 1 .. Len(d) - 1 /\ k + 1 \in 1 .. n
        BY <1>3, <3>1, <3>3
      <4> QED
        BY <1>1, <1>3, <3>1, <3>2, <4>1 DEF FollowsRecipe
    <3>4. CASE k = n
      BY <1>1, <1>3, <1>4, <3>1, <3>2, <3>4 DEF Last
    <3> QED
      BY <1>3, <3>1, <3>3, <3>4
  <2> QED
    BY <1>3, <2>1, <2>2 DEF FollowsRecipe
<1> DEFINE said == CASE x.verdict = "none" -> Astray
                     [] x.verdict = "changes" /\ at.fixes < MaxFixes -> Fix
                     [] OTHER -> Fix + 1
<1>9. Calls(e, n + 1) =
        IF HasLoop /\ x.step = Review
          THEN IF x.verdict = "changes" /\ at.fixes < MaxFixes THEN Fix ELSE Fix + 1
        ELSE IF HasLoop /\ x.step = Fix THEN Review
        ELSE x.step + 1
  <2>1. FixesBefore(e, n + 1) = at.fixes
    BY <1>1, <1>3, <1>6
  <2> QED
    BY <1>3, <2>1 DEF Calls
<1>9a. ASSUME to \in At, to.passed = ReviewSaid(e), to.fixes = FixesBefore(e, n + 2),
              to.pos # Astray => /\ Calls(e, n + 1) = to.pos
                                 /\ HasLoop /\ x.step = Review => x.verdict # "none"
       PROVE  Followed(e)
  <2>1. Len(e) = n + 1 /\ Len(e) + 1 = n + 2 /\ Last(e) = x
    BY <1>3 DEF Last
  <2> QED
    BY <1>3, <1>8, <1>9a, <2>1 DEF Followed, to
<1>10. CASE HasLoop /\ x.step = Review
  <2>1. to = [at EXCEPT !.passed = x.verdict, !.pos = said]
    BY <1>2, <1>4, <1>10 DEF After
  <2>2. said \in 0 .. Len(Kinds) + 1
    BY <1>10, RecipeTypes DEF Astray
  <2>3. said # Astray => x.verdict # "none"
    OBVIOUS
  <2>4. said # Astray => said = Calls(e, n + 1)
    BY <1>9, <1>10, <2>3
  <2> HIDE DEF said
  <2>5. to \in At /\ to.pos = said /\ to.passed = x.verdict /\ to.fixes = at.fixes
    BY <1>1, <1>4, <2>1, <2>2 DEF At
  <2>6. x.step # Fix
    BY <1>10, RecipeTypes
  <2> QED
    BY <1>5, <1>6, <1>7, <1>9a, <1>10, <2>3, <2>4, <2>5, <2>6 DEF e
<1>11. CASE HasLoop /\ x.step = Fix
  <2>1. x.step # Review
    BY <1>11, RecipeTypes
  <2>2. to = [at EXCEPT !.pos = Review, !.fixes = at.fixes + 1]
    BY <1>2, <1>4, <1>11, <2>1 DEF After
  <2>3. to \in At /\ to.pos = Review /\ to.passed = at.passed /\ to.fixes = at.fixes + 1
    <3>1. Review \in 0 .. Len(Kinds) + 1 /\ at.fixes + 1 \in Nat
      BY <1>5, <1>11, RecipeTypes
    <3> QED
      BY <1>1, <2>2, <3>1 DEF At
  <2> QED
    BY <1>5, <1>6, <1>7, <1>9, <1>9a, <1>11, <2>1, <2>3 DEF e
<1>12. CASE ~(HasLoop /\ x.step \in {Review, Fix})
  <2>1. to = [at EXCEPT !.pos = at.pos + 1]
    BY <1>2, <1>4, <1>12 DEF After
  <2>2. to \in At /\ to.pos = at.pos + 1 /\ to.passed = at.passed /\ to.fixes = at.fixes
    BY <1>1, <1>4, <1>5, <2>1, RecipeTypes DEF At
  <2> QED
    BY <1>4, <1>5, <1>6, <1>7, <1>9, <1>9a, <1>12, <2>2 DEF e
<1> QED
  BY <1>10, <1>11, <1>12

-----------------------------------------------------------------------------
\* What updates of the tasks and of the row need to know about them.
Shape ==
  /\ DOMAIN tasks = Tasks
  /\ \A t \in Tasks : "pc" \in DOMAIN tasks[t]
  /\ "state" \in DOMAIN row

AnswerComing == "answer" \in requests

Claim ==
  \/ approval = "approved"
  \/ loop = "marked"
  \/ row.state \in {"waiting", "answered"}
  \/ AnswerComing

OneClaim ==
  /\ approval = "approved" => row.state = "none" /\ loop = "idle" /\ requests = {}
  /\ loop = "marked" => row.state \notin {"waiting", "answered"} /\ ~AnswerComing
  /\ AnswerComing => row.state # "answered"

IInv ==
  /\ Shape
  /\ OneAtWork
  /\ Claim => AtWork = {}
  /\ OneClaim

-----------------------------------------------------------------------------
\* What any step of a task does to what IInv speaks of: the task is not idle, no
\* other task moves, and the row comes to wait or be answered only as the task
\* goes off work.
TaskStep(t) ==
  /\ tasks[t].pc # "idle"
  /\ DOMAIN tasks' = Tasks
  /\ "pc" \in DOMAIN tasks'[t]
  /\ \A u \in Tasks \ {t} : tasks'[u] = tasks[u]
  /\ "state" \in DOMAIN row'
  /\ loop' = loop /\ requests' = requests
  /\ approval' = approval \/ approval' # "approved"
  /\ tasks[t].pc = "leaving" =>
       tasks'[t].pc = "idle" /\ row' = row /\ approval' = approval
  /\ \/ row' = row
     \/ row'.state \notin {"waiting", "answered"}
     \/ tasks'[t].pc = "leaving"

LEMMA WorkStep ==
  ASSUME Shape, NEW t \in Tasks, Work(t)
  PROVE  TaskStep(t)
<1>1. CASE ReportFailed(t) \/ ReportExecuted(t)
  BY <1>1 DEF Shape, ReportFailed, ReportExecuted, Goto, Idle, TaskStep
<1>2. CASE InsertRow(t)
  BY <1>2 DEF Shape, InsertRow, Goto, TaskStep
<1>3. CASE Begin(t) \/ AllDone(t)
  BY <1>3 DEF Shape, Begin, AllDone, Goto, TaskStep, disk
<1>4. CASE Prepare(t)
  BY <1>4 DEF Shape, Prepare, Load, TaskStep
<1>5. CASE PrepareFails(t) \/ StopSeen(t) \/ CannotGoOn(t) \/ NothingToPush(t) \/ BundleFails(t)
  BY <1>5 DEF Shape, PrepareFails, StopSeen, CannotGoOn, NothingToPush, BundleFails, EndAs,
              TaskStep, disk
<1>6. CASE StartStep(t)
  BY <1>6 DEF Shape, StartStep, TaskStep
<1>7. CASE GateRefuses(t) \/ SessionCancelled(t) \/ SessionFails(t)
  BY <1>7 DEF Shape, GateRefuses, SessionCancelled, SessionFails, EndAs, TaskStep
<1>8. CASE Admit(t)
  BY <1>8 DEF Shape, Admit, Goto, EndAs, TaskStep, disk
<1>9. CASE SessionAsks(t) \/ SessionDone(t)
  BY <1>9 DEF Shape, SessionAsks, SessionDone, Goto, TaskStep
<1>10. CASE Receive(t)
  BY <1>10 DEF Shape, Receive, Goto, TaskStep
<1>11. CASE ProposePush(t) \/ ProposeRequest(t)
  BY <1>11 DEF Shape, ProposePush, ProposeRequest, Goto, EndAs, TaskStep
<1>12. CASE RemoveWorkspace(t)
  BY <1>12 DEF Shape, RemoveWorkspace, Goto, TaskStep
<1>13. CASE Pause(t) \/ Close(t)
  BY <1>13 DEF Shape, Pause, Close, Goto, TaskStep
<1>14. CASE Leave(t)
  BY <1>14 DEF Shape, Leave, Idle, TaskStep, disk
<1> QED
  BY <1>1, <1>2, <1>3, <1>4, <1>5, <1>6, <1>7, <1>8, <1>9, <1>10, <1>11, <1>12, <1>13, <1>14
     DEF Work

\* A task at work leaves no claim, so its step can only end the work or hand on
\* the only one.
LEMMA WorkKeeps ==
  ASSUME IInv, NEW t \in Tasks, Work(t)
  PROVE  IInv'
<1>1. TaskStep(t)
  BY WorkStep DEF IInv
<1>2. Shape'
  BY <1>1 DEF IInv, Shape, TaskStep
<1>3. AtWork' \subseteq AtWork \union {t}
  BY <1>1 DEF AtWork, TaskStep
<1>4. CASE tasks[t].pc = "leaving"
  <2>1. AtWork' = AtWork
    BY <1>1, <1>4 DEF AtWork, TaskStep
  <2>2. OneAtWork'
    BY <2>1 DEF IInv, OneAtWork
  <2>3. Claim' = Claim /\ OneClaim' = OneClaim
    BY <1>1, <1>4 DEF Claim, OneClaim, AnswerComing, TaskStep
  <2> QED
    BY <1>2, <2>1, <2>2, <2>3 DEF IInv
<1>5. CASE tasks[t].pc # "leaving"
  <2>1. t \in AtWork
    BY <1>1, <1>5 DEF AtWork, TaskStep
  <2>2. AtWork = {t}
    BY <2>1 DEF IInv, OneAtWork
  <2>3. ~Claim
    BY <2>1 DEF IInv
  <2>4. OneAtWork'
    BY <1>3, <2>2 DEF OneAtWork
  <2>5. Claim' => AtWork' = {}
    <3>1. ASSUME Claim' PROVE tasks'[t].pc = "leaving"
      BY <1>1, <2>3, <3>1 DEF Claim, AnswerComing, TaskStep
    <3>2. tasks'[t].pc = "leaving" => t \notin AtWork'
      BY DEF AtWork
    <3> QED
      BY <1>3, <2>2, <3>1, <3>2
  <2>6. OneClaim'
    BY <1>1, <2>3 DEF OneClaim, Claim, AnswerComing, TaskStep
  <2> QED
    BY <1>2, <2>4, <2>5, <2>6 DEF IInv
<1> QED
  BY <1>4, <1>5

-----------------------------------------------------------------------------
\* A spawned task is at work, and was idle.
LEMMA SpawnStep ==
  ASSUME Shape, AtWork = {}, NEW pc \in PC \ {"idle", "leaving"}, Spawn(pc),
         UNCHANGED row
  PROVE  Shape' /\ OneAtWork'
<1>1. PICK t \in Tasks : tasks[t] = Idle /\ tasks' = [tasks EXCEPT ![t] = [Idle EXCEPT !.pc = pc]]
  BY DEF Spawn
<1>2. tasks' = [u \in Tasks |-> IF u = t THEN [Idle EXCEPT !.pc = pc] ELSE tasks[u]]
  BY <1>1 DEF Shape
<1>3. Shape'
  BY <1>2 DEF Shape, Idle
<1>4. \A u \in Tasks \ {t} : u \notin AtWork'
  BY <1>2 DEF AtWork
<1> QED
  BY <1>3, <1>4 DEF OneAtWork, AtWork

\* The loop gives a claim to one task, or turns one claim into another.
LEMMA LoopKeeps ==
  ASSUME IInv, Loop
  PROVE  IInv'
<1>1. CASE StartApproved
  <2>1. AtWork = {} /\ row.state = "none" /\ loop = "idle" /\ requests = {}
    BY <1>1 DEF StartApproved, IInv, Claim, OneClaim
  <2>2. Shape' /\ OneAtWork'
    BY <1>1, <2>1, SpawnStep DEF StartApproved, IInv, PC
  <2>3. ~Claim' /\ OneClaim'
    BY <1>1, <2>1 DEF StartApproved, Claim, OneClaim, AnswerComing
  <2> QED
    BY <2>2, <2>3 DEF IInv
<1>2. CASE MarkAnswered
  <2>1. AtWork' = {} /\ Shape'
    BY <1>2 DEF MarkAnswered, IInv, Claim, AtWork, Shape
  <2>2. approval # "approved" /\ ~AnswerComing
    BY <1>2 DEF MarkAnswered, IInv, OneClaim
  <2>3. OneClaim'
    BY <1>2, <2>2 DEF MarkAnswered, IInv, OneClaim, AnswerComing, Shape
  <2> QED
    BY <2>1, <2>3 DEF IInv, OneAtWork
<1>3. CASE ResumeAnswered
  <2>1. /\ AtWork = {} /\ approval # "approved" /\ ~AnswerComing
        /\ row.state \notin {"waiting", "answered"}
    BY <1>3 DEF ResumeAnswered, IInv, Claim, OneClaim
  <2>2. Shape' /\ OneAtWork'
    BY <1>3, <2>1, SpawnStep DEF ResumeAnswered, IInv, PC, disk
  <2>3. ~Claim' /\ OneClaim'
    BY <1>3, <2>1 DEF ResumeAnswered, Claim, OneClaim, AnswerComing, disk
  <2> QED
    BY <2>2, <2>3 DEF IInv
<1>4. CASE ResumeFails
  <2>1. AtWork' = {} /\ Shape'
    BY <1>4 DEF ResumeFails, IInv, Claim, AtWork, Shape
  <2>2. approval # "approved" /\ ~AnswerComing
    BY <1>4 DEF ResumeFails, IInv, OneClaim
  <2>3. OneClaim'
    BY <1>4, <2>2 DEF ResumeFails, OneClaim, AnswerComing
  <2> QED
    BY <2>1, <2>3 DEF IInv, OneAtWork
<1> QED
  BY <1>1, <1>2, <1>3, <1>4 DEF Loop

-----------------------------------------------------------------------------
\* The user's requests move no task, and pass a claim on or give it up.
LEMMA UserKeeps ==
  ASSUME IInv, User
  PROVE  IInv'
<1>1. AtWork' = AtWork /\ OneAtWork'
  BY DEF User, Stop, StopWaiting, StopIsFiled, Answer, AnswerIsFiled, AtWork, IInv, OneAtWork
<1>2. CASE Stop
  BY <1>1, <1>2 DEF Stop, IInv, Shape, Claim, OneClaim, AnswerComing, disk
<1>3. CASE StopWaiting
  <2>1. AnswerComing' = AnswerComing
    BY <1>3 DEF StopWaiting, AnswerComing
  <2> QED
    BY <1>1, <1>3, <2>1 DEF StopWaiting, IInv, Shape, Claim, OneClaim
<1>4. CASE StopIsFiled
  <2>1. AnswerComing' = AnswerComing
    BY <1>4 DEF StopIsFiled, AnswerComing
  <2>2. approval # "approved"
    BY <1>4 DEF StopIsFiled, IInv, OneClaim
  <2>3. Shape' /\ row'.state = "stopped"
    BY <1>4 DEF StopIsFiled, IInv, Shape
  <2>4. OneClaim'
    BY <1>4, <2>1, <2>2, <2>3 DEF StopIsFiled, IInv, OneClaim
  <2>5. Claim' => Claim
    BY <1>4, <2>1, <2>3 DEF StopIsFiled, Claim
  <2> QED
    BY <1>1, <2>3, <2>4, <2>5 DEF IInv
<1>5. CASE Answer
  <2>1. row.state = "waiting" /\ approval # "approved" /\ loop # "marked"
    BY <1>5 DEF Answer, IInv, OneClaim
  <2>2. AtWork = {}
    BY <2>1 DEF IInv, Claim
  <2>3. Shape' /\ OneClaim'
    BY <1>5, <2>1 DEF Answer, IInv, Shape, OneClaim
  <2> QED
    BY <1>1, <2>2, <2>3 DEF IInv
<1>6. CASE AnswerIsFiled
  <2>1. AtWork = {} /\ approval # "approved" /\ loop # "marked"
    BY <1>6 DEF AnswerIsFiled, IInv, Claim, OneClaim, AnswerComing
  <2>2. Shape' /\ ~AnswerComing'
    BY <1>6 DEF AnswerIsFiled, IInv, Shape, AnswerComing
  <2>3. OneClaim'
    BY <1>6, <2>1, <2>2 DEF AnswerIsFiled, OneClaim
  <2> QED
    BY <1>1, <2>1, <2>2, <2>3 DEF IInv
<1> QED
  BY <1>2, <1>3, <1>4, <1>5, <1>6 DEF User

LEMMA RestartKeeps ==
  ASSUME IInv, Restart
  PROVE  IInv'
<1>1. AtWork' = {}
  BY DEF Restart, AtWork, Idle
<1>2. Shape'
  BY DEF Restart, IInv, Shape, Idle
<1>3. OneClaim'
  BY DEF Restart, IInv, OneClaim, AnswerComing
<1> QED
  BY <1>1, <1>2, <1>3 DEF IInv, OneAtWork

-----------------------------------------------------------------------------
LEMMA InitHolds == Init => IInv
  BY DEF Init, IInv, Shape, OneAtWork, AtWork, Claim, OneClaim, AnswerComing, Idle

LEMMA StepKeeps == IInv /\ [Next]_vars => IInv'
<1> SUFFICES ASSUME IInv, [Next]_vars PROVE IInv'
  OBVIOUS
<1>1. CASE UNCHANGED vars
  BY <1>1 DEF vars, disk, memory, IInv, Shape, OneAtWork, AtWork, Claim, OneClaim, AnswerComing
<1>2. CASE Sweep
  BY <1>2 DEF Sweep, IInv, Shape, OneAtWork, AtWork, Claim, OneClaim, AnswerComing
<1> QED
  BY <1>1, <1>2, WorkKeeps, LoopKeeps, UserKeeps, RestartKeeps DEF Next

\* Whatever is answered, stopped and restarted, one task at most is at work
\* (resume_answered marks the row before anything else, take spends the token).
THEOREM OneTaskAtWork == Spec => []OneAtWork
<1>1. IInv => OneAtWork
  BY DEF IInv
<1> QED
  BY <1>1, InitHolds, StepKeeps, PTL DEF Spec

-----------------------------------------------------------------------------
(* What the record says of the work, for the four properties.              *)

\* Nothing works on it, and nothing is about to.
Over == ~Claim /\ AtWork = {}

NewestIn(states) == steps # <<>> /\ steps[Len(steps)].state \in states

\* Only the newest record is open, and a record that is open or was answered is
\* the turn that is due.
History ==
  LET at == Stand(DoneIn(steps)) IN
  /\ Followed(DoneIn(steps))
  /\ \A k \in 1 .. Len(steps) - 1 :
       /\ steps[k].state \notin {"running", "waiting"}
       /\ steps[k].state = "answered" =>
            steps[k + 1].step = steps[k].step /\ steps[k + 1].round = steps[k].round
  /\ NewestIn({"running", "waiting", "answered"}) =>
       steps[Len(steps)].step = at.pos /\ steps[Len(steps)].round = RoundAt(at)

Carried(t) == CarriedOut(DoneIn(steps)) /\ tasks[t].passed = ReviewSaid(DoneIn(steps))

\* The task knows what is on record.
AtHand(t) == tasks[t].seq = Len(steps) /\ tasks[t].done = DoneIn(steps)

\* What a task may rely on, by where it is.
Stage(t) ==
  LET pc == tasks[t].pc IN
  /\ pc \in {"pinning", "recording", "beginning", "preparing", "choosing"} =>
       ~NewestIn({"running", "waiting"})
  /\ pc \in {"choosing", "admitting", "session"} => AtHand(t)
  /\ pc \in {"admitting", "session"} => NewestIn({"running"})
  /\ pc = "pausing" => NewestIn({"waiting"}) /\ workspace
  /\ pc \in {"bundling", "pushing", "requesting"} => Carried(t)
  /\ pc \in {"cleaning", "closing"} =>
       tasks[t].ending \in Ended /\ (tasks[t].ending = "finished" => Carried(t))
  /\ pc = "requesting" => proposals = <<"push">>
  /\ pc \notin {"idle", "leaving", "cleaning", "closing", "requesting"} => proposals = <<>>

Proposed ==
  /\ proposals \in {<<>>, <<"push">>, <<"push", "request">>}
  /\ proposals # <<>> => CarriedOut(DoneIn(steps))

\* What the row, the claims and the record have to do with each other.
Rows ==
  /\ approval = "approved" => steps = <<>>
  /\ row.state = "waiting" => NewestIn({"waiting", "answered"})
  /\ row.state = "answered" \/ AnswerComing \/ loop = "marked" => NewestIn({"answered"})
  /\ Claim => proposals = <<>>
  /\ row.state = "finished" =>
       /\ Over
       /\ CarriedOut(DoneIn(steps))
       /\ row.passed = ReviewSaid(DoneIn(steps))
  /\ sweeping => Over
  /\ (row.state \in {"waiting", "answered"} \/ AnswerComing) /\ "waiting" \notin stops => workspace

FInv ==
  /\ IInv
  /\ TypeOK
  /\ History
  /\ Proposed
  /\ Rows
  /\ \A t \in Tasks : Stage(t)

-----------------------------------------------------------------------------
(* Steps of a task at work. *)

\* Standing past the last step means the recipe was carried out.
LEMMA PastTheEnd ==
  ASSUME NEW d, Followed(d), Stand(d).pos > Len(Kinds)
  PROVE  CarriedOut(d) /\ Stand(d).passed = ReviewSaid(d)
<1>1. Stand(d).pos = Len(Kinds) + 1 /\ Stand(d).pos # Astray
  BY RecipeTypes DEF Followed, At, Astray
<1>2. d # <<>>
  BY <1>1, RecipeTypes DEF Followed
<1> QED
  BY <1>1, <1>2 DEF Followed, CarriedOut

LEMMA StandTypes ==
  ASSUME NEW d, Followed(d)
  PROVE  /\ d \in Seq(Done)
         /\ Stand(d).pos \in Nat /\ Stand(d).passed \in Verdicts
         /\ RoundAt(Stand(d)) \in Nat
<1>1. d \in Seq(Done) /\ Stand(d) \in At
  BY DEF Followed
<1>2. Stand(d).pos \in Nat /\ Stand(d).passed \in Verdicts /\ Stand(d).fixes \in Nat
  BY <1>1, RecipeTypes DEF At
<1> QED
  BY <1>1, <1>2 DEF RoundAt

\* A task at work is the only one, nobody has a claim and nothing is over.
LEMMA Alone ==
  ASSUME FInv, NEW t \in Tasks, tasks[t].pc \notin {"idle", "leaving"}
  PROVE  /\ AtWork = {t}
         /\ ~Claim /\ ~sweeping /\ row.state # "finished"
         /\ \A u \in Tasks \ {t} : tasks[u].pc \in {"idle", "leaving"}
<1>1. t \in AtWork
  BY DEF AtWork
<1>2. AtWork = {t}
  BY <1>1 DEF FInv, IInv, OneAtWork
<1>3. ~Claim /\ ~Over
  BY <1>1 DEF FInv, IInv, Over
<1>4. ~sweeping /\ row.state # "finished"
  BY <1>3 DEF FInv, Rows
<1> QED
  BY <1>2, <1>3, <1>4 DEF AtWork

LEMMA OffWork ==
  ASSUME NEW t \in Tasks, tasks[t].pc \in {"idle", "leaving"}
  PROVE  Stage(t)
BY DEF Stage

\* What is left to show of a step that leaves its task at work.
LEMMA AtWorkStep ==
  ASSUME FInv, NEW t \in Tasks, Work(t), tasks[t].pc \notin {"idle", "leaving"},
         TypeOK', History', Proposed', Stage(t)',
         tasks'[t].pc \notin {"idle", "leaving"},
         sweeping' = sweeping, row' = row \/ row'.state # "finished"
  PROVE  FInv'
<1>1. IInv' /\ TaskStep(t)
  BY WorkKeeps, WorkStep DEF FInv, IInv
<1>2. t \in AtWork'
  BY DEF AtWork
<1>3. ~Claim'
  BY <1>1, <1>2 DEF IInv
<1>4. ~sweeping' /\ row'.state # "finished"
  BY Alone
<1>5. Rows'
  BY <1>3, <1>4 DEF Rows, Claim, AnswerComing
<1>6. \A u \in Tasks : Stage(u)'
  <2> SUFFICES ASSUME NEW u \in Tasks, u # t PROVE Stage(u)'
    OBVIOUS
  <2>1. tasks'[u].pc \in {"idle", "leaving"}
    BY <1>1, Alone DEF TaskStep
  <2> QED
    BY <2>1 DEF Stage
<1> QED
  BY <1>1, <1>5, <1>6 DEF FInv

\* What is left to show of a step that takes its task off work.
LEMMA OffWorkStep ==
  ASSUME FInv, NEW t \in Tasks, Work(t),
         TypeOK', History', Proposed', Rows',
         tasks'[t].pc \in {"idle", "leaving"},
         \A u \in Tasks \ {t} : tasks[u].pc \in {"idle", "leaving"}
  PROVE  FInv'
<1>1. IInv' /\ TaskStep(t)
  BY WorkKeeps, WorkStep DEF FInv, IInv
<1>2. \A u \in Tasks : tasks'[u].pc \in {"idle", "leaving"}
  BY <1>1 DEF TaskStep
<1>3. \A u \in Tasks : Stage(u)'
  BY <1>2 DEF Stage
<1> QED
  BY <1>1, <1>3 DEF FInv

LEMMA SameHistory ==
  ASSUME History, UNCHANGED steps
  PROVE  History' /\ DoneIn(steps)' = DoneIn(steps)
BY DEF History, NewestIn

LEMMA EmptyHistory ==
  ASSUME steps = <<>>
  PROVE  History
<1>1. Len(steps) = 0 /\ ~NewestIn({"running", "waiting", "answered"})
  BY DEF NewestIn
<1>2. Followed(DoneIn(steps))
  BY DoneInEmpty, FollowedEmpty
<1> QED
  BY <1>1, <1>2 DEF History

\* The newest record gets another state, and the rest stays.
Marked(state) ==
  LET n == Len(steps) IN
  /\ steps # <<>> /\ n \in Nat /\ n # 0
  /\ steps' \in Seq(StepRecord) /\ Len(steps') = n
  /\ \A j \in 1 .. n : j # n => steps'[j] = steps[j]
  /\ steps'[n].step = steps[n].step /\ steps'[n].round = steps[n].round
  /\ steps'[n].state = state

LEMMA PutMarks ==
  ASSUME steps \in Seq(StepRecord), steps # <<>>, NEW state, NEW verdict \in Verdicts,
         state \in {"refused", "waiting", "answered", "cancelled", "failed", "done"},
         NEW s, s.state = state, s.verdict = verdict,
         Put(Len(steps), s)
  PROVE  Marked(state) /\ steps'[Len(steps)].verdict = verdict
<1> DEFINE n == Len(steps)
           x == steps[n]
           y == [x EXCEPT !.state = state, !.verdict = verdict]
<1>1. n \in Nat /\ n # 0 /\ n \in DOMAIN steps /\ x \in StepRecord
  OBVIOUS
<1>2. steps' = [steps EXCEPT ![n] = y]
  BY <1>1 DEF Put
<1>3. y \in StepRecord /\ y.state = state /\ y.verdict = verdict /\ y.step = x.step /\ y.round = x.round
  BY <1>1 DEF StepRecord
<1> HIDE DEF n, y
<1>4. steps' \in Seq(StepRecord) /\ Len(steps') = Len(steps) /\ steps'[n] = y
  BY <1>1, <1>2, <1>3
<1>5. \A j \in 1 .. n : j # n => steps'[j] = steps[j]
  BY <1>1, <1>2
<1> QED
  BY <1>1, <1>3, <1>4, <1>5 DEF Marked, n

\* A turn that ends without having done its step.
LEMMA MarkedHistory ==
  ASSUME History, steps \in Seq(StepRecord), NewestIn({"running", "waiting"}),
         NEW state, state # "done", Marked(state)
  PROVE  /\ History'
         /\ DoneIn(steps') = DoneIn(steps)
         /\ steps' # <<>> /\ steps'[Len(steps')].state = state
<1> DEFINE n == Len(steps)
<1>1. steps[n].state # "done" /\ n \in 1 .. n
  BY DEF NewestIn, Marked
<1>2. DoneIn(steps') = DoneIn(steps)
  BY <1>1, DoneInKept DEF Marked
<1>3. steps' # <<>> /\ steps'[Len(steps')].state = state
  BY <1>1 DEF Marked
<1>4. ASSUME NEW k \in 1 .. Len(steps') - 1
      PROVE  /\ steps'[k].state \notin {"running", "waiting"}
             /\ steps'[k].state = "answered" =>
                  steps'[k + 1].step = steps'[k].step /\ steps'[k + 1].round = steps'[k].round
  <2>1. k \in 1 .. n - 1 /\ k \in 1 .. n /\ k # n /\ k + 1 \in 1 .. n
    BY DEF Marked
  <2>2. steps'[k] = steps[k] /\ steps'[k + 1].step = steps[k + 1].step
        /\ steps'[k + 1].round = steps[k + 1].round
    BY <2>1 DEF Marked
  <2> QED
    BY <2>1, <2>2 DEF History
<1>5. /\ steps'[Len(steps')].step = Stand(DoneIn(steps)).pos
      /\ steps'[Len(steps')].round = RoundAt(Stand(DoneIn(steps)))
  BY DEF Marked, History, NewestIn
<1> QED
  BY <1>2, <1>3, <1>4, <1>5 DEF History

\* A turn that ends with its step done.
LEMMA DoneHistory ==
  ASSUME History, steps \in Seq(StepRecord), NewestIn({"running"}), Marked("done"),
         NEW x, x = [step |-> steps[Len(steps)].step, verdict |-> steps'[Len(steps)].verdict]
  PROVE  /\ History'
         /\ DoneIn(steps') = Append(DoneIn(steps), x)
         /\ steps'[Len(steps')].state = "done"
<1> DEFINE n == Len(steps)
           d == DoneIn(steps)
<1>1. steps[n].state = "running" /\ n \in 1 .. n /\ Len(steps') = n
  BY DEF NewestIn, Marked
<1>2. DoneIn(steps') = Append(d, x)
  BY <1>1, DoneInMore DEF Marked
<1>3. steps'[Len(steps')].state = "done"
  BY DEF Marked
<1>4. x \in Done /\ x.step = Stand(d).pos
  <2>1. steps[n] \in StepRecord /\ steps'[n] \in StepRecord
    BY <1>1 DEF Marked
  <2> QED
    BY <1>1, <2>1 DEF StepRecord, Done, History, NewestIn
<1>5. Followed(Append(d, x))
  BY <1>4, FollowedAppend DEF History
<1>6. ASSUME NEW k \in 1 .. Len(steps') - 1
      PROVE  /\ steps'[k].state \notin {"running", "waiting"}
             /\ steps'[k].state = "answered" =>
                  steps'[k + 1].step = steps'[k].step /\ steps'[k + 1].round = steps'[k].round
  <2>1. k \in 1 .. n - 1 /\ k \in 1 .. n /\ k # n /\ k + 1 \in 1 .. n
    BY DEF Marked
  <2>2. steps'[k] = steps[k] /\ steps'[k + 1].step = steps[k + 1].step
        /\ steps'[k + 1].round = steps[k + 1].round
    BY <2>1 DEF Marked
  <2> QED
    BY <2>1, <2>2 DEF History
<1> QED
  BY <1>2, <1>3, <1>5, <1>6 DEF History, NewestIn

\* A new turn, of the step that is due.
LEMMA AppendHistory ==
  ASSUME History, steps \in Seq(StepRecord), ~NewestIn({"running", "waiting"}),
         NEW s \in StepRecord, s.state = "running",
         s.step = Stand(DoneIn(steps)).pos, s.round = RoundAt(Stand(DoneIn(steps))),
         steps' = Append(steps, s)
  PROVE  /\ History'
         /\ DoneIn(steps') = DoneIn(steps)
         /\ steps' # <<>> /\ steps'[Len(steps')].state = "running"
<1> DEFINE n == Len(steps)
<1>1. /\ n \in Nat /\ Len(steps') = n + 1 /\ steps'[n + 1] = s /\ steps' # <<>>
      /\ steps' \in Seq(StepRecord)
      /\ \A j \in 1 .. n : steps'[j] = steps[j]
  OBVIOUS
<1>2. DoneIn(steps') = DoneIn(steps)
  <2>1. n + 1 \in Nat /\ Len(steps') = Len(steps) + 1 /\ n + 1 = Len(steps') /\ s.state # "done"
    BY <1>1
  <2> QED
    BY <1>1, <2>1, DoneInKept
<1>3. ASSUME NEW k \in 1 .. Len(steps') - 1
      PROVE  /\ steps'[k].state \notin {"running", "waiting"}
             /\ steps'[k].state = "answered" =>
                  steps'[k + 1].step = steps'[k].step /\ steps'[k + 1].round = steps'[k].round
  <2>1. k \in 1 .. n /\ steps'[k] = steps[k]
    BY <1>1
  <2>2. CASE k = n
    BY <1>1, <2>1, <2>2 DEF History, NewestIn
  <2>3. CASE k # n
    <3>1. k \in 1 .. Len(steps) - 1 /\ k + 1 \in 1 .. n
      BY <1>1, <2>1, <2>3
    <3> QED
      BY <1>1, <2>1, <3>1 DEF History
  <2> QED
    BY <2>2, <2>3
<1> QED
  BY <1>1, <1>2, <1>3 DEF History, NewestIn

-----------------------------------------------------------------------------
(* The steps of a task, one by one. *)

LEMMA GotoTask ==
  ASSUME TypeOK, NEW t \in Tasks, NEW pc \in PC, Goto(t, pc)
  PROVE  /\ tasks' \in [Tasks -> Task]
         /\ tasks'[t].pc = pc
         /\ tasks'[t].seq = tasks[t].seq /\ tasks'[t].done = tasks[t].done
         /\ tasks'[t].passed = tasks[t].passed /\ tasks'[t].ending = tasks[t].ending
<1>1. tasks \in [Tasks -> Task] /\ tasks[t] \in Task
  BY DEF TypeOK
<1>2. [tasks[t] EXCEPT !.pc = pc] \in Task
  BY <1>1 DEF Task
<1>3. tasks' = [tasks EXCEPT ![t] = [tasks[t] EXCEPT !.pc = pc]]
  BY DEF Goto
<1> QED
  BY <1>1, <1>2, <1>3 DEF Task

LEMMA EndTask ==
  ASSUME TypeOK, NEW t \in Tasks, NEW ending \in Ended, EndAs(t, ending)
  PROVE  /\ tasks' \in [Tasks -> Task]
         /\ tasks'[t].pc = "cleaning" /\ tasks'[t].ending = ending
         /\ tasks'[t].passed = tasks[t].passed
<1>1. tasks \in [Tasks -> Task] /\ tasks[t] \in Task
  BY DEF TypeOK
<1>2. [tasks[t] EXCEPT !.pc = "cleaning", !.ending = ending] \in Task
  BY <1>1 DEF Task, PC
<1>3. tasks' = [tasks EXCEPT ![t] = [tasks[t] EXCEPT !.pc = "cleaning", !.ending = ending]]
  BY DEF EndAs
<1> QED
  BY <1>1, <1>2, <1>3 DEF Task

\* The work ends otherwise than finished, and the record stays as it is.
LEMMA EndsUnfinished ==
  ASSUME FInv, NEW t \in Tasks, Work(t), tasks[t].pc \notin {"idle", "leaving"},
         NEW ending \in {"failed", "stopped"}, EndAs(t, ending),
         UNCHANGED <<disk, loop, requests, sweeping, stops>>, exec' = exec
  PROVE  FInv'
<1>1. /\ tasks' \in [Tasks -> Task]
      /\ tasks'[t].pc = "cleaning" /\ tasks'[t].ending = ending
  BY EndTask DEF FInv, Ended
<1>2. TypeOK'
  BY <1>1 DEF FInv, TypeOK, disk
<1>3. History' /\ Proposed'
  BY DEF FInv, History, NewestIn, Proposed, disk
<1>4. Stage(t)'
  BY <1>1 DEF Stage, Ended
<1> QED
  BY <1>1, <1>2, <1>3, <1>4, AtWorkStep DEF disk

LEMMA BeginsKeep ==
  ASSUME FInv, NEW t \in Tasks, ReportExecuted(t) \/ InsertRow(t) \/ Begin(t)
  PROVE  FInv'
<1>1. Work(t) /\ tasks[t].pc \in {"pinning", "recording", "beginning"}
  BY DEF Work, ReportExecuted, InsertRow, Begin
<1>2. PICK pc \in {"recording", "beginning", "preparing"} : Goto(t, pc)
  BY DEF ReportExecuted, InsertRow, Begin
<1>3. tasks' \in [Tasks -> Task] /\ tasks'[t].pc = pc
  BY <1>2, GotoTask DEF FInv, PC
<1>4. steps' = steps /\ proposals' = proposals /\ sweeping' = sweeping
  BY DEF ReportExecuted, InsertRow, Begin, disk
<1>5. row' = row \/ row' = [row EXCEPT !.state = "running"]
  BY DEF ReportExecuted, InsertRow, Begin, disk
<1>6. row' \in Row /\ (row' = row \/ row'.state # "finished")
  BY <1>5 DEF FInv, TypeOK, Row
<1>7. TypeOK'
  BY <1>3, <1>6 DEF FInv, TypeOK, Approval, ReportExecuted, InsertRow, Begin, disk
<1>8. History' /\ Proposed'
  BY <1>4, SameHistory DEF FInv, Proposed
<1>9. Stage(t)'
  <2>1. ~NewestIn({"running", "waiting"}) /\ proposals = <<>>
    BY <1>1 DEF FInv, Stage
  <2> QED
    BY <1>3, <1>4, <2>1 DEF Stage, NewestIn
<1> QED
  BY <1>1, <1>3, <1>4, <1>6, <1>7, <1>8, <1>9, AtWorkStep

LEMMA ReportFailedKeeps ==
  ASSUME FInv, NEW t \in Tasks, ReportFailed(t)
  PROVE  FInv'
<1>1. Work(t) /\ tasks[t].pc = "pinning"
  BY DEF Work, ReportFailed
<1>2. tasks' = [tasks EXCEPT ![t] = Idle] /\ Idle \in Task
  BY DEF ReportFailed, Idle, Task, PC, Verdicts
<1>3. TypeOK' /\ tasks'[t].pc = "idle"
  BY <1>2 DEF FInv, TypeOK, Approval, ReportFailed, Idle
<1>4. History' /\ Proposed'
  BY SameHistory DEF FInv, Proposed, ReportFailed
<1>5. /\ AtWork = {t} /\ ~Claim /\ ~sweeping /\ row.state # "finished"
      /\ \A u \in Tasks \ {t} : tasks[u].pc \in {"idle", "leaving"}
  BY <1>1, Alone
<1>6. Rows'
  BY <1>5 DEF Rows, Claim, AnswerComing, ReportFailed
<1> QED
  BY <1>1, <1>3, <1>4, <1>5, <1>6, OffWorkStep

LEMMA PrepareKeeps ==
  ASSUME FInv, NEW t \in Tasks, Prepare(t)
  PROVE  FInv'
<1>1. Work(t) /\ tasks[t].pc = "preparing"
  BY DEF Work, Prepare
<1>2. steps' = steps /\ proposals' = proposals /\ sweeping' = sweeping
  BY DEF Prepare
<1>3. row' \in Row /\ row'.state # "finished" /\ workspace' \in BOOLEAN
  BY DEF Prepare, Row, Verdicts, FInv, TypeOK
<1>4. History' /\ Proposed'
  BY <1>2, SameHistory DEF FInv, Proposed
<1>5. /\ tasks' \in [Tasks -> Task] /\ tasks'[t].pc = "choosing"
      /\ tasks'[t].done = DoneIn(steps) /\ tasks'[t].seq = Len(steps)
  <2>1. tasks \in [Tasks -> Task] /\ tasks[t] \in Task
    BY DEF FInv, TypeOK
  <2>2. DoneIn(steps) \in Seq(Done) /\ Len(steps) \in Nat
    BY StandTypes DEF FInv, History, TypeOK
  <2>3. Load(t) \in Task
    BY <2>1, <2>2 DEF Load, Task, PC
  <2>4. tasks' = [tasks EXCEPT ![t] = Load(t)]
    BY DEF Prepare
  <2> HIDE DEF Load
  <2>5. tasks' \in [Tasks -> Task] /\ tasks'[t] = Load(t)
    BY <2>1, <2>3, <2>4
  <2>6. /\ Load(t).pc = "choosing" /\ Load(t).done = DoneIn(steps) /\ Load(t).seq = Len(steps)
    BY <2>1 DEF Load, Task
  <2> QED
    BY <2>5, <2>6
<1>6. TypeOK'
  BY <1>3, <1>5 DEF FInv, TypeOK, Prepare
<1>7. Stage(t)'
  <2>1. ~NewestIn({"running", "waiting"}) /\ proposals = <<>>
    BY <1>1 DEF FInv, Stage
  <2> QED
    BY <1>2, <1>5, <2>1 DEF Stage, NewestIn, AtHand
<1> QED
  BY <1>1, <1>2, <1>3, <1>4, <1>5, <1>6, <1>7, AtWorkStep

LEMMA UnfinishedKeep ==
  ASSUME FInv, NEW t \in Tasks,
         PrepareFails(t) \/ StopSeen(t) \/ CannotGoOn(t) \/ BundleFails(t)
  PROVE  FInv'
<1>1. Work(t) /\ tasks[t].pc \notin {"idle", "leaving"}
  BY DEF Work, PrepareFails, StopSeen, CannotGoOn, BundleFails
<1>2. /\ \E ending \in {"failed", "stopped"} : EndAs(t, ending)
      /\ UNCHANGED <<disk, loop, requests, sweeping, stops>> /\ exec' = exec
  BY DEF PrepareFails, StopSeen, CannotGoOn, BundleFails
<1> QED
  BY <1>1, <1>2, EndsUnfinished

LEMMA StartStepKeeps ==
  ASSUME FInv, NEW t \in Tasks, StartStep(t)
  PROVE  FInv'
<1> DEFINE at == Stand(tasks[t].done)
           s == [step |-> at.pos, round |-> RoundAt(at), verdict |-> "none", state |-> "running"]
<1>1. Work(t) /\ tasks[t].pc = "choosing"
  BY DEF Work, StartStep
<1>2. /\ ~NewestIn({"running", "waiting"}) /\ proposals = <<>>
      /\ tasks[t].seq = Len(steps) /\ tasks[t].done = DoneIn(steps)
  BY <1>1 DEF FInv, Stage, AtHand
<1>3. steps \in Seq(StepRecord) /\ Len(steps) \in Nat
  BY DEF FInv, TypeOK
<1>4. s \in StepRecord
  <2>1. RoundAt(at) \in Nat
    BY <1>2, StandTypes DEF FInv, History
  <2> QED
    BY <2>1 DEF StartStep, StepRecord, Verdicts
<1>5. s.state = "running" /\ s.step = at.pos /\ s.round = RoundAt(at)
  OBVIOUS
<1>6. steps' = Append(steps, s)
  <2>1. Put(tasks[t].seq + 1, s)
    BY DEF StartStep
  <2> HIDE DEF s
  <2> QED
    BY <1>2, <1>3, <2>1 DEF Put
<1> HIDE DEF s
<1>7. /\ History' /\ DoneIn(steps') = DoneIn(steps)
      /\ steps' # <<>> /\ steps'[Len(steps')].state = "running"
  BY <1>2, <1>3, <1>4, <1>5, <1>6, AppendHistory DEF FInv
<1>8. Len(steps') = Len(steps) + 1 /\ steps' \in Seq(StepRecord)
  BY <1>3, <1>4, <1>6
<1>9. /\ tasks' \in [Tasks -> Task] /\ tasks'[t].pc = "admitting"
      /\ tasks'[t].seq = Len(steps') /\ tasks'[t].done = tasks[t].done
  <2>1. tasks \in [Tasks -> Task] /\ tasks[t] \in Task
    BY DEF FInv, TypeOK
  <2> DEFINE z == [tasks[t] EXCEPT !.pc = "admitting", !.seq = Len(steps) + 1]
  <2>2. z \in Task /\ z.pc = "admitting" /\ z.seq = Len(steps) + 1 /\ z.done = tasks[t].done
    <3>1. Len(steps) + 1 \in Nat
      BY <1>3
    <3> QED
      BY ONLY <2>1, <3>1 DEF Task, PC
  <2>3. tasks' = [tasks EXCEPT ![t] = z]
    BY <1>2 DEF StartStep
  <2> HIDE DEF z
  <2> QED
    BY <1>8, <2>1, <2>2, <2>3
<1>10. row' = row /\ proposals' = proposals /\ sweeping' = sweeping
  BY DEF StartStep
<1>11. TypeOK'
  BY <1>8, <1>9 DEF FInv, TypeOK, StartStep
<1>12. Proposed'
  BY <1>2, <1>10 DEF Proposed
<1>13. Stage(t)'
  BY <1>2, <1>7, <1>9, <1>10 DEF Stage, NewestIn, AtHand
<1> QED
  BY <1>1, <1>7, <1>9, <1>10, <1>11, <1>12, <1>13, AtWorkStep

LEMMA AllDoneKeeps ==
  ASSUME FInv, NEW t \in Tasks, AllDone(t)
  PROVE  FInv'
<1> DEFINE at == Stand(tasks[t].done)
<1>1. Work(t) /\ tasks[t].pc = "choosing"
  BY DEF Work, AllDone
<1>2. proposals = <<>> /\ tasks[t].done = DoneIn(steps)
  BY <1>1 DEF FInv, Stage, AtHand
<1>3. /\ CarriedOut(DoneIn(steps)) /\ at.passed = ReviewSaid(DoneIn(steps))
      /\ at.passed \in Verdicts
  BY <1>2, PastTheEnd, StandTypes DEF FInv, History, AllDone
<1>4. tasks' \in [Tasks -> Task] /\ tasks'[t].pc = "bundling" /\ tasks'[t].passed = at.passed
  <2>1. tasks \in [Tasks -> Task] /\ tasks[t] \in Task
    BY DEF FInv, TypeOK
  <2> DEFINE z == [tasks[t] EXCEPT !.pc = "bundling", !.passed = at.passed]
  <2>2. z \in Task /\ z.pc = "bundling" /\ z.passed = at.passed
    BY <1>3, <2>1 DEF Task, PC
  <2>3. tasks' = [tasks EXCEPT ![t] = z]
    BY DEF AllDone
  <2> HIDE DEF z
  <2> QED
    BY <2>1, <2>2, <2>3
<1>5. UNCHANGED <<disk, exec, loop, requests, sweeping, stops>>
  BY DEF AllDone
<1>6. TypeOK'
  BY <1>4, <1>5 DEF FInv, TypeOK, disk
<1>7. History' /\ Proposed'
  BY <1>2, <1>5, SameHistory DEF FInv, Proposed, disk
<1>8. Stage(t)'
  BY <1>2, <1>3, <1>4, <1>5 DEF Stage, Carried, disk
<1> QED
  BY <1>1, <1>4, <1>5, <1>6, <1>7, <1>8, AtWorkStep DEF disk

\* Where a task works on its turn, the turn is the newest record and open.
LEMMA OnTurn ==
  ASSUME FInv, NEW t \in Tasks, tasks[t].pc \in {"admitting", "session"}
  PROVE  /\ NewestIn({"running"}) /\ NewestIn({"running", "waiting"})
         /\ tasks[t].seq = Len(steps) /\ tasks[t].done = DoneIn(steps)
         /\ Current(t) = steps[Len(steps)] /\ Current(t) \in StepRecord
         /\ steps \in Seq(StepRecord) /\ steps # <<>>
         /\ proposals = <<>>
<1>1. NewestIn({"running"}) /\ AtHand(t) /\ proposals = <<>>
  BY DEF FInv, Stage
<1>2. steps \in Seq(StepRecord) /\ steps # <<>>
  BY <1>1 DEF FInv, TypeOK, NewestIn
<1>3. NewestIn({"running", "waiting"})
  BY <1>1 DEF NewestIn
<1>4. steps[Len(steps)] \in StepRecord
  BY <1>2
<1> QED
  BY <1>1, <1>2, <1>3, <1>4 DEF AtHand, Current

\* The turn gets its outcome, other than done.
LEMMA TurnMarked ==
  ASSUME FInv, NEW t \in Tasks, tasks[t].pc \in {"admitting", "session"},
         NEW state \in {"refused", "waiting", "cancelled", "failed"},
         Put(tasks[t].seq, [Current(t) EXCEPT !.state = state])
  PROVE  /\ steps' \in Seq(StepRecord)
         /\ History'
         /\ steps' # <<>> /\ steps'[Len(steps')].state = state
<1> DEFINE s == [Current(t) EXCEPT !.state = state]
<1>1. Current(t) \in StepRecord /\ tasks[t].seq = Len(steps) /\ steps \in Seq(StepRecord)
      /\ steps # <<>> /\ NewestIn({"running", "waiting"})
  BY OnTurn
<1>2. s.state = state /\ s.verdict = Current(t).verdict /\ Current(t).verdict \in Verdicts
  BY <1>1 DEF StepRecord
<1>3. Put(Len(steps), s)
  BY <1>1
<1> HIDE DEF s
<1>4. Marked(state)
  BY <1>1, <1>2, <1>3, PutMarks
<1>5. state # "done"
  OBVIOUS
<1>6. /\ History'
      /\ steps' # <<>> /\ steps'[Len(steps')].state = state
  BY <1>1, <1>4, <1>5, MarkedHistory DEF FInv
<1> QED
  BY <1>4, <1>6 DEF Marked

\* The work ends because of how its turn ended.
LEMMA TurnEnds ==
  ASSUME FInv, NEW t \in Tasks, GateRefuses(t) \/ SessionCancelled(t) \/ SessionFails(t)
  PROVE  FInv'
<1>1. Work(t) /\ tasks[t].pc \in {"admitting", "session"}
  BY DEF Work, GateRefuses, SessionCancelled, SessionFails
<1>2. \E ending \in {"failed", "stopped"} : EndAs(t, ending)
  BY DEF GateRefuses, SessionCancelled, SessionFails
<1>3. /\ tasks' \in [Tasks -> Task]
      /\ tasks'[t].pc = "cleaning" /\ tasks'[t].ending \in {"failed", "stopped"}
  BY <1>2, EndTask DEF FInv, Ended
<1>4. \/ steps' = steps
      \/ \E state \in {"refused", "cancelled", "failed"} :
           Put(tasks[t].seq, [Current(t) EXCEPT !.state = state])
  BY DEF GateRefuses, SessionCancelled, SessionFails
<1>5. History' /\ steps' \in Seq(StepRecord)
  BY <1>1, <1>4, TurnMarked, SameHistory DEF FInv, TypeOK
<1>6. UNCHANGED <<approval, row, workspace, proposals, exec, loop, requests, sweeping, stops>>
  BY DEF GateRefuses, SessionCancelled, SessionFails
<1>7. TypeOK'
  BY <1>3, <1>5, <1>6 DEF FInv, TypeOK
<1>8. Proposed'
  BY <1>1, <1>6, OnTurn DEF Proposed
<1>9. Stage(t)'
  BY <1>3 DEF Stage, Ended
<1> QED
  BY <1>1, <1>3, <1>5, <1>6, <1>7, <1>8, <1>9, AtWorkStep

LEMMA AdmitKeeps ==
  ASSUME FInv, NEW t \in Tasks, Admit(t)
  PROVE  FInv'
<1>1. Work(t) /\ tasks[t].pc = "admitting"
  BY DEF Work, Admit
<1>2. UNCHANGED <<disk, exec, loop, requests, sweeping, stops>>
  BY DEF Admit
<1>3. CASE exec = "running"
  <2>1. Goto(t, "session")
    BY <1>3 DEF Admit
  <2>2. /\ tasks' \in [Tasks -> Task] /\ tasks'[t].pc = "session"
        /\ tasks'[t].seq = tasks[t].seq /\ tasks'[t].done = tasks[t].done
    BY <2>1, GotoTask DEF FInv, PC
  <2>3. TypeOK'
    BY <1>2, <2>2 DEF FInv, TypeOK, disk
  <2>4. History' /\ Proposed'
    BY <1>2, SameHistory DEF FInv, Proposed, disk
  <2>5. Stage(t)'
    BY <1>1, <1>2, <2>2, OnTurn DEF Stage, NewestIn, AtHand, disk
  <2> QED
    BY <1>1, <1>2, <2>2, <2>3, <2>4, <2>5, AtWorkStep DEF disk
<1>4. CASE exec # "running"
  <2>1. EndAs(t, "stopped")
    BY <1>4 DEF Admit
  <2> QED
    BY <1>1, <1>2, <2>1, EndsUnfinished
<1> QED
  BY <1>3, <1>4

LEMMA SessionAsksKeeps ==
  ASSUME FInv, NEW t \in Tasks, SessionAsks(t)
  PROVE  FInv'
<1>1. Work(t) /\ tasks[t].pc = "session" /\ workspace
  BY DEF Work, SessionAsks
<1>2. tasks' \in [Tasks -> Task] /\ tasks'[t].pc = "pausing"
  BY GotoTask DEF FInv, SessionAsks, PC
<1>3. /\ History' /\ steps' \in Seq(StepRecord)
      /\ steps' # <<>> /\ steps'[Len(steps')].state = "waiting"
  BY <1>1, TurnMarked DEF SessionAsks
<1>4. UNCHANGED <<approval, row, workspace, proposals, exec, loop, requests, sweeping, stops>>
  BY DEF SessionAsks
<1>5. TypeOK'
  BY <1>2, <1>3, <1>4 DEF FInv, TypeOK
<1>6. proposals = <<>>
  BY <1>1, OnTurn
<1>7. Proposed' /\ Stage(t)'
  BY <1>1, <1>2, <1>3, <1>4, <1>6 DEF Proposed, Stage, NewestIn
<1> QED
  BY <1>1, <1>2, <1>3, <1>4, <1>5, <1>7, AtWorkStep

LEMMA SessionDoneKeeps ==
  ASSUME FInv, NEW t \in Tasks, SessionDone(t)
  PROVE  FInv'
<1>1. Work(t) /\ tasks[t].pc = "session"
  BY DEF Work, SessionDone
<1>2. PICK verdict \in Verdicts :
        /\ Put(tasks[t].seq, [Current(t) EXCEPT !.state = "done", !.verdict = verdict])
        /\ tasks' = [tasks EXCEPT ![t].pc = "choosing",
                                  ![t].done = Append(@, [step |-> Current(t).step,
                                                         verdict |-> verdict])]
  BY DEF SessionDone, Verdicts
<1>3. /\ Current(t) = steps[Len(steps)] /\ Current(t) \in StepRecord
      /\ tasks[t].seq = Len(steps) /\ tasks[t].done = DoneIn(steps)
      /\ steps \in Seq(StepRecord) /\ steps # <<>>
      /\ NewestIn({"running"}) /\ proposals = <<>>
  BY <1>1, OnTurn
<1> DEFINE s == [Current(t) EXCEPT !.state = "done", !.verdict = verdict]
           x == [step |-> Current(t).step, verdict |-> verdict]
<1>4. s.state = "done" /\ s.verdict = verdict
  BY <1>3 DEF StepRecord
<1>5. Put(Len(steps), s)
  BY <1>2, <1>3
<1> HIDE DEF s
<1>6. Marked("done") /\ steps'[Len(steps)].verdict = verdict
  BY <1>3, <1>4, <1>5, PutMarks
<1>7. x = [step |-> steps[Len(steps)].step, verdict |-> steps'[Len(steps)].verdict]
  BY <1>3, <1>6
<1>8. x \in Done
  BY <1>3 DEF StepRecord, Done
<1> HIDE DEF x
<1>9. /\ History' /\ DoneIn(steps') = Append(DoneIn(steps), x)
      /\ steps'[Len(steps')].state = "done"
  BY <1>3, <1>6, <1>7, DoneHistory DEF FInv
<1>10. steps' \in Seq(StepRecord) /\ Len(steps') = Len(steps)
  BY <1>6 DEF Marked
<1>11. /\ tasks' \in [Tasks -> Task] /\ tasks'[t].pc = "choosing"
       /\ tasks'[t].seq = Len(steps') /\ tasks'[t].done = DoneIn(steps')
  <2>1. tasks \in [Tasks -> Task] /\ tasks[t] \in Task /\ tasks[t].done \in Seq(Done)
    BY DEF FInv, TypeOK, Task
  <2> DEFINE z == [tasks[t] EXCEPT !.pc = "choosing", !.done = Append(tasks[t].done, x)]
  <2>2. Append(tasks[t].done, x) \in Seq(Done)
    BY <1>8, <2>1
  <2>3. /\ z \in Task /\ z.pc = "choosing" /\ z.seq = tasks[t].seq
        /\ z.done = Append(tasks[t].done, x)
    BY ONLY <2>1, <2>2 DEF Task, PC
  <2>4. tasks' = [tasks EXCEPT ![t] = z]
    BY <1>2 DEF x
  <2> HIDE DEF z
  <2> QED
    BY <1>3, <1>9, <1>10, <2>1, <2>3, <2>4
<1>12. UNCHANGED <<approval, row, workspace, proposals, exec, loop, requests, sweeping, stops>>
  BY DEF SessionDone
<1>13. TypeOK'
  BY <1>10, <1>11, <1>12 DEF FInv, TypeOK
<1>14. Proposed' /\ Stage(t)'
  BY <1>3, <1>9, <1>11, <1>12 DEF Proposed, Stage, NewestIn, AtHand
<1> QED
  BY <1>1, <1>9, <1>11, <1>12, <1>13, <1>14, AtWorkStep

LEMMA NothingToPushKeeps ==
  ASSUME FInv, NEW t \in Tasks, NothingToPush(t)
  PROVE  FInv'
<1>1. Work(t) /\ tasks[t].pc = "bundling"
  BY DEF Work, NothingToPush
<1>2. UNCHANGED <<disk, exec, loop, requests, sweeping, stops>>
  BY DEF NothingToPush
<1>3. /\ tasks' \in [Tasks -> Task] /\ tasks'[t].pc = "cleaning"
      /\ tasks'[t].ending = "finished" /\ tasks'[t].passed = tasks[t].passed
  BY EndTask DEF FInv, NothingToPush, Ended
<1>4. TypeOK'
  BY <1>2, <1>3 DEF FInv, TypeOK, disk
<1>5. History' /\ Proposed'
  BY <1>2, SameHistory DEF FInv, Proposed, disk
<1>6. Stage(t)'
  <2>1. Carried(t)
    BY <1>1 DEF FInv, Stage
  <2> QED
    BY <1>2, <1>3, <2>1 DEF Stage, Carried, Ended, disk
<1> QED
  BY <1>1, <1>2, <1>3, <1>4, <1>5, <1>6, AtWorkStep DEF disk

LEMMA ReceiveKeeps ==
  ASSUME FInv, NEW t \in Tasks, Receive(t)
  PROVE  FInv'
<1>1. Work(t) /\ tasks[t].pc = "bundling"
  BY DEF Work, Receive
<1>2. /\ tasks' \in [Tasks -> Task] /\ tasks'[t].pc = "pushing"
      /\ tasks'[t].passed = tasks[t].passed
  BY GotoTask DEF FInv, Receive, PC
<1>3. /\ row' \in Row /\ row'.state # "finished"
      /\ steps' = steps /\ proposals' = proposals /\ sweeping' = sweeping
  BY DEF Receive, Row, FInv, TypeOK, Task
<1>4. TypeOK'
  BY <1>2, <1>3 DEF FInv, TypeOK, Receive
<1>5. History' /\ Proposed'
  BY <1>3, SameHistory DEF FInv, Proposed
<1>6. Stage(t)'
  <2>1. Carried(t) /\ proposals = <<>>
    BY <1>1 DEF FInv, Stage
  <2> QED
    BY <1>2, <1>3, <2>1 DEF Stage, Carried
<1> QED
  BY <1>1, <1>2, <1>3, <1>4, <1>5, <1>6, AtWorkStep

LEMMA ProposePushKeeps ==
  ASSUME FInv, NEW t \in Tasks, ProposePush(t)
  PROVE  FInv'
<1>1. Work(t) /\ tasks[t].pc = "pushing"
  BY DEF Work, ProposePush
<1>2. Carried(t) /\ proposals = <<>>
  BY <1>1 DEF FInv, Stage
<1>3. UNCHANGED <<approval, row, steps, workspace, exec, loop, requests, sweeping, stops>>
  BY DEF ProposePush
<1>4. /\ tasks' \in [Tasks -> Task] /\ tasks'[t].passed = tasks[t].passed
      /\ \/ tasks'[t].pc = "requesting"
         \/ tasks'[t].pc = "cleaning" /\ tasks'[t].ending = "finished"
  BY EndTask, GotoTask DEF FInv, ProposePush, Ended, PC
<1>5. proposals' = <<"push">>
  BY <1>2 DEF ProposePush
<1>6. TypeOK'
  BY <1>3, <1>4, <1>5 DEF FInv, TypeOK
<1>7. History' /\ Proposed'
  BY <1>2, <1>3, <1>5, SameHistory DEF FInv, Proposed, Carried
<1>8. Stage(t)'
  BY <1>2, <1>3, <1>4, <1>5 DEF Stage, Carried, Ended
<1>9. tasks'[t].pc \notin {"idle", "leaving"}
  BY <1>4
<1> QED
  BY <1>1, <1>3, <1>6, <1>7, <1>8, <1>9, AtWorkStep

LEMMA PushThenRequest == Append(<<"push">>, "request") = <<"push", "request">>
<1> DEFINE a == Append(<<"push">>, "request")
           b == <<"push", "request">>
<1>1. a \in Seq({"push", "request"}) /\ b \in Seq({"push", "request"})
  OBVIOUS
<1>2. /\ Len(a) = 2 /\ a[1] = "push" /\ a[2] = "request"
      /\ Len(b) = 2 /\ b[1] = "push" /\ b[2] = "request"
  OBVIOUS
<1>3. \A i \in 1 .. Len(a) : a[i] = b[i]
  BY <1>2
<1> QED
  BY ONLY <1>1, <1>2, <1>3, SeqEqual

LEMMA ProposeRequestKeeps ==
  ASSUME FInv, NEW t \in Tasks, ProposeRequest(t)
  PROVE  FInv'
<1>1. Work(t) /\ tasks[t].pc = "requesting"
  BY DEF Work, ProposeRequest
<1>2. Carried(t) /\ proposals = <<"push">>
  BY <1>1 DEF FInv, Stage
<1>3. UNCHANGED <<approval, row, steps, workspace, exec, loop, requests, sweeping, stops>>
  BY DEF ProposeRequest
<1>4. /\ tasks' \in [Tasks -> Task] /\ tasks'[t].passed = tasks[t].passed
      /\ tasks'[t].pc = "cleaning" /\ tasks'[t].ending = "finished"
  BY EndTask DEF FInv, ProposeRequest, Ended
<1>5. proposals' = <<"push", "request">>
  BY <1>2, PushThenRequest DEF ProposeRequest
<1>6. TypeOK'
  BY <1>3, <1>4, <1>5 DEF FInv, TypeOK
<1>7. History' /\ Proposed'
  BY <1>2, <1>3, <1>5, SameHistory DEF FInv, Proposed, Carried
<1>8. Stage(t)'
  BY <1>2, <1>3, <1>4 DEF Stage, Carried, Ended
<1> QED
  BY <1>1, <1>3, <1>4, <1>6, <1>7, <1>8, AtWorkStep

LEMMA PauseKeeps ==
  ASSUME FInv, NEW t \in Tasks, Pause(t)
  PROVE  FInv'
<1>1. Work(t) /\ tasks[t].pc = "pausing"
  BY DEF Work, Pause
<1>2. NewestIn({"waiting"}) /\ workspace /\ proposals = <<>>
  BY <1>1 DEF FInv, Stage
<1>3. tasks' \in [Tasks -> Task] /\ tasks'[t].pc = "leaving"
  BY GotoTask DEF FInv, Pause, PC
<1>4. row' \in Row /\ row'.state = "waiting"
  BY DEF FInv, TypeOK, Row, Pause
<1>5. UNCHANGED <<approval, steps, workspace, proposals, exec, loop, requests, sweeping, stops>>
  BY DEF Pause
<1>6. TypeOK'
  BY <1>3, <1>4, <1>5 DEF FInv, TypeOK
<1>7. History' /\ Proposed'
  BY <1>5, SameHistory DEF FInv, Proposed
<1>8. /\ AtWork = {t} /\ ~Claim /\ ~sweeping
      /\ \A u \in Tasks \ {t} : tasks[u].pc \in {"idle", "leaving"}
  BY <1>1, Alone
<1>9. Rows'
  BY <1>2, <1>4, <1>5, <1>8 DEF Rows, Claim, AnswerComing, NewestIn
<1> QED
  BY <1>1, <1>3, <1>6, <1>7, <1>8, <1>9, OffWorkStep

LEMMA RemoveWorkspaceKeeps ==
  ASSUME FInv, NEW t \in Tasks, RemoveWorkspace(t)
  PROVE  FInv'
<1>1. Work(t) /\ tasks[t].pc = "cleaning"
  BY DEF Work, RemoveWorkspace
<1>2. /\ tasks' \in [Tasks -> Task] /\ tasks'[t].pc = "closing"
      /\ tasks'[t].passed = tasks[t].passed /\ tasks'[t].ending = tasks[t].ending
  BY GotoTask DEF FInv, RemoveWorkspace, PC
<1>3. UNCHANGED <<approval, row, steps, proposals, exec, loop, requests, sweeping, stops>>
  BY DEF RemoveWorkspace
<1>4. TypeOK'
  BY <1>2, <1>3 DEF FInv, TypeOK, RemoveWorkspace
<1>5. History' /\ Proposed'
  BY <1>3, SameHistory DEF FInv, Proposed
<1>6. Stage(t)'
  <2>1. tasks[t].ending \in Ended /\ (tasks[t].ending = "finished" => Carried(t))
    BY <1>1 DEF FInv, Stage
  <2> QED
    BY <1>2, <1>3, <2>1 DEF Stage, Carried
<1> QED
  BY <1>1, <1>2, <1>3, <1>4, <1>5, <1>6, AtWorkStep

LEMMA CloseKeeps ==
  ASSUME FInv, NEW t \in Tasks, Close(t)
  PROVE  FInv'
<1>1. Work(t) /\ tasks[t].pc = "closing"
  BY DEF Work, Close
<1>2. tasks[t].ending \in Ended /\ (tasks[t].ending = "finished" => Carried(t))
  BY <1>1 DEF FInv, Stage
<1>3. tasks' \in [Tasks -> Task] /\ tasks'[t].pc = "leaving"
  BY GotoTask DEF FInv, Close, PC
<1>4. row' \in Row /\ row'.state = tasks[t].ending /\ row'.passed = tasks[t].passed
  <2>1. row \in Row /\ tasks[t].passed \in Verdicts
    BY DEF FInv, TypeOK, Task
  <2>2. row' = [row EXCEPT !.state = tasks[t].ending, !.passed = tasks[t].passed]
    BY DEF Close
  <2> QED
    BY ONLY <1>2, <2>1, <2>2 DEF Row
<1>5. UNCHANGED <<approval, steps, workspace, proposals, exec, loop, requests, sweeping, stops>>
  BY DEF Close
<1>6. TypeOK'
  BY <1>3, <1>4, <1>5 DEF FInv, TypeOK
<1>7. History' /\ Proposed'
  BY <1>5, SameHistory DEF FInv, Proposed
<1>8. /\ AtWork = {t} /\ ~Claim /\ ~sweeping
      /\ \A u \in Tasks \ {t} : tasks[u].pc \in {"idle", "leaving"}
  BY <1>1, Alone
<1>9. AtWork' = {}
  <2>1. TaskStep(t)
    BY <1>1, WorkStep DEF FInv, IInv
  <2> QED
    BY <1>3, <1>8, <2>1 DEF AtWork, TaskStep
<1>10. ~Claim' /\ row'.state \notin {"waiting", "answered"}
  BY <1>2, <1>4, <1>5, <1>8 DEF Claim, AnswerComing, Ended
<1>11. row'.state = "finished" =>
         CarriedOut(DoneIn(steps)) /\ row'.passed = ReviewSaid(DoneIn(steps))
  BY <1>2, <1>4 DEF Carried
<1>12. Rows'
  BY <1>5, <1>8, <1>9, <1>10, <1>11 DEF Rows, Claim, Over, AnswerComing
<1> QED
  BY <1>1, <1>3, <1>6, <1>7, <1>8, <1>12, OffWorkStep

\* Leaving touches nothing but the stop button.
LEMMA LeaveKeeps ==
  ASSUME FInv, NEW t \in Tasks, Leave(t)
  PROVE  FInv'
<1>1. Work(t) /\ tasks[t].pc = "leaving"
  BY DEF Work, Leave
<1>2. IInv' /\ TaskStep(t)
  BY <1>1, WorkKeeps, WorkStep DEF FInv, IInv
<1>3. UNCHANGED <<disk, loop, requests, sweeping, stops>>
  BY DEF Leave
<1>4. tasks' \in [Tasks -> Task]
  <2>1. Idle \in Task
    BY DEF Idle, Task, PC, Verdicts
  <2> QED
    BY <2>1 DEF Leave, FInv, TypeOK
<1>5. TypeOK'
  BY <1>3, <1>4 DEF FInv, TypeOK, Leave, disk
<1>6. History' /\ Proposed'
  BY <1>3, SameHistory DEF FInv, Proposed, disk
<1>7. AtWork' = AtWork /\ Claim' = Claim
  BY <1>1, <1>2, <1>3 DEF AtWork, TaskStep, Claim, AnswerComing, disk
<1>8. Rows'
  BY <1>3, <1>7 DEF FInv, Rows, Over, NewestIn, AnswerComing, disk
<1>9. \A u \in Tasks : Stage(u)'
  <2>1. Stage(t)'
    BY <1>1, <1>2 DEF Stage, TaskStep
  <2>2. ASSUME NEW u \in Tasks, u # t PROVE Stage(u)'
    <3>1. tasks'[u] = tasks[u] /\ Stage(u)
      BY <1>2, <2>2 DEF TaskStep, FInv
    <3> QED
      BY <1>3, <3>1 DEF Stage, NewestIn, AtHand, Carried, disk
  <2> QED
    BY <2>1, <2>2
<1> QED
  BY <1>2, <1>5, <1>6, <1>8, <1>9 DEF FInv

LEMMA WorkKeepsAll ==
  ASSUME FInv, NEW t \in Tasks, Work(t)
  PROVE  FInv'
BY BeginsKeep, ReportFailedKeeps, PrepareKeeps, UnfinishedKeep, StartStepKeeps, AllDoneKeeps,
   TurnEnds, AdmitKeeps, SessionAsksKeeps, SessionDoneKeeps, NothingToPushKeeps, ReceiveKeeps,
   ProposePushKeeps, ProposeRequestKeeps, PauseKeeps, RemoveWorkspaceKeeps, CloseKeeps, LeaveKeeps
   DEF Work

-----------------------------------------------------------------------------
(* The loop, the user, the core's stops. *)

LEMMA SpawnTask ==
  ASSUME FInv, NEW pc \in {"pinning", "beginning"}, Spawn(pc), AtWork = {},
         ~NewestIn({"running", "waiting"}), proposals = <<>>,
         UNCHANGED <<steps, proposals>>
  PROVE  tasks' \in [Tasks -> Task] /\ \A u \in Tasks : Stage(u)'
<1>1. PICK t \in Tasks : tasks' = [tasks EXCEPT ![t] = [Idle EXCEPT !.pc = pc]]
  BY DEF Spawn
<1>2. [Idle EXCEPT !.pc = pc] \in Task /\ [Idle EXCEPT !.pc = pc].pc = pc
  <2>1. Idle \in Task
    BY DEF Idle, Task, PC, Verdicts
  <2> QED
    BY <2>1 DEF Task, PC
<1>3. tasks \in [Tasks -> Task]
  BY DEF FInv, TypeOK
<1>4. tasks' \in [Tasks -> Task] /\ tasks'[t].pc = pc
  BY <1>1, <1>2, <1>3
<1>5. \A u \in Tasks : u # t => tasks'[u].pc \in {"idle", "leaving"}
  BY <1>1, <1>3 DEF AtWork
<1>6. Stage(t)'
  BY <1>4 DEF Stage, NewestIn
<1>7. \A u \in Tasks : u # t => Stage(u)'
  BY <1>5 DEF Stage
<1> QED
  BY <1>4, <1>6, <1>7

\* Of tasks that are off work nothing is asked.
LEMMA NobodyAtWork ==
  ASSUME AtWork = {}, UNCHANGED tasks
  PROVE  AtWork' = {} /\ \A u \in Tasks : Stage(u)'
BY DEF AtWork, Stage

LEMMA LoopKeepsAll ==
  ASSUME FInv, Loop
  PROVE  FInv'
<1>1. IInv'
  BY LoopKeeps DEF FInv
<1>2. UNCHANGED <<steps, workspace, proposals, requests, sweeping, stops>>
  BY DEF Loop, StartApproved, MarkAnswered, ResumeAnswered, ResumeFails, disk
<1>3. Claim
  BY DEF Loop, StartApproved, MarkAnswered, ResumeAnswered, ResumeFails, Claim
<1>4. AtWork = {} /\ ~sweeping /\ proposals = <<>> /\ row.state # "finished"
  BY <1>3 DEF FInv, IInv, Rows, Over
<1>5. History' /\ Proposed'
  BY <1>2, SameHistory DEF FInv, Proposed
<1>6. CASE StartApproved
  <2>1. row.state = "none" /\ requests = {} /\ loop = "idle" /\ steps = <<>>
    BY <1>6 DEF StartApproved, FInv, IInv, OneClaim, Rows
  <2>2. tasks' \in [Tasks -> Task] /\ \A u \in Tasks : Stage(u)'
    <3>1. ~NewestIn({"running", "waiting"})
      BY <2>1 DEF NewestIn
    <3> QED
      BY <1>2, <1>4, <1>6, <3>1, SpawnTask DEF StartApproved
  <2>3. TypeOK'
    BY <1>6, <2>2 DEF StartApproved, FInv, TypeOK, Approval
  <2>4. Rows'
    BY <1>4, <1>6, <2>1 DEF StartApproved, Rows, Claim, AnswerComing
  <2> QED
    BY <1>1, <1>5, <2>2, <2>3, <2>4 DEF FInv
<1>7. CASE MarkAnswered
  <2>1. NewestIn({"answered"}) /\ approval # "approved" /\ ~AnswerComing
    BY <1>7 DEF MarkAnswered, FInv, IInv, OneClaim, Rows
  <2>2. row' \in Row /\ row'.state = "running"
    BY <1>7 DEF MarkAnswered, FInv, TypeOK, Row
  <2>3. TypeOK'
    BY <1>7, <2>2 DEF MarkAnswered, FInv, TypeOK
  <2>4. Rows'
    BY <1>4, <1>7, <2>1, <2>2 DEF MarkAnswered, Rows, AnswerComing, NewestIn
  <2>5. \A u \in Tasks : Stage(u)'
    BY <1>4, <1>7, NobodyAtWork DEF MarkAnswered
  <2> QED
    BY <1>1, <1>5, <2>3, <2>4, <2>5 DEF FInv
<1>8. CASE ResumeAnswered
  <2>1. /\ NewestIn({"answered"}) /\ approval # "approved" /\ ~AnswerComing
        /\ row.state \notin {"waiting", "answered"}
    BY <1>8 DEF ResumeAnswered, FInv, IInv, OneClaim, Rows
  <2>2. tasks' \in [Tasks -> Task] /\ \A u \in Tasks : Stage(u)'
    <3>1. ~NewestIn({"running", "waiting"})
      BY <2>1 DEF NewestIn
    <3> QED
      BY <1>2, <1>4, <1>8, <3>1, SpawnTask DEF ResumeAnswered
  <2>3. TypeOK'
    BY <1>8, <2>2 DEF ResumeAnswered, FInv, TypeOK, disk
  <2>4. Rows'
    BY <1>4, <1>8, <2>1 DEF ResumeAnswered, Rows, Claim, AnswerComing, disk
  <2> QED
    BY <1>1, <1>5, <2>2, <2>3, <2>4 DEF FInv
<1>9. CASE ResumeFails
  <2>1. approval # "approved" /\ ~AnswerComing
    BY <1>9 DEF ResumeFails, FInv, IInv, OneClaim
  <2>2. row' \in Row /\ row'.state = "failed"
    BY <1>9 DEF ResumeFails, FInv, TypeOK, Row, Ended
  <2>3. TypeOK'
    BY <1>9, <2>2 DEF ResumeFails, FInv, TypeOK
  <2>4. Rows'
    BY <1>4, <1>9, <2>1, <2>2 DEF ResumeFails, Rows, Claim, AnswerComing
  <2>5. \A u \in Tasks : Stage(u)'
    BY <1>4, <1>9, NobodyAtWork DEF ResumeFails
  <2> QED
    BY <1>1, <1>5, <2>3, <2>4, <2>5 DEF FInv
<1> QED
  BY <1>6, <1>7, <1>8, <1>9 DEF Loop

LEMMA StopKeepsAll ==
  ASSUME FInv, Stop
  PROVE  FInv'
<1>1. IInv'
  BY UserKeeps DEF FInv, User
<1>2. UNCHANGED <<disk, tasks, loop, requests, sweeping>> /\ stops \subseteq stops'
  BY DEF Stop
<1>3. TypeOK'
  BY <1>2 DEF Stop, FInv, TypeOK, disk
<1>4. History' /\ Proposed'
  BY <1>2, SameHistory DEF FInv, Proposed, disk
<1>5. Rows'
  BY <1>2 DEF FInv, Rows, Claim, Over, AtWork, AnswerComing, NewestIn, disk
<1>6. \A u \in Tasks : Stage(u)'
  BY <1>2 DEF FInv, Stage, NewestIn, AtHand, Carried, disk
<1> QED
  BY <1>1, <1>3, <1>4, <1>5, <1>6 DEF FInv

LEMMA StopWaitingKeepsAll ==
  ASSUME FInv, StopWaiting
  PROVE  FInv'
<1>1. IInv'
  BY UserKeeps DEF FInv, User
<1>2. UNCHANGED <<approval, row, steps, proposals, exec, tasks, loop, sweeping>>
  BY DEF StopWaiting
<1>3. row.state = "waiting" /\ AtWork = {} /\ ~sweeping
  BY DEF StopWaiting, FInv, IInv, Claim, Rows, Over
<1>4. TypeOK'
  BY <1>2 DEF StopWaiting, FInv, TypeOK
<1>5. History' /\ Proposed'
  BY <1>2, SameHistory DEF FInv, Proposed
<1>6. AnswerComing' = AnswerComing /\ "waiting" \in stops'
  BY DEF StopWaiting, AnswerComing
<1>7. Rows'
  BY <1>2, <1>3, <1>6 DEF FInv, Rows, Claim, NewestIn
<1>8. \A u \in Tasks : Stage(u)'
  BY <1>2, <1>3, NobodyAtWork
<1> QED
  BY <1>1, <1>4, <1>5, <1>7, <1>8 DEF FInv

LEMMA StopIsFiledKeepsAll ==
  ASSUME FInv, StopIsFiled
  PROVE  FInv'
<1>1. IInv'
  BY UserKeeps DEF FInv, User
<1>2. UNCHANGED <<approval, steps, workspace, proposals, exec, tasks, loop, sweeping, stops>>
  BY DEF StopIsFiled
<1>3. row' \in Row /\ row'.state = "stopped"
  BY DEF StopIsFiled, FInv, TypeOK, Row, Ended
<1>4. AnswerComing' = AnswerComing /\ requests' \subseteq requests
  BY DEF StopIsFiled, AnswerComing
<1>5. TypeOK'
  BY <1>2, <1>3, <1>4 DEF FInv, TypeOK
<1>6. History' /\ Proposed'
  BY <1>2, SameHistory DEF FInv, Proposed
<1>7. (Claim' => Claim) /\ AtWork' = AtWork
  BY <1>2, <1>3, <1>4 DEF Claim, AtWork
<1>8. Rows'
  BY <1>2, <1>3, <1>4, <1>7 DEF FInv, Rows, Over, NewestIn
<1>9. \A u \in Tasks : Stage(u)'
  BY <1>2 DEF FInv, Stage, NewestIn, AtHand, Carried
<1> QED
  BY <1>1, <1>5, <1>6, <1>8, <1>9 DEF FInv

\* The question that gets the answer is the newest record.
LEMMA AnswerKeepsAll ==
  ASSUME FInv, Answer
  PROVE  FInv'
<1>1. IInv'
  BY UserKeeps DEF FInv, User
<1>2. UNCHANGED <<approval, row, workspace, proposals, exec, tasks, loop, sweeping, stops>>
  BY DEF Answer
<1>3. /\ row.state = "waiting" /\ AtWork = {} /\ ~sweeping
      /\ approval # "approved" /\ loop # "marked" /\ proposals = <<>>
  BY DEF Answer, FInv, IInv, Claim, OneClaim, Rows, Over
<1>4. steps \in Seq(StepRecord) /\ Waiting # {} /\ NewestIn({"waiting", "answered"})
  BY <1>3 DEF Answer, FInv, TypeOK, Rows
<1> DEFINE n == Len(steps)
           k == CHOOSE k \in Waiting : \A j \in Waiting : j <= k
<1>5. Waiting = {n}
  <2>1. n \in Nat /\ DOMAIN steps = 1 .. n
    BY <1>4
  <2>2. \A j \in Waiting : j = n
    <3> SUFFICES ASSUME NEW j \in Waiting, j # n PROVE FALSE
      OBVIOUS
    <3>1. j \in 1 .. n - 1 /\ steps[j].state = "waiting"
      BY <2>1 DEF Waiting
    <3> QED
      BY <3>1 DEF FInv, History
  <2> QED
    BY <1>4, <2>2
<1>6. k = n
  <2>1. n <= n
    BY <1>4
  <2> QED
    BY <1>5, <2>1
<1>7. steps' = [steps EXCEPT ![n].state = "answered"]
  BY <1>6 DEF Answer
<1>8. NewestIn({"running", "waiting"}) /\ n \in DOMAIN steps
  BY <1>4, <1>5 DEF Waiting, NewestIn
<1>9. Marked("answered")
  <2> DEFINE x == [steps[n] EXCEPT !.state = "answered"]
  <2>1. n \in Nat /\ n # 0 /\ steps # <<>> /\ n \in DOMAIN steps /\ steps[n] \in StepRecord
    BY <1>4, <1>8
  <2>2. x \in StepRecord /\ x.state = "answered" /\ x.step = steps[n].step /\ x.round = steps[n].round
    BY ONLY <2>1 DEF StepRecord
  <2>3. steps' = [steps EXCEPT ![n] = x]
    BY <1>7
  <2> HIDE DEF x
  <2>4. steps' \in Seq(StepRecord) /\ Len(steps') = n /\ steps'[n] = x
    BY <1>4, <2>1, <2>2, <2>3
  <2>5. \A j \in 1 .. n : j # n => steps'[j] = steps[j]
    BY <1>4, <2>3
  <2> QED
    BY <2>1, <2>2, <2>4, <2>5 DEF Marked
<1>10. /\ History' /\ steps' # <<>> /\ steps'[Len(steps')].state = "answered"
  BY <1>4, <1>8, <1>9, MarkedHistory DEF FInv
<1>11. steps' \in Seq(StepRecord)
  BY <1>9 DEF Marked
<1>12. TypeOK'
  BY <1>2, <1>11 DEF FInv, TypeOK, Answer
<1>13. Proposed' /\ Rows'
  BY <1>2, <1>3, <1>10 DEF FInv, Proposed, Rows, NewestIn
<1>14. \A u \in Tasks : Stage(u)'
  BY <1>2, <1>3, NobodyAtWork
<1> QED
  BY <1>1, <1>10, <1>12, <1>13, <1>14 DEF FInv

LEMMA AnswerIsFiledKeepsAll ==
  ASSUME FInv, AnswerIsFiled
  PROVE  FInv'
<1>1. IInv'
  BY UserKeeps DEF FInv, User
<1>2. UNCHANGED <<approval, steps, workspace, proposals, exec, tasks, loop, sweeping, stops>>
  BY DEF AnswerIsFiled
<1>3. AnswerComing /\ NewestIn({"answered"}) /\ AtWork = {} /\ ~sweeping /\ proposals = <<>>
      /\ approval # "approved"
  BY DEF AnswerIsFiled, AnswerComing, FInv, IInv, Claim, OneClaim, Rows, Over
<1>4. row' \in Row /\ row'.state = "answered"
  BY DEF AnswerIsFiled, FInv, TypeOK, Row
<1>5. TypeOK'
  BY <1>2, <1>4 DEF FInv, TypeOK, AnswerIsFiled
<1>6. History' /\ Proposed'
  BY <1>2, SameHistory DEF FInv, Proposed
<1>7. Rows'
  BY <1>2, <1>3, <1>4 DEF FInv, Rows, NewestIn
<1>8. \A u \in Tasks : Stage(u)'
  BY <1>2, <1>3, NobodyAtWork
<1> QED
  BY <1>1, <1>5, <1>6, <1>7, <1>8 DEF FInv

LEMMA RestartKeepsAll ==
  ASSUME FInv, Restart
  PROVE  FInv'
<1>1. IInv'
  BY RestartKeeps DEF FInv
<1>2. UNCHANGED <<approval, steps, workspace, proposals, stops>>
  BY DEF Restart
<1>3. row' \in Row /\ (row' = row \/ (row.state = "running" /\ row'.state = "failed"))
  BY DEF Restart, FInv, TypeOK, Row, Ended
<1>4. tasks' \in [Tasks -> Task] /\ \A u \in Tasks : tasks'[u].pc = "idle"
  BY DEF Restart, Idle, Task, PC, Verdicts
<1>5. TypeOK'
  BY <1>2, <1>3, <1>4 DEF FInv, TypeOK, Restart
<1>6. History' /\ Proposed'
  BY <1>2, SameHistory DEF FInv, Proposed
<1>7. loop' = "idle" /\ ~AnswerComing' /\ AtWork' = {}
  BY <1>4 DEF Restart, AnswerComing, AtWork
<1>7a. sweeping' => row.state = "running" /\ row'.state = "failed"
  BY <1>3 DEF Restart, FInv, TypeOK, Row
<1>8. Claim' => Claim
  BY <1>2, <1>3, <1>7 DEF Claim
<1>9. sweeping' => ~Claim'
  BY <1>2, <1>7, <1>7a DEF Claim, FInv, IInv, OneClaim
<1>10. Rows'
  BY <1>2, <1>3, <1>7, <1>7a, <1>8, <1>9 DEF FInv, Rows, Over, NewestIn
<1>11. \A u \in Tasks : Stage(u)'
  BY <1>4 DEF Stage
<1> QED
  BY <1>1, <1>5, <1>6, <1>10, <1>11 DEF FInv

LEMMA SweepKeepsAll ==
  ASSUME FInv, Sweep
  PROVE  FInv'
<1>1. IInv'
  BY StepKeeps DEF FInv, Next
<1>2. UNCHANGED <<approval, row, steps, proposals, exec, tasks, loop, requests, stops>>
  BY DEF Sweep
<1>3. ~Claim /\ AtWork = {}
  BY DEF Sweep, FInv, Rows, Over
<1>4. TypeOK'
  BY <1>2 DEF FInv, TypeOK, Sweep
<1>5. History' /\ Proposed'
  BY <1>2, SameHistory DEF FInv, Proposed
<1>6. AtWork' = {} /\ \A u \in Tasks : Stage(u)'
  BY <1>2, <1>3, NobodyAtWork
<1>7. Rows'
  BY <1>2, <1>3, <1>6 DEF FInv, Rows, Claim, Over, AnswerComing, Sweep
<1> QED
  BY <1>1, <1>4, <1>5, <1>6, <1>7 DEF FInv

LEMMA StutterKeepsAll ==
  ASSUME FInv, UNCHANGED vars
  PROVE  FInv'
<1>1. IInv'
  BY StepKeeps DEF FInv
<1>2. UNCHANGED <<disk, exec, tasks, loop, requests, sweeping, stops>>
  BY DEF vars, memory
<1>3. TypeOK'
  BY <1>2 DEF FInv, TypeOK, disk
<1>4. History' /\ Proposed'
  BY <1>2, SameHistory DEF FInv, Proposed, disk
<1>5. Rows'
  BY <1>2 DEF FInv, Rows, Claim, Over, AtWork, AnswerComing, NewestIn, disk
<1>6. \A u \in Tasks : Stage(u)'
  BY <1>2 DEF FInv, Stage, NewestIn, AtHand, Carried, disk
<1> QED
  BY <1>1, <1>3, <1>4, <1>5, <1>6 DEF FInv

LEMMA InitHoldsAll == Init => FInv
<1> SUFFICES ASSUME Init PROVE FInv
  OBVIOUS
<1>1. IInv
  BY InitHolds
<1>2. TypeOK
  <2>1. Idle \in Task
    BY DEF Idle, Task, PC, Verdicts
  <2> QED
    <3>1. row \in Row /\ steps \in Seq(StepRecord) /\ proposals \in Seq({"push", "request"})
      BY DEF Init, Row, Verdicts
    <3>2. tasks \in [Tasks -> Task]
      BY <2>1 DEF Init
    <3> QED
      BY <3>1, <3>2 DEF Init, TypeOK, Approval
<1>3. History /\ ~NewestIn({"running", "waiting"})
  BY EmptyHistory DEF Init, NewestIn
<1>4. Proposed /\ Rows
  BY DEF Init, Proposed, Rows, AnswerComing
<1>5. \A t \in Tasks : Stage(t)
  BY DEF Init, Stage, Idle
<1> QED
  BY <1>1, <1>2, <1>3, <1>4, <1>5 DEF FInv

LEMMA StepKeepsAll == FInv /\ [Next]_vars => FInv'
  BY WorkKeepsAll, LoopKeepsAll, StopKeepsAll, StopWaitingKeepsAll, StopIsFiledKeepsAll,
     AnswerKeepsAll, AnswerIsFiledKeepsAll, RestartKeepsAll, SweepKeepsAll, StutterKeepsAll
     DEF Next, User

LEMMA AlwaysFInv == Spec => []FInv
  BY InitHoldsAll, StepKeepsAll, PTL DEF Spec
LEMMA PrefixByElements ==
  ASSUME NEW T, NEW p \in Seq(T), NEW q \in Seq(T), Len(p) <= Len(q),
         \A i \in 1 .. Len(p) : p[i] = q[i]
  PROVE  IsPrefix(p, q)
<1> DEFINE n == Len(p)
           a == SubSeq(p, 1, n)
           b == SubSeq(q, 1, n)
<1>1. n \in Nat /\ n <= Len(p) /\ n <= Len(q) /\ \A i \in 1 .. n : p[i] = q[i] /\ p[i] \in T /\ q[i] \in T
  OBVIOUS
<1> HIDE DEF n
<1>2. a \in Seq(T) /\ b \in Seq(T)
  BY <1>1
<1>3. Len(a) = n /\ Len(b) = n
  BY <1>1
<1>4. \A i \in 1 .. n : a[i] = p[i] /\ b[i] = q[i]
  BY <1>1
<1> HIDE DEF a, b
<1>5. a = b
  BY <1>1, <1>2, <1>3, <1>4, SeqEqual
<1> QED
  BY <1>1, <1>5 DEF IsPrefix, a, b, n

LEMMA ProposedPrefix ==
  ASSUME NEW p \in {<<>>, <<"push">>, <<"push", "request">>}
  PROVE  IsPrefix(p, <<"push", "request">>)
<1> DEFINE q == <<"push", "request">>
           T == {"push", "request"}
<1>1. q \in Seq(T) /\ Len(q) = 2
  OBVIOUS
<1>2. CASE p = <<>>
  <2>1. SubSeq(p, 1, 0) = <<>> /\ SubSeq(q, 1, 0) = <<>> /\ Len(p) = 0
    BY <1>1, <1>2, SubSeqEmpty
  <2> QED
    BY <1>1, <2>1 DEF IsPrefix
<1>3. CASE p = <<"push">>
  <2>1. p \in Seq(T) /\ Len(p) = 1 /\ p[1] = q[1]
    BY <1>3
  <2> HIDE DEF q, T
  <2>2. IsPrefix(p, q)
    BY <1>1, <2>1, PrefixByElements
  <2> QED
    BY <2>2 DEF q
<1>4. CASE p = q
  <2> HIDE DEF q, T
  <2>1. IsPrefix(q, q)
    BY <1>1, PrefixByElements
  <2> QED
    BY <1>4, <2>1 DEF q
<1> QED
  BY <1>2, <1>3, <1>4
-----------------------------------------------------------------------------
\* Every variable keeps its type; the steps on record are steps of the recipe.
THEOREM TypesHold == Spec => []TypeOK
<1>1. FInv => TypeOK
  BY DEF FInv
<1> QED
  BY <1>1, AlwaysFInv, PTL

\* Across every pause, answer, stop and restart, the steps done are the steps the
\* recipe calls for, in its order, and a turn that ended with an answered
\* question is followed by a turn of the same step (machine.rs next, load in
\* run.rs).
THEOREM DoneStepsFollowRecipe == Spec => []DoneFollowsRecipe
<1>1. FInv => DoneFollowsRecipe
  BY DEF FInv, History, Followed, DoneFollowsRecipe
<1> QED
  BY <1>1, AlwaysFInv, PTL

\* A row that says finished had its recipe carried out to the end, and says what
\* the last review said (finish in run.rs).
THEOREM FinishedWorkIsDone == Spec => []FinishedIsCarriedOut
<1>1. FInv => FinishedIsCarriedOut
  BY DEF FInv, Rows, FinishedIsCarriedOut
<1> QED
  BY <1>1, AlwaysFInv, PTL

\* Work that waits, or was answered, has its workspace unless the user stopped
\* it there: neither a restart's sweep nor a task that ends can remove it.
THEOREM WaitingWorkKeepsWorkspace == Spec => []KeptForTheAnswer
<1>1. FInv => KeptForTheAnswer
  BY DEF FInv, Rows, KeptForTheAnswer
<1> QED
  BY <1>1, AlwaysFInv, PTL

\* The push and the request are proposed once, in this order, and only of work
\* whose steps are all done.
THEOREM ProposalsComeOnce == Spec => []ProposedOnce
<1>1. FInv => ProposedOnce
  BY ProposedPrefix DEF FInv, Proposed, ProposedOnce
<1> QED
  BY <1>1, AlwaysFInv, PTL
=============================================================================
