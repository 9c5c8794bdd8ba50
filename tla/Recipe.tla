------------------------------- MODULE Recipe -------------------------------
(***************************************************************************)
(* A recipe and what it says happens next, given the steps already done:   *)
(* crates/dispatch/src/recipe.rs and machine.rs.  Steps are numbered from  *)
(* 1.  At most one loop, between a verdict step and the step right after   *)
(* it that acts on the verdict.                                            *)
(***************************************************************************)
EXTENDS Naturals, Sequences, SequencesExt

CONSTANTS
  Kinds,      \* by step: what it produces
  Review,     \* the verdict step that starts the loop, 0 when there is none
  MaxFixes,   \* how often the step after it may run
  Proposes    \* the effects proposed at the end

\* Recipe::validate.
ASSUME RecipeAssumption ==
  /\ Kinds \in Seq({"commits", "verdict", "notes"})
  /\ Len(Kinds) \in 1 .. 12
  /\ Review \in 0 .. Len(Kinds) - 1
  /\ Review # 0 => Kinds[Review] = "verdict" /\ MaxFixes \in 1 .. 5
  /\ Proposes \in {{}, {"push"}, {"push", "request"}}

Steps   == 1 .. Len(Kinds)
Fix     == Review + 1
HasLoop == Review # 0

\* "none": not a verdict step, or a verdict that could not be read.
Verdicts == {"none", "pass", "changes"}
Done     == [step : Steps, verdict : Verdicts]

\* Position 0: the record strayed from the recipe, or a verdict was unreadable.
Astray == 0

\* Where one finished step leads.
After(at, d) ==
  IF at.pos \notin Steps \/ at.pos # d.step
    THEN [at EXCEPT !.pos = Astray]
  ELSE IF HasLoop /\ at.pos = Review
    THEN [at EXCEPT !.passed = d.verdict,
                    !.pos = CASE d.verdict = "none" -> Astray
                              [] d.verdict = "changes" /\ at.fixes < MaxFixes -> Fix
                              [] OTHER -> Fix + 1]
  ELSE IF HasLoop /\ at.pos = Fix
    THEN [at EXCEPT !.pos = Review, !.fixes = @ + 1]
  ELSE [at EXCEPT !.pos = @ + 1]

Outset == [pos |-> 1, fixes |-> 0, passed |-> "none"]

\* Where the first n finished steps lead, by n.
Standing(done) ==
  LET stand[n \in 0 .. Len(done)] == IF n = 0 THEN Outset ELSE After(stand[n - 1], done[n])
  IN  stand

Stand(done) == Standing(done)[Len(done)]

RoundAt(at) == IF HasLoop /\ at.pos \in {Review, Fix} THEN at.fixes + 1 ELSE 1

-----------------------------------------------------------------------------
(* What a history that follows the recipe looks like, said without walking *)
(* along it: each step is the one the step before it calls for.            *)

FixesBefore(done, k) == Cardinality({j \in 1 .. k - 1 : HasLoop /\ done[j].step = Fix})

Calls(done, k) ==
  LET d == done[k]
  IN  IF HasLoop /\ d.step = Review
        THEN IF d.verdict = "changes" /\ FixesBefore(done, k) < MaxFixes THEN Fix ELSE Fix + 1
      ELSE IF HasLoop /\ d.step = Fix THEN Review
      ELSE d.step + 1

FollowsRecipe(done) ==
  /\ done # <<>> => done[1].step = 1
  /\ \A k \in 1 .. Len(done) - 1 :
       /\ done[k + 1].step = Calls(done, k)
       /\ HasLoop /\ done[k].step = Review => done[k].verdict # "none"

\* Nothing is left to do, and the last review was read.
CarriedOut(done) ==
  /\ done # <<>>
  /\ FollowsRecipe(done)
  /\ Calls(done, Len(done)) = Len(Kinds) + 1
  /\ HasLoop /\ Last(done).step = Review => Last(done).verdict # "none"

\* What the last review said; "none" when the recipe has no loop.
ReviewSaid(done) ==
  LET reviews == {k \in DOMAIN done : HasLoop /\ done[k].step = Review}
  IN  IF reviews = {} THEN "none" ELSE done[Max(reviews)].verdict
=============================================================================
