-------------------------------- MODULE Scoring --------------------------------
(***************************************************************************)
(* The portfolio score (oliver/utils/scoring): the fallback rubric, which  *)
(* scores five dimensions of a text, and the stage-weighted composite.     *)
(* All of it is pure.                                                      *)
(*                                                                         *)
(* The rubric reads a text for its length and a few patterns.  A text is   *)
(* modelled by the length and by which patterns it contains: a quantity,   *)
(* one in its first half (baseline), an approach, a data source, a         *)
(* sponsor, signs of execution, and two clauses.  Abstracted: the          *)
(* confidences, summaries, evidence and gaps of a dimension, the rating.   *)
(***************************************************************************)
EXTENDS Integers, FiniteSets

CONSTANTS
    StageWeights,  \* the weights of the stage that is scored
    Unscored       \* the value of a dimension that is unknown, and of its composite

Dimensions ==
    {"ideaCompleteness", "ideaQuality", "strategicValue", "technicalFeasibility",
     "executionReadiness"}

\* A sum over the dimensions.
Total(f) ==
    f["ideaCompleteness"] + f["ideaQuality"] + f["strategicValue"]
        + f["technicalFeasibility"] + f["executionReadiness"]

\* The validator of WeightSet, and the range of DimensionScore.weight.
ASSUME WeightAssumption ==
    StageWeights \in [Dimensions -> 0..100] /\ Total(StageWeights) = 100
ASSUME UnscoredAssumption == Unscored \notin Int

COMPLETENESS_FLOOR == 30

Text ==
    [length : Nat, quantity : BOOLEAN, baseline : BOOLEAN, approach : BOOLEAN, data : BOOLEAN,
     sponsor : BOOLEAN, execution : BOOLEAN, clauses : BOOLEAN]

-----------------------------------------------------------------------------
(* The rubric: the points of the checks that a text passes. *)

Points(points, passed) == IF passed THEN points ELSE 0

Completeness(t) ==
    15 + Points(15, t.length >= 50) + Points(10, t.length >= 120)
       + Points(12, t.approach) + Points(8, t.approach /\ t.length >= 80)
       + Points(12, t.quantity) + Points(10, t.data) + Points(8, t.sponsor)
       + Points(5, t.execution) + Points(5, t.length >= 200)

Kinds(t) == {field \in {"approach", "quantity", "data"} : t[field]}

\* Mutated: exactly two kinds of evidence.
ExactlyTwoKinds(t) == Cardinality(Kinds(t)) = 2

TwoKinds(t) == Cardinality(Kinds(t)) >= 2

Quality(t) ==
    Points(15, t.length >= 70) + Points(20, t.quantity) + Points(15, t.clauses)
       + Points(10, t.sponsor \/ t.execution) + Points(15, t.approach)
       + Points(10, t.length >= 30 /\ t.approach) + Points(15, TwoKinds(t))

Value(t) ==
    Points(40, t.quantity) + Points(30, t.quantity /\ t.length >= 80)
       + Points(15, t.quantity /\ t.length >= 120) + Points(15, t.baseline)

Technical(t) ==
    Points(20, t.approach) + Points(15, t.approach /\ t.length >= 120)
       + Points(20, t.data) + Points(15, t.data /\ t.length >= 80)
       + Points(15, t.approach \/ t.data) + Points(15, t.approach /\ t.data)

Execution(t) ==
    Points(35, t.sponsor) + Points(30, t.execution)
       + Points(15, 30 <= t.length /\ t.length <= 1200) + Points(20, t.sponsor /\ t.execution)

Raw(t) ==
    [ideaCompleteness |-> Completeness(t), ideaQuality |-> Quality(t), strategicValue |-> Value(t),
     technicalFeasibility |-> Technical(t), executionReadiness |-> Execution(t)]

\* assess_email: a dimension with too few points is unknown rather than bad.
RubricValues(t) ==
    [d \in Dimensions |-> IF Raw(t)[d] < COMPLETENESS_FLOOR THEN Unscored ELSE Raw(t)[d]]

\* email_to_submission refuses a text without content.
Assessable(t) == t.length >= 10

-----------------------------------------------------------------------------
(* The composite. *)

RoundHalfUp(n, divisor) == (2 * n + divisor) \div (2 * divisor)

KnownDimensions(values) == {d \in Dimensions : values[d] # Unscored}

\* Mutated: a dimension that is unknown counts as zero.
CompositeOfKnown(values) ==
    RoundHalfUp(Total([d \in Dimensions |->
                          IF values[d] = Unscored THEN 0 ELSE values[d] * StageWeights[d]]), 100)

\* The composite is withheld as long as a dimension is unknown.
Composite(values) ==
    IF KnownDimensions(values) # Dimensions THEN Unscored
    ELSE RoundHalfUp(Total([d \in Dimensions |-> values[d] * StageWeights[d]]), 100)

=============================================================================
