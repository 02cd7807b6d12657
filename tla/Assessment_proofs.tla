--------------------------- MODULE Assessment_proofs ---------------------------
(***************************************************************************)
(* Theorems about Assessment, for every policy that passes its validator,  *)
(* every set of texts and answers, every weight set, and every timeout and *)
(* retry setting in range.  The inductive invariant says that the last     *)
(* result is what consolidation makes of some findings about the thread's  *)
(* criteria and some dimension values, that the messages it was based on   *)
(* are among those of the thread, and bounds the time a call took.         *)
(***************************************************************************)
EXTENDS Assessment, FiniteSetTheorems, TLAPS

FindingsAbout(ids) == [ids -> [state : CriterionStates, confidence : 0..100]]

DimensionValues == [Dimensions -> 0..100 \cup {Unscored}]

IdsOf(policy) == IF policy = NoPolicy THEN {} ELSE CriterionIds(policy)

-----------------------------------------------------------------------------

(* Policies. *)

\* A policy that was loaded is of exactly one of the two kinds.
LEMMA KindsOfPolicy ==
    ASSUME NEW p, p # NoPolicy, Loadable(p)
    PROVE  \/ ValidTransitionPolicy(p) /\ ~Terminal(p)
           \/ ValidTerminalPolicy(p) /\ Terminal(p)
  BY DEF Loadable, ValidTransitionPolicy, ValidTerminalPolicy, Terminal

\* A policy that is not configured, or terminal, never advances.
LEMMA OnlyTransitionsAdvance ==
    ASSUME NEW p, NEW f, Loadable(p), Evaluate(p, f).advances
    PROVE  /\ p # NoPolicy
           /\ ValidTransitionPolicy(p)
           /\ Evaluate(p, f) = EvaluateTransition(p, f)
  <1>1. p # NoPolicy
    BY DEF Evaluate, Unavailable
  <1>2. ~Terminal(p)
    BY <1>1 DEF Evaluate, EvaluateTerminalStage
  <1>3. QED
    BY <1>1, <1>2, KindsOfPolicy DEF Evaluate

\* An evaluation that advances has neither a blocking concern nor an unknown entry criterion.
LEMMA AdvancesWhenClear ==
    ASSUME NEW p, NEW f, EvaluateTransition(p, f).advances
    PROVE  BlockingConcerns(p, f) = {} /\ UnknownEntry(p, f) = {}
  <1>1. Outcome(p, f) \in {"ADVANCE", "CONDITIONAL_ADVANCE"}
    BY DEF EvaluateTransition
  <1>2. QED
    BY <1>1 DEF Outcome

\* What an evaluation that advances without review says of every criterion.
LEMMA AdvanceIsGoverned ==
    ASSUME NEW p, NEW f \in FindingsAbout(IdsOf(p)), Loadable(p),
           Evaluate(p, f).advances, ~Evaluate(p, f).requires_human_review
    PROVE  /\ ~p.human_review_always
           /\ \A c \in InRole(p, "ENTRY_CRITERION") : f[c].state \in {"SATISFIED", "NOT_APPLICABLE"}
           /\ \A c \in InRole(p, "BLOCKING_CONDITION") : f[c].state # "CONCERN"
           /\ \A c \in IdsOf(p) : \/ f[c].confidence >= ConfidenceFloor
                                  \/ f[c].state \in {"UNKNOWN", "NOT_APPLICABLE"}
  <1>1. p # NoPolicy /\ Evaluate(p, f) = EvaluateTransition(p, f)
    BY OnlyTransitionsAdvance
  <1>2. IdsOf(p) = CriterionIds(p) /\ DOMAIN f = CriterionIds(p)
    BY <1>1 DEF IdsOf, FindingsAbout
  <1>3. BlockingConcerns(p, f) = {} /\ UnknownEntry(p, f) = {}
    BY <1>1, AdvancesWhenClear
  <1>4. ~p.human_review_always /\ ~LowConfidence(f)
    BY <1>1 DEF EvaluateTransition
  <1>5. \A c \in CriterionIds(p) : f[c].state \in CriterionStates /\ f[c].confidence \in 0..100
    BY <1>2 DEF FindingsAbout
  <1>6. \A c \in InRole(p, "ENTRY_CRITERION") : f[c].state \in {"SATISFIED", "NOT_APPLICABLE"}
    BY <1>3, <1>5 DEF InRole, BlockingConcerns, UnknownEntry, WithState, CriterionStates
  <1>7. \A c \in InRole(p, "BLOCKING_CONDITION") : f[c].state # "CONCERN"
    BY <1>3 DEF BlockingConcerns, WithState
  <1>8. ASSUME NEW c \in IdsOf(p), f[c].state \notin {"UNKNOWN", "NOT_APPLICABLE"}
        PROVE  f[c].confidence >= ConfidenceFloor
    <2>1. c \in Known(f)
      BY <1>2, <1>5, <1>8 DEF Known, WithState, CriterionStates
    <2>2. ~(f[c].confidence < ConfidenceFloor)
      BY <1>4, <2>1 DEF LowConfidence
    <2>3. QED
      BY <1>2, <1>5, <2>2, ConfidenceAssumption
  <1>9. QED
    BY <1>4, <1>6, <1>7, <1>8

\* When nothing is known about any criterion, no policy advances.
LEMMA UnknownNeverAdvances ==
    ASSUME NEW p, NEW f, Loadable(p), \A c \in IdsOf(p) : f[c].state = "UNKNOWN"
    PROVE  ~Evaluate(p, f).advances
  <1>1. SUFFICES ASSUME Evaluate(p, f).advances
                 PROVE  FALSE
    OBVIOUS
  <1>2. /\ p # NoPolicy
        /\ ValidTransitionPolicy(p)
        /\ Evaluate(p, f) = EvaluateTransition(p, f)
    BY <1>1, OnlyTransitionsAdvance
  <1>3. PICK c \in InRole(p, "ENTRY_CRITERION") : TRUE
    BY <1>2 DEF ValidTransitionPolicy
  <1>4. c \in UnknownEntry(p, f)
    BY <1>2, <1>3 DEF UnknownEntry, WithState, InRole, IdsOf
  <1>5. QED
    BY <1>1, <1>2, <1>4, AdvancesWhenClear

\* The outcome of an evaluation is one of the five.
LEMMA OutcomeType ==
    ASSUME NEW p, NEW f
    PROVE  Evaluate(p, f).gate_outcome \in Outcomes
  BY DEF Evaluate, Unavailable, EvaluateTerminalStage, EvaluateTransition, Outcome, Outcomes

\* Settling criteria never lowers the rank of the outcome.
LEMMA SettlingKeepsRank ==
    ASSUME NEW p, NEW f \in FindingsAbout(IdsOf(p)), NEW g \in FindingsAbout(IdsOf(p)),
           Settles(f, g)
    PROVE  Rank[Evaluate(p, g).gate_outcome] >= Rank[Evaluate(p, f).gate_outcome]
  <1>1. CASE p = NoPolicy
    BY <1>1 DEF Evaluate, Unavailable, Rank
  <1>2. CASE p # NoPolicy /\ Terminal(p)
    BY <1>2 DEF Evaluate, EvaluateTerminalStage, Rank
  <1>3. CASE p # NoPolicy /\ ~Terminal(p)
    <2>1. DOMAIN f = CriterionIds(p) /\ DOMAIN g = CriterionIds(p)
      BY <1>3 DEF FindingsAbout, IdsOf
    <2>2. \A c \in CriterionIds(p) :
             \/ g[c].state = f[c].state
             \/ g[c].state \in {"SATISFIED", "NOT_APPLICABLE"}
             \/ g[c].state = "UNKNOWN" /\ f[c].state = "CONCERN"
      BY <2>1 DEF Settles
    <2>3. BlockingConcerns(p, g) # {} => BlockingConcerns(p, f) # {}
      BY <2>2 DEF BlockingConcerns, WithState, InRole
    <2>4. UnknownEntry(p, g) # {} => UnknownEntry(p, f) # {} \/ BlockingConcerns(p, f) # {}
      BY <2>2 DEF UnknownEntry, BlockingConcerns, WithState, InRole
    <2>5. UnresolvedDuring(p, g) # {} => UnresolvedDuring(p, f) # {}
      BY <2>2 DEF UnresolvedDuring, WithState, InRole
    <2>6. /\ Evaluate(p, f).gate_outcome = Outcome(p, f)
          /\ Evaluate(p, g).gate_outcome = Outcome(p, g)
      BY <1>3 DEF Evaluate, EvaluateTransition
    <2>7. QED
      BY <2>3, <2>4, <2>5, <2>6 DEF Outcome, Rank
  <1>4. QED
    BY <1>1, <1>2, <1>3

-----------------------------------------------------------------------------

(* The rubric and the composite. *)

\* The points of each dimension add up to at most 100.
LEMMA RawType ==
    ASSUME NEW t \in Text
    PROVE  Raw(t) \in [Dimensions -> 0..100]
  <1>1. t.length \in Nat
    BY DEF Text
  <1>2. Completeness(t) \in 0..100
    BY <1>1 DEF Completeness, Points
  <1>3. Quality(t) \in 0..100
    BY <1>1 DEF Quality, Points
  <1>4. Value(t) \in 0..100
    BY <1>1 DEF Value, Points
  <1>5. Technical(t) \in 0..100
    BY <1>1 DEF Technical, Points
  <1>6. Execution(t) \in 0..100
    BY <1>1 DEF Execution, Points
  <1>7. QED
    BY <1>2, <1>3, <1>4, <1>5, <1>6 DEF Raw, Dimensions

LEMMA RubricValuesType ==
    ASSUME NEW t \in Text
    PROVE  RubricValues(t) \in DimensionValues
  BY RawType DEF RubricValues, DimensionValues

\* More of the kinds of evidence is at least as good.
LEMMA KindsGrow ==
    ASSUME NEW t \in Text, NEW u \in Text, Includes(u, t), TwoKinds(t)
    PROVE  TwoKinds(u)
  <1>1. Kinds(t) \subseteq Kinds(u)
    BY DEF Includes, Kinds, Text
  <1>2. IsFiniteSet({"approach", "quantity", "data"})
    <2>1. IsFiniteSet({"approach"})
      BY FS_Singleton
    <2>2. IsFiniteSet({"approach"} \cup {"quantity"})
      BY <2>1, FS_AddElement
    <2>3. IsFiniteSet(({"approach"} \cup {"quantity"}) \cup {"data"})
      BY <2>2, FS_AddElement
    <2>4. ({"approach"} \cup {"quantity"}) \cup {"data"} = {"approach", "quantity", "data"}
      OBVIOUS
    <2>5. QED
      BY <2>3, <2>4
  <1>3. IsFiniteSet(Kinds(u))
    BY <1>2, FS_Subset DEF Kinds
  <1>4. Cardinality(Kinds(t)) <= Cardinality(Kinds(u))
    BY <1>1, <1>3, FS_Subset
  <1>5. Cardinality(Kinds(t)) \in Nat /\ Cardinality(Kinds(u)) \in Nat
    BY <1>1, <1>3, FS_Subset, FS_CardinalityType
  <1>6. QED
    BY <1>4, <1>5 DEF TwoKinds

\* As long as the text stays bounded, a text has at least as many points everywhere as what was
\* written in it, the baseline of the latter aside.
LEMMA RawGrows ==
    ASSUME NEW t \in Text, NEW u \in Text, ~t.baseline, Includes(u, t), u.length <= 1200
    PROVE  \A d \in Dimensions : Raw(u)[d] >= Raw(t)[d]
  <1>1. t.length \in Nat /\ u.length \in Nat /\ u.length >= t.length
    BY DEF Text, Includes
  <1>2. /\ t.quantity => u.quantity
        /\ t.approach => u.approach
        /\ t.data => u.data
        /\ t.sponsor => u.sponsor
        /\ t.execution => u.execution
        /\ t.clauses => u.clauses
    BY DEF Text, Includes
  <1>3. Completeness(u) >= Completeness(t)
    BY <1>1, <1>2 DEF Completeness, Points
  <1>4. Quality(u) >= Quality(t)
    BY <1>1, <1>2, KindsGrow DEF Quality, Points
  <1>5. Value(u) >= Value(t)
    BY <1>1, <1>2 DEF Value, Points
  <1>6. Technical(u) >= Technical(t)
    BY <1>1, <1>2 DEF Technical, Points
  <1>7. Execution(u) >= Execution(t)
    BY <1>1, <1>2 DEF Execution, Points
  <1>8. QED
    BY <1>3, <1>4, <1>5, <1>6, <1>7 DEF Raw, Dimensions

\* So no dimension of the rubric falls below what was written.
LEMMA RubricGrows ==
    ASSUME NEW t \in Text, NEW u \in Text, ~t.baseline, Includes(u, t), u.length <= 1200,
           NEW d \in Dimensions
    PROVE  AtLeast(RubricValues(u)[d], RubricValues(t)[d])
  <1>1. Raw(t)[d] \in 0..100 /\ Raw(u)[d] \in 0..100 /\ Raw(u)[d] >= Raw(t)[d]
    BY RawType, RawGrows
  <1>2. QED
    BY <1>1, UnscoredAssumption DEF AtLeast, RubricValues, COMPLETENESS_FLOOR

\* A weight keeps the order of values.
LEMMA WeightsKeepOrder ==
    ASSUME NEW v \in 0..100, NEW b \in 0..100, NEW w \in 0..100, v <= b
    PROVE  v * w <= b * w /\ v * w \in Nat
  OBVIOUS

\* The weighted sum of values between two bounds lies between 100 times these bounds.
LEMMA WeightedSum ==
    ASSUME NEW v \in [Dimensions -> 0..100], NEW low \in 0..100, NEW high \in 0..100,
           \A d \in Dimensions : low <= v[d] /\ v[d] <= high
    PROVE  LET sum == Total([d \in Dimensions |-> v[d] * StageWeights[d]])
           IN  sum \in Nat /\ 100 * low <= sum /\ sum <= 100 * high
  <1> DEFINE weighted == [d \in Dimensions |-> v[d] * StageWeights[d]]
             scaled(b) == [d \in Dimensions |-> b * StageWeights[d]]
  <1>1. \A d \in Dimensions : StageWeights[d] \in 0..100 /\ v[d] \in 0..100
    BY WeightAssumption
  <1>2. \A d \in Dimensions :
           /\ low * StageWeights[d] <= v[d] * StageWeights[d]
           /\ v[d] * StageWeights[d] <= high * StageWeights[d]
           /\ low * StageWeights[d] \in Nat
           /\ v[d] * StageWeights[d] \in Nat
           /\ high * StageWeights[d] \in Nat
    <2>1. SUFFICES ASSUME NEW d \in Dimensions
                   PROVE  /\ low * StageWeights[d] <= v[d] * StageWeights[d]
                          /\ v[d] * StageWeights[d] <= high * StageWeights[d]
                          /\ low * StageWeights[d] \in Nat
                          /\ v[d] * StageWeights[d] \in Nat
                          /\ high * StageWeights[d] \in Nat
      OBVIOUS
    <2>2. low <= v[d] /\ v[d] <= high /\ StageWeights[d] \in 0..100 /\ v[d] \in 0..100
      BY <1>1
    <2>3. low * StageWeights[d] <= v[d] * StageWeights[d] /\ low * StageWeights[d] \in Nat
      BY <2>2, WeightsKeepOrder
    <2>4. v[d] * StageWeights[d] <= high * StageWeights[d] /\ v[d] * StageWeights[d] \in Nat
      BY <2>2, WeightsKeepOrder
    <2>5. high * StageWeights[d] \in Nat
      BY <2>2, WeightsKeepOrder
    <2>6. QED
      BY <2>3, <2>4, <2>5
  <1>3. \A b \in 0..100 : Total(scaled(b)) = 100 * b
    <2>1. SUFFICES ASSUME NEW b \in 0..100
                   PROVE  Total(scaled(b)) = 100 * b
      OBVIOUS
    <2>2. StageWeights["ideaCompleteness"] + StageWeights["ideaQuality"]
            + StageWeights["strategicValue"] + StageWeights["technicalFeasibility"]
            + StageWeights["executionReadiness"] = 100
      BY WeightAssumption DEF Total
    <2>3. Total(scaled(b)) =
            b * StageWeights["ideaCompleteness"] + b * StageWeights["ideaQuality"]
              + b * StageWeights["strategicValue"] + b * StageWeights["technicalFeasibility"]
              + b * StageWeights["executionReadiness"]
      <3>1. \A d \in Dimensions : scaled(b)[d] = b * StageWeights[d]
        OBVIOUS
      <3> HIDE DEF scaled
      <3>2. QED
        BY <3>1 DEF Total, Dimensions
    <2> HIDE DEF scaled
    <2>4. QED
      <3> DEFINE w1 == StageWeights["ideaCompleteness"]
                 w2 == StageWeights["ideaQuality"]
                 w3 == StageWeights["strategicValue"]
                 w4 == StageWeights["technicalFeasibility"]
                 w5 == StageWeights["executionReadiness"]
      <3>1. /\ w1 \in 0..100 /\ w2 \in 0..100 /\ w3 \in 0..100 /\ w4 \in 0..100 /\ w5 \in 0..100
            /\ w1 + w2 + w3 + w4 + w5 = 100
        BY <1>1, <2>2 DEF Dimensions
      <3>2. Total(scaled(b)) = b * w1 + b * w2 + b * w3 + b * w4 + b * w5
        BY <2>3
      <3> HIDE DEF w1, w2, w3, w4, w5
      <3>3. b * w1 + b * w2 + b * w3 + b * w4 + b * w5 = 100 * b
        BY <3>1
      <3>4. QED
        BY <3>2, <3>3
  <1>4. /\ Total(weighted) \in Nat
        /\ Total(scaled(low)) <= Total(weighted)
        /\ Total(weighted) <= Total(scaled(high))
    <2>1. \A d \in Dimensions :
             /\ scaled(low)[d] \in Nat /\ weighted[d] \in Nat /\ scaled(high)[d] \in Nat
             /\ scaled(low)[d] <= weighted[d] /\ weighted[d] <= scaled(high)[d]
      BY <1>2
    <2> HIDE DEF weighted, scaled
    <2>2. QED
      BY <2>1 DEF Total, Dimensions
  <1>5. QED
    BY <1>3, <1>4

\* Rounding never leaves bounds that are whole numbers.
LEMMA RoundingKeepsBounds ==
    ASSUME NEW n \in Nat, NEW low \in 0..100, NEW high \in 0..100,
           100 * low <= n, n <= 100 * high
    PROVE  RoundHalfUp(n, 100) \in 0..100 /\ low <= RoundHalfUp(n, 100) /\ RoundHalfUp(n, 100) <= high
  BY DEF RoundHalfUp

\* A composite that is not withheld lies between any two bounds of the dimensions.
LEMMA CompositeBetween ==
    ASSUME NEW v \in [Dimensions -> 0..100], NEW low \in 0..100, NEW high \in 0..100,
           \A d \in Dimensions : low <= v[d] /\ v[d] <= high
    PROVE  Composite(v) \in 0..100 /\ low <= Composite(v) /\ Composite(v) <= high
  <1>1. KnownDimensions(v) = Dimensions
    BY UnscoredAssumption DEF KnownDimensions
  <1>2. QED
    BY <1>1, WeightedSum, RoundingKeepsBounds DEF Composite

\* A composite is withheld, or it has a dimension below and one above it.
LEMMA CompositeType ==
    ASSUME NEW v \in DimensionValues
    PROVE  IF KnownDimensions(v) # Dimensions THEN Composite(v) = Unscored
           ELSE /\ Composite(v) \in 0..100
                /\ \E d \in Dimensions : v[d] <= Composite(v)
                /\ \E d \in Dimensions : Composite(v) <= v[d]
  <1>1. CASE KnownDimensions(v) # Dimensions
    BY <1>1 DEF Composite
  <1>2. CASE KnownDimensions(v) = Dimensions
    <2>1. v \in [Dimensions -> 0..100]
      BY <1>2 DEF KnownDimensions, DimensionValues
    <2>2. Composite(v) \in 0..100
      <3>1. \A d \in Dimensions : 0 <= v[d] /\ v[d] <= 100
        BY <2>1
      <3>2. PICK low \in 0..100, high \in 0..100 : low = 0 /\ high = 100
        OBVIOUS
      <3>3. \A d \in Dimensions : low <= v[d] /\ v[d] <= high
        BY <3>1, <3>2
      <3>4. QED
        BY <2>1, <3>3, CompositeBetween
    <2>3. \E d \in Dimensions : v[d] <= Composite(v)
      <3>1. SUFFICES ASSUME \A d \in Dimensions : ~(v[d] <= Composite(v))
                     PROVE  FALSE
        OBVIOUS
      <3>2. \A d \in Dimensions : Composite(v) + 1 <= v[d] /\ v[d] <= 100
        BY <2>1, <2>2, <3>1
      <3>3. PICK low \in 0..100, high \in 0..100 : low = Composite(v) + 1 /\ high = 100
        <4>1. v["ideaQuality"] \in 0..100 /\ Composite(v) + 1 <= v["ideaQuality"]
          BY <2>1, <3>2 DEF Dimensions
        <4>2. Composite(v) + 1 \in 0..100
          BY <2>2, <4>1
        <4>3. QED
          BY <4>2
      <3>4. \A d \in Dimensions : low <= v[d] /\ v[d] <= high
        BY <3>2, <3>3
      <3>5. low <= Composite(v)
        BY <2>1, <3>4, CompositeBetween
      <3>6. QED
        BY <2>2, <3>3, <3>5
    <2>4. \E d \in Dimensions : Composite(v) <= v[d]
      <3>1. SUFFICES ASSUME \A d \in Dimensions : ~(Composite(v) <= v[d])
                     PROVE  FALSE
        OBVIOUS
      <3>2. \A d \in Dimensions : 0 <= v[d] /\ v[d] <= Composite(v) - 1
        BY <2>1, <2>2, <3>1
      <3>3. PICK low \in 0..100, high \in 0..100 : low = 0 /\ high = Composite(v) - 1
        <4>1. v["ideaQuality"] \in 0..100 /\ v["ideaQuality"] <= Composite(v) - 1
          BY <2>1, <3>2 DEF Dimensions
        <4>2. Composite(v) - 1 \in 0..100
          BY <2>2, <4>1
        <4>3. QED
          BY <4>2
      <3>4. \A d \in Dimensions : low <= v[d] /\ v[d] <= high
        BY <3>2, <3>3
      <3>5. Composite(v) <= high
        BY <2>1, <3>4, CompositeBetween
      <3>6. QED
        BY <2>2, <3>3, <3>5
    <2>5. QED
      BY <1>2, <2>2, <2>3, <2>4
  <1>3. QED
    BY <1>1, <1>2

-----------------------------------------------------------------------------

(* The inductive invariant. *)

SituationOK ==
    /\ situation \in [mode : {"llm", "rubric"}, policy : Policies, written : Writings, text : Texts]
    /\ Loadable(situation.policy)
    /\ Includes(situation.text, situation.written)

\* A call sleeps 1 s after its first attempt and 2 s after its second.
CallOK ==
    /\ call \in [pc : {"idle", "routing", "evaluating"}, retries : 0..MaxRetries, elapsed : Nat,
                 timely : BOOLEAN]
    /\ call.timely =>
          /\ call.retries = 0 => call.elapsed = 0
          /\ call.retries = 1 => call.elapsed <= RequestTimeout + 10
          /\ call.retries = 2 => call.elapsed <= 2 * RequestTimeout + 30

\* Only the model interprets evidence.
ModeOK == call.pc = "evaluating" => situation.mode = "llm"

\* The last result is the consolidation of its own findings and values; its text includes the
\* messages of that time, and the thread has kept them.
ResultOK ==
    result # NoResult =>
        /\ result.findings \in FindingsAbout(IdsOf(situation.policy))
        /\ result.values \in DimensionValues
        /\ result.text \in Texts
        /\ result.written \in Writings
        /\ Includes(result.text, result.written)
        /\ Includes(situation.written, result.written)
        /\ result.composite_score = Composite(result.values)
        /\ result.gate_outcome = Evaluate(situation.policy, result.findings).gate_outcome
        /\ result.advances = Evaluate(situation.policy, result.findings).advances
        /\ result.requires_human_review =
              Evaluate(situation.policy, result.findings).requires_human_review
        /\ situation.mode = "rubric" =>
              /\ \A c \in IdsOf(situation.policy) : result.findings[c].state = "UNKNOWN"
              /\ result.values = RubricValues(result.text)

IInv == SituationOK /\ CallOK /\ ModeOK /\ ResultOK

LEMMA IdsOfSituation == Ids = IdsOf(situation.policy)
  BY DEF Ids, IdsOf

\* A text includes itself, and what includes an including text includes the text.
LEMMA IncludesOrder ==
    ASSUME NEW t \in Text, NEW u \in Text, NEW w \in Text
    PROVE  /\ Includes(t, t)
           /\ Includes(u, t) /\ Includes(w, u) => Includes(w, t)
  BY DEF Includes, Text

\* The sleep before the first retry is at most 1 s, before the second at most 2 s.
LEMMA BackoffBound ==
    ASSUME CallOK
    PROVE  /\ Backoff(1) \in 0..10
           /\ Backoff(2) \in 0..20
           /\ \A n \in 1..3 : Backoff(n) \in Nat
  <1>1. Remaining \in Int
    BY RetryAssumption DEF CallOK, Remaining, Budget
  <1>2. QED
    BY <1>1 DEF Backoff, LesserOf

\* What consolidation returns satisfies the invariant on results.
LEMMA ConsolidateOK ==
    ASSUME SituationOK,
           NEW f \in FindingsAbout(IdsOf(situation.policy)),
           NEW v \in DimensionValues,
           situation.mode = "rubric" =>
              /\ \A c \in IdsOf(situation.policy) : f[c].state = "UNKNOWN"
              /\ v = RubricValues(situation.text),
           result' = Consolidate(f, v),
           UNCHANGED situation
    PROVE  ResultOK'
  <1>1. situation.written \in Text
    BY TextAssumption DEF SituationOK, Writings
  <1>2. Includes(situation.written, situation.written)
    BY <1>1, IncludesOrder
  <1>3. /\ result'.text = situation.text
        /\ result'.written = situation.written
        /\ result'.findings = f
        /\ result'.values = v
        /\ result'.composite_score = Composite(v)
        /\ result'.gate_outcome = Evaluate(situation.policy, f).gate_outcome
        /\ result'.advances = Evaluate(situation.policy, f).advances
        /\ result'.requires_human_review = Evaluate(situation.policy, f).requires_human_review
    BY DEF Consolidate
  <1>4. /\ situation.text \in Texts /\ situation.written \in Writings
        /\ Includes(situation.text, situation.written)
    BY DEF SituationOK
  <1>5. situation' = situation
    OBVIOUS
  <1>6. QED
    BY <1>2, <1>3, <1>4, <1>5 DEF ResultOK

LEMMA InitInv == Init => IInv
  <1>1. SUFFICES ASSUME Init
                 PROVE  IInv
    OBVIOUS
  <1>2. SituationOK
    <2>1. PICK s \in {x \in Situations : Loadable(x.policy)} :
             situation = [mode |-> s.mode, policy |-> s.policy, written |-> s.written,
                          text |-> s.written]
      BY <1>1 DEF Init
    <2>2. s \in [mode : {"llm", "rubric"}, policy : Policies, written : Writings]
      BY SituationAssumption
    <2>3. s.written \in Texts /\ s.written \in Text
      BY <2>2, TextAssumption DEF Writings
    <2>4. Includes(s.written, s.written)
      BY <2>3, IncludesOrder
    <2>5. QED
      BY <2>1, <2>2, <2>3, <2>4 DEF SituationOK
  <1>3. CallOK
    BY <1>1, RetryAssumption DEF Init, CallOK, NotCalling
  <1>4. ResultOK
    BY <1>1 DEF Init, ResultOK
  <1>5. ModeOK
    BY <1>1 DEF Init, NotCalling, ModeOK
  <1>6. QED
    BY <1>2, <1>3, <1>4, <1>5 DEF IInv

\* A call that begins or is over has used no time.
LEMMA FreshCallOK ==
    ASSUME NEW pc \in {"idle", "routing", "evaluating"}, call' = Calling(pc)
    PROVE  CallOK'
  BY RetryAssumption DEF Calling, CallOK

LEMMA ReturnOK ==
    ASSUME Return
    PROVE  CallOK'
  BY RetryAssumption DEF Return, NotCalling, CallOK

\* Steps that keep the thread and the result keep the invariant on them.
LEMMA ResultKept ==
    ASSUME IInv, UNCHANGED <<situation, result>>
    PROVE  SituationOK' /\ ResultOK'
  BY DEF IInv, SituationOK, ResultOK

LEMMA NextInv == IInv /\ [Next]_vars => IInv'
  <1>1. SUFFICES ASSUME IInv, [Next]_vars
                 PROVE  IInv'
    OBVIOUS
  <1>2. CASE UNCHANGED vars
    BY <1>1, <1>2 DEF vars, IInv, SituationOK, CallOK, ModeOK, ResultOK
  <1>3. ASSUME NEW written \in Writings, NEW text \in Texts, Receive(written, text)
        PROVE  IInv'
    <2>1. /\ situation' \in [mode : {"llm", "rubric"}, policy : Policies, written : Writings,
                            text : Texts]
          /\ situation'.policy = situation.policy
          /\ situation'.mode = situation.mode
          /\ situation'.written = written
          /\ situation'.text = text
      BY <1>1, <1>3 DEF IInv, SituationOK, Receive
    <2>2. SituationOK'
      <3>1. Includes(text, written)
        BY <1>3 DEF Receive
      <3>2. QED
        BY <1>1, <2>1, <3>1 DEF IInv, SituationOK, Loadable
    <2>3. CallOK'
      BY <1>3, FreshCallOK DEF Receive
    <2>4. ResultOK'
      <3>1. SUFFICES ASSUME result # NoResult
                     PROVE  ResultOK'
        BY <1>3 DEF Receive, ResultOK
      <3>2. result.written \in Text /\ situation.written \in Text /\ written \in Text
        BY <1>1, <3>1, TextAssumption DEF IInv, ResultOK, SituationOK, Writings
      <3>3. Includes(written, result.written)
        BY <1>1, <1>3, <3>1, <3>2, IncludesOrder DEF IInv, ResultOK, Receive
      <3>4. result' = result
        BY <1>3 DEF Receive
      <3>5. QED
        BY <1>1, <2>1, <3>1, <3>3, <3>4 DEF IInv, ResultOK
    <2>5. ModeOK'
      BY <1>3 DEF Receive, Calling, ModeOK
    <2>6. QED
      BY <2>2, <2>3, <2>4, <2>5 DEF IInv
  <1>4. ASSUME NEW duration \in Durations, Retry(duration)
        PROVE  IInv'
    <2>1. SituationOK' /\ ResultOK'
      BY <1>1, <1>4, ResultKept DEF Retry
    <2>2. CallOK'
      <3>1. duration \in Nat /\ RequestTimeout \in 300..6000 /\ MaxRetries \in 0..2
        BY RetryAssumption
      <3>2. /\ call \in [pc : {"idle", "routing", "evaluating"}, retries : 0..MaxRetries,
                         elapsed : Nat, timely : BOOLEAN]
            /\ call.retries < MaxRetries
        BY <1>1, <1>4 DEF IInv, CallOK, Retry, CanRetry
      <3>3. call.retries \in {0, 1}
        BY <3>1, <3>2
      <3>4. /\ Backoff(1) \in 0..10
            /\ Backoff(2) \in 0..20
            /\ Backoff(call.retries + 1) \in Nat
        BY <1>1, <3>3, BackoffBound DEF IInv
      <3>5. /\ call'.pc = call.pc
            /\ call'.retries = call.retries + 1
            /\ call'.elapsed = call.elapsed + duration + Backoff(call.retries + 1)
            /\ call'.timely = (call.timely /\ duration <= LesserOf(RequestTimeout, Remaining))
        BY <1>4, <3>2 DEF Retry
      <3>6. call' \in [pc : {"idle", "routing", "evaluating"}, retries : 0..MaxRetries,
                       elapsed : Nat, timely : BOOLEAN]
        <4>1. call.elapsed + duration + Backoff(call.retries + 1) \in Nat
          BY <3>1, <3>2, <3>4
        <4>2. call.retries + 1 \in 0..MaxRetries
          BY <3>1, <3>2
        <4>3. (call.timely /\ duration <= LesserOf(RequestTimeout, Remaining)) \in BOOLEAN
          OBVIOUS
        <4>4. QED
          BY <1>4, <3>2, <4>1, <4>2, <4>3 DEF Retry
      <3>7. ASSUME call'.timely
            PROVE  /\ call'.retries = 0 => call'.elapsed = 0
                   /\ call'.retries = 1 => call'.elapsed <= RequestTimeout + 10
                   /\ call'.retries = 2 => call'.elapsed <= 2 * RequestTimeout + 30
        <4>1. call.timely /\ duration <= RequestTimeout
          <5>1. call.timely /\ duration <= LesserOf(RequestTimeout, Remaining)
            BY <3>5, <3>7
          <5>2. Remaining \in Int
            BY <3>1, <3>2 DEF Remaining, Budget
          <5>3. QED
            BY <3>1, <5>1, <5>2 DEF LesserOf
        <4>2. CASE call.retries = 0
          <5>1. call.elapsed = 0
            BY <1>1, <4>1, <4>2 DEF IInv, CallOK
          <5>2. QED
            BY <3>1, <3>4, <3>5, <4>1, <4>2, <5>1
        <4>3. CASE call.retries = 1
          <5>1. call.elapsed <= RequestTimeout + 10
            BY <1>1, <4>1, <4>3 DEF IInv, CallOK
          <5>2. QED
            BY <3>1, <3>2, <3>4, <3>5, <4>1, <4>3, <5>1
        <4>4. QED
          BY <3>3, <4>2, <4>3
      <3>8. QED
        BY <3>6, <3>7 DEF CallOK
    <2>3. ModeOK'
      <3>1. call'.pc = call.pc /\ situation' = situation
        BY <1>1, <1>4 DEF IInv, CallOK, Retry
      <3>2. QED
        BY <1>1, <3>1 DEF IInv, ModeOK
    <2>4. QED
      BY <2>1, <2>2, <2>3 DEF IInv
  <1>5. ASSUME GiveUp \/ Expire \/ Decline
        PROVE  IInv'
    <2>1. SituationOK' /\ ResultOK' /\ CallOK'
      BY <1>1, <1>5, ResultKept, ReturnOK DEF GiveUp, Expire, Decline
    <2>2. ModeOK'
      BY <1>5 DEF GiveUp, Expire, Decline, Return, NotCalling, ModeOK
    <2>3. QED
      BY <2>1, <2>2 DEF IInv
  <1>6. ASSUME ApplyRubric
        PROVE  IInv'
    <2>1. CallOK' /\ SituationOK'
      BY <1>1, <1>6, ReturnOK DEF ApplyRubric, IInv, SituationOK
    <2>2. Unevaluated \in FindingsAbout(IdsOf(situation.policy))
      BY IdsOfSituation DEF Unevaluated, FindingsAbout, CriterionStates
    <2>3. \A c \in IdsOf(situation.policy) : Unevaluated[c].state = "UNKNOWN"
      BY IdsOfSituation DEF Unevaluated
    <2>4. situation.text \in Text
      BY <1>1, TextAssumption DEF IInv, SituationOK
    <2>5. RubricValues(situation.text) \in DimensionValues
      BY <2>4, RubricValuesType
    <2>6. ResultOK'
      BY <1>1, <1>6, <2>2, <2>3, <2>5, ConsolidateOK DEF ApplyRubric, IInv
    <2>7. ModeOK'
      BY <1>6 DEF ApplyRubric, Return, NotCalling, ModeOK
    <2>8. QED
      BY <2>1, <2>6, <2>7 DEF IInv
  <1>7. ASSUME RequestFindings
        PROVE  IInv'
    <2>1. SituationOK' /\ ResultOK' /\ CallOK'
      BY <1>1, <1>7, ResultKept, FreshCallOK DEF RequestFindings
    <2>2. ModeOK'
      BY <1>7 DEF RequestFindings, ModeOK
    <2>3. QED
      BY <2>1, <2>2 DEF IInv
  <1>8. ASSUME NEW output \in Outputs, Interpret(output)
        PROVE  IInv'
    <2>1. CallOK' /\ SituationOK'
      BY <1>1, <1>8, ReturnOK DEF Interpret, IInv, SituationOK
    <2>2. output.findings \in FindingsAbout(IdsOf(situation.policy))
      <3>1. PICK ids \in SUBSET Criteria : output.findings \in [ids -> Finding]
        BY OutputAssumption
      <3>2. ids = IdsOf(situation.policy)
        BY <1>8, <3>1, IdsOfSituation DEF Interpret, Accepts
      <3>3. Finding \subseteq [state : CriterionStates, confidence : 0..100]
        BY ConfidenceAssumption DEF Finding
      <3>4. QED
        BY <3>1, <3>2, <3>3 DEF FindingsAbout
    <2>3. output.values \in DimensionValues
      BY OutputAssumption DEF DimensionValues
    <2>4. situation.mode # "rubric"
      BY <1>1, <1>8 DEF IInv, ModeOK, Interpret
    <2>5. ResultOK'
      BY <1>1, <1>8, <2>2, <2>3, <2>4, ConsolidateOK DEF Interpret, IInv
    <2>6. ModeOK'
      BY <1>8 DEF Interpret, Return, NotCalling, ModeOK
    <2>7. QED
      BY <2>1, <2>5, <2>6 DEF IInv
  <1>9. QED
    BY <1>1, <1>2, <1>3, <1>4, <1>5, <1>6, <1>7, <1>8 DEF Next

\* The strengthened invariant holds in every reachable state.
THEOREM Invariance == Spec => []IInv
  <1>1. QED
    BY InitInv, NextInv, PTL DEF Spec

-----------------------------------------------------------------------------

(* The properties. *)

\* An assessment is about exactly the criteria of the thread's policy, and its composite, if it
\* is shown, is a score.
THEOREM TypeCorrect == Spec => []TypeOK
  <1>1. IInv => TypeOK
    <2>1. SUFFICES ASSUME IInv
                   PROVE  TypeOK
      OBVIOUS
    <2>2. situation.text \in Texts /\ situation.written \in Writings
      BY <2>1 DEF IInv, SituationOK
    <2>3. ASSUME result # NoResult
          PROVE  /\ DOMAIN result.findings = Ids
                 /\ result.gate_outcome \in Outcomes
                 /\ result.composite_score \in 0..100 \cup {Unscored}
      <3>1. DOMAIN result.findings = Ids
        BY <2>1, <2>3, IdsOfSituation DEF IInv, ResultOK, FindingsAbout
      <3>2. result.gate_outcome \in Outcomes
        BY <2>1, <2>3, OutcomeType DEF IInv, ResultOK
      <3>3. result.composite_score \in 0..100 \cup {Unscored}
        BY <2>1, <2>3, CompositeType DEF IInv, ResultOK
      <3>4. QED
        BY <3>1, <3>2, <3>3
    <2>4. QED
      BY <2>1, <2>2, <2>3 DEF IInv, CallOK, TypeOK
  <1>2. QED
    BY <1>1, Invariance, PTL

\* The sleeps of the bounded retry keep every call within its deadline, for every timeout and
\* number of retries that the settings allow.
THEOREM WithinDeadline == Spec => []DeadlineKept
  <1>1. IInv => DeadlineKept
    <2>1. SUFFICES ASSUME IInv, call.timely
                   PROVE  call.elapsed <= Budget
      BY DEF DeadlineKept
    <2>2. RequestTimeout \in 300..6000 /\ MaxRetries \in 0..2
      BY RetryAssumption
    <2>3. call.retries \in 0..MaxRetries /\ call.elapsed \in Nat
      BY <2>1 DEF IInv, CallOK
    <2>4. CASE MaxRetries = 0
      BY <2>1, <2>2, <2>3, <2>4 DEF IInv, CallOK, Budget
    <2>5. CASE MaxRetries = 1
      <3>1. Budget = 2 * RequestTimeout
        BY <2>2, <2>5 DEF Budget
      <3>2. call.retries \in {0, 1}
        BY <2>3, <2>5
      <3>3. QED
        BY <2>1, <2>2, <2>3, <3>1, <3>2 DEF IInv, CallOK
    <2>6. CASE MaxRetries = 2
      <3>1. Budget = 3 * RequestTimeout
        BY <2>2, <2>6 DEF Budget
      <3>2. call.retries \in {0, 1, 2}
        BY <2>3, <2>6
      <3>3. QED
        BY <2>1, <2>2, <2>3, <3>1, <3>2 DEF IInv, CallOK
    <2>7. QED
      BY <2>2, <2>4, <2>5, <2>6
  <1>2. QED
    BY <1>1, Invariance, PTL

\* For every policy: a stage may only be moved without a person if all entry criteria are known
\* to be met or not to apply, nothing blocks, and no finding is in doubt.
THEOREM AdvanceGoverned == Spec => []GovernedAdvance
  <1>1. IInv => GovernedAdvance
    <2>1. SUFFICES ASSUME IInv, result # NoResult, result.advances, ~result.requires_human_review
                   PROVE  GovernedAdvance
      BY DEF GovernedAdvance
    <2>2. /\ Loadable(situation.policy)
          /\ result.findings \in FindingsAbout(IdsOf(situation.policy))
          /\ Evaluate(situation.policy, result.findings).advances
          /\ ~Evaluate(situation.policy, result.findings).requires_human_review
      BY <2>1 DEF IInv, SituationOK, ResultOK
    <2>3. QED
      BY <2>2, AdvanceIsGoverned, IdsOfSituation DEF GovernedAdvance
  <1>2. QED
    BY <1>1, Invariance, PTL

\* For every policy that passes its validator, the fallback rubric never recommends a stage.
THEOREM RubricNeverAdvances == Spec => []FallbackHolds
  <1>1. IInv => FallbackHolds
    BY UnknownNeverAdvances DEF IInv, SituationOK, ResultOK, FallbackHolds
  <1>2. QED
    BY <1>1, Invariance, PTL

\* For every weight set, a composite lies between the dimensions it is made of.
THEOREM CompositeSound == Spec => []CompositeExplained
  <1>1. IInv => CompositeExplained
    BY CompositeType DEF IInv, ResultOK, CompositeExplained
  <1>2. QED
    BY <1>1, Invariance, PTL

\* For every policy, better findings never lead to a worse outcome.
THEOREM EvidenceHelps == Spec => MoreEvidenceNeverHurts
  <1>1. IInv /\ IInv' /\ [Next]_vars =>
          [result # NoResult /\ result' # NoResult /\ Settles(result.findings, result'.findings)
             => Rank[result'.gate_outcome] >= Rank[result.gate_outcome]]_vars
    <2>1. SUFFICES ASSUME IInv, IInv', [Next]_vars, result # NoResult, result' # NoResult,
                          Settles(result.findings, result'.findings)
                   PROVE  Rank[result'.gate_outcome] >= Rank[result.gate_outcome]
      OBVIOUS
    <2>2. situation'.policy = situation.policy
      BY <2>1 DEF IInv, SituationOK, Next, vars, Receive, Retry, GiveUp, Expire, Decline,
                  ApplyRubric, RequestFindings, Interpret
    <2>3. QED
      BY <2>1, <2>2, SettlingKeepsRank DEF IInv, ResultOK
  <1>2. QED
    BY <1>1, Invariance, PTL DEF Spec, MoreEvidenceNeverHurts

\* For every text that stays bounded, no dimension falls below what the messages of an earlier
\* assessment are worth on their own.
THEOREM WritingKept == Spec => WrittenIsKept
  <1>1. IInv /\ IInv' /\ [Next]_vars =>
          [/\ situation.mode = "rubric"
           /\ result # NoResult /\ result' # NoResult
           /\ result'.text.length <= 1200
           => \A d \in Dimensions :
                 AtLeast(result'.values[d], RubricValues(result.written)[d])]_vars
    <2>1. SUFFICES ASSUME IInv, IInv', [Next]_vars, ~(UNCHANGED vars),
                          situation.mode = "rubric", result # NoResult, result' # NoResult,
                          result'.text.length <= 1200,
                          NEW d \in Dimensions
                   PROVE  AtLeast(result'.values[d], RubricValues(result.written)[d])
      OBVIOUS
    <2>2. situation'.mode = situation.mode
      BY <2>1 DEF IInv, SituationOK, Next, vars, Receive, Retry, GiveUp, Expire, Decline,
                  ApplyRubric, RequestFindings, Interpret
    <2>3. /\ result.written \in Text /\ ~result.written.baseline
          /\ result'.written \in Text /\ result'.text \in Text
          /\ result'.values = RubricValues(result'.text)
          /\ Includes(result'.text, result'.written)
      BY <2>1, <2>2, TextAssumption DEF IInv, ResultOK, Writings
    <2>4. result' = result \/ result'.written = situation.written
      <3>1. CASE ApplyRubric
        BY <3>1 DEF ApplyRubric, Consolidate
      <3>2. CASE \E output \in Outputs : Interpret(output)
        BY <3>2 DEF Interpret, Consolidate
      <3>3. CASE \/ \E written \in Writings, text \in Texts : Receive(written, text)
                 \/ \E duration \in Durations : Retry(duration)
                 \/ GiveUp \/ Expire \/ Decline \/ RequestFindings
        BY <3>3 DEF Receive, Retry, GiveUp, Expire, Decline, RequestFindings
      <3>4. QED
        BY <2>1, <3>1, <3>2, <3>3 DEF Next
    <2>5. Includes(result'.written, result.written)
      BY <2>1, <2>3, <2>4, IncludesOrder DEF IInv, ResultOK
    <2>6. Includes(result'.text, result.written)
      BY <2>3, <2>5, IncludesOrder
    <2>7. QED
      BY <2>1, <2>3, <2>6, RubricGrows
  <1>2. QED
    BY <1>1, Invariance, PTL DEF Spec, WrittenIsKept

=============================================================================
