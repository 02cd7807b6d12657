--------------------------- MODULE TransitionPolicy ---------------------------
(***************************************************************************)
(* The transition policy (oliver/utils/transition_policy): what a policy   *)
(* file may say about a stage, and which gate outcome its criteria and the *)
(* findings about them lead to.  All of it is pure.                        *)
(*                                                                         *)
(* A policy gives each criterion of a stage its role.  Timing and blocking *)
(* behavior are not modelled: the validators force both to follow from the *)
(* role.  A policy of a terminal stage only has monitoring criteria.       *)
(* Abstracted: texts, sources, and the rationale of an evaluation.         *)
(***************************************************************************)
EXTENDS Naturals

CONSTANTS
    Criteria,         \* identifiers of criteria
    Confidences,      \* confidences of findings, in hundredths
    ConfidenceFloor,  \* CONFIDENCE_FLOOR, in hundredths
    NoPolicy          \* the policy of a stage that none is configured for

ASSUME ConfidenceAssumption == Confidences \subseteq 0..100 /\ ConfidenceFloor \in 0..100

CriterionStates == {"SATISFIED", "CONCERN", "UNKNOWN", "NOT_APPLICABLE"}
CriterionRoles ==
    {"ENTRY_CRITERION", "NEXT_STAGE_EXPECTATION", "BLOCKING_CONDITION", "TERMINAL_MONITORING"}

Finding == [state : CriterionStates, confidence : Confidences]

\* What the fields of a policy document can hold, for the criteria in ids.
PolicyDocument(ids) ==
    [role : [ids -> CriterionRoles], conditional_if_unresolved : SUBSET ids,
     human_review_always : BOOLEAN]

\* What can be configured for a stage, before validation.
Policies == {NoPolicy} \cup UNION {PolicyDocument(ids) : ids \in SUBSET Criteria}

CriterionIds(policy) == DOMAIN policy.role

InRole(policy, role) == {c \in CriterionIds(policy) : policy.role[c] = role}

-----------------------------------------------------------------------------
(* Validation of policy documents. *)

\* Mutated: a policy need not have an entry criterion.
ValidWithoutEntry(policy) ==
    /\ InRole(policy, "TERMINAL_MONITORING") = {}
    /\ policy.conditional_if_unresolved \subseteq InRole(policy, "NEXT_STAGE_EXPECTATION")

\* StageTransitionPolicy: the policy of a stage that has a next one.
ValidTransitionPolicy(policy) ==
    /\ InRole(policy, "ENTRY_CRITERION") # {}
    /\ InRole(policy, "TERMINAL_MONITORING") = {}
    /\ policy.conditional_if_unresolved \subseteq InRole(policy, "NEXT_STAGE_EXPECTATION")

\* TerminalStagePolicy: the policy of the last stage.
ValidTerminalPolicy(policy) ==
    /\ CriterionIds(policy) # {}
    /\ InRole(policy, "TERMINAL_MONITORING") = CriterionIds(policy)
    /\ policy.conditional_if_unresolved = {}
    /\ ~policy.human_review_always

Terminal(policy) == InRole(policy, "TERMINAL_MONITORING") # {}

-----------------------------------------------------------------------------
(* Evaluation of findings.  The caller makes sure that they are about exactly the criteria. *)

WithState(ids, findings, state) == {c \in ids : findings[c].state = state}

BlockingConcerns(policy, findings) ==
    WithState(InRole(policy, "ENTRY_CRITERION") \cup InRole(policy, "BLOCKING_CONDITION"),
              findings, "CONCERN")

UnknownEntry(policy, findings) ==
    WithState(InRole(policy, "ENTRY_CRITERION"), findings, "UNKNOWN")

UnresolvedDuring(policy, findings) ==
    LET conditional == InRole(policy, "NEXT_STAGE_EXPECTATION")
                         \cap policy.conditional_if_unresolved
    IN  WithState(conditional, findings, "UNKNOWN") \cup WithState(conditional, findings, "CONCERN")

\* Mutated: an open condition is looked at before an unknown entry criterion.
OutcomeConditionsFirst(policy, findings) ==
    IF BlockingConcerns(policy, findings) # {} THEN "DO_NOT_ADVANCE"
    ELSE IF UnresolvedDuring(policy, findings) # {} THEN "CONDITIONAL_ADVANCE"
    ELSE IF UnknownEntry(policy, findings) # {} THEN "HOLD_FOR_EVIDENCE"
    ELSE "ADVANCE"

\* The outcome of evaluate_transition: the first condition that is met decides.
Outcome(policy, findings) ==
    IF BlockingConcerns(policy, findings) # {} THEN "DO_NOT_ADVANCE"
    ELSE IF UnknownEntry(policy, findings) # {} THEN "HOLD_FOR_EVIDENCE"
    ELSE IF UnresolvedDuring(policy, findings) # {} THEN "CONDITIONAL_ADVANCE"
    ELSE "ADVANCE"

\* The response depth that goes with an outcome.
Depth ==
    [DO_NOT_ADVANCE |-> "DETAILED", HOLD_FOR_EVIDENCE |-> "BRIEF",
     CONDITIONAL_ADVANCE |-> "STANDARD", ADVANCE |-> "DETAILED"]

\* Findings whose confidence matters: those that claim to know.
Known(findings) ==
    WithState(DOMAIN findings, findings, "SATISFIED") \cup WithState(DOMAIN findings, findings, "CONCERN")

\* Mutated: the most confident finding is compared with the floor.
BestBelowFloor(findings) ==
    /\ Known(findings) # {}
    /\ \A c \in Known(findings) : findings[c].confidence < ConfidenceFloor

\* The least confident finding that claims to know is below the floor.
LowConfidence(findings) ==
    \E c \in Known(findings) : findings[c].confidence < ConfidenceFloor

EvaluateTransition(policy, findings) ==
    LET outcome == Outcome(policy, findings)
    IN  [gate_outcome |-> outcome,
         advances |-> outcome \in {"ADVANCE", "CONDITIONAL_ADVANCE"},
         requires_human_review |-> \/ outcome = "DO_NOT_ADVANCE"
                                   \/ policy.human_review_always
                                   \/ LowConfidence(findings),
         response_depth |-> Depth[outcome]]

EvaluateTerminalStage(policy, findings) ==
    LET concerns == WithState(CriterionIds(policy), findings, "CONCERN")
    IN  [gate_outcome |-> "CONTINUE_MONITORING",
         advances |-> FALSE,
         requires_human_review |-> concerns # {} \/ LowConfidence(findings),
         response_depth |-> IF concerns # {} THEN "DETAILED" ELSE "STANDARD"]

\* unavailable_transition_evaluation: nothing is configured for the stage.
Unavailable ==
    [gate_outcome |-> "HOLD_FOR_EVIDENCE", advances |-> FALSE, requires_human_review |-> TRUE,
     response_depth |-> "BRIEF"]

\* The choice consolidate_dimensions makes between them.
Evaluate(policy, findings) ==
    IF policy = NoPolicy THEN Unavailable
    ELSE IF Terminal(policy) THEN EvaluateTerminalStage(policy, findings)
    ELSE EvaluateTransition(policy, findings)

=============================================================================
