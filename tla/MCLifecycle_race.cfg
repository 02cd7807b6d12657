\* Two assessments against human commands: every interleaving up to MaxVersion.
CONSTANTS
    i1 = i1
    t1 = t1
    t2 = t2
    t3 = t3
    t4 = t4
    t5 = t5
    a1 = a1
    a2 = a2
    p1 = p1
    p2 = p2
    b1 = b1
    NoInitiative = NoInitiative
    Initiatives = {i1}
    Transitions = {t1, t2, t3}
    Assessments = {a1, a2}
    Evaluations = {}
    Reports = {}
    LastStage = 3
    FirstMeasuredStage = 2
    MaxVersion = 3
SPECIFICATION Spec
SYMMETRY Symmetry
INVARIANTS
    LedgerExplainsStage
    FreshProposalApplies
    LastStageNeedsApproval
    LedgerExplainsHold
PROPERTIES
    DecisionIsFinal
    EveryChangeVersioned
    ImplementsLadder
CHECK_DEADLOCK FALSE
