\* Metric reports, one of them repeated under its key, against a Pacer evaluation, an
\* assessment and human commands.
CONSTANTS
    i1 = i1
    t1 = t1
    t2 = t2
    t3 = t3
    a1 = a1
    p1 = p1
    p2 = p2
    b1 = b1
    b2 = b2
    k1 = k1
    k2 = k2
    NoInitiative = NoInitiative
    Initiatives = {i1}
    Transitions = {t1, t2}
    Assessments = {a1}
    Evaluations = {p1}
    Reports = {b1, b2}
    LastStage = 3
    FirstMeasuredStage = 2
    MaxVersion = 3
    MetricNames = {"latency"}
    Definitions <- LatencyDefinitions
    Keys = {k1, k2}
    Measurements <- Reported
SPECIFICATION ObsSpec
SYMMETRY Symmetry
CHECK_DEADLOCK FALSE
INVARIANTS
    HoldConsistent
    ObservedOnce
    AlertsExplained
PROPERTIES
    HeldInitiativeStands
    StallJustified
    ValueNeverGoesBack
    ImplementsLifecycle
