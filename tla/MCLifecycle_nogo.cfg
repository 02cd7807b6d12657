\* An assessment after an approved No-Go.
CONSTANTS
    i1 = i1
    t1 = t1
    t2 = t2
    t3 = t3
    t4 = t4
    t5 = t5
    a1 = a1
    a2 = a2
    p1 = p1
    p2 = p2
    b1 = b1
    NoInitiative = NoInitiative
    Initiatives = {i1}
    Transitions = {t1, t2}
    Assessments = {a1}
    Evaluations = {}
    Reports = {}
    LastStage = 3
    FirstMeasuredStage = 3
    MaxVersion = 3
SPECIFICATION Spec
CHECK_DEADLOCK FALSE
PROPERTIES
    NoGoIsFinal
