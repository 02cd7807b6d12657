\* Two requests for an insight report while an initiative is assessed, held, decided on and found stalled.
CONSTANTS
    i1 = i1
    t1 = t1
    t2 = t2
    a1 = a1
    p1 = p1
    g1 = g1
    g2 = g2
    NoInitiative = NoInitiative
    Initiatives = {i1}
    Transitions = {t1}
    Assessments = {a1}
    Evaluations = {p1}
    Reports = {}
    LastStage = 3
    FirstMeasuredStage = 3
    MaxVersion = 3
    Insights = {g1, g2}
    MaxAssessed = 1
SPECIFICATION PortfolioSpec
SYMMETRY Symmetry
INVARIANTS
    StagesAreAssessed
PROPERTIES
    PartsWereCurrent
CHECK_DEADLOCK FALSE
