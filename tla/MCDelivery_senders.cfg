\* Two workflow runs and two pollers race to send one instruction.
CONSTANTS
    d1 = d1
    d2 = d2
    w1 = w1
    w2 = w2
    p1 = p1
    p2 = p2
    NoDelivery = NoDelivery
    Deliveries = {d1}
    Workflows = {w1, w2}
    Pollers = {p1, p2}
    VisibilityTimeout = 3
    BaseDelay = 1
    MaxDelay = 3
    MaxFaults = 3
SPECIFICATION FairSpec
INVARIANTS
    TypeOK
    AttemptsCountedOnce
    SentWasMailed
    ClaimRespected
PROPERTIES
    SentIsFinal
    EventuallySent
CHECK_DEADLOCK FALSE
