\* One instruction and two workflow runs for the same email, no fault.
CONSTANTS
    d1 = d1
    d2 = d2
    w1 = w1
    w2 = w2
    p1 = p1
    p2 = p2
    NoDelivery = NoDelivery
    Deliveries = {d1}
    Workflows = {w1, w2}
    Pollers = {}
    VisibilityTimeout = 2
    BaseDelay = 1
    MaxDelay = 2
    MaxFaults = 0
SPECIFICATION Spec
INVARIANTS
    OneEmailPerDelivery
CHECK_DEADLOCK FALSE
