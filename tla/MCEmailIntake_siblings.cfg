\* Two emails of one new conversation are handled at the same time.
CONSTANTS
    q1 = q1
    q2 = q2
    q3 = q3
    x1 = x1
    x2 = x2
    x3 = x3
    y1 = y1
    y2 = y2
    y3 = y3
    c1 = c1
    c2 = c2
    idea = idea
    Nothing = Nothing
    Requests = {q1, q2}
    MessageIds = {x1, x2, x3}
    Payloads = {y1, y2, y3}
    Conversations = {c1, c2}
    Pilots = {idea}
    Mailboxes <- FollowUp
    Promoted = {}
    Advancing = {}
    MaxFaults = 0
SPECIFICATION Spec
INVARIANTS
    OneInitiativePerThread
CHECK_DEADLOCK FALSE
