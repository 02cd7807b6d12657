\* An email is repeated, under its own id or another, beside a second email.
CONSTANTS
    q1 = q1
    q2 = q2
    q3 = q3
    x1 = x1
    x2 = x2
    x3 = x3
    y1 = y1
    y2 = y2
    y3 = y3
    c1 = c1
    c2 = c2
    idea = idea
    Nothing = Nothing
    Requests = {q1, q2, q3}
    MessageIds = {x1, x2, x3}
    Payloads = {y1, y2, y3}
    Conversations = {c1, c2}
    Pilots = {idea}
    Mailboxes <- Repetitions
    Promoted = {}
    Advancing = {q1}
    MaxFaults = 1
SPECIFICATION FairSpec
INVARIANTS
    ReplayAddsNothing
    SnapshotCoversAssessment
    NoOrphanInitiative
PROPERTIES
    StoredIsAnswered
CHECK_DEADLOCK FALSE
