\* An administrator reads pages while two emails are taken in and a candidate is promoted.
CONSTANTS
    q1 = q1
    q2 = q2
    s1 = s1
    x1 = x1
    x2 = x2
    y1 = y1
    y2 = y2
    c1 = c1
    idea = idea
    Nothing = Nothing
    Requests = {q1, q2}
    MessageIds = {x1, x2}
    Payloads = {y1, y2}
    Conversations = {c1}
    Pilots = {idea}
    Mailboxes <- RepeatedAndFollowed
    Promoted = {s1}
    Advancing = {}
    MaxFaults = 1
SPECIFICATION PageSpec
INVARIANTS
    OneReplyShown
    AssessmentsTraceable
CHECK_DEADLOCK FALSE
