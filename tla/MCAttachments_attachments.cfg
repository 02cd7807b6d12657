\* Three requests that share contents, with faults and repetitions.
CONSTANTS
    q1 = q1
    q2 = q2
    q3 = q3
    m1 = m1
    m2 = m2
    first = first
    second = second
    report = report
    sheet = sheet
    huge = huge
    Requests = {q1, q2, q3}
    Messages = {m1, m2}
    AttachmentIds = {first, second}
    Contents = {report, sheet, huge}
    Extensions = {".pdf", ".docx", ".xlsx", ".txt"}
    Supported = {".pdf", ".docx", ".xlsx"}
    Acceptable = {report, sheet}
    Readable <- ReadableFiles
    Mailboxes <- Emails
    MaxFaults = 2
SPECIFICATION FairSpec
CHECK_DEADLOCK FALSE
INVARIANTS
    StoredBeforeReferred
    ExtractionExplained
PROPERTIES
    EventuallyLinked
