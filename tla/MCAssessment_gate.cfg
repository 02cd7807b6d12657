SPECIFICATION Spec
CONSTANTS
    entry = entry
    block = block
    expect = expect
    Criteria = {entry, block, expect}
    Confidences = {50, 60}
    ConfidenceFloor = 60
    NoPolicy = NoPolicy
    StageWeights <- DI1Weights
    Unscored = Unscored
    Situations <- MCSituations
    Texts <- MCTexts
    Outputs <- MCOutputs
    RequestTimeout = 300
    MaxRetries = 1
    Durations <- MCDurations
    NoResult = NoResult
INVARIANTS
    TypeOK
    DeadlineKept
    GovernedAdvance
    FallbackHolds
    CompositeExplained
PROPERTIES
    MoreEvidenceNeverHurts
    WrittenIsKept
