CONSTANTS
    Missing = Missing
    Null = Null
    Malformed = Malformed
    NonUtc = NonUtc
    OtherType = OtherType
    Minute = 2
    Policy <- MCPolicy
    Subject = "subject"
    Other = "other"
    Outcomes <- MCOutcomes
    MaxTime = 4
    MaxBackups = 3
    MaxCollections = 3
    MaxTests = 2
    MaxSlips = 1
    MaxTestTime = 3
SPECIFICATION MCSpec
INVARIANTS
    RpoMatchesHistory
    RtoMatchesHistory
    NoPassBecomesFail
    LaterIsNoBetter
    OrderDoesNotMatter
PROPERTY InconclusiveHidesNothing
CHECK_DEADLOCK FALSE
