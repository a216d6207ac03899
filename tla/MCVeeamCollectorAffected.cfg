CONSTANTS
    Missing = Missing
    Null = Null
    Malformed = Malformed
    NonUtc = NonUtc
    OtherType = OtherType
    Backups <- RichBackups
    Sessions <- RichSessions
    RestorePoints <- RichPoints
    Repositories <- RichRepositories
    Beginnings <- RichBeginnings
    MaxLog = 4
    MaxBefore = 3
    MaxDuring = 0
    MaxFaults = 0
SPECIFICATION Spec
INVARIANT AffectedNotEmitted
CHECK_DEADLOCK FALSE
