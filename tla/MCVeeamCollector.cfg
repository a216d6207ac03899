CONSTANTS
    Missing = Missing
    Null = Null
    Malformed = Malformed
    NonUtc = NonUtc
    OtherType = OtherType
    Backups <- RichBackups
    Sessions <- RichSessions
    RestorePoints <- RichPoints
    Repositories <- RichRepositories
    Beginnings <- RichBeginnings
    MaxLog = 4
    MaxBefore = 2
    MaxDuring = 1
    MaxFaults = 1
SPECIFICATION Spec
INVARIANTS
    ObjectsAccountedFor
    RelationshipsAreExposed
    RepositoriesUnambiguous
    OwnContractHolds
    LastSuccessIsFresh
CHECK_DEADLOCK FALSE
