CONSTANTS
    None = None
    Buckets <- MCBuckets
    OtherErrors = {"AccessDenied"}
    AwsCritical = {"NoSuchBucket"}
    MaxRuns = 2
    MaxChanges = 1
    MaxFaults = 2
SPECIFICATION Spec
INVARIANTS
    TypeOK
    ExitCodeMatchesReport
    VerdictsWitnessed
    HardErrorEndsTheRun
PROPERTY ReportKeptUntilChecksDone
CHECK_DEADLOCK FALSE
