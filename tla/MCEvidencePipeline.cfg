CONSTANTS
    p1 = p1
    p2 = p2
    p3 = p3
    p4 = p4
    Paths = {p1, p2, p3, p4}
    Authored <- MCAuthored
    Absent = Absent
    Refused = Refused
    Missing = Missing
    Null = Null
    Malformed = Malformed
    NonUtc = NonUtc
    OtherType = OtherType
    MaxInputs = 3
    bucket1 = bucket1
    bucket2 = bucket2
    id1 = id1
    id2 = id2
    S3Reports <- S3Source
    VeeamReports <- VeeamSource
    Times <- MCTimes
    Objectives = {1}
    Minute = 1
SYMMETRY Symmetry
SPECIFICATION Spec
INVARIANTS
    FinalCheckNeverFails
    OriginsWereSound
    NothingLostNothingTwice
    WorstEvidenceShows
    HistoryDoesNotMatter
    ProvenanceAccounts
    RefusalsAreExplained
    EverythingObservedIsFound
    OneLookAtABucket
    MockStaysApart
    RpoIsAboutTheJob
