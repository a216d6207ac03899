CONSTANTS
    Procs = {p1, p2}
    a = a
    b = b
    policy = policy
    out = out
    result = result
    Paths = {a, b, policy, out, result}
    Ids = {1, 2}
    Profiles <- MCProfiles
    Invocations <- MCLiveInvocations
    InitialFiles <- MCInitialFiles
    Operator = Operator
    NoDoc = NoDoc
    AbsentPath = AbsentPath
    TornPath = TornPath
    MaxFaults = 1
SPECIFICATION FairSpec
PROPERTIES
    RaceHasWinner
    ImplementsStore
CHECK_DEADLOCK FALSE
