CONSTANTS
    Procs = {p1, p2, p3}
    a = a
    b = b
    policy = policy
    out = out
    result = result
    Paths = {a, b, policy, out, result}
    Ids = {1, 2}
    Profiles <- MCProfiles
    Invocations <- MCInvocations
    InitialFiles <- MCInitialFiles
    Operator = Operator
    NoDoc = NoDoc
    AbsentPath = AbsentPath
    TornPath = TornPath
    MaxFaults = 2
SPECIFICATION Spec
SYMMETRY Symmetry
INVARIANTS
    TypeOK
    SuccessIsReproducible
    PartialIsNobodysResult
PROPERTY NeverOverwritten
CHECK_DEADLOCK FALSE
