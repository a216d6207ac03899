CONSTANTS
    Statements <- MCStatements
    MaxStatements = 3
    Actions = {"s3:GetObject", "s3:PutObject"}
    Callers = {"account", "stranger"}
    Requirements = {"org"}
SPECIFICATION Spec
INVARIANT VerdictMatchesMeaning
CHECK_DEADLOCK FALSE
