\* A backup scan of one file.
SPECIFICATION Spec
CONSTANTS
    Missing = Missing
    Null = Null
    Malformed = Malformed
    NonUtc = NonUtc
    OtherType = OtherType
    Names <- MCNames
    Paths <- BackupPaths
    Commands <- FileCommands
    Holds <- MCHolds
    TextOf <- MCTextOf
    Repositories <- MCRepositories
    MaxChanges = 1
    TfstateNames = {"s.tfstate"}
    TfvarsNames = {"p.tfvars"}
    ExampleNames = {"e.tfvars.dist"}
    ZipNames = {"z.zip"}
    ProviderNames = {"terraform-provider-aws_v5"}
    AgentNames = {"a.agent.md"}
    KebabNames = {"a.agent.md"}
    HumanReadable = {"PR Gatekeeper"}
INVARIANT SuppliedBlockersAreFound
CHECK_DEADLOCK FALSE
