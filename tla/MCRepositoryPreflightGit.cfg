\* The default mode when git may fail.
SPECIFICATION Spec
CONSTANTS
    Missing = Missing
    Null = Null
    Malformed = Malformed
    NonUtc = NonUtc
    OtherType = OtherType
    Names <- MCNames
    Paths <- DefaultPaths
    Commands <- DefaultCommands
    Holds <- MCHolds
    TextOf <- MCTextOf
    Repositories <- MCRepositories
    MaxChanges = 2
    TfstateNames = {"s.tfstate"}
    TfvarsNames = {"p.tfvars"}
    ExampleNames = {"e.tfvars.dist"}
    ZipNames = {"z.zip"}
    ProviderNames = {"terraform-provider-aws_v5"}
    AgentNames = {"a.agent.md"}
    KebabNames = {"a.agent.md"}
    HumanReadable = {"PR Gatekeeper"}
INVARIANT TrackedIsValidated
CHECK_DEADLOCK FALSE
