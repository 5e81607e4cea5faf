SPECIFICATION Spec
CONSTANTS
    Device <- MCDevice
    Name <- MCName
    FactoryName <- MCFactoryName
    NoAlias = NoAlias
    NoDevice = NoDevice
    Remote <- MCDevice
    Text <- MCText
    Label = {"up"}
    Digest <- MCDigest
    MaxUpdates = 3
    MaxRestarts = 1
    MaxChanges = 1
INVARIANTS
    HelpIsTrue
    OncePerRun
    TapsKeepTheirDevice
PROPERTIES
    ImplementsQueue
    AllHandled
CHECK_DEADLOCK FALSE
