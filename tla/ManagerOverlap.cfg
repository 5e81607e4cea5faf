SPECIFICATION Spec
CONSTANTS
    tv = tv
    dup = dup
    other = other
    box = box
    loop = loop
    user = user
    living = living
    attic = attic
    None = None
    NoAlias = NoAlias
    DeviceID = {tv}
    Client = {loop, user}
    Request <- AllRequests
    Samsung = {tv}
    Roku = {}
    Unit <- Units
    SameIdentity <- SameUnit
    Rank <- Ranks
    Host = {}
    Called <- CalledAttic
    Alias = {living}
    Comparable = {living}
    MaxSlots = 3
    InitialStore <- FirstOrPaired
    MaxReports = 1
    MaxCrashes = 1
    Fault = {"saves", "secrets", "tokenless"}
INVARIANTS
    TypeOK
    OnlineMeansSighted
    RowsFollow
PROPERTIES
    PairingNeedsPrompt
    NamesKept
