SPECIFICATION Spec
CONSTANTS
    tv = tv
    dup = dup
    other = other
    box = box
    loop = loop
    user = user
    living = living
    attic = attic
    None = None
    NoAlias = NoAlias
    DeviceID = {tv}
    Client = {loop, user}
    Request <- UnpairOnly
    Samsung = {tv}
    Roku = {}
    Unit <- Units
    SameIdentity <- SameUnit
    Rank <- Ranks
    Host = {}
    Called <- CalledAttic
    Alias = {}
    Comparable = {}
    MaxSlots = 3
    InitialStore <- PairedStore
    MaxReports = 1
    MaxCrashes = 0
    Fault = {}
PROPERTIES
    PairedOnlyByPairing
