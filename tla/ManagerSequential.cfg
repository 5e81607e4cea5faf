SPECIFICATION Spec
CONSTANTS
    tv = tv
    dup = dup
    other = other
    box = box
    loop = loop
    user = user
    living = living
    attic = attic
    None = None
    NoAlias = NoAlias
    DeviceID = {tv, dup, other, box}
    Client = {user}
    Request <- WriteRequests
    Samsung = {tv, dup, other}
    Roku = {box}
    Unit <- Units
    SameIdentity <- SameUnit
    Rank <- Ranks
    Host = {}
    Called <- CalledAttic
    Alias = {attic, living}
    Comparable = {attic, living}
    MaxSlots = 2
    InitialStore <- ManyStore
    MaxReports = 1
    MaxCrashes = 0
    Fault = {}
INVARIANTS
    PairingProvenance
    DuplicatesAgree
    RowsFollow
PROPERTIES
    NamesKept
    PairedOnlyByPairing
