SPECIFICATION Spec
CONSTANTS
    Client = {c1, c2}
    Token = {t1, t2, t3}
    NameCount = 2
    MaxKeys = 2
    MaxCrashes = 1
    Fault = {"save", "delete"}
    None = None
SYMMETRY Symmetric
INVARIANTS
    TypeOK
    DeliveryBound
    SequentialNeverPrompt
    DurablePairing
    UnpairForgets
PROPERTIES
    PairingKept
