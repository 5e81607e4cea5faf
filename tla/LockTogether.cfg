SPECIFICATION Spec
CONSTANTS
    d1 = d1
    d2 = d2
    NoPID = NoPID
    NoFile = NoFile
    Process = {d1, d2}
    Stranger = {}
    PID = {1, 2}
    Number <- AnyNumber
INVARIANTS
    OneDaemon
CHECK_DEADLOCK FALSE
