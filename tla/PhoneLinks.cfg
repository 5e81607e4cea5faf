SPECIFICATION Spec
CONSTANTS
    Token = {t1, t2}
    Operator = {o1, o2}
    Browser = {b1, b2}
    Lifetime = 2
    MaxTime = 4
    MaxRestarts = 1
    Gone = Gone
    None = None
INVARIANTS
    StaysUsable
PROPERTIES
    LateVisitsRefused
    ImplementsLink
CHECK_DEADLOCK FALSE
