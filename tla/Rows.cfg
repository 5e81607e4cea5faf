SPECIFICATION Spec
CONSTANTS
    Samsung = {s}
    Television = {t}
    Windows = {w}
    Address = {a1, a2, a3, a4, a5}
    Name = {n1, n2, n3, n4}
    Alias = {x}
    None = None
    FirstNames <- MCNames
    MaxReports = 3
    MaxChanges = 2
INVARIANTS
    RowsMixOnlyMet
    OneRowEach
    
CHECK_DEADLOCK FALSE
