SPECIFICATION Spec
CONSTANTS
    Request = {r1, r2}
    Flag = {displays, offline}
    Asked = {displays}
    Rest = {fresh, chosen}
    NoRest = fresh
    NoFile = NoFile
    Torn = Torn
SYMMETRY Symmetric
INVARIANTS
    NothingReverted
    CopiesAgree
CHECK_DEADLOCK FALSE
