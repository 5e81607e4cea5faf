SPECIFICATION Spec
CONSTANTS
    Process = {daemon, cli}
    Secret = {token, other}
    Token = {token}
    Value = {v1, v2, v3}
    None = None
    NoFile = NoFile
    Torn = Torn
    Mode = {"works", "absent", "flaky"}
    MaxCrashes = 1
SYMMETRY Symmetric
INVARIANTS
    AnswersArePromised
    TokensAgree
CHECK_DEADLOCK FALSE
