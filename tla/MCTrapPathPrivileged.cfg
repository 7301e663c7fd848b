CONSTANTS
    UserPC <- MCUserPC
    NextPC <- MCNextPC
    BeforeEntry = "u0"
    Word = {0, 10}
    UserSp = {90}
    MaxDepth = 2
    UserCodes = {8}
    FaultCodes = {13}
    UserOps = {"mfc0", "mtc0", "eret", "vmtunnel"}
SPECIFICATION FairSpec
CHECK_DEADLOCK FALSE
INVARIANT TrapInvariant
PROPERTY TrapCompletes
