CONSTANTS
    UserPC <- MCUserPC
    NextPC <- MCNextPC
    BeforeEntry = "u0"
    Word = {0, 5, 10}
    UserSp = {90}
    MaxDepth = 3
    UserCodes = {8, 12, 13}
    FaultCodes = {10, 13}
    UserOps = {}
SPECIFICATION Spec
CHECK_DEADLOCK FALSE
INVARIANT UserModeUnprivileged
