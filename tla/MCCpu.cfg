CONSTANTS
    ByteBits = 1
    Reg = {"a", "b", "ra"}
    RA = "ra"
    Odd <- MCOdd
    FpResults = {5}
    Images <- MCImages
    TrapEntry = 4
    Uninitialised = {0, 6, 15}
SPECIFICATION Spec
INVARIANT CpuTypeOK CacheMatches
PROPERTY PreciseTraps ReturnsBehindCall ImplementsArchitecture
CHECK_DEADLOCK FALSE
