CONSTANTS
    ByteBits = 1
    Reg = {"a", "b", "ra"}
    RA = "ra"
    Odd <- MCOdd
    FpResults = {5}
    Images <- MCSumImages
    TrapEntry = 4
    Uninitialised = {0, 6, 15}
SPECIFICATION Spec
PROPERTY AddSums
CHECK_DEADLOCK FALSE
