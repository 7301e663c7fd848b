CONSTANTS
    Path = {"a", "b"}
    Size <- MCSize
    MaxOpens = 4
    Object = {f1, f2, f3, f4}
    Chunk = 2
    MaxRead = 1
    Offsets = {0, 1}
SPECIFICATION Spec
INVARIANT ReadsOwnFile
CHECK_DEADLOCK FALSE
