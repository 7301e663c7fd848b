CONSTANTS
    Path = {"a", "b", "missing"}
    Size <- MCSize
    MaxOpens = 3
    Object = {f1, f2, f3}
    Chunk = 2
    MaxRead = 4
    Offsets = {0, 1, 3}
SPECIFICATION FairSpec
INVARIANT KfTypeOK FreeListExact NoDescriptorLeaks OneFileNeverDies OneFileReadsWhole
PROPERTY ReadEnds
CHECK_DEADLOCK FALSE
