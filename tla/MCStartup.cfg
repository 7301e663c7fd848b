CONSTANTS
    Address <- MCAddress
    Chars <- MCChars
    Kernels <- MCKernels
    ArgLists <- MCArgLists
    ArgLen = 3
    ArgSlots = 2
    WordBytes = 2
    Disks <- MCDisks
    Flag <- MCFlag
    TextStart = 1
    DataStart = 10
    ReadSize = 2
    Extent <- MCExtent
SPECIFICATION StartSpec
INVARIANT FindsArguments KernelIntact UserImage
PROPERTY StartEnds
CHECK_DEADLOCK FALSE
