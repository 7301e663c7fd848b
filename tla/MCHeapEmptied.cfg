CONSTANTS
    Sizes = {1}
    HeapWords = 12
    Anchored = FALSE
SPECIFICATION FairSpec
PROPERTY MallocReturns
CHECK_DEADLOCK FALSE
