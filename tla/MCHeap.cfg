CONSTANTS
    Sizes = {0, 7}
    HeapWords = 30
    Anchored = TRUE
SPECIFICATION FairSpec
INVARIANT HeapTypeOK HeapTiled LiveBacked
PROPERTY PayloadUntouched MallocReturns ImplementsAllocator
