CONSTANTS
    Vectors = {v1, v2}
    Arrays = {a1, a2, a3}
    Null = null
    Elem = {zero, x}
    Zero = zero
    Junk = junk
    Initial = 1
    Requests = {0, 2}
    MaxSize = 3
    Value = {x, y}
    Place = {p1, p2, p3}
    Nil = nil
    None = none
    BlockBits = 2
    BitCounts = {1, 2, 3, 4, 5}
SPECIFICATION MCSpec
INVARIANT VectorTypeOK OneOwnerEach ElementsKept OverrunsOnlyEmptied
INVARIANT QueueTypeOK ListExact IteratorVisits
INVARIANT BitsExact
PROPERTY ImplementsFifo
CHECK_DEADLOCK FALSE
