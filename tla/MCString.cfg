CONSTANTS
    Vectors = {v1, v2}
    Arrays = {a1, a2, a3}
    Null = null
    Elem = {zero, x}
    Zero = zero
    Junk = junk
    Initial = 8
    Requests = {}
    MaxSize = 3
SPECIFICATION StringSpec
INVARIANT AlwaysTerminated
CHECK_DEADLOCK FALSE
