SPECIFICATION Spec
CONSTANTS
    Structs = {s1, s2}
    Callers = {c1, c2}
    Ids = {1, 2}
    maxthreads = 1
    NULL = NULL
    SingleReaper = FALSE
    ZeroDetach = FALSE
SYMMETRY Symmetry
INVARIANTS
    MemorySound
    HandlesSound
    JoinNeverMixes
