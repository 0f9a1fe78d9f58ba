SPECIFICATION Spec
CONSTANTS
    Structs = {s1}
    Callers = {c1, c2}
    Ids = {1}
    maxthreads = 1
    NULL = NULL
    SingleReaper = TRUE
    ZeroDetach = TRUE
INVARIANT ZeroDetachRejected
