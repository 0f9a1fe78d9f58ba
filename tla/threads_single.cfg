SPECIFICATION Spec
CONSTANTS
    Structs = {s1, s2, s3}
    Callers = {main}
    Ids = {1, 2}
    maxthreads = 2
    NULL = NULL
    SingleReaper = TRUE
    ZeroDetach = FALSE
SYMMETRY Symmetry
INVARIANTS
    TableSound
    JoinDelivers
