SPECIFICATION MCSpec
CONSTANTS
    NsPerMs = 2
    MsPerSec = 2
    MaxMsecs = 2
    Threads = {t1, t2}
    NULL = NULL
    MaxTime = 6
    MaxDepth = 2
    MaxPosts = 1
    SemMax = 2
    Initial = 1
    Worker = w
    g1 = g1  g2 = g2  g3 = g3
    e1 = e1  e2 = e2  o1 = o1
    r1 = r1  r2 = r2  r3 = r3
    None = None
SYMMETRY Symmetry
INVARIANTS
    
    
    NamesExact
    MessagesExact
    
PROPERTIES
    NotEarly
CHECK_DEADLOCK FALSE
