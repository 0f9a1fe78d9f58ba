SPECIFICATION MCSpec
CONSTANTS
    Threads = {t1, t2, t3}
    u1 = u1  u2 = u2
    Sockets = {s1, s2}
    Invalid = Invalid
    MaxSockets = 1
    Calls = {"close", "use"}
    Careful = FALSE
    None = None
SYMMETRY Symmetry
INVARIANTS
    Accounted
    StartedOnce
    CarefulExact
