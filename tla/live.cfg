SPECIFICATION MCSpec
CONSTANTS
    s1 = s1  s2 = s2
    main = main
    t1 = t1
    w = w
    NULL = NULL
    None = None
INVARIANTS
    InterfacesExact
PROPERTIES
    Reclaimed
    JoinReturns
    Delivered
    Returns
CHECK_DEADLOCK FALSE
