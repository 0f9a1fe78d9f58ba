SPECIFICATION MCSpec
CONSTANTS
    Gran = 4
    Wide = 6
    MapOffsets <- MCOffsets
    MapLengths <- MCLengths
    MapPlaces <- MCPlaces
    t1 = t1  t2 = t2
    d1 = d1  d2 = d2  d3 = d3
    c1 = c1  c2 = c2  c3 = c3
    x1 = x1  x2 = x2  x3 = x3
    reader = reader  writer = writer
    r1 = r1  r2 = r2  r3 = r3
    u1 = u1  u2 = u2
    NULL = NULL
    None = None
    none = none
    garbage = garbage
INVARIANTS
    MappingsSound
    StreamsExact
    FilesExact
    VectorsExact
    UuidsExact
    RangeExact
    TasksExact
    LookupExact
    
    MatchesAllWays
PROPERTIES
    ImplementsQueue
