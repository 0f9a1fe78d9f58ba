SPECIFICATION MCSpec
CONSTANTS
    f1 = f1  f2 = f2  f3 = f3
    s1 = s1  s2 = s2  s3 = s3
    d1 = d1  d2 = d2
    k1 = k1  k2 = k2
    Invalid = Invalid
    None = None
SYMMETRY Symmetry
INVARIANTS
    InterestExact
    
    SlotsSound

    
