SPECIFICATION Spec
CONSTANTS
    Handles = {h1, h2}
    Requests <- AllRequests
    INT64_MAX = 5
    Positions = {0, 1}
    Offsets = {0}
    Sizes <- SizesAll
SYMMETRY Symmetry
INVARIANTS
    GuardExact
    ClaimsHold
