SPECIFICATION Spec
CONSTANTS
    Handles = {h1, h2}
    Requests <- RangeRequests
    INT64_MAX = 5
    Positions = {0}
    Offsets = {0}
    Sizes = {0}
PROPERTY RefusedByHolder
