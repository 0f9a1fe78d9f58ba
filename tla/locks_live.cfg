SPECIFICATION FairSpec
CONSTANTS
    Handles = {h1, h2, h3}
    Requests <- MixedRequests
    INT64_MAX = 5
    Positions = {0}
    Offsets = {0}
    Sizes = {0}
PROPERTIES
    NowaitReturns
