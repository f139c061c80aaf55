\* Every path, for queries and counts, against runGeneral.
SPECIFICATION Spec
CONSTANTS
    N = 3
    NRanges = 2
    Limits <- SmallLimits
    Offsets = {0, 1, 7}
    Cursors = {"none", "pushed", "inGo"}
    UpTos = {0, 1, 2, 17}
    MaxAggs = 2
    SparseOrder = TRUE
    MaxInt32 = 7
CHECK_DEADLOCK FALSE
INVARIANTS
    PagesAgree
    CountsAgree
    InQueryOrder
