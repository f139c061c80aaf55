\* Every kind of write on one document: nested maps, masks and transforms.
SPECIFICATION Spec
CONSTANTS
    Requests <- AllRequests
    Paths <- MCPaths
    Times = {1, 2}
    MaxInt = 3
    Inf = 6
    NaN = NaN
INVARIANTS
    MaskOrderIrrelevant
    ExtremaCommute
    
PROPERTIES
    OthersKept
    IncrementSaturates
