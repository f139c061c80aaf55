\* One transaction against overwrites and deletes of what it read.
SPECIFICATION Spec
CONSTANTS
    a = a
    b = b
    c = c
    d = d
    e = e
    NoTxn = NoTxn
    Docs = {a}
    Rank <- MCRank
    HashText <- DistinctHash
    Collections = {"p", "q"}
    CollectionOf <- OneCollection
    Sess = {s1, s2}
    Txns = {t1}
    Requests <- BlindRequests
    DistinctTimes = TRUE
    ReReads = FALSE
    TxnTTL = 1
    MaxStarts = 3
    MaxClock = 4
    MaxInflight = 1
SYMMETRY Symm
CHECK_DEADLOCK FALSE
INVARIANTS
    SerializableReads
PROPERTIES
    Implements
