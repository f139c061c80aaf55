\* Two commits may read the same microsecond.
SPECIFICATION Spec
CONSTANTS
    a = a
    b = b
    c = c
    d = d
    e = e
    NoTxn = NoTxn
    Docs = {a}
    Rank <- MCRank
    HashText <- DistinctHash
    Collections = {"p", "q"}
    CollectionOf <- OneCollection
    Sess = {s1, s2}
    Txns = {t1}
    Requests <- TxnRequests
    DistinctTimes = FALSE
    ReReads = FALSE
    TxnTTL = 9
    MaxStarts = 3
    MaxClock = 2
    MaxInflight = 1
SYMMETRY Symm
CHECK_DEADLOCK FALSE
INVARIANTS
    SerializableReads
