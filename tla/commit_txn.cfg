\* Two transactions that read and write across two documents, and plain commits.
SPECIFICATION Spec
CONSTANTS
    a = a
    b = b
    c = c
    d = d
    e = e
    NoTxn = NoTxn
    Docs = {a, b}
    Rank <- MCRank
    HashText <- DistinctHash
    Collections = {"p", "q"}
    CollectionOf <- OneCollection
    Sess = {s1, s2}
    Txns = {t1, t2}
    Requests <- TxnRequests
    DistinctTimes = TRUE
    ReReads = FALSE
    TxnTTL = 0
    MaxStarts = 2
    MaxClock = 3
    MaxInflight = 1
SYMMETRY Symm
CHECK_DEADLOCK FALSE
INVARIANTS
    TypeOK
    VerifiedStable
    SerializableReads
    AppliedAtMostOnce
PROPERTIES
    Implements
