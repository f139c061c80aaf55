\* Three commits, two at a time, with preconditions and several writes each, over
\* nested collections and over names of which two share a hash.
SPECIFICATION FairSpec
CONSTANTS
    a = a
    b = b
    c = c
    d = d
    e = e
    NoTxn = NoTxn
    Docs = {a, b, c, d, e}
    Rank <- MCRank
    HashText <- CollidingHash
    Collections = {"p", "q"}
    CollectionOf <- TwoCollections
    Sess = {s1, s2}
    Txns = {}
    Requests <- BatchRequests
    DistinctTimes = FALSE
    ReReads = FALSE
    TxnTTL = 1
    MaxStarts = 3
    MaxClock = 1
    MaxInflight = 0
CHECK_DEADLOCK FALSE
INVARIANTS
    CreatedOnce
    CyclesExplained
PROPERTIES
    EventsInCommitOrder
    Implements
    CommitsEnd
