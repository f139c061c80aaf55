\* Overlapping transactions, a consumer of one collection, one row per poll, and
\* pruning.
SPECIFICATION FairSpec
CONSTANTS
    posts = posts
    users = users
    c1 = c1
    c2 = c2
    AllCollections = AllCollections
    Writers = {w1, w2}
    Consumers = {c2}
    Collections = {posts, users}
    Filter <- MCFilter
    RequestLimit = 1
    DefaultLimit = 2
    Retention = 0
    MaxXid = 2
    MaxSeq = 3
    MaxClock = 1
CHECK_DEADLOCK FALSE
INVARIANTS
    TypeOK
    NoEventSkipped
PROPERTIES
    StableGrowsAtEnd
    EventsArrive
