\* Faults of every kind, page limits that are not multiples of the batch limits.
SPECIFICATION FairSpec
CONSTANTS
    N = 8
    Size <- MCSize
    PageSize = 4
    PageBytes = 6
    BatchSize = 3
    BatchBytes = 5
    Chunk = 2
    MaxAttempts = 3
    Commands = {"import", "export", "verify"}
    StateFile = TRUE
    ResumeDryRun = FALSE
INVARIANTS
    TypeOK
    NothingSkipped
    BatchBounded
    VerifyCovers
PROPERTIES
    RunEnds
