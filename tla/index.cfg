\* The operator's commands beside a kord that serves, stops and starts.
SPECIFICATION Spec
CONSTANTS
    v1 = v1
    v2 = v2
    k1 = k1
    k2 = k2
    NoDoc = NoDoc
    Docs = {d1}
    Values = {v1, v2}
    Indexes = {i1}
    Keys = {k1, k2}
    KeysOf <- MCKeysOf
    BatchSize = 1
INVARIANTS
    TypeOK
    WrongOnlyIfExposed
    UnlistedOnlyIfCrossed
PROPERTY
    FailsOnlyIfRaced
