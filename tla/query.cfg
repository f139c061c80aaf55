\* Every path, filter, direction and value type against the query's meaning.
SPECIFICATION Spec
CONSTANTS
    Names <- MCNames
    Contents <- MCContents
    Defs <- MCDefs
    Queries <- MCQueries
    MaxDocs = 2
INVARIANTS
    AnswerExact
    NarrowingSound
    SortKeysOrdered
