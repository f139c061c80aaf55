\* Collections of one id under two parents, and an index on them.
SPECIFICATION Spec
CONSTANTS
    Names <- ParentNames
    Contents <- ParentContents
    Defs <- MCDefs
    Queries <- ParentQueries
    MaxDocs = 2
INVARIANTS
    AnswerExact
