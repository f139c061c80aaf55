\* Two operators, each interrupted anywhere.
SPECIFICATION Spec
CONSTANTS
    None = None
    Operators = {o1, o2}
    Collections = {x, y}
SYMMETRY Symm
INVARIANTS
    IndexMatchesTable
    UsableUnlessFailed
PROPERTIES
    DropOnlyWithReplacement
