------------------------ MODULE ContainmentRebuild --------------------------
(***************************************************************************)
(* `kor index containment' (internal/store/containment.go): the exclusion  *)
(* list is replaced in a transaction, and then the containment index is    *)
(* rebuilt under a temporary name by statements that cannot share one.     *)
(*                                                                         *)
(* An index is its validity and the collections its predicate leaves out.  *)
(* CREATE and DROP INDEX CONCURRENTLY exclude one another on the table, so *)
(* a statement of one operator waits for a build of another.  Nothing else *)
(* keeps two operators apart: the code takes no lock for the command.      *)
(***************************************************************************)
CONSTANTS
    Operators,      \* who runs the command
    Collections,
    None            \* no index by that name

VARIABLES
    exclusions,     \* the table containment_exclusions
    gin,            \* the index documents_gin
    rebuild,        \* the index documents_gin_rebuild
    pc,             \* the statement each operator sends next
    want,           \* the list each operator was given
    seen,           \* the rows each operator's DELETE removes
    overlapped,     \* history: the last command to begin began beside another
    failed          \* history: a command failed, and none has run alone since

vars == <<exclusions, gin, rebuild, pc, want, seen, overlapped, failed>>

Index == [valid : BOOLEAN, excl : SUBSET Collections]

ASSUME NoneAssumption == None \notin Index

PCs == {"idle", "insert", "clear", "create", "build", "drop", "rename"}

Init ==
    /\ exclusions = {}
    /\ gin = [valid |-> TRUE, excl |-> {}]
    /\ rebuild = None
    /\ pc = [o \in Operators |-> "idle"]
    /\ want = [o \in Operators |-> {}]
    /\ seen = [o \in Operators |-> {}]
    /\ overlapped = FALSE /\ failed = FALSE

Goto(o, s) == pc' = [pc EXCEPT ![o] = s]
TableFree == \A o \in Operators : pc[o] # "build"

\* SetContainmentExclusions: normalise the list and, in a transaction, DELETE the
\* rows that are there ...
DeleteExclusions(o, X) ==
    /\ pc[o] = "idle"
    /\ want' = [want EXCEPT ![o] = X]
    /\ seen' = [seen EXCEPT ![o] = exclusions]
    /\ overlapped' = (\E p \in Operators : pc[p] # "idle")
    /\ Goto(o, "insert")
    /\ UNCHANGED <<exclusions, gin, rebuild, failed>>

\* Mutant: the rows of the earlier list stay.
InsertExclusionsToo(o) ==
    /\ pc[o] = "insert"
    /\ exclusions' = exclusions \cup want[o]
    /\ Goto(o, "clear")
    /\ UNCHANGED <<gin, rebuild, want, seen, overlapped, failed>>

\* ... INSERT the new ones and commit.  A row of the list that another operator
\* has committed since is a duplicate key (see Fail); its other rows stay.
InsertExclusions(o) ==
    /\ pc[o] = "insert"
    /\ want[o] \cap (exclusions \ seen[o]) = {}
    /\ exclusions' = (exclusions \ seen[o]) \cup want[o]
    /\ Goto(o, "clear")
    /\ UNCHANGED <<gin, rebuild, want, seen, overlapped, failed>>

\* DROP INDEX CONCURRENTLY IF EXISTS documents_gin_rebuild
ClearStale(o) ==
    /\ pc[o] = "clear" /\ TableFree
    /\ rebuild' = None
    /\ Goto(o, "create")
    /\ UNCHANGED <<exclusions, gin, want, seen, overlapped, failed>>

\* Mutant: the old index goes first.
CreateRebuildAfterDrop(o) ==
    /\ pc[o] = "create" /\ TableFree
    /\ rebuild = None
    /\ gin' = None
    /\ rebuild' = [valid |-> FALSE, excl |-> want[o]]
    /\ Goto(o, "build")
    /\ UNCHANGED <<exclusions, want, seen, overlapped, failed>>

\* CREATE INDEX CONCURRENTLY: the index is there, and invalid, while it is
\* built; an index of that name is an error (see Fail).
CreateRebuild(o) ==
    /\ pc[o] = "create" /\ TableFree
    /\ rebuild = None
    /\ rebuild' = [valid |-> FALSE, excl |-> want[o]]
    /\ Goto(o, "build")
    /\ UNCHANGED <<exclusions, gin, want, seen, overlapped, failed>>

Built(o) ==
    /\ pc[o] = "build"
    /\ rebuild' = [rebuild EXCEPT !.valid = TRUE]
    /\ Goto(o, "drop")
    /\ UNCHANGED <<exclusions, gin, want, seen, overlapped, failed>>

\* DROP INDEX CONCURRENTLY IF EXISTS documents_gin
DropOld(o) ==
    /\ pc[o] = "drop" /\ TableFree
    /\ gin' = None
    /\ Goto(o, "rename")
    /\ UNCHANGED <<exclusions, rebuild, want, seen, overlapped, failed>>

\* ALTER INDEX ... RENAME TO documents_gin
Rename(o) ==
    /\ pc[o] = "rename" /\ TableFree
    /\ rebuild # None /\ gin = None
    /\ gin' = rebuild /\ rebuild' = None
    /\ Goto(o, "idle")
    /\ failed' = (failed /\ overlapped)
    /\ UNCHANGED <<exclusions, want, seen, overlapped>>

\* A statement fails, or the command is interrupted; a build leaves its invalid
\* index behind, and an open transaction is rolled back.
Fail(o) ==
    /\ pc[o] # "idle"
    /\ Goto(o, "idle")
    /\ failed' = TRUE
    /\ UNCHANGED <<exclusions, gin, rebuild, want, seen, overlapped>>

Next ==
    \E o \in Operators :
        \/ \E X \in SUBSET Collections : DeleteExclusions(o, X)
        \/ InsertExclusions(o) \/ ClearStale(o) \/ CreateRebuild(o) \/ Built(o) \/ DropOld(o) \/ Rename(o)
        \/ Fail(o)

Spec == Init /\ [][Next]_vars

-----------------------------------------------------------------------------
(***************************************************************************)
(* Properties.                                                             *)
(***************************************************************************)

Idle == \A o \in Operators : pc[o] = "idle"

\* "They can only diverge if a rebuild failed halfway" (containment.go:111), as
\* far as the code keeps it: once a command that ran alone has ended well, the
\* index is valid and leaves out exactly the collections of the exclusion table,
\* whatever failed or overlapping commands left behind before it.
IndexMatchesTable ==
    Idle /\ ~failed /\ ~overlapped => gin = [valid |-> TRUE, excl |-> exclusions]

UsableIndex == \E x \in {gin, rebuild} \ {None} : x.valid

\* "The swap is ordered to leave a usable index at every point"
\* (containment.go:52), as far as the code keeps it: while a command runs alone
\* and none before it failed without another that ended well since, one of the
\* two indexes is there and valid, also when the commands before overlapped.
UsableUnlessFailed == ~failed /\ ~overlapped => UsableIndex

\* The old index goes only when a valid new one is complete, whatever earlier
\* run failed where or overlapped another; a command beside another can drop it
\* with nothing in its place.
DropOnlyWithReplacement ==
    [][gin # None /\ gin' = None /\ ~overlapped => rebuild # None /\ rebuild.valid]_vars

\* What the repository says without these conditions; the code keeps neither (see
\* the README): the index diverges from the table only if a command failed ...
OnlyFailureDiverges == Idle /\ ~failed => gin = [valid |-> TRUE, excl |-> exclusions]

\* ... and there is a usable index at every point (UsableIndex).
=============================================================================
