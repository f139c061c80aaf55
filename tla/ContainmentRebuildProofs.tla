---------------------- MODULE ContainmentRebuildProofs ----------------------
(***************************************************************************)
(* Proofs about ContainmentRebuild: any set of collections and any         *)
(* operators, whose commands overlap, fail or are interrupted anywhere,    *)
(* any number of times.                                                    *)
(***************************************************************************)
EXTENDS ContainmentRebuild, TLAPS

TypeInv ==
    /\ exclusions \in SUBSET Collections
    /\ gin \in Index \cup {None} /\ rebuild \in Index \cup {None}
    /\ pc \in [Operators -> PCs]
    /\ want \in [Operators -> SUBSET Collections]
    /\ seen \in [Operators -> SUBSET Collections]
    /\ overlapped \in BOOLEAN /\ failed \in BOOLEAN

\* One build at a time, and its index is there until it ends.
BuildInv ==
    \A o \in Operators : pc[o] = "build" =>
        rebuild # None /\ \A p \in Operators : pc[p] = "build" => p = o

\* A command that runs alone: from its commit on, the list it was given is in the
\* table; the new index has that list, and is complete once the command gets to
\* the old one.
AloneInv ==
    ~overlapped =>
        /\ \A o, p \in Operators : pc[o] # "idle" /\ pc[p] # "idle" => o = p
        /\ \A o \in Operators :
              /\ pc[o] = "insert" => seen[o] = exclusions
              /\ pc[o] \notin {"idle", "insert"} => want[o] = exclusions
              /\ pc[o] = "build" => rebuild # None /\ rebuild.excl = want[o]
              /\ pc[o] \in {"drop", "rename"} => rebuild = [valid |-> TRUE, excl |-> want[o]]
        /\ IndexMatchesTable

\* Without a failure, overlapping commands too leave no index half built, and an
\* index is missing only between two statements of some command.
WholeInv ==
    ~failed =>
        /\ gin # None => gin.valid
        /\ gin = None => \E o \in Operators : pc[o] = "rename"
        /\ rebuild # None /\ TableFree => rebuild.valid

LEMMA TypeInit == Init => TypeInv /\ BuildInv
<1> SUFFICES ASSUME Init PROVE TypeInv /\ BuildInv
  OBVIOUS
<1>1. gin \in Index
  BY DEF Init, Index
<1>2. pc \in [Operators -> PCs] /\ \A o \in Operators : pc[o] = "idle"
  BY DEF Init, PCs
<1>3. /\ want \in [Operators -> SUBSET Collections]
      /\ seen \in [Operators -> SUBSET Collections]
  BY DEF Init
<1> QED  BY <1>1, <1>2, <1>3 DEF Init, TypeInv, BuildInv

\* A command moves on to statement q.
LEMMA GotoPC ==
    ASSUME TypeInv, NEW o \in Operators, NEW q, Goto(o, q)
    PROVE  \A p \in Operators : pc'[p] = IF p = o THEN q ELSE pc[p]
BY DEF Goto, TypeInv

LEMMA CreatedIndex ==
    ASSUME NEW X \in SUBSET Collections, NEW b \in BOOLEAN
    PROVE  /\ [valid |-> b, excl |-> X] \in Index /\ [valid |-> b, excl |-> X] # None
           /\ [valid |-> b, excl |-> X].valid = b /\ [valid |-> b, excl |-> X].excl = X
<1>1. [valid |-> b, excl |-> X] \in Index
  BY DEF Index
<1> QED  BY <1>1, NoneAssumption

LEMMA TypeNext == TypeInv /\ BuildInv /\ [Next]_vars => TypeInv' /\ BuildInv'
<1> SUFFICES ASSUME TypeInv, BuildInv, [Next]_vars PROVE TypeInv' /\ BuildInv'
  OBVIOUS
<1>1. CASE UNCHANGED vars
  BY <1>1 DEF vars, TypeInv, BuildInv
<1>2. ASSUME NEW o \in Operators, NEW X \in SUBSET Collections, DeleteExclusions(o, X)
      PROVE  TypeInv' /\ BuildInv'
  <2>1. TypeInv'
    BY <1>2 DEF DeleteExclusions, Goto, TypeInv, PCs
  <2>2. BuildInv'
    BY <1>2, GotoPC DEF DeleteExclusions, BuildInv
  <2> QED  BY <2>1, <2>2
<1>3. ASSUME NEW o \in Operators, InsertExclusions(o) PROVE TypeInv' /\ BuildInv'
  <2>1. TypeInv'
    BY <1>3 DEF InsertExclusions, Goto, TypeInv, PCs
  <2>2. BuildInv'
    BY <1>3, GotoPC DEF InsertExclusions, BuildInv
  <2> QED  BY <2>1, <2>2
<1>4. ASSUME NEW o \in Operators, ClearStale(o) PROVE TypeInv' /\ BuildInv'
  <2>1. TypeInv'
    BY <1>4 DEF ClearStale, Goto, TypeInv, PCs
  <2>2. BuildInv'
    BY <1>4, GotoPC DEF ClearStale, BuildInv, TableFree
  <2> QED  BY <2>1, <2>2
<1>5. ASSUME NEW o \in Operators, CreateRebuild(o) PROVE TypeInv' /\ BuildInv'
  <2>1. want[o] \in SUBSET Collections
    BY DEF TypeInv
  <2>2. rebuild' \in Index /\ rebuild' # None
    BY <1>5, <2>1, CreatedIndex DEF CreateRebuild
  <2>3. TypeInv'
    BY <1>5, <2>2 DEF CreateRebuild, Goto, TypeInv, PCs
  <2>4. BuildInv'
    BY <1>5, <2>2, GotoPC DEF CreateRebuild, BuildInv, TableFree
  <2> QED  BY <2>3, <2>4
<1>6. ASSUME NEW o \in Operators, Built(o) PROVE TypeInv' /\ BuildInv'
  <2>1. rebuild \in Index
    BY <1>6 DEF Built, BuildInv, TypeInv
  <2>2. rebuild' \in Index
    BY <1>6, <2>1 DEF Built, Index
  <2>3. TypeInv'
    BY <1>6, <2>2 DEF Built, Goto, TypeInv, PCs
  <2>4. \A p \in Operators : pc'[p] # "build"
    BY <1>6, GotoPC DEF Built, BuildInv
  <2> QED  BY <2>3, <2>4 DEF BuildInv
<1>7. ASSUME NEW o \in Operators, DropOld(o) PROVE TypeInv' /\ BuildInv'
  <2>1. TypeInv'
    BY <1>7 DEF DropOld, Goto, TypeInv, PCs
  <2>2. BuildInv'
    BY <1>7, GotoPC DEF DropOld, BuildInv
  <2> QED  BY <2>1, <2>2
<1>8. ASSUME NEW o \in Operators, Rename(o) PROVE TypeInv' /\ BuildInv'
  <2>1. TypeInv'
    BY <1>8 DEF Rename, Goto, TypeInv, PCs
  <2>2. BuildInv'
    BY <1>8, GotoPC DEF Rename, BuildInv, TableFree
  <2> QED  BY <2>1, <2>2
<1>9. ASSUME NEW o \in Operators, Fail(o) PROVE TypeInv' /\ BuildInv'
  <2>1. TypeInv'
    BY <1>9 DEF Fail, Goto, TypeInv, PCs
  <2>2. BuildInv'
    BY <1>9, GotoPC DEF Fail, BuildInv
  <2> QED  BY <2>1, <2>2
<1> QED  BY <1>1, <1>2, <1>3, <1>4, <1>5, <1>6, <1>7, <1>8, <1>9 DEF Next

LEMMA AloneInit == Init => AloneInv /\ WholeInv
<1> SUFFICES ASSUME Init PROVE AloneInv /\ WholeInv
  OBVIOUS
<1>1. gin # None /\ gin.valid
  BY CreatedIndex DEF Init
<1> QED  BY <1>1 DEF Init, AloneInv, WholeInv, IndexMatchesTable

LEMMA AloneNext == TypeInv /\ AloneInv /\ [Next]_vars => AloneInv'
<1> SUFFICES ASSUME TypeInv, AloneInv, [Next]_vars, ~overlapped' PROVE AloneInv'
  BY DEF AloneInv
<1>1. CASE UNCHANGED vars
  BY <1>1 DEF vars, AloneInv, IndexMatchesTable, Idle
\* A statement of a command that runs alone; nobody else is in one.
<1>2. ASSUME NEW o \in Operators, NEW q, Goto(o, q), pc[o] # "idle", UNCHANGED overlapped,
             q = "idle" => failed' \/ gin' = [valid |-> TRUE, excl |-> exclusions'],
             q = "insert" => seen'[o] = exclusions',
             q \notin {"idle", "insert"} => want'[o] = exclusions',
             q = "build" => rebuild' # None /\ rebuild'.excl = want'[o],
             q \in {"drop", "rename"} => rebuild' = [valid |-> TRUE, excl |-> want'[o]]
      PROVE  AloneInv'
  <2>1. \A p \in Operators : p # o => pc'[p] = "idle"
    BY <1>2, GotoPC DEF AloneInv
  <2>2. pc'[o] = q
    BY <1>2, GotoPC
  <2> QED  BY <1>2, <2>1, <2>2 DEF AloneInv, IndexMatchesTable, Idle
<1>3. ASSUME NEW o \in Operators, NEW X \in SUBSET Collections, DeleteExclusions(o, X)
      PROVE  AloneInv'
  <2>1. \A p \in Operators : pc[p] = "idle"
    BY <1>3 DEF DeleteExclusions
  <2>2. \A p \in Operators : pc'[p] = IF p = o THEN "insert" ELSE "idle"
    BY <1>3, <2>1, GotoPC DEF DeleteExclusions
  <2>3. seen'[o] = exclusions'
    BY <1>3 DEF DeleteExclusions, TypeInv
  <2> QED  BY <2>2, <2>3 DEF AloneInv, IndexMatchesTable, Idle
<1>4. ASSUME NEW o \in Operators, InsertExclusions(o) PROVE AloneInv'
  <2>1. seen[o] = exclusions
    BY <1>4 DEF InsertExclusions, AloneInv
  <2>2. exclusions' = want'[o]
    BY <1>4, <2>1 DEF InsertExclusions
  <2> QED  BY <1>2, <1>4, <2>2 DEF InsertExclusions
<1>5. ASSUME NEW o \in Operators, ClearStale(o) PROVE AloneInv'
  BY <1>2, <1>5 DEF ClearStale, AloneInv
<1>6. ASSUME NEW o \in Operators, CreateRebuild(o) PROVE AloneInv'
  <2>1. want[o] \in SUBSET Collections
    BY DEF TypeInv
  <2>2. rebuild' # None /\ rebuild'.excl = want'[o]
    BY <1>6, <2>1, CreatedIndex DEF CreateRebuild
  <2>3. want'[o] = exclusions'
    BY <1>6 DEF CreateRebuild, AloneInv
  <2> QED  BY <1>2, <1>6, <2>2, <2>3 DEF CreateRebuild
<1>7. ASSUME NEW o \in Operators, Built(o) PROVE AloneInv'
  <2>1. rebuild \in Index /\ rebuild.excl = want[o] /\ want'[o] = exclusions'
    BY <1>7 DEF Built, AloneInv, TypeInv
  <2>2. rebuild' = [valid |-> TRUE, excl |-> want'[o]]
    BY <1>7, <2>1 DEF Built, Index
  <2> QED  BY <1>2, <1>7, <2>1, <2>2 DEF Built
<1>8. ASSUME NEW o \in Operators, DropOld(o) PROVE AloneInv'
  BY <1>2, <1>8 DEF DropOld, AloneInv
<1>9. ASSUME NEW o \in Operators, Rename(o) PROVE AloneInv'
  BY <1>2, <1>9 DEF Rename, AloneInv
<1>10. ASSUME NEW o \in Operators, Fail(o) PROVE AloneInv'
  BY <1>2, <1>10 DEF Fail
<1> QED  BY <1>1, <1>3, <1>4, <1>5, <1>6, <1>7, <1>8, <1>9, <1>10 DEF Next

LEMMA WholeNext ==
    TypeInv /\ BuildInv /\ AloneInv /\ WholeInv /\ [Next]_vars => WholeInv'
<1> SUFFICES ASSUME TypeInv, BuildInv, AloneInv, WholeInv, [Next]_vars, ~failed'
             PROVE  WholeInv'
  BY DEF WholeInv
<1>1. CASE UNCHANGED vars
  BY <1>1 DEF vars, WholeInv, TableFree
\* A statement that leaves both indexes alone, and is neither rename nor build.
<1>2. ASSUME NEW o \in Operators, NEW q, Goto(o, q), pc[o] \notin {"build", "rename"},
             UNCHANGED <<gin, rebuild, failed>>, q # "build"
      PROVE  WholeInv'
  <2>1. \A p \in Operators : pc'[p] = IF p = o THEN q ELSE pc[p]
    BY <1>2, GotoPC
  <2> QED  BY <1>2, <2>1 DEF WholeInv, TableFree
<1>3. ASSUME NEW o \in Operators, NEW X \in SUBSET Collections, DeleteExclusions(o, X)
      PROVE  WholeInv'
  BY <1>2, <1>3 DEF DeleteExclusions
<1>4. ASSUME NEW o \in Operators, InsertExclusions(o) PROVE WholeInv'
  BY <1>2, <1>4 DEF InsertExclusions
<1>5. ASSUME NEW o \in Operators, ClearStale(o) PROVE WholeInv'
  <2>1. \A p \in Operators : pc'[p] = IF p = o THEN "create" ELSE pc[p]
    BY <1>5, GotoPC DEF ClearStale
  <2> QED  BY <1>5, <2>1 DEF ClearStale, WholeInv
<1>6. ASSUME NEW o \in Operators, CreateRebuild(o) PROVE WholeInv'
  <2>1. \A p \in Operators : pc'[p] = IF p = o THEN "build" ELSE pc[p]
    BY <1>6, GotoPC DEF CreateRebuild
  <2> QED  BY <1>6, <2>1 DEF CreateRebuild, WholeInv, TableFree
<1>7. ASSUME NEW o \in Operators, Built(o) PROVE WholeInv'
  <2>1. \A p \in Operators : pc'[p] = IF p = o THEN "drop" ELSE pc[p]
    BY <1>7, GotoPC DEF Built
  <2>2. rebuild \in Index
    BY <1>7 DEF Built, BuildInv, TypeInv
  <2>3. rebuild'.valid
    BY <1>7, <2>2 DEF Built, Index
  <2> QED  BY <1>7, <2>1, <2>3 DEF Built, WholeInv
<1>8. ASSUME NEW o \in Operators, DropOld(o) PROVE WholeInv'
  <2>1. \A p \in Operators : pc'[p] = IF p = o THEN "rename" ELSE pc[p]
    BY <1>8, GotoPC DEF DropOld
  <2> QED  BY <1>8, <2>1 DEF DropOld, WholeInv, TableFree
<1>9. ASSUME NEW o \in Operators, Rename(o) PROVE WholeInv'
  <2>1. rebuild # None /\ gin' = rebuild /\ rebuild' = None /\ TableFree
    BY <1>9 DEF Rename
  <2>2. rebuild.valid
    <3>1. CASE failed
      <4>1. ~overlapped
        BY <1>9, <3>1 DEF Rename
      <4>2. rebuild = [valid |-> TRUE, excl |-> want[o]]
        BY <1>9, <4>1 DEF Rename, AloneInv
      <4> QED  BY <4>2
    <3>2. CASE ~failed
      BY <2>1, <3>2 DEF WholeInv
    <3> QED  BY <3>1, <3>2
  <2> QED  BY <2>1, <2>2 DEF WholeInv
<1>10. ASSUME NEW o \in Operators, Fail(o) PROVE WholeInv'
  BY <1>10 DEF Fail
<1> QED  BY <1>1, <1>3, <1>4, <1>5, <1>6, <1>7, <1>8, <1>9, <1>10 DEF Next

\* The four together are inductive.
THEOREM RebuildInvariant == Spec => [](TypeInv /\ BuildInv /\ AloneInv /\ WholeInv)
BY TypeInit, TypeNext, AloneInit, AloneNext, WholeNext, PTL DEF Spec

\* The index and the exclusion table agree once a command that ran alone has
\* ended well, whatever failed or overlapping ones left behind
\* (containment.go:111).
THEOREM IndexMatchesTableHolds == Spec => []IndexMatchesTable
<1>1. AloneInv => IndexMatchesTable
  BY DEF AloneInv, IndexMatchesTable
<1> QED  BY <1>1, RebuildInvariant, PTL

\* While no failure is left unrepaired and no command runs beside another, one of
\* the two indexes is usable at every statement (containment.go:52).
THEOREM UsableUnlessFailedHolds == Spec => []UsableUnlessFailed
<1>1. TypeInv /\ AloneInv /\ WholeInv => UsableUnlessFailed
  <2> SUFFICES ASSUME TypeInv, AloneInv, WholeInv, ~failed, ~overlapped PROVE UsableIndex
    BY DEF UsableUnlessFailed
  <2>1. CASE gin # None
    BY <2>1 DEF WholeInv, UsableIndex
  <2>2. CASE gin = None
    <3>1. PICK o \in Operators : pc[o] = "rename"
      BY <2>2 DEF WholeInv
    <3>2. rebuild = [valid |-> TRUE, excl |-> want[o]]
      BY <3>1 DEF AloneInv
    <3>3. want[o] \in SUBSET Collections
      BY DEF TypeInv
    <3>4. rebuild # None /\ rebuild.valid
      BY <3>2, <3>3, CreatedIndex
    <3> QED  BY <3>4 DEF UsableIndex
  <2> QED  BY <2>1, <2>2
<1> QED  BY <1>1, RebuildInvariant, PTL

\* A command that runs alone drops the old index only when its replacement is
\* complete and valid (rebuildContainmentIndex, the order of its statements).
THEOREM DropOnlyWithReplacementHolds == Spec => DropOnlyWithReplacement
<1>1. ASSUME TypeInv, AloneInv, [Next]_vars, gin # None, gin' = None, ~overlapped
      PROVE  rebuild # None /\ rebuild.valid
  <2>1. PICK o \in Operators : DropOld(o) \/ Rename(o)
    BY <1>1 DEF Next, vars, DeleteExclusions, InsertExclusions, ClearStale, CreateRebuild,
                Built, Fail
  <2>2. DropOld(o)
    BY <1>1, <2>1 DEF Rename
  <2>3. rebuild = [valid |-> TRUE, excl |-> want[o]]
    BY <1>1, <2>2 DEF DropOld, AloneInv
  <2>4. want[o] \in SUBSET Collections
    BY <1>1 DEF TypeInv
  <2> QED  BY <2>3, <2>4, CreatedIndex
<1>2. TypeInv /\ AloneInv /\ [Next]_vars =>
         [gin # None /\ gin' = None /\ ~overlapped => rebuild # None /\ rebuild.valid]_vars
  BY <1>1
<1> QED  BY <1>2, RebuildInvariant, PTL DEF Spec, DropOnlyWithReplacement
=============================================================================
