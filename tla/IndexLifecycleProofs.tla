------------------------ MODULE IndexLifecycleProofs ------------------------
(***************************************************************************)
(* Proofs about IndexLifecycle, for any documents, values, indexes and     *)
(* keys, with commits, reloads, restarts and commands interleaved freely.  *)
(***************************************************************************)
EXTENDS IndexLifecycle, TLAPS

(***************************************************************************)
(* Type correctness.                                                       *)
(***************************************************************************)

Commit == [open : BOOLEAN, val : Values \cup {NoDoc}, reg : BOOLEAN,
           del : SUBSET Entry, ins : SUBSET Entry, sure : SUBSET Indexes]
Query == [pc : {"idle", "scanned", "error"}, idx : Indexes \cup {{}},
          key : Keys \cup {{}}, names : SUBSET Docs, late : SUBSET Docs]
Command == [pc : AdminPCs, idx : Indexes \cup {{}}, del : SUBSET Entry,
            ins : SUBSET Entry, names : SUBSET Docs, late : SUBSET Docs]

\* A command about an index has one, and so has a query that has scanned.
TypeInv ==
    /\ TypeOK
    /\ admin.pc \in {"scanned", "cleared", "filled", "dropping"} => admin.idx \in Indexes
    /\ qry.pc = "scanned" => qry.idx \in Indexes /\ qry.key \in Keys

\* The entries of a document are entries of its own.
LEMMA EntriesType ==
    ASSUME NEW i \in Indexes, NEW d \in Docs, NEW v \in Values \cup {NoDoc}
    PROVE  /\ EntriesFor(i, d, v) \subseteq Entry
           /\ \A e \in EntriesFor(i, d, v) : e.idx = i /\ e.doc = d
<1>1. CASE v = NoDoc
  BY <1>1 DEF EntriesFor
<1>2. CASE v # NoDoc
  <2>1. KeysOf[i][v] \subseteq Keys
    BY <1>2, KeysAssumption
  <2>2. EntriesFor(i, d, v) = {[idx |-> i, key |-> k, doc |-> d] : k \in KeysOf[i][v]}
    BY <1>2 DEF EntriesFor
  <2> QED  BY <2>1, <2>2 DEF Entry
<1> QED  BY <1>1, <1>2

LEMMA ExpectedType ==
    ASSUME TypeOK, NEW i \in Indexes
    PROVE  Expected(i) \subseteq Entry
<1>1. \A d \in Docs : docs[d] \in Values \cup {NoDoc}
  BY DEF TypeOK
<1>2. \A d \in Docs : EntriesFor(i, d, docs[d]) \subseteq Entry
  BY <1>1, EntriesType
<1> QED  BY <1>2 DEF Expected

LEMMA EmptyTypes ==
    /\ EmptyRegistry \in Registry
    /\ NotLoading \in [on : BOOLEAN, reg : Registry]
    /\ NoCommit \in Commit /\ NoCommit.open = FALSE
    /\ NoQuery \in Query /\ NoQuery.pc = "idle"
    /\ NoCommand \in Command /\ NoCommand.pc = "idle"
BY DEF EmptyRegistry, Registry, NotLoading, NoCommit, Commit, NoQuery, Query, NoCommand,
       Command, AdminPCs

LEMMA ServedType == ASSUME TypeInv PROVE Served \subseteq Indexes
BY DEF TypeInv, TypeOK, Registry, Served

LEMMA RefreshType ==
    ASSUME TypeOK, NEW d \in Docs, NEW v \in Values \cup {NoDoc}
    PROVE  Refresh(d, v) \in Commit
<1>1. cache.defs \subseteq Indexes
  BY DEF TypeOK, Registry
<1>2. \A i \in cache.defs : EntriesFor(i, d, v) \subseteq Entry
  BY <1>1, EntriesType
<1>3. UNION {EntriesFor(i, d, v) : i \in cache.defs} \subseteq Entry
  BY <1>2
<1>4. (IF cache.defs = {} THEN {} ELSE OfDocs({d})) \subseteq Entry
  BY DEF OfDocs, TypeOK
<1>5. (v # NoDoc /\ ~listed) \in BOOLEAN
  OBVIOUS
<1> QED  BY <1>1, <1>3, <1>4, <1>5 DEF Refresh, Commit

LEMMA OutdatedType ==
    ASSUME NEW q \in Query, NEW S
    PROVE  Outdated(q, S) \in Query /\ Outdated(q, S).pc = q.pc
           /\ Outdated(q, S).idx = q.idx /\ Outdated(q, S).key = q.key
           /\ Outdated(q, S).names = q.names
           /\ Outdated(q, S).late = q.late \cup (q.names \cap S)
BY DEF Outdated, Query

LEMMA TypeInit == Init => TypeInv
<1> SUFFICES ASSUME Init PROVE TypeInv
  OBVIOUS
<1>1. wtx \in [Docs -> Commit] /\ cache \in Registry /\ loading \in [on : BOOLEAN, reg : Registry]
      /\ qry \in Query /\ admin \in Command /\ qry.pc = "idle" /\ admin.pc = "idle"
  BY EmptyTypes DEF Init
<1>2. docs \in [Docs -> Values \cup {NoDoc}]
  BY DEF Init
<1> QED  BY <1>1, <1>2 DEF Init, TypeInv, TypeOK, Commit, Query, Command

LEMMA TypeNext == TypeInv /\ [Next]_vars => TypeInv'
<1> SUFFICES ASSUME TypeInv, [Next]_vars PROVE TypeInv'
  OBVIOUS
<1> USE DEF dataVars, defVars, kordVars
<1>a. TypeOK
  BY DEF TypeInv
<1>b. qry \in Query /\ admin \in Command /\ wtx \in [Docs -> Commit]
  BY <1>a DEF TypeOK, Query, Command, Commit
<1>c. /\ admin.pc \in {"scanned", "cleared", "filled", "dropping"} => admin.idx \in Indexes
      /\ qry.pc = "scanned" => qry.idx \in Indexes /\ qry.key \in Keys
  BY DEF TypeInv
\* What is left to show when the other variables are unchanged or plain.
<1>d. ASSUME docs' \in [Docs -> Values \cup {NoDoc}],
             listed' \in BOOLEAN, up' \in BOOLEAN, crossed' \in BOOLEAN,
             entries' \subseteq Entry, defs' \subseteq Indexes, ready' \subseteq defs',
             cache' \in Registry, loading' \in [on : BOOLEAN, reg : Registry],
             wtx' \in [Docs -> Commit], qry' \in Query, admin' \in Command,
             exposed' \subseteq Indexes \X Docs,
             admin'.pc \in {"scanned", "cleared", "filled", "dropping"} => admin'.idx \in Indexes,
             qry'.pc = "scanned" => qry'.idx \in Indexes /\ qry'.key \in Keys
      PROVE  TypeInv'
  BY <1>d DEF TypeInv, TypeOK, Query, Command, Commit
<1>1. CASE UNCHANGED vars
  BY <1>1 DEF vars, TypeInv, TypeOK
<1>2. CASE Boot
  <2>1. cache' \in Registry
    BY <1>2, <1>a, EmptyTypes DEF Boot, TypeOK, Registry
  <2> QED  BY <1>a, <1>b, <1>c, <1>d, <1>2, <2>1 DEF Boot, TypeOK
<1>3. CASE Stop
  BY <1>a, <1>b, <1>c, <1>d, <1>3, EmptyTypes DEF Stop, TypeOK
<1>4. CASE ReadDefs
  <2>1. [defs |-> defs, ready |-> ready] \in Registry
    BY <1>a DEF TypeOK, Registry
  <2> QED  BY <1>a, <1>b, <1>c, <1>d, <1>4, <2>1 DEF ReadDefs, TypeOK
<1>5. CASE SwapDefs
  BY <1>a, <1>b, <1>c, <1>d, <1>5, EmptyTypes DEF SwapDefs, TypeOK
<1>6. CASE Fetch
  <2>1. qry' \in Query /\ qry'.pc # "scanned"
    BY <1>6, EmptyTypes DEF Fetch, Query
  <2> QED  BY <1>a, <1>b, <1>c, <1>d, <1>6, <2>1 DEF Fetch, TypeOK
<1>7. ASSUME NEW d \in Docs, NEW v \in Values \cup {NoDoc}, Write(d, v) PROVE TypeInv'
  <2>1. wtx' \in [Docs -> Commit]
    BY <1>a, <1>b, <1>7, RefreshType DEF Write
  <2> QED  BY <1>a, <1>b, <1>c, <1>d, <1>7, <2>1 DEF Write, TypeOK
<1>8. ASSUME NEW d \in Docs, CommitWrite(d) PROVE TypeInv'
  <2>1. wtx' \in [Docs -> Commit]
    BY <1>b, <1>8, EmptyTypes DEF CommitWrite
  <2>2. wtx[d] \in Commit
    BY <1>b
  <2>3. /\ wtx[d].val \in Values \cup {NoDoc} /\ wtx[d].reg \in BOOLEAN
        /\ wtx[d].ins \subseteq Entry /\ wtx[d].sure \subseteq Indexes
    BY <2>2 DEF Commit
  <2>4. docs' \in [Docs -> Values \cup {NoDoc}] /\ listed' \in BOOLEAN /\ crossed' \in BOOLEAN
    BY <1>a, <2>3, <1>8 DEF CommitWrite, TypeOK
  <2>5. entries' \subseteq Entry
    BY <1>a, <2>3, <1>8 DEF CommitWrite, TypeOK
  <2>6. exposed' \subseteq Indexes \X Docs
    BY <1>a, <1>8, ServedType DEF CommitWrite, TypeOK
  <2>7. qry' \in Query /\ qry'.pc = qry.pc /\ qry'.idx = qry.idx /\ qry'.key = qry.key
    BY <1>b, <1>8, OutdatedType DEF CommitWrite
  <2>8. admin' \in Command /\ admin'.pc = admin.pc /\ admin'.idx = admin.idx
    BY <1>b, <1>8 DEF CommitWrite, Command
  <2> QED  BY <1>a, <1>c, <1>d, <1>8, <2>1, <2>4, <2>5, <2>6, <2>7, <2>8 DEF CommitWrite, TypeOK
<1>9. ASSUME NEW d \in Docs, AbortWrite(d) PROVE TypeInv'
  <2>1. wtx' \in [Docs -> Commit]
    BY <1>b, <1>9, EmptyTypes DEF AbortWrite
  <2> QED  BY <1>a, <1>b, <1>c, <1>d, <1>9, <2>1 DEF AbortWrite, TypeOK
<1>10. ASSUME NEW i \in Indexes, Apply(i) PROVE TypeInv'
  BY <1>a, <1>b, <1>c, <1>d, <1>10 DEF Apply, TypeOK
<1>11. ASSUME NEW i \in Indexes, BackfillScan(i) PROVE TypeInv'
  <2>1. Expected(i) \subseteq Entry
    BY <1>a, ExpectedType
  <2>2. admin' \in Command /\ admin'.idx = i
    BY <1>11, <2>1 DEF BackfillScan, NoCommand, Command, AdminPCs
  <2> QED  BY <1>a, <1>b, <1>c, <1>d, <1>11, <2>2 DEF BackfillScan, TypeOK
<1>12. ASSUME NEW i \in Indexes, DropEntries(i) PROVE TypeInv'
  <2>1. admin' \in Command /\ admin'.idx = i
    BY <1>12 DEF DropEntries, NoCommand, Command, AdminPCs
  <2>2. exposed' \subseteq Indexes \X Docs /\ entries' \subseteq Entry
    BY <1>a, <1>12 DEF DropEntries, TypeOK, Present
  <2> QED  BY <1>a, <1>b, <1>c, <1>d, <1>12, <2>1, <2>2 DEF DropEntries, TypeOK
<1>13. ASSUME NEW i \in Indexes, NEW k \in Keys, Scan(i, k) PROVE TypeInv'
  <2>1. {e.doc : e \in {f \in OfIndex(i) : f.key = k}} \subseteq Docs
    BY <1>a DEF OfIndex, TypeOK, Entry
  <2>2. qry' \in Query /\ qry'.idx = i /\ qry'.key = k
    BY <1>13, <2>1 DEF Scan, Query
  <2> QED  BY <1>a, <1>b, <1>c, <1>d, <1>13, <2>2 DEF Scan, TypeOK
<1>14. CASE BackfillClear
  <2>1. OfIndex(admin.idx) \subseteq Entry
    BY <1>a DEF OfIndex, TypeOK
  <2>2. admin' \in Command /\ admin'.idx = admin.idx
    BY <1>b, <1>14, <2>1 DEF BackfillClear, Command, AdminPCs
  <2> QED  BY <1>a, <1>b, <1>c, <1>d, <1>14, <2>2 DEF BackfillClear, TypeOK
<1>15. CASE BackfillCommit
  <2>1. admin.idx \in Indexes /\ admin.late \subseteq Docs /\ admin.ins \subseteq Entry
    BY <1>b, <1>c, <1>15 DEF BackfillCommit, Command
  <2>2. admin' \in Command /\ admin'.idx = admin.idx
    BY <1>15, <2>1 DEF BackfillCommit, NoCommand, Command, AdminPCs
  <2>3. exposed' \subseteq Indexes \X Docs /\ entries' \subseteq Entry
    BY <1>a, <1>15, <2>1 DEF BackfillCommit, TypeOK
  <2>4. wtx' \in [Docs -> Commit]
    <3>1. \A d \in Docs : [wtx[d] EXCEPT !.sure = @ \ {admin.idx}] \in Commit
      BY <1>b DEF Commit
    <3> QED  BY <1>15, <3>1 DEF BackfillCommit
  <2> QED  BY <1>a, <1>b, <1>c, <1>d, <1>15, <2>1, <2>2, <2>3, <2>4 DEF BackfillCommit, TypeOK
<1>16. CASE MarkIndexReady
  BY <1>a, <1>b, <1>c, <1>d, <1>16, EmptyTypes DEF MarkIndexReady, TypeOK
<1>17. CASE DropDef
  BY <1>a, <1>b, <1>c, <1>d, <1>17, EmptyTypes DEF DropDef, TypeOK
<1>18. ASSUME NEW S \in SUBSET Docs, DropBatch(S) PROVE TypeInv'
  <2>1. admin' \in Command /\ admin'.pc = "named"
    BY <1>18 DEF DropBatch, NoCommand, Command, AdminPCs
  <2> QED  BY <1>a, <1>b, <1>c, <1>d, <1>18, <2>1 DEF DropBatch, TypeOK
<1>19. CASE DropBatchEntries
  <2>1. OfDocs(admin.names) \subseteq Entry
    BY <1>a DEF OfDocs, TypeOK
  <2>2. admin' \in Command /\ admin'.pc = "unlinked"
    BY <1>b, <1>19, <2>1 DEF DropBatchEntries, Command, AdminPCs
  <2> QED  BY <1>a, <1>b, <1>c, <1>d, <1>19, <2>2 DEF DropBatchEntries, TypeOK
<1>20. CASE DropBatchDocs
  <2>1. admin.late \subseteq Docs
    BY <1>b DEF Command
  <2>2. docs' \in [Docs -> Values \cup {NoDoc}] /\ entries' \subseteq Entry
    BY <1>a, <1>20 DEF DropBatchDocs, TypeOK
  <2>3. exposed' \subseteq Indexes \X Docs
    BY <1>a, <1>20, <2>1, ServedType DEF DropBatchDocs, TypeOK
  <2>4. qry' \in Query /\ qry'.pc = qry.pc /\ qry'.idx = qry.idx /\ qry'.key = qry.key
    BY <1>b, <1>20, OutdatedType DEF DropBatchDocs
  <2> QED  BY <1>a, <1>b, <1>c, <1>d, <1>20, <2>2, <2>3, <2>4, EmptyTypes DEF DropBatchDocs, TypeOK
<1>21. CASE DropRegistryRow
  BY <1>a, <1>b, <1>c, <1>d, <1>21 DEF DropRegistryRow, TypeOK
<1>22. CASE Interrupt
  BY <1>a, <1>b, <1>c, <1>d, <1>22, EmptyTypes DEF Interrupt, TypeOK
<1> QED  BY <1>1, <1>2, <1>3, <1>4, <1>5, <1>6, <1>7, <1>8, <1>9, <1>10, <1>11, <1>12,
            <1>13, <1>14, <1>15, <1>16, <1>17, <1>18, <1>19, <1>20, <1>21, <1>22 DEF Next

\* The same, with the index a command or a query is about.
THEOREM TypeInvariant == Spec => []TypeInv
BY TypeInit, TypeNext, PTL DEF Spec

\* Every step of kord, of the commits and of the operator keeps the types.
THEOREM TypeCorrect == Spec => []TypeOK
<1>1. TypeInv => TypeOK
  BY DEF TypeInv
<1> QED  BY <1>1, TypeInvariant, PTL


(***************************************************************************)
(* The collections registry.                                               *)
(***************************************************************************)

\* While the row is missing for any other reason than a drop across an open
\* commit, nothing is stored and every open upsert will add the row.
ListInv ==
    ~listed /\ ~crossed =>
        /\ Present = {}
        /\ \A d \in Docs : wtx[d].open /\ wtx[d].val # NoDoc => wtx[d].reg

LEMMA ListInit == Init => ListInv
BY DEF Init, ListInv, Present, NoCommit

LEMMA ListNext == TypeInv /\ ListInv /\ [Next]_vars => ListInv'
<1> SUFFICES ASSUME TypeInv, ListInv, [Next]_vars PROVE ListInv'
  OBVIOUS
<1>a. TypeOK
  BY DEF TypeInv
<1>1. CASE UNCHANGED <<docs, listed, wtx, crossed>>
  BY <1>1 DEF ListInv, Present
<1>2. CASE Stop
  <2>1. UNCHANGED <<docs, listed, crossed>> /\ \A d \in Docs : wtx'[d].open = FALSE
    BY <1>2, EmptyTypes DEF Stop, dataVars
  <2> QED  BY <2>1 DEF ListInv, Present
<1>3. ASSUME NEW d \in Docs, NEW v \in Values \cup {NoDoc}, Write(d, v) PROVE ListInv'
  <2>1. UNCHANGED <<docs, listed, crossed>>
    BY <1>3 DEF Write, dataVars
  <2>2. \A e \in Docs : wtx'[e] = IF e = d THEN Refresh(d, v) ELSE wtx[e]
    BY <1>a, <1>3 DEF Write, TypeOK
  <2>3. Refresh(d, v).val = v /\ Refresh(d, v).reg = (v # NoDoc /\ ~listed)
    BY DEF Refresh
  <2> QED  BY <2>1, <2>2, <2>3 DEF ListInv, Present
<1>4. ASSUME NEW d \in Docs, CommitWrite(d) PROVE ListInv'
  <2>1. \A e \in Docs : wtx'[e] = IF e = d THEN NoCommit ELSE wtx[e]
    BY <1>a, <1>4 DEF CommitWrite, TypeOK
  <2>2. \A e \in Docs : docs'[e] = IF e = d THEN wtx[d].val ELSE docs[e]
    BY <1>a, <1>4 DEF CommitWrite, TypeOK
  <2>3. listed' = (listed \/ wtx[d].reg) /\ crossed' = (crossed /\ ~wtx[d].reg) /\ wtx[d].open
    BY <1>4 DEF CommitWrite
  <2> QED  BY <2>1, <2>2, <2>3, EmptyTypes DEF ListInv, Present
<1>5. ASSUME NEW d \in Docs, AbortWrite(d) PROVE ListInv'
  <2>1. \A e \in Docs : wtx'[e] = IF e = d THEN NoCommit ELSE wtx[e]
    BY <1>a, <1>5 DEF AbortWrite, TypeOK
  <2>2. UNCHANGED <<docs, listed, crossed>>
    BY <1>5 DEF AbortWrite, dataVars
  <2> QED  BY <2>1, <2>2, EmptyTypes DEF ListInv, Present
<1>6. CASE BackfillCommit
  <2>1. UNCHANGED <<docs, listed, crossed>>
    BY <1>6 DEF BackfillCommit
  <2>2. \A d \in Docs : wtx'[d].open = wtx[d].open /\ wtx'[d].val = wtx[d].val
                        /\ wtx'[d].reg = wtx[d].reg
    BY <1>a, <1>6 DEF BackfillCommit, TypeOK
  <2> QED  BY <2>1, <2>2 DEF ListInv, Present
<1>7. CASE DropBatchDocs
  <2>1. UNCHANGED <<listed, crossed, wtx>>
    BY <1>7 DEF DropBatchDocs
  <2>2. \A d \in Docs : docs'[d] # NoDoc => docs[d] # NoDoc
    BY <1>7 DEF DropBatchDocs
  <2> QED  BY <2>1, <2>2 DEF ListInv, Present
<1>8. CASE DropRegistryRow
  <2>1. Present = {} /\ UNCHANGED <<docs, wtx>>
    BY <1>8 DEF DropRegistryRow
  <2>2. crossed' = (\E d \in Docs : wtx[d].open /\ wtx[d].val # NoDoc)
    BY <1>8 DEF DropRegistryRow
  <2> QED  BY <2>1, <2>2 DEF ListInv, Present
<1> QED  BY <1>1, <1>2, <1>3, <1>4, <1>5, <1>6, <1>7, <1>8
         DEF Next, vars, dataVars, Boot, ReadDefs, SwapDefs, Fetch, Apply, BackfillScan,
             DropEntries, Scan, BackfillClear, MarkIndexReady, DropDef,
             DropBatch, DropBatchEntries, Interrupt

\* A collection with documents loses its registry row only to a DropCollection
\* whose last statement ran beside an open commit.
THEOREM UnlistedOnlyIfCrossedHolds == Spec => []UnlistedOnlyIfCrossed
<1>1. ListInv => UnlistedOnlyIfCrossed
  BY DEF ListInv, UnlistedOnlyIfCrossed
<1> QED  BY <1>1, TypeInvariant, ListInit, ListNext, PTL DEF Spec


(***************************************************************************)
(* The indexes.                                                            *)
(***************************************************************************)

\* What is, or will be, served as backfilled is right where nothing exposed it.
ServedInv == \A i \in Served, d \in Docs : Right(i, d) \/ <<i, d>> \in exposed

\* An open commit touches its own document's entries, and for the indexes it is
\* sure of replaces all of them.
CommitInv ==
    \A d \in Docs : wtx[d].open =>
        /\ \A e \in wtx[d].del \cup wtx[d].ins : e.doc = d
        /\ \A i \in wtx[d].sure :
              /\ Slice(i, d) \subseteq wtx[d].del
              /\ {e \in wtx[d].ins : e.idx = i} = EntriesFor(i, d, wtx[d].val)

\* A backfill touches its own index, and for a document that was not committed
\* since its scan replaces all entries by the right ones.
BackfillInv ==
    admin.pc \in {"scanned", "cleared"} =>
        /\ \A e \in admin.ins : e.idx = admin.idx
        /\ \A d \in Docs \ admin.late :
              {e \in admin.ins : e.doc = d} = EntriesFor(admin.idx, d, docs[d])
        /\ admin.pc = "cleared" =>
              /\ \A e \in admin.del : e.idx = admin.idx
              /\ \A d \in Docs \ admin.late : Slice(admin.idx, d) \subseteq admin.del

\* A batch of DropCollection deletes all entries of its documents, but for those
\* committed since it looked.
BatchInv ==
    admin.pc = "unlinked" =>
        /\ \A e \in admin.del : e.doc \in admin.names
        /\ \A d \in admin.names \ admin.late, i \in Indexes : Slice(i, d) \subseteq admin.del

IndexInv == ServedInv /\ CommitInv /\ BackfillInv /\ BatchInv

\* The slices of what a scan of the collection expects.
LEMMA ExpectedSlice ==
    ASSUME TypeOK, NEW i \in Indexes
    PROVE  /\ \A e \in Expected(i) : e.idx = i
           /\ \A d \in Docs : {e \in Expected(i) : e.doc = d} = EntriesFor(i, d, docs[d])
<1>1. \A d \in Docs : docs[d] \in Values \cup {NoDoc}
  BY DEF TypeOK
<1>2. \A e \in Expected(i) : \E d \in Docs : e \in EntriesFor(i, d, docs[d])
  BY DEF Expected
<1>3. \A d \in Docs : \A e \in EntriesFor(i, d, docs[d]) : e.idx = i /\ e.doc = d /\ e \in Expected(i)
  BY <1>1, EntriesType DEF Expected
<1> QED  BY <1>2, <1>3

LEMMA IndexInit == Init => IndexInv
<1> SUFFICES ASSUME Init PROVE IndexInv
  OBVIOUS
<1>1. CommitInv
  BY EmptyTypes DEF Init, CommitInv
<1>2. BackfillInv /\ BatchInv
  BY EmptyTypes DEF Init, BackfillInv, BatchInv
<1>3. Served = {}
  BY EmptyTypes DEF Init, Served, EmptyRegistry, NotLoading
<1> QED  BY <1>1, <1>2, <1>3 DEF IndexInv, ServedInv

\* The steps that change neither documents nor entries.
LEMMA FrameServed ==
    ASSUME ServedInv, UNCHANGED <<docs, entries, exposed>>, Served' \subseteq Served
    PROVE  ServedInv'
BY DEF ServedInv, Right, Slice

LEMMA FrameCommit ==
    ASSUME CommitInv, UNCHANGED <<entries, wtx>>
    PROVE  CommitInv'
BY DEF CommitInv, Slice

LEMMA FrameCommand ==
    ASSUME BackfillInv, BatchInv, UNCHANGED <<docs, entries, admin>>
    PROVE  BackfillInv' /\ BatchInv'
BY DEF BackfillInv, BatchInv, Slice

LEMMA IdleCommand ==
    ASSUME admin'.pc \notin {"scanned", "cleared", "unlinked"}
    PROVE  BackfillInv' /\ BatchInv'
BY DEF BackfillInv, BatchInv

\* Only the end of a backfill puts an index into service.
LEMMA ServedNext ==
    ASSUME TypeInv, [Next]_vars
    PROVE  \/ Served' \subseteq Served
           \/ BackfillCommit /\ Served' \subseteq Served \cup {admin.idx}
<1> USE DEF dataVars, defVars, kordVars
<1>0. admin \in Command
  BY DEF TypeInv, TypeOK, Command
<1>a. ASSUME cache'.ready \subseteq ready \cup cache.ready \cup loading.reg.ready,
             loading'.reg.ready \subseteq ready \cup loading.reg.ready,
             ready' \subseteq ready, admin' = admin \/ admin'.pc # "filled"
      PROVE  Served' \subseteq Served
  BY <1>a DEF Served
<1>1. CASE UNCHANGED <<cache, loading, ready>> /\ (admin' = admin \/ admin'.pc # "filled")
  BY <1>a, <1>1
<1>2. CASE Boot
  BY <1>a, <1>2 DEF Boot, EmptyRegistry
<1>3. CASE Stop
  BY <1>a, <1>3 DEF Stop, EmptyRegistry, NotLoading
<1>4. CASE ReadDefs
  BY <1>a, <1>4 DEF ReadDefs
<1>5. CASE SwapDefs
  BY <1>a, <1>5 DEF SwapDefs, EmptyRegistry, NotLoading
<1>6. ASSUME NEW d \in Docs, CommitWrite(d) PROVE Served' \subseteq Served
  <2>1. admin'.pc = admin.pc /\ admin'.idx = admin.idx /\ UNCHANGED <<cache, loading, ready>>
    BY <1>0, <1>6 DEF CommitWrite, Command
  <2> QED  BY <2>1 DEF Served
<1>7. CASE BackfillCommit
  <2>1. UNCHANGED <<cache, loading, ready>> /\ admin'.idx = admin.idx
    BY <1>7 DEF BackfillCommit, NoCommand
  <2> QED  BY <1>7, <2>1 DEF Served
<1>8. CASE MarkIndexReady
  BY <1>8, EmptyTypes DEF MarkIndexReady, Served
<1>9. CASE DropDef
  BY <1>a, <1>9, EmptyTypes DEF DropDef
<1>10. ASSUME \/ \E i \in Indexes : BackfillScan(i) \/ DropEntries(i)
              \/ BackfillClear \/ DropBatchEntries \/ DropBatchDocs \/ Interrupt
              \/ \E S \in SUBSET Docs : DropBatch(S)
       PROVE  UNCHANGED <<cache, loading, ready>> /\ admin'.pc # "filled"
  BY <1>0, <1>10, EmptyTypes DEF BackfillScan, DropEntries, BackfillClear, DropBatchEntries,
     DropBatchDocs, Interrupt, DropBatch, NoCommand, Command
<1> QED  BY <1>1, <1>2, <1>3, <1>4, <1>5, <1>6, <1>7, <1>8, <1>9, <1>10
         DEF Next, vars, Fetch, Scan, Write, AbortWrite, Apply, DropRegistryRow

\* A write prepares to replace its document's entries in every index of the cache.
LEMMA WriteIndex ==
    ASSUME TypeInv, IndexInv, NEW d \in Docs, NEW v \in Values \cup {NoDoc}, Write(d, v)
    PROVE  CommitInv'
<1> DEFINE c == Refresh(d, v)
<1>1. /\ UNCHANGED entries /\ \A e \in Docs : wtx'[e] = IF e = d THEN c ELSE wtx[e]
  BY DEF Write, TypeInv, TypeOK, dataVars
<1>2. /\ c.val = v /\ c.sure = cache.defs
      /\ c.del = IF cache.defs = {} THEN {} ELSE OfDocs({d})
      /\ c.ins = UNION {EntriesFor(i, d, v) : i \in cache.defs}
  BY DEF Refresh
<1>3. cache.defs \subseteq Indexes
  BY DEF TypeInv, TypeOK, Registry
<1> HIDE DEF c
<1>4. \A e \in c.ins : e.doc = d /\ \E i \in cache.defs : e \in EntriesFor(i, d, v)
  BY <1>2, <1>3, EntriesType
<1>5. \A e \in c.del \cup c.ins : e.doc = d
  BY <1>2, <1>4 DEF OfDocs
<1>6. ASSUME NEW i \in cache.defs
      PROVE  Slice(i, d) \subseteq c.del /\ {e \in c.ins : e.idx = i} = EntriesFor(i, d, v)
  <2>1. Slice(i, d) \subseteq c.del
    BY <1>2 DEF Slice, OfDocs
  <2>2. \A e \in EntriesFor(i, d, v) : e.idx = i /\ e \in c.ins
    BY <1>2, <1>3, EntriesType
  <2>3. \A e \in c.ins : e.idx = i => e \in EntriesFor(i, d, v)
    BY <1>3, <1>4, EntriesType
  <2> QED  BY <2>1, <2>2, <2>3
<1>7. \A i, e : Slice(i, e)' = Slice(i, e)
  BY <1>1 DEF Slice
<1>8. ASSUME NEW e \in Docs, wtx'[e].open
      PROVE  /\ \A f \in wtx'[e].del \cup wtx'[e].ins : f.doc = e
             /\ \A i \in wtx'[e].sure :
                   /\ Slice(i, e) \subseteq wtx'[e].del
                   /\ {f \in wtx'[e].ins : f.idx = i} = EntriesFor(i, e, wtx'[e].val)
  <2>1. CASE e = d
    BY <1>1, <1>2, <1>5, <1>6, <2>1
  <2>2. CASE e # d
    <3>1. wtx'[e] = wtx[e]
      BY <1>1, <2>2
    <3> QED  BY <1>8, <3>1 DEF IndexInv, CommitInv
  <2> QED  BY <2>1, <2>2
<1> QED  BY <1>7, <1>8 DEF CommitInv

\* The commit makes the indexes it is sure of right and exposes the others.
LEMMA CommitIndex ==
    ASSUME TypeInv, IndexInv, NEW d \in Docs, CommitWrite(d), Served' \subseteq Served
    PROVE  IndexInv'
<1> DEFINE c == wtx[d]
<1>1. /\ c.open /\ entries' = (entries \ c.del) \cup c.ins
      /\ \A e \in Docs : wtx'[e] = IF e = d THEN NoCommit ELSE wtx[e]
      /\ \A e \in Docs : docs'[e] = IF e = d THEN c.val ELSE docs[e]
  BY DEF CommitWrite, TypeInv, TypeOK
<1>2. /\ \A e \in c.del \cup c.ins : e.doc = d
      /\ \A i \in c.sure : /\ Slice(i, d) \subseteq c.del
                           /\ {e \in c.ins : e.idx = i} = EntriesFor(i, d, c.val)
  BY <1>1 DEF IndexInv, CommitInv
<1>3. exposed' = (exposed \ (c.sure \X {d})) \cup ((Served \ c.sure) \X {d})
  BY DEF CommitWrite
<1>4. admin \in Command
  BY DEF TypeInv, TypeOK, Command
<1>5. /\ admin'.pc = admin.pc /\ admin'.idx = admin.idx /\ admin'.del = admin.del
      /\ admin'.ins = admin.ins /\ admin'.names = admin.names
      /\ admin.late \subseteq admin'.late
      /\ admin.pc \in {"scanned", "cleared"} => d \in admin'.late
      /\ admin.pc = "unlinked" /\ d \in admin.names => d \in admin'.late
  BY <1>4 DEF CommitWrite, Command
<1> HIDE DEF c
<1>6. \A i, e : e # d => Slice(i, e)' = Slice(i, e)
  BY <1>1, <1>2 DEF Slice
<1>7. \A i \in c.sure : Slice(i, d)' = EntriesFor(i, d, c.val)
  BY <1>1, <1>2 DEF Slice
<1>8. ServedInv'
  <2> SUFFICES ASSUME NEW i \in Served, NEW e \in Docs, <<i, e>> \notin exposed'
               PROVE  Right(i, e)'
    BY DEF ServedInv
  <2>1. CASE e = d
    <3>1. i \in c.sure
      BY <1>3, <2>1
    <3> QED  BY <1>1, <1>7, <2>1, <3>1 DEF Right
  <2>2. CASE e # d
    <3>1. <<i, e>> \notin exposed
      BY <1>3, <2>2
    <3>2. Right(i, e)
      BY <3>1 DEF IndexInv, ServedInv
    <3> QED  BY <1>1, <1>6, <2>2, <3>2 DEF Right
  <2> QED  BY <2>1, <2>2
<1>9. CommitInv'
  BY <1>1, <1>6, EmptyTypes DEF IndexInv, CommitInv
<1>10. BackfillInv'
  <2> SUFFICES ASSUME admin.pc \in {"scanned", "cleared"} PROVE BackfillInv'
    BY <1>5 DEF BackfillInv
  <2>1. \A e \in Docs \ admin'.late : e # d /\ e \in Docs \ admin.late
    BY <1>5
  <2> QED  BY <1>1, <1>5, <1>6, <2>1 DEF IndexInv, BackfillInv
<1>11. BatchInv'
  BY <1>1, <1>5, <1>6 DEF IndexInv, BatchInv
<1> QED  BY <1>8, <1>9, <1>10, <1>11 DEF IndexInv

\* The end of a backfill makes its index right about the documents not committed
\* since its scan, and unsettles the commits that are open.
LEMMA BackfillIndex ==
    ASSUME TypeInv, IndexInv, BackfillCommit, Served' \subseteq Served \cup {admin.idx}
    PROVE  IndexInv'
<1>0. PICK x : x = admin.idx
  OBVIOUS
<1>1. /\ admin.pc = "cleared" /\ UNCHANGED docs
      /\ entries' = (entries \ admin.del) \cup admin.ins
      /\ admin'.pc = "filled"
      /\ exposed' = (exposed \ ({x} \X Docs)) \cup ({x} \X admin.late)
  BY <1>0 DEF BackfillCommit, NoCommand
<1>2. \A d \in Docs : /\ wtx'[d].open = wtx[d].open /\ wtx'[d].val = wtx[d].val
                      /\ wtx'[d].del = wtx[d].del /\ wtx'[d].ins = wtx[d].ins
                      /\ wtx'[d].sure = wtx[d].sure \ {x}
  BY <1>0 DEF BackfillCommit, TypeInv, TypeOK
<1>3. /\ \A e \in admin.ins \cup admin.del : e.idx = x
      /\ \A d \in Docs \ admin.late :
            /\ {e \in admin.ins : e.doc = d} = EntriesFor(x, d, docs[d])
            /\ Slice(x, d) \subseteq admin.del
  BY <1>0, <1>1 DEF IndexInv, BackfillInv
<1>4. \A i, d : i # x => Slice(i, d)' = Slice(i, d)
  BY <1>1, <1>3 DEF Slice
<1>5. \A d \in Docs \ admin.late : Slice(x, d)' = EntriesFor(x, d, docs[d])
  BY <1>1, <1>3 DEF Slice
<1>6. ServedInv'
  <2> SUFFICES ASSUME NEW i \in Served \cup {x}, NEW d \in Docs, <<i, d>> \notin exposed'
               PROVE  Right(i, d)'
    BY <1>0 DEF ServedInv
  <2>1. CASE i = x
    <3>1. d \notin admin.late
      BY <1>1, <2>1
    <3> QED  BY <1>1, <1>5, <2>1, <3>1 DEF Right
  <2>2. CASE i # x
    <3>1. <<i, d>> \notin exposed
      BY <1>1, <2>2
    <3>2. Right(i, d)
      BY <2>2, <3>1 DEF IndexInv, ServedInv
    <3> QED  BY <1>1, <1>4, <2>2, <3>2 DEF Right
  <2> QED  BY <2>1, <2>2
<1>7. CommitInv'
  BY <1>2, <1>4 DEF IndexInv, CommitInv
<1> QED  BY <1>1, <1>6, <1>7, IdleCommand DEF IndexInv

LEMMA DropIndexIndex ==
    ASSUME TypeInv, IndexInv, NEW i \in Indexes, DropEntries(i), Served' \subseteq Served
    PROVE  IndexInv'
<1>1. /\ UNCHANGED <<docs, wtx>> /\ entries' = entries \ OfIndex(i)
      /\ admin'.pc = "dropping" /\ exposed' = exposed \cup ((Served \cap {i}) \X Present)
  BY DEF DropEntries, NoCommand
<1>2. \A j, d : Slice(j, d)' = IF j = i THEN {} ELSE Slice(j, d)
  BY <1>1 DEF Slice, OfIndex
<1>3. ServedInv'
  <2> SUFFICES ASSUME NEW j \in Served, NEW d \in Docs, <<j, d>> \notin exposed'
               PROVE  Right(j, d)'
    BY DEF ServedInv
  <2>1. CASE j = i
    <3>1. docs[d] = NoDoc
      BY <1>1, <2>1 DEF Present
    <3> QED  BY <1>1, <1>2, <2>1, <3>1 DEF Right, EntriesFor
  <2>2. CASE j # i
    <3>1. Right(j, d)
      BY <1>1, <2>2 DEF IndexInv, ServedInv
    <3> QED  BY <1>1, <1>2, <2>2, <3>1 DEF Right
  <2> QED  BY <2>1, <2>2
<1>4. CommitInv'
  BY <1>1, <1>2 DEF IndexInv, CommitInv
<1> QED  BY <1>1, <1>3, <1>4, IdleCommand DEF IndexInv

LEMMA DropBatchIndex ==
    ASSUME TypeInv, IndexInv, DropBatchDocs, Served' \subseteq Served
    PROVE  IndexInv'
<1>1. /\ admin.pc = "unlinked" /\ wtx' = wtx /\ entries' = entries \ admin.del
      /\ \A d \in Docs : docs'[d] = IF d \in admin.names THEN NoDoc ELSE docs[d]
      /\ admin'.pc = "idle"
      /\ exposed' = (exposed \ (Indexes \X (admin.names \ admin.late)))
                      \cup (Served \X admin.late)
  BY EmptyTypes DEF DropBatchDocs
<1>2. /\ \A e \in admin.del : e.doc \in admin.names
      /\ \A d \in admin.names \ admin.late, i \in Indexes : Slice(i, d) \subseteq admin.del
  BY <1>1 DEF IndexInv, BatchInv
<1>3. Served \subseteq Indexes
  BY ServedType
<1>4. ServedInv'
  <2> SUFFICES ASSUME NEW i \in Served, NEW d \in Docs, <<i, d>> \notin exposed'
               PROVE  Right(i, d)'
    BY DEF ServedInv
  <2>1. d \notin admin.late
    BY <1>1
  <2>2. CASE d \in admin.names
    <3>1. Slice(i, d)' = {}
      BY <1>1, <1>2, <1>3, <2>1, <2>2 DEF Slice
    <3> QED  BY <1>1, <2>2, <3>1 DEF Right, EntriesFor
  <2>3. CASE d \notin admin.names
    <3>1. Slice(i, d)' = Slice(i, d)
      BY <1>1, <1>2, <2>3 DEF Slice
    <3>2. <<i, d>> \notin exposed
      BY <1>1, <2>3
    <3>3. Right(i, d)
      BY <3>2 DEF IndexInv, ServedInv
    <3> QED  BY <1>1, <2>3, <3>1, <3>3 DEF Right
  <2> QED  BY <2>2, <2>3
<1>5. \A i, d : Slice(i, d)' \subseteq Slice(i, d)
  BY <1>1 DEF Slice
<1>6. CommitInv'
  BY <1>1, <1>5 DEF IndexInv, CommitInv
<1> QED  BY <1>1, <1>4, <1>6, IdleCommand DEF IndexInv

LEMMA IndexNext == TypeInv /\ IndexInv /\ [Next]_vars => IndexInv'
<1> SUFFICES ASSUME TypeInv, IndexInv, [Next]_vars PROVE IndexInv'
  OBVIOUS
<1> USE DEF dataVars, defVars, kordVars
<1>a. admin \in Command
  BY DEF TypeInv, TypeOK, Command
<1>b. ASSUME ~BackfillCommit PROVE Served' \subseteq Served
  BY <1>b, ServedNext
<1>c. ASSUME admin.pc # "cleared" \/ admin'.pc # "filled" PROVE Served' \subseteq Served
  BY <1>b, <1>c DEF BackfillCommit, NoCommand
\* The steps that change no entry: what they leave alone stays as it is.
<1>d. ASSUME UNCHANGED <<docs, entries, exposed>>, admin.pc # "cleared" \/ admin'.pc # "filled"
      PROVE  ServedInv'
  BY <1>c, <1>d, FrameServed DEF IndexInv
<1>1. CASE UNCHANGED <<docs, entries, exposed, wtx, admin>>
  <2>1. ServedInv'
    BY <1>d, <1>1
  <2> QED  BY <1>1, <2>1, FrameCommit, FrameCommand DEF IndexInv
<1>2. CASE Stop
  <2>1. UNCHANGED <<docs, entries, exposed, admin>> /\ \A d \in Docs : wtx'[d].open = FALSE
    BY <1>2, EmptyTypes DEF Stop
  <2>2. ServedInv' /\ CommitInv'
    BY <1>d, <2>1 DEF CommitInv
  <2> QED  BY <2>1, <2>2, FrameCommand DEF IndexInv
<1>3. ASSUME NEW d \in Docs, NEW v \in Values \cup {NoDoc}, Write(d, v) PROVE IndexInv'
  <2>1. UNCHANGED <<docs, entries, exposed, admin>>
    BY <1>3 DEF Write
  <2>2. ServedInv' /\ CommitInv'
    BY <1>d, <1>3, <2>1, WriteIndex
  <2> QED  BY <2>1, <2>2, FrameCommand DEF IndexInv
<1>4. ASSUME NEW d \in Docs, CommitWrite(d) PROVE IndexInv'
  <2>1. admin'.pc = admin.pc
    BY <1>a, <1>4 DEF CommitWrite, Command
  <2> QED  BY <1>c, <1>4, <2>1, CommitIndex
<1>5. ASSUME NEW d \in Docs, AbortWrite(d) PROVE IndexInv'
  <2>1. /\ UNCHANGED <<docs, entries, exposed, admin>>
        /\ \A e \in Docs : wtx'[e] = IF e = d THEN NoCommit ELSE wtx[e]
    BY <1>5 DEF AbortWrite, TypeInv, TypeOK
  <2>2. ServedInv'
    BY <1>d, <2>1
  <2>3. CommitInv'
    BY <2>1, EmptyTypes DEF IndexInv, CommitInv, Slice
  <2> QED  BY <2>1, <2>2, <2>3, FrameCommand DEF IndexInv
<1>6. ASSUME NEW i \in Indexes, BackfillScan(i) PROVE IndexInv'
  <2>1. /\ UNCHANGED <<docs, entries, exposed, wtx>> /\ admin'.pc = "scanned"
        /\ admin'.idx = i /\ admin'.ins = Expected(i)
    BY <1>6 DEF BackfillScan, NoCommand
  <2>2. /\ \A e \in Expected(i) : e.idx = i
        /\ \A d \in Docs : {e \in Expected(i) : e.doc = d} = EntriesFor(i, d, docs[d])
    BY ExpectedSlice DEF TypeInv
  <2>3. BackfillInv' /\ BatchInv'
    BY <2>1, <2>2 DEF BackfillInv, BatchInv
  <2>4. ServedInv'
    BY <1>d, <2>1
  <2> QED  BY <2>1, <2>3, <2>4, FrameCommit DEF IndexInv
<1>7. CASE BackfillClear
  <2>1. /\ UNCHANGED <<docs, entries, exposed, wtx>> /\ admin'.pc = "cleared"
        /\ admin.pc = "scanned" /\ admin'.idx = admin.idx /\ admin'.ins = admin.ins
        /\ admin'.late = admin.late /\ admin'.del = OfIndex(admin.idx)
    BY <1>a, <1>7 DEF BackfillClear, Command
  <2>2. BackfillInv' /\ BatchInv'
    BY <2>1 DEF IndexInv, BackfillInv, BatchInv, OfIndex, Slice
  <2>3. ServedInv'
    BY <1>d, <2>1
  <2> QED  BY <2>1, <2>2, <2>3, FrameCommit DEF IndexInv
<1>8. CASE BackfillCommit
  <2>1. Served' \subseteq Served \cup {admin.idx}
    BY ServedNext
  <2> QED  BY <1>8, <2>1, BackfillIndex
<1>9. ASSUME NEW i \in Indexes, DropEntries(i) PROVE IndexInv'
  <2>1. admin.pc = "idle"
    BY <1>9 DEF DropEntries
  <2> QED  BY <1>c, <1>9, <2>1, DropIndexIndex
<1>10. CASE DropBatchEntries
  <2>1. /\ UNCHANGED <<docs, entries, exposed, wtx>> /\ admin'.pc = "unlinked"
        /\ admin'.names = admin.names /\ admin'.del = OfDocs(admin.names)
    BY <1>a, <1>10 DEF DropBatchEntries, Command
  <2>2. BackfillInv' /\ BatchInv'
    BY <2>1 DEF BackfillInv, BatchInv, OfDocs, Slice
  <2>3. ServedInv'
    BY <1>d, <2>1
  <2> QED  BY <2>1, <2>2, <2>3, FrameCommit DEF IndexInv
<1>11. CASE DropBatchDocs
  <2>1. admin.pc = "unlinked"
    BY <1>11 DEF DropBatchDocs
  <2> QED  BY <1>c, <1>11, <2>1, DropBatchIndex
<1>12. ASSUME MarkIndexReady \/ DropDef \/ Interrupt \/ \E S \in SUBSET Docs : DropBatch(S)
       PROVE  IndexInv'
  <2>1. UNCHANGED <<docs, entries, exposed, wtx>> /\ admin'.pc \in {"idle", "named"}
    BY <1>12, EmptyTypes DEF MarkIndexReady, DropDef, Interrupt, DropBatch, NoCommand
  <2>2. ServedInv'
    BY <1>d, <2>1
  <2> QED  BY <2>1, <2>2, FrameCommit, IdleCommand DEF IndexInv
<1> QED  BY <1>1, <1>2, <1>3, <1>4, <1>5, <1>6, <1>7, <1>8, <1>9, <1>10, <1>11, <1>12
         DEF Next, vars, Boot, ReadDefs, SwapDefs, Fetch, Scan, Apply, DropRegistryRow

\* The inductive invariant of the index lifecycle.
THEOREM IndexInvariant == Spec => [](TypeInv /\ IndexInv)
BY TypeInvariant, IndexInit, IndexNext, PTL DEF Spec

\* An index that is ready or served from is wrong about a document only if a
\* commit beside a backfill or by a kord without the index, a DropIndex or a
\* batch of DropCollection left it behind (index.go:93, 155, 300, 400).
THEOREM WrongOnlyIfExposedHolds == Spec => []WrongOnlyIfExposed
<1>1. ready \cup Usable \subseteq Served
  BY DEF Usable, Served
<1>2. IndexInv => WrongOnlyIfExposed
  BY <1>1 DEF IndexInv, ServedInv, WrongOnlyIfExposed
<1> QED  BY <1>2, IndexInvariant, PTL


(***************************************************************************)
(* Queries.                                                                *)
(***************************************************************************)

\* Between its two statements a query holds names that match, but for those that
\* changed or were exposed.
QueryInv ==
    qry.pc = "scanned" =>
        \A d \in qry.names \ qry.late : d \in Docs /\ Matches(qry.idx, qry.key, d)

LEMMA QueryInit == Init => QueryInv
BY EmptyTypes DEF Init, QueryInv

\* An entry of an index that is right about its document matches it.
LEMMA RightMatches ==
    ASSUME NEW i, NEW e \in entries, e.idx = i, Right(i, e.doc)
    PROVE  Matches(i, e.key, e.doc)
<1>1. e \in EntriesFor(i, e.doc, docs[e.doc])
  BY DEF Right, Slice
<1> QED  BY <1>1 DEF EntriesFor, Matches

LEMMA QueryNext == TypeInv /\ IndexInv /\ QueryInv /\ [Next]_vars => QueryInv'
<1> SUFFICES ASSUME TypeInv, IndexInv, QueryInv, [Next]_vars PROVE QueryInv'
  OBVIOUS
<1> USE DEF dataVars, defVars, kordVars
<1>a. qry \in Query
  BY DEF TypeInv, TypeOK, Query
<1>1. CASE UNCHANGED <<qry, docs>>
  BY <1>1 DEF QueryInv, Matches
<1>2. CASE Stop
  BY <1>2, EmptyTypes DEF Stop, QueryInv
<1>3. CASE Fetch
  <2>1. qry'.pc # "scanned"
    BY <1>3 DEF Fetch, NoQuery
  <2> QED  BY <2>1 DEF QueryInv
<1>4. ASSUME NEW i \in Indexes, NEW k \in Keys, Scan(i, k) PROVE QueryInv'
  <2> DEFINE names == {e.doc : e \in {f \in OfIndex(i) : f.key = k}}
  <2>1. /\ i \in Usable /\ UNCHANGED docs /\ qry'.idx = i /\ qry'.key = k
        /\ qry'.names = names /\ qry'.late = {d \in names : <<i, d>> \in exposed}
    BY <1>4 DEF Scan
  <2>2. ASSUME NEW d \in names, <<i, d>> \notin exposed PROVE d \in Docs /\ Matches(i, k, d)
    <3>1. PICK e \in entries : e.idx = i /\ e.key = k /\ e.doc = d
      BY DEF OfIndex
    <3>2. d \in Docs
      BY <3>1 DEF TypeInv, TypeOK, Entry
    <3>3. i \in Served
      BY <2>1 DEF Usable, Served
    <3>4. Right(i, d)
      BY <2>2, <3>2, <3>3 DEF IndexInv, ServedInv
    <3> QED  BY <3>1, <3>2, <3>4, RightMatches
  <2> HIDE DEF names
  <2> QED  BY <2>1, <2>2 DEF QueryInv, Matches
\* The steps that change documents note them.
<1>5. ASSUME NEW S, qry' = Outdated(qry, S), \A d \in Docs \ S : docs'[d] = docs[d]
      PROVE  QueryInv'
  BY <1>a, <1>5, OutdatedType DEF QueryInv, Matches
<1>6. ASSUME NEW d \in Docs, CommitWrite(d) PROVE QueryInv'
  <2>1. qry' = Outdated(qry, {d}) /\ \A e \in Docs \ {d} : docs'[e] = docs[e]
    BY <1>6 DEF CommitWrite, TypeInv, TypeOK
  <2> QED  BY <1>5, <2>1
<1>7. CASE DropBatchDocs
  <2>1. qry' = Outdated(qry, admin.names) /\ \A e \in Docs \ admin.names : docs'[e] = docs[e]
    BY <1>7 DEF DropBatchDocs
  <2> QED  BY <1>5, <2>1
<1> QED  BY <1>1, <1>2, <1>3, <1>4, <1>6, <1>7
         DEF Next, vars, Boot, ReadDefs, SwapDefs, Write, AbortWrite, Apply, BackfillScan,
             BackfillClear, BackfillCommit, MarkIndexReady, DropEntries, DropDef, DropBatch,
             DropBatchEntries, DropRegistryRow, Interrupt

\* runIndexed fails on a name only if its document changed between the scan and
\* the fetch, or the index was exposed about it (query.go:395).
THEOREM FailsOnlyIfRacedHolds == Spec => FailsOnlyIfRaced
<1> DEFINE Raced == qry'.pc = "error" /\ qry.pc = "scanned" => qry.late # {}
<1>1. TypeInv /\ QueryInv /\ [Next]_vars => [Raced]_vars
  <2> SUFFICES ASSUME TypeInv, QueryInv, [Next]_vars, qry.pc = "scanned", qry'.pc = "error"
               PROVE  qry.late # {}
    OBVIOUS
  <2> USE DEF dataVars, defVars, kordVars
  <2>a. qry \in Query
    BY DEF TypeInv, TypeOK, Query
  <2>1. CASE Fetch
    <3>1. ~ \A d \in qry.names : Matches(qry.idx, qry.key, d)
      BY <2>1, EmptyTypes DEF Fetch
    <3> QED  BY <3>1 DEF QueryInv
  <2>2. CASE \E S : qry' = Outdated(qry, S)
    BY <2>a, <2>2, OutdatedType
  <2>3. CASE Stop
    BY <2>3, EmptyTypes DEF Stop
  <2> QED  BY <2>1, <2>2, <2>3
         DEF Next, vars, Boot, ReadDefs, SwapDefs, Scan, Write, CommitWrite, AbortWrite, Apply,
             BackfillScan, BackfillClear, BackfillCommit, MarkIndexReady, DropEntries, DropDef,
             DropBatch, DropBatchEntries, DropBatchDocs, DropRegistryRow, Interrupt
<1>2. Spec => [](TypeInv /\ IndexInv /\ QueryInv)
  BY IndexInvariant, QueryInit, QueryNext, PTL DEF Spec
<1> QED  BY <1>1, <1>2, PTL DEF Spec, FailsOnlyIfRaced
=============================================================================
