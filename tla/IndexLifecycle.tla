--------------------------- MODULE IndexLifecycle ---------------------------
(***************************************************************************)
(* The composite indexes of one collection, from `kor index apply' to      *)
(* `kor index drop' (internal/store/index.go, cmd/kor/index.go), together  *)
(* with what runs beside them: commits that maintain the entries they know *)
(* of, the ticker that reloads kord's registry, index-backed queries, and  *)
(* `kor drop' (DropCollection).                                            *)
(*                                                                         *)
(* A document is its indexed value; an index maps a value to the keys of   *)
(* the entries it produces (none for a missing field, several for an       *)
(* array-contains field).  A transaction's statements see the committed    *)
(* state they start from, and its rows appear at its commit.  One operator *)
(* runs one command at a time, beside a kord that serves.                  *)
(*                                                                         *)
(* Nothing keeps commits away from a backfill, a drop or a kord whose      *)
(* registry is out of date, and some of these leave an index wrong about a *)
(* document.  The history variables record which ones: `exposed' holds the *)
(* pairs of an index in service and a document that such a step left       *)
(* behind, until a commit or a backfill makes them good again.             *)
(***************************************************************************)
EXTENDS Integers, FiniteSets

CONSTANTS
    Docs, Values, NoDoc,
    Indexes, Keys,
    KeysOf,             \* index.Def.Keys: index and value to the entry keys
    BatchSize           \* documents per transaction of DropCollection

ASSUME ValueAssumption == NoDoc \notin Values
ASSUME KeysAssumption == KeysOf \in [Indexes -> [Values -> SUBSET Keys]]
ASSUME BatchAssumption == BatchSize \in Nat \ {0}

VARIABLES
    docs,      \* the documents table
    listed,    \* the collection has its row in the collections registry
    entries,   \* index_entries
    defs,      \* index_defs
    ready,     \* the definitions whose ready_at is set
    up,        \* kord serves
    cache,     \* kord's indexRegistry: byColl and ready
    loading,   \* the reload ticker: what LoadIndexes has read, to be swapped in
    wtx,       \* the open commit on each document (advisory locks allow one)
    qry,       \* an index-backed query
    admin,     \* the command the operator is running
    exposed,   \* history: index and document that a step could not keep right
    crossed    \* history: a commit was open when the registry row was removed

kordVars  == <<up, cache, loading, qry>>
defVars   == <<defs, ready>>
dataVars  == <<docs, listed, entries, exposed, crossed>>
vars == <<docs, listed, entries, defs, ready, up, cache, loading, wtx, qry, admin,
          exposed, crossed>>

Entry == [idx : Indexes, key : Keys, doc : Docs]
Registry == [defs : SUBSET Indexes, ready : SUBSET Indexes]
EmptyRegistry == [defs |-> {}, ready |-> {}]
NotLoading == [on |-> FALSE, reg |-> EmptyRegistry]

\* An open commit: the document's new value, whether it adds the collections row,
\* what it deletes from and inserts into index_entries, and (history) `sure',
\* the indexes it will leave right about the document.
NoCommit == [open |-> FALSE, val |-> NoDoc, reg |-> FALSE, del |-> {}, ins |-> {},
             sure |-> {}]
\* A query, and (history) `late', those of its names that changed since the scan or
\* about which the index was exposed already then.
NoQuery == [pc |-> "idle", idx |-> {}, key |-> {}, names |-> {}, late |-> {}]
\* A command, and (history) `late', the documents it read that were committed since.
AdminPCs == {"idle", "scanned", "cleared", "filled", "dropping", "named", "unlinked"}
NoCommand == [pc |-> "idle", idx |-> {}, del |-> {}, ins |-> {}, names |-> {},
              late |-> {}]

\* The entries an index should hold for a document with this value.
EntriesFor(i, d, v) ==
    IF v = NoDoc THEN {}
    ELSE {[idx |-> i, key |-> k, doc |-> d] : k \in KeysOf[i][v]}

\* All that index i should hold.
Expected(i) == UNION {EntriesFor(i, d, docs[d]) : d \in Docs}

OfIndex(i) == {e \in entries : e.idx = i}
Slice(i, d) == {e \in entries : e.idx = i /\ e.doc = d}
OfDocs(S) == {e \in entries : e.doc \in S}
Present == {d \in Docs : docs[d] # NoDoc}

\* Mutant: an index serves as soon as it is registered.
UsableOnceRegistered == cache.defs

\* The indexes kord's planner may serve a query from (index.Eligible).
Usable == cache.defs \cap cache.ready

\* The indexes that are, or by a reload will be, served from as backfilled.
Served ==
    ready \cup cache.ready \cup loading.reg.ready
          \cup (IF admin.pc = "filled" THEN {admin.idx} ELSE {})

-----------------------------------------------------------------------------

Init ==
    /\ docs = [d \in Docs |-> NoDoc]
    /\ listed = FALSE
    /\ entries = {} /\ defs = {} /\ ready = {}
    /\ up = FALSE /\ cache = EmptyRegistry /\ loading = NotLoading
    /\ wtx = [d \in Docs |-> NoCommit]
    /\ qry = NoQuery
    /\ admin = NoCommand
    /\ exposed = {} /\ crossed = FALSE

(***************************************************************************)
(* kord: start, stop, reload (cmd/kord/main.go, LoadIndexes).              *)
(***************************************************************************)

\* store.Open and the first LoadIndexes.  A failure is logged, and kord goes
\* on with an empty registry.
Boot ==
    /\ ~up
    /\ up' = TRUE
    /\ cache' \in {[defs |-> defs, ready |-> ready], EmptyRegistry}
    /\ UNCHANGED <<dataVars, defVars, loading, wtx, qry, admin>>

Stop ==
    /\ up
    /\ up' = FALSE
    /\ cache' = EmptyRegistry /\ loading' = NotLoading /\ qry' = NoQuery
    /\ wtx' = [d \in Docs |-> NoCommit]
    /\ UNCHANGED <<dataVars, defVars, admin>>

\* LoadIndexes on the ticker: the query, and then the swap under the mutex.
ReadDefs ==
    /\ up /\ ~loading.on
    /\ loading' = [on |-> TRUE, reg |-> [defs |-> defs, ready |-> ready]]
    /\ UNCHANGED <<dataVars, defVars, up, cache, wtx, qry, admin>>

SwapDefs ==
    /\ loading.on
    /\ cache' = loading.reg
    /\ loading' = NotLoading
    /\ UNCHANGED <<dataVars, defVars, up, wtx, qry, admin>>

(***************************************************************************)
(* Commits (applyCommit's persistence and refreshIndexEntries).            *)
(***************************************************************************)

\* Mutant: entries are added, never cleared.
RefreshKeepingOld(d, v) ==
    [open |-> TRUE, val |-> v, reg |-> v # NoDoc /\ ~listed, del |-> {},
     ins |-> UNION {EntriesFor(i, d, v) : i \in cache.defs}, sure |-> cache.defs]

\* refreshIndexEntries, from the registry cached in this process: nothing when
\* it holds no definition, else delete all of the document and insert anew.
\* `reg': the upsert's INSERT INTO collections found no row, so it adds one; a
\* row that is there is left alone, and not locked.
Refresh(d, v) ==
    [open |-> TRUE, val |-> v, reg |-> v # NoDoc /\ ~listed,
     del |-> IF cache.defs = {} THEN {} ELSE OfDocs({d}),
     ins |-> UNION {EntriesFor(i, d, v) : i \in cache.defs}, sure |-> cache.defs]

\* Upsert (v a value) or delete (v = NoDoc) one document, uncommitted.
Write(d, v) ==
    /\ up /\ ~wtx[d].open
    /\ wtx' = [wtx EXCEPT ![d] = Refresh(d, v)]
    /\ UNCHANGED <<dataVars, defVars, kordVars, admin>>

\* The documents S change while a query is between its two statements.
Outdated(q, S) == [q EXCEPT !.late = @ \cup (q.names \cap S)]

CommitWrite(d) ==
    /\ wtx[d].open
    /\ docs' = [docs EXCEPT ![d] = wtx[d].val]
    /\ entries' = (entries \ wtx[d].del) \cup wtx[d].ins
    /\ listed' = (listed \/ wtx[d].reg)
    /\ wtx' = [wtx EXCEPT ![d] = NoCommit]
    /\ exposed' = (exposed \ (wtx[d].sure \X {d})) \cup ((Served \ wtx[d].sure) \X {d})
    /\ crossed' = (crossed /\ ~wtx[d].reg)
    /\ qry' = Outdated(qry, {d})
    /\ admin' = [admin EXCEPT !.late =
         IF \/ admin.pc \in {"scanned", "cleared"}
            \/ admin.pc = "unlinked" /\ d \in admin.names
         THEN @ \cup {d} ELSE @]
    /\ UNCHANGED <<defVars, up, cache, loading>>

AbortWrite(d) ==
    /\ wtx[d].open
    /\ wtx' = [wtx EXCEPT ![d] = NoCommit]
    /\ UNCHANGED <<dataVars, defVars, kordVars, admin>>

(***************************************************************************)
(* Index-backed queries (runIndexed): the scan and the fetch are two       *)
(* statements, each with its own snapshot.                                 *)
(***************************************************************************)

\* Whether the committed document matches the query that the entries with key k
\* of index i answer (Query.Matches).
Matches(i, k, d) == docs[d] # NoDoc /\ k \in KeysOf[i][docs[d]]

Scan(i, k) ==
    /\ up /\ qry.pc # "scanned" /\ i \in Usable
    /\ LET names == {e.doc : e \in {f \in OfIndex(i) : f.key = k}} IN
       qry' = [pc |-> "scanned", idx |-> i, key |-> k, names |-> names,
               late |-> {d \in names : <<i, d>> \in exposed}]
    /\ UNCHANGED <<dataVars, defVars, up, cache, loading, wtx, admin>>

\* Every name must still have its document, and it must match the query.
Fetch ==
    /\ qry.pc = "scanned"
    /\ qry' = IF \A d \in qry.names : Matches(qry.idx, qry.key, d)
              THEN NoQuery ELSE [NoQuery EXCEPT !.pc = "error"]
    /\ UNCHANGED <<dataVars, defVars, up, cache, loading, wtx, admin>>

(***************************************************************************)
(* The operator's commands.                                                *)
(***************************************************************************)

\* SetIndexes: INSERT INTO index_defs ... ON CONFLICT DO NOTHING.
Apply(i) ==
    /\ admin.pc = "idle" /\ i \notin defs
    /\ defs' = defs \cup {i}
    /\ UNCHANGED <<dataVars, ready, kordVars, wtx, admin>>

\* BackfillIndex: read the collection ...
BackfillScan(i) ==
    /\ admin.pc = "idle" /\ i \in defs
    /\ admin' = [NoCommand EXCEPT !.pc = "scanned", !.idx = i, !.ins = Expected(i)]
    /\ UNCHANGED <<dataVars, defVars, kordVars, wtx>>

\* ... clear the index, in a transaction ...
BackfillClear ==
    /\ admin.pc = "scanned"
    /\ admin' = [admin EXCEPT !.pc = "cleared", !.del = OfIndex(admin.idx)]
    /\ UNCHANGED <<dataVars, defVars, kordVars, wtx>>

\* ... insert what the scan found, commit ...
BackfillCommit ==
    /\ admin.pc = "cleared"
    /\ entries' = (entries \ admin.del) \cup admin.ins
    /\ admin' = [NoCommand EXCEPT !.pc = "filled", !.idx = admin.idx]
    /\ exposed' = (exposed \ ({admin.idx} \X Docs)) \cup ({admin.idx} \X admin.late)
    /\ wtx' = [d \in Docs |-> [wtx[d] EXCEPT !.sure = @ \ {admin.idx}]]
    /\ UNCHANGED <<docs, listed, crossed, defVars, kordVars>>

\* ... and MarkIndexReady.
MarkIndexReady ==
    /\ admin.pc = "filled"
    /\ ready' = ready \cup ({admin.idx} \cap defs)
    /\ admin' = NoCommand
    /\ UNCHANGED <<dataVars, defs, kordVars, wtx>>

\* DropIndex: two statements, each its own transaction.
DropEntries(i) ==
    /\ admin.pc = "idle" /\ i \in defs
    /\ entries' = entries \ OfIndex(i)
    /\ admin' = [NoCommand EXCEPT !.pc = "dropping", !.idx = i]
    /\ exposed' = exposed \cup ((Served \cap {i}) \X Present)
    /\ UNCHANGED <<docs, listed, crossed, defVars, kordVars, wtx>>

\* Mutant: the definition goes, its ready mark stays.
DropDefKeepingReady ==
    /\ admin.pc = "dropping"
    /\ defs' = defs \ {admin.idx}
    /\ admin' = NoCommand
    /\ UNCHANGED <<dataVars, ready, kordVars, wtx>>

DropDef ==
    /\ admin.pc = "dropping"
    /\ defs' = defs \ {admin.idx} /\ ready' = ready \ {admin.idx}
    /\ admin' = NoCommand
    /\ UNCHANGED <<dataVars, kordVars, wtx>>

\* DropCollection: the names of the next batch ...
DropBatch(S) ==
    /\ admin.pc = "idle"
    /\ S # {} /\ S \subseteq Present
    /\ Cardinality(S) = BatchSize \/ (Cardinality(S) < BatchSize /\ S = Present)
    /\ admin' = [NoCommand EXCEPT !.pc = "named", !.names = S]
    /\ UNCHANGED <<dataVars, defVars, kordVars, wtx>>

\* ... a transaction that deletes their entries ...
DropBatchEntries ==
    /\ admin.pc = "named"
    /\ admin' = [admin EXCEPT !.pc = "unlinked", !.del = OfDocs(admin.names)]
    /\ UNCHANGED <<dataVars, defVars, kordVars, wtx>>

\* ... and the documents, waiting for the row locks of open commits; no
\* advisory lock is taken and no change is logged.
DropBatchDocs ==
    /\ admin.pc = "unlinked"
    /\ \A d \in admin.names \cap Present : ~wtx[d].open
    /\ docs' = [d \in Docs |-> IF d \in admin.names THEN NoDoc ELSE docs[d]]
    /\ entries' = entries \ admin.del
    /\ admin' = NoCommand
    /\ exposed' = (exposed \ (Indexes \X (admin.names \ admin.late)))
                    \cup (Served \X admin.late)
    /\ qry' = Outdated(qry, admin.names)
    /\ UNCHANGED <<listed, crossed, defVars, up, cache, loading, wtx>>

\* Mutant: the registry row is removed while documents remain.
DropRegistryAlways ==
    /\ admin.pc = "idle" /\ listed
    /\ listed' = FALSE
    /\ crossed' = (\E d \in Docs : wtx[d].open /\ wtx[d].val # NoDoc)
    /\ UNCHANGED <<docs, entries, exposed, defVars, kordVars, wtx, admin>>

\* The last statement: the registry row goes if no document is visible.
DropRegistryRow ==
    /\ admin.pc = "idle" /\ listed
    /\ Present = {}
    /\ listed' = FALSE
    /\ crossed' = (\E d \in Docs : wtx[d].open /\ wtx[d].val # NoDoc)
    /\ UNCHANGED <<docs, entries, exposed, defVars, kordVars, wtx, admin>>

\* The command is interrupted; an open transaction is rolled back.
Interrupt ==
    /\ admin.pc # "idle"
    /\ admin' = NoCommand
    /\ UNCHANGED <<dataVars, defVars, kordVars, wtx>>

Next ==
    \/ Boot \/ Stop \/ ReadDefs \/ SwapDefs \/ Fetch
    \/ \E d \in Docs : \/ \E v \in Values \cup {NoDoc} : Write(d, v)
                       \/ CommitWrite(d) \/ AbortWrite(d)
    \/ \E i \in Indexes : \/ Apply(i) \/ BackfillScan(i) \/ DropEntries(i)
                          \/ \E k \in Keys : Scan(i, k)
    \/ BackfillClear \/ BackfillCommit \/ MarkIndexReady \/ DropDef
    \/ \E S \in SUBSET Docs : DropBatch(S)
    \/ DropBatchEntries \/ DropBatchDocs \/ DropRegistryRow \/ Interrupt

Spec == Init /\ [][Next]_vars

-----------------------------------------------------------------------------
(***************************************************************************)
(* Properties.                                                             *)
(***************************************************************************)

TypeOK ==
    /\ docs \in [Docs -> Values \cup {NoDoc}]
    /\ listed \in BOOLEAN /\ up \in BOOLEAN /\ crossed \in BOOLEAN
    /\ entries \subseteq Entry
    /\ defs \subseteq Indexes /\ ready \subseteq defs
    /\ cache \in Registry /\ loading \in [on : BOOLEAN, reg : Registry]
    /\ wtx \in [Docs -> [open : BOOLEAN, val : Values \cup {NoDoc}, reg : BOOLEAN,
                         del : SUBSET Entry, ins : SUBSET Entry, sure : SUBSET Indexes]]
    /\ qry \in [pc : {"idle", "scanned", "error"}, idx : Indexes \cup {{}},
               key : Keys \cup {{}}, names : SUBSET Docs, late : SUBSET Docs]
    /\ admin \in [pc : AdminPCs, idx : Indexes \cup {{}}, del : SUBSET Entry,
                 ins : SUBSET Entry, names : SUBSET Docs, late : SUBSET Docs]
    /\ exposed \subseteq Indexes \X Docs

\* The entries of index i for document d are those of the committed document.
Right(i, d) == Slice(i, d) = EntriesFor(i, d, docs[d])

\* An index that is marked ready or that kord serves from is wrong about a
\* document, misses it or finds it by a value it no longer has, only if since the
\* last backfill that saw the document, or the last commit that maintained the
\* index, one of these happened to it: a commit beside a backfill of the index,
\* between its scan and its end or open across its end; a commit by a kord whose
\* registry lacked the index; DropIndex, until its definition is gone from the
\* cache; or a commit between the two statements of a batch of DropCollection.
\* Registration alone never serves (index.go:58), an interrupted backfill does
\* not either (index.go:154), and a commit leaves no stale entry (index.go:94).
WrongOnlyIfExposed ==
    \A i \in ready \cup Usable, d \in Docs : Right(i, d) \/ <<i, d>> \in exposed

\* "An entry without its document ... which the shared transaction is supposed
\* to make impossible" (query.go:395), as far as the code keeps it: an
\* index-backed query fails only on a document that changed between its scan and
\* its fetch, or about which the index was exposed when it was scanned.
FailsOnlyIfRaced == [][qry'.pc = "error" /\ qry.pc = "scanned" => qry.late # {}]_vars

\* "A parent keeps its entry for as long as any document remains under it"
\* (DropCollection), as far as the code keeps it: a collection with documents is
\* not listed only if the registry row was removed while a commit that had found
\* it there was still open.
UnlistedOnlyIfCrossed == Present # {} /\ ~listed => crossed

\* What the repository says without these conditions; the code keeps none of the
\* four (see the README).
\* "The CLI can register and backfill them against a running server"
\* (cmd/kord/main.go:82): a ready index is complete and current.
ReadyIndexExact == \A i \in ready, d \in Docs : Right(i, d)

\* "An index_defs row without entries is merely unusable" (index.go:297): what
\* kord serves from is complete and current.
UsableIndexExact == \A i \in Usable, d \in Docs : Right(i, d)

\* "Supposed to make impossible" (query.go:397): no index-backed query fails.
QueriesSucceed == qry.pc # "error"

\* "Only now is the registry row safe to remove" (index.go:429).
DocumentsListed == Present # {} => listed
=============================================================================
