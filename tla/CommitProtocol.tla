--------------------------- MODULE CommitProtocol ---------------------------
(***************************************************************************)
(* The write path of Kor: Store.applyCommit (internal/store/store.go) and  *)
(* the optimistic transactions built on it (internal/store/txn.go), driven *)
(* by the RPC handlers of internal/rpc/server.go.                          *)
(*                                                                         *)
(* A commit is a Postgres transaction at READ COMMITTED.  Every statement  *)
(* it sends is one action, so that other commits, transactional reads,     *)
(* failures and a restart of kord interleave between any two statements.   *)
(* The contents of a document are abstracted to the identity of the commit *)
(* that wrote it: `ver' is the writer's transaction id (0: no document).   *)
(* Kor itself never looks at it; it compares update times only, and what   *)
(* that comparison can miss is what the properties are about.              *)
(***************************************************************************)
EXTENDS Integers, Sequences, FiniteSets

CONSTANTS
    Docs,           \* document resource names
    Rank,           \* their byte order: sort.Strings sorts by it
    HashText,       \* Postgres' hashtext(name), the advisory lock key
    Collections,    \* keys of the collections table: (parent_path, collection_id)
    CollectionOf,   \* the collection a document name parses to
    Sess,           \* concurrent executions of applyCommit
    Txns,           \* transaction ids drawn by BeginTransaction
    NoTxn,          \* a commit outside a transaction
    Requests,       \* the write lists clients may send
    DistinctTimes,  \* TRUE: no two commits read the same microsecond
    ReReads,        \* TRUE: a transaction may read a document twice
    TxnTTL,         \* life of a registry entry, in clock ticks
    MaxStarts,      \* bound: commits attempted
    MaxClock,       \* bound: clock ticks
    MaxInflight     \* bound: transactional reads in flight

PreKinds == {"none", "exists", "absent", "at"}

\* One element of CommitRequest.writes: op "update" stands for update and
\* transform writes alike, which treat existence and times the same way.
Write == [doc : Docs, op : {"update", "delete"}, pre : PreKinds, at : Nat]

ASSUME RankAssumption ==
    /\ Rank \in [Docs -> Nat]
    /\ \A d, e \in Docs : Rank[d] = Rank[e] => d = e
ASSUME HashAssumption == HashText \in [Docs -> Nat]
ASSUME CollectionAssumption == CollectionOf \in [Docs -> Collections]
ASSUME TxnAssumption == NoTxn \notin Txns
ASSUME RequestAssumption == Requests \subseteq Seq(Write)
ASSUME EnvironmentAssumption == DistinctTimes \in BOOLEAN /\ ReReads \in BOOLEAN
ASSUME BoundsAssumption ==
    TxnTTL \in Nat /\ MaxStarts \in Nat /\ MaxClock \in Nat /\ MaxInflight \in Nat

VARIABLES
    clock,      \* time.Now() in microseconds
    store,      \* the documents table, as committed
    live,       \* txnRegistry.m: ids with an entry
    begun,      \* ids handed out so far (rand.Read never repeats one)
    reads,      \* txnEntry.reads: update time recorded per document
    created,    \* txnEntry.created
    inflight,   \* reads fetched and not yet recorded
    ses,        \* the commits under way
    nextXid,    \* Postgres' transaction id counter
    started,    \* commits attempted
    collections,\* the collections table, as committed
    loop,       \* the persist loop of a commit: documents done, rows inserted
    seen,       \* history: versions handed to a transaction's client
    lastEvent,  \* history: transaction id of a document's last change event
    hist        \* history: the commits that took effect

regVars  == <<live, begun, reads, created>>
histVars == <<seen, lastEvent, hist>>
collVars == <<collections, loop>>
vars == <<clock, store, live, begun, reads, created, inflight, ses, nextXid,
          started, collections, loop, seen, lastEvent, hist>>

NotRead == -1

\* A row of the documents table; no row is [ex |-> FALSE, ...], whose zero
\* update time is also what a transactional read records for it.
Version == [ex : BOOLEAN, ct : Nat, ut : Nat, ver : Nat]
Missing == [ex |-> FALSE, ct |-> 0, ut |-> 0, ver |-> 0]

\* writes.DocState: the document as the writes of one commit see it.
DocState == [ex : BOOLEAN, ct : Nat, ut : Nat, dirty : BOOLEAN]
Untouched == [ex |-> FALSE, ct |-> 0, ut |-> 0, dirty |-> FALSE]

PCs == {"idle", "lock", "apply", "commit"}
NoLoop == [done |-> {}, rows |-> {}]

IdleSession ==
    [pc |-> "idle", txn |-> NoTxn, req |-> <<>>, i |-> 1, lockSet |-> {},
     todo |-> {}, held |-> {}, ctime |-> 0, xid |-> 0,
     existing |-> [d \in Docs |-> Missing], st |-> [d \in Docs |-> Untouched]]

Session ==
    [pc : PCs, txn : Txns \cup {NoTxn}, req : Seq(Write), i : Nat \ {0},
     lockSet : SUBSET Docs, todo : SUBSET Docs, held : SUBSET Nat, ctime : Nat,
     xid : Nat, existing : [Docs -> Version], st : [Docs -> DocState]]

Commits ==
    [xid : Nat, time : Nat, txn : Txns \cup {NoTxn}, req : Seq(Write),
     del : SUBSET Docs, create : SUBSET Docs]

(***************************************************************************)
(* Helpers of applyCommit.                                                 *)
(***************************************************************************)

Targets(ws) == {ws[k].doc : k \in 1..Len(ws)}

\* The documents a transaction has recorded a read of.
ReadSet(t) == IF t = NoTxn THEN {} ELSE {d \in Docs : reads[t][d] # NotRead}

\* Mutant: the locks are taken in the order of the request.
IsNextUnsorted(s, d) ==
    LET pos(e) == CHOOSE k \in 1..Len(ses[s].req) : ses[s].req[k].doc = e
    IN  \A e \in ses[s].todo : pos(d) <= pos(e)

\* d is the next name of the sorted lockSet.
IsNext(s, d) == \A e \in ses[s].todo : Rank[d] <= Rank[e]

\* Mutant: row locks only, which do not cover a missing document.
LockFreeRowsOnly(s, key) ==
    \A r \in Sess \ {s} : key \notin ses[r].held
                         \/ \A d \in Docs : HashText[d] = key => ~store[d].ex

\* Mutant: no advisory locks at all.
LockFreeAlways(s, key) == TRUE

\* pg_advisory_xact_lock(key) returns: nobody else holds the key.
LockFree(s, key) == \A r \in Sess \ {s} : key \notin ses[r].held

\* Mutant: documents that are gone by now are not verified.
UnchangedPresent(t) ==
    \A d \in ReadSet(t) : store[d].ex => store[d].ut = reads[t][d]

\* Every recorded read version equals the current one (store.go, verify).
Unchanged(t) == \A d \in ReadSet(t) : store[d].ut = reads[t][d]

\* checkPrecondition
PreconditionHolds(st, w) ==
    CASE w.pre = "none"   -> TRUE
      [] w.pre = "exists" -> st.ex
      [] w.pre = "absent" -> ~st.ex
      [] w.pre = "at"     -> st.ex /\ st.ut = w.at

\* writes.Apply, as far as existence and the two times go.  A delete leaves
\* the in-memory times alone; they are not persisted.
Applied(st, w, now) ==
    IF w.op = "delete"
    THEN [st EXCEPT !.ex = FALSE, !.dirty = TRUE]
    ELSE [ex |-> TRUE, ct |-> IF st.ex THEN st.ct ELSE now, ut |-> now,
          dirty |-> TRUE]

\* A session after write w of its request.
AfterWrite(c, w) ==
    [c EXCEPT !.i = c.i + 1,
              !.st = [c.st EXCEPT ![w.doc] = Applied(c.st[w.doc], w, c.ctime)]]

Dirty(s) == {d \in Docs : ses[s].st[d].dirty}

\* d is the next dirty document of the sorted targets.
IsNextTarget(s, d) ==
    /\ d \in Dirty(s) \ loop[s].done
    /\ \A e \in Dirty(s) \ loop[s].done : Rank[d] <= Rank[e]

\* INSERT INTO collections ... ON CONFLICT DO NOTHING returns: nobody else has
\* inserted the row without having committed or rolled back yet.
RowFree(s, c) == \A r \in Sess \ {s} : c \notin loop[r].rows

\* Mutant: the upsert replaces the create time too.
PersistedAllColumns(s, d) ==
    LET st == ses[s].st[d]
    IN  IF st.ex THEN [ex |-> TRUE, ct |-> st.ct, ut |-> st.ut, ver |-> ses[s].xid]
        ELSE Missing

\* What the upsert or delete of one document leaves in its row: ON CONFLICT
\* DO UPDATE keeps the create_time of a row that is there.
Persisted(s, d) ==
    LET st == ses[s].st[d]
    IN  IF st.ex
        THEN [ex |-> TRUE, ct |-> IF store[d].ex THEN store[d].ct ELSE st.ct,
              ut |-> st.ut, ver |-> ses[s].xid]
        ELSE Missing

\* The commit record of a session, kept for the properties.
CommitRecord(s) ==
    [xid |-> ses[s].xid, time |-> ses[s].ctime, txn |-> ses[s].txn,
     req |-> ses[s].req, del |-> {d \in Dirty(s) : ~ses[s].st[d].ex},
     create |-> {d \in Dirty(s) : ses[s].st[d].ex /\ ~ses[s].existing[d].ex}]

-----------------------------------------------------------------------------

Init ==
    /\ clock = 1
    /\ store = [d \in Docs |-> Missing]
    /\ live = {} /\ begun = {}
    /\ reads = [t \in Txns |-> [d \in Docs |-> NotRead]]
    /\ created = [t \in Txns |-> 0]
    /\ inflight = {}
    /\ ses = [s \in Sess |-> IdleSession]
    /\ nextXid = 1
    /\ started = 0
    /\ collections = {}
    /\ loop = [s \in Sess |-> NoLoop]
    /\ seen = [t \in Txns |-> [d \in Docs |-> {}]]
    /\ lastEvent = [d \in Docs |-> 0]
    /\ hist = {}

Tick ==
    /\ clock < MaxClock
    /\ clock' = clock + 1
    /\ UNCHANGED <<store, regVars, inflight, ses, nextXid, started, collVars, histVars>>

(***************************************************************************)
(* The transaction registry (txn.go).                                      *)
(***************************************************************************)

\* Mutant: an id may be handed out twice.
BeginTxnReusingId(t) ==
    /\ t \notin live
    /\ live' = {u \in live : clock - created[u] <= TxnTTL} \cup {t}
    /\ created' = [created EXCEPT ![t] = clock]
    /\ UNCHANGED <<clock, store, begun, reads, inflight, ses, nextXid, started,
                   collVars, histVars>>

\* txnRegistry.begin, with its sweep of expired entries.
BeginTxn(t) ==
    /\ t \notin begun
    /\ begun' = begun \cup {t}
    /\ live' = {u \in live : clock - created[u] <= TxnTTL} \cup {t}
    /\ created' = [created EXCEPT ![t] = clock]
    /\ UNCHANGED <<clock, store, reads, inflight, ses, nextXid, started, collVars, histVars>>

\* GetDocument and BatchGetDocuments, first half: one SELECT of the committed
\* documents.  The handler does not look at the registry before it.
GetDocuments(t, D) ==
    /\ t \in begun
    /\ Cardinality(inflight) < MaxInflight
    /\ ~ReReads => /\ D \cap ReadSet(t) = {}
                   /\ \A r \in inflight : r.txn = t => D \cap r.docs = {}
    /\ inflight' = inflight \cup
         {[txn |-> t, docs |-> D,
           got |-> [d \in Docs |-> IF d \in D THEN store[d] ELSE Missing]]}
    /\ UNCHANGED <<clock, store, regVars, ses, nextXid, started, collVars, histVars>>

\* Second half: txnRegistry.record, then the answer.  An unknown or expired
\* transaction fails the read; otherwise the first recorded version stays.
RecordTxnReads(r) ==
    /\ inflight' = inflight \ {r}
    /\ IF r.txn \in live
       THEN /\ reads' = [reads EXCEPT ![r.txn] =
                 [d \in Docs |-> IF d \in r.docs /\ @[d] = NotRead
                                 THEN r.got[d].ut ELSE @[d]]]
            /\ seen' = [seen EXCEPT ![r.txn] =
                 [d \in Docs |-> IF d \in r.docs
                                 THEN @[d] \cup {r.got[d].ver} ELSE @[d]]]
       ELSE UNCHANGED <<reads, seen>>
    /\ UNCHANGED <<clock, store, live, begun, created, ses, nextXid, started,
                   collVars, lastEvent, hist>>

\* Rollback RPC: txnRegistry.drop.
RollbackTxn(t) ==
    /\ t \in live
    /\ live' = live \ {t}
    /\ UNCHANGED <<clock, store, begun, reads, created, inflight, ses, nextXid,
                   started, collVars, histVars>>

(***************************************************************************)
(* applyCommit.                                                            *)
(***************************************************************************)

\* Mutants: the entry stays in the registry; the read documents are not locked.
StartCommitKeepingEntry(s, t, ws) ==
    /\ ses[s].pc = "idle" /\ started < MaxStarts
    /\ DistinctTimes => clock < MaxClock
    /\ t = NoTxn \/ t \in live
    /\ ses' = [ses EXCEPT ![s] =
         [IdleSession EXCEPT !.pc = "lock", !.txn = t, !.req = ws, !.ctime = clock,
                             !.lockSet = Targets(ws) \cup ReadSet(t),
                             !.todo = Targets(ws) \cup ReadSet(t)]]
    /\ clock' = IF DistinctTimes THEN clock + 1 ELSE clock
    /\ started' = started + 1
    /\ UNCHANGED <<store, regVars, inflight, nextXid, collVars, histVars>>

StartCommitTargetsOnly(s, t, ws) ==
    /\ ses[s].pc = "idle" /\ started < MaxStarts
    /\ DistinctTimes => clock < MaxClock
    /\ IF t = NoTxn THEN live' = live ELSE t \in live /\ live' = live \ {t}
    /\ ses' = [ses EXCEPT ![s] =
         [IdleSession EXCEPT !.pc = "lock", !.txn = t, !.req = ws, !.ctime = clock,
                             !.lockSet = Targets(ws), !.todo = Targets(ws)]]
    /\ clock' = IF DistinctTimes THEN clock + 1 ELSE clock
    /\ started' = started + 1
    /\ UNCHANGED <<store, begun, reads, created, inflight, nextXid, collVars, histVars>>

\* Entry: read the clock, collect and sort the lock set, begin.  A client may
\* send, or re-send, the Commit of a transaction at any time; `take' lets the
\* first one through and answers InvalidArgument to the others.
StartCommit(s, t, ws) ==
    /\ ses[s].pc = "idle"
    /\ started < MaxStarts
    /\ DistinctTimes => clock < MaxClock
    /\ IF t = NoTxn THEN live' = live ELSE t \in live /\ live' = live \ {t}
    /\ ses' = [ses EXCEPT ![s] =
         [IdleSession EXCEPT !.pc = "lock", !.txn = t, !.req = ws, !.ctime = clock,
                             !.lockSet = Targets(ws) \cup ReadSet(t),
                             !.todo = Targets(ws) \cup ReadSet(t)]]
    /\ clock' = IF DistinctTimes THEN clock + 1 ELSE clock
    /\ started' = started + 1
    /\ UNCHANGED <<store, begun, reads, created, inflight, nextXid, collVars, histVars>>

\* pg_advisory_xact_lock(hashtext(n)) for the next name; waits while another
\* transaction holds the key, and is reentrant.
AdvisoryLock(s) ==
    /\ ses[s].pc = "lock"
    /\ \E d \in ses[s].todo :
         /\ IsNext(s, d)
         /\ LockFree(s, HashText[d])
         /\ ses' = [ses EXCEPT ![s].todo = @ \ {d},
                               ![s].held = @ \cup {HashText[d]}]
    /\ UNCHANGED <<clock, store, regVars, inflight, nextXid, started, collVars, histVars>>

\* SELECT ... FOR UPDATE, the verification of the recorded versions (ABORTED,
\* and the deferred rollback, on drift) and the construction of the states.
\* Locking a row gives the transaction its id.
SelectForUpdate(s) ==
    /\ ses[s].pc = "lock" /\ ses[s].todo = {}
    /\ LET assigns == \E d \in ses[s].lockSet : store[d].ex
       IN  /\ nextXid' = IF assigns THEN nextXid + 1 ELSE nextXid
           /\ ses' = [ses EXCEPT ![s] =
                IF Unchanged(ses[s].txn)
                THEN [@ EXCEPT !.pc = "apply",
                               !.xid = IF assigns THEN nextXid ELSE 0,
                               !.existing = [d \in Docs |->
                                  IF d \in ses[s].lockSet THEN store[d] ELSE Missing],
                               !.st = [d \in Docs |->
                                  IF d \in Targets(ses[s].req)
                                  THEN [ex |-> store[d].ex, ct |-> store[d].ct,
                                        ut |-> store[d].ut, dirty |-> FALSE]
                                  ELSE Untouched]]
                ELSE IdleSession]
    /\ UNCHANGED <<clock, store, regVars, inflight, started, collVars, histVars>>

\* One round of the loop over the writes; a failed precondition rolls back.
ApplyWrite(s) ==
    /\ ses[s].pc = "apply" /\ ses[s].i <= Len(ses[s].req)
    /\ LET w == ses[s].req[ses[s].i]
       IN  ses' = [ses EXCEPT ![s] =
             IF PreconditionHolds(ses[s].st[w.doc], w)
             THEN AfterWrite(ses[s], w) ELSE IdleSession]
    /\ UNCHANGED <<clock, store, regVars, inflight, nextXid, started, collVars, histVars>>

\* All writes are applied and the loop that persists them begins; what it does
\* is invisible to the others until tx.Commit (see there), and its first
\* statement gives a transaction that locked no row its id.
Persist(s) ==
    /\ ses[s].pc = "apply" /\ ses[s].i > Len(ses[s].req)
    /\ LET assigns == ses[s].xid = 0 /\ Dirty(s) # {}
       IN  /\ nextXid' = IF assigns THEN nextXid + 1 ELSE nextXid
           /\ ses' = [ses EXCEPT ![s].pc = "commit",
                                 ![s].xid = IF assigns THEN nextXid ELSE @]
    /\ UNCHANGED <<clock, store, regVars, inflight, started, collVars, histVars>>

\* One round of that loop, for the next dirty document: upsert, collections row,
\* index entries, changelog row, or the delete and its entries.  The insert of
\* the collections row waits for another transaction that has inserted the same
\* row and not ended; the other statements touch rows under the advisory locks.
Upsert(s) ==
    /\ ses[s].pc = "commit"
    /\ \E d \in Docs :
         /\ IsNextTarget(s, d)
         /\ ses[s].st[d].ex => RowFree(s, CollectionOf[d])
         /\ loop' = [loop EXCEPT ![s] =
              [done |-> @.done \cup {d},
               rows |-> IF ses[s].st[d].ex THEN @.rows \cup ({CollectionOf[d]} \ collections)
                                           ELSE @.rows]]
    /\ UNCHANGED <<clock, store, regVars, inflight, ses, nextXid, started, collections,
                   histVars>>

\* Mutant: session-level advisory locks, which a commit does not release.
CommitTxKeepingLocks(s) ==
    /\ ses[s].pc = "commit" /\ Dirty(s) \subseteq loop[s].done
    /\ store' = [d \in Docs |-> IF d \in Dirty(s) THEN Persisted(s, d) ELSE store[d]]
    /\ lastEvent' = [d \in Docs |-> IF d \in Dirty(s) THEN ses[s].xid
                                                      ELSE lastEvent[d]]
    /\ hist' = hist \cup {CommitRecord(s)}
    /\ ses' = [ses EXCEPT ![s] = [IdleSession EXCEPT !.held = ses[s].held]]
    /\ collections' = collections \cup loop[s].rows
    /\ loop' = [loop EXCEPT ![s] = NoLoop]
    /\ UNCHANGED <<clock, regVars, inflight, nextXid, started, seen>>

\* tx.Commit: documents and events become visible, the locks are released.
\* The answer may still be lost; the client then sends the request again.
CommitTx(s) ==
    /\ ses[s].pc = "commit" /\ Dirty(s) \subseteq loop[s].done
    /\ store' = [d \in Docs |-> IF d \in Dirty(s) THEN Persisted(s, d) ELSE store[d]]
    /\ lastEvent' = [d \in Docs |-> IF d \in Dirty(s) THEN ses[s].xid
                                                      ELSE lastEvent[d]]
    /\ hist' = hist \cup {CommitRecord(s)}
    /\ ses' = [ses EXCEPT ![s] = IdleSession]
    /\ collections' = collections \cup loop[s].rows
    /\ loop' = [loop EXCEPT ![s] = NoLoop]
    /\ UNCHANGED <<clock, regVars, inflight, nextXid, started, seen>>

\* Any statement fails (cancelled context, lost connection, or Postgres'
\* deadlock detector): the deferred tx.Rollback.
Rollback(s) ==
    /\ ses[s].pc # "idle"
    /\ ses' = [ses EXCEPT ![s] = IdleSession]
    /\ loop' = [loop EXCEPT ![s] = NoLoop]
    /\ UNCHANGED <<clock, store, regVars, inflight, nextXid, started, collections, histVars>>

\* kord stops and comes back: the registry and every handler are gone, and
\* Postgres rolls back the open transactions.
Restart ==
    /\ live' = {}
    /\ inflight' = {}
    /\ ses' = [s \in Sess |-> IdleSession]
    /\ loop' = [s \in Sess |-> NoLoop]
    /\ UNCHANGED <<clock, store, begun, reads, created, nextXid, started, collections,
                   histVars>>

Step(s) == SelectForUpdate(s) \/ ApplyWrite(s) \/ Persist(s) \/ CommitTx(s)

Next ==
    \/ Tick
    \/ Restart
    \/ \E t \in Txns : \/ BeginTxn(t)
                       \/ RollbackTxn(t)
                       \/ \E D \in (SUBSET Docs) \ {{}} : GetDocuments(t, D)
    \/ \E r \in inflight : RecordTxnReads(r)
    \/ \E s \in Sess : \/ \E t \in Txns \cup {NoTxn}, ws \in Requests :
                              StartCommit(s, t, ws)
                       \/ AdvisoryLock(s)
                       \/ Step(s)
                       \/ Upsert(s)
                       \/ Rollback(s)

-----------------------------------------------------------------------------
(***************************************************************************)
(* Properties.                                                             *)
(***************************************************************************)

TypeOK ==
    /\ clock \in Nat /\ nextXid \in Nat \ {0} /\ started \in Nat
    /\ store \in [Docs -> Version]
    /\ live \subseteq begun /\ begun \subseteq Txns
    /\ reads \in [Txns -> [Docs -> Nat \cup {NotRead}]]
    /\ created \in [Txns -> Nat]
    /\ inflight \subseteq [txn : Txns, docs : SUBSET Docs, got : [Docs -> Version]]
    /\ ses \in [Sess -> Session]
    /\ collections \subseteq Collections
    /\ loop \in [Sess -> [done : SUBSET Docs, rows : SUBSET Collections]]
    /\ seen \in [Txns -> [Docs -> SUBSET Nat]]
    /\ lastEvent \in [Docs -> Nat]
    /\ hist \subseteq Commits

\* The documents a commit locked, present or not, are at its tx.Commit exactly
\* as its SELECT ... FOR UPDATE found them: what it verified and what it
\* computed its writes from is never out of date (store.go, advisory locks).
VerifiedStable ==
    \A s \in Sess : ses[s].pc \in {"apply", "commit"} =>
        \A d \in ses[s].lockSet : store[d] = ses[s].existing[d]

\* "This is serializable for point-read transactions" (txn.go:19): when a
\* transaction is about to commit, every version of every document its client
\* was ever given is the current one.  Commits are therefore equivalent to
\* running each transaction alone at its commit point.
SerializableReads ==
    \A s \in Sess : ses[s].pc = "commit" /\ ses[s].txn # NoTxn =>
        \A d \in Docs : seen[ses[s].txn][d] \subseteq {store[d].ver}

\* Sending the Commit of a transaction again, after a lost answer or in
\* parallel, never applies it twice (txnRegistry.take).
AppliedAtMostOnce ==
    \A c1, c2 \in hist : c1.txn = c2.txn /\ c1.txn # NoTxn => c1 = c2

\* Commits that found the same document missing and created it are separated
\* by a commit that deleted it: the race store.go describes above the advisory
\* locks (FOR UPDATE cannot lock a row that is not there) does not happen.
CreatedOnce ==
    \A c1, c2 \in hist : \A d \in c1.create \cap c2.create :
        c1.xid < c2.xid =>
            \E c \in hist : c1.xid < c.xid /\ c.xid < c2.xid /\ d \in c.del

\* The change events of one document carry transaction ids that grow in the
\* order the changes were committed, so that a reader of the feed, which is
\* ordered by transaction id, meets them in that order (appendChange).
EventsInCommitOrder == [][\A d \in Docs :
    lastEvent'[d] # lastEvent[d] => lastEvent'[d] > lastEvent[d]]_vars

\* s waits for an advisory lock that r holds, or for a row of the collections
\* table that r has inserted and not committed.
WaitsForLock(s, r) ==
    /\ ses[s].pc = "lock"
    /\ \E d \in ses[s].todo : IsNext(s, d) /\ HashText[d] \in ses[r].held

WaitsForRow(s, r) ==
    /\ ses[s].pc = "commit"
    /\ \E d \in Docs : /\ IsNextTarget(s, d) /\ ses[s].st[d].ex
                      /\ CollectionOf[d] \in loop[r].rows

WaitsFor(s, r) == r # s /\ (WaitsForLock(s, r) \/ WaitsForRow(s, r))

\* The commits of S wait for one another in a circle.
Cycle(S) == S # {} /\ \A s \in S : \E r \in S : WaitsFor(s, r)

\* "Collect and lock target documents in canonical order (deadlock safety)"
\* (store.go:202): no set of commits waits for one another in a circle.
NoLockCycle == \A S \in SUBSET Sess : ~Cycle(S)

\* Two of the names the commits of S lock have the same hashtext.
Colliding(S) ==
    \E s, r \in S : \E d \in ses[s].lockSet, e \in ses[r].lockSet :
        d # e /\ HashText[d] = HashText[e]

\* In the order of the names, the commits of S write a document of one collection
\* between two of another one, as with a subcollection of one of its documents.
Nested(S) ==
    LET D == UNION {Dirty(s) : s \in S}
    IN  \E d, e, f \in D : /\ Rank[d] < Rank[e] /\ Rank[e] < Rank[f]
                          /\ CollectionOf[d] = CollectionOf[f]
                          /\ CollectionOf[d] # CollectionOf[e]

\* What the canonical order (store.go:202) does achieve: commits wait in a circle
\* only if two of their names share a hash, so that the order of the names is
\* not the order of the keys, or if they write into nested collections, whose
\* rows the persist loop may insert in two different orders.
CyclesExplained ==
    \A S \in SUBSET Sess : Cycle(S) => Colliding(S) \/ Nested(S)

\* The protocol implements the atomic store: whatever statements interleave, fail
\* or are sent again, the documents change only in the one step of a whole
\* commit, whose preconditions hold, and whose transaction was handed only
\* current versions and did not commit before; a document deleted and written
\* again by one commit keeps its create time (the upsert of applyCommit).
Atomic == INSTANCE AtomicStore WITH
              log <- {[txn |-> h.txn, req |-> h.req, id |-> h.xid] : h \in hist},
              Times <- 0..MaxClock,
              Ids <- 0..MaxStarts
Implements == Atomic!Spec

\* Every commit ends, in success or in an error: none waits for a lock for ever.
CommitsEnd == \A s \in Sess : ses[s].pc # "idle" ~> ses[s].pc = "idle"

-----------------------------------------------------------------------------

Spec == Init /\ [][Next]_vars

\* Postgres answers every statement and serves the waiters of a lock or of a
\* row in the order of arrival: whoever can go on again and again does.  Its
\* deadlock detector fails a statement of one of the commits of a circle.
Deadlocked(s) == \E S \in SUBSET Sess : s \in S /\ Cycle(S)
BreakDeadlock == \E s \in Sess : Deadlocked(s) /\ Rollback(s)

Fairness ==
    /\ \A s \in Sess : WF_vars(Step(s)) /\ SF_vars(AdvisoryLock(s)) /\ SF_vars(Upsert(s))
    /\ WF_vars(BreakDeadlock)

FairSpec == Spec /\ Fairness
=============================================================================
