------------------------ MODULE CommitProtocolProofs ------------------------
(***************************************************************************)
(* Proofs about CommitProtocol, for any sets of documents, sessions and    *)
(* transactions, any request lists and any hash function.                  *)
(***************************************************************************)
EXTENDS CommitProtocol, TLAPS

(***************************************************************************)
(* Type correctness.                                                       *)
(***************************************************************************)

\* The documents a request writes are documents.
LEMMA TargetsType ==
    ASSUME NEW ws \in Seq(Write)
    PROVE  Targets(ws) \subseteq Docs
<1>1. \A k \in 1..Len(ws) : ws[k] \in Write
  OBVIOUS
<1> QED  BY <1>1 DEF Targets, Write

\* An idle handler is a session, and so is one with freshly collected locks.
LEMMA IdleType == IdleSession \in Session
BY TxnAssumption DEF IdleSession, Session, PCs, Missing, Version, Untouched, DocState

\* Applying a write to a document state gives a document state.
LEMMA AppliedType ==
    ASSUME NEW st \in DocState, NEW w \in Write, NEW now \in Nat
    PROVE  Applied(st, w, now) \in DocState
BY DEF Applied, DocState, Write

LEMMA AfterWriteType ==
    ASSUME NEW c \in Session, NEW w \in Write
    PROVE  AfterWrite(c, w) \in Session
<1>1. c.st \in [Docs -> DocState] /\ c.ctime \in Nat /\ w.doc \in Docs /\ c.i \in Nat \ {0}
  BY DEF Session, Write
<1>2. Applied(c.st[w.doc], w, c.ctime) \in DocState
  BY <1>1, AppliedType
<1> DEFINE f == [c.st EXCEPT ![w.doc] = Applied(c.st[w.doc], w, c.ctime)]
<1>3. f \in [Docs -> DocState]
  BY <1>1, <1>2
<1>4. AfterWrite(c, w) = [c EXCEPT !.i = c.i + 1, !.st = f]
  BY DEF AfterWrite
<1> HIDE DEF f
<1>5. c.i + 1 \in Nat \ {0}
  BY <1>1
<1> QED  BY <1>3, <1>4, <1>5 DEF Session

\* What a commit leaves in a row is a version.
LEMMA PersistedType ==
    ASSUME TypeOK, NEW s \in Sess, NEW d \in Docs
    PROVE  Persisted(s, d) \in Version
<1>1. ses[s].st[d] \in DocState /\ store[d] \in Version /\ ses[s].xid \in Nat
  BY DEF TypeOK, Session
<1> QED  BY <1>1 DEF Persisted, Version, DocState, Missing

LEMMA TypeInit == Init => TypeOK
<1> SUFFICES ASSUME Init PROVE TypeOK
  OBVIOUS
<1>1. ses \in [Sess -> Session]
  BY IdleType DEF Init
<1>2. loop \in [Sess -> [done : SUBSET Docs, rows : SUBSET Collections]]
  BY DEF Init, NoLoop
<1> QED  BY <1>1, <1>2 DEF Init, TypeOK, Missing, Version, NotRead

LEMMA TypeNext == TypeOK /\ [Next]_vars => TypeOK'
<1> SUFFICES ASSUME TypeOK, [Next]_vars PROVE TypeOK'
  OBVIOUS
<1>0. CASE UNCHANGED vars
  BY <1>0 DEF TypeOK, vars
<1>1. CASE Tick
  BY <1>1 DEF Tick, TypeOK, regVars, collVars, histVars
<1>2. CASE Restart
  BY <1>2, IdleType DEF Restart, TypeOK, histVars, NoLoop
<1>3. ASSUME NEW t \in Txns, BeginTxn(t) PROVE TypeOK'
  BY <1>3 DEF BeginTxn, TypeOK, collVars, histVars
<1>4. ASSUME NEW t \in Txns, RollbackTxn(t) PROVE TypeOK'
  BY <1>4 DEF RollbackTxn, TypeOK, collVars, histVars
<1>5. ASSUME NEW t \in Txns, NEW D \in SUBSET Docs, GetDocuments(t, D)
      PROVE  TypeOK'
  <2>1. [d \in Docs |-> IF d \in D THEN store[d] ELSE Missing] \in [Docs -> Version]
    BY DEF TypeOK, Missing, Version
  <2>2. inflight' \subseteq [txn : Txns, docs : SUBSET Docs, got : [Docs -> Version]]
    <3> DEFINE got == [d \in Docs |-> IF d \in D THEN store[d] ELSE Missing]
    <3>1. inflight' = inflight \cup {[txn |-> t, docs |-> D, got |-> got]}
      BY <1>5 DEF GetDocuments
    <3>2. inflight \subseteq [txn : Txns, docs : SUBSET Docs, got : [Docs -> Version]]
      BY DEF TypeOK
    <3>3. got \in [Docs -> Version]
      BY <2>1
    <3> HIDE DEF got
    <3> QED  BY <3>1, <3>2, <3>3
  <2> QED  BY <1>5, <2>2 DEF GetDocuments, TypeOK, regVars, collVars, histVars
<1>6. ASSUME NEW r \in inflight, RecordTxnReads(r) PROVE TypeOK'
  <2>1. r.txn \in Txns /\ r.docs \subseteq Docs /\ r.got \in [Docs -> Version]
    BY DEF TypeOK
  <2> DEFINE rec(f) == [d \in Docs |-> IF d \in r.docs /\ f[d] = NotRead
                                      THEN r.got[d].ut ELSE f[d]]
             put(f) == [d \in Docs |-> IF d \in r.docs
                                      THEN f[d] \cup {r.got[d].ver} ELSE f[d]]
  <2>2. reads' \in [Txns -> [Docs -> Nat \cup {NotRead}]]
    <3>1. rec(reads[r.txn]) \in [Docs -> Nat \cup {NotRead}]
      BY <2>1 DEF TypeOK, Version
    <3>2. reads' = reads \/ reads' = [reads EXCEPT ![r.txn] = rec(reads[r.txn])]
      BY <1>6 DEF RecordTxnReads
    <3> QED  BY <2>1, <3>1, <3>2 DEF TypeOK
  <2>3. seen' \in [Txns -> [Docs -> SUBSET Nat]]
    <3>1. put(seen[r.txn]) \in [Docs -> SUBSET Nat]
      BY <2>1 DEF TypeOK, Version
    <3>2. seen' = seen \/ seen' = [seen EXCEPT ![r.txn] = put(seen[r.txn])]
      BY <1>6 DEF RecordTxnReads
    <3> QED  BY <2>1, <3>1, <3>2 DEF TypeOK
  <2>4. inflight' \subseteq inflight
    BY <1>6 DEF RecordTxnReads
  <2> QED  BY <1>6, <2>2, <2>3, <2>4 DEF RecordTxnReads, TypeOK, collVars
<1>7. ASSUME NEW s \in Sess, NEW t \in Txns \cup {NoTxn}, NEW ws \in Requests,
             StartCommit(s, t, ws)
      PROVE  TypeOK'
  <2>1. ws \in Seq(Write) /\ Targets(ws) \cup ReadSet(t) \subseteq Docs
    BY RequestAssumption, TargetsType DEF ReadSet
  <2>2. ses' \in [Sess -> Session]
    BY <1>7, <2>1, IdleType DEF StartCommit, TypeOK, Session, PCs
  <2>3. live' \subseteq live /\ clock' \in Nat
    BY <1>7 DEF StartCommit, TypeOK
  <2> QED  BY <1>7, <2>2, <2>3 DEF StartCommit, TypeOK, collVars, histVars
<1>8. ASSUME NEW s \in Sess, AdvisoryLock(s) PROVE TypeOK'
  <2>1. PICK d \in ses[s].todo : ses' = [ses EXCEPT ![s].todo = @ \ {d},
                                                    ![s].held = @ \cup {HashText[d]}]
    BY <1>8 DEF AdvisoryLock
  <2>2. ses[s] \in Session /\ HashText[d] \in Nat
    BY HashAssumption DEF TypeOK, Session
  <2>3. ses' \in [Sess -> Session]
    BY <2>1, <2>2 DEF TypeOK, Session
  <2> QED  BY <1>8, <2>3 DEF AdvisoryLock, TypeOK, regVars, collVars, histVars
<1>9. ASSUME NEW s \in Sess, SelectForUpdate(s) PROVE TypeOK'
  <2>1. ses[s] \in Session
    BY DEF TypeOK
  <2>2. [d \in Docs |-> IF d \in ses[s].lockSet THEN store[d] ELSE Missing]
            \in [Docs -> Version]
    BY DEF TypeOK, Missing, Version
  <2>3. [d \in Docs |-> IF d \in Targets(ses[s].req)
                        THEN [ex |-> store[d].ex, ct |-> store[d].ct,
                              ut |-> store[d].ut, dirty |-> FALSE]
                        ELSE Untouched] \in [Docs -> DocState]
    BY DEF TypeOK, Version, DocState, Untouched
  <2>4. ses' \in [Sess -> Session]
    BY <1>9, <2>1, <2>2, <2>3, IdleType DEF SelectForUpdate, TypeOK, Session, PCs
  <2>5. nextXid' \in Nat \ {0}
    BY <1>9 DEF SelectForUpdate, TypeOK
  <2> QED  BY <1>9, <2>4, <2>5 DEF SelectForUpdate, TypeOK, regVars, collVars, histVars
<1>10. ASSUME NEW s \in Sess, ApplyWrite(s) PROVE TypeOK'
  <2> DEFINE w == ses[s].req[ses[s].i]
  <2>1. ses[s] \in Session /\ w \in Write
    <3>1. ses[s] \in Session
      BY DEF TypeOK
    <3>2. ses[s].req \in Seq(Write) /\ ses[s].i \in Nat \ {0}
      BY <3>1 DEF Session
    <3>3. ses[s].i \in 1..Len(ses[s].req)
      BY <1>10, <3>2 DEF ApplyWrite
    <3> QED  BY <3>1, <3>2, <3>3
  <2>2. AfterWrite(ses[s], w) \in Session
    BY <2>1, AfterWriteType
  <2>3. ses' = [ses EXCEPT ![s] = AfterWrite(ses[s], w)]
           \/ ses' = [ses EXCEPT ![s] = IdleSession]
    BY <1>10 DEF ApplyWrite
  <2>4. ses' \in [Sess -> Session]
    BY <2>2, <2>3, IdleType DEF TypeOK
  <2> QED  BY <1>10, <2>4 DEF ApplyWrite, TypeOK, regVars, collVars, histVars
<1>11. ASSUME NEW s \in Sess, Persist(s) PROVE TypeOK'
  <2>1. ses[s] \in Session
    BY DEF TypeOK
  <2>2. ses' \in [Sess -> Session]
    BY <1>11, <2>1 DEF Persist, TypeOK, Session, PCs
  <2>3. nextXid' \in Nat \ {0}
    BY <1>11 DEF Persist, TypeOK
  <2> QED  BY <1>11, <2>2, <2>3 DEF Persist, TypeOK, regVars, collVars, histVars
<1>12. ASSUME NEW s \in Sess, CommitTx(s) PROVE TypeOK'
  <2>1. store' \in [Docs -> Version]
    BY <1>12, PersistedType DEF CommitTx, TypeOK
  <2>2. lastEvent' \in [Docs -> Nat]
    BY <1>12 DEF CommitTx, TypeOK, Session
  <2>3. CommitRecord(s) \in Commits
    BY DEF CommitRecord, Commits, TypeOK, Session, Dirty
  <2>4. collections' \subseteq Collections
    BY <1>12 DEF CommitTx, TypeOK
  <2>5. loop' \in [Sess -> [done : SUBSET Docs, rows : SUBSET Collections]]
    BY <1>12 DEF CommitTx, TypeOK, NoLoop
  <2> QED  BY <1>12, <2>1, <2>2, <2>3, <2>4, <2>5, IdleType DEF CommitTx, TypeOK, regVars
<1>13. ASSUME NEW s \in Sess, Rollback(s) PROVE TypeOK'
  BY <1>13, IdleType DEF Rollback, TypeOK, regVars, histVars, NoLoop
<1>14. ASSUME NEW s \in Sess, Upsert(s) PROVE TypeOK'
  <2>1. loop' \in [Sess -> [done : SUBSET Docs, rows : SUBSET Collections]]
    BY <1>14, CollectionAssumption DEF Upsert, TypeOK
  <2> QED  BY <1>14, <2>1 DEF Upsert, TypeOK, regVars, histVars
<1> QED  BY <1>0, <1>1, <1>2, <1>3, <1>4, <1>5, <1>6, <1>7, <1>8, <1>9, <1>10,
            <1>11, <1>12, <1>13, <1>14 DEF Next, Step

\* Every variable keeps its type in every behaviour of the commit protocol.
THEOREM TypeCorrect == Spec => []TypeOK
BY TypeInit, TypeNext, PTL DEF Spec

(***************************************************************************)
(* The locks.  What a commit verified stays as it is because every         *)
(* document it may write or has read is covered by an advisory lock key    *)
(* that it alone holds, and because it writes no other document.           *)
(***************************************************************************)

Locked(c) ==
    /\ c.todo \subseteq c.lockSet
    /\ \A d \in c.lockSet \ c.todo : HashText[d] \in c.held
    /\ c.pc \in {"apply", "commit"} => c.todo = {}
    /\ Targets(c.req) \subseteq c.lockSet
    /\ \A d \in Docs : c.st[d].dirty => d \in Targets(c.req)

Exclusive ==
    \A s, r \in Sess : s # r => ses[s].held \cap ses[r].held = {}

LockInv == Exclusive /\ (\A s \in Sess : Locked(ses[s])) /\ VerifiedStable

LEMMA LockedIdle == Locked(IdleSession)
BY DEF Locked, IdleSession, Targets, Untouched

\* Two commits past their locks have no document in common.
LEMMA DisjointLockSets ==
    ASSUME LockInv, NEW s \in Sess, NEW r \in Sess, s # r,
           ses[s].todo = {}, ses[r].todo = {},
           NEW d \in ses[r].lockSet
    PROVE  d \notin ses[s].lockSet
BY DEF LockInv, Exclusive, Locked

\* A commit writes only documents it has locked.
LEMMA DirtyLocked ==
    ASSUME LockInv, NEW s \in Sess
    PROVE  Dirty(s) \subseteq ses[s].lockSet
BY DEF LockInv, Locked, Dirty

\* A step that only lets a session go idle keeps the lock invariant.
LEMMA LockIdle ==
    ASSUME TypeOK, LockInv, NEW s \in Sess, store' = store,
           ses' = [ses EXCEPT ![s] = IdleSession]
    PROVE  LockInv'
<1>1. IdleSession.held = {} /\ IdleSession.pc = "idle"
  BY DEF IdleSession
<1>2. \A r \in Sess : ses'[r] = IF r = s THEN IdleSession ELSE ses[r]
  BY DEF TypeOK
<1>3. Exclusive'
  BY <1>1, <1>2 DEF LockInv, Exclusive
<1>4. \A r \in Sess : Locked(ses'[r])
  BY <1>2, LockedIdle DEF LockInv
<1>5. VerifiedStable'
  BY <1>1, <1>2 DEF LockInv, VerifiedStable
<1> QED  BY <1>3, <1>4, <1>5 DEF LockInv

\* A step that changes neither a session nor a document keeps it, too.
LEMMA LockStutter ==
    ASSUME LockInv, UNCHANGED <<ses, store>> PROVE LockInv'
BY DEF LockInv, Exclusive, VerifiedStable

LEMMA LockInit == Init => LockInv
<1> SUFFICES ASSUME Init PROVE LockInv
  OBVIOUS
<1>1. \A s \in Sess : ses[s] = IdleSession
  BY DEF Init
<1>2. IdleSession.held = {} /\ IdleSession.pc = "idle"
  BY DEF IdleSession
<1> QED  BY <1>1, <1>2, LockedIdle DEF LockInv, Exclusive, VerifiedStable

LEMMA LockNext == TypeOK /\ LockInv /\ [Next]_vars => LockInv'
<1> SUFFICES ASSUME TypeOK, LockInv, [Next]_vars PROVE LockInv'
  OBVIOUS
<1>0. CASE UNCHANGED vars
  BY <1>0, LockStutter DEF vars
<1>1. CASE Tick
  BY <1>1, LockStutter DEF Tick
<1>2. CASE Restart
  <2>1. \A s \in Sess : ses'[s] = IdleSession
    BY <1>2 DEF Restart
  <2>2. IdleSession.held = {} /\ IdleSession.pc = "idle"
    BY DEF IdleSession
  <2> QED  BY <2>1, <2>2, LockedIdle DEF LockInv, Exclusive, VerifiedStable
<1>3. ASSUME NEW t \in Txns, BeginTxn(t) PROVE LockInv'
  BY <1>3, LockStutter DEF BeginTxn
<1>4. ASSUME NEW t \in Txns, RollbackTxn(t) PROVE LockInv'
  BY <1>4, LockStutter DEF RollbackTxn
<1>5. ASSUME NEW t \in Txns, NEW D \in SUBSET Docs, GetDocuments(t, D)
      PROVE  LockInv'
  BY <1>5, LockStutter DEF GetDocuments
<1>6. ASSUME NEW r \in inflight, RecordTxnReads(r) PROVE LockInv'
  BY <1>6, LockStutter DEF RecordTxnReads
<1>7. ASSUME NEW s \in Sess, NEW t \in Txns \cup {NoTxn}, NEW ws \in Requests,
             StartCommit(s, t, ws)
      PROVE  LockInv'
  <2> DEFINE L == Targets(ws) \cup ReadSet(t)
             new == [IdleSession EXCEPT !.pc = "lock", !.txn = t, !.req = ws,
                                        !.ctime = clock, !.lockSet = L, !.todo = L]
  <2>1. \A r \in Sess : ses'[r] = IF r = s THEN new ELSE ses[r]
    BY <1>7 DEF StartCommit, TypeOK
  <2>2. new.held = {} /\ new.pc = "lock" /\ new.todo = L /\ new.lockSet = L
          /\ new.req = ws /\ \A d \in Docs : ~new.st[d].dirty
    BY DEF IdleSession, Untouched
  <2> HIDE DEF new
  <2>3. Locked(new)
    BY <2>2 DEF Locked
  <2>4. Exclusive'
    BY <2>1, <2>2 DEF LockInv, Exclusive
  <2>5. VerifiedStable'
    BY <1>7, <2>1, <2>2 DEF LockInv, VerifiedStable, StartCommit
  <2> QED  BY <2>1, <2>3, <2>4, <2>5 DEF LockInv
<1>8. ASSUME NEW s \in Sess, AdvisoryLock(s) PROVE LockInv'
  <2>1. PICK d \in ses[s].todo :
             /\ LockFree(s, HashText[d])
             /\ ses' = [ses EXCEPT ![s].todo = @ \ {d}, ![s].held = @ \cup {HashText[d]}]
    BY <1>8 DEF AdvisoryLock
  <2> DEFINE new == [ses[s] EXCEPT !.todo = @ \ {d}, !.held = @ \cup {HashText[d]}]
  <2>2. \A r \in Sess : ses'[r] = IF r = s THEN new ELSE ses[r]
    BY <2>1 DEF TypeOK
  <2>3. /\ new.held = ses[s].held \cup {HashText[d]} /\ new.pc = "lock"
        /\ new.todo = ses[s].todo \ {d} /\ new.lockSet = ses[s].lockSet
        /\ new.req = ses[s].req /\ new.st = ses[s].st
    BY <1>8 DEF TypeOK, Session, AdvisoryLock
  <2> HIDE DEF new
  <2>4. Locked(new)
    BY <2>1, <2>3 DEF LockInv, Locked
  <2>5. Exclusive'
    <3>1. \A r \in Sess : r # s => new.held \cap ses[r].held = {}
      BY <2>1, <2>3 DEF LockInv, Exclusive, LockFree
    <3> QED  BY <2>2, <3>1 DEF LockInv, Exclusive
  <2>6. VerifiedStable'
    <3>1. ASSUME NEW r \in Sess, ses'[r].pc \in {"apply", "commit"} PROVE ses'[r] = ses[r]
      BY <2>2, <2>3, <3>1
    <3>2. store' = store
      BY <1>8 DEF AdvisoryLock
    <3> QED  BY <3>1, <3>2 DEF LockInv, VerifiedStable
  <2> QED  BY <2>2, <2>4, <2>5, <2>6 DEF LockInv
<1>9. ASSUME NEW s \in Sess, SelectForUpdate(s) PROVE LockInv'
  <2>1. CASE ses' = [ses EXCEPT ![s] = IdleSession]
    BY <1>9, <2>1, LockIdle DEF SelectForUpdate
  <2>2. CASE ses' # [ses EXCEPT ![s] = IdleSession]
    <3> DEFINE ex == [d \in Docs |-> IF d \in ses[s].lockSet THEN store[d] ELSE Missing]
               st == [d \in Docs |-> IF d \in Targets(ses[s].req)
                                      THEN [ex |-> store[d].ex, ct |-> store[d].ct,
                                            ut |-> store[d].ut, dirty |-> FALSE]
                                      ELSE Untouched]
    <3>1. PICK x : ses' = [ses EXCEPT ![s] = [ses[s] EXCEPT !.pc = "apply", !.xid = x,
                                               !.existing = ex, !.st = st]]
      BY <1>9, <2>2 DEF SelectForUpdate
    <3> DEFINE new == [ses[s] EXCEPT !.pc = "apply", !.xid = x, !.existing = ex, !.st = st]
    <3>2. \A d \in Docs : ~st[d].dirty
      BY DEF Untouched
    <3>3. \A d \in ses[s].lockSet : ex[d] = store[d]
      BY DEF TypeOK, Session
    <3> HIDE DEF ex, st
    <3>4. \A r \in Sess : ses'[r] = IF r = s THEN new ELSE ses[r]
      BY <3>1 DEF TypeOK
    <3>5. /\ new.held = ses[s].held /\ new.pc = "apply" /\ new.todo = ses[s].todo
          /\ new.lockSet = ses[s].lockSet /\ new.req = ses[s].req /\ new.st = st
          /\ new.existing = ex
      BY DEF TypeOK, Session
    <3> HIDE DEF new
    <3>6. Locked(new)
      BY <1>9, <3>2, <3>5 DEF LockInv, Locked, SelectForUpdate
    <3>7. Exclusive'
      BY <3>4, <3>5 DEF LockInv, Exclusive
    <3>8. VerifiedStable'
      <4>1. store' = store
        BY <1>9 DEF SelectForUpdate
      <4>2. \A d \in ses'[s].lockSet : store'[d] = ses'[s].existing[d]
        BY <3>3, <3>4, <3>5, <4>1
      <4> QED  BY <3>4, <4>1, <4>2 DEF LockInv, VerifiedStable
    <3> QED  BY <3>4, <3>6, <3>7, <3>8 DEF LockInv
  <2> QED  BY <2>1, <2>2
<1>10. ASSUME NEW s \in Sess, ApplyWrite(s) PROVE LockInv'
  <2> DEFINE w == ses[s].req[ses[s].i]
             new == AfterWrite(ses[s], w)
  <2>1. CASE ses' = [ses EXCEPT ![s] = IdleSession]
    BY <1>10, <2>1, LockIdle DEF ApplyWrite
  <2>2. CASE ses' = [ses EXCEPT ![s] = new]
    <3>1. ses[s] \in Session /\ w \in Write /\ w.doc \in Targets(ses[s].req)
      <4>1. ses[s] \in Session
        BY DEF TypeOK
      <4>2. ses[s].req \in Seq(Write) /\ ses[s].i \in Nat \ {0}
        BY <4>1 DEF Session
      <4>3. ses[s].i \in 1..Len(ses[s].req)
        BY <1>10, <4>2 DEF ApplyWrite
      <4> QED  BY <4>1, <4>2, <4>3 DEF Targets
    <3>2. \A r \in Sess : ses'[r] = IF r = s THEN new ELSE ses[r]
      BY <2>2 DEF TypeOK
    <3>3. /\ new.held = ses[s].held /\ new.pc = ses[s].pc /\ new.todo = ses[s].todo
          /\ new.lockSet = ses[s].lockSet /\ new.req = ses[s].req
          /\ new.existing = ses[s].existing
          /\ \A d \in Docs : d # w.doc => new.st[d] = ses[s].st[d]
      BY <3>1 DEF AfterWrite, Session, Write
    <3> HIDE DEF new
    <3>4. Locked(new)
      BY <3>1, <3>3 DEF LockInv, Locked
    <3>5. Exclusive'
      BY <3>2, <3>3 DEF LockInv, Exclusive
    <3>6. VerifiedStable'
      BY <1>10, <3>2, <3>3 DEF LockInv, VerifiedStable, ApplyWrite
    <3> QED  BY <3>2, <3>4, <3>5, <3>6 DEF LockInv
  <2> QED  BY <1>10, <2>1, <2>2 DEF ApplyWrite
<1>11. ASSUME NEW s \in Sess, Persist(s) PROVE LockInv'
  <2>1. PICK x : ses' = [ses EXCEPT ![s].pc = "commit", ![s].xid = x]
    BY <1>11 DEF Persist
  <2> DEFINE new == [ses[s] EXCEPT !.pc = "commit", !.xid = x]
  <2>2. \A r \in Sess : ses'[r] = IF r = s THEN new ELSE ses[r]
    BY <2>1 DEF TypeOK
  <2>3. /\ new.held = ses[s].held /\ new.pc = "commit" /\ new.todo = ses[s].todo
        /\ new.lockSet = ses[s].lockSet /\ new.req = ses[s].req /\ new.st = ses[s].st
        /\ new.existing = ses[s].existing
    BY DEF TypeOK, Session
  <2> HIDE DEF new
  <2>4. Locked(new)
    BY <1>11, <2>3 DEF LockInv, Locked, Persist
  <2>5. Exclusive'
    BY <2>2, <2>3 DEF LockInv, Exclusive
  <2>6. VerifiedStable'
    <3>1. store' = store /\ ses[s].pc = "apply"
      BY <1>11 DEF Persist
    <3>2. \A d \in ses'[s].lockSet : store'[d] = ses'[s].existing[d]
      BY <2>2, <2>3, <3>1 DEF LockInv, VerifiedStable
    <3> QED  BY <2>2, <3>1, <3>2 DEF LockInv, VerifiedStable
  <2> QED  BY <2>2, <2>4, <2>5, <2>6 DEF LockInv
<1>12. ASSUME NEW s \in Sess, CommitTx(s) PROVE LockInv'
  <2>1. \A r \in Sess : ses'[r] = IF r = s THEN IdleSession ELSE ses[r]
    BY <1>12 DEF CommitTx, TypeOK
  <2>2. IdleSession.held = {} /\ IdleSession.pc = "idle"
    BY DEF IdleSession
  <2>3. Exclusive'
    BY <2>1, <2>2 DEF LockInv, Exclusive
  <2>4. \A r \in Sess : Locked(ses'[r])
    BY <2>1, LockedIdle DEF LockInv
  <2>5. ASSUME NEW r \in Sess, ses'[r].pc \in {"apply", "commit"},
               NEW d \in ses'[r].lockSet
        PROVE  store'[d] = ses'[r].existing[d]
    <3>1. r # s /\ ses'[r] = ses[r]
      BY <2>1, <2>2, <2>5
    <3>2. ses[s].todo = {} /\ ses[r].todo = {}
      BY <1>12, <2>5, <3>1 DEF LockInv, Locked, CommitTx
    <3>3. d \notin Dirty(s)
      BY <2>5, <3>1, <3>2, DisjointLockSets, DirtyLocked
    <3>4. d \in Docs
      BY <2>5, <3>1 DEF TypeOK, Session
    <3>5. store'[d] = store[d]
      BY <1>12, <3>3, <3>4 DEF CommitTx
    <3> QED  BY <2>5, <3>1, <3>5 DEF LockInv, VerifiedStable
  <2>6. VerifiedStable'
    BY <2>5 DEF VerifiedStable
  <2> QED  BY <2>3, <2>4, <2>6 DEF LockInv
<1>13. ASSUME NEW s \in Sess, Rollback(s) PROVE LockInv'
  BY <1>13, LockIdle DEF Rollback
<1>14. ASSUME NEW s \in Sess, Upsert(s) PROVE LockInv'
  BY <1>14, LockStutter DEF Upsert
<1> QED  BY <1>0, <1>1, <1>2, <1>3, <1>4, <1>5, <1>6, <1>7, <1>8, <1>9, <1>10,
            <1>11, <1>12, <1>13, <1>14 DEF Next, Step

\* No two commits hold a lock on the same document, each holds all that its
\* phase has taken, and what it read under them is still current (applyCommit).
THEOREM LocksInvariant == Spec => [](TypeOK /\ LockInv)
BY TypeInit, TypeNext, LockInit, LockNext, PTL DEF Spec

\* Whatever the documents, the requests and the hash function: what a commit
\* read under its locks is what the store holds when it commits.
THEOREM VerifiedStableHolds == Spec => []VerifiedStable
BY LocksInvariant, PTL DEF LockInv

(***************************************************************************)
(* The change events.  A commit gets its transaction id under its locks,   *)
(* so the id is above those of all earlier changes of what it locked.      *)
(***************************************************************************)

EventInv ==
    /\ \A d \in Docs : lastEvent[d] < nextXid
    /\ \A s \in Sess : ses[s].xid < nextXid
    /\ \A s \in Sess : ses[s].pc \in {"apply", "commit"} /\ ses[s].xid # 0 =>
          \A d \in ses[s].lockSet : lastEvent[d] < ses[s].xid
    /\ \A s \in Sess : ses[s].pc = "commit" /\ Dirty(s) # {} => ses[s].xid # 0

\* The steps that leave the counter and the events alone: every session keeps
\* what the invariant is about, or is not past its locks with an id.
LEMMA EventFrame ==
    ASSUME TypeOK, EventInv, UNCHANGED <<nextXid, lastEvent>>,
           \A s \in Sess :
              \/ /\ ses'[s].pc \in {"idle", "lock"} /\ ses'[s].xid = 0
              \/ /\ ses'[s].xid = ses[s].xid /\ ses'[s].pc = ses[s].pc
                 /\ ses'[s].lockSet = ses[s].lockSet
                 /\ ses[s].pc = "commit" => ses'[s].st = ses[s].st
    PROVE  EventInv'
<1>1. \A s \in Sess : ses'[s].xid < nextXid'
  BY DEF EventInv, TypeOK
<1>2. \A s \in Sess : ses'[s].pc \in {"apply", "commit"} /\ ses'[s].xid # 0 =>
          \A d \in ses'[s].lockSet : lastEvent'[d] < ses'[s].xid
  BY DEF EventInv
<1>3. \A s \in Sess : ses'[s].pc = "commit" /\ Dirty(s)' # {} => ses'[s].xid # 0
  BY DEF EventInv, Dirty
<1> QED  BY <1>1, <1>2, <1>3 DEF EventInv

LEMMA EventInit == Init => EventInv
<1> SUFFICES ASSUME Init PROVE EventInv
  OBVIOUS
<1>1. \A s \in Sess : ses[s].pc = "idle" /\ ses[s].xid = 0
  BY DEF Init, IdleSession
<1> QED  BY <1>1 DEF EventInv, Init

LEMMA EventNext == TypeOK /\ LockInv /\ EventInv /\ [Next]_vars => EventInv'
<1> SUFFICES ASSUME TypeOK, LockInv, EventInv, [Next]_vars PROVE EventInv'
  OBVIOUS
<1>a. IdleSession.pc = "idle" /\ IdleSession.xid = 0
  BY DEF IdleSession
<1>b. ASSUME NEW s \in Sess, ses' = [ses EXCEPT ![s] = IdleSession],
             UNCHANGED <<nextXid, lastEvent>>
      PROVE  EventInv'
  <2>1. \A r \in Sess : ses'[r] = IF r = s THEN IdleSession ELSE ses[r]
    BY <1>b DEF TypeOK
  <2> QED  BY <1>a, <1>b, <2>1, EventFrame
<1>c. ASSUME UNCHANGED <<nextXid, lastEvent, ses>> PROVE EventInv'
  BY <1>c, EventFrame
<1>0. CASE UNCHANGED vars
  BY <1>0, <1>c DEF vars
<1>1. CASE Tick
  BY <1>1, <1>c DEF Tick, histVars
<1>2. CASE Restart
  <2>1. \A s \in Sess : ses'[s] = IdleSession
    BY <1>2 DEF Restart
  <2>2. UNCHANGED <<nextXid, lastEvent>>
    BY <1>2 DEF Restart, histVars
  <2> QED  BY <1>a, <2>1, <2>2, EventFrame
<1>3. ASSUME NEW t \in Txns, BeginTxn(t) PROVE EventInv'
  BY <1>3, <1>c DEF BeginTxn, histVars
<1>4. ASSUME NEW t \in Txns, RollbackTxn(t) PROVE EventInv'
  BY <1>4, <1>c DEF RollbackTxn, histVars
<1>5. ASSUME NEW t \in Txns, NEW D \in SUBSET Docs, GetDocuments(t, D)
      PROVE  EventInv'
  BY <1>5, <1>c DEF GetDocuments, histVars
<1>6. ASSUME NEW r \in inflight, RecordTxnReads(r) PROVE EventInv'
  BY <1>6, <1>c DEF RecordTxnReads
<1>7. ASSUME NEW s \in Sess, NEW t \in Txns \cup {NoTxn}, NEW ws \in Requests,
             StartCommit(s, t, ws)
      PROVE  EventInv'
  <2> DEFINE L == Targets(ws) \cup ReadSet(t)
             new == [IdleSession EXCEPT !.pc = "lock", !.txn = t, !.req = ws,
                                        !.ctime = clock, !.lockSet = L, !.todo = L]
  <2>1. \A r \in Sess : ses'[r] = IF r = s THEN new ELSE ses[r]
    BY <1>7 DEF StartCommit, TypeOK
  <2>2. new.pc = "lock" /\ new.xid = 0
    BY DEF IdleSession
  <2> HIDE DEF new
  <2>3. UNCHANGED <<nextXid, lastEvent>>
    BY <1>7 DEF StartCommit, histVars
  <2> QED  BY <2>1, <2>2, <2>3, EventFrame
<1>8. ASSUME NEW s \in Sess, AdvisoryLock(s) PROVE EventInv'
  <2>1. PICK d \in ses[s].todo :
           ses' = [ses EXCEPT ![s].todo = @ \ {d}, ![s].held = @ \cup {HashText[d]}]
    BY <1>8 DEF AdvisoryLock
  <2>2. \A r \in Sess : ses'[r].xid = ses[r].xid /\ ses'[r].pc = ses[r].pc
                        /\ ses'[r].lockSet = ses[r].lockSet /\ ses'[r].st = ses[r].st
    BY <2>1 DEF TypeOK, Session
  <2>3. UNCHANGED <<nextXid, lastEvent>>
    BY <1>8 DEF AdvisoryLock, histVars
  <2> QED  BY <2>2, <2>3, EventFrame
<1>9. ASSUME NEW s \in Sess, SelectForUpdate(s) PROVE EventInv'
  <2>0. lastEvent' = lastEvent /\ nextXid' \in {nextXid, nextXid + 1}
    BY <1>9 DEF SelectForUpdate, histVars
  <2>1. CASE ses' = [ses EXCEPT ![s] = IdleSession]
    <3>1. \A r \in Sess : ses'[r] = IF r = s THEN IdleSession ELSE ses[r]
      BY <2>1 DEF TypeOK
    <3>2. \A r \in Sess : ses'[r].xid < nextXid'
      <4>1. \A r \in Sess : ses[r].xid \in Nat /\ ses[r].xid < nextXid
        BY DEF EventInv, TypeOK, Session
      <4>2. nextXid \in Nat \ {0}
        BY DEF TypeOK
      <4> QED  BY <1>a, <2>0, <3>1, <4>1, <4>2
    <3>3. \A d \in Docs : lastEvent'[d] < nextXid'
      BY <2>0 DEF EventInv, TypeOK
    <3>4. \A r \in Sess : ses'[r].pc = "commit" /\ Dirty(r)' # {} => ses'[r].xid # 0
      BY <1>a, <3>1 DEF EventInv, Dirty
    <3> QED  BY <1>a, <2>0, <3>1, <3>2, <3>3, <3>4 DEF EventInv
  <2>2. CASE ses' # [ses EXCEPT ![s] = IdleSession]
    <3>1. PICK x, ex, st :
             /\ x = 0 \/ (x = nextXid /\ nextXid' = nextXid + 1)
             /\ ses' = [ses EXCEPT ![s] = [ses[s] EXCEPT !.pc = "apply", !.xid = x,
                                             !.existing = ex, !.st = st]]
      BY <1>9, <2>2 DEF SelectForUpdate
    <3> DEFINE new == [ses[s] EXCEPT !.pc = "apply", !.xid = x, !.existing = ex, !.st = st]
    <3>2. \A r \in Sess : ses'[r] = IF r = s THEN new ELSE ses[r]
      BY <3>1 DEF TypeOK
    <3>3. new.pc = "apply" /\ new.xid = x /\ new.lockSet = ses[s].lockSet
      BY DEF TypeOK, Session
    <3> HIDE DEF new
    <3>4. \A d \in Docs : lastEvent'[d] < nextXid'
      BY <2>0 DEF EventInv, TypeOK
    <3>5. \A r \in Sess : ses'[r].xid < nextXid'
      BY <2>0, <3>1, <3>2, <3>3 DEF EventInv, TypeOK, Session
    <3>6. x # 0 => \A d \in ses[s].lockSet : lastEvent[d] < x
      BY <3>1 DEF EventInv, TypeOK, Session
    <3>7. \A r \in Sess : ses'[r].pc \in {"apply", "commit"} /\ ses'[r].xid # 0 =>
             \A d \in ses'[r].lockSet : lastEvent'[d] < ses'[r].xid
      BY <2>0, <3>2, <3>3, <3>6 DEF EventInv
    <3>8. \A r \in Sess : ses'[r].pc = "commit" /\ Dirty(r)' # {} => ses'[r].xid # 0
      BY <3>2, <3>3 DEF EventInv, Dirty
    <3> QED  BY <3>4, <3>5, <3>7, <3>8 DEF EventInv
  <2> QED  BY <2>1, <2>2
<1>10. ASSUME NEW s \in Sess, ApplyWrite(s) PROVE EventInv'
  <2> DEFINE w == ses[s].req[ses[s].i]
             new == AfterWrite(ses[s], w)
  <2>1. UNCHANGED <<nextXid, lastEvent>> /\ ses[s].pc = "apply"
    BY <1>10 DEF ApplyWrite, histVars
  <2>2. CASE ses' = [ses EXCEPT ![s] = IdleSession]
    BY <1>b, <2>1, <2>2
  <2>3. CASE ses' = [ses EXCEPT ![s] = new]
    <3>1. \A r \in Sess : ses'[r] = IF r = s THEN new ELSE ses[r]
      BY <2>3 DEF TypeOK
    <3>2. new.xid = ses[s].xid /\ new.pc = ses[s].pc /\ new.lockSet = ses[s].lockSet
      BY DEF AfterWrite, TypeOK, Session
    <3> HIDE DEF new
    <3> QED  BY <2>1, <3>1, <3>2, EventFrame
  <2> QED  BY <1>10, <2>2, <2>3 DEF ApplyWrite
<1>11. ASSUME NEW s \in Sess, Persist(s) PROVE EventInv'
  <2>0. lastEvent' = lastEvent /\ nextXid' \in {nextXid, nextXid + 1} /\ ses[s].pc = "apply"
    BY <1>11 DEF Persist, histVars
  <2>1. PICK x : /\ \/ x = ses[s].xid /\ (x # 0 \/ Dirty(s) = {})
                    \/ x = nextXid /\ nextXid' = nextXid + 1
                 /\ ses' = [ses EXCEPT ![s].pc = "commit", ![s].xid = x]
    BY <1>11 DEF Persist
  <2> DEFINE new == [ses[s] EXCEPT !.pc = "commit", !.xid = x]
  <2>2. \A r \in Sess : ses'[r] = IF r = s THEN new ELSE ses[r]
    BY <2>1 DEF TypeOK
  <2>3. new.pc = "commit" /\ new.xid = x /\ new.lockSet = ses[s].lockSet /\ new.st = ses[s].st
    BY DEF TypeOK, Session
  <2> HIDE DEF new
  <2>4. \A d \in Docs : lastEvent'[d] < nextXid'
    BY <2>0 DEF EventInv, TypeOK
  <2>5. \A r \in Sess : ses'[r].xid < nextXid'
    BY <2>0, <2>1, <2>2, <2>3 DEF EventInv, TypeOK, Session
  <2>6. x # 0 => \A d \in ses[s].lockSet : lastEvent[d] < x
    BY <2>0, <2>1 DEF EventInv, TypeOK, Session
  <2>7. \A r \in Sess : ses'[r].pc \in {"apply", "commit"} /\ ses'[r].xid # 0 =>
           \A d \in ses'[r].lockSet : lastEvent'[d] < ses'[r].xid
    BY <2>0, <2>2, <2>3, <2>6 DEF EventInv
  <2>8. x # 0 \/ Dirty(s) = {}
    BY <2>1 DEF TypeOK
  <2>9. \A r \in Sess : ses'[r].pc = "commit" /\ Dirty(r)' # {} => ses'[r].xid # 0
    BY <2>2, <2>3, <2>8 DEF EventInv, Dirty
  <2> QED  BY <2>4, <2>5, <2>7, <2>9 DEF EventInv
<1>12. ASSUME NEW s \in Sess, CommitTx(s) PROVE EventInv'
  <2>0. nextXid' = nextXid /\ ses[s].pc = "commit"
    BY <1>12 DEF CommitTx
  <2>1. \A r \in Sess : ses'[r] = IF r = s THEN IdleSession ELSE ses[r]
    BY <1>12 DEF CommitTx, TypeOK
  <2>2. \A d \in Docs : lastEvent'[d] = IF d \in Dirty(s) THEN ses[s].xid ELSE lastEvent[d]
    BY <1>12 DEF CommitTx
  <2>3. \A d \in Docs : lastEvent'[d] < nextXid'
    BY <2>0, <2>2 DEF EventInv
  <2>4. \A r \in Sess : ses'[r].xid < nextXid'
    BY <1>a, <2>0, <2>1 DEF EventInv, TypeOK
  <2>5. ASSUME NEW r \in Sess, ses'[r].pc \in {"apply", "commit"}, ses'[r].xid # 0,
               NEW d \in ses'[r].lockSet
        PROVE  lastEvent'[d] < ses'[r].xid
    <3>1. r # s /\ ses'[r] = ses[r] /\ d \in Docs
      BY <1>a, <2>1, <2>5 DEF TypeOK, Session
    <3>2. ses[s].todo = {} /\ ses[r].todo = {}
      BY <2>0, <2>5, <3>1 DEF LockInv, Locked
    <3>3. d \notin Dirty(s)
      BY <2>5, <3>1, <3>2, DisjointLockSets, DirtyLocked
    <3> QED  BY <2>2, <2>5, <3>1, <3>3 DEF EventInv
  <2>6. \A r \in Sess : ses'[r].pc = "commit" /\ Dirty(r)' # {} => ses'[r].xid # 0
    BY <1>a, <2>1 DEF EventInv, Dirty
  <2> QED  BY <2>3, <2>4, <2>5, <2>6 DEF EventInv
<1>13. ASSUME NEW s \in Sess, Rollback(s) PROVE EventInv'
  BY <1>13, <1>b DEF Rollback, histVars
<1>14. ASSUME NEW s \in Sess, Upsert(s) PROVE EventInv'
  BY <1>14, <1>c DEF Upsert, histVars
<1> QED  BY <1>0, <1>1, <1>2, <1>3, <1>4, <1>5, <1>6, <1>7, <1>8, <1>9, <1>10,
            <1>11, <1>12, <1>13, <1>14 DEF Next, Step

\* A commit past its locks has a transaction id later than the last event of
\* every document it has locked (applyCommit appends them under its locks).
THEOREM EventsInvariant == Spec => [](TypeOK /\ LockInv /\ EventInv)
BY TypeInit, TypeNext, LockInit, LockNext, EventInit, EventNext, PTL DEF Spec

\* The change events of a document carry growing transaction ids, in the order
\* the changes committed, for every set of concurrent commits.
THEOREM EventsInCommitOrderHolds == Spec => EventsInCommitOrder
<1>1. ASSUME TypeOK, LockInv, EventInv, [Next]_vars
      PROVE  [\A d \in Docs : lastEvent'[d] # lastEvent[d] =>
                                   lastEvent'[d] > lastEvent[d]]_vars
  <2>1. CASE \E s \in Sess : CommitTx(s)
    <3>1. PICK s \in Sess : CommitTx(s)
      BY <2>1
    <3>2. ASSUME NEW d \in Docs, lastEvent'[d] # lastEvent[d]
          PROVE  lastEvent'[d] > lastEvent[d]
      <4>1. d \in Dirty(s) /\ lastEvent'[d] = ses[s].xid /\ ses[s].pc = "commit"
        BY <3>1, <3>2 DEF CommitTx
      <4>2. d \in ses[s].lockSet /\ ses[s].xid # 0
        BY <1>1, <4>1, DirtyLocked DEF EventInv
      <4>3. lastEvent[d] < ses[s].xid
        BY <1>1, <4>1, <4>2 DEF EventInv
      <4> QED  BY <1>1, <4>1, <4>3 DEF TypeOK, Session
    <3> QED  BY <3>2
  <2>2. CASE ~\E s \in Sess : CommitTx(s)
    <3>1. lastEvent' = lastEvent
      BY <1>1, <2>2 DEF Next, Step, vars, histVars, Tick, Restart, BeginTxn, RollbackTxn,
         GetDocuments, RecordTxnReads, StartCommit, AdvisoryLock, SelectForUpdate,
         ApplyWrite, Persist, Upsert, Rollback
    <3> QED  BY <3>1
  <2> QED  BY <2>1, <2>2
<1> QED  BY <1>1, EventsInvariant, PTL DEF Spec, EventsInCommitOrder
=============================================================================
