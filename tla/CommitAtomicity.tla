-------------------------- MODULE CommitAtomicity ---------------------------
(***************************************************************************)
(* Proofs that commits are what clients take them for: applied once, free  *)
(* of deadlock, serializable, and each of them one step of AtomicStore.    *)
(***************************************************************************)
EXTENDS CommitProtocolProofs, FiniteSetTheorems, WellFoundedInduction

(***************************************************************************)
(* What each step does to the sessions, field by field.                    *)
(***************************************************************************)

Others(s) == \A r \in Sess : r # s => ses'[r] = ses[r]

\* The fields that never change while a commit is under way.
SameCommit(c, b) ==
    c.txn = b.txn /\ c.req = b.req /\ c.lockSet = b.lockSet /\ c.ctime = b.ctime

LEMMA IdleFields ==
    /\ IdleSession.pc = "idle" /\ IdleSession.txn = NoTxn /\ IdleSession.req = <<>>
    /\ IdleSession.i = 1 /\ IdleSession.lockSet = {} /\ IdleSession.todo = {}
    /\ IdleSession.held = {} /\ IdleSession.ctime = 0 /\ IdleSession.xid = 0
    /\ \A d \in Docs : IdleSession.st[d] = Untouched
    /\ \A d \in Docs : IdleSession.existing[d] = Missing
BY DEF IdleSession

LEMMA StartFields ==
    ASSUME TypeOK, NEW s \in Sess, NEW t, NEW ws, StartCommit(s, t, ws)
    PROVE  /\ Others(s) /\ ses[s].pc = "idle" /\ ses'[s].pc = "lock"
           /\ ses'[s].txn = t /\ ses'[s].req = ws /\ ses'[s].i = 1
           /\ ses'[s].lockSet = Targets(ws) \cup ReadSet(t)
           /\ ses'[s].todo = Targets(ws) \cup ReadSet(t)
           /\ ses'[s].held = {} /\ ses'[s].ctime = clock /\ ses'[s].xid = 0
           /\ \A d \in Docs : ses'[s].st[d] = Untouched
BY DEF StartCommit, TypeOK, Others, IdleSession

LEMMA StartRegistry ==
    ASSUME NEW s, NEW t, NEW ws, StartCommit(s, t, ws)
    PROVE  /\ UNCHANGED <<store, begun, reads, created, inflight, nextXid>>
           /\ UNCHANGED <<seen, lastEvent, hist>>
           /\ t = NoTxn \/ (t \in live /\ t \notin live')
           /\ clock' = (IF DistinctTimes THEN clock + 1 ELSE clock)
           /\ started' = started + 1 /\ started < MaxStarts
           /\ DistinctTimes => clock < MaxClock
<1>1. IF t = NoTxn THEN live' = live ELSE t \in live /\ live' = live \ {t}
  BY Zenon DEF StartCommit
<1>2. t = NoTxn \/ (t \in live /\ t \notin live')
  BY <1>1
<1> QED  BY <1>2, Zenon DEF StartCommit, histVars

LEMMA LockFields ==
    ASSUME TypeOK, NEW s \in Sess, AdvisoryLock(s)
    PROVE  /\ Others(s) /\ SameCommit(ses'[s], ses[s])
           /\ ses[s].pc = "lock" /\ ses'[s].pc = "lock"
           /\ ses'[s].i = ses[s].i /\ ses'[s].xid = ses[s].xid
           /\ ses'[s].st = ses[s].st /\ ses'[s].existing = ses[s].existing
           /\ \E d \in ses[s].todo :
                 /\ IsNext(s, d) /\ LockFree(s, HashText[d])
                 /\ ses'[s].todo = ses[s].todo \ {d}
                 /\ ses'[s].held = ses[s].held \cup {HashText[d]}
<1>1. PICK d \in ses[s].todo :
         /\ IsNext(s, d) /\ LockFree(s, HashText[d])
         /\ ses' = [ses EXCEPT ![s].todo = @ \ {d}, ![s].held = @ \cup {HashText[d]}]
  BY DEF AdvisoryLock
<1>2. ses[s] \in Session /\ ses[s].pc = "lock"
  BY DEF TypeOK, AdvisoryLock
<1> DEFINE new == [ses[s] EXCEPT !.todo = @ \ {d}, !.held = @ \cup {HashText[d]}]
<1>3. ses'[s] = new
  BY <1>1 DEF TypeOK
<1>4. Others(s)
  BY <1>1 DEF TypeOK, Others
<1>5. /\ new.pc = "lock" /\ new.i = ses[s].i /\ new.xid = ses[s].xid
      /\ new.st = ses[s].st /\ new.existing = ses[s].existing
      /\ new.todo = ses[s].todo \ {d} /\ new.held = ses[s].held \cup {HashText[d]}
      /\ SameCommit(new, ses[s])
  BY <1>2 DEF Session, SameCommit
<1> HIDE DEF new
<1> QED  BY <1>1, <1>2, <1>3, <1>4, <1>5

\* The session goes on with what it found, or ends.
LEMMA SelectFields ==
    ASSUME TypeOK, NEW s \in Sess, SelectForUpdate(s)
    PROVE  /\ Others(s) /\ ses[s].pc = "lock" /\ ses[s].todo = {}
           /\ \/ ses'[s] = IdleSession /\ nextXid' \in {nextXid, nextXid + 1}
              \/ /\ SameCommit(ses'[s], ses[s]) /\ ses'[s].pc = "apply"
                 /\ Unchanged(ses[s].txn)
                 /\ ses'[s].i = ses[s].i /\ ses'[s].todo = {} /\ ses'[s].held = ses[s].held
                 /\ \/ ses'[s].xid = 0 /\ nextXid' = nextXid
                    \/ ses'[s].xid = nextXid /\ nextXid' = nextXid + 1
                 /\ \A d \in Docs : ses'[s].existing[d] =
                       IF d \in ses[s].lockSet THEN store[d] ELSE Missing
                 /\ \A d \in Docs : ses'[s].st[d] =
                       IF d \in Targets(ses[s].req)
                       THEN [ex |-> store[d].ex, ct |-> store[d].ct,
                             ut |-> store[d].ut, dirty |-> FALSE]
                       ELSE Untouched
<1> DEFINE ex == [d \in Docs |-> IF d \in ses[s].lockSet THEN store[d] ELSE Missing]
           st == [d \in Docs |-> IF d \in Targets(ses[s].req)
                                 THEN [ex |-> store[d].ex, ct |-> store[d].ct,
                                       ut |-> store[d].ut, dirty |-> FALSE]
                                 ELSE Untouched]
           new(x) == [ses[s] EXCEPT !.pc = "apply", !.xid = x, !.existing = ex, !.st = st]
<1>1. ses[s] \in Session /\ ses[s].pc = "lock" /\ ses[s].todo = {}
  BY DEF TypeOK, SelectForUpdate
<1>2. PICK x : /\ \/ x = 0 /\ nextXid' = nextXid
                  \/ x = nextXid /\ nextXid' = nextXid + 1
               /\ ses' = [ses EXCEPT ![s] = IF Unchanged(ses[s].txn) THEN new(x)
                                            ELSE IdleSession]
  BY DEF SelectForUpdate
<1>3. Others(s) /\ ses'[s] = IF Unchanged(ses[s].txn) THEN new(x) ELSE IdleSession
  BY <1>2 DEF TypeOK, Others
<1>4. /\ new(x).pc = "apply" /\ new(x).xid = x /\ new(x).existing = ex /\ new(x).st = st
      /\ new(x).i = ses[s].i /\ new(x).todo = {} /\ new(x).held = ses[s].held
      /\ SameCommit(new(x), ses[s])
  BY <1>1 DEF Session, SameCommit
<1>5. \A d \in Docs : /\ ex[d] = IF d \in ses[s].lockSet THEN store[d] ELSE Missing
                      /\ st[d] = IF d \in Targets(ses[s].req)
                                 THEN [ex |-> store[d].ex, ct |-> store[d].ct,
                                       ut |-> store[d].ut, dirty |-> FALSE]
                                 ELSE Untouched
  OBVIOUS
<1> HIDE DEF ex, st, new
<1> QED  BY <1>1, <1>2, <1>3, <1>4, <1>5

LEMMA ApplyFields ==
    ASSUME TypeOK, NEW s \in Sess, ApplyWrite(s)
    PROVE  /\ Others(s) /\ ses[s].pc = "apply" /\ ses[s].i \in 1..Len(ses[s].req)
           /\ \/ ses'[s] = IdleSession
              \/ LET w == ses[s].req[ses[s].i]
                 IN  /\ SameCommit(ses'[s], ses[s]) /\ ses'[s].pc = "apply"
                     /\ PreconditionHolds(ses[s].st[w.doc], w)
                     /\ w \in Write
                     /\ ses'[s].i = ses[s].i + 1 /\ ses'[s].xid = ses[s].xid
                     /\ ses'[s].todo = ses[s].todo /\ ses'[s].held = ses[s].held
                     /\ ses'[s].existing = ses[s].existing
                     /\ \A d \in Docs : ses'[s].st[d] =
                           IF d = w.doc THEN Applied(ses[s].st[d], w, ses[s].ctime)
                           ELSE ses[s].st[d]
<1> DEFINE w == ses[s].req[ses[s].i]
           f == [ses[s].st EXCEPT ![w.doc] = Applied(ses[s].st[w.doc], w, ses[s].ctime)]
           new == [ses[s] EXCEPT !.i = ses[s].i + 1, !.st = f]
<1>1. ses[s] \in Session /\ ses[s].req \in Seq(Write) /\ ses[s].i \in Nat \ {0}
  BY DEF TypeOK, Session
<1>2. ses[s].pc = "apply" /\ ses[s].i \in 1..Len(ses[s].req)
  BY <1>1 DEF ApplyWrite
<1>3. w \in Write /\ w.doc \in Docs
  <2>1. w \in Write
    BY <1>1, <1>2
  <2> QED  BY <2>1 DEF Write
<1>4. ses' = [ses EXCEPT ![s] = IF PreconditionHolds(ses[s].st[w.doc], w)
                                THEN new ELSE IdleSession]
  BY DEF ApplyWrite, AfterWrite
<1>5. Others(s) /\ ses'[s] = IF PreconditionHolds(ses[s].st[w.doc], w)
                             THEN new ELSE IdleSession
  BY <1>4 DEF TypeOK, Others
<1>6. \A d \in Docs : f[d] = IF d = w.doc THEN Applied(ses[s].st[d], w, ses[s].ctime)
                             ELSE ses[s].st[d]
  BY <1>1, <1>3 DEF Session
<1> HIDE DEF f
<1>7. /\ new.pc = ses[s].pc /\ new.i = ses[s].i + 1 /\ new.st = f /\ new.xid = ses[s].xid
      /\ new.todo = ses[s].todo /\ new.held = ses[s].held
      /\ new.existing = ses[s].existing /\ SameCommit(new, ses[s])
  BY <1>1 DEF Session, SameCommit
<1> HIDE DEF new
<1> QED  BY <1>2, <1>3, <1>5, <1>6, <1>7

LEMMA PersistFields ==
    ASSUME TypeOK, NEW s \in Sess, Persist(s)
    PROVE  /\ Others(s) /\ ses[s].pc = "apply" /\ ses[s].i > Len(ses[s].req)
           /\ SameCommit(ses'[s], ses[s]) /\ ses'[s].pc = "commit"
           /\ ses'[s].i = ses[s].i /\ ses'[s].todo = ses[s].todo /\ ses'[s].held = ses[s].held
           /\ ses'[s].st = ses[s].st /\ ses'[s].existing = ses[s].existing
           /\ \/ ses'[s].xid = ses[s].xid /\ nextXid' = nextXid
              \/ ses[s].xid = 0 /\ ses'[s].xid = nextXid /\ nextXid' = nextXid + 1
<1>1. ses[s] \in Session /\ ses[s].pc = "apply" /\ ses[s].i > Len(ses[s].req)
  BY DEF TypeOK, Persist
<1>2. PICK x : /\ \/ x = ses[s].xid /\ nextXid' = nextXid
                  \/ ses[s].xid = 0 /\ x = nextXid /\ nextXid' = nextXid + 1
               /\ ses' = [ses EXCEPT ![s].pc = "commit", ![s].xid = x]
  BY DEF Persist
<1> DEFINE new == [ses[s] EXCEPT !.pc = "commit", !.xid = x]
<1>3. Others(s) /\ ses'[s] = new
  BY <1>2 DEF TypeOK, Others
<1>4. /\ new.pc = "commit" /\ new.xid = x /\ new.i = ses[s].i /\ new.todo = ses[s].todo
      /\ new.held = ses[s].held /\ new.st = ses[s].st /\ new.existing = ses[s].existing
      /\ SameCommit(new, ses[s])
  BY <1>1 DEF Session, SameCommit
<1> HIDE DEF new
<1> QED  BY <1>1, <1>2, <1>3, <1>4

LEMMA EndFields ==
    ASSUME TypeOK, NEW s \in Sess, CommitTx(s) \/ Rollback(s)
    PROVE  Others(s) /\ ses[s].pc # "idle" /\ ses'[s] = IdleSession
BY DEF CommitTx, Rollback, TypeOK, Others

\* Between its start and its commit a session keeps what it started with, or
\* ends.
LEMMA MiddleFields ==
    ASSUME TypeOK, NEW s \in Sess,
           \/ AdvisoryLock(s) \/ Rollback(s)
           \/ SelectForUpdate(s) \/ ApplyWrite(s) \/ Persist(s)
    PROVE  Others(s) /\ (SameCommit(ses'[s], ses[s]) \/ ses'[s] = IdleSession)
<1>1. CASE AdvisoryLock(s)
  BY <1>1, LockFields
<1>2. CASE Rollback(s)
  BY <1>2, EndFields
<1>3. CASE SelectForUpdate(s)
  BY <1>3, SelectFields
<1>4. CASE ApplyWrite(s)
  BY <1>4, ApplyFields
<1>5. CASE Persist(s)
  BY <1>5, PersistFields
<1> QED  BY <1>1, <1>2, <1>3, <1>4, <1>5

\* The clock and the transaction registry move, or a commit persists one more
\* document, without touching the rest ...
Registry == UNCHANGED <<store, ses, nextXid, started, lastEvent, hist>>

LEMMA StepKinds ==
    ASSUME [Next]_vars
    PROVE  \/ Registry
           \/ Restart
           \/ \E s \in Sess : \E t \in Txns \cup {NoTxn}, ws \in Requests : StartCommit(s, t, ws)
           \/ \E s \in Sess : AdvisoryLock(s) \/ Step(s) \/ Rollback(s)
BY DEF Next, vars, Registry, Tick, BeginTxn, RollbackTxn, GetDocuments, RecordTxnReads,
       Upsert, histVars

\* ... and only a transaction that was never begun comes to life.
LEMMA RegistryGrows ==
    ASSUME [Next]_vars
    PROVE  begun \subseteq begun' /\ live' \ live \subseteq begun' \ begun
BY DEF Next, Step, vars, regVars, Tick, Restart, BeginTxn, RollbackTxn, GetDocuments,
       RecordTxnReads, StartCommit, AdvisoryLock, SelectForUpdate, ApplyWrite, Persist,
       Upsert, CommitTx, Rollback

(***************************************************************************)
(* A transaction commits at most once.                                     *)
(***************************************************************************)

\* The transactions of sessions and of past commits have left the registry for
\* good, and no two of them are the same.
TxnInv ==
    /\ \A s \in Sess : ses[s].txn # NoTxn => ses[s].txn \in begun \ live
    /\ \A s, r \in Sess : s # r /\ ses[s].txn = ses[r].txn => ses[s].txn = NoTxn
    /\ \A c \in hist : c.txn # NoTxn =>
          c.txn \in begun \ live /\ \A s \in Sess : ses[s].txn # c.txn
    /\ AppliedAtMostOnce

LEMMA TxnInit == Init => TxnInv
<1> SUFFICES ASSUME Init PROVE TxnInv
  OBVIOUS
<1>1. \A s \in Sess : ses[s].txn = NoTxn
  BY IdleFields DEF Init
<1> QED  BY <1>1 DEF Init, TxnInv, AppliedAtMostOnce

LEMMA TxnNext == TypeOK /\ TxnInv /\ [Next]_vars => TxnInv'
<1> SUFFICES ASSUME TypeOK, TxnInv, [Next]_vars PROVE TxnInv'
  OBVIOUS
<1>1. begun \subseteq begun' /\ live' \ live \subseteq begun' \ begun
  BY RegistryGrows
<1>2. ASSUME hist' = hist, \A s \in Sess : ses'[s].txn \in {ses[s].txn, NoTxn}
      PROVE  TxnInv'
  BY <1>1, <1>2 DEF TxnInv, AppliedAtMostOnce
<1>3. CASE Registry
  BY <1>2, <1>3 DEF Registry
<1>4. CASE Restart
  BY <1>2, <1>4, IdleFields DEF Restart, histVars
<1>5. ASSUME NEW s \in Sess, NEW t \in Txns \cup {NoTxn}, NEW ws \in Requests,
             StartCommit(s, t, ws)
      PROVE  TxnInv'
  <2>1. Others(s) /\ ses'[s].txn = t
    BY <1>5, StartFields
  <2>2. hist' = hist /\ begun' = begun /\ (t = NoTxn \/ (t \in live /\ t \notin live'))
    BY <1>5, StartRegistry
  <2>3. t # NoTxn => t \in begun'
    BY <2>2 DEF TypeOK
  <2> QED  BY <1>1, <2>1, <2>2, <2>3 DEF TxnInv, AppliedAtMostOnce, Others
<1>6. ASSUME NEW s \in Sess, AdvisoryLock(s) \/ Rollback(s) \/ SelectForUpdate(s)
                              \/ ApplyWrite(s) \/ Persist(s)
      PROVE  TxnInv'
  <2>1. hist' = hist
    BY <1>6 DEF AdvisoryLock, Rollback, SelectForUpdate, ApplyWrite, Persist, histVars
  <2>2. Others(s) /\ (SameCommit(ses'[s], ses[s]) \/ ses'[s] = IdleSession)
    BY <1>6, MiddleFields
  <2> QED  BY <1>2, <2>1, <2>2, IdleFields DEF Others, SameCommit
<1>7. ASSUME NEW s \in Sess, CommitTx(s) PROVE TxnInv'
  <2>1. Others(s) /\ ses'[s].txn = NoTxn
    BY <1>7, EndFields, IdleFields
  <2>2. CommitRecord(s).txn = ses[s].txn
    BY DEF CommitRecord
  <2>3. hist' = hist \cup {CommitRecord(s)}
    BY <1>7 DEF CommitTx
  <2> QED  BY <1>1, <2>1, <2>2, <2>3 DEF TxnInv, AppliedAtMostOnce, Others
<1> QED  BY <1>3, <1>4, <1>5, <1>6, <1>7, StepKinds DEF Step

\* However often and however concurrently its Commit is sent, a transaction is
\* applied at most once (txnRegistry.take), across any number of restarts.
THEOREM AppliedAtMostOnceHolds == Spec => []AppliedAtMostOnce
<1>1. TypeOK /\ TxnInv => AppliedAtMostOnce
  BY DEF TxnInv
<1> QED  BY <1>1, TypeInit, TypeNext, TxnInit, TxnNext, PTL DEF Spec

(***************************************************************************)
(* A missing document is created once.                                     *)
(***************************************************************************)

\* Transaction ids are never shared, a document's last event has the id of the
\* last commit that created or deleted it, or a later one, and a document that
\* was created is there until a later commit deletes it.
HistInv ==
    /\ \A h \in hist : h.xid < nextXid
    /\ \A h \in hist : \A d \in h.del \cup h.create : h.xid <= lastEvent[d]
    /\ \A s \in Sess : ses[s].xid # 0 =>
          /\ \A h \in hist : h.xid # ses[s].xid
          /\ \A r \in Sess : r # s => ses[r].xid # ses[s].xid
    /\ \A h \in hist : \A d \in h.create :
          store[d].ex \/ \E g \in hist : g.xid > h.xid /\ d \in g.del
    /\ CreatedOnce

LEMMA HistInit == Init => HistInv
<1> SUFFICES ASSUME Init PROVE HistInv
  OBVIOUS
<1>1. \A s \in Sess : ses[s].xid = 0
  BY IdleFields DEF Init
<1> QED  BY <1>1 DEF Init, HistInv, CreatedOnce

\* The record of a commit, and what its tx.Commit leaves behind.
LEMMA CommitEffect ==
    ASSUME TypeOK, LockInv, EventInv, NEW s \in Sess, CommitTx(s)
    PROVE  /\ CommitRecord(s).xid = ses[s].xid /\ CommitRecord(s).txn = ses[s].txn
           /\ CommitRecord(s).req = ses[s].req
           /\ \A d \in Docs :
                /\ d \in CommitRecord(s).del <=> d \in Dirty(s) /\ ~ses[s].st[d].ex
                /\ d \in CommitRecord(s).create <=>
                       d \in Dirty(s) /\ ses[s].st[d].ex /\ ~store[d].ex
                /\ d \in Dirty(s) => ses[s].xid # 0 /\ lastEvent[d] < ses[s].xid
                /\ store'[d].ex = IF d \in Dirty(s) THEN ses[s].st[d].ex ELSE store[d].ex
                /\ lastEvent'[d] = IF d \in Dirty(s) THEN ses[s].xid ELSE lastEvent[d]
           /\ CommitRecord(s).del \subseteq Docs /\ CommitRecord(s).create \subseteq Docs
           /\ hist' = hist \cup {CommitRecord(s)} /\ nextXid' = nextXid
<1>1. ses[s].pc = "commit" /\ hist' = hist \cup {CommitRecord(s)} /\ nextXid' = nextXid
  BY DEF CommitTx
<1>2. \A d \in Dirty(s) : d \in Docs /\ d \in ses[s].lockSet /\ store[d] = ses[s].existing[d]
  BY <1>1, DirtyLocked DEF Dirty, LockInv, VerifiedStable
<1>3. \A d \in Dirty(s) : ses[s].xid # 0 /\ lastEvent[d] < ses[s].xid
  BY <1>1, <1>2 DEF EventInv
<1>4. ASSUME NEW d \in Docs
      PROVE  store'[d].ex = IF d \in Dirty(s) THEN ses[s].st[d].ex ELSE store[d].ex
  <2>1. store'[d] = IF d \in Dirty(s) THEN Persisted(s, d) ELSE store[d]
    BY DEF CommitTx
  <2>2. Persisted(s, d).ex = ses[s].st[d].ex
    <3>1. ses[s].st[d].ex \in BOOLEAN
      BY DEF TypeOK, Session, DocState
    <3>2. CASE ses[s].st[d].ex = TRUE
      BY <3>2 DEF Persisted
    <3>3. CASE ses[s].st[d].ex = FALSE
      BY <3>3 DEF Persisted, Missing
    <3> QED  BY <3>1, <3>2, <3>3
  <2> QED  BY <2>1, <2>2
<1>5. \A d \in Docs : lastEvent'[d] = IF d \in Dirty(s) THEN ses[s].xid ELSE lastEvent[d]
  BY DEF CommitTx
<1>6. \A d \in Docs :
         /\ d \in CommitRecord(s).del <=> d \in Dirty(s) /\ ~ses[s].st[d].ex
         /\ d \in CommitRecord(s).create <=>
                d \in Dirty(s) /\ ses[s].st[d].ex /\ ~ses[s].existing[d].ex
  BY DEF CommitRecord
<1>7. /\ CommitRecord(s).xid = ses[s].xid /\ CommitRecord(s).txn = ses[s].txn
      /\ CommitRecord(s).req = ses[s].req
      /\ CommitRecord(s).del \subseteq Docs /\ CommitRecord(s).create \subseteq Docs
  BY DEF CommitRecord, Dirty
<1> QED  BY <1>1, <1>2, <1>3, <1>4, <1>5, <1>6, <1>7

LEMMA HistNext == TypeOK /\ LockInv /\ EventInv /\ HistInv /\ [Next]_vars => HistInv'
<1> SUFFICES ASSUME TypeOK, LockInv, EventInv, HistInv, [Next]_vars PROVE HistInv'
  OBVIOUS
<1>a. /\ nextXid \in Nat /\ \A r \in Sess : ses[r].xid \in Nat /\ ses[r].xid < nextXid
      /\ \A h \in hist : h.xid \in Nat /\ h.del \subseteq Docs /\ h.create \subseteq Docs
      /\ \A d \in Docs : lastEvent[d] \in Nat
  BY DEF TypeOK, Session, Commits, EventInv
<1>1. ASSUME UNCHANGED <<hist, store, lastEvent>>, nextXid' \in {nextXid, nextXid + 1},
             \A s \in Sess : \/ ses'[s].xid \in {ses[s].xid, 0}
                             \/ /\ ses'[s].xid = nextXid /\ nextXid' = nextXid + 1
                                /\ \A r \in Sess : r # s => ses'[r].xid = ses[r].xid
      PROVE  HistInv'
  <2>1. \A h \in hist' : h.xid < nextXid'
    BY <1>a, <1>1 DEF HistInv
  <2>2. \A s \in Sess : ses'[s].xid # 0 =>
          /\ \A h \in hist' : h.xid # ses'[s].xid
          /\ \A r \in Sess : r # s => ses'[r].xid # ses'[s].xid
    BY <1>a, <1>1 DEF HistInv
  <2> QED  BY <1>1, <2>1, <2>2 DEF HistInv, CreatedOnce
<1>2. CASE Registry
  BY <1>1, <1>2 DEF Registry
<1>3. CASE Restart
  BY <1>1, <1>3, IdleFields DEF Restart, histVars
<1>4. ASSUME NEW s \in Sess, NEW t, NEW ws, StartCommit(s, t, ws) PROVE HistInv'
  BY <1>1, <1>4, StartFields, StartRegistry DEF Others
<1>5. ASSUME NEW s \in Sess, AdvisoryLock(s) \/ Rollback(s) \/ ApplyWrite(s) PROVE HistInv'
  <2>1. UNCHANGED <<hist, store, lastEvent, nextXid>>
    BY <1>5 DEF AdvisoryLock, Rollback, ApplyWrite, histVars
  <2>2. Others(s) /\ ses'[s].xid \in {ses[s].xid, 0}
    BY <1>5, LockFields, EndFields, ApplyFields, IdleFields
  <2> QED  BY <1>1, <2>1, <2>2 DEF Others
<1>6. ASSUME NEW s \in Sess, SelectForUpdate(s) PROVE HistInv'
  <2>1. UNCHANGED <<hist, store, lastEvent>>
    BY <1>6 DEF SelectForUpdate, histVars
  <2> QED  BY <1>1, <1>6, <2>1, SelectFields, IdleFields DEF Others
<1>7. ASSUME NEW s \in Sess, Persist(s) PROVE HistInv'
  <2>1. UNCHANGED <<hist, store, lastEvent>>
    BY <1>7 DEF Persist, histVars
  <2> QED  BY <1>1, <1>7, <2>1, PersistFields DEF Others
<1>8. ASSUME NEW s \in Sess, CommitTx(s) PROVE HistInv'
  <2> DEFINE new == CommitRecord(s)
             x == ses[s].xid
  <2>1. Others(s) /\ ses'[s].xid = 0
    BY <1>8, EndFields, IdleFields
  <2>2. /\ new.xid = x
        /\ \A d \in Docs :
             /\ d \in new.del <=> d \in Dirty(s) /\ ~ses[s].st[d].ex
             /\ d \in new.create <=> d \in Dirty(s) /\ ses[s].st[d].ex /\ ~store[d].ex
             /\ d \in Dirty(s) => x # 0 /\ lastEvent[d] < x
             /\ store'[d].ex = IF d \in Dirty(s) THEN ses[s].st[d].ex ELSE store[d].ex
             /\ lastEvent'[d] = IF d \in Dirty(s) THEN x ELSE lastEvent[d]
        /\ new.del \subseteq Docs /\ new.create \subseteq Docs
        /\ hist' = hist \cup {new} /\ nextXid' = nextXid
    BY <1>8, CommitEffect
  <2> HIDE DEF new
  <2>3. \A h \in hist' : h.xid < nextXid'
    BY <1>a, <2>2 DEF HistInv
  <2>4. \A h \in hist' : \A d \in h.del \cup h.create : h.xid <= lastEvent'[d]
    BY <1>a, <2>2 DEF HistInv
  <2>5. \A r \in Sess : ses'[r].xid # 0 =>
          /\ \A h \in hist' : h.xid # ses'[r].xid
          /\ \A q \in Sess : q # r => ses'[q].xid # ses'[r].xid
    BY <2>1, <2>2 DEF HistInv, Others
  <2>6. ASSUME NEW h \in hist', NEW d \in h.create
        PROVE  store'[d].ex \/ \E g \in hist' : g.xid > h.xid /\ d \in g.del
    <3>1. CASE h = new
      BY <2>2, <2>6, <3>1
    <3>2. CASE h # new /\ store[d].ex /\ ~store'[d].ex
      <4>1. h \in hist /\ d \in Docs /\ h.xid <= lastEvent[d]
        BY <1>a, <2>2, <2>6, <3>2 DEF HistInv
      <4>2. d \in new.del /\ lastEvent[d] < new.xid
        BY <2>2, <3>2, <4>1
      <4> QED  BY <1>a, <2>2, <4>1, <4>2
    <3>3. CASE h # new /\ ~store[d].ex
      BY <2>2, <2>6, <3>3 DEF HistInv
    <3> QED  BY <3>1, <3>2, <3>3
  <2>7. CreatedOnce'
    <3>1. ASSUME NEW c1 \in hist', NEW c2 \in hist', NEW d \in c1.create \cap c2.create,
                 c1.xid < c2.xid
          PROVE  \E g \in hist' : c1.xid < g.xid /\ g.xid < c2.xid /\ d \in g.del
      <4>1. CASE c1 \in hist /\ c2 \in hist
        BY <2>2, <3>1, <4>1 DEF HistInv, CreatedOnce
      <4>2. CASE c2 = new /\ c1 # new
        <5>1. c1 \in hist /\ d \in Docs /\ ~store[d].ex /\ lastEvent[d] < x
          BY <1>a, <2>2, <3>1, <4>2
        <5>2. PICK g \in hist : g.xid > c1.xid /\ d \in g.del
          BY <3>1, <5>1 DEF HistInv
        <5>3. g.xid <= lastEvent[d]
          BY <5>2 DEF HistInv
        <5> QED  BY <1>a, <2>2, <4>2, <5>1, <5>2, <5>3
      <4>3. CASE c1 = new /\ c2 # new
        <5>1. c2 \in hist /\ d \in Docs /\ lastEvent[d] < x
          BY <1>a, <2>2, <3>1, <4>3
        <5>2. c2.xid <= lastEvent[d]
          BY <3>1, <5>1 DEF HistInv
        <5> QED  BY <1>a, <2>2, <3>1, <4>3, <5>1, <5>2
      <4>4. CASE c1 = new /\ c2 = new
        BY <1>a, <2>2, <3>1, <4>4
      <4> QED  BY <2>2, <4>1, <4>2, <4>3, <4>4
    <3> QED  BY <3>1 DEF CreatedOnce
  <2> QED  BY <2>3, <2>4, <2>5, <2>6, <2>7 DEF HistInv
<1> QED  BY <1>2, <1>3, <1>4, <1>5, <1>6, <1>7, <1>8, StepKinds DEF Step

\* The locks, the events, the registry of transactions and the history of
\* applied commits keep their invariants together (applyCommit, CommitTxn).
THEOREM HistoryInvariant == Spec => [](TypeOK /\ LockInv /\ EventInv /\ TxnInv /\ HistInv)
BY EventsInvariant, TxnInit, TxnNext, HistInit, HistNext, PTL DEF Spec

\* Two commits that both found a document missing and created it are separated
\* by one that deleted it, whatever the hash function: the advisory locks close
\* the gap that FOR UPDATE leaves for rows that are not there.
THEOREM CreatedOnceHolds == Spec => []CreatedOnce
BY HistoryInvariant, PTL DEF HistInv

(***************************************************************************)
(* Deadlock.                                                               *)
(***************************************************************************)

\* A session holds the keys of the names it has passed, and these come before
\* all it has still to lock.
OrderInv ==
    \A s \in Sess :
       /\ \A d \in ses[s].lockSet \ ses[s].todo, e \in ses[s].todo : Rank[d] < Rank[e]
       /\ ses[s].held \subseteq {HashText[d] : d \in ses[s].lockSet \ ses[s].todo}

LEMMA OrderInit == Init => OrderInv
BY IdleFields DEF Init, OrderInv

LEMMA OrderNext == TypeOK /\ LockInv /\ OrderInv /\ [Next]_vars => OrderInv'
<1> SUFFICES ASSUME TypeOK, LockInv, OrderInv, [Next]_vars PROVE OrderInv'
  OBVIOUS
<1>1. ASSUME NEW s \in Sess, Others(s),
             \/ ses'[s] = IdleSession
             \/ /\ ses'[s].lockSet = ses[s].lockSet /\ ses'[s].todo = ses[s].todo
                /\ ses'[s].held = ses[s].held
      PROVE  OrderInv'
  BY <1>1, IdleFields DEF OrderInv, Others
<1>2. CASE Registry
  BY <1>2 DEF Registry, OrderInv
<1>3. CASE Restart
  BY <1>3, IdleFields DEF Restart, OrderInv
<1>4. ASSUME NEW s \in Sess, NEW t, NEW ws, StartCommit(s, t, ws) PROVE OrderInv'
  BY <1>4, StartFields DEF OrderInv, Others
<1>5. ASSUME NEW s \in Sess, AdvisoryLock(s) PROVE OrderInv'
  <2>1. /\ Others(s) /\ ses'[s].lockSet = ses[s].lockSet
        /\ \E d \in ses[s].todo :
              /\ IsNext(s, d)
              /\ ses'[s].todo = ses[s].todo \ {d}
              /\ ses'[s].held = ses[s].held \cup {HashText[d]}
    BY <1>5, LockFields DEF SameCommit
  <2>2. PICK d \in ses[s].todo :
              /\ IsNext(s, d)
              /\ ses'[s].todo = ses[s].todo \ {d}
              /\ ses'[s].held = ses[s].held \cup {HashText[d]}
    BY <2>1
  <2>3. ses[s].todo \subseteq ses[s].lockSet /\ ses[s].lockSet \subseteq Docs
    BY DEF LockInv, Locked, TypeOK, Session
  <2>4. \A e \in ses[s].todo \ {d} : Rank[d] < Rank[e]
    BY <2>2, <2>3, RankAssumption DEF IsNext
  <2>5. ses'[s].lockSet \ ses'[s].todo = (ses[s].lockSet \ ses[s].todo) \cup {d}
    BY <2>1, <2>2, <2>3
  <2>6. \A e \in ses'[s].lockSet \ ses'[s].todo, f \in ses'[s].todo : Rank[e] < Rank[f]
    BY <2>2, <2>4, <2>5 DEF OrderInv
  <2>7. ses'[s].held \subseteq {HashText[e] : e \in ses'[s].lockSet \ ses'[s].todo}
    BY <2>2, <2>5 DEF OrderInv
  <2> QED  BY <2>1, <2>6, <2>7 DEF OrderInv, Others
<1>6. ASSUME NEW s \in Sess, SelectForUpdate(s) PROVE OrderInv'
  <2>1. Others(s) /\ ses[s].todo = {} /\
        \/ ses'[s] = IdleSession
        \/ ses'[s].lockSet = ses[s].lockSet /\ ses'[s].todo = {} /\ ses'[s].held = ses[s].held
    BY <1>6, SelectFields DEF SameCommit
  <2> QED  BY <1>1, <2>1
<1>7. ASSUME NEW s \in Sess, ApplyWrite(s) PROVE OrderInv'
  BY <1>1, <1>7, ApplyFields DEF SameCommit
<1>8. ASSUME NEW s \in Sess, Persist(s) PROVE OrderInv'
  BY <1>1, <1>8, PersistFields DEF SameCommit
<1>9. ASSUME NEW s \in Sess, CommitTx(s) \/ Rollback(s) PROVE OrderInv'
  BY <1>1, <1>9, EndFields
<1> QED  BY <1>2, <1>3, <1>4, <1>5, <1>6, <1>7, <1>8, <1>9, StepKinds DEF Step

\* The rows a session has inserted come from documents that its persist loop has
\* passed, which come before all it has still to persist; a row has one inserter.
LoopInv ==
    /\ \A s \in Sess :
          /\ ses[s].pc # "commit" => loop[s] = NoLoop
          /\ \A d \in loop[s].done, e \in Dirty(s) \ loop[s].done : Rank[d] < Rank[e]
          /\ \A c \in loop[s].rows :
                \E d \in loop[s].done \cap Dirty(s) : CollectionOf[d] = c
    /\ \A s, r \in Sess : s # r => loop[s].rows \cap loop[r].rows = {}

LEMMA LoopInit == Init => LoopInv
BY DEF Init, LoopInv, NoLoop

\* A session whose loop is not begun, or is given up.
LEMMA LoopNone ==
    ASSUME TypeOK, LoopInv, NEW s \in Sess, Others(s),
           loop' = [loop EXCEPT ![s] = NoLoop]
    PROVE  LoopInv'
<1>1. \A r \in Sess : loop'[r] = IF r = s THEN NoLoop ELSE loop[r]
  BY DEF TypeOK
<1>2. \A r \in Sess \ {s} : ses'[r] = ses[r] /\ Dirty(r)' = Dirty(r)
  BY DEF Others, Dirty
<1> QED  BY <1>1, <1>2 DEF LoopInv, NoLoop

LEMMA LoopNext == TypeOK /\ LoopInv /\ [Next]_vars => LoopInv'
<1> SUFFICES ASSUME TypeOK, LoopInv, [Next]_vars PROVE LoopInv'
  OBVIOUS
<1>1. ASSUME UNCHANGED <<ses, loop>> PROVE LoopInv'
  BY <1>1 DEF LoopInv, Dirty
<1>2. CASE UNCHANGED vars \/ Tick \/ \E r \in inflight : RecordTxnReads(r)
  BY <1>1, <1>2 DEF vars, Tick, RecordTxnReads, collVars
<1>3. ASSUME NEW t \in Txns, \/ BeginTxn(t) \/ RollbackTxn(t)
                             \/ \E D \in (SUBSET Docs) \ {{}} : GetDocuments(t, D)
      PROVE  LoopInv'
  BY <1>1, <1>3 DEF BeginTxn, RollbackTxn, GetDocuments, collVars
<1>4. CASE Restart
  BY <1>4 DEF Restart, LoopInv, NoLoop
<1>5. ASSUME NEW s \in Sess, ses[s].pc # "commit", Others(s), loop' = loop
      PROVE  LoopInv'
  <2>1. loop' = [loop EXCEPT ![s] = NoLoop]
    BY <1>5 DEF LoopInv, TypeOK
  <2> QED  BY <1>5, <2>1, LoopNone
<1>6. ASSUME NEW s \in Sess, NEW t \in Txns \cup {NoTxn}, NEW ws \in Requests,
             StartCommit(s, t, ws)
      PROVE  LoopInv'
  <2>1. Others(s) /\ ses[s].pc # "commit" /\ loop' = loop
    BY <1>6, StartFields DEF StartCommit, collVars
  <2> QED  BY <1>5, <2>1
<1>7. ASSUME NEW s \in Sess, AdvisoryLock(s) \/ SelectForUpdate(s) \/ ApplyWrite(s)
                              \/ Persist(s)
      PROVE  LoopInv'
  <2>1. Others(s)
    BY <1>7, MiddleFields
  <2>2. ses[s].pc # "commit" /\ loop' = loop
    BY <1>7 DEF AdvisoryLock, SelectForUpdate, ApplyWrite, Persist, collVars
  <2> QED  BY <1>5, <2>1, <2>2
<1>8. ASSUME NEW s \in Sess, CommitTx(s) \/ Rollback(s) PROVE LoopInv'
  <2>1. Others(s)
    BY <1>8, EndFields
  <2>2. loop' = [loop EXCEPT ![s] = NoLoop]
    BY <1>8 DEF CommitTx, Rollback
  <2> QED  BY <2>1, <2>2, LoopNone
<1>9. ASSUME NEW s \in Sess, Upsert(s) PROVE LoopInv'
  <2>1. PICK d \in Docs :
           /\ IsNextTarget(s, d)
           /\ ses[s].st[d].ex => RowFree(s, CollectionOf[d])
           /\ loop' = [loop EXCEPT ![s] =
                [done |-> @.done \cup {d},
                 rows |-> IF ses[s].st[d].ex
                          THEN @.rows \cup ({CollectionOf[d]} \ collections) ELSE @.rows]]
    BY <1>9 DEF Upsert
  <2>2. /\ \A r \in Sess \ {s} : loop'[r] = loop[r]
        /\ loop'[s].done = loop[s].done \cup {d}
        /\ loop'[s].rows \subseteq loop[s].rows \cup {CollectionOf[d]}
        /\ CollectionOf[d] \in loop'[s].rows =>
              CollectionOf[d] \in loop[s].rows \/ RowFree(s, CollectionOf[d])
    BY <2>1 DEF TypeOK
  <2>3. ses' = ses /\ ses[s].pc = "commit" /\ \A r \in Sess : Dirty(r)' = Dirty(r)
    BY <1>9 DEF Upsert, Dirty
  <2>4. d \in Dirty(s) \ loop[s].done /\ \A e \in Dirty(s) \ loop[s].done : Rank[d] <= Rank[e]
    BY <2>1 DEF IsNextTarget
  <2>5. \A e \in Dirty(s) \ (loop[s].done \cup {d}) : Rank[d] < Rank[e]
    BY <2>4, RankAssumption DEF Dirty
  <2>6. \A x \in loop'[s].done, e \in Dirty(s) \ loop'[s].done : Rank[x] < Rank[e]
    BY <2>2, <2>5 DEF LoopInv
  <2>7. \A c \in loop'[s].rows : \E x \in loop'[s].done \cap Dirty(s) : CollectionOf[x] = c
    BY <2>2, <2>4 DEF LoopInv
  <2>8. \A r \in Sess \ {s} : loop'[s].rows \cap loop[r].rows = {}
    BY <2>2 DEF LoopInv, RowFree
  <2>9. \A r \in Sess :
           /\ ses'[r].pc # "commit" => loop'[r] = NoLoop
           /\ \A x \in loop'[r].done, e \in Dirty(r)' \ loop'[r].done : Rank[x] < Rank[e]
           /\ \A c \in loop'[r].rows : \E x \in loop'[r].done \cap Dirty(r)' : CollectionOf[x] = c
    BY <2>2, <2>3, <2>6, <2>7 DEF LoopInv
  <2>10. \A r, q \in Sess : r # q => loop'[r].rows \cap loop'[q].rows = {}
    BY <2>2, <2>8 DEF LoopInv
  <2> QED  BY <2>9, <2>10 DEF LoopInv
<1> QED  BY <1>2, <1>3, <1>4, <1>6, <1>7, <1>8, <1>9 DEF Next, Step

\* The name a session is about to lock or to persist, and the names above it.
IsAt(s, d) ==
    \/ ses[s].pc = "lock" /\ d \in ses[s].todo /\ IsNext(s, d)
    \/ ses[s].pc = "commit" /\ IsNextTarget(s, d)

Above(s) == {e \in Docs : \E d \in Docs : IsAt(s, d) /\ Rank[d] < Rank[e]}

LEMMA Climb ==
    ASSUME NEW s \in Sess, NEW r \in Sess, NEW d \in Docs, NEW e \in Docs,
           IsAt(s, d), IsAt(r, e), Rank[d] < Rank[e]
    PROVE  Above(r) \subseteq Above(s) /\ Above(r) # Above(s)
<1>1. \A f \in Docs : IsAt(r, f) => Rank[f] = Rank[e]
  BY RankAssumption DEF IsAt, IsNext, IsNextTarget
<1>2. e \in Above(s) /\ e \notin Above(r)
  BY <1>1, RankAssumption DEF Above
<1>3. \A f \in Above(r) : f \in Above(s)
  BY <1>1, RankAssumption DEF Above
<1> QED  BY <1>2, <1>3

\* Along a wait for an advisory lock the names above become fewer ...
LEMMA LockWaitClimbs ==
    ASSUME TypeOK, LockInv, OrderInv, NEW S \in SUBSET Sess, ~Colliding(S),
           NEW s \in S, NEW r \in S, NEW q \in S,
           WaitsForLock(s, r), WaitsForLock(r, q)
    PROVE  Above(r) \subseteq Above(s) /\ Above(r) # Above(s)
<1>1. PICK d \in ses[s].todo : IsNext(s, d) /\ HashText[d] \in ses[r].held
  BY DEF WaitsForLock
<1>2. PICK e \in ses[r].todo : IsNext(r, e)
  BY DEF WaitsForLock
<1>3. /\ ses[s].lockSet \subseteq Docs /\ ses[s].todo \subseteq ses[s].lockSet
      /\ ses[r].lockSet \subseteq Docs /\ ses[r].todo \subseteq ses[r].lockSet
  BY DEF LockInv, Locked, TypeOK, Session
<1>4. PICK x \in ses[r].lockSet \ ses[r].todo : HashText[x] = HashText[d]
  BY <1>1 DEF OrderInv
<1>5. x = d
  BY <1>1, <1>3, <1>4 DEF Colliding
<1>6. Rank[d] < Rank[e]
  BY <1>2, <1>4, <1>5 DEF OrderInv
<1>7. IsAt(s, d) /\ IsAt(r, e)
  BY <1>1, <1>2 DEF IsAt, WaitsForLock
<1> QED  BY <1>1, <1>2, <1>3, <1>6, <1>7, Climb

\* ... and along a wait for a row of the collections table, too.
LEMMA RowWaitClimbs ==
    ASSUME TypeOK, LoopInv, NEW S \in SUBSET Sess, ~Nested(S),
           NEW s \in S, NEW r \in S, NEW q \in S, q # r,
           WaitsForRow(s, r), WaitsForRow(r, q)
    PROVE  Above(r) \subseteq Above(s) /\ Above(r) # Above(s)
<1>1. PICK d \in Docs : IsNextTarget(s, d) /\ CollectionOf[d] \in loop[r].rows
  BY DEF WaitsForRow
<1>2. PICK e \in Docs : IsNextTarget(r, e) /\ CollectionOf[e] \in loop[q].rows
  BY DEF WaitsForRow
<1>3. d \in Dirty(s) /\ e \in Dirty(r) \ loop[r].done
  BY <1>1, <1>2 DEF IsNextTarget
<1>4. PICK x \in loop[r].done \cap Dirty(r) : CollectionOf[x] = CollectionOf[d]
  BY <1>1 DEF LoopInv
<1>5. Rank[x] < Rank[e]
  BY <1>3, <1>4 DEF LoopInv
<1>6. CollectionOf[e] # CollectionOf[d]
  BY <1>1, <1>2 DEF LoopInv
<1>7. /\ d \in UNION {Dirty(p) : p \in S} /\ e \in UNION {Dirty(p) : p \in S}
      /\ x \in UNION {Dirty(p) : p \in S}
  BY <1>3, <1>4
<1>8. ~(Rank[e] < Rank[d])
  BY <1>4, <1>5, <1>6, <1>7 DEF Nested
<1>9. Rank[d] < Rank[e]
  BY <1>6, <1>8, RankAssumption
<1>10. IsAt(s, d) /\ IsAt(r, e)
  BY <1>1, <1>2 DEF IsAt, WaitsForRow
<1> QED  BY <1>9, <1>10, Climb

\* A circle along which the names above become fewer cannot be.
LEMMA NoDescent ==
    ASSUME IsFiniteSet(Docs), NEW S, S # {},
           \A s \in S : \E r \in S : Above(r) \subseteq Above(s) /\ Above(r) # Above(s)
    PROVE  FALSE
<1> DEFINE T == {Above(s) : s \in S}
<1>1. \A s \in S : Above(s) \in FiniteSubsetsOf(Docs)
  <2> SUFFICES ASSUME NEW s \in S PROVE Above(s) \in FiniteSubsetsOf(Docs)
    OBVIOUS
  <2>1. Above(s) \in SUBSET Docs
    BY DEF Above
  <2>2. IsFiniteSet(Above(s))
    BY <2>1, FS_Subset
  <2> QED  BY <2>1, <2>2 DEF FiniteSubsetsOf
<1>2. T \subseteq FiniteSubsetsOf(Docs) /\ T # {}
  <2>1. \A x \in T : x \in FiniteSubsetsOf(Docs)
    BY <1>1
  <2>2. PICK s : s \in S
    OBVIOUS
  <2>3. Above(s) \in T
    BY <2>2
  <2> QED  BY <2>1, <2>3
<1>3. IsWellFoundedOn(StrictSubsetOrdering(Docs), FiniteSubsetsOf(Docs))
  BY FS_StrictSubsetOrderingWellFounded
<1>4. PICK x \in T : \A y \in T : ~(<<y, x>> \in StrictSubsetOrdering(Docs))
  BY <1>2, <1>3, WFMin
<1>5. PICK s \in S : x = Above(s)
  BY <1>4
<1>6. PICK r \in S : Above(r) \subseteq Above(s) /\ Above(r) # Above(s)
  BY <1>5
<1>7. <<Above(r), Above(s)>> \in StrictSubsetOrdering(Docs)
  BY <1>6 DEF StrictSubsetOrdering, Above
<1> QED  BY <1>4, <1>5, <1>6, <1>7

\* Who has inserted a row is past its locks, and can only wait for another row:
\* the commits of a circle that wait for rows form a circle of their own.
LEMMA CycleCauses ==
    ASSUME TypeOK, LockInv, OrderInv, LoopInv, IsFiniteSet(Docs) PROVE CyclesExplained
<1> SUFFICES ASSUME NEW S \in SUBSET Sess, Cycle(S), ~Colliding(S), ~Nested(S) PROVE FALSE
  BY DEF CyclesExplained
<1> DEFINE R == {s \in S : ses[s].pc = "commit"}
<1>1. \A s \in S : \E r \in S : r # s /\ (WaitsForLock(s, r) \/ WaitsForRow(s, r))
  BY DEF Cycle, WaitsFor
<1>2. \A s, r \in S : WaitsForRow(s, r) => ses[r].pc = "commit"
  BY DEF WaitsForRow, LoopInv, NoLoop
<1>3. CASE R # {}
  <2>1. \A s \in R : \E r \in R : r # s /\ WaitsForRow(s, r)
    BY <1>1, <1>2 DEF WaitsForLock
  <2>2. \A s \in R : \E r \in R : Above(r) \subseteq Above(s) /\ Above(r) # Above(s)
    BY <2>1, RowWaitClimbs
  <2> QED  BY <1>3, <2>2, NoDescent
<1>4. CASE R = {}
  <2>1. \A s \in S : \E r \in S : WaitsForLock(s, r)
    BY <1>1, <1>4 DEF WaitsForRow
  <2>2. \A s \in S : \E r \in S : Above(r) \subseteq Above(s) /\ Above(r) # Above(s)
    BY <2>1, LockWaitClimbs
  <2> QED  BY <2>2, NoDescent DEF Cycle
<1> QED  BY <1>3, <1>4

\* For any number of commits over finitely many documents and any hash function:
\* the order in which applyCommit locks and persists leaves no circle of waits
\* but the two kinds CyclesExplained names.
THEOREM CyclesExplainedHolds ==
    ASSUME IsFiniteSet(Docs) PROVE Spec => []CyclesExplained
<1>1. TypeOK /\ LockInv /\ OrderInv /\ LoopInv => CyclesExplained
  BY CycleCauses
<1>2. Spec => []OrderInv
  BY LocksInvariant, OrderInit, OrderNext, PTL DEF Spec
<1>3. Spec => []LoopInv
  BY TypeCorrect, LoopInit, LoopNext, PTL DEF Spec
<1> QED  BY <1>1, <1>2, <1>3, LocksInvariant, PTL


(***************************************************************************)
(* Serializability.  With ReReads and commits that share a microsecond     *)
(* excluded, an update time stands for a version.                          *)
(***************************************************************************)

\* The clock ticks, a transaction begins or ends, or a commit persists one more
\* document.
Quiet ==
    /\ UNCHANGED <<store, inflight, reads, seen, ses, nextXid, started, lastEvent, hist>>
    /\ clock' = clock \/ (clock < MaxClock /\ clock' = clock + 1)

\* A commit under way touches nothing that others can see.
Private == UNCHANGED <<clock, store, inflight, reads, seen, started, lastEvent, hist>>

LEMMA StepKindsInDetail ==
    ASSUME [Next]_vars
    PROVE  \/ Quiet \/ Restart
           \/ \E t \in Txns, D \in SUBSET Docs : GetDocuments(t, D)
           \/ \E r \in inflight : RecordTxnReads(r)
           \/ \E s \in Sess : \E t \in Txns \cup {NoTxn}, ws \in Requests : StartCommit(s, t, ws)
           \/ \E s \in Sess : AdvisoryLock(s) \/ Step(s) \/ Rollback(s)
BY DEF Next, vars, Quiet, Tick, BeginTxn, RollbackTxn, Upsert, regVars, histVars

LEMMA PrivateSteps ==
    ASSUME NEW s, \/ AdvisoryLock(s) \/ SelectForUpdate(s) \/ ApplyWrite(s)
                  \/ Persist(s) \/ Rollback(s)
    PROVE  Private
BY DEF AdvisoryLock, SelectForUpdate, ApplyWrite, Persist, Rollback, Private, regVars, histVars

LEMMA GetFields ==
    ASSUME TypeOK, NEW t \in Txns, NEW D \in SUBSET Docs, GetDocuments(t, D)
    PROVE  /\ UNCHANGED <<clock, store, reads, seen, ses, nextXid, started, lastEvent, hist>>
           /\ ~ReReads => /\ \A d \in D : reads[t][d] = NotRead
                          /\ \A r \in inflight : r.txn = t => D \cap r.docs = {}
           /\ \E q : /\ inflight' = inflight \cup {q}
                     /\ q.txn = t /\ q.docs = D
                     /\ \A d \in Docs : q.got[d] = IF d \in D THEN store[d] ELSE Missing
<1>1. ~ReReads => D \cap ReadSet(t) = {} /\ \A r \in inflight : r.txn = t => D \cap r.docs = {}
  BY DEF GetDocuments
<1>2. t # NoTxn
  BY TxnAssumption
<1>3. ~ReReads => \A d \in D : reads[t][d] = NotRead
  BY <1>1, <1>2 DEF ReadSet
<1> DEFINE got == [d \in Docs |-> IF d \in D THEN store[d] ELSE Missing]
           q == [txn |-> t, docs |-> D, got |-> got]
<1>4. inflight' = inflight \cup {q}
  BY DEF GetDocuments
<1>5. q.txn = t /\ q.docs = D /\ \A d \in Docs : q.got[d] = IF d \in D THEN store[d] ELSE Missing
  OBVIOUS
<1>6. UNCHANGED <<clock, store, reads, seen, ses, nextXid, started, lastEvent, hist>>
  BY DEF GetDocuments, regVars, histVars
<1> HIDE DEF q
<1> QED  BY <1>1, <1>3, <1>4, <1>5, <1>6

LEMMA RecordFields ==
    ASSUME TypeOK, NEW r \in inflight, RecordTxnReads(r)
    PROVE  /\ UNCHANGED <<clock, store, ses, nextXid, started, lastEvent, hist, live>>
           /\ inflight' = inflight \ {r}
           /\ \/ UNCHANGED <<reads, seen>>
              \/ /\ r.txn \in live
                 /\ \A t \in Txns, d \in Docs :
                      /\ reads'[t][d] = IF t = r.txn /\ d \in r.docs /\ reads[t][d] = NotRead
                                        THEN r.got[d].ut ELSE reads[t][d]
                      /\ seen'[t][d] = IF t = r.txn /\ d \in r.docs
                                       THEN seen[t][d] \cup {r.got[d].ver} ELSE seen[t][d]
<1> DEFINE rec(f) == [d \in Docs |-> IF d \in r.docs /\ f[d] = NotRead
                                    THEN r.got[d].ut ELSE f[d]]
           put(f) == [d \in Docs |-> IF d \in r.docs
                                    THEN f[d] \cup {r.got[d].ver} ELSE f[d]]
<1>1. \/ UNCHANGED <<reads, seen>>
      \/ /\ r.txn \in live
         /\ reads' = [reads EXCEPT ![r.txn] = rec(reads[r.txn])]
         /\ seen' = [seen EXCEPT ![r.txn] = put(seen[r.txn])]
  BY DEF RecordTxnReads
<1>2. ASSUME reads' = [reads EXCEPT ![r.txn] = rec(reads[r.txn])],
             seen' = [seen EXCEPT ![r.txn] = put(seen[r.txn])],
             NEW t \in Txns, NEW d \in Docs
      PROVE  /\ reads'[t][d] = IF t = r.txn /\ d \in r.docs /\ reads[t][d] = NotRead
                               THEN r.got[d].ut ELSE reads[t][d]
             /\ seen'[t][d] = IF t = r.txn /\ d \in r.docs
                              THEN seen[t][d] \cup {r.got[d].ver} ELSE seen[t][d]
  BY <1>2 DEF TypeOK
<1>3. /\ UNCHANGED <<clock, store, ses, nextXid, started, lastEvent, hist, live>>
      /\ inflight' = inflight \ {r}
  BY DEF RecordTxnReads
<1> QED  BY <1>1, <1>2, <1>3


\* What a client was handed was recorded; a document is read once; and what a
\* transaction read is locked by its commit, which then verified it.
ReadInv ==
    /\ \A t \in Txns : \A d \in Docs : reads[t][d] = NotRead => seen[t][d] = {}
    /\ \A r \in inflight : \A d \in r.docs : reads[r.txn][d] = NotRead
    /\ \A q, r \in inflight : q.txn = r.txn /\ q # r => q.docs \cap r.docs = {}
    /\ \A s \in Sess : ses[s].txn # NoTxn =>
          \A d \in Docs : reads[ses[s].txn][d] # NotRead =>
             /\ d \in ses[s].lockSet
             /\ ses[s].pc \in {"apply", "commit"} =>
                   ses[s].existing[d].ut = reads[ses[s].txn][d]

LEMMA ReadInit == Init => ReadInv
<1> SUFFICES ASSUME Init PROVE ReadInv
  OBVIOUS
<1>1. \A s \in Sess : ses[s].txn = NoTxn
  BY IdleFields DEF Init
<1> QED  BY <1>1 DEF Init, ReadInv

LEMMA ReadNext == ~ReReads /\ TypeOK /\ TxnInv /\ ReadInv /\ [Next]_vars => ReadInv'
<1> SUFFICES ASSUME ~ReReads, TypeOK, TxnInv, ReadInv, [Next]_vars PROVE ReadInv'
  OBVIOUS
<1>1. ASSUME UNCHANGED <<reads, seen, inflight>>,
             \A s \in Sess : \/ ses'[s].txn = NoTxn
                             \/ /\ ses'[s].txn = ses[s].txn /\ ses'[s].lockSet = ses[s].lockSet
                                /\ \/ ses'[s].pc \in {"idle", "lock"}
                                   \/ /\ ses'[s].pc = ses[s].pc \/ ses[s].pc = "apply"
                                      /\ ses'[s].existing = ses[s].existing
      PROVE  ReadInv'
  BY <1>1 DEF ReadInv
<1>2. CASE Quiet
  BY <1>2 DEF ReadInv, Quiet
<1>3. CASE Restart
  <2>1. /\ inflight' = {} /\ reads' = reads /\ seen' = seen
        /\ \A s \in Sess : ses'[s].txn = NoTxn
    BY <1>3, IdleFields DEF Restart, histVars
  <2> QED  BY <2>1 DEF ReadInv
<1>4. ASSUME NEW t \in Txns, NEW D \in SUBSET Docs, GetDocuments(t, D) PROVE ReadInv'
  <2>1. /\ UNCHANGED <<reads, seen, ses>>
        /\ \A d \in D : reads[t][d] = NotRead
        /\ \A r \in inflight : r.txn = t => D \cap r.docs = {}
    BY <1>4, GetFields
  <2>2. PICK q : inflight' = inflight \cup {q} /\ q.txn = t /\ q.docs = D
    BY <1>4, GetFields
  <2> QED  BY <2>1, <2>2 DEF ReadInv
<1>5. ASSUME NEW r \in inflight, RecordTxnReads(r) PROVE ReadInv'
  <2>1. /\ ses' = ses /\ inflight' = inflight \ {r}
        /\ \/ UNCHANGED <<reads, seen>>
           \/ /\ r.txn \in live
              /\ \A t \in Txns, d \in Docs :
                   /\ reads'[t][d] = IF t = r.txn /\ d \in r.docs /\ reads[t][d] = NotRead
                                     THEN r.got[d].ut ELSE reads[t][d]
                   /\ seen'[t][d] = IF t = r.txn /\ d \in r.docs
                                    THEN seen[t][d] \cup {r.got[d].ver} ELSE seen[t][d]
    BY <1>5, RecordFields
  <2>2. CASE UNCHANGED <<reads, seen>>
    BY <2>1, <2>2 DEF ReadInv
  <2>3. CASE /\ r.txn \in live
             /\ \A t \in Txns, d \in Docs :
                   /\ reads'[t][d] = IF t = r.txn /\ d \in r.docs /\ reads[t][d] = NotRead
                                     THEN r.got[d].ut ELSE reads[t][d]
                   /\ seen'[t][d] = IF t = r.txn /\ d \in r.docs
                                    THEN seen[t][d] \cup {r.got[d].ver} ELSE seen[t][d]
    <3>1. r.txn \in Txns /\ r.docs \subseteq Docs /\ \A d \in Docs : r.got[d].ut \in Nat
      BY DEF TypeOK, Version
    <3>2. \A q \in inflight : q.txn \in Txns /\ q.docs \subseteq Docs
      BY DEF TypeOK
    <3>3. \A t \in Txns : \A d \in Docs : reads'[t][d] = NotRead => seen'[t][d] = {}
      <4> SUFFICES ASSUME NEW t \in Txns, NEW d \in Docs, reads'[t][d] = NotRead
                   PROVE  seen'[t][d] = {}
        OBVIOUS
      <4>1. r.got[d].ut # NotRead
        BY <3>1 DEF NotRead
      <4>2. reads[t][d] = NotRead /\ ~(t = r.txn /\ d \in r.docs)
        BY <2>3, <4>1
      <4>3. seen'[t][d] = seen[t][d]
        BY <2>3, <4>2
      <4> QED  BY <4>2, <4>3 DEF ReadInv
    <3>4. \A q \in inflight' : \A d \in q.docs : reads'[q.txn][d] = NotRead
      <4> SUFFICES ASSUME NEW q \in inflight', NEW d \in q.docs
                   PROVE  reads'[q.txn][d] = NotRead
        OBVIOUS
      <4>1. q \in inflight /\ q # r /\ q.txn \in Txns /\ d \in Docs
        BY <2>1, <3>2
      <4>2. reads[q.txn][d] = NotRead
        BY <4>1 DEF ReadInv
      <4>3. ~(q.txn = r.txn /\ d \in r.docs)
        BY <4>1 DEF ReadInv
      <4> QED  BY <2>3, <4>1, <4>2, <4>3
    <3>5. \A s \in Sess : ses[s].txn # NoTxn => ses[s].txn \in Txns /\ ses[s].txn # r.txn
      BY <2>3 DEF TxnInv, TypeOK, Session
    <3>6. \A s \in Sess : ses[s].txn # NoTxn =>
             \A d \in Docs : reads'[ses[s].txn][d] = reads[ses[s].txn][d]
      BY <2>3, <3>5
    <3> QED  BY <2>1, <3>3, <3>4, <3>6 DEF ReadInv
  <2> QED  BY <2>1, <2>2, <2>3
<1>6. ASSUME NEW s \in Sess, NEW t \in Txns \cup {NoTxn}, NEW ws \in Requests,
             StartCommit(s, t, ws)
      PROVE  ReadInv'
  <2>1. /\ Others(s) /\ ses'[s].pc = "lock" /\ ses'[s].txn = t
        /\ ses'[s].lockSet = Targets(ws) \cup ReadSet(t)
    BY <1>6, StartFields
  <2>2. UNCHANGED <<reads, seen, inflight>>
    BY <1>6, StartRegistry
  <2>3. t # NoTxn => \A d \in Docs : reads[t][d] # NotRead => d \in ReadSet(t)
    BY DEF ReadSet
  <2> QED  BY <2>1, <2>2, <2>3 DEF ReadInv, Others
<1>7. ASSUME NEW s \in Sess, AdvisoryLock(s) \/ Rollback(s) \/ ApplyWrite(s) \/ Persist(s)
      PROVE  ReadInv'
  <2>1. UNCHANGED <<reads, seen, inflight>>
    BY <1>7, PrivateSteps DEF Private
  <2>2. /\ Others(s)
        /\ \/ ses'[s] = IdleSession
           \/ /\ SameCommit(ses'[s], ses[s])
              /\ \/ ses'[s].pc \in {"idle", "lock"}
                 \/ /\ ses'[s].pc = ses[s].pc \/ ses[s].pc = "apply"
                    /\ ses'[s].existing = ses[s].existing
    BY <1>7, LockFields, EndFields, ApplyFields, PersistFields
  <2> QED  BY <1>1, <2>1, <2>2, IdleFields DEF Others, SameCommit
<1>8. ASSUME NEW s \in Sess, SelectForUpdate(s) PROVE ReadInv'
  <2>1. UNCHANGED <<reads, seen, inflight>>
    BY <1>8, PrivateSteps DEF Private
  <2>2. Others(s)
    BY <1>8, SelectFields
  <2>3. CASE ses'[s] = IdleSession
    BY <1>1, <2>1, <2>2, <2>3, IdleFields DEF Others
  <2>4. CASE ses'[s] # IdleSession
    <3>1. /\ SameCommit(ses'[s], ses[s]) /\ Unchanged(ses[s].txn)
          /\ \A d \in Docs : ses'[s].existing[d] =
                       IF d \in ses[s].lockSet THEN store[d] ELSE Missing
      BY <1>8, <2>4, SelectFields
    <3>2. ses[s].txn # NoTxn => \A d \in Docs : reads[ses[s].txn][d] # NotRead =>
             d \in ses[s].lockSet /\ store[d].ut = reads[ses[s].txn][d]
      BY <3>1 DEF Unchanged, ReadSet, ReadInv
    <3>3. ses[s].txn # NoTxn => \A d \in Docs : reads[ses[s].txn][d] # NotRead =>
             ses'[s].existing[d].ut = reads[ses[s].txn][d]
      BY <3>1, <3>2
    <3> QED  BY <2>1, <2>2, <3>1, <3>2, <3>3 DEF ReadInv, Others, SameCommit
  <2> QED  BY <2>3, <2>4
<1>9. ASSUME NEW s \in Sess, CommitTx(s) PROVE ReadInv'
  <2>1. UNCHANGED <<reads, seen, inflight>>
    BY <1>9 DEF CommitTx, regVars
  <2>2. Others(s) /\ ses'[s] = IdleSession
    BY <1>9, EndFields
  <2> QED  BY <1>1, <2>1, <2>2, IdleFields DEF Others
<1> QED  BY <1>2, <1>3, <1>4, <1>5, <1>6, <1>7, <1>8, <1>9, StepKindsInDetail DEF Step


\* Somebody holds, or is about to record, version v of d under update time u.
Known(d, u, v) ==
    \/ store[d].ut = u /\ store[d].ver = v
    \/ \E r \in inflight : d \in r.docs /\ r.got[d].ut = u /\ r.got[d].ver = v
    \/ \E t \in Txns : reads[t][d] = u /\ v \in seen[t][d]

\* No two versions of a document share an update time, and the time of a commit
\* under way is new to everyone.
TimeInv ==
    /\ clock >= 1
    /\ \A d \in Docs : \A u, v \in Nat : Known(d, u, v) => u < clock /\ (u = 0 => v = 0)
    /\ \A d \in Docs : \A u, v, w \in Nat : Known(d, u, v) /\ Known(d, u, w) => v = w
    /\ \A s \in Sess : ses[s].ctime < clock
    /\ \A s \in Sess : ses[s].pc # "idle" =>
          /\ ses[s].ctime >= 1
          /\ \A d \in Docs : \A u, v \in Nat : Known(d, u, v) => u # ses[s].ctime
          /\ \A r \in Sess : r # s => ses[r].ctime # ses[s].ctime
          /\ \A d \in Docs : ses[s].st[d].dirty /\ ses[s].st[d].ex =>
                                ses[s].st[d].ut = ses[s].ctime

LEMMA TimeInit == Init => TimeInv
<1> SUFFICES ASSUME Init PROVE TimeInv
  OBVIOUS
<1>1. \A s \in Sess : ses[s].pc = "idle" /\ ses[s].ctime = 0
  BY IdleFields DEF Init
<1>2. \A d \in Docs : \A u, v \in Nat : Known(d, u, v) => u = 0 /\ v = 0
  <2> SUFFICES ASSUME NEW d \in Docs, NEW u \in Nat, NEW v \in Nat, Known(d, u, v)
               PROVE  u = 0 /\ v = 0
    OBVIOUS
  <2>1. store[d].ut = 0 /\ store[d].ver = 0 /\ inflight = {}
    BY DEF Init, Missing
  <2>2. \A t \in Txns : reads[t][d] # u
    BY DEF Init, NotRead
  <2> QED  BY <2>1, <2>2 DEF Known
<1> QED  BY <1>1, <1>2 DEF Init, TimeInv

\* A version becomes known in one way only: its commit.
LEMMA KnownOld ==
    ASSUME TypeOK, ReadInv, [Next]_vars, \A s \in Sess : ~CommitTx(s),
           NEW d \in Docs, NEW u \in Nat, NEW v \in Nat, Known(d, u, v)'
    PROVE  Known(d, u, v)
<1>1. CASE UNCHANGED <<store, reads, seen>> /\ inflight' \subseteq inflight
  BY <1>1 DEF Known
<1>2. CASE Quiet
  BY <1>1, <1>2 DEF Quiet
<1>3. CASE Restart
  BY <1>1, <1>3 DEF Restart, histVars
<1>4. ASSUME NEW t \in Txns, NEW D \in SUBSET Docs, GetDocuments(t, D) PROVE Known(d, u, v)
  <2>1. UNCHANGED <<store, reads, seen>>
    BY <1>4, GetFields
  <2>2. PICK q : /\ inflight' = inflight \cup {q} /\ q.docs = D
                 /\ \A e \in Docs : q.got[e] = IF e \in D THEN store[e] ELSE Missing
    BY <1>4, GetFields
  <2>3. d \in q.docs => q.got[d] = store[d]
    BY <2>2
  <2> QED  BY <2>1, <2>2, <2>3 DEF Known
<1>5. ASSUME NEW r \in inflight, RecordTxnReads(r) PROVE Known(d, u, v)
  <2>1. store' = store /\ inflight' \subseteq inflight
    BY <1>5, RecordFields
  <2>2. CASE UNCHANGED <<reads, seen>>
    BY <1>1, <2>1, <2>2
  <2>3. CASE ~UNCHANGED <<reads, seen>>
    <3>1. CASE \E t \in Txns : reads'[t][d] = u /\ v \in seen'[t][d]
      <4>1. PICK t \in Txns : reads'[t][d] = u /\ v \in seen'[t][d]
        BY <3>1
      <4>2. /\ reads'[t][d] = IF t = r.txn /\ d \in r.docs /\ reads[t][d] = NotRead
                              THEN r.got[d].ut ELSE reads[t][d]
            /\ seen'[t][d] = IF t = r.txn /\ d \in r.docs
                             THEN seen[t][d] \cup {r.got[d].ver} ELSE seen[t][d]
        BY <1>5, <2>3, RecordFields
      <4>3. CASE t = r.txn /\ d \in r.docs
        <5>1. reads[t][d] = NotRead /\ seen[t][d] = {}
          BY <4>3 DEF ReadInv
        <5>2. r.got[d].ut = u /\ v = r.got[d].ver
          BY <4>1, <4>2, <4>3, <5>1
        <5> QED  BY <4>3, <5>2 DEF Known
      <4>4. CASE ~(t = r.txn /\ d \in r.docs)
        BY <4>1, <4>2, <4>4 DEF Known
      <4> QED  BY <4>3, <4>4
    <3> QED  BY <2>1, <3>1 DEF Known
  <2> QED  BY <2>2, <2>3
<1>6. ASSUME NEW s \in Sess, NEW t, NEW ws, StartCommit(s, t, ws) PROVE Known(d, u, v)
  BY <1>1, <1>6, StartRegistry
<1>7. ASSUME NEW s \in Sess, \/ AdvisoryLock(s) \/ SelectForUpdate(s) \/ ApplyWrite(s)
                             \/ Persist(s) \/ Rollback(s)
      PROVE  Known(d, u, v)
  BY <1>1, <1>7, PrivateSteps DEF Private
<1> QED  BY <1>2, <1>3, <1>4, <1>5, <1>6, <1>7, StepKindsInDetail DEF Step

\* A commit adds the versions it wrote, under its own time, or their absence.
LEMMA KnownNew ==
    ASSUME TypeOK, NEW s \in Sess, CommitTx(s),
           NEW d \in Docs, NEW u \in Nat, NEW v \in Nat, Known(d, u, v)'
    PROVE  \/ Known(d, u, v)
           \/ u = 0 /\ v = 0
           \/ ses[s].st[d].dirty /\ ses[s].st[d].ex /\ u = ses[s].st[d].ut /\ v = ses[s].xid
<1>1. UNCHANGED <<inflight, reads, seen>>
  BY DEF CommitTx, regVars
<1>2. store'[d] = IF d \in Dirty(s) THEN Persisted(s, d) ELSE store[d]
  BY DEF CommitTx
<1>3. CASE d \in Dirty(s)
  <2>1. CASE ses[s].st[d].ex
    <3>1. Persisted(s, d).ut = ses[s].st[d].ut /\ Persisted(s, d).ver = ses[s].xid
      BY <2>1 DEF Persisted
    <3> QED  BY <1>1, <1>2, <1>3, <2>1, <3>1 DEF Known, Dirty
  <2>2. CASE ~ses[s].st[d].ex
    <3>1. Persisted(s, d).ut = 0 /\ Persisted(s, d).ver = 0
      BY <2>2 DEF Persisted, Missing
    <3> QED  BY <1>1, <1>2, <1>3, <3>1 DEF Known
  <2> QED  BY <2>1, <2>2
<1>4. CASE d \notin Dirty(s)
  BY <1>1, <1>2, <1>4 DEF Known
<1> QED  BY <1>3, <1>4


LEMMA TimeNext ==
    DistinctTimes /\ TypeOK /\ LockInv /\ ReadInv /\ TimeInv /\ [Next]_vars => TimeInv'
<1> SUFFICES ASSUME DistinctTimes, TypeOK, LockInv, ReadInv, TimeInv, [Next]_vars
             PROVE  TimeInv'
  OBVIOUS
<1>a. clock \in Nat /\ \A s \in Sess : ses[s].ctime \in Nat
  BY DEF TypeOK, Session
\* Sessions only go on or end.
<1>1. ASSUME \A s \in Sess : ~CommitTx(s), clock' \in {clock, clock + 1},
             \A s \in Sess :
                \/ ses'[s].pc = "idle" /\ ses'[s].ctime = 0
                \/ /\ ses[s].pc # "idle" /\ ses'[s].ctime = ses[s].ctime
                   /\ \A d \in Docs : ses'[s].st[d].dirty /\ ses'[s].st[d].ex =>
                                         ses'[s].st[d].ut = ses[s].ctime
                \/ ses'[s] = ses[s]
      PROVE  TimeInv'
  <2>1. \A d \in Docs : \A u, v \in Nat : Known(d, u, v)' => Known(d, u, v)
    BY <1>1, KnownOld
  <2>2. clock' \in Nat /\ clock' >= clock
    BY <1>a, <1>1
  <2>3. \A d \in Docs : \A u, v \in Nat : Known(d, u, v)' => u < clock' /\ (u = 0 => v = 0)
    BY <1>a, <2>1, <2>2 DEF TimeInv
  <2>4. \A d \in Docs : \A u, v, w \in Nat : Known(d, u, v)' /\ Known(d, u, w)' => v = w
    BY <2>1 DEF TimeInv
  <2>5. ASSUME NEW s \in Sess, ses'[s].pc # "idle"
        PROVE  /\ ses'[s].ctime >= 1
               /\ \A d \in Docs : \A u, v \in Nat : Known(d, u, v)' => u # ses'[s].ctime
               /\ \A r \in Sess : r # s => ses'[r].ctime # ses'[s].ctime
               /\ \A d \in Docs : ses'[s].st[d].dirty /\ ses'[s].st[d].ex =>
                                     ses'[s].st[d].ut = ses'[s].ctime
    <3>1. ses[s].pc # "idle" /\ ses'[s].ctime = ses[s].ctime
      BY <1>1, <2>5
    <3>2. ses[s].ctime >= 1
      BY <3>1 DEF TimeInv
    <3>3. \A d \in Docs : \A u, v \in Nat : Known(d, u, v)' => u # ses'[s].ctime
      BY <2>1, <3>1 DEF TimeInv
    <3>4. \A r \in Sess : r # s => ses'[r].ctime # ses'[s].ctime
      BY <1>1, <1>a, <3>1, <3>2 DEF TimeInv
    <3>5. \A d \in Docs : ses'[s].st[d].dirty /\ ses'[s].st[d].ex =>
                             ses'[s].st[d].ut = ses'[s].ctime
      BY <1>1, <2>5, <3>1 DEF TimeInv
    <3> QED  BY <1>a, <2>2, <3>1, <3>2, <3>3, <3>4, <3>5
  <2>6. clock' >= 1 /\ \A s \in Sess : ses'[s].ctime < clock'
    BY <1>a, <1>1, <2>2 DEF TimeInv
  <2> QED  BY <2>3, <2>4, <2>5, <2>6 DEF TimeInv
<1>2. ASSUME NEW s \in Sess, CommitTx(s) PROVE TimeInv'
  <2>1. Others(s) /\ ses[s].pc = "commit" /\ ses'[s].pc = "idle" /\ ses'[s].ctime = 0
    BY <1>2, EndFields, IdleFields DEF CommitTx
  <2>2. clock' = clock
    BY <1>2 DEF CommitTx
  <2>3. /\ ses[s].ctime >= 1 /\ ses[s].ctime < clock
        /\ \A d \in Docs : ses[s].st[d].dirty /\ ses[s].st[d].ex =>
                              ses[s].st[d].ut = ses[s].ctime
        /\ \A d \in Docs : \A u, v \in Nat : Known(d, u, v) => u # ses[s].ctime
        /\ \A r \in Sess : r # s => ses[r].ctime # ses[s].ctime
    BY <2>1 DEF TimeInv
  <2>4. ASSUME NEW d \in Docs, NEW u \in Nat, NEW v \in Nat, Known(d, u, v)'
        PROVE  Known(d, u, v) \/ (u = 0 /\ v = 0) \/ (u = ses[s].ctime /\ v = ses[s].xid)
    BY <1>2, <2>3, <2>4, KnownNew
  <2>5. \A d \in Docs : \A u, v \in Nat : Known(d, u, v)' => u < clock' /\ (u = 0 => v = 0)
    BY <1>a, <2>2, <2>3, <2>4 DEF TimeInv
  <2>6. \A d \in Docs : \A u, v, w \in Nat : Known(d, u, v)' /\ Known(d, u, w)' => v = w
    <3> SUFFICES ASSUME NEW d \in Docs, NEW u \in Nat, NEW v \in Nat, NEW w \in Nat,
                        Known(d, u, v)', Known(d, u, w)'
                 PROVE  v = w
      OBVIOUS
    <3>1. Known(d, u, v) \/ (u = 0 /\ v = 0) \/ (u = ses[s].ctime /\ v = ses[s].xid)
      BY <2>4
    <3>2. Known(d, u, w) \/ (u = 0 /\ w = 0) \/ (u = ses[s].ctime /\ w = ses[s].xid)
      BY <2>4
    <3>3. ses[s].ctime # 0
      BY <1>a, <2>3
    <3> QED  BY <2>3, <3>1, <3>2, <3>3 DEF TimeInv
  <2>7. ASSUME NEW r \in Sess, ses'[r].pc # "idle"
        PROVE  /\ ses'[r].ctime >= 1
               /\ \A d \in Docs : \A u, v \in Nat : Known(d, u, v)' => u # ses'[r].ctime
               /\ \A q \in Sess : q # r => ses'[q].ctime # ses'[r].ctime
               /\ \A d \in Docs : ses'[r].st[d].dirty /\ ses'[r].st[d].ex =>
                                     ses'[r].st[d].ut = ses'[r].ctime
    <3>1. r # s /\ ses'[r] = ses[r]
      BY <2>1, <2>7 DEF Others
    <3>2. ses[r].ctime >= 1 /\ ses[r].ctime # ses[s].ctime /\ ses[r].ctime # 0
      BY <1>a, <2>3, <2>7, <3>1 DEF TimeInv
    <3>3. \A d \in Docs : \A u, v \in Nat : Known(d, u, v)' => u # ses[r].ctime
      BY <2>4, <2>7, <3>1, <3>2 DEF TimeInv
    <3>4. \A q \in Sess : q # r => ses'[q].ctime # ses[r].ctime
      BY <2>1, <2>7, <3>1, <3>2 DEF TimeInv, Others
    <3>5. \A d \in Docs : ses[r].st[d].dirty /\ ses[r].st[d].ex => ses[r].st[d].ut = ses[r].ctime
      BY <2>7, <3>1 DEF TimeInv
    <3> QED  BY <2>2, <3>1, <3>2, <3>3, <3>4, <3>5
  <2>8. clock' >= 1 /\ \A r \in Sess : ses'[r].ctime < clock'
    BY <1>a, <2>1, <2>2 DEF TimeInv, Others
  <2> QED  BY <2>5, <2>6, <2>7, <2>8 DEF TimeInv
<1>c. SUFFICES ASSUME \A s \in Sess : ~CommitTx(s) PROVE TimeInv'
  BY <1>2
<1>3. CASE Quiet
  BY <1>1, <1>3, <1>c DEF Quiet
<1>4. CASE Restart
  <2>1. clock' = clock /\ \A s \in Sess : ses'[s].pc = "idle" /\ ses'[s].ctime = 0
    BY <1>4, IdleFields DEF Restart
  <2> QED  BY <1>1, <1>c, <2>1
<1>5. ASSUME NEW t \in Txns, NEW D \in SUBSET Docs, GetDocuments(t, D) PROVE TimeInv'
  BY <1>1, <1>5, <1>c, GetFields
<1>6. ASSUME NEW r \in inflight, RecordTxnReads(r) PROVE TimeInv'
  BY <1>1, <1>6, <1>c, RecordFields
<1>7. ASSUME NEW s \in Sess, NEW t, NEW ws, StartCommit(s, t, ws) PROVE TimeInv'
  <2>1. /\ Others(s) /\ ses'[s].ctime = clock
        /\ \A d \in Docs : ses'[s].st[d].dirty = FALSE
    BY <1>7, StartFields DEF Untouched
  <2>2. clock' = clock + 1
    BY <1>7, StartRegistry
  <2>3. \A d \in Docs : \A u, v \in Nat : Known(d, u, v)' => Known(d, u, v)
    BY <1>c, KnownOld
  <2>4. \A d \in Docs : \A u, v \in Nat : Known(d, u, v)' => u < clock /\ (u = 0 => v = 0)
    BY <2>3 DEF TimeInv
  <2>5. \A d \in Docs : \A u, v, w \in Nat : Known(d, u, v)' /\ Known(d, u, w)' => v = w
    BY <2>3 DEF TimeInv
  <2>6. \A r \in Sess : r # s => ses'[r] = ses[r] /\ ses[r].ctime < clock
    BY <2>1 DEF TimeInv, Others
  <2>7. ASSUME NEW r \in Sess, ses'[r].pc # "idle"
        PROVE  /\ ses'[r].ctime >= 1
               /\ \A d \in Docs : \A u, v \in Nat : Known(d, u, v)' => u # ses'[r].ctime
               /\ \A q \in Sess : q # r => ses'[q].ctime # ses'[r].ctime
               /\ \A d \in Docs : ses'[r].st[d].dirty /\ ses'[r].st[d].ex =>
                                     ses'[r].st[d].ut = ses'[r].ctime
    <3>1. CASE r = s
      <4>1. \A d \in Docs : \A u, v \in Nat : Known(d, u, v)' => u # clock
        BY <1>a, <2>4
      <4>2. \A q \in Sess : q # s => ses'[q].ctime # clock
        BY <1>a, <2>6
      <4> QED  BY <2>1, <3>1, <4>1, <4>2 DEF TimeInv
    <3>2. CASE r # s
      <4>1. ses'[r] = ses[r] /\ ses[r].pc # "idle" /\ ses[r].ctime # clock
        BY <1>a, <2>6, <2>7, <3>2
      <4>2. \A d \in Docs : \A u, v \in Nat : Known(d, u, v)' => u # ses[r].ctime
        BY <2>3, <4>1 DEF TimeInv
      <4>3. \A q \in Sess : q # r => ses'[q].ctime # ses[r].ctime
        BY <2>1, <2>6, <4>1 DEF TimeInv
      <4>4. \A d \in Docs : ses[r].st[d].dirty /\ ses[r].st[d].ex =>
                                ses[r].st[d].ut = ses[r].ctime
        BY <4>1 DEF TimeInv
      <4> QED  BY <4>1, <4>2, <4>3, <4>4 DEF TimeInv
    <3> QED  BY <3>1, <3>2
  <2>8. clock' >= 1 /\ \A r \in Sess : ses'[r].ctime < clock'
    BY <1>a, <2>1, <2>2, <2>6 DEF TimeInv
  <2>9. \A d \in Docs : \A u, v \in Nat : Known(d, u, v)' => u < clock' /\ (u = 0 => v = 0)
    BY <1>a, <2>2, <2>4
  <2> QED  BY <2>5, <2>7, <2>8, <2>9 DEF TimeInv
<1>8. ASSUME NEW s \in Sess, AdvisoryLock(s) \/ Persist(s) \/ Rollback(s) PROVE TimeInv'
  <2>1. clock' = clock
    BY <1>8, PrivateSteps DEF Private
  <2>2. /\ Others(s)
        /\ \/ ses'[s] = IdleSession
           \/ /\ ses[s].pc # "idle" /\ ses'[s].ctime = ses[s].ctime
              /\ ses'[s].st = ses[s].st
    BY <1>8, LockFields, PersistFields, EndFields DEF SameCommit
  <2>3. ses[s].pc # "idle" => \A d \in Docs : ses[s].st[d].dirty /\ ses[s].st[d].ex =>
                                               ses[s].st[d].ut = ses[s].ctime
    BY DEF TimeInv
  <2> QED  BY <1>1, <1>c, <2>1, <2>2, <2>3, IdleFields DEF Others
<1>9. ASSUME NEW s \in Sess, SelectForUpdate(s) PROVE TimeInv'
  <2>1. clock' = clock
    BY <1>9, PrivateSteps DEF Private
  <2>2. /\ Others(s)
        /\ \/ ses'[s] = IdleSession
           \/ /\ ses[s].pc # "idle" /\ ses'[s].ctime = ses[s].ctime
              /\ \A d \in Docs : ses'[s].st[d].dirty = FALSE
    <3>1. CASE ses'[s] = IdleSession
      BY <1>9, <3>1, SelectFields
    <3>2. CASE ses'[s] # IdleSession
      <4>1. /\ ses[s].pc = "lock" /\ ses'[s].ctime = ses[s].ctime
            /\ \A d \in Docs : ses'[s].st[d] =
                  IF d \in Targets(ses[s].req)
                  THEN [ex |-> store[d].ex, ct |-> store[d].ct,
                        ut |-> store[d].ut, dirty |-> FALSE]
                  ELSE Untouched
        BY <1>9, <3>2, SelectFields DEF SameCommit
      <4>2. \A d \in Docs : ses'[s].st[d].dirty = FALSE
        <5>1. Untouched.dirty = FALSE
          BY DEF Untouched
        <5>2. \A d \in Docs : [ex |-> store[d].ex, ct |-> store[d].ct,
                               ut |-> store[d].ut, dirty |-> FALSE].dirty = FALSE
          OBVIOUS
        <5> QED  BY <4>1, <5>1, <5>2
      <4> QED  BY <1>9, <4>1, <4>2, SelectFields
    <3> QED  BY <3>1, <3>2
  <2> QED  BY <1>1, <1>c, <2>1, <2>2, IdleFields DEF Others
<1>10. ASSUME NEW s \in Sess, ApplyWrite(s) PROVE TimeInv'
  <2>1. clock' = clock
    BY <1>10, PrivateSteps DEF Private
  <2>2. Others(s) /\ ses[s].pc = "apply"
    BY <1>10, ApplyFields
  <2>3. CASE ses'[s] = IdleSession
    BY <1>1, <1>c, <2>1, <2>2, <2>3, IdleFields DEF Others
  <2>4. CASE ses'[s] # IdleSession
    <3> DEFINE w == ses[s].req[ses[s].i]
    <3>1. /\ SameCommit(ses'[s], ses[s])
          /\ \A d \in Docs : ses'[s].st[d] =
                IF d = w.doc THEN Applied(ses[s].st[d], w, ses[s].ctime) ELSE ses[s].st[d]
      BY <1>10, <2>4, ApplyFields
    <3>2. \A d \in Docs : ses[s].st[d].dirty /\ ses[s].st[d].ex => ses[s].st[d].ut = ses[s].ctime
      BY <2>2 DEF TimeInv
    <3>3. \A d \in Docs : LET a == Applied(ses[s].st[d], w, ses[s].ctime)
                          IN  a.ex => a.ut = ses[s].ctime
      BY DEF Applied, TypeOK, Session, DocState
    <3>4. \A d \in Docs : ses'[s].st[d].dirty /\ ses'[s].st[d].ex =>
                              ses'[s].st[d].ut = ses[s].ctime
      BY <3>1, <3>2, <3>3
    <3> QED  BY <1>1, <1>c, <2>1, <2>2, <3>1, <3>4 DEF Others, SameCommit
  <2> QED  BY <2>3, <2>4
<1> QED  BY <1>c, <1>3, <1>4, <1>5, <1>6, <1>7, <1>8, <1>9, <1>10, StepKindsInDetail DEF Step

\* With update times that tell versions apart and clients that read a document
\* once, a transaction commits only when everything it was handed is current.
\* Without either it may not: commit_same_microsecond and the README.
THEOREM SerializableReadsHolds ==
    ASSUME DistinctTimes, ~ReReads
    PROVE  Spec => []SerializableReads
<1>1. TypeOK /\ LockInv /\ ReadInv /\ TimeInv => SerializableReads
  <2> SUFFICES ASSUME TypeOK, LockInv, ReadInv, TimeInv, NEW s \in Sess,
                      ses[s].pc = "commit", ses[s].txn # NoTxn,
                      NEW d \in Docs, NEW v \in seen[ses[s].txn][d]
               PROVE  v = store[d].ver
    BY DEF SerializableReads
  <2> DEFINE t == ses[s].txn
  <2>1. /\ t \in Txns /\ v \in Nat /\ store[d].ut \in Nat /\ store[d].ver \in Nat
    BY DEF TypeOK, Session, Version
  <2>2. reads[t][d] # NotRead
    BY <2>1 DEF ReadInv
  <2>3. d \in ses[s].lockSet /\ ses[s].existing[d].ut = reads[t][d]
    BY <2>2 DEF ReadInv
  <2>4. store[d].ut = reads[t][d]
    BY <2>3 DEF LockInv, VerifiedStable
  <2>5. Known(d, store[d].ut, v)
    BY <2>1, <2>4 DEF Known
  <2>6. Known(d, store[d].ut, store[d].ver)
    BY DEF Known
  <2> QED  BY <2>1, <2>5, <2>6 DEF TimeInv
<1> QED  BY <1>1, LocksInvariant, TxnInit, TxnNext, ReadInit, ReadNext, TimeInit, TimeNext,
            PTL DEF Spec


(***************************************************************************)
(* Refinement.  First the bounds: a commit draws at most one transaction   *)
(* id, so ids never outrun the commits attempted.                          *)
(***************************************************************************)

\* The commits under way that have no transaction id yet.
Unnumbered == {s \in Sess : ses[s].pc # "idle" /\ ses[s].xid = 0}

CountInv ==
    /\ IsFiniteSet(Unnumbered) /\ nextXid + Cardinality(Unnumbered) <= started + 1
    /\ started <= MaxStarts
    /\ \A s \in Sess : ses[s].ctime <= MaxClock /\ (ses[s].pc = "lock" => ses[s].xid = 0)
    /\ \A d \in Docs : store[d].ver < nextXid
    /\ \A r \in inflight : \A d \in Docs : r.got[d].ver < nextXid

LEMMA CountInit == Init => CountInv
<1> SUFFICES ASSUME Init PROVE CountInv
  OBVIOUS
<1>1. \A s \in Sess : ses[s].pc = "idle" /\ ses[s].ctime = 0
  BY IdleFields DEF Init
<1>2. Unnumbered = {}
  BY <1>1 DEF Unnumbered
<1>3. IsFiniteSet(Unnumbered) /\ Cardinality(Unnumbered) = 0
  BY <1>2, FS_EmptySet
<1>4. \A d \in Docs : store[d].ver < nextXid
  BY DEF Init, Missing
<1> QED  BY <1>1, <1>3, <1>4, BoundsAssumption DEF Init, CountInv

\* A session that gets its id, or ends, leaves the unnumbered ones.
LEMMA NumberedLeaves ==
    ASSUME CountInv, NEW s \in Sess, Others(s), ses'[s].pc = "idle" \/ ses'[s].xid # 0
    PROVE  /\ IsFiniteSet(Unnumbered') /\ Cardinality(Unnumbered') \in Nat
           /\ Cardinality(Unnumbered) \in Nat
           /\ Cardinality(Unnumbered') <= Cardinality(Unnumbered)
           /\ s \in Unnumbered => Cardinality(Unnumbered') = Cardinality(Unnumbered) - 1
<1>1. Unnumbered' = Unnumbered \ {s}
  BY DEF Unnumbered, Others
<1>2. IsFiniteSet(Unnumbered) /\ Cardinality(Unnumbered) \in Nat
  BY FS_CardinalityType DEF CountInv
<1>3. CASE s \in Unnumbered
  <2>1. IsFiniteSet(Unnumbered') /\ Cardinality(Unnumbered') = Cardinality(Unnumbered) - 1
    BY <1>1, <1>2, <1>3, FS_RemoveElement
  <2>2. Cardinality(Unnumbered') \in Nat
    BY <2>1, FS_CardinalityType
  <2> QED  BY <1>2, <2>1, <2>2
<1>4. CASE s \notin Unnumbered
  <2>1. Unnumbered' = Unnumbered
    BY <1>1, <1>4
  <2> QED  BY <1>2, <1>4, <2>1
<1> QED  BY <1>3, <1>4

LEMMA CountNext == TypeOK /\ EventInv /\ CountInv /\ DistinctTimes /\ [Next]_vars => CountInv'
<1> SUFFICES ASSUME TypeOK, EventInv, CountInv, DistinctTimes, [Next]_vars PROVE CountInv'
  OBVIOUS
<1>a. /\ nextXid \in Nat \ {0} /\ started \in Nat /\ clock \in Nat
      /\ \A s \in Sess : ses[s].xid \in Nat /\ ses[s].xid < nextXid
      /\ \A d \in Docs : store[d].ver \in Nat
      /\ \A r \in inflight : \A d \in Docs : r.got[d].ver \in Nat
  BY DEF TypeOK, Session, Version, EventInv
<1>b. IsFiniteSet(Unnumbered) /\ Cardinality(Unnumbered) \in Nat
  BY FS_CardinalityType DEF CountInv
\* The registry's steps.
<1>1. ASSUME UNCHANGED <<ses, nextXid, started, store>>,
             \A r \in inflight' : \/ r \in inflight
                                  \/ \A d \in Docs : r.got[d].ver \in {store[d].ver, 0}
      PROVE  CountInv'
  <2>1. Unnumbered' = Unnumbered
    BY <1>1 DEF Unnumbered
  <2>2. \A r \in inflight' : \A d \in Docs : r.got[d].ver < nextXid
    BY <1>a, <1>1 DEF CountInv
  <2> QED  BY <1>1, <2>1, <2>2 DEF CountInv
<1>2. CASE Quiet
  BY <1>1, <1>2 DEF Quiet
<1>3. ASSUME NEW t \in Txns, NEW D \in SUBSET Docs, GetDocuments(t, D) PROVE CountInv'
  <2>1. UNCHANGED <<ses, nextXid, started, store>>
    BY <1>3, GetFields
  <2>2. PICK q : /\ inflight' = inflight \cup {q}
                 /\ \A d \in Docs : q.got[d] = IF d \in D THEN store[d] ELSE Missing
    BY <1>3, GetFields
  <2>3. Missing.ver = 0
    BY DEF Missing
  <2>4. \A d \in Docs : q.got[d].ver \in {store[d].ver, 0}
    BY <2>2, <2>3
  <2> QED  BY <1>1, <2>1, <2>2, <2>4
<1>4. ASSUME NEW r \in inflight, RecordTxnReads(r) PROVE CountInv'
  BY <1>1, <1>4, RecordFields
<1>5. CASE Restart
  <2>1. /\ inflight' = {} /\ UNCHANGED <<nextXid, started, store>>
        /\ \A s \in Sess : ses'[s].pc = "idle" /\ ses'[s].ctime = 0
    BY <1>5, IdleFields DEF Restart
  <2>2. Unnumbered' = {}
    BY <2>1 DEF Unnumbered
  <2>3. IsFiniteSet(Unnumbered') /\ Cardinality(Unnumbered') = 0
    BY <2>2, FS_EmptySet
  <2>4. nextXid + 0 <= started + 1
    BY <1>a, <1>b DEF CountInv
  <2> QED  BY <2>1, <2>3, <2>4, BoundsAssumption DEF CountInv
<1>6. ASSUME NEW s \in Sess, NEW t, NEW ws, StartCommit(s, t, ws) PROVE CountInv'
  <2>1. /\ Others(s) /\ ses[s].pc = "idle" /\ ses'[s].pc = "lock" /\ ses'[s].ctime = clock
        /\ ses'[s].xid = 0
    BY <1>6, StartFields
  <2>2. /\ UNCHANGED <<store, inflight, nextXid>> /\ started' = started + 1
        /\ started < MaxStarts /\ clock < MaxClock
    BY <1>6, StartRegistry
  <2>3. Unnumbered' = Unnumbered \cup {s} /\ s \notin Unnumbered
    BY <2>1 DEF Unnumbered, Others
  <2>4. IsFiniteSet(Unnumbered') /\ Cardinality(Unnumbered') = Cardinality(Unnumbered) + 1
    BY <1>b, <2>3, FS_AddElement
  <2>5. nextXid' + Cardinality(Unnumbered') <= started' + 1 /\ started' <= MaxStarts
    BY <1>a, <1>b, <2>2, <2>4, BoundsAssumption DEF CountInv
  <2>6. \A r \in Sess : ses'[r].ctime <= MaxClock /\ (ses'[r].pc = "lock" => ses'[r].xid = 0)
    BY <1>a, <2>1, <2>2, BoundsAssumption DEF CountInv, Others
  <2> QED  BY <2>2, <2>4, <2>5, <2>6 DEF CountInv
\* A session goes on with the id it has or does not have.
<1>7. ASSUME NEW s \in Sess, Others(s), UNCHANGED <<store, inflight, nextXid, started>>,
             ses'[s].xid = ses[s].xid, ses'[s].pc # "idle", ses[s].pc # "idle",
             ses'[s].pc = "lock" => ses[s].pc = "lock",
             ses'[s].ctime = ses[s].ctime
      PROVE  CountInv'
  <2>1. Unnumbered' = Unnumbered
    BY <1>7 DEF Unnumbered, Others
  <2> QED  BY <1>7, <2>1 DEF CountInv, Others
\* A session ends, or gets an id.
<1>8. ASSUME NEW s \in Sess, Others(s), UNCHANGED <<inflight, started>>,
             \A d \in Docs : store'[d].ver \in {store[d].ver, 0, ses[s].xid},
             nextXid' = nextXid \/ (nextXid' = nextXid + 1 /\ s \in Unnumbered),
             \/ ses'[s] = IdleSession
             \/ ses'[s].xid = nextXid /\ ses'[s].ctime = ses[s].ctime /\ ses'[s].pc # "lock"
      PROVE  CountInv'
  <2>1. ses'[s].pc = "idle" \/ ses'[s].xid # 0
    BY <1>a, <1>8, IdleFields
  <2>2. /\ IsFiniteSet(Unnumbered') /\ Cardinality(Unnumbered') \in Nat
        /\ Cardinality(Unnumbered') <= Cardinality(Unnumbered)
        /\ s \in Unnumbered => Cardinality(Unnumbered') = Cardinality(Unnumbered) - 1
    BY <1>8, <2>1, NumberedLeaves
  <2>3. nextXid' + Cardinality(Unnumbered') <= started' + 1 /\ nextXid' >= nextXid
    BY <1>a, <1>b, <1>8, <2>2 DEF CountInv
  <2>4. \A d \in Docs : store'[d].ver < nextXid'
    BY <1>a, <1>8 DEF CountInv
  <2>5. \A r \in inflight' : \A d \in Docs : r.got[d].ver < nextXid'
    BY <1>a, <1>8 DEF CountInv
  <2>6. \A r \in Sess : ses'[r].ctime <= MaxClock /\ (ses'[r].pc = "lock" => ses'[r].xid = 0)
    BY <1>8, IdleFields, BoundsAssumption DEF CountInv, Others
  <2> QED  BY <1>8, <2>2, <2>3, <2>4, <2>5, <2>6 DEF CountInv
<1>9. ASSUME NEW s \in Sess, AdvisoryLock(s) PROVE CountInv'
  <2>1. UNCHANGED <<store, inflight, nextXid, started>>
    BY <1>9 DEF AdvisoryLock
  <2> QED  BY <1>7, <1>9, <2>1, LockFields DEF SameCommit
<1>10. ASSUME NEW s \in Sess, Rollback(s) PROVE CountInv'
  <2>1. UNCHANGED <<store, inflight, nextXid, started>>
    BY <1>10 DEF Rollback
  <2> QED  BY <1>8, <1>10, <2>1, EndFields
<1>11. ASSUME NEW s \in Sess, SelectForUpdate(s) PROVE CountInv'
  <2>1. UNCHANGED <<store, inflight, started>>
    BY <1>11, PrivateSteps DEF Private
  <2>2. Others(s) /\ ses[s].pc = "lock" /\ s \in Unnumbered
    BY <1>11, SelectFields DEF CountInv, Unnumbered
  <2>3. \/ ses'[s] = IdleSession /\ nextXid' \in {nextXid, nextXid + 1}
        \/ /\ ses'[s].ctime = ses[s].ctime /\ ses'[s].pc = "apply"
           /\ \/ ses'[s].xid = 0 /\ nextXid' = nextXid
              \/ ses'[s].xid = nextXid /\ nextXid' = nextXid + 1
    BY <1>11, SelectFields DEF SameCommit
  <2>4. CASE ses'[s].pc = "apply" /\ ses'[s].xid = 0 /\ nextXid' = nextXid
              /\ ses'[s].ctime = ses[s].ctime
    BY <1>7, <2>1, <2>2, <2>4 DEF CountInv
  <2> QED  BY <1>8, <2>1, <2>2, <2>3, <2>4
<1>12. ASSUME NEW s \in Sess, ApplyWrite(s) PROVE CountInv'
  <2>1. UNCHANGED <<store, inflight, nextXid, started>>
    BY <1>12 DEF ApplyWrite
  <2>2. /\ Others(s) /\ ses[s].pc = "apply"
        /\ \/ ses'[s] = IdleSession
           \/ /\ ses'[s].pc = "apply" /\ ses'[s].xid = ses[s].xid
              /\ ses'[s].ctime = ses[s].ctime
    BY <1>12, ApplyFields DEF SameCommit
  <2> QED  BY <1>7, <1>8, <2>1, <2>2
<1>13. ASSUME NEW s \in Sess, Persist(s) PROVE CountInv'
  <2>1. UNCHANGED <<store, inflight, started>>
    BY <1>13, PrivateSteps DEF Private
  <2>2. /\ Others(s) /\ ses[s].pc = "apply" /\ ses'[s].pc = "commit"
        /\ ses'[s].ctime = ses[s].ctime
        /\ \/ ses'[s].xid = ses[s].xid /\ nextXid' = nextXid
           \/ ses[s].xid = 0 /\ ses'[s].xid = nextXid /\ nextXid' = nextXid + 1
    BY <1>13, PersistFields DEF SameCommit
  <2>3. ses[s].xid = 0 => s \in Unnumbered
    BY <2>2 DEF Unnumbered
  <2> QED  BY <1>7, <1>8, <2>1, <2>2, <2>3
<1>14. ASSUME NEW s \in Sess, CommitTx(s) PROVE CountInv'
  <2>1. UNCHANGED <<inflight, nextXid, started>>
    BY <1>14 DEF CommitTx
  <2>2. ASSUME NEW d \in Docs PROVE store'[d].ver \in {store[d].ver, 0, ses[s].xid}
    <3>1. store'[d] = IF d \in Dirty(s) THEN Persisted(s, d) ELSE store[d]
      BY <1>14 DEF CommitTx
    <3>2. CASE ses[s].st[d].ex
      <4>1. Persisted(s, d).ver = ses[s].xid
        BY <3>2 DEF Persisted
      <4> QED  BY <3>1, <4>1
    <3>3. CASE ~ses[s].st[d].ex
      <4>1. Persisted(s, d).ver = 0
        BY <3>3 DEF Persisted, Missing
      <4> QED  BY <3>1, <4>1
    <3> QED  BY <3>2, <3>3
  <2> QED  BY <1>8, <1>14, <2>1, <2>2, EndFields
<1> QED  BY <1>2, <1>3, <1>4, <1>5, <1>6, <1>9, <1>10, <1>11, <1>12, <1>13, <1>14,
            StepKindsInDetail DEF Step


(***************************************************************************)
(* What a session has computed after its first writes, in the terms of     *)
(* AtomicStore.                                                            *)
(***************************************************************************)

LEMMA LastToNone == \A ws, d : Atomic!LastTo(ws, 0, d) = 0
<1>1. \A ws, d : {j \in 1..0 : ws[j].doc = d} = {}
  OBVIOUS
<1> QED  BY <1>1 DEF Atomic!LastTo

LEMMA LastToStep ==
    ASSUME NEW ws, NEW n \in Nat, NEW d
    PROVE  Atomic!LastTo(ws, n + 1, d) =
              IF ws[n + 1].doc = d THEN n + 1 ELSE Atomic!LastTo(ws, n, d)
<1> DEFINE js(m) == {j \in 1..m : ws[j].doc = d}
<1>1. CASE ws[n + 1].doc = d
  <2>1. n + 1 \in js(n + 1) /\ \A k \in js(n + 1) : k \in Nat /\ k <= n + 1
    BY <1>1
  <2>2. js(n + 1) # {}
    BY <2>1
  <2> DEFINE j == CHOOSE j \in js(n + 1) : \A k \in js(n + 1) : k <= j
  <2>3. j \in js(n + 1) /\ \A k \in js(n + 1) : k <= j
    <3> HIDE DEF js
    <3> QED  BY <2>1
  <2>4. j = n + 1
    <3> HIDE DEF j
    <3> QED  BY <2>1, <2>3
  <2>5. Atomic!LastTo(ws, n + 1, d) = j
    BY <2>2 DEF Atomic!LastTo
  <2> QED  BY <1>1, <2>4, <2>5
<1>2. CASE ws[n + 1].doc # d
  <2>1. js(n + 1) = js(n)
    BY <1>2
  <2>2. \A m : Atomic!LastTo(ws, m, d) =
           IF js(m) = {} THEN 0 ELSE CHOOSE j \in js(m) : \A k \in js(m) : k <= j
    BY DEF Atomic!LastTo
  <2> HIDE DEF js
  <2>3. Atomic!LastTo(ws, n + 1, d) = Atomic!LastTo(ws, n, d)
    BY <2>1, <2>2
  <2> QED  BY <1>2, <2>3
<1> QED  BY <1>1, <1>2

\* The last write to d among those the session has applied, or 0.
Last(c, d) == Atomic!LastTo(c.req, c.i - 1, d)

\* The state of document d is that after its last write, or as it was read.
StateOf(c, d) ==
    IF Last(c, d) = 0
    THEN /\ c.st[d].dirty = FALSE
         /\ d \in Targets(c.req) => /\ c.st[d].ex = c.existing[d].ex
                                    /\ c.st[d].ut = c.existing[d].ut
    ELSE /\ c.st[d].dirty
         /\ c.st[d].ex = (c.req[Last(c, d)].op = "update")
         /\ c.st[d].ex => /\ c.st[d].ut = c.ctime
                          /\ ~c.existing[d].ex => c.st[d].ct = c.ctime

LEMMA StateOfSame ==
    ASSUME NEW b, NEW c, NEW d, SameCommit(c, b), Last(c, d) = Last(b, d),
           c.st[d] = b.st[d], c.existing[d] = b.existing[d], StateOf(b, d)
    PROVE  StateOf(c, d)
BY DEF StateOf, SameCommit

\* Write j found what its precondition asks for.
Met(c, j) ==
    LET w == c.req[j]
        l == Atomic!LastTo(c.req, j - 1, w.doc)
        found == IF l = 0 THEN c.existing[w.doc].ex ELSE c.req[l].op = "update"
        time == IF l = 0 THEN c.existing[w.doc].ut ELSE c.ctime
    IN  /\ w.pre = "exists" => found
        /\ w.pre = "absent" => ~found
        /\ w.pre = "at" => found /\ time = w.at

Applying(c) ==
    /\ c.pc # "idle" => c.req \in Requests
    /\ c.pc = "lock" => c.i = 1
    /\ c.pc = "commit" => c.i = Len(c.req) + 1
    /\ c.pc \in {"apply", "commit"} =>
          /\ c.i <= Len(c.req) + 1
          /\ \A d \in Docs : StateOf(c, d) /\ Last(c, d) \in 0..(c.i - 1)
          /\ \A j \in 1..(c.i - 1) : Met(c, j) /\ c.st[c.req[j].doc].dirty

ApplyInv == \A s \in Sess : Applying(ses[s])

LEMMA ApplyingIdle == Applying(IdleSession)
BY IdleFields DEF Applying

LEMMA ApplyInit == Init => ApplyInv
BY ApplyingIdle DEF Init, ApplyInv

\* The states built by SELECT ... FOR UPDATE.
LEMMA ApplyingSelected ==
    ASSUME TypeOK, NEW s \in Sess, Applying(ses[s]), LockInv, SelectForUpdate(s)
    PROVE  Applying(ses'[s])
<1>1. CASE ses'[s] = IdleSession
  BY <1>1, ApplyingIdle
<1>2. CASE ses'[s] # IdleSession
  <2>1. /\ SameCommit(ses'[s], ses[s]) /\ ses'[s].pc = "apply" /\ ses'[s].i = ses[s].i
        /\ \A d \in Docs : ses'[s].existing[d] =
              IF d \in ses[s].lockSet THEN store[d] ELSE Missing
        /\ \A d \in Docs : ses'[s].st[d] =
              IF d \in Targets(ses[s].req)
              THEN [ex |-> store[d].ex, ct |-> store[d].ct,
                    ut |-> store[d].ut, dirty |-> FALSE]
              ELSE Untouched
    BY <1>2, SelectFields
  <2>2. ses[s].pc = "lock"
    BY SelectFields
  <2>3. ses[s].i = 1 /\ ses[s].req \in Requests
    BY <2>2 DEF Applying
  <2>4. ASSUME NEW d \in Docs PROVE StateOf(ses'[s], d)
    <3>1. Last(ses'[s], d) = 0
      BY <2>1, <2>3, LastToNone DEF Last
    <3>2. d \in Targets(ses[s].req) => d \in ses[s].lockSet
      BY DEF LockInv, Locked
    <3>3. CASE d \in Targets(ses[s].req)
      <4>1. ses'[s].existing[d] = store[d]
        BY <2>1, <3>2, <3>3
      <4>2. /\ ses'[s].st[d].dirty = FALSE /\ ses'[s].st[d].ex = store[d].ex
            /\ ses'[s].st[d].ut = store[d].ut
        <5>1. ses'[s].st[d] = [ex |-> store[d].ex, ct |-> store[d].ct,
                               ut |-> store[d].ut, dirty |-> FALSE]
          BY <2>1, <3>3
        <5> QED  BY <5>1
      <4> QED  BY <3>1, <4>1, <4>2 DEF StateOf
    <3>4. CASE d \notin Targets(ses[s].req)
      <4>1. ses'[s].st[d] = Untouched
        BY <2>1, <3>4
      <4>2. ses'[s].st[d].dirty = FALSE
        BY <4>1 DEF Untouched
      <4> QED  BY <2>1, <3>1, <3>4, <4>2 DEF StateOf, SameCommit
    <3> QED  BY <3>3, <3>4
  <2>5. Len(ses[s].req) \in Nat
    BY DEF TypeOK, Session
  <2>6. ses'[s].i = 1 /\ ses'[s].i <= Len(ses'[s].req) + 1 /\ ses'[s].req \in Requests
    BY <2>1, <2>3, <2>5 DEF SameCommit
  <2>7. \A d \in Docs : Last(ses'[s], d) \in 0..(ses'[s].i - 1)
    BY <2>6, LastToNone DEF Last
  <2> QED  BY <2>1, <2>4, <2>6, <2>7 DEF Applying
<1> QED  BY <1>1, <1>2

\* One more write.
LEMMA ApplyingWritten ==
    ASSUME TypeOK, NEW s \in Sess, Applying(ses[s]), ApplyWrite(s)
    PROVE  Applying(ses'[s])
<1>1. CASE ses'[s] = IdleSession
  BY <1>1, ApplyingIdle
<1>2. CASE ses'[s] # IdleSession
  <2> DEFINE n == ses[s].i
             w == ses[s].req[n]
             now == ses[s].ctime
  <2>1. /\ ses[s].pc = "apply" /\ n \in 1..Len(ses[s].req)
        /\ SameCommit(ses'[s], ses[s]) /\ ses'[s].pc = "apply"
        /\ PreconditionHolds(ses[s].st[w.doc], w)
        /\ w \in Write
        /\ ses'[s].i = n + 1 /\ ses'[s].existing = ses[s].existing
        /\ \A d \in Docs : ses'[s].st[d] =
              IF d = w.doc THEN Applied(ses[s].st[d], w, now) ELSE ses[s].st[d]
    BY <1>2, ApplyFields
  <2>2. /\ ses[s].req \in Seq(Write) /\ n \in Nat \ {0} /\ Len(ses[s].req) \in Nat
        /\ ses[s].st \in [Docs -> DocState] /\ ses[s].existing \in [Docs -> Version]
        /\ ses[s].req \in Requests /\ ses[s].ctime \in Nat
    BY <2>1 DEF TypeOK, Session, Applying
  <2>3. /\ \A d \in Docs : StateOf(ses[s], d)
        /\ \A j \in 1..(n - 1) : Met(ses[s], j) /\ ses[s].st[ses[s].req[j].doc].dirty
    BY <2>1 DEF Applying
  <2>4. w.doc \in Docs /\ w.op \in {"update", "delete"} /\ w.pre \in PreKinds
    BY <2>1 DEF Write
  <2>5. w.doc \in Targets(ses[s].req)
    BY <2>1 DEF Targets
  <2>6. \A d \in Docs : Last(ses'[s], d) = IF w.doc = d THEN n ELSE Last(ses[s], d)
    <3>1. n - 1 \in Nat /\ n = (n - 1) + 1
      BY <2>2
    <3>2. \A d \in Docs : Atomic!LastTo(ses[s].req, n, d) =
             IF w.doc = d THEN n ELSE Atomic!LastTo(ses[s].req, n - 1, d)
      <4>1. \A d \in Docs : Atomic!LastTo(ses[s].req, (n - 1) + 1, d) =
               IF ses[s].req[(n - 1) + 1].doc = d THEN (n - 1) + 1
               ELSE Atomic!LastTo(ses[s].req, n - 1, d)
        BY <3>1, LastToStep
      <4> QED  BY <3>1, <4>1
    <3>3. ses'[s].req = ses[s].req /\ ses'[s].i - 1 = n
      BY <2>1, <2>2 DEF SameCommit
    <3> QED  BY <3>2, <3>3 DEF Last
  <2> DEFINE a == Applied(ses[s].st[w.doc], w, now)
  <2>7. /\ a.dirty /\ a.ex = (w.op = "update")
        /\ a.ex => a.ut = now /\ a.ct = IF ses[s].st[w.doc].ex THEN ses[s].st[w.doc].ct ELSE now
    <3>1. ses[s].st[w.doc] \in DocState
      BY <2>2, <2>4
    <3> QED  BY <2>4, <3>1 DEF Applied, DocState
  <2>8. ASSUME NEW d \in Docs PROVE StateOf(ses'[s], d)
    <3>1. CASE d = w.doc
      <4>1. ses'[s].st[d] = a /\ Last(ses'[s], d) = n
        BY <2>1, <2>6, <3>1
      <4>2. n # 0 /\ ses'[s].req[n] = w /\ ses'[s].ctime = now
            /\ ses'[s].existing[d] = ses[s].existing[d]
        BY <2>1, <2>2 DEF SameCommit
      <4>3. a.ex /\ ~ses[s].existing[d].ex => a.ct = now
        BY <2>3, <2>5, <2>7, <3>1 DEF StateOf
      <4> HIDE DEF a
      <4> QED  BY <2>7, <4>1, <4>2, <4>3 DEF StateOf
    <3>2. CASE d # w.doc
      <4>1. ses'[s].st[d] = ses[s].st[d] /\ Last(ses'[s], d) = Last(ses[s], d)
        BY <2>1, <2>6, <3>2
      <4> QED  BY <2>1, <2>3, <4>1, StateOfSame
    <3> QED  BY <3>1, <3>2
  <2>9. ASSUME NEW j \in 1..n PROVE Met(ses'[s], j) /\ ses'[s].st[ses'[s].req[j].doc].dirty
    <3>1. Met(ses'[s], j) = Met(ses[s], j) /\ ses'[s].req[j] = ses[s].req[j]
      BY <2>1 DEF Met, SameCommit
    <3>2. ses[s].req[j] \in Write
      BY <2>1, <2>2, <2>9
    <3>3. ses[s].req[j].doc \in Docs
      BY <3>2 DEF Write
    <3>4. CASE j = n
      <4>1. ses'[s].st[w.doc].dirty
        BY <2>1, <2>4, <2>7
      <4>2. Met(ses[s], n)
        <5>1. StateOf(ses[s], w.doc) /\ Last(ses[s], w.doc) = Atomic!LastTo(ses[s].req, n - 1, w.doc)
          BY <2>3, <2>4 DEF Last
        <5>2. ses[s].st[w.doc].ex \in BOOLEAN /\ ses[s].existing[w.doc].ex \in BOOLEAN
          BY <2>2, <2>4 DEF DocState, Version
        <5> QED  BY <2>1, <2>4, <2>5, <5>1, <5>2 DEF Met, StateOf, PreconditionHolds, PreKinds
      <4> QED  BY <3>1, <3>4, <4>1, <4>2
    <3>5. CASE j # n
      <4>1. j \in 1..(n - 1)
        BY <2>2, <3>5
      <4>2. Met(ses[s], j) /\ ses[s].st[ses[s].req[j].doc].dirty
        BY <2>3, <4>1
      <4> QED  BY <2>1, <2>7, <3>1, <3>3, <4>2
    <3> QED  BY <3>4, <3>5
  <2>10. ses'[s].i - 1 = n /\ ses'[s].i <= Len(ses'[s].req) + 1 /\ ses'[s].req \in Requests
    BY <2>1, <2>2 DEF SameCommit
  <2>11. \A d \in Docs : Last(ses'[s], d) \in 0..n
    <3>1. \A d \in Docs : Last(ses[s], d) \in 0..(n - 1)
      BY <2>1 DEF Applying
    <3> QED  BY <2>2, <2>6, <3>1
  <2> QED  BY <2>1, <2>8, <2>9, <2>10, <2>11 DEF Applying
<1> QED  BY <1>1, <1>2

LEMMA ApplyNext == TypeOK /\ LockInv /\ ApplyInv /\ [Next]_vars => ApplyInv'
<1> SUFFICES ASSUME TypeOK, LockInv, ApplyInv, [Next]_vars PROVE ApplyInv'
  OBVIOUS
<1>1. ASSUME NEW s \in Sess, Others(s), Applying(ses'[s]) PROVE ApplyInv'
  BY <1>1 DEF ApplyInv, Others
<1>2. CASE Registry
  BY <1>2 DEF Registry, ApplyInv
<1>3. CASE Restart
  BY <1>3, ApplyingIdle DEF Restart, ApplyInv
<1>4. ASSUME NEW s \in Sess, NEW t, NEW ws \in Requests, StartCommit(s, t, ws) PROVE ApplyInv'
  <2>1. /\ Others(s) /\ ses'[s].pc = "lock" /\ ses'[s].req = ws /\ ses'[s].i = 1
    BY <1>4, StartFields
  <2> QED  BY <1>1, <2>1 DEF Applying
<1>5. ASSUME NEW s \in Sess, AdvisoryLock(s) PROVE ApplyInv'
  <2>1. /\ Others(s) /\ ses[s].pc = "lock" /\ ses'[s].pc = "lock" /\ ses'[s].i = ses[s].i
        /\ ses'[s].req = ses[s].req
    BY <1>5, LockFields DEF SameCommit
  <2> QED  BY <1>1, <2>1 DEF Applying, ApplyInv
<1>6. ASSUME NEW s \in Sess, SelectForUpdate(s) PROVE ApplyInv'
  BY <1>1, <1>6, ApplyingSelected, SelectFields DEF ApplyInv
<1>7. ASSUME NEW s \in Sess, ApplyWrite(s) PROVE ApplyInv'
  BY <1>1, <1>7, ApplyingWritten, ApplyFields DEF ApplyInv
<1>8. ASSUME NEW s \in Sess, Persist(s) PROVE ApplyInv'
  <2>1. /\ Others(s) /\ SameCommit(ses'[s], ses[s]) /\ ses'[s].pc = "commit"
        /\ ses[s].pc = "apply" /\ ses[s].i > Len(ses[s].req)
        /\ ses'[s].i = ses[s].i /\ ses'[s].st = ses[s].st /\ ses'[s].existing = ses[s].existing
    BY <1>8, PersistFields
  <2>2. ses[s].i \in Nat /\ Len(ses[s].req) \in Nat
    BY DEF TypeOK, Session
  <2>3. Applying(ses[s])
    BY DEF ApplyInv
  <2>4. ses'[s].i = Len(ses'[s].req) + 1 /\ ses'[s].req \in Requests
    BY <2>1, <2>2, <2>3 DEF Applying, SameCommit
  <2>5. \A d \in Docs : StateOf(ses'[s], d)
    <3>1. \A d \in Docs : StateOf(ses[s], d) /\ Last(ses'[s], d) = Last(ses[s], d)
      BY <2>1, <2>3 DEF Applying, Last, SameCommit
    <3> QED  BY <2>1, <3>1, StateOfSame
  <2>6. \A d \in Docs : Last(ses'[s], d) \in 0..(ses'[s].i - 1)
    BY <2>1, <2>3 DEF Applying, Last, SameCommit
  <2>7. \A j \in 1..(ses'[s].i - 1) : Met(ses'[s], j) /\ ses'[s].st[ses'[s].req[j].doc].dirty
    <3>1. \A j : Met(ses'[s], j) = Met(ses[s], j)
      BY <2>1 DEF Met, SameCommit
    <3>2. \A j \in 1..(ses[s].i - 1) : Met(ses[s], j) /\ ses[s].st[ses[s].req[j].doc].dirty
      BY <2>1, <2>3 DEF Applying
    <3> QED  BY <2>1, <3>1, <3>2 DEF SameCommit
  <2>8. Applying(ses'[s])
    BY <2>1, <2>2, <2>4, <2>5, <2>6, <2>7 DEF Applying
  <2> QED  BY <1>1, <2>1, <2>8
<1>9. ASSUME NEW s \in Sess, CommitTx(s) \/ Rollback(s) PROVE ApplyInv'
  BY <1>1, <1>9, EndFields, ApplyingIdle
<1> QED  BY <1>2, <1>3, <1>4, <1>5, <1>6, <1>7, <1>8, <1>9, StepKinds DEF Step


(***************************************************************************)
(* Each step is a step of AtomicStore, or none.                            *)
(***************************************************************************)

Log == {[txn |-> h.txn, req |-> h.req, id |-> h.xid] : h \in hist}

\* Everything the refinement rests on.
RefineInv ==
    /\ TypeOK /\ LockInv /\ EventInv /\ TxnInv /\ HistInv
    /\ ReadInv /\ TimeInv /\ CountInv /\ ApplyInv /\ SerializableReads

\* The rows a tx.Commit leaves are those AtomicStore asks for.
LEMMA CommitOutcome ==
    ASSUME RefineInv, NEW s \in Sess, CommitTx(s), NEW d \in Docs
    PROVE  store'[d] = Atomic!Outcome(ses[s].req, d, ses[s].ctime, ses[s].xid)
<1> DEFINE c == ses[s]
           j == Atomic!LastTo(c.req, Len(c.req), d)
<1>1. store'[d] = IF d \in Dirty(s) THEN Persisted(s, d) ELSE store[d]
  BY DEF CommitTx
<1>2. /\ c.pc = "commit" /\ c.i = Len(c.req) + 1 /\ Len(c.req) \in Nat
      /\ StateOf(c, d) /\ Last(c, d) \in 0..(c.i - 1)
  BY DEF CommitTx, RefineInv, ApplyInv, Applying, TypeOK, Session
<1>3. Last(c, d) = j
  BY <1>2 DEF Last
<1>4. c.st[d] \in DocState
  BY DEF RefineInv, TypeOK, Session
<1>5. CASE j = 0
  <2>1. store'[d] = store[d]
    BY <1>1, <1>2, <1>3, <1>5 DEF StateOf, Dirty
  <2> QED  BY <1>5, <2>1 DEF Atomic!Outcome
<1>6. CASE j # 0
  <2>1. /\ c.st[d].dirty /\ c.st[d].ex = (c.req[j].op = "update")
        /\ c.st[d].ex => c.st[d].ut = c.ctime /\ (~c.existing[d].ex => c.st[d].ct = c.ctime)
    BY <1>2, <1>3, <1>6 DEF StateOf
  <2>2. d \in Dirty(s)
    BY <2>1 DEF Dirty
  <2>3. c.existing[d] = store[d]
    BY <1>2, <2>2, DirtyLocked DEF RefineInv, LockInv, VerifiedStable
  <2>4. j \in 1..Len(c.req)
    BY <1>2, <1>3, <1>6
  <2>5. c.req[j].op \in {"update", "delete"}
    <3>1. c.req[j] \in Write
      BY <2>4 DEF RefineInv, TypeOK, Session
    <3> QED  BY <3>1 DEF Write
  <2>6. CASE c.st[d].ex
    <3>1. Persisted(s, d) = [ex |-> TRUE, ct |-> IF store[d].ex THEN store[d].ct ELSE c.ctime,
                             ut |-> c.ctime, ver |-> c.xid]
      BY <2>1, <2>3, <2>6 DEF Persisted
    <3>2. c.req[j].op # "delete"
      BY <2>1, <2>6
    <3> QED  BY <1>1, <1>6, <2>2, <3>1, <3>2 DEF Atomic!Outcome
  <2>7. CASE ~c.st[d].ex
    <3>1. Persisted(s, d) = Missing
      BY <2>7 DEF Persisted
    <3>2. c.req[j].op = "delete"
      BY <2>1, <2>5, <2>7
    <3> QED  BY <1>1, <1>6, <2>2, <3>1, <3>2 DEF Atomic!Outcome, Atomic!NoRow, Missing
  <2> QED  BY <2>6, <2>7
<1> QED  BY <1>5, <1>6

\* Its preconditions hold of the documents as they are at the tx.Commit.
LEMMA CommitPreconditions ==
    ASSUME RefineInv, NEW s \in Sess, CommitTx(s), NEW i \in 1..Len(ses[s].req)
    PROVE  Atomic!PreconditionMet(ses[s].req, i, ses[s].ctime)
<1> DEFINE c == ses[s]
           e == c.req[i].doc
<1>1. c.pc = "commit" /\ c.i = Len(c.req) + 1 /\ Len(c.req) \in Nat
  BY DEF CommitTx, RefineInv, ApplyInv, Applying, TypeOK, Session
<1>2. Met(c, i)
  <2>1. i \in 1..(c.i - 1)
    BY <1>1
  <2> QED  BY <1>1, <2>1 DEF RefineInv, ApplyInv, Applying
<1>3. e \in c.lockSet
  BY DEF Targets, RefineInv, LockInv, Locked
<1>4. c.existing[e] = store[e]
  BY <1>1, <1>3 DEF RefineInv, LockInv, VerifiedStable
<1> QED  BY <1>2, <1>4 DEF Met, Atomic!PreconditionMet, Atomic!Found, Atomic!FoundTime

LEMMA CommitRefines ==
    ASSUME RefineInv, NEW s \in Sess, CommitTx(s)
    PROVE  Atomic!Next
<1> DEFINE c == ses[s]
<1>1. /\ c.pc = "commit" /\ c.i = Len(c.req) + 1 /\ c.req \in Requests
      /\ c.txn \in Txns \cup {NoTxn} /\ c.req \in Seq(Write)
      /\ c.xid \in Nat /\ c.ctime \in Nat
  BY DEF CommitTx, RefineInv, ApplyInv, Applying, TypeOK, Session
<1>2. c.ctime \in 0..MaxClock /\ c.xid \in 0..MaxStarts
  <2>1. c.ctime <= MaxClock /\ c.xid < nextXid
    BY DEF RefineInv, CountInv, EventInv
  <2>2. Cardinality(Unnumbered) \in Nat
    BY FS_CardinalityType DEF RefineInv, CountInv
  <2>3. nextXid + Cardinality(Unnumbered) <= started + 1 /\ started <= MaxStarts
    BY DEF RefineInv, CountInv
  <2>4. nextXid \in Nat /\ started \in Nat
    BY DEF RefineInv, TypeOK
  <2> QED  BY <1>1, <2>1, <2>2, <2>3, <2>4, BoundsAssumption
<1>3. c.txn # NoTxn => /\ \A h \in hist : h.txn # c.txn
                       /\ \A d \in Docs : seen[c.txn][d] \subseteq {store[d].ver}
  BY <1>1 DEF RefineInv, TxnInv, SerializableReads
<1>4. c.txn # NoTxn => ~Atomic!Done(c.txn)
  BY <1>3 DEF Atomic!Done
<1>5. \A i \in 1..Len(c.req) : Atomic!PreconditionMet(c.req, i, c.ctime)
  BY CommitPreconditions
<1>6. c.req # <<>> => c.xid # 0 /\ \A h \in hist : h.xid # c.xid
  <2> SUFFICES ASSUME c.req # <<>> PROVE c.xid # 0 /\ \A h \in hist : h.xid # c.xid
    OBVIOUS
  <2>1. 1 \in 1..Len(c.req) /\ Len(c.req) \in Nat
    BY <1>1
  <2>2. 1 \in 1..(c.i - 1)
    BY <1>1, <2>1
  <2>3. c.st[c.req[1].doc].dirty
    BY <1>1, <2>2 DEF RefineInv, ApplyInv, Applying
  <2>4. c.req[1] \in Write
    BY <1>1, <2>1
  <2>5. c.req[1].doc \in Dirty(s)
    BY <2>3, <2>4 DEF Dirty, Write
  <2>6. c.xid # 0
    BY <1>1, <2>5 DEF RefineInv, EventInv
  <2> QED  BY <2>6 DEF RefineInv, HistInv
<1>7. \A l \in Log : c.req # <<>> => l.id # c.xid
  BY <1>6 DEF Log
<1>8. store' = [d \in Docs |-> Atomic!Outcome(c.req, d, c.ctime, c.xid)]
  <2>1. store' = [d \in Docs |-> store'[d]]
    BY DEF CommitTx
  <2> QED  BY <2>1, CommitOutcome
<1>9. Log' = Log \cup {[txn |-> c.txn, req |-> c.req, id |-> c.xid]}
  <2>1. hist' = hist \cup {CommitRecord(s)}
    BY DEF CommitTx
  <2>2. CommitRecord(s).txn = c.txn /\ CommitRecord(s).req = c.req /\ CommitRecord(s).xid = c.xid
    BY DEF CommitRecord
  <2> QED  BY <2>1, <2>2 DEF Log
<1>10. seen' = seen
  BY DEF CommitTx
<1>11. \E t \in Txns \cup {NoTxn}, ws \in Requests, now \in 0..MaxClock, id \in 0..MaxStarts :
         Atomic!Commit(t, ws, now, id)
  <2>1. PICK t \in Txns \cup {NoTxn}, ws \in Requests, now \in 0..MaxClock,
             id \in 0..MaxStarts :
           t = c.txn /\ ws = c.req /\ now = c.ctime /\ id = c.xid
    BY <1>1, <1>2
  <2>2. Atomic!Commit(t, ws, now, id)
    BY <1>3, <1>4, <1>5, <1>6, <1>7, <1>8, <1>9, <1>10, <2>1 DEF Atomic!Commit, Log
  <2> QED  BY <2>2
<1> QED  BY <1>11 DEF Atomic!Next

LEMMA RecordRefines ==
    ASSUME RefineInv, NEW r \in inflight, RecordTxnReads(r)
    PROVE  Atomic!Next \/ UNCHANGED Atomic!vars
<1>1. r.txn \in Txns /\ r.docs \in SUBSET Docs
  BY DEF RefineInv, TypeOK
<1>2. UNCHANGED <<store, hist>>
  BY DEF RecordTxnReads
<1>3. CASE r.txn \notin live
  <2>1. seen' = seen
    BY <1>3 DEF RecordTxnReads
  <2> QED  BY <1>2, <2>1 DEF Atomic!vars
<1>4. CASE r.txn \in live
  <2> DEFINE v == [d \in r.docs |-> r.got[d].ver]
  <2>1. v \in [r.docs -> 0..MaxStarts]
    <3>1. ASSUME NEW d \in r.docs PROVE r.got[d].ver \in 0..MaxStarts
      <4>1. r.got[d].ver \in Nat /\ r.got[d].ver < nextXid
        BY <1>1 DEF RefineInv, TypeOK, Version, CountInv
      <4>2. Cardinality(Unnumbered) \in Nat
        BY FS_CardinalityType DEF RefineInv, CountInv
      <4>3. nextXid + Cardinality(Unnumbered) <= started + 1 /\ started <= MaxStarts
        BY DEF RefineInv, CountInv
      <4>4. nextXid \in Nat /\ started \in Nat
        BY DEF RefineInv, TypeOK
      <4> QED  BY <4>1, <4>2, <4>3, <4>4, BoundsAssumption
    <3> QED  BY <3>1
  <2>2. ~Atomic!Done(r.txn)
    BY <1>1, <1>4, TxnAssumption DEF Atomic!Done, RefineInv, TxnInv
  <2>3. seen' = [seen EXCEPT ![r.txn] =
                   [d \in Docs |-> IF d \in r.docs THEN @[d] \cup {v[d]} ELSE @[d]]]
    BY <1>4 DEF RecordTxnReads
  <2>4. \E u \in [r.docs -> 0..MaxStarts] :
           seen' = [seen EXCEPT ![r.txn] =
                      [d \in Docs |-> IF d \in r.docs THEN @[d] \cup {u[d]} ELSE @[d]]]
    BY <2>1, <2>3
  <2>5. Atomic!Read(r.txn, r.docs)
    BY <1>2, <2>2, <2>4 DEF Atomic!Read
  <2> QED  BY <1>1, <2>5 DEF Atomic!Next
<1> QED  BY <1>3, <1>4

LEMMA NextRefines ==
    RefineInv /\ [Next]_vars => Atomic!Next \/ UNCHANGED Atomic!vars
<1> SUFFICES ASSUME RefineInv, [Next]_vars PROVE Atomic!Next \/ UNCHANGED Atomic!vars
  OBVIOUS
<1>1. CASE UNCHANGED <<store, seen, hist>>
  BY <1>1 DEF Atomic!vars
<1>2. CASE Quiet
  BY <1>1, <1>2 DEF Quiet
<1>3. CASE Restart
  BY <1>1, <1>3 DEF Restart, histVars
<1>4. ASSUME NEW t \in Txns, NEW D \in SUBSET Docs, GetDocuments(t, D)
      PROVE  Atomic!Next \/ UNCHANGED Atomic!vars
  BY <1>1, <1>4 DEF GetDocuments, histVars
<1>5. ASSUME NEW s \in Sess, NEW t, NEW ws, StartCommit(s, t, ws)
      PROVE  Atomic!Next \/ UNCHANGED Atomic!vars
  BY <1>1, <1>5, StartRegistry
<1>6. ASSUME NEW s \in Sess, \/ AdvisoryLock(s) \/ SelectForUpdate(s) \/ ApplyWrite(s)
                             \/ Persist(s) \/ Rollback(s)
      PROVE  Atomic!Next \/ UNCHANGED Atomic!vars
  BY <1>1, <1>6, PrivateSteps DEF Private
<1> QED  BY <1>2, <1>3, <1>4, <1>5, <1>6, CommitRefines, RecordRefines, StepKindsInDetail
         DEF Step

LEMMA InitRefines == Init => Atomic!Init
<1> SUFFICES ASSUME Init PROVE Atomic!Init
  OBVIOUS
<1>1. Log = {}
  BY DEF Init, Log
<1> QED  BY <1>1 DEF Init, Atomic!Init, Atomic!NoRow, Missing, Log

\* Under the same two conditions the write path implements AtomicStore: whatever
\* statements interleave, fail or are repeated, for any number of documents,
\* commits and transactions, the table changes only by whole commits whose
\* preconditions hold, each applied once and only on current versions.
THEOREM ImplementsAtomicStore ==
    ASSUME DistinctTimes, ~ReReads
    PROVE  Spec => Implements
<1>1. Spec => []RefineInv
  <2>1. Spec => [](ReadInv /\ TimeInv)
    BY LocksInvariant, TxnInit, TxnNext, ReadInit, ReadNext, TimeInit, TimeNext,
       PTL DEF Spec
  <2>2. Spec => [](CountInv /\ ApplyInv)
    BY EventsInvariant, CountInit, CountNext, ApplyInit, ApplyNext, PTL DEF Spec
  <2> QED  BY <2>1, <2>2, HistoryInvariant, SerializableReadsHolds, PTL DEF RefineInv
<1> QED  BY <1>1, InitRefines, NextRefines, PTL DEF Spec, Implements, Atomic!Spec
=============================================================================
