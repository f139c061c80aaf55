-------------------------- MODULE ChangeFeedProofs --------------------------
(***************************************************************************)
(* Proofs about ChangeFeed: any number of writers and consumers, any       *)
(* limit, any filters, with pruning and with consumers that resume.        *)
(***************************************************************************)
EXTENDS ChangeFeed, TLAPS

LEMMA TypeInit == Init => TypeOK
BY DEF Init, TypeOK, Tx, Closed, Cursor, Start

LEMMA TypeNext == TypeOK /\ [Next]_vars => TypeOK'
<1> SUFFICES ASSUME TypeOK, [Next]_vars PROVE TypeOK'
  OBVIOUS
<1> USE DEF TypeOK, feedVars, readVars
<1>0. CASE UNCHANGED vars
  BY <1>0 DEF vars
<1>1. CASE Tick
  BY <1>1 DEF Tick
<1>2. CASE PruneChanges
  BY <1>2 DEF PruneChanges
<1>3. ASSUME NEW w \in Writers, Begin(w) PROVE TypeOK'
  BY <1>3 DEF Begin, Tx, Closed
<1>4. ASSUME NEW w \in Writers, AssignXid(w) PROVE TypeOK'
  <2>1. [tx[w] EXCEPT !.xid = nextXid] \in Tx
    BY DEF Tx
  <2>2. tx' = [tx EXCEPT ![w] = [tx[w] EXCEPT !.xid = nextXid]]
    BY <1>4 DEF AssignXid
  <2> QED  BY <1>4, <2>1, <2>2 DEF AssignXid
<1>5. ASSUME NEW w \in Writers, NEW k \in Collections, AppendChange(w, k) PROVE TypeOK'
  <2>1. [xid |-> tx[w].xid, seq |-> nextSeq, coll |-> k, at |-> tx[w].start] \in Row
    BY DEF Tx, Row
  <2> DEFINE R == tx[w].rows \cup
           {[xid |-> tx[w].xid, seq |-> nextSeq, coll |-> k, at |-> tx[w].start]}
  <2>2. R \in SUBSET Row
    BY <2>1 DEF Tx
  <2>3. tx' = [tx EXCEPT ![w] = [tx[w] EXCEPT !.rows = R]]
    BY <1>5 DEF AppendChange
  <2> HIDE DEF R
  <2>4. [tx[w] EXCEPT !.rows = R] \in Tx
    BY <2>2 DEF Tx
  <2>5. tx' \in [Writers -> Tx]
    BY <2>3, <2>4
  <2>6. nextSeq' \in Nat \ {0}
    BY <1>5 DEF AppendChange
  <2> QED  BY <1>5, <2>5, <2>6 DEF AppendChange
<1>6. ASSUME NEW w \in Writers, Commit(w) PROVE TypeOK'
  <2>1. tx[w].rows \subseteq Row /\ tx[w].xid \in Nat /\ Closed \in Tx
    BY DEF Tx, Closed
  <2> QED  BY <1>6, <2>1 DEF Commit
<1>7. ASSUME NEW w \in Writers, Abort(w) PROVE TypeOK'
  BY <1>7 DEF Abort, Tx, Closed
<1>8. ASSUME NEW c \in Consumers, Changes(c) PROVE TypeOK'
  BY <1>8 DEF Changes, Page, Row, Cursor
<1>9. ASSUME NEW c \in Consumers, SaveCursor(c) PROVE TypeOK'
  BY <1>9 DEF SaveCursor
<1>10. ASSUME NEW c \in Consumers, Resume(c) PROVE TypeOK'
  BY <1>10 DEF Resume
<1> QED  BY <1>0, <1>1, <1>2, <1>3, <1>4, <1>5, <1>6, <1>7, <1>8, <1>9, <1>10 DEF Next

(***************************************************************************)
(* The invariant behind the feed: rows carry the id of their transaction,  *)
(* and every cursor lies below the low-water mark.                         *)
(***************************************************************************)

RowInv ==
    /\ \A w \in Writers : tx[w].xid < nextXid
    /\ \A w \in Writers : \A e \in tx[w].rows : e.xid = tx[w].xid /\ tx[w].xid # 0
    /\ \A e \in log : e.xid < nextXid

CursorInv == \A c \in Consumers : Settled(pos[c].xid) /\ Settled(saved[c].xid)

FeedInv == RowInv /\ CursorInv /\ NoEventSkipped

LEMMA FeedInit == Init => FeedInv
BY DEF Init, FeedInv, RowInv, CursorInv, NoEventSkipped, Settled, Closed, Start

LEMMA RowNext == TypeOK /\ RowInv /\ [Next]_vars => RowInv'
<1> SUFFICES ASSUME TypeOK, RowInv, [Next]_vars PROVE RowInv'
  OBVIOUS
<1> USE DEF TypeOK, RowInv, feedVars, readVars
<1>0. CASE UNCHANGED vars
  BY <1>0 DEF vars
<1>1. CASE Tick
  BY <1>1 DEF Tick
<1>2. CASE PruneChanges
  BY <1>2 DEF PruneChanges
<1>3. ASSUME NEW w \in Writers, Begin(w) PROVE RowInv'
  BY <1>3 DEF Begin, Tx, Closed
<1>4. ASSUME NEW w \in Writers, AssignXid(w) PROVE RowInv'
  BY <1>4 DEF AssignXid, Tx, Row
<1>5. ASSUME NEW w \in Writers, NEW k \in Collections, AppendChange(w, k) PROVE RowInv'
  BY <1>5 DEF AppendChange, Tx
<1>6. ASSUME NEW w \in Writers, Commit(w) PROVE RowInv'
  BY <1>6 DEF Commit, Tx, Closed
<1>7. ASSUME NEW w \in Writers, Abort(w) PROVE RowInv'
  BY <1>7 DEF Abort, Tx, Closed
<1>8. ASSUME NEW c \in Consumers, Changes(c) PROVE RowInv'
  BY <1>8 DEF Changes
<1>9. ASSUME NEW c \in Consumers, SaveCursor(c) PROVE RowInv'
  BY <1>9 DEF SaveCursor
<1>10. ASSUME NEW c \in Consumers, Resume(c) PROVE RowInv'
  BY <1>10 DEF Resume
<1> QED  BY <1>0, <1>1, <1>2, <1>3, <1>4, <1>5, <1>6, <1>7, <1>8, <1>9, <1>10 DEF Next

\* What is below the low-water mark stays below it.
LEMMA SettledStays ==
    ASSUME TypeOK, RowInv, [Next]_vars, NEW x \in Nat, Settled(x)
    PROVE  Settled(x)'
<1> USE DEF Settled, TypeOK, feedVars, readVars
<1>1. CASE \E w \in Writers : AssignXid(w)
  <2>1. PICK w \in Writers : AssignXid(w)
    BY <1>1
  <2>2. \A v \in Writers : tx'[v].xid = IF v = w THEN nextXid ELSE tx[v].xid
    BY <2>1 DEF AssignXid, Tx
  <2>3. nextXid' = nextXid + 1
    BY <2>1 DEF AssignXid
  <2> QED  BY <2>2, <2>3
<1>2. CASE \E w \in Writers : Begin(w) \/ Commit(w) \/ Abort(w)
  <2>1. PICK w \in Writers : Begin(w) \/ Commit(w) \/ Abort(w)
    BY <1>2
  <2>2. \A v \in Writers : tx'[v].xid = IF v = w THEN 0 ELSE tx[v].xid
    <3>1. Closed.xid = 0 /\ [Closed EXCEPT !.open = TRUE, !.start = clock].xid = 0
      BY DEF Closed
    <3>2. CASE Begin(w)
      BY <3>1, <3>2 DEF Begin
    <3>3. CASE Commit(w) \/ Abort(w)
      BY <3>1, <3>3 DEF Commit, Abort
    <3> QED  BY <2>1, <3>2, <3>3
  <2>3. nextXid' = nextXid
    BY <2>1 DEF Begin, Commit, Abort
  <2> QED  BY <2>2, <2>3
<1>3. CASE \E w \in Writers, k \in Collections : AppendChange(w, k)
  <2>0. PICK w \in Writers, k \in Collections : AppendChange(w, k)
    BY <1>3
  <2>1. \A v \in Writers : tx'[v].xid = tx[v].xid
    BY <2>0 DEF AppendChange, Tx
  <2>2. nextXid' = nextXid
    BY <1>3 DEF AppendChange
  <2> QED  BY <2>1, <2>2
<1>4. CASE UNCHANGED <<tx, nextXid>>
  BY <1>4
<1> QED  BY <1>1, <1>2, <1>3, <1>4
         DEF Next, Tick, PruneChanges, Changes, SaveCursor, Resume, vars

\* A transaction that is still open sorts after all that is settled.
LEMMA OpenIsAfter ==
    ASSUME TypeOK, RowInv, NEW w \in Writers, NEW e \in tx[w].rows,
           NEW p, p.xid \in Nat, Settled(p.xid)
    PROVE  Before(p, e)
BY DEF RowInv, Settled, Before, TypeOK, Tx, Row

LEMMA FeedNext == TypeOK /\ FeedInv /\ [Next]_vars => FeedInv'
<1> SUFFICES ASSUME TypeOK, FeedInv, [Next]_vars PROVE FeedInv'
  OBVIOUS
<1>1. RowInv'
  BY RowNext DEF FeedInv
<1>2. \A c \in Consumers : pos[c].xid \in Nat /\ saved[c].xid \in Nat
  BY DEF TypeOK, Cursor
<1>3. \A x \in Nat : Settled(x) => Settled(x)'
  BY SettledStays DEF FeedInv
<1>4. CASE \E c \in Consumers : Changes(c)
  <2>1. PICK c \in Consumers : Changes(c)
    BY <1>4
  <2>2. PICK B \in (SUBSET Page(c)) \ {{}} :
          /\ FirstRows(Page(c), B)
          /\ delivered' = [delivered EXCEPT ![c] = @ \cup B]
          /\ \E last \in B :
               /\ \A e \in B : e = last \/ Before(e, last)
               /\ pos' = [pos EXCEPT ![c] = [xid |-> last.xid, seq |-> last.seq]]
    BY <2>1 DEF Changes
  <2>3. PICK last \in B :
               /\ \A e \in B : e = last \/ Before(e, last)
               /\ pos' = [pos EXCEPT ![c] = [xid |-> last.xid, seq |-> last.seq]]
    BY <2>2
  <2>4. last \in Row /\ last \in log /\ Settled(last.xid)
    BY <2>2, <2>3 DEF Page, TypeOK
  <2>5. UNCHANGED <<nextXid, tx, log, saved>>
    BY <2>1 DEF Changes, feedVars
  <2>6. pos'[c].xid = last.xid /\ pos'[c].seq = last.seq
          /\ \A b \in Consumers : b # c => pos'[b] = pos[b]
    BY <2>3 DEF TypeOK
  <2>7. CursorInv'
    BY <2>4, <2>5, <2>6 DEF FeedInv, CursorInv, Settled
  <2>8. ASSUME NEW e \in log, Matches(c, e), AtOrBefore(e, pos'[c])
        PROVE  e \in delivered'[c]
    <3>1. delivered'[c] = delivered[c] \cup B
      BY <2>2 DEF TypeOK
    <3>2. CASE AtOrBefore(e, pos[c])
      BY <2>8, <3>1, <3>2 DEF FeedInv, NoEventSkipped
    <3>3. CASE Before(pos[c], e)
      <4>1. e \in Row /\ e.xid <= last.xid
        BY <2>4, <2>6, <2>8 DEF AtOrBefore, Before, TypeOK, Row
      <4>2. Settled(e.xid)
        BY <2>4, <4>1 DEF Settled, TypeOK, Tx, Row
      <4>3. e \in Page(c)
        BY <2>8, <3>3, <4>2 DEF Page
      <4>4. e \in B
        BY <2>2, <2>3, <2>6, <2>8, <4>3 DEF FirstRows, AtOrBefore, Before
      <4> QED  BY <3>1, <4>4
    <3> QED  BY <3>2, <3>3 DEF AtOrBefore
  <2>9. NoEventSkipped'
    <3>1. ASSUME NEW b \in Consumers, NEW e \in log, Matches(b, e),
                 AtOrBefore(e, pos'[b]) \/ AtOrBefore(e, saved[b])
          PROVE  e \in delivered'[b]
      <4>1. delivered[b] \subseteq delivered'[b]
        BY <2>2 DEF TypeOK
      <4>2. CASE AtOrBefore(e, pos[b]) \/ AtOrBefore(e, saved[b])
        BY <3>1, <4>1, <4>2 DEF FeedInv, NoEventSkipped
      <4>3. CASE b = c /\ AtOrBefore(e, pos'[c])
        BY <3>1, <2>8, <4>3
      <4> QED  BY <2>6, <3>1, <4>2, <4>3
    <3> QED  BY <2>5, <3>1 DEF NoEventSkipped, Matches, AtOrBefore, Before
  <2> QED  BY <1>1, <2>7, <2>9 DEF FeedInv
<1>5. CASE \E w \in Writers : Commit(w)
  <2>1. PICK w \in Writers : Commit(w)
    BY <1>5
  <2>2. log' = log \cup tx[w].rows /\ UNCHANGED <<pos, saved, delivered>>
    BY <2>1 DEF Commit, readVars
  <2>3. \A c \in Consumers, e \in tx[w].rows : Before(pos[c], e) /\ Before(saved[c], e)
    BY <1>2, OpenIsAfter DEF FeedInv, CursorInv
  <2>4. NoEventSkipped'
    BY <2>2, <2>3 DEF FeedInv, NoEventSkipped, AtOrBefore, Before, Matches
  <2>5. CursorInv'
    BY <1>2, <1>3, <2>2 DEF FeedInv, CursorInv
  <2> QED  BY <1>1, <2>4, <2>5 DEF FeedInv
<1>6. CASE \E c \in Consumers : SaveCursor(c) \/ Resume(c)
  <2>1. PICK c \in Consumers : SaveCursor(c) \/ Resume(c)
    BY <1>6
  <2>2. UNCHANGED <<nextXid, tx, log, delivered>>
    BY <2>1 DEF SaveCursor, Resume, feedVars
  <2>3. \A b \in Consumers : pos'[b] \in {pos[b], saved[b]} /\ saved'[b] \in {pos[b], saved[b]}
    BY <2>1 DEF SaveCursor, Resume, TypeOK
  <2>4. CursorInv'
    BY <2>2, <2>3 DEF FeedInv, CursorInv, Settled
  <2>5. NoEventSkipped'
    BY <2>2, <2>3 DEF FeedInv, NoEventSkipped, AtOrBefore, Before, Matches
  <2> QED  BY <1>1, <2>4, <2>5 DEF FeedInv
<1>7. CASE log' \subseteq log /\ UNCHANGED <<pos, saved, delivered>>
  <2>1. NoEventSkipped'
    BY <1>7 DEF FeedInv, NoEventSkipped, AtOrBefore, Before, Matches
  <2>2. CursorInv'
    BY <1>2, <1>3, <1>7 DEF FeedInv, CursorInv
  <2> QED  BY <1>1, <2>1, <2>2 DEF FeedInv
<1> QED  BY <1>4, <1>5, <1>6, <1>7 DEF Next, Tick, PruneChanges, Begin, AssignXid,
            AppendChange, Abort, vars, feedVars, readVars

\* Every variable of the feed keeps its type in every behaviour.
THEOREM TypeCorrect == Spec => []TypeOK
BY TypeInit, TypeNext, PTL DEF Spec

\* Rows carry the id of their transaction, every cursor, current or saved, lies
\* below the low-water mark, and none has passed an event it was not given: the
\* three are inductive together.
THEOREM FeedInvariant == Spec => [](TypeOK /\ FeedInv)
BY TypeInit, TypeNext, FeedInit, FeedNext, PTL DEF Spec

\* No consumer's cursor ever passes an event of its collection that it was not
\* given, however transactions interleave, abort, or outlive later ones.
THEOREM NoEventSkippedHolds == Spec => []NoEventSkipped
BY FeedInvariant, PTL DEF FeedInv

\* What becomes readable sorts after all that was: the readable part of the
\* changelog is a log that only grows at its end.
THEOREM StableGrowsAtEndHolds == Spec => StableGrowsAtEnd
<1>1. ASSUME TypeOK, FeedInv, [Next]_vars
      PROVE  [\A e \in Stable' \ Stable, f \in Stable : Before(f, e)]_vars
  <2>1. ASSUME NEW e \in Stable' \ Stable, NEW f \in Stable PROVE Before(f, e)
    <3>1. f \in Row /\ Settled(f.xid)
      BY <1>1, <2>1 DEF Stable, TypeOK
    <3>2. CASE e \in log
      <4>1. ~Settled(e.xid) /\ e \in Row
        BY <1>1, <2>1, <3>2 DEF Stable, TypeOK
      <4>2. PICK w \in Writers : tx[w].xid # 0 /\ ~(e.xid < tx[w].xid)
        BY <1>1, <3>2, <4>1 DEF Settled, FeedInv, RowInv
      <4>3. f.xid < tx[w].xid
        BY <3>1, <4>2 DEF Settled
      <4> QED  BY <1>1, <3>1, <4>1, <4>2, <4>3 DEF Before, TypeOK, Tx, Row
    <3>3. CASE e \notin log
      <4>1. e \in log'
        BY <2>1 DEF Stable
      <4>2. PICK w \in Writers : e \in tx[w].rows
        BY <1>1, <3>3, <4>1 DEF Next, Tick, PruneChanges, Begin, AssignXid, AppendChange,
           Abort, Commit, Changes, SaveCursor, Resume, vars, feedVars
      <4>3. f.xid \in Nat
        BY <3>1 DEF Row
      <4> QED  BY <1>1, <3>1, <4>2, <4>3, OpenIsAfter DEF FeedInv
    <3> QED  BY <3>2, <3>3
  <2> QED  BY <2>1
<1> QED  BY <1>1, FeedInvariant, PTL DEF Spec, StableGrowsAtEnd
=============================================================================
