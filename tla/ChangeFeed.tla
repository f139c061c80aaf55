----------------------------- MODULE ChangeFeed -----------------------------
(***************************************************************************)
(* The change feed (internal/store/changelog.go, migration 0004): rows     *)
(* appended inside document transactions, and consumers that tail them by  *)
(* a (transaction id, sequence number) cursor below Postgres' low-water    *)
(* mark pg_snapshot_xmin.                                                  *)
(*                                                                         *)
(* Transaction ids and sequence numbers are handed out before the commit,  *)
(* so rows become visible in another order than the one they are read in.  *)
(* A consumer is the loop a caller of Changes writes: poll after the       *)
(* cursor, handle the rows, remember the last one; it may stop and resume  *)
(* from the cursor it saved.                                               *)
(***************************************************************************)
EXTENDS Integers, Sequences, FiniteSets

CONSTANTS
    Writers,       \* Postgres backends that run document transactions
    Consumers,     \* readers of the feed
    Collections,   \* collection ids
    Filter,        \* a consumer's collection, or AllCollections
    AllCollections,
    RequestLimit,  \* the limit argument of Changes
    DefaultLimit,  \* the 500 of the code
    Retention,     \* PruneChanges' age
    MaxXid,        \* bound: transaction ids assigned
    MaxSeq,        \* bound: changelog rows appended
    MaxClock       \* bound: clock ticks

ASSUME FilterAssumption ==
    /\ AllCollections \notin Collections
    /\ Filter \in [Consumers -> Collections \cup {AllCollections}]
ASSUME LimitAssumption ==
    /\ RequestLimit \in Int
    /\ DefaultLimit \in Nat \ {0}
    /\ Retention \in Nat
ASSUME BoundsAssumption == MaxXid \in Nat /\ MaxSeq \in Nat /\ MaxClock \in Nat

VARIABLES
    clock,      \* now()
    nextXid,    \* the transaction id counter
    nextSeq,    \* the bigserial of changelog
    tx,         \* the open transactions
    log,        \* the committed rows of changelog
    pos,        \* the cursor a consumer polls from
    saved,      \* the cursor it resumes from
    delivered,  \* history: the rows handed to a consumer
    done        \* history: transactions with rows, in the order they committed

feedVars == <<log, done>>
readVars == <<pos, saved, delivered>>
vars == <<clock, nextXid, nextSeq, tx, log, pos, saved, delivered, done>>

Row == [xid : Nat, seq : Nat, coll : Collections, at : Nat]
Cursor == [xid : Nat, seq : Nat]

\* The zero value of Cursor.
Start == [xid |-> 0, seq |-> 0]

\* A transaction: its id (0: none assigned yet), now() at its start, and the
\* rows it has appended.
Tx == [open : BOOLEAN, xid : Nat, start : Nat, rows : SUBSET Row]
Closed == [open |-> FALSE, xid |-> 0, start |-> 0, rows |-> {}]

\* The order of the feed: ORDER BY xid, seq.
Before(p, q) == p.xid < q.xid \/ (p.xid = q.xid /\ p.seq < q.seq)

\* Mutant: rows of unfinished neighbours do not hold the feed back.
SettledAtOnce(x) == x < nextXid

\* x < pg_snapshot_xmin(pg_current_snapshot()): every transaction up to x has
\* ended, and what it did is in the snapshot.
Settled(x) ==
    /\ x < nextXid
    /\ \A w \in Writers : tx[w].xid # 0 => x < tx[w].xid

Matches(c, e) == Filter[c] \in {AllCollections, e.coll}

\* Mutant: the rows are resumed by sequence number alone.
PageBySeq(c) == {e \in log : Settled(e.xid) /\ e.seq > pos[c].seq /\ Matches(c, e)}

\* Mutant: rows of the cursor's own transaction count as read.
PageByXid(c) == {e \in log : Settled(e.xid) /\ e.xid > pos[c].xid /\ Matches(c, e)}

\* The rows that satisfy the WHERE clause of Changes.
Page(c) == {e \in log : Settled(e.xid) /\ Before(pos[c], e) /\ Matches(c, e)}

Limit == IF RequestLimit <= 0 THEN DefaultLimit ELSE RequestLimit

\* ORDER BY xid, seq LIMIT n: the first rows of a page.
FirstRows(S, B) ==
    /\ B \subseteq S
    /\ \A e \in B, f \in S \ B : Before(e, f)
    /\ Cardinality(B) = IF Cardinality(S) < Limit THEN Cardinality(S) ELSE Limit

-----------------------------------------------------------------------------

Init ==
    /\ clock = 0 /\ nextXid = 1 /\ nextSeq = 1
    /\ tx = [w \in Writers |-> Closed]
    /\ log = {}
    /\ pos = [c \in Consumers |-> Start]
    /\ saved = [c \in Consumers |-> Start]
    /\ delivered = [c \in Consumers |-> {}]
    /\ done = <<>>

Tick ==
    /\ clock < MaxClock
    /\ clock' = clock + 1
    /\ UNCHANGED <<nextXid, nextSeq, tx, feedVars, readVars>>

(***************************************************************************)
(* Document transactions.                                                  *)
(***************************************************************************)

Begin(w) ==
    /\ ~tx[w].open
    /\ tx' = [tx EXCEPT ![w] = [Closed EXCEPT !.open = TRUE, !.start = clock]]
    /\ UNCHANGED <<clock, nextXid, nextSeq, feedVars, readVars>>

\* The first statement that locks or writes a row: SELECT ... FOR UPDATE, or
\* any statement of a transaction that appends nothing to the feed.
AssignXid(w) ==
    /\ tx[w].open /\ tx[w].xid = 0
    /\ nextXid <= MaxXid
    /\ tx' = [tx EXCEPT ![w].xid = nextXid]
    /\ nextXid' = nextXid + 1
    /\ UNCHANGED <<clock, nextSeq, feedVars, readVars>>

\* Mutant: the collection id is left empty, which is not a collection but what a
\* caller of Changes passes to read them all.
AppendChangeUnfiled(w, k) ==
    /\ tx[w].xid # 0
    /\ nextSeq <= MaxSeq
    /\ tx' = [tx EXCEPT ![w].rows = @ \cup
         {[xid |-> tx[w].xid, seq |-> nextSeq, coll |-> AllCollections,
           at |-> tx[w].start]}]
    /\ nextSeq' = nextSeq + 1
    /\ UNCHANGED <<clock, nextXid, feedVars, readVars>>

\* appendChange.  pg_current_xact_id() would assign an id; the upsert or the
\* delete before it always has.
AppendChange(w, k) ==
    /\ tx[w].xid # 0
    /\ nextSeq <= MaxSeq
    /\ tx' = [tx EXCEPT ![w].rows = @ \cup
         {[xid |-> tx[w].xid, seq |-> nextSeq, coll |-> k, at |-> tx[w].start]}]
    /\ nextSeq' = nextSeq + 1
    /\ UNCHANGED <<clock, nextXid, feedVars, readVars>>

Commit(w) ==
    /\ tx[w].open
    /\ log' = log \cup tx[w].rows
    /\ done' = IF tx[w].rows = {} THEN done ELSE Append(done, tx[w].xid)
    /\ tx' = [tx EXCEPT ![w] = Closed]
    /\ UNCHANGED <<clock, nextXid, nextSeq, readVars>>

\* The rows vanish, their sequence numbers are not given out again.
Abort(w) ==
    /\ tx[w].open
    /\ tx' = [tx EXCEPT ![w] = Closed]
    /\ UNCHANGED <<clock, nextXid, nextSeq, feedVars, readVars>>

(***************************************************************************)
(* Readers.                                                                *)
(***************************************************************************)

\* Changes(after, collectionID, limit), and the consumer's handling of the
\* rows: its cursor moves to the last of them.
Changes(c) ==
    \E B \in (SUBSET Page(c)) \ {{}} :
        /\ FirstRows(Page(c), B)
        /\ delivered' = [delivered EXCEPT ![c] = @ \cup B]
        /\ \E last \in B :
             /\ \A e \in B : e = last \/ Before(e, last)
             /\ pos' = [pos EXCEPT ![c] = [xid |-> last.xid, seq |-> last.seq]]
        /\ UNCHANGED <<clock, nextXid, nextSeq, tx, feedVars, saved>>

SaveCursor(c) ==
    /\ saved[c] # pos[c]
    /\ saved' = [saved EXCEPT ![c] = pos[c]]
    /\ UNCHANGED <<clock, nextXid, nextSeq, tx, feedVars, pos, delivered>>

Resume(c) ==
    /\ saved[c] # pos[c]
    /\ pos' = [pos EXCEPT ![c] = saved[c]]
    /\ UNCHANGED <<clock, nextXid, nextSeq, tx, feedVars, saved, delivered>>

\* PruneChanges: DELETE ... WHERE at < now() - age.
PruneChanges ==
    /\ \E e \in log : e.at < clock - Retention
    /\ log' = {e \in log : e.at >= clock - Retention}
    /\ UNCHANGED <<clock, nextXid, nextSeq, tx, done, readVars>>

Next ==
    \/ Tick
    \/ PruneChanges
    \/ \E w \in Writers : \/ Begin(w) \/ AssignXid(w) \/ Commit(w) \/ Abort(w)
                          \/ \E k \in Collections : AppendChange(w, k)
    \/ \E c \in Consumers : Changes(c) \/ SaveCursor(c) \/ Resume(c)

Spec == Init /\ [][Next]_vars

\* Transactions end (Postgres answers, or the deferred rollback runs), and a
\* consumer keeps polling and now and then gets to save its cursor.
Fairness ==
    /\ \A w \in Writers : WF_vars(Commit(w) \/ Abort(w))
    /\ \A c \in Consumers : WF_vars(Changes(c)) /\ SF_vars(SaveCursor(c))

FairSpec == Spec /\ Fairness

-----------------------------------------------------------------------------
(***************************************************************************)
(* Properties.                                                             *)
(***************************************************************************)

TypeOK ==
    /\ clock \in Nat /\ nextXid \in Nat \ {0} /\ nextSeq \in Nat \ {0}
    /\ tx \in [Writers -> Tx]
    /\ log \subseteq Row
    /\ pos \in [Consumers -> Cursor] /\ saved \in [Consumers -> Cursor]
    /\ delivered \in [Consumers -> SUBSET Row]
    /\ done \in Seq(Nat)

AtOrBefore(e, p) == ~Before(p, e)

\* No event is skipped: whatever row of the feed lies at or before the cursor
\* a consumer polls or resumes from has been handed to it, in whichever order
\* the transactions committed ("it drops events silently", migration 0004).
NoEventSkipped ==
    \A c \in Consumers, e \in log :
        Matches(c, e) /\ (AtOrBefore(e, pos[c]) \/ AtOrBefore(e, saved[c]))
            => e \in delivered[c]

\* "Below it, no transaction can still appear" (migration 0004): a row that
\* becomes readable sorts after every row that was readable before.
Stable == {e \in log : Settled(e.xid)}
StableGrowsAtEnd ==
    [][\A e \in Stable' \ Stable, f \in Stable : Before(f, e)]_vars

\* "A late event is recoverable" (Changes): the rows of every transaction that
\* committed are in the end handed to every consumer of their collection,
\* unless they are pruned first.
EventsArrive ==
    \A c \in Consumers, x \in 1..MaxXid :
        (\E e \in log : e.xid = x /\ Matches(c, e))
            ~> (\A e \in log : e.xid = x /\ Matches(c, e) => e \in delivered[c])

\* "Changes returns events after the cursor, in commit order" (changelog.go:49):
\* rows come in the order their transactions committed.
FeedInCommitOrder ==
    \A i, j \in 1..Len(done) : i < j => done[i] < done[j]

\* "The cost is latency, not correctness: an event stays invisible while any
\* older transaction is still open" (changelog.go:52): pruning removes no row
\* that no poll could have returned yet.
PruneOnlyReadable ==
    [][\A e \in log \ log' : Settled(e.xid)]_vars
=============================================================================
