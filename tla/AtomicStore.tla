---------------------------- MODULE AtomicStore -----------------------------
(***************************************************************************)
(* What the write path promises its clients, with nothing of how: a table  *)
(* of documents which every commit changes in one step.  A transaction's   *)
(* client is handed versions, stale ones perhaps; its commit takes effect  *)
(* at most once, and only where every version it was handed is still the   *)
(* current one.  CommitProtocol implements this specification.             *)
(***************************************************************************)
EXTENDS Integers, Sequences

CONSTANTS
    Docs,      \* document names
    Txns,      \* transactions
    NoTxn,     \* a commit outside a transaction
    Requests,  \* the lists of writes clients may send
    Times,     \* commit times
    Ids        \* identities of commits, 0 for one that writes nothing

VARIABLES
    store,  \* the documents: [ex, ct, ut, ver]
    seen,   \* the versions each transaction's client was handed
    log     \* the commits that took effect: [txn, req, id]

vars == <<store, seen, log>>

Done(t) == \E c \in log : c.txn = t

NoRow == [ex |-> FALSE, ct |-> 0, ut |-> 0, ver |-> 0]

\* The last of the first n writes that is to document d, or 0.
LastTo(ws, n, d) ==
    LET js == {j \in 1..n : ws[j].doc = d}
    IN  IF js = {} THEN 0 ELSE CHOOSE j \in js : \A k \in js : k <= j

\* Does the i-th write find its document, and with which update time?
Found(ws, i) ==
    LET j == LastTo(ws, i - 1, ws[i].doc)
    IN  IF j = 0 THEN store[ws[i].doc].ex ELSE ws[j].op = "update"
FoundTime(ws, i, now) ==
    IF LastTo(ws, i - 1, ws[i].doc) = 0 THEN store[ws[i].doc].ut ELSE now

PreconditionMet(ws, i, now) ==
    /\ ws[i].pre = "exists" => Found(ws, i)
    /\ ws[i].pre = "absent" => ~Found(ws, i)
    /\ ws[i].pre = "at" => Found(ws, i) /\ FoundTime(ws, i, now) = ws[i].at

\* What the last write to d leaves: nothing, or a document that keeps its create
\* time if it existed before the commit.
Outcome(ws, d, now, id) ==
    LET j == LastTo(ws, Len(ws), d)
    IN  IF j = 0 THEN store[d]
        ELSE IF ws[j].op = "delete" THEN NoRow
        ELSE [ex |-> TRUE, ct |-> IF store[d].ex THEN store[d].ct ELSE now,
              ut |-> now, ver |-> id]

Init ==
    /\ store = [d \in Docs |-> NoRow]
    /\ seen = [t \in Txns |-> [d \in Docs |-> {}]]
    /\ log = {}

\* A transaction's client is handed a version of each document of D.
Read(t, D) ==
    /\ ~Done(t)
    /\ \E v \in [D -> Ids] :
         seen' = [seen EXCEPT ![t] =
                    [d \in Docs |-> IF d \in D THEN @[d] \cup {v[d]} ELSE @[d]]]
    /\ UNCHANGED <<store, log>>

\* All writes take effect at one time, or none.
Commit(t, ws, now, id) ==
    /\ t # NoTxn => ~Done(t) /\ \A d \in Docs : seen[t][d] \subseteq {store[d].ver}
    /\ \A i \in 1..Len(ws) : PreconditionMet(ws, i, now)
    /\ ws # <<>> => id # 0 /\ \A c \in log : c.id # id
    /\ store' = [d \in Docs |-> Outcome(ws, d, now, id)]
    /\ log' = log \cup {[txn |-> t, req |-> ws, id |-> id]}
    /\ UNCHANGED seen

Next ==
    \/ \E t \in Txns, D \in SUBSET Docs : Read(t, D)
    \/ \E t \in Txns \cup {NoTxn}, ws \in Requests, now \in Times, id \in Ids :
          Commit(t, ws, now, id)

Spec == Init /\ [][Next]_vars
=============================================================================
