----------------------------- MODULE ImportScan -----------------------------
(***************************************************************************)
(* `kor import', `kor verify' (cmd/kor/main.go) and `kor export'           *)
(* (cmd/kor/export.go): forEachDoc pages through a source collection with  *)
(* retries, readPage cuts pages by bytes, and the commands hang their own  *)
(* work on every document: import and export batch and commit to the other *)
(* store, verify compares in chunks.  An export may be a dry run.          *)
(*                                                                         *)
(* The source does not change during a run; its documents are 1..N in the  *)
(* order of their ids, and 0 is the empty cursor.  A document is its size  *)
(* (estimateSize), which is all the paging looks at.                       *)
(***************************************************************************)
EXTENDS Integers, FiniteSets

CONSTANTS
    N,            \* documents in the source collection
    Size,         \* estimateSize of each
    PageSize, PageBytes,    \* limits of one source page (3000, 24 MiB)
    BatchSize, BatchBytes,  \* limits of one commit (100 or 500, 2 MiB)
    Chunk,        \* documents verify compares at once (100)
    MaxAttempts,  \* attempts per page (4)
    Commands,     \* which of "import", "export" and "verify" are run
    StateFile,    \* -state is given
    ResumeDryRun  \* the cursor of a failed dry run is used for a live one

Docs == 1..N

ASSUME SourceAssumption == N \in Nat /\ Size \in [Docs -> Nat \ {0}]
ASSUME LimitAssumption ==
    /\ BatchSize \in Nat \ {0} /\ BatchBytes \in Nat \ {0}
    /\ PageSize \in Nat /\ PageBytes \in Nat
    /\ Chunk \in Nat \ {0} /\ MaxAttempts \in Nat \ {0, 1}
ASSUME PagesHoldABatch == PageSize >= BatchSize /\ PageBytes >= BatchBytes
ASSUME CommandAssumption ==
    /\ Commands \subseteq {"import", "export", "verify"}
    /\ StateFile \in BOOLEAN /\ ResumeDryRun \in BOOLEAN

VARIABLES
    command,        \* the command the operator runs, again if it fails
    dry,            \* -dry-run: an export that writes nothing
    pc,             \* idle, reading, giveup, final, failed, done
    cursor,         \* forEachDoc: the page starts after this document
    attempt,
    page,           \* readPage: documents handed on, the last one, bytes
    batch,          \* documents, writes, bytes, and lastInBatch
    lastCommitted,
    file,           \* the state file (0: empty or absent)
    dst,            \* documents stored in the destination
    total,          \* verify: documents counted
    checked         \* verify: documents compared

vars == <<command, dry, pc, cursor, attempt, page, batch, lastCommitted, file, dst,
          total, checked>>
memVars == <<command, dry, cursor, attempt, page, batch, lastCommitted, total,
             checked>>

PageFrom(c) == [n |-> 0, at |-> c, bytes |-> 0]
EmptyBatch(last) == [docs |-> {}, n |-> 0, bytes |-> 0, last |-> last]

\* batch.Set and the counters beside it.
With(b, d) == [docs |-> b.docs \cup {d}, n |-> b.n + 1,
               bytes |-> b.bytes + Size[d], last |-> d]

Full(b) == b.n >= BatchSize \/ b.bytes >= BatchBytes
Capped == page.bytes >= PageBytes
Exhausted == page.n = PageSize \/ page.at = N

Init ==
    /\ command \in Commands /\ dry = FALSE
    /\ pc = "idle" /\ cursor = 0 /\ attempt = 1
    /\ page = PageFrom(0) /\ batch = EmptyBatch(0) /\ lastCommitted = 0
    /\ file = 0 /\ dst = {} /\ total = 0 /\ checked = {}

Copying == command \in {"import", "export"}

\* The command is run, or run again: from the state file, or with
\* -resume-after and the cursor a failed run printed.
Start ==
    /\ pc \in {"idle", "failed", "done"}
    /\ dry' \in IF command = "export" THEN BOOLEAN ELSE {FALSE}
    /\ \/ cursor' = IF Copying THEN file ELSE 0
       \/ /\ Copying /\ pc = "failed" /\ cursor # 0
          /\ dry => dry' \/ ResumeDryRun
          /\ UNCHANGED cursor
    /\ pc' = "reading" /\ attempt' = 1
    /\ page' = PageFrom(cursor')
    /\ batch' = EmptyBatch(0) /\ lastCommitted' = 0 /\ total' = 0 /\ checked' = {}
    /\ UNCHANGED <<command, file, dst>>

\* it.Next: the document after the last one.
Reading == pc = "reading" /\ Copying /\ ~Capped /\ ~Exhausted
Handed == [n |-> page.n + 1, at |-> page.at + 1, bytes |-> page.bytes + Size[page.at + 1]]

\* Mutant: the failed attempt's own position is taken for durable.
FailPageAtPosition(lc) ==
    IF attempt < MaxAttempts
    THEN /\ cursor' = page.at
         /\ page' = PageFrom(cursor')
         /\ attempt' = attempt + 1
         /\ pc' = "reading"
    ELSE pc' = "giveup" /\ UNCHANGED <<cursor, page, attempt>>

\* Mutant: one attempt too many.
FailPageOnceMore(lc) ==
    IF attempt <= MaxAttempts
    THEN /\ cursor' = IF lc # 0 THEN lc ELSE cursor
         /\ page' = PageFrom(cursor')
         /\ attempt' = attempt + 1
         /\ pc' = "reading"
    ELSE pc' = "giveup" /\ UNCHANGED <<cursor, page, attempt>>

\* Mutant: a retry counts as a first attempt.
FailPageForgetful(lc) ==
    /\ cursor' = IF lc # 0 THEN lc ELSE cursor
    /\ page' = PageFrom(cursor')
    /\ UNCHANGED <<pc, attempt>>

\* A page attempt fails with lc the durable cursor: forEachDoc goes back to it,
\* if there is one, and tries again; after the last attempt it returns.
FailPage(lc) ==
    IF attempt < MaxAttempts
    THEN /\ cursor' = IF lc # 0 THEN lc ELSE cursor
         /\ page' = PageFrom(cursor')
         /\ attempt' = attempt + 1
         /\ pc' = "reading"
    ELSE pc' = "giveup" /\ UNCHANGED <<cursor, page, attempt>>

(***************************************************************************)
(* flush.                                                                  *)
(***************************************************************************)

\* Mutant: a dry run saves its cursor.
FlushedSavingAlways(b) ==
    /\ dst' = IF dry THEN dst ELSE dst \cup b.docs
    /\ lastCommitted' = b.last
    /\ batch' = EmptyBatch(b.last)
    /\ IF StateFile THEN file' \in 0..b.last ELSE UNCHANGED file

\* batch.Commit succeeds and the cursor is saved, except that a dry run only
\* counts the documents as committed; the error of os.WriteFile is
\* ignored, and what a torn write leaves, a prefix of the id, sorts before it.
Flushed(b) ==
    /\ dst' = IF dry THEN dst ELSE dst \cup b.docs
    /\ lastCommitted' = b.last
    /\ batch' = EmptyBatch(b.last)
    /\ IF StateFile /\ ~dry THEN file' \in 0..b.last ELSE UNCHANGED file

\* Mutant: the failed writes stay in the batch.
FlushFailedKeepingBatch(b) ==
    /\ ~dry
    /\ dst' = dst \/ dst' = dst \cup b.docs
    /\ batch' = b
    /\ UNCHANGED <<lastCommitted, file>>

\* batch.Commit fails, before or after it took effect; the batch is dropped.
FlushFailed(b) ==
    /\ ~dry
    /\ dst' = dst \/ dst' = dst \cup b.docs
    /\ batch' = EmptyBatch(b.last)
    /\ UNCHANGED <<lastCommitted, file>>

(***************************************************************************)
(* Import: the callback of runImport under readPage and forEachDoc.        *)
(***************************************************************************)

Buffer ==
    /\ Reading
    /\ ~Full(With(batch, Handed.at))
    /\ batch' = With(batch, Handed.at)
    /\ page' = Handed
    /\ UNCHANGED <<command, dry, pc, cursor, attempt, lastCommitted, file, dst, total,
                   checked>>

BufferAndFlush ==
    /\ Reading
    /\ Full(With(batch, Handed.at))
    /\ \/ /\ Flushed(With(batch, Handed.at))
          /\ page' = Handed
          /\ UNCHANGED <<command, dry, pc, cursor, attempt, total, checked>>
       \/ /\ FlushFailed(With(batch, Handed.at))
          /\ FailPage(lastCommitted)
          /\ UNCHANGED <<command, dry, total, checked>>

\* it.Next fails: the source's deadline, a lost connection.
SourceFails ==
    /\ pc = "reading" /\ ~Capped
    /\ FailPage(lastCommitted)
    /\ UNCHANGED <<command, dry, batch, lastCommitted, file, dst, total, checked>>

\* Mutant: a page cut by bytes reads as the end of the collection.
EndPageUncapped ==
    /\ pc = "reading"
    /\ Capped \/ Exhausted
    /\ cursor' = IF page.n = 0 THEN 0 ELSE page.at
    /\ page' = PageFrom(cursor')
    /\ attempt' = 1
    /\ pc' = IF page.n < PageSize THEN "final" ELSE "reading"
    /\ UNCHANGED <<command, dry, batch, lastCommitted, file, dst, total, checked>>

\* The page is over; a short one that was not cut by bytes is the last.  An
\* empty page leaves an empty cursor, which nobody reads any more.
EndPage ==
    /\ pc = "reading"
    /\ Capped \/ Exhausted
    /\ cursor' = IF page.n = 0 THEN 0 ELSE page.at
    /\ page' = PageFrom(cursor')
    /\ attempt' = 1
    /\ pc' = IF page.n < PageSize /\ ~Capped THEN "final" ELSE "reading"
    /\ UNCHANGED <<command, dry, batch, lastCommitted, file, dst, total, checked>>

\* The last flush, after the scan or after the last attempt failed; with an
\* empty batch it does nothing.
FinalFlush ==
    /\ pc \in {"final", "giveup"} /\ Copying
    /\ \/ /\ IF batch.n = 0
             THEN UNCHANGED <<dst, lastCommitted, batch, file>>
             ELSE Flushed(batch)
          /\ pc' = IF pc = "final" THEN "done" ELSE "failed"
       \/ /\ batch.n > 0 /\ FlushFailed(batch)
          /\ pc' = IF pc = "final" THEN "idle" ELSE "failed"
    /\ UNCHANGED <<command, dry, cursor, attempt, page, total, checked>>

\* The command is killed; the state file and what was committed remain.
Crash ==
    /\ pc \in {"reading", "final", "giveup"}
    /\ pc' = "idle"
    /\ UNCHANGED <<memVars, file, dst>>

(***************************************************************************)
(* Verify: the callback of runVerify.                                      *)
(***************************************************************************)

\* The document is counted and, a full chunk later, compared; a failed GetAll
\* ends the command.
VerifyDoc ==
    /\ pc = "reading" /\ command = "verify" /\ ~Capped /\ ~Exhausted
    /\ page' = Handed
    /\ total' = total + 1
    /\ IF batch.n + 1 < Chunk
       THEN batch' = With(batch, Handed.at) /\ UNCHANGED <<pc, checked>>
       ELSE /\ batch' = EmptyBatch(Handed.at)
            /\ \/ checked' = checked \cup batch.docs \cup {Handed.at} /\ UNCHANGED pc
               \/ pc' = "idle" /\ UNCHANGED checked
    /\ UNCHANGED <<command, dry, cursor, attempt, lastCommitted, file, dst>>

\* The last chunk and the report.
VerifyDone ==
    /\ pc \in {"final", "giveup"} /\ command = "verify"
    /\ IF pc = "giveup" THEN pc' = "idle" /\ UNCHANGED checked
       ELSE \/ pc' = "done" /\ checked' = checked \cup batch.docs
            \/ batch.n > 0 /\ pc' = "idle" /\ UNCHANGED checked
    /\ UNCHANGED <<command, dry, cursor, attempt, page, batch, lastCommitted, total, file,
                   dst>>

Next ==
    \/ Start \/ Buffer \/ BufferAndFlush \/ SourceFails \/ EndPage \/ FinalFlush
    \/ Crash \/ VerifyDoc \/ VerifyDone

Spec == Init /\ [][Next]_vars

\* The command runs on; whether it is started again is the operator's choice.
Fairness == WF_vars(Next /\ pc \notin {"idle", "failed", "done"})
FairSpec == Spec /\ Fairness

-----------------------------------------------------------------------------
(***************************************************************************)
(* Properties.                                                             *)
(***************************************************************************)

Batches == [docs : SUBSET Docs, n : Nat, bytes : Nat, last : 0..N]

TypeOK ==
    /\ command \in Commands /\ dry \in BOOLEAN
    /\ pc \in {"idle", "reading", "giveup", "final", "failed", "done"}
    /\ cursor \in 0..N /\ attempt \in 1..MaxAttempts
    /\ page \in [n : Nat, at : 0..N, bytes : Nat]
    /\ batch \in Batches
    /\ lastCommitted \in 0..N /\ file \in 0..N
    /\ dst \subseteq Docs
    /\ total \in Nat /\ checked \subseteq Docs

\* No document is skipped, whatever fails and however often the command is run
\* again: all up to the saved cursor, and up to the one a failed run prints for
\* -resume-after, are stored, and a run that reports DONE has stored them all,
\* also when dry runs of the export come in between
\* ("silently importing a fraction of the collection and reporting success",
\* readPage).
NothingSkipped ==
    Copying =>
        /\ 1..file \subseteq dst
        /\ pc = "failed" /\ ~dry => 1..cursor \subseteq dst
        /\ pc = "done" /\ ~dry => dst = Docs

\* A commit stays within its caps, however many attempts have failed: "keeping
\* the failed writes would recommit them and grow the batch on every attempt
\* until it can never succeed" (flush).
BatchBounded == Copying => ~Full(batch)

\* A run ends, in DONE or in an error: the retries never go round for ever.
RunEnds == pc = "reading" ~> pc \in {"idle", "failed", "done"}

\* A verification that reports its result has compared every document of the
\* source, whatever attempts failed on the way.
VerifyCovers == command = "verify" /\ pc = "done" => checked = Docs

\* "Retries fall back to the failed attempt's own progress" (runVerify): a
\* retry does not count again what a failed attempt has counted, so that the
\* reported number of source documents is never more than there are.
VerifyCountsOnce == total <= N
=============================================================================
