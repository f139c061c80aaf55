-------------------------- MODULE ImportScanProofs --------------------------
(***************************************************************************)
(* `kor import' and `kor export' skip no document, for every collection,   *)
(* every choice of page and batch limits in which a page holds at least    *)
(* one batch, and any number of failures, crashes, restarts and dry runs,  *)
(* as long as no live run resumes after the cursor of a dry one.           *)
(***************************************************************************)
EXTENDS ImportScan, TLAPS

Stored(k) == 1..k \subseteq dst
Held(k) == 1..k \subseteq dst \cup batch.docs

\* What is pending is contiguous with what is stored.
BatchInv ==
    /\ ~Full(batch)
    /\ batch.n = 0 => batch.docs = {}
    /\ batch.n > 0 => Held(batch.last)

\* While pages are read: everything up to the position is stored or pending,
\* and whatever a failure makes the scan fall back to is stored.  The page
\* counters say why there is a durable cursor once a page is complete.
ReadingInv ==
    /\ Held(page.at)
    /\ lastCommitted = 0 =>
         /\ Stored(cursor)
         /\ page.n <= batch.n
         /\ page.bytes <= batch.bytes
    /\ attempt > 1 => Stored(cursor)

ScanInv ==
    /\ Stored(file) /\ Stored(lastCommitted)
    /\ pc \in {"reading", "final", "giveup"} => BatchInv
    /\ pc = "reading" => ReadingInv
    /\ pc = "final" => Held(N)
    /\ pc \in {"giveup", "failed"} => Stored(cursor)
    /\ pc = "done" => Stored(N)

\* A dry run stores nothing: of it only the batch and the state file matter.
CopyInv == Stored(file) /\ ~Full(batch) /\ (~dry => ScanInv)

IInv == TypeOK /\ (Copying => CopyInv)

USE SourceAssumption, LimitAssumption, PagesHoldABatch, CommandAssumption

-----------------------------------------------------------------------------
(***************************************************************************)
(* Types.                                                                  *)
(***************************************************************************)

\* A batch with one more document of the source is a batch.
LEMMA WithType ==
    ASSUME NEW b \in Batches, NEW d \in Docs
    PROVE  With(b, d) \in Batches /\ With(b, d).last = d
BY DEF With, Batches, Docs

\* The page after one more document is a page.
LEMMA HandedType ==
    ASSUME TypeOK, ~Exhausted
    PROVE  /\ page.at + 1 \in Docs
           /\ Handed.at = page.at + 1
           /\ Handed \in [n : Nat, at : 0..N, bytes : Nat]
BY DEF TypeOK, Exhausted, Handed, Docs

\* A failed attempt leaves positions in the collection and an attempt in range.
LEMMA FailPageType ==
    ASSUME TypeOK, FailPage(lastCommitted)
    PROVE  /\ cursor' \in 0..N /\ attempt' \in 1..MaxAttempts
           /\ page' \in [n : Nat, at : 0..N, bytes : Nat]
           /\ pc' \in {"reading", "giveup"}
BY DEF TypeOK, FailPage, PageFrom

\* A flush leaves well-formed data, successful or not.
LEMMA FlushType ==
    ASSUME TypeOK, NEW b \in Batches, Flushed(b) \/ FlushFailed(b)
    PROVE  /\ dst' \subseteq Docs /\ lastCommitted' \in 0..N /\ file' \in 0..N
           /\ batch' \in Batches
<1>1. EmptyBatch(b.last) \in Batches  BY DEF EmptyBatch, Batches
<1>2. b.docs \subseteq Docs /\ b.last \in 0..N  BY DEF Batches
<1>3. CASE Flushed(b)  BY <1>1, <1>2, <1>3 DEF Flushed, TypeOK
<1>4. CASE FlushFailed(b)  BY <1>1, <1>2, <1>4 DEF FlushFailed, TypeOK
<1> QED  BY <1>3, <1>4

\* The initial states are well-formed.
LEMMA TypeInit == Init => TypeOK
<1> SUFFICES ASSUME Init PROVE TypeOK  OBVIOUS
<1>1. batch = EmptyBatch(0) /\ page = PageFrom(0)  BY DEF Init
<1>2. dry \in BOOLEAN  BY Zenon DEF Init
<1> QED  BY <1>1, <1>2 DEF Init, TypeOK, Batches, EmptyBatch, PageFrom

\* Every step keeps the types.
LEMMA TypeStep == TypeOK /\ [Next]_vars => TypeOK'
<1> SUFFICES ASSUME TypeOK, [Next]_vars PROVE TypeOK'  OBVIOUS
<1>1. CASE Start
  <2>1. cursor' \in 0..N  BY <1>1 DEF Start, TypeOK
  <2>2. page' \in [n : Nat, at : 0..N, bytes : Nat]  BY <1>1, <2>1 DEF Start, PageFrom
  <2>3. batch' \in Batches  BY <1>1 DEF Start, EmptyBatch, Batches
  <2>4. dry' \in BOOLEAN  BY <1>1, Zenon DEF Start
  <2> QED  BY <1>1, <2>1, <2>2, <2>3, <2>4 DEF Start, TypeOK
<1>2. CASE Buffer
  <2>1. batch' \in Batches  BY <1>2, HandedType, WithType DEF Buffer, Reading, TypeOK
  <2> QED  BY <1>2, <2>1, HandedType DEF Buffer, Reading, TypeOK
<1>3. CASE BufferAndFlush
  <2>1. With(batch, Handed.at) \in Batches
        BY <1>3, HandedType, WithType DEF BufferAndFlush, Reading, TypeOK
  <2>2. CASE Flushed(With(batch, Handed.at)) /\ page' = Handed
                /\ UNCHANGED <<command, dry, pc, cursor, attempt, total, checked>>
        BY <1>3, <2>1, <2>2, FlushType, HandedType DEF BufferAndFlush, Reading, TypeOK
  <2>3. CASE FlushFailed(With(batch, Handed.at)) /\ FailPage(lastCommitted)
                /\ UNCHANGED <<command, dry, total, checked>>
        BY <2>1, <2>3, FlushType, FailPageType DEF TypeOK
  <2> QED  BY <1>3, <2>2, <2>3 DEF BufferAndFlush
<1>4. CASE SourceFails  BY <1>4, FailPageType DEF SourceFails, TypeOK
<1>5. CASE EndPage  BY <1>5 DEF EndPage, TypeOK, PageFrom
<1>6. CASE FinalFlush
  <2>1. batch \in Batches  BY DEF TypeOK
  <2>2. dst' \subseteq Docs /\ lastCommitted' \in 0..N /\ file' \in 0..N
          /\ batch' \in Batches
        BY <1>6, <2>1, FlushType DEF FinalFlush, TypeOK
  <2> QED  BY <1>6, <2>2 DEF FinalFlush, TypeOK
<1>7. CASE Crash  BY <1>7 DEF Crash, memVars, TypeOK
<1>8. CASE VerifyDoc
  <2>1. batch' \in Batches
    <3>1. With(batch, Handed.at) \in Batches
          BY <1>8, HandedType, WithType DEF VerifyDoc, TypeOK
    <3>2. EmptyBatch(Handed.at) \in Batches
          BY <1>8, HandedType DEF VerifyDoc, EmptyBatch, Batches
    <3> QED  BY <1>8, <3>1, <3>2 DEF VerifyDoc
  <2>2. checked' \subseteq Docs
    <3>1. batch.docs \subseteq Docs  BY DEF TypeOK, Batches
    <3> QED  BY <1>8, <3>1, HandedType DEF VerifyDoc, TypeOK
  <2> QED  BY <1>8, <2>1, <2>2, HandedType DEF VerifyDoc, TypeOK
<1>9. CASE VerifyDone
  <2>1. batch.docs \subseteq Docs  BY DEF TypeOK, Batches
  <2> QED  BY <1>9, <2>1 DEF VerifyDone, TypeOK
<1>10. CASE UNCHANGED vars  BY <1>10 DEF vars, TypeOK
<1> QED  BY <1>1, <1>2, <1>3, <1>4, <1>5, <1>6, <1>7, <1>8, <1>9, <1>10 DEF Next

-----------------------------------------------------------------------------
(***************************************************************************)
(* The scan.                                                               *)
(***************************************************************************)

\* One more document of a page keeps everything up to it stored or pending.
LEMMA HeldWith ==
    ASSUME TypeOK, ~Exhausted, Held(page.at)
    PROVE  1..(Handed.at) \subseteq dst \cup With(batch, Handed.at).docs
<1>1. Handed.at = page.at + 1 /\ page.at \in 0..N  BY HandedType DEF TypeOK
<1>2. With(batch, Handed.at).docs = batch.docs \cup {Handed.at}  BY DEF With
<1>3. 1..(Handed.at) = 1..page.at \cup {Handed.at}  BY <1>1
<1> QED  BY <1>2, <1>3 DEF Held

\* A successful flush of a contiguous batch stores all up to its last document,
\* and empties the batch.
LEMMA FlushedStores ==
    ASSUME TypeOK, NEW b \in Batches, Flushed(b), 1..b.last \subseteq dst \cup b.docs,
           Stored(file), ~dry
    PROVE  /\ 1..b.last \subseteq dst' /\ Stored(file)' /\ dst \subseteq dst'
           /\ ~Full(batch)' /\ batch'.n = 0 /\ batch'.docs = {}
           /\ lastCommitted' = b.last
<1>1. b.last \in 0..N  BY DEF Batches
<1>2. dst' = dst \cup b.docs /\ batch' = EmptyBatch(b.last) /\ lastCommitted' = b.last
      BY DEF Flushed
<1>3. 1..b.last \subseteq dst'  BY <1>2
<1>4. 1..file' \subseteq dst'
  <2>1. file' = file \/ file' \in 0..b.last  BY DEF Flushed
  <2>2. CASE file' = file  BY <2>2, <1>2 DEF Stored
  <2>3. CASE file' \in 0..b.last
        BY <2>3, <1>1, <1>3
  <2> QED  BY <2>1, <2>2, <2>3
<1>5. ~Full(batch)' /\ batch'.n = 0 /\ batch'.docs = {}
      BY <1>2 DEF EmptyBatch, Full
<1> QED  BY <1>2, <1>3, <1>4, <1>5 DEF Stored

\* A failed flush empties the batch and loses nothing that was stored.
LEMMA FlushFailedKeeps ==
    ASSUME NEW b, FlushFailed(b)
    PROVE  /\ dst \subseteq dst' /\ UNCHANGED <<lastCommitted, file>>
           /\ ~Full(batch)' /\ batch'.n = 0 /\ batch'.docs = {} /\ batch'.bytes = 0
BY DEF FlushFailed, EmptyBatch, Full

\* A failed attempt falls back to a stored position.
LEMMA FailPageStored ==
    ASSUME ScanInv, pc = "reading", FailPage(lastCommitted), TypeOK
    PROVE  1..cursor' \subseteq dst
           /\ (pc' = "reading" => page' = PageFrom(cursor'))
<1>1. Stored(lastCommitted) /\ ReadingInv  BY DEF ScanInv
<1>2. CASE attempt < MaxAttempts
      BY <1>1, <1>2 DEF FailPage, ReadingInv, Stored
<1>3. CASE ~(attempt < MaxAttempts)
  <2>1. attempt > 1  BY <1>3 DEF TypeOK
  <2> QED  BY <1>1, <1>3, <2>1 DEF FailPage, ReadingInv, Stored
<1> QED  BY <1>2, <1>3

\* The invariant after a failed attempt whose batch is contiguous or empty.
LEMMA AfterFailure ==
    ASSUME TypeOK, TypeOK', ScanInv, pc = "reading", FailPage(lastCommitted),
           dst \subseteq dst', UNCHANGED <<lastCommitted, file>>, BatchInv'
    PROVE  ScanInv'
<1>1. 1..cursor' \subseteq dst' /\ (pc' = "reading" => page' = PageFrom(cursor'))
      BY FailPageStored
<1>2. Stored(file)' /\ Stored(lastCommitted)'  BY DEF ScanInv, Stored
<1>3. pc' \in {"reading", "giveup"}  BY FailPageType
<1>4. CASE pc' = "reading"
  <2>1. page' = PageFrom(cursor')  BY <1>1, <1>4
  <2>2. page'.at = cursor' /\ page'.n = 0 /\ page'.bytes = 0  BY <2>1 DEF PageFrom
  <2>3. 0 <= batch'.n /\ 0 <= batch'.bytes  BY DEF TypeOK, Batches
  <2>4. ReadingInv'  BY <1>1, <2>2, <2>3 DEF ReadingInv, Held, Stored
  <2> QED  BY <1>2, <1>4, <2>4 DEF ScanInv
<1>5. CASE pc' = "giveup"  BY <1>1, <1>2, <1>5 DEF ScanInv, Stored
<1> QED  BY <1>3, <1>4, <1>5

\* A run starts from a stored position, unless it is dry.
LEMMA StartStep ==
    ASSUME ~ResumeDryRun, TypeOK, CopyInv, Copying, Start
    PROVE  CopyInv'
<1>1. batch' = EmptyBatch(0) /\ dst' = dst /\ file' = file  BY DEF Start
<1>2. Stored(file)' /\ ~Full(batch)'  BY <1>1 DEF CopyInv, Stored, EmptyBatch, Full
<1>3. ASSUME ~dry' PROVE ScanInv'
  <2>1. 1..cursor' \subseteq dst  BY <1>3 DEF Start, CopyInv, ScanInv, Stored
  <2>2. batch' = EmptyBatch(0) /\ page' = PageFrom(cursor') /\ attempt' = 1
          /\ pc' = "reading" /\ lastCommitted' = 0 /\ dst' = dst /\ file' = file
        BY DEF Start
  <2>3. BatchInv'  BY <1>2, <2>2 DEF BatchInv, EmptyBatch
  <2>4. ReadingInv'
        BY <2>1, <2>2 DEF ReadingInv, Held, Stored, EmptyBatch, PageFrom
  <2>5. Stored(lastCommitted)'  BY <2>2 DEF Stored
  <2> QED  BY <1>2, <2>2, <2>3, <2>4, <2>5 DEF ScanInv
<1> QED  BY <1>2, <1>3 DEF CopyInv

\* Every step of a dry run keeps the batch within its caps and what is stored.
LEMMA DryStep ==
    ASSUME TypeOK, CopyInv, Copying, dry, [Next]_vars, ~Start
    PROVE  CopyInv' /\ dry' = dry
<1>1. ASSUME NEW b, Flushed(b) \/ UNCHANGED <<dst, lastCommitted, batch, file>>
      PROVE  Stored(file)' /\ ~Full(batch)'
      BY <1>1 DEF Flushed, EmptyBatch, Full, CopyInv, Stored
<1>2. CASE Buffer  BY <1>2 DEF Buffer, CopyInv, Stored, Full
<1>3. CASE BufferAndFlush  BY <1>1, <1>3 DEF BufferAndFlush, FlushFailed, CopyInv
<1>4. CASE SourceFails  BY <1>4 DEF SourceFails, CopyInv, Stored, Full
<1>5. CASE EndPage  BY <1>5 DEF EndPage, CopyInv, Stored, Full
<1>6. CASE FinalFlush  BY <1>1, <1>6 DEF FinalFlush, FlushFailed, CopyInv
<1>7. CASE Crash  BY <1>7 DEF Crash, memVars, CopyInv, Stored, Full
<1>8. CASE VerifyDoc  BY <1>8 DEF VerifyDoc, Copying
<1>9. CASE VerifyDone  BY <1>9 DEF VerifyDone, Copying
<1>10. CASE UNCHANGED vars  BY <1>10 DEF vars, CopyInv, Stored, Full
<1> QED  BY <1>2, <1>3, <1>4, <1>5, <1>6, <1>7, <1>8, <1>9, <1>10 DEF Next

\* Every step of a live run keeps the invariant.
LEMMA ScanStep ==
    ASSUME TypeOK, ScanInv, ~Full(batch), Copying, ~dry, [Next]_vars, ~Start, TypeOK'
    PROVE  ScanInv' /\ ~Full(batch)'
<1>2. CASE Buffer
  <2> DEFINE b == With(batch, Handed.at)
  <2>1. ~Exhausted /\ pc = "reading" /\ ReadingInv /\ BatchInv
        BY <1>2 DEF Buffer, Reading, ScanInv
  <2>2. batch' = b /\ page' = Handed /\ ~Full(b)
          /\ UNCHANGED <<pc, cursor, attempt, lastCommitted, file, dst>>
        BY <1>2 DEF Buffer
  <2>3. 1..(Handed.at) \subseteq dst \cup b.docs  BY <2>1, HeldWith DEF ReadingInv
  <2>4. b.n = batch.n + 1 /\ b.bytes = batch.bytes + Size[page.at + 1]
          /\ b.last = Handed.at
        BY <2>1, HandedType DEF With
  <2>5. Handed.n = page.n + 1 /\ Handed.bytes = page.bytes + Size[page.at + 1]
        BY DEF Handed
  <2>6. Size[page.at + 1] \in Nat /\ page.n \in Nat /\ page.bytes \in Nat
          /\ batch.n \in Nat /\ batch.bytes \in Nat
        BY <2>1, HandedType DEF TypeOK, Batches
  <2> HIDE DEF b
  <2>7. BatchInv' /\ ~Full(batch)'
        BY <2>2, <2>3, <2>4, <2>6 DEF BatchInv, Held, Full
  <2>8. ReadingInv'
    <3>1. Held(page.at)'  BY <2>2, <2>3 DEF Held
    <3>2. lastCommitted' = 0 => Stored(cursor)' /\ page'.n <= batch'.n
                                  /\ page'.bytes <= batch'.bytes
          BY <2>1, <2>2, <2>4, <2>5, <2>6 DEF ReadingInv, Stored
    <3>3. attempt' > 1 => Stored(cursor)'  BY <2>1, <2>2 DEF ReadingInv, Stored
    <3> QED  BY <3>1, <3>2, <3>3 DEF ReadingInv
  <2> QED  BY <2>1, <2>2, <2>7, <2>8 DEF ScanInv, Stored
<1>3. CASE BufferAndFlush
  <2> DEFINE b == With(batch, Handed.at)
  <2>1. ~Exhausted /\ pc = "reading" /\ ReadingInv
        BY <1>3 DEF BufferAndFlush, Reading, ScanInv
  <2>2. b \in Batches /\ b.last = Handed.at /\ Handed.at = page.at + 1
          /\ page.at \in 0..N
        BY <2>1, HandedType, WithType DEF TypeOK
  <2>3. 1..(Handed.at) \subseteq dst \cup b.docs  BY <2>1, HeldWith DEF ReadingInv
  <2>4. CASE Flushed(b) /\ page' = Handed
               /\ UNCHANGED <<command, dry, pc, cursor, attempt, total, checked>>
    <3>1. Stored(file)  BY DEF ScanInv
    <3>2. 1..b.last \subseteq dst' /\ Stored(file)' /\ dst \subseteq dst' /\ ~Full(batch)'
            /\ batch'.n = 0 /\ batch'.docs = {} /\ lastCommitted' = b.last
          BY <2>2, <2>3, <2>4, <3>1, FlushedStores
    <3>3. BatchInv'  BY <3>2 DEF BatchInv
    <3>4. lastCommitted' # 0 /\ lastCommitted' = page'.at  BY <2>2, <2>4, <3>2
    <3>5. Stored(lastCommitted)'  BY <3>2 DEF Stored
    <3>6. ReadingInv'
          BY <2>1, <2>4, <3>2, <3>4, <3>5 DEF ReadingInv, Held, Stored
    <3> QED  BY <2>1, <2>4, <3>2, <3>3, <3>5, <3>6 DEF ScanInv
  <2>5. CASE FlushFailed(b) /\ FailPage(lastCommitted)
    <3>1. dst \subseteq dst' /\ UNCHANGED <<lastCommitted, file>> /\ ~Full(batch)'
            /\ batch'.n = 0 /\ batch'.docs = {}
          BY <2>5, FlushFailedKeeps
    <3>2. BatchInv'  BY <3>1 DEF BatchInv
    <3> QED  BY <2>1, <2>5, <3>1, <3>2, AfterFailure
  <2> QED  BY <1>3, <2>4, <2>5 DEF BufferAndFlush
<1>4. CASE SourceFails
  <2>1. pc = "reading" /\ FailPage(lastCommitted)
          /\ UNCHANGED <<batch, lastCommitted, file, dst>>
        BY <1>4 DEF SourceFails
  <2>2. BatchInv' /\ ~Full(batch)'  BY <2>1 DEF ScanInv, BatchInv, Held, Full
  <2> QED  BY <2>1, <2>2, AfterFailure
<1>5. CASE EndPage
  <2>1. pc = "reading" /\ (Capped \/ Exhausted) /\ ReadingInv /\ BatchInv
          /\ UNCHANGED <<batch, lastCommitted, file, dst>> /\ attempt' = 1
        BY <1>5 DEF EndPage, ScanInv
  <2>2. BatchInv' /\ ~Full(batch)'  BY <2>1 DEF BatchInv, Held, Full
  <2>3. Stored(file)' /\ Stored(lastCommitted)'  BY <2>1 DEF ScanInv, Stored
  <2>4. CASE page.n < PageSize /\ ~Capped
    <3>1. page.at = N  BY <2>1, <2>4 DEF Exhausted, TypeOK
    <3>2. pc' = "final"  BY <1>5, <2>4 DEF EndPage
    <3>3. Held(N)'  BY <2>1, <3>1 DEF ReadingInv, Held
    <3> QED  BY <2>2, <2>3, <3>2, <3>3 DEF ScanInv
  <2>5. CASE ~(page.n < PageSize /\ ~Capped)
    <3>1. page.n >= PageSize \/ page.bytes >= PageBytes
          BY <2>5 DEF Capped, TypeOK
    <3>2. batch.n < BatchSize /\ batch.bytes < BatchBytes
          BY DEF Full, TypeOK, Batches
    <3>3. lastCommitted # 0
          BY <2>1, <3>1, <3>2 DEF ReadingInv, TypeOK, Batches
    <3>4. pc' = "reading" /\ page' = PageFrom(cursor')
            /\ cursor' = IF page.n = 0 THEN 0 ELSE page.at
          BY <1>5, <2>5 DEF EndPage
    <3>5. 1..cursor' \subseteq dst \cup batch.docs
      <4>1. CASE page.n = 0  BY <3>4, <4>1
      <4>2. CASE page.n # 0  BY <2>1, <3>4, <4>2 DEF ReadingInv, Held
      <4> QED  BY <4>1, <4>2
    <3>6. page'.at = cursor'  BY <3>4 DEF PageFrom
    <3>7. ReadingInv'  BY <2>1, <3>3, <3>5, <3>6 DEF ReadingInv, Held
    <3> QED  BY <2>2, <2>3, <3>4, <3>7 DEF ScanInv
  <2> QED  BY <2>4, <2>5
<1>6. CASE FinalFlush
  <2>1. pc \in {"final", "giveup"} /\ BatchInv /\ cursor' = cursor
          /\ batch \in Batches /\ Stored(file)
        BY <1>6 DEF FinalFlush, ScanInv, TypeOK
  <2>2. CASE /\ IF batch.n = 0
                THEN UNCHANGED <<dst, lastCommitted, batch, file>>
                ELSE Flushed(batch)
             /\ pc' = IF pc = "final" THEN "done" ELSE "failed"
    <3>1. CASE batch.n = 0
      <4>1. UNCHANGED <<dst, lastCommitted, batch, file>> /\ batch.docs = {}
            BY <2>1, <2>2, <3>1 DEF BatchInv
      <4> QED  BY <2>1, <2>2, <4>1 DEF ScanInv, Stored, Held, Full
    <3>2. CASE batch.n # 0
      <4>1. Flushed(batch) /\ Held(batch.last)
            BY <2>1, <2>2, <3>2 DEF BatchInv, TypeOK, Batches
      <4>2. 1..batch.last \subseteq dst' /\ Stored(file)' /\ dst \subseteq dst'
              /\ ~Full(batch)' /\ lastCommitted' = batch.last
            BY <2>1, <4>1, FlushedStores DEF Held
      <4>3. 1..lastCommitted' \subseteq dst'
        <5>1. dst' = dst \cup batch.docs  BY <4>1 DEF Flushed
        <5> QED  BY <4>1, <4>2, <5>1 DEF Held
      <4>4. CASE pc = "final"
        <5>1. Stored(N)'  BY <4>1, <4>4 DEF ScanInv, Held, Stored, Flushed
        <5> QED  BY <2>2, <4>2, <4>3, <4>4, <5>1 DEF ScanInv, Stored
      <4>5. CASE pc = "giveup"
        <5>1. Stored(cursor)'  BY <2>1, <4>2, <4>5 DEF ScanInv, Stored
        <5> QED  BY <2>2, <4>2, <4>3, <4>5, <5>1 DEF ScanInv, Stored
      <4> QED  BY <2>1, <4>4, <4>5
    <3> QED  BY <3>1, <3>2
  <2>3. CASE FlushFailed(batch) /\ pc' = IF pc = "final" THEN "idle" ELSE "failed"
    <3>1. dst \subseteq dst' /\ UNCHANGED <<lastCommitted, file>> /\ ~Full(batch)'
          BY <2>3, FlushFailedKeeps
    <3> QED  BY <2>1, <2>3, <3>1 DEF ScanInv, Stored
  <2> QED  BY <1>6, <2>2, <2>3 DEF FinalFlush
<1>7. CASE Crash  BY <1>7 DEF Crash, memVars, ScanInv, Stored, Full
<1>8. CASE VerifyDoc  BY <1>8 DEF VerifyDoc, Copying
<1>9. CASE VerifyDone  BY <1>9 DEF VerifyDone, Copying
<1>10. CASE UNCHANGED vars
  <2>1. UNCHANGED <<pc, cursor, attempt, page, batch, lastCommitted, file, dst>>
        BY <1>10 DEF vars
  <2> QED  BY <2>1 DEF ScanInv, BatchInv, ReadingInv, Stored, Held, Full
<1> QED  BY <1>2, <1>3, <1>4, <1>5, <1>6, <1>7, <1>8, <1>9, <1>10 DEF Next

-----------------------------------------------------------------------------

\* The invariant holds in every state of every run of the three commands.
THEOREM ScanInvariant == ASSUME ~ResumeDryRun PROVE Spec => []IInv
<1>1. Init => IInv
  <2> SUFFICES ASSUME Init PROVE IInv  OBVIOUS
  <2>1. batch = EmptyBatch(0) /\ page = PageFrom(0)  BY DEF Init
  <2>2. TypeOK  BY TypeInit
  <2>3. ScanInv /\ ~Full(batch)
        BY <2>1 DEF Init, ScanInv, Stored, Full, EmptyBatch
  <2> QED  BY <2>2, <2>3 DEF IInv, CopyInv, ScanInv
<1>2. IInv /\ [Next]_vars => IInv'
  <2> SUFFICES ASSUME IInv, [Next]_vars PROVE IInv'  OBVIOUS
  <2>1. TypeOK /\ TypeOK'  BY TypeStep DEF IInv
  <2>2. command' = command
        BY DEF Next, vars, memVars, Start, Buffer, BufferAndFlush, SourceFails,
               EndPage, FinalFlush, Crash, VerifyDoc, VerifyDone
  <2>3. ASSUME Copying PROVE CopyInv'
    <3>1. CopyInv  BY <2>3 DEF IInv
    <3>2. CASE Start  BY <2>1, <2>3, <3>1, <3>2, StartStep
    <3>3. CASE ~Start /\ dry  BY <2>1, <2>3, <3>1, <3>3, DryStep
    <3>4. CASE ~Start /\ ~dry
      <4>1. ScanInv' /\ ~Full(batch)'
            BY <2>1, <2>3, <3>1, <3>4, ScanStep DEF CopyInv
      <4> QED  BY <4>1 DEF CopyInv, ScanInv
    <3> QED  BY <3>2, <3>3, <3>4
  <2> QED  BY <2>1, <2>2, <2>3 DEF IInv, Copying
<1> QED  BY <1>1, <1>2, PTL DEF Spec

\* Every state of the three commands is well-formed.
THEOREM TypeCorrect == Spec => []TypeOK
BY TypeInit, TypeStep, PTL DEF Spec

\* `kor import' and `kor export' skip no document: whatever the state file or
\* the cursor of a failed live run says is done is stored, and a live run that
\* reports DONE has stored the whole collection.
THEOREM NothingSkippedHolds == ASSUME ~ResumeDryRun PROVE Spec => []NothingSkipped
<1>1. IInv => NothingSkipped
      BY DEF IInv, CopyInv, ScanInv, Stored, NothingSkipped, TypeOK, Docs
<1> QED  BY <1>1, ScanInvariant, PTL

\* A commit stays below its caps through any number of retries.
THEOREM BatchBoundedHolds == ASSUME ~ResumeDryRun PROVE Spec => []BatchBounded
<1>1. IInv => BatchBounded  BY DEF IInv, CopyInv, BatchBounded
<1> QED  BY <1>1, ScanInvariant, PTL
-----------------------------------------------------------------------------
(***************************************************************************)
(* Verify.  It has no durable cursor, so a failed attempt starts its page  *)
(* again; what the page before it handed on is compared, or is still       *)
(* pending in the chunk, which no attempt throws away.                     *)
(***************************************************************************)

Seen == checked \cup batch.docs

VerifyInv ==
    /\ lastCommitted = 0
    /\ pc = "reading" => 1..cursor \subseteq Seen /\ 1..page.at \subseteq Seen
    /\ pc = "final" => Docs \subseteq Seen
    /\ pc = "done" => checked = Docs

LEMMA VerifyInit == Init => VerifyInv
BY DEF Init, VerifyInv

\* Every step of a verification keeps what it has covered.
LEMMA VerifyStep ==
    ASSUME TypeOK, TypeOK', VerifyInv, command = "verify", [Next]_vars
    PROVE  VerifyInv'
<1> USE DEF Copying
<1>1. CASE Start
  <2>1. cursor' = 0 /\ page' = PageFrom(cursor') /\ pc' = "reading" /\ lastCommitted' = 0
    BY <1>1 DEF Start
  <2>2. page'.at = 0  BY <2>1 DEF PageFrom
  <2> QED  BY <2>1, <2>2 DEF VerifyInv
<1>2. CASE Buffer \/ BufferAndFlush \/ FinalFlush
  BY <1>2 DEF Buffer, BufferAndFlush, FinalFlush, Reading
<1>3. CASE SourceFails
  <2>1. pc = "reading" /\ FailPage(0) /\ UNCHANGED <<batch, lastCommitted, checked>>
    BY <1>3 DEF SourceFails, VerifyInv
  <2>2. CASE attempt < MaxAttempts
    <3>1. cursor' = cursor /\ page' = PageFrom(cursor) /\ pc' = "reading"
      BY <2>1, <2>2 DEF FailPage
    <3>2. page'.at = cursor  BY <3>1 DEF PageFrom
    <3> QED  BY <2>1, <3>1, <3>2 DEF VerifyInv, Seen
  <2>3. CASE ~(attempt < MaxAttempts)
    BY <2>1, <2>3 DEF FailPage, VerifyInv
  <2> QED  BY <2>2, <2>3
<1>4. CASE EndPage
  <2>1. pc = "reading" /\ (Capped \/ Exhausted) /\ UNCHANGED <<batch, lastCommitted, checked>>
          /\ cursor' = (IF page.n = 0 THEN 0 ELSE page.at) /\ page' = PageFrom(cursor')
          /\ pc' = IF page.n < PageSize /\ ~Capped THEN "final" ELSE "reading"
    BY <1>4 DEF EndPage
  <2>2. Seen' = Seen /\ 1..page.at \subseteq Seen  BY <2>1 DEF Seen, VerifyInv
  <2>3. CASE page.n < PageSize /\ ~Capped
    <3>1. page.at = N  BY <2>1, <2>3, LimitAssumption DEF Exhausted, TypeOK
    <3> QED  BY <2>1, <2>2, <2>3, <3>1 DEF VerifyInv, Docs
  <2>4. CASE ~(page.n < PageSize /\ ~Capped)
    <3>1. 1..cursor' \subseteq Seen
      BY <2>1, <2>2
    <3>2. page'.at = cursor'  BY <2>1 DEF PageFrom
    <3> QED  BY <2>1, <2>2, <2>4, <3>1, <3>2 DEF VerifyInv
  <2> QED  BY <2>3, <2>4
<1>5. CASE Crash
  BY <1>5 DEF Crash, memVars, VerifyInv
<1>6. CASE VerifyDoc
  <2>1. pc = "reading" /\ ~Exhausted /\ page' = Handed
          /\ UNCHANGED <<cursor, lastCommitted>>
    BY <1>6 DEF VerifyDoc
  <2>2. Handed.at = page.at + 1 /\ page.at \in 0..N  BY <2>1, HandedType DEF TypeOK
  <2>3. 1..(Handed.at) = 1..page.at \cup {Handed.at}  BY <2>2
  <2>4. pc' = "idle" \/ (pc' = "reading" /\ Seen' = Seen \cup {Handed.at})
    <3>1. CASE batch.n + 1 < Chunk
      <4>1. With(batch, Handed.at).docs = batch.docs \cup {Handed.at}  BY DEF With
      <4> QED  BY <1>6, <2>1, <3>1, <4>1 DEF VerifyDoc, Seen
    <3>2. CASE ~(batch.n + 1 < Chunk)
      <4>1. EmptyBatch(Handed.at).docs = {}  BY DEF EmptyBatch
      <4> QED  BY <1>6, <2>1, <3>2, <4>1 DEF VerifyDoc, Seen
    <3> QED  BY <3>1, <3>2
  <2>5. CASE pc' = "idle"  BY <2>1, <2>5 DEF VerifyInv
  <2>6. CASE pc' = "reading" /\ Seen' = Seen \cup {Handed.at}
    <3>1. 1..cursor \subseteq Seen /\ 1..page.at \subseteq Seen  BY <2>1 DEF VerifyInv
    <3>2. 1..cursor' \subseteq Seen' /\ 1..page'.at \subseteq Seen'
      BY <2>1, <2>3, <2>6, <3>1
    <3> QED  BY <2>1, <2>6, <3>2 DEF VerifyInv
  <2> QED  BY <2>4, <2>5, <2>6
<1>7. CASE VerifyDone
  <2>1. checked' \subseteq Docs  BY DEF TypeOK
  <2> QED  BY <1>7, <2>1 DEF VerifyDone, VerifyInv, Seen
<1>8. CASE UNCHANGED vars
  BY <1>8 DEF vars, VerifyInv, Seen
<1> QED  BY <1>1, <1>2, <1>3, <1>4, <1>5, <1>6, <1>7, <1>8 DEF Next

\* A verification that reports its result has compared every document of the
\* source, for every page and chunk size and whatever attempts failed.
THEOREM VerifyCoversHolds == Spec => []VerifyCovers
<1> DEFINE Inv == TypeOK /\ (command = "verify" => VerifyInv)
<1>1. Init => Inv  BY TypeInit, VerifyInit
<1>2. Inv /\ [Next]_vars => Inv'
  <2> SUFFICES ASSUME Inv, [Next]_vars PROVE Inv'  OBVIOUS
  <2>1. TypeOK /\ TypeOK'  BY TypeStep
  <2>2. command' = command
        BY DEF Next, vars, memVars, Start, Buffer, BufferAndFlush, SourceFails,
               EndPage, FinalFlush, Crash, VerifyDoc, VerifyDone
  <2> QED  BY <2>1, <2>2, VerifyStep
<1>3. Inv => VerifyCovers  BY DEF VerifyInv, VerifyCovers
<1> QED  BY <1>1, <1>2, <1>3, PTL DEF Spec
=============================================================================
