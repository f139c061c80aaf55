---------------------------- MODULE MCImportScan ----------------------------
(***************************************************************************)
(* Small instances of ImportScan for TLC.                                  *)
(***************************************************************************)
EXTENDS ImportScan

\* Small documents, and two that fill a batch or a page by their bytes.
MCSize == [d \in Docs |-> IF d \in {3, 6} THEN 4 ELSE 1]
=============================================================================
