---------------------------- MODULE JobRefinement ----------------------------
(* How the status file keeps the ledger of JobLedger.                      *)
EXTENDS JobStatus

\* The list in the file, if there is one.
Entries == IF db = <<>> THEN [j \in Jobs |-> "absent"] ELSE Head(db).st

Ledger == INSTANCE JobLedger WITH ledger <- Entries

\* However many steps a command line and a thread take to record it, what the
\* file shows changes by one event of the ledger at a time.
LedgerSpec == Ledger!Spec
=============================================================================
