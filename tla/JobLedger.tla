------------------------------ MODULE JobLedger ------------------------------
(***************************************************************************)
(* What the status file is for: one status per deployment job, changed by  *)
(* one event at a time.  A job gets a verdict only while it is in progress; *)
(* the list of jobs is started over, as a whole, for a new deployment.      *)
(***************************************************************************)
EXTENDS SivtJobs

VARIABLE ledger

Absent == "absent"

Empty == [j \in Jobs |-> Absent]

TypeOK == ledger \in [Jobs -> Statuses] \cup {Empty}

Init == ledger = Empty

Set(j, s) == ledger' = [ledger EXCEPT ![j] = s]

Open == ledger = Empty /\ ledger' = [j \in Jobs |-> NotStarted]

Clear == ledger' = Empty

\* A job another kind of deployment has is struck from a new list.
Strike(j) ==
  /\ ledger # Empty /\ \A k \in Jobs : ledger[k] \in {NotStarted, NotApplicable}
  /\ Set(j, NotApplicable)

Begin(j) == ledger # Empty /\ Set(j, InProgress)

Conclude(j) == ledger[j] = InProgress /\ \E s \in {Passed, Failed} : Set(j, s)

\* The operator chose not to rely on prechecks that were run nevertheless.
Skip == ledger["PRECHECK"] = Passed /\ Set("PRECHECK", Skipped)

\* A cleanup that worked is the first entry of the list it started over.
CleanedUp ==
  /\ ledger # Empty /\ \A k \in Jobs : ledger[k] \in {NotStarted, NotApplicable}
  /\ Set("CLEANUP", Passed)

\* A cleanup may fail without having been seen to begin: what it records as
\* its start is lost when the file holds no list for its environment.
CleanupFails == ledger # Empty /\ Set("CLEANUP", Failed)

Next ==
  \/ Open \/ Clear \/ Skip \/ CleanedUp \/ CleanupFails
  \/ \E j \in Jobs : Strike(j) \/ Begin(j) \/ Conclude(j)

Spec == Init /\ [][Next]_ledger
=============================================================================
