---------------------------- MODULE ScanLifecycle ----------------------------
(***************************************************************************)
(* What the scan-job manager promises its callers (manager.go:17-20 and    *)
(* 58-61, jobstate.go:4-6): there is one physical scanner, so at most one  *)
(* job is in progress; a job that was accepted ends once, completed or     *)
(* failed, and stays that way; a restart of the server loses the job that  *)
(* was in progress and nothing else.  ScanJobs.tla implements this.        *)
(***************************************************************************)
CONSTANTS Jobs,     \* the job identifiers NewJobID can hand out
          NoJob     \* stands for "no job in progress"

VARIABLES busy,     \* the job in progress, or NoJob
          outcome   \* what became of each job

vars == <<busy, outcome>>

Init == /\ busy = NoJob
        /\ outcome = [j \in Jobs |-> "none"]

\* StartScan accepts a job: only when none is in progress.
Accept(j) == /\ busy = NoJob
             /\ outcome[j] = "none"
             /\ busy' = j
             /\ outcome' = [outcome EXCEPT ![j] = "running"]

\* The job in progress ends, and the scanner is free for the next request.
End(j, how) == /\ busy = j
               /\ busy' = NoJob
               /\ outcome' = [outcome EXCEPT ![j] = how]

\* The server stops and starts again.
Restart == /\ busy' = NoJob
           /\ outcome' = [j \in Jobs |-> IF j = busy THEN "lost" ELSE outcome[j]]

Next == \/ \E j \in Jobs : Accept(j) \/ \E how \in {"completed", "failed"} : End(j, how)
        \/ Restart

Spec == Init /\ [][Next]_vars
=============================================================================
