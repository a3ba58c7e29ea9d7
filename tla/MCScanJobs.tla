----------------------------- MODULE MCScanJobs -----------------------------
(* Instances of ScanJobs.tla for TLC. *)
EXTENDS ScanJobs, TLC

\* Job identifiers are only ever compared for equality; the runs that check
\* liveness do without the reduction.
JobSymmetry == Permutations(Jobs)
=============================================================================
