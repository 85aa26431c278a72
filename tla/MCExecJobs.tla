----------------------------- MODULE MCExecJobs -----------------------------
(* Small instances of ExecJobs.                                            *)
EXTENDS ExecJobs, TLC

Symmetry ==
  Permutations(SyncJobs) \cup Permutations(Jobs \ SyncJobs)
    \cup Permutations(Workers) \cup Permutations(Cancellers)
=============================================================================
