------------------------ MODULE HardwareSubmissionMC ------------------------
(***************************************************************************)
(* Instances of HardwareSubmission for TLC.                                *)
(***************************************************************************)
EXTENDS HardwareSubmission, TLC

\* The invocations are interchangeable, and so are the identifiers that are
\* not given yet (safety only).
Symmetry == Permutations(Procs) \cup Permutations(Jobs \ ForeignJobs)
=============================================================================
