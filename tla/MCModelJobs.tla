---------------------------- MODULE MCModelJobs ----------------------------
(* Two attempts a job and two messages; two summary jobs, or an extraction  *)
(* job.                                                                     *)
EXTENDS ModelJobs, TLC
CONSTANTS s1, s2, x1, e1, e2

MCSummaryJob == {s1, s2}
MCExtractionJob == {x1}
MCWorkloads == {{s1, s2}, {x1}}
MCEnqueuer == {e1, e2}
MCMessage == 1..2
MCAttempt == {s1, s2, x1} \X (1..2)
MCSymmetry == Permutations(MCEnqueuer)
=============================================================================
