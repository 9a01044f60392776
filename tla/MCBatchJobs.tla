----------------------------- MODULE MCBatchJobs -----------------------------
(* Instances of BatchJobs for TLC. *)
EXTENDS BatchJobs, TLC

CONSTANTS t1, t2, d1, d2, j1, j2, j3, j4

MCDayOf == t1 :> d1 @@ t2 :> d2
\* The net obligation of t1 is whole paise, those of t2 and of both are not.
MCAmount == t1 :> 50 @@ t2 :> 75
JobSymmetry == Permutations(Jobs)
==============================================================================
