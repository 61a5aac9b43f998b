---------------------------- MODULE MCJobRunner ----------------------------
(***************************************************************************)
(* Instances of JobRunner for TLC: jobs queue behind each other and beside *)
(* reasoning streams; two cancels may hit the same job.  In the run with   *)
(* every failure, which checks safety only, streams and cancels are        *)
(* interchangeable.                                                        *)
(***************************************************************************)
EXTENDS JobRunner, TLC

Interchangeable == Permutations(Streams) \cup Permutations(Cancellers)
============================================================================
