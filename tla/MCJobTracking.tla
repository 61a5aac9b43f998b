--------------------------- MODULE MCJobTracking ---------------------------
(***************************************************************************)
(* Instances of JobTracking for TLC: one job followed through broken       *)
(* connections, and a tab that turns from one job to another.              *)
(***************************************************************************)
EXTENDS JobTracking
============================================================================
