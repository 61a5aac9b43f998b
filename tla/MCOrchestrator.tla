--------------------------- MODULE MCOrchestrator ---------------------------
(***************************************************************************)
(* Instances of Orchestrator for TLC: the runner, two reasoning streams    *)
(* and two cancels of the running job contending for the lease and the     *)
(* lock.  The configurations differ in the failures they allow.            *)
(***************************************************************************)
EXTENDS Orchestrator
=============================================================================
