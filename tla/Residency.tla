----------------------------- MODULE Residency -----------------------------
(***************************************************************************)
(* The pure residency decision of api/orchestrator/residency.py: which     *)
(* identity occupies the single GPU slot, and what one acquisition has to  *)
(* evict and load.  An identity is a plane plus a checkpoint label; all    *)
(* generation identities are served by the one generation container, the   *)
(* single reasoning identity by the reasoner container.                    *)
(***************************************************************************)

CONSTANTS
  GenIds,    (* ResidencyId(Plane.GENERATION, label), one per label        *)
  ReasonId,  (* ResidencyId(Plane.REASONING)                               *)
  Cold       (* the empty slot: None                                       *)

ASSUME ResidencyAssumption ==
  /\ ReasonId \notin GenIds
  /\ Cold \notin GenIds \cup {ReasonId}

ResidencyIds == GenIds \cup {ReasonId}

Planes == {"generation", "reasoning"}

\* The container a worker for this identity drives (default_worker_factory).
PlaneOf(id) == IF id = ReasonId THEN "reasoning" ELSE "generation"

\* A planner that loads the new identity beside the old one.
PlanBesideMutant(current, requested) ==
  [evict |-> Cold, load |-> IF current = requested THEN Cold ELSE requested]

\* A planner that takes the plane for the identity: any generation label or
\* the reasoner passes for "already resident" once something is resident.
PlanStickyMutant(current, requested) ==
  [evict |-> Cold, load |-> IF current = Cold THEN requested ELSE Cold]

\* Same identity: nothing to do.  Cold slot: load only.  Another identity:
\* evict it, then load.
PlanAcquire(current, requested) ==
  [evict |-> IF current = requested THEN Cold ELSE current,
   load  |-> IF current = requested THEN Cold ELSE requested]

=============================================================================
