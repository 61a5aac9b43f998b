------------------------------- MODULE GpuSlot -------------------------------
(***************************************************************************)
(* What the orchestrator and the GPU lease together promise to whoever     *)
(* uses the GPU: one slot, one user at a time, the user finds the identity *)
(* it asked for, the slot goes through empty from one identity to another, *)
(* and an eviction never happens under a user that is not the job runner   *)
(* (a running job may be evicted: that is how it is cancelled).            *)
(***************************************************************************)
CONSTANTS GenIds, ReasonId, Cold, Runner, Streams, Nobody

VARIABLES
  resident,  (* the identity in the slot                                   *)
  user       (* the session working on it                                  *)

\* The runner works on generation identities, the streams on the reasoner.
IdsOf(s) == IF s = Runner THEN GenIds ELSE {ReasonId}

Init == resident = Cold /\ user = Nobody

\* A session starts to use the slot with its identity in it.
Serve(s, id) ==
  /\ user = Nobody
  /\ resident \in {Cold, id}
  /\ resident' = id
  /\ user' = s

Finish ==
  /\ user' = Nobody
  /\ UNCHANGED resident

Evict ==
  /\ user \in {Nobody, Runner}
  /\ resident' = Cold
  /\ UNCHANGED user

\* The process that kept the slot is gone.
Forget == resident' = Cold /\ user' = Nobody

Next ==
  \/ \E s \in {Runner} \cup Streams : \E id \in IdsOf(s) : Serve(s, id)
  \/ Finish
  \/ Evict
  \/ Forget

Spec == Init /\ [][Next]_<<resident, user>>

==============================================================================
