----------------------------- MODULE JobLifecycle -----------------------------
(***************************************************************************)
(* What the job API promises: jobs run one at a time in the order they     *)
(* were submitted, a job ends exactly once, as succeeded, failed or        *)
(* cancelled, and only a job that has not ended can be cancelled.          *)
(***************************************************************************)
CONSTANT Jobs

VARIABLES
  status,   (* the record's status; "new" before it is submitted           *)
  ahead     (* <<k, j>>: both are queued and k was submitted before j      *)

Init == status = [j \in Jobs |-> "new"] /\ ahead = {}

Submit(j) ==
  /\ status[j] = "new"
  /\ status' = [status EXCEPT ![j] = "queued"]
  /\ ahead' = ahead \cup {<<k, j>> : k \in {i \in Jobs : status[i] = "queued"}}

InTurn(j) == status[j] = "queued" /\ \A k \in Jobs : <<k, j>> \notin ahead

LeavesQueue(j) == ahead' = {pair \in ahead : j \notin {pair[1], pair[2]}}

Start(j) ==
  /\ InTurn(j) /\ \A k \in Jobs : status[k] # "running"
  /\ status' = [status EXCEPT ![j] = "running"]
  /\ LeavesQueue(j)

\* The job in turn could not be given its plane.
FailStart(j) ==
  /\ InTurn(j)
  /\ status' = [status EXCEPT ![j] = "failed"]
  /\ LeavesQueue(j)

End(j, outcome) ==
  /\ status[j] = "running"
  /\ status' = [status EXCEPT ![j] = outcome]
  /\ UNCHANGED ahead

CancelQueued(j) ==
  /\ status[j] = "queued"
  /\ status' = [status EXCEPT ![j] = "cancelled"]
  /\ LeavesQueue(j)

Next ==
  \E j \in Jobs :
    \/ Submit(j) \/ Start(j) \/ FailStart(j) \/ CancelQueued(j)
    \/ \E outcome \in {"succeeded", "failed", "cancelled"} : End(j, outcome)

Spec == Init /\ [][Next]_<<status, ahead>>

===============================================================================
