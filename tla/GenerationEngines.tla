--------------------------- MODULE GenerationEngines ---------------------------
(***************************************************************************)
(* The two engines a deployment has to choose from (api/app/main.py): the  *)
(* vLLM-Omni container (GenerationJob) or the diffusers worker process     *)
(* (GenWorker).  The plane worker and the runner's work are selected by    *)
(* one setting, so one of the two runs and the other is never started.     *)
(***************************************************************************)
EXTENDS GenerationJob, GenWorker

VARIABLE engineName   (* COSMOS3_GEN_ENGINE, once it has been checked      *)

enginesvars == <<engineName, vars, workervars>>

\* _gen_engine: an unknown value stops the start-up, so it is no behaviour.
GenEngines == {"vllm_omni", "diffusers"}

EnginesInit == engineName \in GenEngines /\ Init /\ WorkerInit

OmniOnly == engineName = "vllm_omni" /\ UNCHANGED <<engineName, workervars>>
DiffusersOnly == engineName = "diffusers" /\ UNCHANGED <<engineName, vars>>

EnginesNext == \/ OmniOnly /\ Next
               \/ DiffusersOnly /\ WorkerNext

EnginesSpec == EnginesInit /\ [][EnginesNext]_enginesvars

\* As in GenerationJob; and every call of the manager and of the client has a
\* timeout.  Nothing is assumed of the worker process.
EnginesFairSpec ==
  /\ EnginesSpec
  /\ WF_enginesvars(OmniOnly /\ Working) /\ WF_enginesvars(OmniOnly /\ PollsEnd)
  /\ WF_enginesvars(OmniOnly /\ PersistWrites) /\ SF_enginesvars(OmniOnly /\ Runner)
  /\ WF_enginesvars(OmniOnly /\ Expires)
  /\ WF_enginesvars(DiffusersOnly /\ Drives) /\ WF_enginesvars(DiffusersOnly /\ Evicts)

=============================================================================
