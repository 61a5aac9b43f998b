------------------------------- MODULE GenWorker -------------------------------
(***************************************************************************)
(* The diffusers generation engine (COSMOS3_GEN_ENGINE=diffusers): the     *)
(* plane worker that starts and kills a process group (orchestrator/       *)
(* worker.py), the process that loads the pipeline and serves requests on  *)
(* a socket (orchestrator/gen_worker.py, the adapters), the files it       *)
(* encodes (jobs/artifacts.py), and the client in the runner's thread      *)
(* (jobs/gen_client.py).                                                   *)
(*                                                                         *)
(* The process, the client's thread and the manager's thread run at the    *)
(* same time; the process may die at every step.  The runner has one job   *)
(* at a time (JobRunner), so there is one connection at a time.            *)
(***************************************************************************)
EXTENDS RequestForms

CONSTANTS
  MaxTasks,      (* bound: jobs taken                                      *)
  TaskRequests,  (* bound: the requests of the jobs, by number             *)
  Steps,         (* num_inference_steps                                    *)
  WantLatents    (* COSMOS3_WANT_LATENTS                                   *)

ASSUME WorkerAssumption ==
  /\ MaxTasks \in Nat /\ Steps \in Nat /\ WantLatents \in BOOLEAN
  /\ \A n \in 1..MaxTasks : TaskRequests[n] \subseteq AnyRequest

VARIABLES
  task,     (* the jobs taken, in order                                    *)
  client,   (* where the runner is with the last of them                   *)
  manager,  (* the plane worker as the manager has it                      *)
  leader,   (* the worker process                                          *)
  path,     (* what the socket's path leads to                             *)
  ready,    (* the ready-file exists                                       *)
  link,     (* the connection: whose it is, open at the client, the        *)
            (* request unread, frames under way, closed by the worker      *)
  run,      (* the request served: steps done, files left, files named     *)
  file,     (* the artifacts of each job                                   *)
  faults    (* history: what went wrong so far, up to MaxTasks             *)

procvars == <<leader, path, ready, link, run, file>>
workervars == <<task, client, manager, procvars, faults>>

Artifacts == {"png", "mp4", "wav", "json", "npy"}
Alive == {"loading", "warming", "warm", "bound", "serving", "running", "encoding", "failing"}
Over == {"succeeded", "failed", "cancelled"}
NoLink == [task |-> 0, open |-> FALSE, unread |-> FALSE, frames |-> <<>>, closed |-> TRUE]
NoRun == [steps |-> 0, todo |-> <<>>, names |-> {}]
NoFiles == [f \in Artifacts |-> "absent"]

WorkerTypeOK ==
  /\ Len(task) <= MaxTasks
  /\ \A n \in DOMAIN task : task[n].status \in Over \cup {"queued", "running"}
  /\ client \in {"idle", "acquire", "unready", "connect", "read", "returned", "raised", "cleanup"}
  /\ manager \in {"none", "starting", "up", "term", "kill"}
  /\ leader \in Alive \cup {"dead"} /\ path \in {"absent", "stale", "live"} /\ ready \in BOOLEAN
  /\ run.steps \in 0..Steps /\ run.names \subseteq Artifacts
  /\ file \in [1..MaxTasks -> [Artifacts -> {"absent", "torn", "whole", "muxed"}]]
  /\ faults \in 0..MaxTasks

Now == Len(task)
TaskParams == task[Now].params
Cancelled == task[Now].status = "cancelled"
Fault == faults' = IF faults < MaxTasks THEN faults + 1 ELSE faults

-----------------------------------------------------------------------------
(* The manager's side: SubprocessPlaneWorker.                              *)

\* The process is gone: its connection is closed, the path it bound is stale.
Dies ==
  /\ leader' = "dead" /\ run' = NoRun
  /\ path' = IF path = "live" THEN "stale" ELSE path
  /\ link' = [link EXCEPT !.closed = TRUE, !.unread = FALSE]
  /\ UNCHANGED <<ready, file>>

\* start: the ready-file of an earlier worker is removed, then the process runs.
StartWorker ==
  /\ client = "acquire" /\ manager = "none"
  /\ ready' = FALSE
  /\ leader' = "loading" /\ manager' = "starting"
  /\ UNCHANGED <<task, client, path, link, run, file, faults>>

\* The plane is recorded and the job starts.
Resident ==
  /\ manager' = "up" /\ client' = "connect"
  /\ task' = [task EXCEPT ![Now].status = "running"]

\* _probe: the ready-file is there, whoever wrote it.
Probe == ready

\* wait_ready: the process died, the probe passes, or the time is up; the last
\* look, after the deadline, is at the ready-file only.
WaitReady ==
  /\ manager = "starting"
  /\ \/ /\ Probe /\ Resident
     \/ /\ leader = "dead" \/ ~Probe
        /\ manager' = "term" /\ client' = "unready" /\ UNCHANGED task
  /\ IF client' = "unready" /\ leader # "dead" THEN Fault ELSE UNCHANGED faults
  /\ UNCHANGED procvars

\* acquire of the plane that is recorded: nobody asks the worker (is_alive).
AcquireResident ==
  /\ client = "acquire" /\ manager = "up"
  /\ Resident
  /\ UNCHANGED <<procvars, faults>>

\* evict: SIGTERM to the group, SIGKILL if the leader is still there 30 s later,
\* and the end after 30 s more at most.
EvictTerminates ==
  /\ manager = "term"
  /\ IF leader = "dead" THEN UNCHANGED procvars ELSE Dies
  /\ manager' = "none"
  /\ UNCHANGED <<task, client, faults>>

EvictEscalates ==
  /\ manager = "term" /\ leader # "dead"
  /\ manager' = "kill"
  /\ UNCHANGED <<task, client, procvars, faults>>

EvictKills ==
  /\ manager = "kill"
  /\ IF leader = "dead" THEN UNCHANGED procvars ELSE Dies
  /\ manager' = "none"
  /\ UNCHANGED <<task, client, faults>>

\* evict_all, for a caller that waits for the end.
EvictAll == manager' = IF manager = "up" THEN "term" ELSE manager

-----------------------------------------------------------------------------
(* The runner and its client thread: gen_client.work.                      *)

Take(r) ==
  /\ client = "idle" /\ Now < MaxTasks
  /\ Verdict(r) = "ok"
  /\ task' = Append(task, [params |-> JobParams(Mapped(r)), status |-> "queued", names |-> {}])
  /\ client' = "acquire"
  /\ UNCHANGED <<manager, procvars, faults>>

\* build_request and connect, and one frame with the request; refused when a
\* path is not trusted or nobody listens.
Connect ==
  /\ client = "connect"
  /\ IF PathError(TaskParams) = "ok" /\ path = "live"
     THEN /\ client' = "read"
          /\ link' = [task |-> Now, open |-> TRUE, unread |-> TRUE, frames |-> <<>>, closed |-> FALSE]
     ELSE client' = "raised" /\ UNCHANGED link
  /\ UNCHANGED <<task, manager, leader, path, ready, run, file, faults>>

\* The socket is closed when work leaves the with block.
HangsUp == link' = [link EXCEPT !.open = FALSE, !.frames = <<>>]

Frame(type, names) == [type |-> type, names |-> names]
\* unframe, and _read_exact when the stream ends instead.
Got(type) == link.frames # <<>> /\ Head(link.frames).type = type
StreamClosed == link.frames = <<>> /\ link.closed

\* read_reply: progress frames are relayed until the result; a stream that ends
\* before it is a FramingError.
ReadReply ==
  /\ client = "read"
  /\ \/ /\ Got("progress")
        /\ link' = [link EXCEPT !.frames = Tail(@)]
        /\ UNCHANGED <<client, task>>
     \/ /\ Got("failure")
        /\ HangsUp /\ client' = "raised" /\ UNCHANGED task
     \/ /\ Got("result")
        /\ HangsUp /\ client' = "returned"
        /\ task' = [task EXCEPT ![Now].names = Head(link.frames).names]
     \/ /\ StreamClosed
        /\ HangsUp /\ client' = "raised" /\ UNCHANGED task
  /\ UNCHANGED <<manager, leader, path, ready, run, file, faults>>

\* A socket without a timeout.
ReadTimesOutMutant == client = "read" /\ FALSE /\ UNCHANGED workervars

\* COSMOS3_GEN_TIMEOUT, for every single read.
ReadTimesOut ==
  /\ client = "read" /\ link.frames = <<>> /\ ~link.closed
  /\ HangsUp /\ client' = "raised" /\ Fault
  /\ UNCHANGED <<task, manager, leader, path, ready, run, file>>

\* The job ends; a failed one may have left the plane dirty, so it is released.
Returns ==
  /\ client = "returned"
  /\ task' = IF Cancelled THEN task ELSE [task EXCEPT ![Now].status = "succeeded"]
  /\ client' = "idle"
  /\ UNCHANGED <<manager, procvars, faults>>

\* A runner that keeps the plane of a job that failed.
RaisesMutant ==
  /\ client = "raised" \/ (client = "unready" /\ manager = "none")
  /\ task' = IF Cancelled THEN task ELSE [task EXCEPT ![Now].status = "failed"]
  /\ client' = "idle"
  /\ UNCHANGED <<manager, procvars, faults>>

RunnerFails ==
  /\ client = "raised" \/ (client = "unready" /\ manager = "none")
  /\ IF Cancelled
     THEN client' = "idle" /\ UNCHANGED <<task, manager>>
     ELSE /\ task' = [task EXCEPT ![Now].status = "failed"]
          /\ EvictAll
          /\ client' = "cleanup"
  /\ UNCHANGED <<procvars, faults>>

CleansUp ==
  /\ client = "cleanup" /\ manager \notin {"term", "kill"}
  /\ client' = "idle"
  /\ UNCHANGED <<task, manager, procvars, faults>>

\* cancel of the running job: the group is killed under the client.
CancelTask ==
  /\ client \in {"connect", "read", "returned", "raised"} /\ ~Cancelled
  /\ task' = [task EXCEPT ![Now].status = "cancelled"]
  /\ EvictAll
  /\ UNCHANGED <<client, procvars, faults>>

-----------------------------------------------------------------------------
(* The worker process: gen_worker.main and serve.                          *)

\* build_adapters: one pipeline, on the GPU, for both adapters.
BuildAdapters ==
  /\ leader = "loading"
  /\ leader' = "warming"
  /\ UNCHANGED <<task, client, manager, path, ready, link, run, file, faults>>

\* warm: a generation of one step.
Warm ==
  /\ leader = "warming"
  /\ leader' = "warm"
  /\ UNCHANGED <<task, client, manager, path, ready, link, run, file, faults>>

\* A worker that says it is ready before it listens.
ListenMutant ==
  /\ leader = "warm"
  /\ leader' = "bound" /\ ready' = TRUE
  /\ UNCHANGED <<task, client, manager, path, link, run, file, faults>>

\* _listen: the path is unlinked and bound anew.
Listen ==
  /\ leader = "warm"
  /\ leader' = "bound" /\ path' = "live"
  /\ UNCHANGED <<task, client, manager, ready, link, run, file, faults>>

\* Only now the ready-file is written.
SaysReady ==
  /\ leader = "bound"
  /\ leader' = "serving" /\ ready' = TRUE
  /\ UNCHANGED <<task, client, manager, path, link, run, file, faults>>

\* A load that raises, a crash, the kernel's OOM killer.
Crashes ==
  /\ leader # "dead"
  /\ Dies /\ Fault
  /\ UNCHANGED <<task, client, manager>>

\* generate_action validates the request again, before it uses the GPU.
GenerateActionError(p) ==
  IF Convertible(p) THEN ActionError(SpecOf(ToActionRequest(p))) ELSE "invalid_param"
\* generate has nothing to validate: the mapping raises, or it does not.
GenerateError(p) == IF Convertible(p) THEN "ok" ELSE "invalid_param"

\* dispatch: the adapter of the request's kind.
Dispatch(q) ==
  IF q.kind = "action" \/ q.params.mode \notin GenerationModes
  THEN GenerateActionError(q.params) ELSE GenerateError(q.params)

\* What the worker serves, also when the client has gone and the runner has its
\* next job.
Request == task[link.task].params

\* accept, unframe, dispatch; what raises becomes the reply.
Accepts ==
  /\ leader = "serving" /\ link.unread
  /\ link' = [link EXCEPT !.unread = FALSE]
  /\ leader' = IF Dispatch(BuildRequest(Request, WantLatents)) = "ok" THEN "running" ELSE "failing"
  /\ run' = NoRun
  /\ UNCHANGED <<task, client, manager, path, ready, file, faults>>

\* The pipeline of generate: a step sends a frame, which raises in the pipeline
\* when the client is gone.
Generates ==
  /\ leader = "running" /\ run.steps < Steps /\ Request.mode \in GenerationModes
  /\ run' = [run EXCEPT !.steps = @ + 1]
  /\ IF link.open
     THEN link' = [link EXCEPT !.frames = Append(@, Frame("progress", {}))] /\ UNCHANGED leader
     ELSE leader' = "failing" /\ UNCHANGED link
  /\ UNCHANGED <<task, client, manager, path, ready, file, faults>>

\* The pipeline of generate_action, which reports nothing.
GeneratesAction ==
  /\ leader = "running" /\ run.steps < Steps /\ Request.mode \in ActionModes
  /\ run' = [run EXCEPT !.steps = @ + 1]
  /\ UNCHANGED <<task, client, manager, leader, path, ready, link, file, faults>>

\* What comes out of a pipeline: frames or none, sound if it was asked for, a
\* trajectory or none.
GenerationResults(p) == [frames : BOOLEAN, sound : {FALSE, p.sound}]
ActionResults == [frames : BOOLEAN, trajectory : BOOLEAN]

\* The files of a result, in the order they are written: the primary one, the
\* sound and the attempt to mux it, the latents.  No frames, no picture.
WithAudio(sound) == IF sound THEN <<"mp4", "wav", "mux">> ELSE <<"mp4">>
EncodeGenerationReply(p, result) ==
  IF ~result.frames THEN <<"raise">>
  ELSE (CASE p.mode = "t2i"       -> <<"png">>
          [] p.mode = "t2v_audio" -> WithAudio(result.sound)
          [] OTHER                -> <<"mp4">>) \o (IF WantLatents THEN <<"npy">> ELSE <<>>)

\* A trajectory is all that inverse_dynamics makes, and beside the rollout of
\* the others.
EncodeActionReply(p, result) ==
  IF p.mode = "inverse_dynamics" THEN IF result.trajectory THEN <<"json">> ELSE <<"raise">>
  ELSE IF ~result.frames THEN <<"raise">>
  ELSE IF result.trajectory THEN <<"mp4", "json">> ELSE <<"mp4">>

RunEnds ==
  /\ leader = "running" /\ run.steps = Steps
  /\ IF Request.mode \in ActionModes
     THEN \E result \in ActionResults :
            run' = [run EXCEPT !.todo = EncodeActionReply(Request, result)]
     ELSE \E result \in GenerationResults(Request) :
            run' = [run EXCEPT !.todo = EncodeGenerationReply(Request, result)]
  /\ leader' = "encoding"
  /\ UNCHANGED <<task, client, manager, path, ready, link, file, faults>>

\* The conditioning file cannot be read, the pipeline or an encoder raises: a
\* typed reply.
RunFails ==
  /\ \/ leader = "running"
     \/ leader = "encoding" /\ run.todo # <<>> /\ Head(run.todo) \notin {"wav", "mux"}
  /\ leader' = "failing" /\ Fault
  /\ UNCHANGED <<task, client, manager, path, ready, link, run, file>>

Encoding(f) == leader = "encoding" /\ run.todo # <<>> /\ Head(run.todo) = f
Sets(f, state) == file' = [file EXCEPT ![link.task][f] = state]

\* A file is opened, which truncates it, and written.
Writes(f) ==
  /\ Encoding(f)
  /\ IF file[link.task][f] = "absent" THEN Sets(f, "torn") /\ UNCHANGED run
     ELSE /\ Sets(f, "whole")
          /\ run' = [run EXCEPT !.todo = Tail(@), !.names = @ \cup {f}]
  /\ UNCHANGED <<task, client, manager, leader, path, ready, link, faults>>

WritesImage == Writes("png")
WritesVideo == Writes("mp4")
WritesLatents == Writes("npy")
WritesTrajectory == Writes("json")
WritesWav == Writes("wav")

\* write_video_with_audio: sound that cannot be written leaves a silent video.
WavFails ==
  /\ Encoding("wav")
  /\ run' = [run EXCEPT !.todo = Tail(Tail(@))]
  /\ UNCHANGED <<task, client, manager, leader, path, ready, link, file, faults>>

\* A mux that names the file it has removed.
MuxesMutant ==
  /\ Encoding("mux")
  /\ file' = [file EXCEPT ![link.task].mp4 = "muxed", ![link.task].wav = "absent"]
  /\ run' = [run EXCEPT !.todo = Tail(@)]
  /\ UNCHANGED <<task, client, manager, leader, path, ready, link, faults>>

\* _try_mux replaces the video in one step; then the sound file goes.  When it
\* fails, the sound stays beside the video.
Muxes ==
  /\ Encoding("mux")
  /\ \/ /\ file' = [file EXCEPT ![link.task].mp4 = "muxed", ![link.task].wav = "absent"]
        /\ run' = [run EXCEPT !.todo = Tail(@), !.names = @ \ {"wav"}]
     \/ run' = [run EXCEPT !.todo = Tail(@)] /\ UNCHANGED file
  /\ UNCHANGED <<task, client, manager, leader, path, ready, link, faults>>

\* The result frame, if the client is still there; then the connection is closed
\* and the next one accepted.
Replies ==
  /\ leader = "failing" \/ (leader = "encoding" /\ run.todo = <<>>)
  /\ link' = [link EXCEPT !.closed = TRUE,
                !.frames = IF ~link.open THEN @
                           ELSE Append(@, IF leader = "failing" THEN Frame("failure", {})
                                          ELSE Frame("result", run.names))]
  /\ leader' = "serving" /\ run' = NoRun
  /\ UNCHANGED <<task, client, manager, path, ready, file, faults>>

-----------------------------------------------------------------------------
WorkerInit ==
  /\ task = <<>> /\ client = "idle" /\ manager = "none"
  /\ leader = "dead" /\ path = "absent" /\ ready = FALSE
  /\ link = NoLink /\ run = NoRun /\ faults = 0
  /\ file = [n \in 1..MaxTasks |-> NoFiles]

Evicts == EvictTerminates \/ EvictKills
Drives == \/ StartWorker \/ WaitReady \/ AcquireResident \/ Connect \/ ReadReply \/ ReadTimesOut
          \/ Returns \/ RunnerFails \/ CleansUp
Serves == \/ BuildAdapters \/ Warm \/ Listen \/ SaysReady \/ Accepts \/ Generates \/ GeneratesAction
          \/ RunEnds \/ RunFails \/ WritesImage \/ WritesVideo \/ WritesLatents \/ WritesTrajectory
          \/ WritesWav \/ WavFails \/ Muxes \/ Replies

WorkerNext ==
  \/ Drives \/ Evicts \/ EvictEscalates \/ Serves \/ Crashes \/ CancelTask
  \/ \E r \in TaskRequests[IF Now < MaxTasks THEN Now + 1 ELSE MaxTasks] : Take(r)

-----------------------------------------------------------------------------
(* Properties.                                                             *)

\* A job that connects finds a worker that is listening on the path and has
\* nothing else to do, unless the process has died: neither a ready-file nor a
\* socket of an earlier worker is taken for the new one's (start, serve), and no
\* job waits behind one that was given up (evict_all after a failed job).
ConnectsToIdleWorker ==
  client = "connect" /\ ~Cancelled /\ leader # "dead"
    => leader = "serving" /\ path = "live" /\ ready

\* Every fault costs one job at most: a worker that died unnoticed fails the
\* next job, whose clean-up forgets the dead plane.  No job fails without a
\* fault, save one whose raw_actions are not as wide as it declared, or with a
\* parameter the edge lets pass and the mapping does not.
Misdeclared(p) == p.mode = "forward_dynamics" /\ p.rows # p.width
Unconvertible(p) == p.tier = Null \/ IntFails(p.steps)
EachFaultCostsOneJob ==
  Cardinality({n \in DOMAIN task : task[n].status = "failed" /\ ~Misdeclared(task[n].params)
                                        /\ ~Unconvertible(task[n].params)}) <= faults

\* What the reply of a job that succeeded names is on the disk and complete:
\* the sound file only when it was not muxed (write_video_with_audio).
NamedFilesAreThere ==
  \A n \in DOMAIN task : task[n].status = "succeeded" =>
    /\ task[n].names # {}
    /\ \A f \in task[n].names : file[n][f] \in {"whole", "muxed"}
    /\ file[n].mp4 = "muxed" => file[n].wav = "absent"

\* Every job ends, also when the process never gets ready or never answers.
EveryTaskEnds == \A n \in 1..MaxTasks : n \in DOMAIN task ~> n \in DOMAIN task /\ task[n].status \in Over

=============================================================================
