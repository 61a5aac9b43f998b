---------------------------- MODULE GenerationJob ----------------------------
(***************************************************************************)
(* A generation job from the request to the artifact: the submission with  *)
(* its idempotency key and inline media (api/app/jobs_router.py, jobs/     *)
(* store.py), the worker thread that drives the engine's http api (engines/*)
(* vllm_omni/work.py, client.py) and writes the artifact (jobs/            *)
(* artifacts.py), the engine, and cancels.                                 *)
(*                                                                         *)
(* The event loop runs submissions, starts, ends and cancels; the worker   *)
(* is a thread, so its steps interleave with all of them, also in the      *)
(* middle of a submission that writes a file.                              *)
(***************************************************************************)
EXTENDS RequestForms

CONSTANTS
  MaxJobs,   (* bound: jobs submitted                                      *)
  Keys,      (* Idempotency-Key values                                     *)
  NoKey,     (* a request without the header                               *)
  Requests   (* bound: the requests clients send, by number of submission  *)

ASSUME JobAssumption ==
  /\ MaxJobs \in Nat /\ NoKey \notin Keys
  /\ \A n \in 1..MaxJobs : Requests[n] \subseteq AnyRequest

VARIABLES
  job,     (* JobStore._jobs, in the order of submission                   *)
  keys,    (* JobStore._idem: the job of each key, 0 when unused           *)
  upload,  (* the submission that is writing the inline media, if any      *)
  cond,    (* the content-addressed conditioning file, by kind of media    *)
  work,    (* the worker: its step, job, progress floor, file and error    *)
  late,    (* COSMOS3_GEN_TIMEOUT has passed since the worker's POST       *)
  plane,   (* the engine's container is up                                 *)
  engine,  (* the engine's job for each api job                            *)
  sent,    (* the conditioning media the engine got with it                *)
  spared,  (* (history) the jobs whose evict_all could not stop it         *)
  disk,    (* the artifacts of each job                                    *)
  counted, (* cosmos3_job_submitted                                        *)
  ended    (* cosmos3_job_terminal: the outcome each job's work counted    *)

edgevars == <<job, keys, upload, cond>>
enginevars == <<plane, engine, sent, spared>>
meters == <<counted, ended>>
vars == <<edgevars, work, late, enginevars, disk, meters>>

Ids == 1..MaxJobs
Files == {"png", "mp4", "json"}
Full == 2   \* a progress of 1.0
Cap == 1    \* _POLL_PROGRESS_CAP

Ended == {"succeeded", "failed", "cancelled"}
ClientErrors == {"generation_failed", "timeout", "invalid_input", "unsupported_mode",
                 "payload_too_large", "untrusted_path"}
NoParams == [mode |-> "none"]
NoUpload == [kind |-> "none", params |-> NoParams, key |-> NoKey]
Idle == [step |-> "idle", job |-> 0, floor |-> 0, file |-> "none", bytes |-> "none", error |-> "none"]

TypeOK ==
  /\ Len(job) <= MaxJobs
  /\ \A j \in DOMAIN job :
       /\ job[j].status \in Ended \cup {"queued", "running"} /\ job[j].progress \in 0..Full
       /\ job[j].error \in ClientErrors \cup {"none", "internal_error"}
       /\ (job[j].error = "none") <=> (job[j].status # "failed")
  /\ keys \in [Keys -> 0..Len(job)]
  /\ cond \in [Kinds -> {"absent", "torn", "whole"}]
  /\ work.step \in {"idle", "resolve", "read", "submit", "call", "poll", "download", "open",
                    "fill", "report", "return", "raised", "returned", "threw"}
  /\ (work.step = "idle") <=> (work.job = 0)
  /\ late \in BOOLEAN /\ plane \in BOOLEAN
  /\ engine \in [Ids -> {"none", "busy", "completed", "failed", "gone"}]
  /\ sent \in [Ids -> {"nothing", "none", "torn", "whole"}] /\ spared \subseteq Ids
  /\ disk \in [Ids -> [Files -> {"absent", "torn", "empty", "whole"}]]
  /\ counted \in Nat /\ ended \in [Ids -> {"none", "succeeded", "failed"}]

-----------------------------------------------------------------------------
(* Submission, on the event loop.                                          *)

\* A refused request changes nothing.
Accepted[n \in Ids] == {r \in Requests[n] : Verdict(r) = "ok"}
Clients == Accepted[IF Len(job) < MaxJobs THEN Len(job) + 1 ELSE MaxJobs]
LoopIsFree == upload = NoUpload

\* The typed routes hand no Idempotency-Key on.
KeysFor(r) == IF r.route = "jobs" THEN Keys \cup {NoKey} ELSE {NoKey}
Used(key) == key # NoKey /\ keys[key] # 0

\* A queued job, and the count of it.
Creates(params, key) ==
  /\ Len(job) < MaxJobs
  /\ job' = Append(job, [params |-> params, key |-> key, status |-> "queued", progress |-> 0,
                         error |-> "none", artifact |-> "none", trajectory |-> "none"])
  /\ keys' = IF key = NoKey THEN keys ELSE [keys EXCEPT ![key] = Len(job')]
  /\ counted' = counted + 1

\* A store that makes a job of every submission.
StoreSubmitMutant(params, key) == Creates(params, key)

\* JobStore.submit: a used key replays its job, or conflicts, and counts nothing.
StoreSubmit(params, key) ==
  IF Used(key) THEN UNCHANGED <<job, keys, counted>> ELSE Creates(params, key)

\* submit_and_enqueue without inline media.
Submit(r, key) ==
  /\ LoopIsFree
  /\ r.media.kind = "none"
  /\ StoreSubmit(JobParams(Mapped(r)), key)
  /\ UNCHANGED <<upload, cond, work, late, enginevars, disk, ended>>

\* _persist_inline_media: the file is opened, which truncates it, also for a
\* submission that will turn out to be a replay, ...
PersistOpens(r, key) ==
  /\ LoopIsFree
  /\ r.media.kind # "none"
  /\ Used(key) \/ Len(job) < MaxJobs
  /\ cond' = [cond EXCEPT ![r.media.kind] = "torn"]
  /\ upload' = [kind |-> r.media.kind, key |-> key,
                params |-> IF Used(key) THEN NoParams ELSE JobParams(Mapped(r))]
  /\ UNCHANGED <<job, keys, work, late, enginevars, disk, meters>>

\* ... then written, and the job is stored.
PersistWrites ==
  /\ ~LoopIsFree
  /\ cond' = [cond EXCEPT ![upload.kind] = "whole"]
  /\ upload' = NoUpload
  /\ StoreSubmit(upload.params, upload.key)
  /\ UNCHANGED <<work, late, enginevars, disk, ended>>

-----------------------------------------------------------------------------
(* The worker thread.  The runner gives it the queued jobs one at a time,  *)
(* in order (JobLifecycle).                                                *)

Queued == {j \in DOMAIN job : job[j].status = "queued"}
Params == job[work.job].params
At(step) == work.step = step
Goes(step) == work' = [work EXCEPT !.step = step]
Raises(code) == work' = [work EXCEPT !.step = "raised", !.error = code]

\* _progress_cb: only a running job's progress is recorded.
Reported(fraction) ==
  job' = IF job[work.job].status = "running"
         THEN [job EXCEPT ![work.job].progress = fraction] ELSE job

Dequeued == CHOOSE i \in Queued : \A k \in Queued : i <= k

\* The plane is acquired and the thread started.  To start a container that is up
\* does nothing: what its engine was doing goes on.
Starts ==
  /\ LoopIsFree /\ At("idle") /\ Queued # {}
  /\ job' = [job EXCEPT ![Dequeued].status = "running"]
  /\ work' = [Idle EXCEPT !.step = "resolve", !.job = Dequeued]
  /\ plane' = TRUE
  /\ UNCHANGED <<keys, upload, cond, late, engine, sent, spared, disk, meters>>

\* docker stop: the engine goes, with everything it was doing.
ContainerStops ==
  /\ plane' = FALSE
  /\ engine' = [j \in Ids |-> IF engine[j] = "none" THEN "none" ELSE "gone"]

\* acquire raises: the job fails with no worker, and so no metered_work.  The
\* container is stopped, or comes up all the same and cannot be stopped.
StartFails ==
  /\ LoopIsFree /\ At("idle") /\ Queued # {}
  /\ job' = [job EXCEPT ![Dequeued].status = "failed", ![Dequeued].error = "internal_error"]
  /\ ContainerStops \/ (plane' = TRUE /\ UNCHANGED engine)
  /\ UNCHANGED <<keys, upload, cond, work, late, sent, spared, disk, meters>>

\* vllm_omni_work up to the first call.
Source == LET kind == Conditioning(Params.mode) IN
          IF kind = "none" THEN "none" ELSE Params.path[kind]
Resolves ==
  /\ At("resolve")
  /\ IF Refusal(Params) # "ok" THEN Raises(Refusal(Params))
     ELSE Goes(IF Source = "none" THEN "submit" ELSE "read")
  /\ UNCHANGED <<edgevars, late, enginevars, disk, meters>>

\* _read_filepart.
Reads ==
  /\ At("read")
  /\ \/ work' = [work EXCEPT !.step = "submit",
                       !.bytes = IF Source = "inline" THEN cond[Conditioning(Params.mode)] ELSE "whole"]
     \/ Raises("internal_error")
  /\ UNCHANGED <<edgevars, late, enginevars, disk, meters>>

Synchronous == Params.mode \in {"t2i", "forward_dynamics"}
Predicts == Params.mode \in {"policy", "inverse_dynamics"}

\* int() raises on a parameter while the form is built.
FormRaises ==
  /\ At("submit") /\ ~Buildable(Params)
  /\ Raises("internal_error")
  /\ UNCHANGED <<edgevars, late, enginevars, disk, meters>>

\* The POST reaches the engine, which has a job then.
Posts ==
  /\ At("submit") /\ plane /\ Buildable(Params)
  /\ engine' = [engine EXCEPT ![work.job] = "busy"]
  /\ sent' = [sent EXCEPT ![work.job] = work.bytes]
  /\ work' = [work EXCEPT !.step = IF Synchronous THEN "call" ELSE "poll", !.bytes = "none"]
  /\ UNCHANGED <<edgevars, late, plane, spared, disk, meters>>

\* The answer to the POST does not arrive, or names no job.
PostIsLost ==
  /\ At("submit") /\ Buildable(Params)
  /\ \/ Raises("internal_error")
     \/ Synchronous /\ Raises("generation_failed")
  /\ \/ UNCHANGED <<engine, sent>>
     \/ /\ plane
        /\ engine' = [engine EXCEPT ![work.job] = "busy"]
        /\ sent' = [sent EXCEPT ![work.job] = work.bytes]
  /\ UNCHANGED <<edgevars, late, plane, spared, disk, meters>>

\* The first file each mode writes: .png, .mp4, or the trajectory.
FirstFile == CASE Params.mode = "t2i" -> "png"
               [] Params.mode = "inverse_dynamics" -> "json"
               [] OTHER -> "mp4"
GetsBytes(bytes) == work' = [work EXCEPT !.step = "open", !.file = FirstFile, !.bytes = bytes]

\* run_image_job and run_forward_dynamics_job: the call returns the result.
CallReturns ==
  /\ At("call") /\ plane
  /\ \/ engine[work.job] = "completed" /\ \E b \in {"whole", "empty"} : GetsBytes(b)
     \/ engine[work.job] = "completed" /\ Params.mode = "t2i" /\ Raises("generation_failed")
     \/ engine[work.job] = "failed" /\ Raises("generation_failed")
  /\ UNCHANGED <<edgevars, late, enginevars, disk, meters>>

\* The call times out, the connection breaks, the answer is an error page.
CallIsLost ==
  /\ At("call")
  /\ \E code \in {"internal_error", "generation_failed"} : Raises(code)
  /\ UNCHANGED <<edgevars, late, enginevars, disk, meters>>

-----------------------------------------------------------------------------
(* The asynchronous modes: run_video_job and run_action_job.  Every turn   *)
(* of the loop looks at the deadline first.                                *)

\* A loop that looks at the deadline when the engine does not answer only.
DeadlineMutant == late /\ ~plane
Deadline == late

\* The DELETE reaches the engine, or whatever happens to it is suppressed.
Deletes == \/ plane /\ engine' = [engine EXCEPT ![work.job] = "gone"]
           \/ UNCHANGED engine

PollTimesOut ==
  /\ At("poll") /\ Deadline
  /\ Deletes
  /\ Raises("timeout")
  /\ UNCHANGED <<edgevars, late, plane, sent, spared, disk, meters>>

Polls(state) == At("poll") /\ ~Deadline /\ plane /\ engine[work.job] = state

\* The reported fraction never falls.
Floor(fraction) == IF fraction > work.floor THEN fraction ELSE work.floor

\* A fraction taken from the engine as it comes.
CappedMutant(fraction) == fraction

\* _progress_fraction: what the engine says stays below 1.0.
Capped(fraction) == IF fraction > Cap THEN Cap ELSE fraction

PollPending ==
  /\ Polls("busy")
  /\ \E fraction \in 0..Full :
       /\ work' = [work EXCEPT !.floor = Floor(Capped(fraction))]
       /\ Reported(Floor(Capped(fraction)))
  /\ UNCHANGED <<keys, upload, cond, late, enginevars, disk, meters>>

\* Completed: inverse_dynamics has its result in the answer, a prediction
\* without a trajectory is an error, the others download.
PollCompleted ==
  /\ Polls("completed")
  /\ \/ Predicts /\ Raises("generation_failed")
     \/ Params.mode = "inverse_dynamics" /\ GetsBytes("whole")
     \/ Params.mode # "inverse_dynamics" /\ Goes("download")
  /\ UNCHANGED <<edgevars, late, enginevars, disk, meters>>

PollFailed ==
  /\ Polls("failed")
  /\ Raises("generation_failed")
  /\ UNCHANGED <<edgevars, late, enginevars, disk, meters>>

\* No answer, or an error page: the client gives the job up.
PollIsLost ==
  /\ At("poll") /\ ~Deadline
  /\ \E code \in {"internal_error", "generation_failed"} : Raises(code)
  /\ UNCHANGED <<edgevars, late, enginevars, disk, meters>>

\* A rollout without bytes is an error; any other empty download is not.
Unusable(bytes) == Params.mode = "policy" /\ bytes = "empty"

Downloads ==
  /\ At("download")
  /\ \/ /\ plane
        /\ \E bytes \in {"whole", "empty"} :
             IF Unusable(bytes) THEN Raises("generation_failed") ELSE GetsBytes(bytes)
     \/ Raises("internal_error")
  /\ UNCHANGED <<edgevars, late, enginevars, disk, meters>>

-----------------------------------------------------------------------------
(* The artifact: opened, which truncates it, then written.                 *)

WritesFile(file) ==
  /\ work.file = file
  /\ \/ /\ At("open")
        /\ disk' = [disk EXCEPT ![work.job][file] = "torn"]
        /\ Goes("fill")
     \/ /\ At("fill")
        /\ disk' = [disk EXCEPT ![work.job][file] = work.bytes]
        /\ IF Params.mode = "policy" /\ file = "mp4"
           THEN work' = [work EXCEPT !.step = "open", !.file = "json", !.bytes = "whole"]
           ELSE Goes("report")
  /\ UNCHANGED <<edgevars, late, enginevars, meters>>

\* The trajectory of a policy job is written after its rollout.
WritePng == WritesFile("png")
WriteVideoBytes == WritesFile("mp4")
WriteTrajectoryJson == WritesFile("json")

WriteFails ==
  /\ At("open") \/ At("fill")
  /\ Raises("internal_error")
  /\ UNCHANGED <<edgevars, late, enginevars, disk, meters>>

Reports ==
  /\ At("report")
  /\ Reported(Full)
  /\ Goes("return")
  /\ UNCHANGED <<keys, upload, cond, late, enginevars, disk, meters>>

\* A wrapper that counts what returns only.
MeteredReturnMutant ==
  /\ At("return") \/ At("raised")
  /\ ended' = IF At("return") THEN [ended EXCEPT ![work.job] = "succeeded"] ELSE ended
  /\ Goes(IF At("return") THEN "returned" ELSE "threw")
  /\ UNCHANGED <<edgevars, late, enginevars, disk, counted>>

\* A wrapper that counts the work it was given, and not how it ended.
MeteredWorkMutant ==
  /\ At("return") \/ At("raised")
  /\ ended' = [ended EXCEPT ![work.job] = "succeeded"]
  /\ Goes(IF At("return") THEN "returned" ELSE "threw")
  /\ UNCHANGED <<edgevars, late, enginevars, disk, counted>>

\* metered_work, around the work and still in its thread: the outcome is counted
\* as the work had it, whatever has become of the job.
MeteredWork ==
  /\ At("return") \/ At("raised")
  /\ ended' = [ended EXCEPT ![work.job] = IF At("return") THEN "succeeded" ELSE "failed"]
  /\ Goes(IF At("return") THEN "returned" ELSE "threw")
  /\ UNCHANGED <<edgevars, late, enginevars, disk, counted>>

-----------------------------------------------------------------------------
(* The event loop: the end of the work, and cancels.                       *)

\* evict_all for a job: a stop that fails is logged, the slot is cleared all the
\* same, and the container is left as it is.
EngineStops(j) ==
  \/ ContainerStops /\ UNCHANGED spared
  \/ spared' = spared \cup {j} /\ UNCHANGED <<plane, engine>>

Running(j) == job[j].status = "running"

WorkReturns ==
  /\ LoopIsFree /\ At("returned")
  /\ job' = IF Running(work.job)
            THEN [job EXCEPT ![work.job].status = "succeeded", ![work.job].progress = Full,
                             ![work.job].artifact = FirstFile,
                             ![work.job].trajectory = IF Params.mode = "policy" THEN "json" ELSE "none"]
            ELSE job
  /\ work' = Idle /\ late' = FALSE
  /\ UNCHANGED <<keys, upload, cond, enginevars, disk, meters>>

\* A clean-up that keeps the plane of the failed job.
WorkRaisesMutant ==
  /\ LoopIsFree /\ At("threw")
  /\ job' = IF Running(work.job)
            THEN [job EXCEPT ![work.job].status = "failed", ![work.job].error = work.error] ELSE job
  /\ work' = Idle /\ late' = FALSE
  /\ UNCHANGED <<keys, upload, cond, enginevars, disk, meters>>

WorkRaises ==
  /\ LoopIsFree /\ At("threw")
  /\ IF Running(work.job)
     THEN /\ job' = [job EXCEPT ![work.job].status = "failed", ![work.job].error = work.error]
          /\ EngineStops(work.job)
     ELSE UNCHANGED <<job, plane, engine, spared>>
  /\ work' = Idle /\ late' = FALSE
  /\ UNCHANGED <<keys, upload, cond, sent, disk, meters>>

\* A cancel that does not look at the status.
CancelMutant(j) ==
  /\ LoopIsFree
  /\ job' = [job EXCEPT ![j].status = "cancelled"]
  /\ IF Running(j) THEN EngineStops(j) ELSE UNCHANGED <<plane, engine, spared>>
  /\ UNCHANGED <<keys, upload, cond, work, late, sent, disk, meters>>

Cancel(j) ==
  /\ LoopIsFree
  /\ job[j].status \notin Ended
  /\ job' = [job EXCEPT ![j].status = "cancelled"]
  /\ IF Running(j) THEN EngineStops(j) ELSE UNCHANGED <<plane, engine, spared>>
  /\ UNCHANGED <<keys, upload, cond, work, late, sent, disk, meters>>

-----------------------------------------------------------------------------
(* What the api answers: the view of a job, its files, the gauges.         *)

ToJob(j) ==
  [status |-> job[j].status, progress |-> job[j].progress, error |-> job[j].error,
   artifact |-> job[j].artifact # "none", trajectory |-> job[j].trajectory # "none"]

Served(j, file) == IF file = "none" \/ disk[j][file] = "absent" THEN "not_found" ELSE disk[j][file]
GetArtifact(j) == Served(j, job[j].artifact)
GetTrajectory(j) == Served(j, job[j].trajectory)

\* StateCollector.collect: cosmos3_jobs, counted when it is asked for.
Collect(state) == Cardinality({j \in DOMAIN job : job[j].status = state})

-----------------------------------------------------------------------------
(* The engine and the clock.                                               *)

EngineEnds(j) ==
  /\ plane /\ engine[j] = "busy"
  /\ \E end \in {"completed", "failed"} : engine' = [engine EXCEPT ![j] = end]
  /\ UNCHANGED <<edgevars, work, late, plane, sent, spared, disk, meters>>

Expires ==
  /\ At("poll") /\ ~late
  /\ late' = TRUE
  /\ UNCHANGED <<edgevars, work, enginevars, disk, meters>>

-----------------------------------------------------------------------------
Init ==
  /\ job = <<>> /\ keys = [k \in Keys |-> 0]
  /\ upload = NoUpload /\ cond = [k \in Kinds |-> "absent"]
  /\ work = Idle /\ late = FALSE
  /\ plane = FALSE
  /\ engine = [j \in Ids |-> "none"] /\ sent = [j \in Ids |-> "nothing"]
  /\ disk = [j \in Ids |-> [f \in Files |-> "absent"]]
  /\ spared = {} /\ counted = 0 /\ ended = [j \in Ids |-> "none"]

PollsEnd == PollTimesOut \/ PollCompleted \/ PollFailed
Working == \/ Resolves \/ Reads \/ FormRaises \/ Posts \/ PostIsLost \/ CallReturns \/ CallIsLost
           \/ Downloads \/ WritePng \/ WriteVideoBytes \/ WriteTrajectoryJson \/ WriteFails
           \/ Reports \/ MeteredWork
Runner == Starts \/ StartFails \/ WorkReturns \/ WorkRaises

Next ==
  \/ \E r \in Clients : \E key \in KeysFor(r) : Submit(r, key) \/ PersistOpens(r, key)
  \/ \E j \in DOMAIN job : Cancel(j) \/ EngineEnds(j)
  \/ Working \/ PollsEnd \/ PollPending \/ PollIsLost \/ PersistWrites \/ Runner \/ Expires

Spec == Init /\ [][Next]_vars

\* The loop runs what is ready, in order, so that submissions that keep coming
\* do not hold the runner back; every call of the worker has a timeout, and
\* time passes.  Nothing is assumed of clients or of the engine.
FairSpec == /\ Spec
            /\ WF_vars(Working) /\ WF_vars(PollsEnd)
            /\ WF_vars(PersistWrites) /\ SF_vars(Runner) /\ WF_vars(Expires)

-----------------------------------------------------------------------------
(* Properties.                                                             *)

\* However submissions with inline media interleave and are repeated, two jobs
\* never carry one Idempotency-Key (JobStore.submit).
KeyNamesOneJob ==
  \A i, j \in DOMAIN job : job[i].key = job[j].key /\ job[i].key # NoKey => i = j

\* No silent wrong artifact: a job that succeeded was made from its conditioning
\* media if its mode has any (work.py), and what its view offers is handed out
\* complete; no other job offers anything.
SucceededAsAsked ==
  \A j \in DOMAIN job :
    IF job[j].status = "succeeded"
    THEN /\ Conditioning(job[j].params.mode) # "none" => sent[j] \in {"torn", "whole"}
         /\ ToJob(j).artifact /\ GetArtifact(j) \in {"whole", "empty"}
         /\ ToJob(j).trajectory <=> job[j].params.mode = "policy"
         /\ ToJob(j).trajectory => GetArtifact(j) = "whole" /\ GetTrajectory(j) = "whole"
    ELSE ~ToJob(j).artifact /\ ~ToJob(j).trajectory

\* The counters and the gauges of a scrape tell one story: every job is counted
\* when it is made, and every outcome counted is that of a job that ended so, or
\* was cancelled while it ran, or whose end is on its way (metered_work).
MetersAgree ==
  /\ counted = Collect("queued") + Collect("running") + Collect("succeeded")
               + Collect("failed") + Collect("cancelled")
  /\ \A j \in Ids : ended[j] # "none" =>
       \/ j = work.job
       \/ j \in DOMAIN job /\ job[j].status \in {ended[j], "cancelled"}

\* A job that ran and ends is in the counters by then, as it ends; a job that
\* fails in the queue, because its plane did not come up, is never in them.
RunEndsCounted ==
  [][\A j \in DOMAIN job : job'[j].status # job[j].status /\ job'[j].status \in {"succeeded", "failed"} =>
       ended[j] = IF job[j].status = "running" THEN job'[j].status ELSE "none"]_vars

\* "Kill the worker", "release it", "orphan prevention" (runner.py, client.py): no
\* failure, timeout, cancel or lost call leaves an engine job behind when the next
\* job starts; only a stop that fails does, and only the job it was for.
OrphansAreSpared == \A j \in Ids : engine[j] = "busy" => work.job = j \/ j \in spared

\* What the edge has accepted can be served: the worker refuses an action job
\* for a trusted file over the cap at most (action_schema.py against work.py),
\* and the form of a job can be built, unless a parameter is in the way that the
\* edge lets pass: a tier that is null, steps that are no number.
AcceptedIsServed ==
  /\ \A j \in DOMAIN job :
       /\ job[j].params.mode \in ActionModes
       /\ job[j].error \in {"invalid_input", "unsupported_mode", "untrusted_path", "payload_too_large"}
       => job[j].params.path[Conditioning(job[j].params.mode)] = "large"
  /\ At("submit") => \/ Buildable(Params)
                     \/ IntFails(Params.steps)
                     \/ Params.mode \in ActionModes /\ Params.tier = Null

\* What a job's metadata says it was made with is what the engine was sent, save
\* the frames of an image (work.py, _param_record), and a change of the engine
\* does not change the size (gen_worker.py, _to_generation_request).
FormsAgree ==
  \A j \in DOMAIN job : LET p == job[j].params IN Buildable(p) =>
    /\ \A f \in {"size", "frames", "steps"} :
         Form(p)[f] = ParamRecord(p)[f] \/ (p.mode = "t2i" /\ f = "frames")
    /\ p.mode \in GenerationModes => ToGenerationRequest(p).size = Form(p).size

\* Whatever the engine says, and also when the job is cancelled after.
FullBarMeansWritten ==
  \A j \in DOMAIN job : job[j].progress = Full =>
    /\ \E f \in Files : disk[j][f] \in {"whole", "empty"}
    /\ job[j].params.mode = "policy" => disk[j]["mp4"] = "whole" /\ disk[j]["json"] = "whole"

\* The bar never goes back, not when the engine reports now and then, and not
\* when a report comes after a cancel (run_video_job, _progress_cb); and it is full
\* only once the files are written: "a premature 100% would misreport the job"
\* (client.py).
BarIsHonest ==
  [][(\A j \in DOMAIN job : job'[j].progress >= job[j].progress) /\ FullBarMeansWritten']_vars

\* Every job ends, also when the engine is silent for ever (overall_timeout).
EveryJobEnds == \A j \in Ids : j \in DOMAIN job ~> j \in DOMAIN job /\ job[j].status \in Ended

\* Identical media is stored under one path, stable under repetition
\* (_persist_inline_media): what a job sends is never a file that another
\* submission is rewriting.
EngineGetsWholeMedia == \A j \in Ids : sent[j] # "torn"

=============================================================================
