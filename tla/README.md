# Cosmos3-Nano-WebUI: specification and proofs

A TLA+ development of the api, the web UI and the checkpoint tool of
Cosmos3-Nano-WebUI: one GPU, a FastAPI process that decides which model
container may hold it, a queue of asynchronous generation jobs and the two
engines that can serve them, streaming reasoning requests, a browser tab that
follows its job over server-sent events, the command that prepares a checkpoint
and the engines that load one. TLC checks the modules on small instances; TLAPS
proves the theorems for every value of the constants.

Line numbers refer to files under `src/`; `PROJECT.json` maps every definition
to the lines it stands for.

## 1. Inventory

### 1.1 The running system

| component | state it keeps | operations | correct when |
|---|---|---|---|
| **Residency decision** `api/orchestrator/residency.py`, `planes.py` | none | `plan_acquire(current, requested)` | the plan never loads beside another identity |
| **Orchestrator** `api/orchestrator/manager.py` | `_slot`, `_worker`, `_lock`, `_idle_handle`, `_idle_task` | `acquire`, `evict_all`, `notify_idle`, `_on_idle_timeout`, `_try_idle_evict` | at most one plane resident (FR-8); a plane in use is not evicted behind its user; an idle plane is reclaimed |
| **Plane workers** `container.py` (deployed), `worker.py` (subprocess worker of the diffusers engine, VRAM probe) | the container or process, its ready-file | `start`, `wait_ready`, `evict`, `is_alive`, `wait_vram_below` | a stopped plane gives the VRAM back before the next load; a worker that says it is ready is the one that was started |
| **Diffusers worker** `gen_worker.py`, `jobs/gen_client.py`, `jobs/artifacts.py`, `engines/diffusers_*/adapter.py` | a process, a socket, one connection | load, warm, listen, dispatch, encode, reply; `build_request`, `read_reply` | what a reply names is on the disk; a dead or hung process costs one job |
| **Job runner** `api/jobs/runner.py` | `_queue`, `_cancelled`, `_current` | `enqueue`, `_loop`, `_process`, `_progress_cb`, `cancel`, `stop` | one job at a time, in order; each ends once and always ends (INV-5); an accepted cancel wins and frees the slot (EC-S4) |
| **Job records, store, events** `api/jobs/model.py`, `store.py`, `events.py` | records, bounded event logs, sequence numbers, idempotency keys | `submit`, `update`, `append_event`, `log`, `events_since`, the status transitions | the log tells the record's story; a key names one job |
| **Jobs API** `api/app/jobs_router.py` | none | `POST /v1/jobs`, `GET`, `DELETE`, `GET .../events`, artifacts | the replay after `Last-Event-ID` neither loses nor repeats |
| **Reasoning route** `api/app/routes/reasoning.py` | one generator, pump thread and queue per request | `reason`, `_relay`, `VllmReasonerStream.stream` | the stream keeps the reasoner to its end; no delta is lost; nothing leaks on disconnect |
| **Generation and action routes, validation, checkpoint label** `api/app/routes/*`, `api/preprocessing/*` | none | map a body onto a job; typed 422s | nothing reaches the GPU unvalidated |
| **Engine client** `api/engines/vllm_omni/*` | one remote job | submit, poll, download; delete on timeout | monotone progress, bounded wait, no partial artifact |
| **Reasoner engine** `api/engines/vllm/*` | none | context cap, preflight, verified load | the budget never exceeds the context; no quantized source is served |
| **Diffusers engines** `api/engines/diffusers_oracle/*`, `diffusers_action/*` | the loaded pipeline | discover, graft, load strictly, verify the precision | nothing but the whole checkpoint is served, at the precision it declares |
| **Artifacts** `api/jobs/artifacts.py` | files | write, mux, resolve | paths stay inside the root; no partial file is named |
| **Application wiring** `api/app/main.py` | `gpu_lease`, readiness | `create_app`, lifespan | one lease shared by runner and reasoner |
| **Observability** `api/app/observability/*` | counters and gauges | wrap the store and the work | each job is counted once, and as it ended |
| **Web UI tracking** `webui/lib/sse/createEventStream.ts`, `lib/studio/jobState.ts`, `StudioProvider.tsx`, `useActionJob.ts` | active job, `JobView`, `Last-Event-ID`, retries | submit, open, cancel, stream, poll | the view never claims what did not happen, and shows how the job ended |
| **Web UI chat** `webui/components/chat/ChatStream.tsx` | turns, partial answer, banner | send, stream, leave | a turn without a banner is one whole answer |
| **Rest of the web UI** parser, history, drafts, viewers, BFF proxy | tab-local | | |
| **Checkpoint preparation** `tools/checkpoint_prep/*` | checkpoint files and their backups | plan, rewrite, verify, commit, restore, copy | a crash at any point can be undone |
| **Deployment** `deploy/*` | containers | compose restart policies, patches | |

### 1.2 How they interact

    browser tab --POST/DELETE/GET--> jobs router --enqueue/cancel--> job runner
        ^                               |                              |  lease, acquire,
        | SSE (replayed event log)      v                              |  evict_all, notify_idle
        +--------------------------- job store <--progress-- work      v
                                                  thread          orchestrator --docker--> planes
    chat tab  --POST /v1/reason--> reasoning generator --lease, acquire--^

Everything in the api runs on one asyncio event loop; only blocking calls
(`docker stop/start`, readiness and VRAM polling, a job's work, the reasoner's
upstream read) run in threads. Two `asyncio.Lock`s order the GPU's users:
`gpu_lease`, held by a session (the runner for a job, a reasoning stream for
its whole length) and, inside it, `Orchestrator._lock`. A cancel and the idle
timer take the second lock **without** the first; most of what is hard to get
right here follows from that.

### 1.3 What is hard

* `acquire` suspends four times while slot and worker are half changed.
* A cancel's `evict_all` may reach the lock after its victim has gone, when
  another session is acquiring or using the GPU.
* The idle task checks the lock, then queues for it.
* `CancelledError` is not an `Exception`: a client that goes away inside
  `acquire` skips every clean-up, while the thread it awaited goes on.
* Stops can fail, and nobody is told, or return before the driver gives the VRAM
  back; a plane may not come up.
* The model's answer can end early in ways that look like its end.
* A job's progress is recorded and logged in two critical sections.
* A terminal record and a blocked or late event; reconnects on a bounded log;
  replies and events that arrive when the tab has moved on.
* A worker process that dies or hangs while it loads, listens, serves or
  writes; the ready-file and the socket a killed one leaves behind; a resident
  worker nobody has noticed is dead.
* One request is validated at the edge, kept as parameters, and mapped again by
  each engine, with the defaults each has: what one accepts the next may refuse
  or read differently.
* The outcome of a job is counted in its thread, the status is decided on the
  loop, and a cancel falls between the two.
* The checkpoint tools can die between any two file operations, and three
  engines decide from what they left whether to serve it.

`PROJECT.json` lists the hazards line by line, with the properties that catch
them, or why none does.

## 2. Plan

1. `Residency`, `Orchestrator`, `GpuSlot` (abstract) and `OrchestratorProofs`:
   the GPU, its two locks, the timer, the failures. **Done.**
2. `JobRunner` (composes `Orchestrator`), `JobLifecycle` (abstract) and
   `JobRunnerProofs`. **Done.**
3. `JobTracking`: event log, SSE endpoint, reconnecting client, the tab's view;
   `JobTrackingProofs`. **Done.**
4. `CheckpointMutation`, `CheckpointCopy`, `CheckpointTool`: the checkpoint
   commands, dying between any two file operations; `CheckpointLoad`: the
   engines that load what they leave. **Done.**
5. `RequestEdge`, `RequestForms`, `GenerationJob`, `GenWorker` and
   `GenerationEngines`: a generation job from the request through either engine
   to the artifact; `RequestEdgeProofs`, `GenerationJobProofs`,
   `GenWorkerProofs`. **Done.**
6. `ReasoningChat`: budget, pump thread, queue, heartbeat, disconnect, and the
   chat tab that reads the answer; `ReasoningChatProofs`. **Done.**
7. The SSE parser over chunks; the BFF proxy's retry; the submission forms and
   the history of the web UI; the shutdown of the api; the provenance file.
8. Proofs: every safety property that a passing run checks, of every module,
   and both refinements; liveness stays with TLC. **Done.**

## 3. The modules

### Residency
`plan_acquire` and the identities. The single reasoning identity is served by
the reasoner container, every generation identity by the generation container
(`default_worker_factory`). The deployed api resolves every request to one
checkpoint label (`resolve_checkpoint`), so the runs use one generation
identity; the module and the theorems allow any number.

### Orchestrator
| code | model |
|---|---|
| `gpu_lease`, `_lock` | `lease`/`leaseQ`, `lock`/`lockQ`: holder and FIFO of waiters. `release()` frees the lock and wakes the head, which runs later; a newcomer queues behind it |
| `_slot` and `_worker` | `slot`; the code sets and clears them together |
| `_idle_handle`, `_idle_task` | `idleTimer`; `call[IdleTask]` |
| where a task is inside `acquire` / `evict_all` | `call[t]`, one value per suspension point |
| what a session is doing | `phase[s]`: away, queued for the lease, in acquire, using the plane, in the runner's clean-up |
| a container | `plane[p]`: down, up, or draining (stopped, VRAM not yet returned) |
| a thread whose awaiting task was cancelled | a member of `strays` |

A step is the code between two suspension points, or a thread call returning.
`AcquireHit/Swap/Cold` are the three outcomes of the plan at the moment the
lock is granted (they also cancel the timer and a pending idle task).
`AcquireSwap, SwapStops, SwapEvicted, GatePasses, StartReturns, ProbeReady` is
the successful swap; `ProbeGivesUp, UndoStops, AcquireRaises` the failing one.
`Leave` is the way out: `notify_idle`, then the lease. `EvictAll*` is
`evict_all` in its three callers. `Faults` says which failures may happen:
`crash` (a container exits), `unclean_stop` (`docker stop` fails or returns
early; `evict` swallows it), `disconnect` (a client's task is cancelled inside
`acquire`), `restart` (the api process dies, the containers do not), `blind`
(`nvidia-smi` is missing or fails, reads as 0 MiB, and the gate passes:
`ReadsZero`).

Approximations, all in the direction of more behaviours unless stated: an
uncontended `acquire()` of a lock, immediate in asyncio, is an enqueue and then
a grant; the ready timeout may strike at any time; a job found cancelled when
its acquire returns passes through one `use` step before it leaves; two
identical stray threads count once (fewer behaviours). The VRAM gate needs
every plane down, which is the threshold's intent.

### GpuSlot
What a user of the GPU is promised: one slot, one user, who finds the identity
it asked for; the slot passes through empty from one identity to another; only
the runner can be evicted while it works. `Orchestrator` implements it.

### JobRunner
Extends `Orchestrator`: each of its actions is an action of `Orchestrator`
with what it does to the jobs. `status`, `log`, `queue`, `cancelled`, `current`
are the code's; `work` is the work thread between its reports; `victim[c]` the
job whose cancel request `c` is in `evict_all`. `ReportUpdates` and
`ReportAppends` are the two critical sections of a progress report. `Finish` is
the `finally` block of `_process`. `Restarts` is `ApiRestarts` with the store
and the queue, which die with the process. `stop()` is left out.

### JobLifecycle
One job at a time, in the order of submission, each ended once, as seen
through `DELETE` and `GET`. `ahead` is the order of submission among the jobs that
wait. `JobRunner` implements it: `WaitsBefore` reads that order off the queue and
the job that waits for its plane, leaving out the jobs cancelled in the queue.

### JobTracking
The record and its bounded event log; the generator of `stream_events`, one
turn of which is atomic because its sends do not block (without back-pressure);
`createEventStream` with retries, backoff and one poll at the end; the reducer;
and the tab, which switches jobs, cancels, and folds answers into its view.
`wire` holds what was sent and not read, and is lost when the connection
breaks. `Opens` sets the active job and its view; the old stream is aborted and
the new one started by an effect that React runs after a later render
(`Effects`), so for a while the tab still reads events of the job before
(`following`). After a click React runs both at once; after the `await` of a
submission it does not, and the model lets any time pass. Requests on their way
are not aborted.
`events_since` filters the log by number; as the numbers of a log rise, what it
returns is the log's end, which is how `EventsSince` says it.

### CheckpointMutation, CheckpointCopy, CheckpointTool
The command line edits a checkpoint of some gigabytes in place. A command is a
list of file operations, and the process may end between any two of them; the
operator then runs any command, one at a time.

`mutate` (`MutationOps`) writes the rewritten weights beside the old ones,
verifies them, moves the four originals into the backup (`BackupMove`), renames
the new weights over the old name (`PlaceWeights`) and rewrites the sidecars
(`OpenForWriting` truncates, `WriteText` fills). Between the last backup move
and the rename no weights file exists. A write of the weights may be damaged
without notice, which is what `VerifyOutput` is for. With `--no-backup` there
is nothing to go back to, and `OriginalsSurvive` says so. `restore` moves the
backups back in the order of their sorted names, the weights last
(`RestoreOps`): that is why a mutation run after an interrupted restore
refuses, as the weights still look mutated. Tensors are stand-ins by data type
and origin, as are the tensors of the source checkpoint a mutation takes its
adapters from (`ResolveSourceTensors`: there, missing, or of the wrong shape)
and the hashes it records of them (`SourceHashes`); `ProbeOk` is the integrity
probe over them.

`self-contained` copies what the checkpoint takes from its base by symlink: it
plans the fixed inventory and sweeps what else points into the base; each entry
is unlinked, then copied, then verified. A pass may take its entries in any
order (`Unlink`): no property depends on the order the code fixes. `CheckpointTool` puts the two on one
command line, each with its own files.

### CheckpointLoad
The three engines that load a checkpoint directory: the diffusers oracle, the
action engine grafted on it, the reasoner with its preflight. Each is the
sequence of its checks in the code's order (`BuildOracle`, `BuildActionEngine`,
`BuildReasoner`), and an engine that passes them all serves. `LoadStateDict` is
the strict load against the skeleton; `VerifyPrecision` compares what
`quantization_config.json` declares (`Labels`: the recipe and the layout of the
scales, which no tool touches) with what the loaded weights show.
`ExpectedQuantized` is the code's 505; two of the stand-in tensors are
quantized. A load only reads, and is one step between two commands of
`CheckpointTool`: tools are run while no engine is loaded. `CheckpointTool`
composes the commands and the loads.

The preflight of the reasoner is called by `build_reasoner`, not on the
`vllm serve` path of the container (`planes.py` 60). The recipe the probe
expects of the FP8 checkpoint, `fp8_blockwise_mixed` (`integrity_probe.py` 103),
is unknown to `precision_from_quant_config` (`config.py` 43-47): the oracle
refuses a checkpoint with that label, which the run includes. Its 505 quantized
modules are another model's, too: `mutation.py` 138 counts 217, and 216 after the
mutation.

### RequestEdge
What the api checks of a request before it becomes a job, and what the worker
checks again. A validator is the sequence of its checks in the order the code
makes them; the first that fails is the answer (`FirstError`). `Verdict` is
`submit_and_enqueue` up to the store, `Refusal` what `vllm_omni_work` refuses
without asking the engine. `Mapped` is what the typed routes make of a body
before it takes the same way; `CheckpointError` is `resolve_checkpoint`, which
accepts no label but the one the deployment serves. A piece of media is its size
and what its header says; a conditioning path is trusted, trusted but over the
cap, or outside the roots. A field may be absent, `null` or no integer, which
the code treats differently from place to place (`Missing`, `Null`, `NotInt`).

### RequestForms
What the job's parameters become in either engine: the form or body of the
vLLM-Omni client (`Form`), the record of it in the job's metadata
(`ParamRecord`), and the request and action request of the diffusers worker
(`ToGenerationRequest`, `ToActionRequest`). Sizes, frames, steps, sound,
conditioning and the width of actions are kept, with each mapping's own
defaults; prompts and the other sampler settings are not. The client converts five
of those again unvalidated on `/v1/jobs` (seed, guidance scale, flow shift, fps,
sequence length, `client.py` 91-95), just as it does the steps, which stand for
them. `Buildable` and
`Convertible` say when none of the `int()` calls raises.

### GenerationJob
| code | model |
|---|---|
| `JobStore._jobs`, `_idem` | `job`, `keys` |
| the event loop inside `_persist_inline_media`'s write | `upload`: nothing else on the loop runs until the file is closed, the worker thread does |
| the content-addressed file of inline media | `cond`, by kind of media |
| where the worker thread is in `vllm_omni_work` and the client | `work.step`, with the progress floor, the file and bytes in hand, and the error it raised |
| the engine's container, its jobs and what they were conditioned on | `plane`, `engine`, `sent` |
| a `docker stop` that failed, and whose job it was for | `spared` (history) |
| the deadline | `late` |
| `<job>.png`, `.mp4`, `.json` | `disk`: absent, torn (opened), empty, whole |
| `cosmos3_job_submitted`, `cosmos3_job_terminal` | `counted`, `ended`; `metered_work` counts in the thread, before the loop decides the status |

Each call of the client to the engine is an action that succeeds and one that
goes wrong: lost before or after it reached the engine, an error page, a
timeout. The runner's own steps are those of `JobLifecycle`. The acquire before
them is one step here, which succeeds (`Starts`) or fails the job (`StartFails`);
its course is in `JobRunner`, where a cancel also waits for its eviction, which is
atomic here. An eviction stops the container and with it the engine's jobs, or the
stop fails: then the engine goes on, the slot is empty all the same, and the next
`docker start` changes nothing (`EngineStops`). A job that fails in `StartFails`
never meets `metered_work`. `ToJob`, `GetArtifact` and
`GetTrajectory` are what the api answers of a job.

### GenWorker
The diffusers engine (`COSMOS3_GEN_ENGINE=diffusers`): three things that run at
the same time.

| code | model |
|---|---|
| `SubprocessPlaneWorker` as the manager uses it | `manager`: none, starting, up, in `evict` before and after the escalation to `SIGKILL` |
| the worker process: load, warm, listen, serve, run, encode | `leader`, dead or one value per stage; `run` is the request served |
| `gen_client.work` in the runner's thread, and the runner around it | `client`, `task` |
| the socket's path and the ready-file, which outlive the process | `path` (absent, stale, live), `ready` |
| the connection | `link`: whose it is, open at the client, the request unread, frames under way, closed by the worker |
| the artifacts of a job | `file`: absent, torn, whole, muxed |

The process may die at every step (`Crashes`), answer nothing (nothing is
assumed of it), raise (`RunFails`), or be killed under its client by a cancel.
`faults` is a history variable that counts what went wrong. A worker that dies
while resident stays recorded (`is_alive` is never asked), so the next job meets
it. The runner's clean-up after a failure is `evict_all`, which is why a job
never finds the worker busy with one that was given up
(`ConnectsToIdleWorker`). The worker serves the request it has read (`Request`),
and writes that job's files, also when the client has been given up and the next
job is there already. An eviction signals the process group and waits for its
leader; members that survive the leader are not modelled. The bar of a job is
left out: `gen_client.work` reports 1.0 before it looks at `ok` (139-141), and a
failed job shows it for a moment.

### GenerationEngines
The two engines side by side as `main.py` chooses: one setting selects the plane
worker and the runner's work together, so one of them runs and the other is
never started. An `i2v` job without an image is made into a text-to-video by the
diffusers engine, while the vLLM-Omni worker refuses it (`work.py` 189): `/v1/jobs`
accepts it either way.

### ReasoningChat
| code | model |
|---|---|
| `count_tokens`, `load_edge_tokenizer` | `CountTokens`: the tokens of the prompt when a tokenizer is there, else a third of its characters, rounded up |
| the budget of `reason`, `validate_context` | `OmittedBudget`, `ContextError` |
| the generator of a request | `gen[c]`: waiting for lease and plane, serving, ended |
| `_relay`: `get_task`, `queue`, `stop` | `get[c]` (with its result), `queue[c]`, `stop[c]` |
| the pump thread and the model's answer | `pump[c]`, `read[c]`, `fate[c]`: open, returned whole, returned cut short, or failed |
| `createEventStream` as the chat uses it | `stream`, `attempt`, `conn`, `wire` |
| the assistant's turn and its banner | `text` (each delta with its connection), `gotToken`, `error` |

Each connection `c` has its own generator, queue and thread; those of a
connection the tab has given up go on until the server notices (`ClientGone`)
and the thread meets its flag. A generator that is cancelled in a `yield`
releases the lease before `_relay`'s own `finally` runs (`RelayFinalizes` is a
step of its own). A put through `call_soon_threadsafe` is in the queue at once:
the loop keeps their order. Deltas buffered for the next frame count as shown,
as the end of a turn flushes them. The thread cannot tell an answer that is whole
from one that the server cut short without an exception, by ending the response
without `[DONE]` or by an error frame without choices (`Returned`). A 422 is retried like a lost connection, as
the client does.

The generator sends no heartbeat while it waits for the lease and the plane,
and the tab reconnects after 30 s of silence with its retry count reset. A
plane that takes longer is asked for again and again; the model bounds the
number of such breaks and says nothing about an endless series.

## 4. The runs

| run | question | result |
|---|---|---|
| `jobs` | two jobs, two cancels, a stream and the idle timer, planes crashing: one plane at most, a warm plane always has its eviction pending, every request is answered, an idle plane is reclaimed; order, single end, honest log, every job ends, accepted cancels win | holds, 78 k states |
| `jobs_faults` | what remains when everything fails (stops, crashes, disconnects, restarts): one slot with one user (`GpuSlot`), nobody evicts the plane under a stream or a job that was not cancelled, an answered cancel has emptied the slot | holds, 1.2 M states up to symmetry |
| `chat` | a message through broken connections, heartbeats, a failing model and threads that outlive their request: no delta lost or repeated, a turn without a banner is all that came over one connection, nothing leaks, every message is settled | holds, 136 k states |
| `track` | one job opened twice: replay, late progress, the end is shown unless the retries run out | holds, 84 k states |
| `checkpoint` | commands in any order, dying anywhere, and engines loading what they leave: the original is never lost while backups are kept, a restore undoes, a verified mutation passes the probe, a copy run again completes its inventory; the diffusers engines serve the whole original only, at the precision it declares, the reasoner only the BF16 base | holds, 5.1 M states |
| `generation` | requests of every mode through the edge and either engine. vLLM-Omni: retried submissions, cancels, lost calls, a silent engine, planes that do not come up or do not stop, failing writes. Diffusers: a process that crashes, hangs and is killed anywhere. One job per key; succeeded only with what was asked for, written to the end (an engine may deliver an empty artifact, and be sent torn media: `v_torn_media`); what a reply names is there; every outcome counted is a job's, and every run is counted as it ends; an engine job is left behind only by a stop that fails; accepted jobs are served, and what is recorded was sent; a job finds a live and idle worker; a fault costs one job; the bar never falls, and is full only once the files are written; every job ends | holds, 417 k states |
| `v_unclean_stop` | is the next plane always loaded into free VRAM? | no: the gate sits in the swap only |
| `v_disconnect` | at most one plane when a client disconnects inside `acquire`? | no: the container stays, unrecorded |
| `v_poll_once` | does the fallback surface the end of a job? | no: it looks once |
| `v_stale_reply` | is the view true of the active job? | no: an answer for one job is folded into another's view, or an event of its stream is until the effect has run |
| `v_sweep` | is a copy complete when it says so? | no: an entry of the sweep that was unlinked when the command died is not planned again |
| `v_torn_media` | is inline media stable under repetition? | no: a resubmission truncates the file a running job is about to read |

What these runs show is described, with the sentence each contradicts, under
`findings`. The others there were met in passing runs, whose properties except
exactly what they describe:

* `QuietTurnIsOneAnswer`: an answer that the model's server cuts short without an
  exception ends like a whole one, without a banner.
* `OrphansAreSpared`: a `docker stop` that fails is swallowed and the slot cleared;
  the engine works on, and the next job starts beside it.
* `RunEndsCounted`: a job whose plane does not come up fails in the records and in
  no counter.
* `AcceptedIsServed`: a `resolution_tier` of `null`, and steps that are no
  integer, pass the validators before the queue and fail in the worker.
* `FormsAgree`: a text-to-image job records the `num_frames` it was given, which
  the image request does not send.
* `EnginesServeTheOriginal`: the action engine's default, to read its adapters
  from the checkpoint itself, collides with the tensors just loaded from it.

### Bounds
* Sessions: the runner and two streams, one in `jobs`, where liveness is
  checked; two cancels. Two of a kind are what contention between equals takes;
  a third only repeats the second's place in the queue. In `jobs_faults`, a
  safety run, streams and cancels are interchangeable (symmetry), and progress
  reports, which touch no plane, are left out (`MaxProgress = 0`).
* Two jobs: one running and one behind it, so that a late cancel, a clean-up or
  an idle task of the first can hit the second. Idle timer on (`KeepWarm`).
* `MaxProgress = 1` in `jobs`: one report is enough to fall between a terminal
  transition and its event; 2 in `track`, to overflow a log of `LogBound = 3`
  (queued, running, two progress events and the end).
* `MaxRetries = 1`, `MaxFailures = 3`: a reconnect that succeeds and a later
  run of failures that exhausts the retries; `MaxFailures = 2` when the
  question is what happens after that. `v_stale_reply` needs
  two jobs and no failure.
* `MaxOpens = 2`: a job is opened and opened again while its stream is in any
  state, or another one is. A tab that turns round for ever would see no end.
* `MaxInFlight = 1`: the generator may wake with an unread event on the wire,
  so that broken connections lose some. The bound limits how far a client lags,
  not what a replay holds.
* `chat`: two connections, the second by a retry or by a second message, so that
  the thread and the generator of the first run beside it; two deltas, to be
  lost or swapped; `MaxRetries = 1`; a prompt of seven characters and two tokens
  that fits the window of four tokens and one of twelve and five that does not. A connection is cut only while another is left
  (`MaxConns`); failing to connect needs no bound but the retries. The run may
  end with the last message (no deadlock check).
* `checkpoint`: one file and one directory inside the fixed inventory, one of
  each beside it: what the two passes of the copy treat differently. The labels
  (`MCLabels`) are one the oracle knows, the one the FP8 checkpoint carries and
  one that is wrong.
* `generation`, vLLM-Omni: the first job takes any of 45 requests, 11 the edge
  accepts (every mode and way to condition it) and 34 it refuses, each for one
  reason; the second is a text-to-image whose request carries an inline image: it
  meets what the first has left, may rewrite the media the first reads, and is
  answered in one call (polling and downloads are the first's). One key: a second would only name another job. Progress is 0,
  the cap (`Cap`) or full. Diffusers: seven kinds of first job, one for each thing
  the worker tells apart, then a text-to-video; `Steps = 1`, so that a run can be
  cut before and after a frame; `WantLatents`, for the longest list of files.
* The idle timer, the ready timeout and heartbeats have no clock: they may
  strike at any time.

### Fairness
Weak fairness of every session's, canceller's and idle task's own steps: the
event loop runs ready tasks in order, most blocking calls have a timeout
(the probe and the deadline of `wait_ready`, the VRAM gate, the engine's requests
and the overall deadline of a job), and a timer fires. The `docker` commands have
none: `subprocess.run` (`container.py` 50-57) waits for ever, also inside
`wait_ready`, whose deadline is only looked at between two calls. That they return
is an assumption, on which `EveryRequestIsAnswered`, `IdlePlaneIsReclaimed`,
`EveryJobEnds` and `AcceptedCancelWins` of `jobs` rest. `WF` of a session's step covers
the end of its use: a job's work is bounded by `overall_timeout`, a stream by
`max_tokens` and the upstream timeout. Nothing is assumed of requests, cancels,
crashes or disconnects. In `track`: the generator wakes on its heartbeat, the
client connects and reads, React runs the effect, requests are answered; jobs, users and the network
are free. In `chat`: the tab's own steps, the thread's (`urlopen` has a timeout),
the generator's, and that a disconnect is noticed; that lease and plane are
granted or refused is `EveryRequestIsAnswered` of `jobs`. In `generation`: every call of the worker returns or times out, a poll
that finds an end or a deadline acts on it, time passes, an upload is written;
strong fairness of the runner, because the event loop is a FIFO and submissions
that keep coming do not hold a ready callback back. The engine may be silent
for ever. For the diffusers engine `EnginesFairSpec` assumes only that the
manager's and the client's calls end (`Drives`, `Evicts`: readiness, reads and
both waits of `evict` have timeouts) and nothing of the worker process.

## 5. Proofs

A theorem holds for every value of the constants: any number of sessions,
cancels, jobs and labels, any requests, any set of `Faults` unless it says
otherwise. Each invariant below was checked by TLC on a run's instance before it
was proved.

`OrchestratorProofs`
* `TypeCorrect`: `Spec => []TypeOK`, under every failure; no run repeats it.
* `StreamKeeps`: `Spec => []StreamKeepsItsSlot`, under every failure. The
  property says nothing of how an eviction may come to be under way, which is what
  `CoreInv` adds:
  - `LeaseInv`, `LockInv`: the lease is held by the session past its wait for
    it, the lock by the one task inside `acquire` or `evict_all`;
  - `SessionInv`: what a session may be calling in each of its phases;
  - `QueueInv`: who waits for the lock is in its queue, once;
  - `OrderInv`: no cancel is queued behind a session that acquires, since only a
    running job is cancelled with an eviction;
  - `TimerInv`, `ServedInv`: an armed timer excludes an idle task under way, and
    once a session has passed the lock neither is there, nor a cancel, until the
    session is a running job;
  - `SlotInv`: the slot is empty from an eviction until the new plane is ready.

  The lemmas are about the queue of the lock: what joining it, being granted and
  dropping a waiter do to who is in it and before whom.
* `RefinesGpuSlot`: `Spec => ImplementsGpuSlot`, under every failure: each
  step is a step of `GpuSlot` or leaves slot and user alone.
* `WarmIsTimed`: `Spec => []WarmPlaneIsTimed` unless clients go away inside
  `acquire`. One that does leaves without `notify_idle`.
* `AtMostOne`, `LoadsWhenFree`: `Spec => []AtMostOnePlane` and
  `Spec => LoadsIntoFreeVram` when `Faults` contains at most `crash`. With failing
  stops or disconnects the code keeps neither (`v_unclean_stop`,
  `v_disconnect`). `PlaneInv` adds to `CoreInv` that a plane that holds VRAM is the
  slot's, or the one the lock holder is bringing up, and that no stray start exists.

`JobRunnerProofs`
* `JobsImplementOrchestrator`: `JobsSpec => Spec`, step by step: the runner
  and the cancel requests drive the orchestrator only as `Orchestrator` lets a
  session and a canceller do. `JobsAtMostOne`, `JobsStreamKeeps`,
  `JobsRefineGpuSlot` and `JobsWarmIsTimed` draw the conclusions.
* `RunningJobKeepsPlane`, `CancelFrees`, `EventsTell`: the three job invariants,
  under every failure. `JobInv` relates the runner's phase to the status of the
  job it has taken (`TurnInv`), a pending cancel to its victim (`VictimInv`,
  `MarkedInv`), the queue to the jobs that wait (`BacklogInv`), and a running job
  to the work or to the cancel that will end it (`RunningInv`).
* `RefinesJobLifecycle`: `JobsSpec => ImplementsJobLifecycle` without restarts (a
  restart forgets the records). `BacklogInv` is what makes the job the runner
  takes the one in turn.

`GenerationJobProofs`
* `JobTypeCorrect`, `KeyIsOneJob`, `Succeeded`, `NothingOrphaned`,
  `AcceptedServed`, `FormsAlwaysAgree`, `MetersAlwaysAgree` and the action
  properties `BarStaysHonest` and `RunsAreCounted`, with planes
  that may not come up and stops that may fail: everything safe that the run checks of
  `GenerationJob`. One invariant, `GenInv`, carries them:
  - `KeyInv`: a used key leads to the job that carries it, and a submission that
    found its key used, and so keeps no parameters, finds it used again after its
    upload;
  - `OrphanInv`: the engine is not at work on a job whose result is in hand, nor on
    one that has ended, unless its stop has failed;
  - `MediaInv`, `HandInv`: media a job names is there; what the worker read, was
    sent, holds and has written at each of its steps. `SucceededAsAsked` looks at
    the last of these only;
  - `BarInv`: the bar is at most the floor the client reports from, which stays
    below full until the files are written;
  - `RefusalInv`: the only refusal on its way to an action job is the trusted
    file over the cap (by `AcceptedActionsAreServable`);
  - `MeterInv`: the outcome counted for a job against its record, and that the
    thread has counted what it is about to return or raise; the gauges add up by the
    cardinalities of the sets of jobs in each state.

`GenWorkerProofs`
* `EnginesRunTheJob`: `EnginesSpec => Spec`: next to the other engine a job takes
  the steps of `GenerationJob` only, so the results above hold of the two.
* `ConnectsIdle`, `FaultCostsOneJob`, `NamedFilesStay`: the three invariants of the
  worker, from `WorkerInv`:
  - `RunnerInv`, `ProcessInv`: the last job, the manager and the connection; the
    process, its ready-file and its socket. A ready worker on a live path has
    been started for the job that connects, or is warm and idle;
  - `FileInv`: nothing is on the disk for a job that was not served; a reply's
    files are written in order and named once whole; nobody writes what a result
    names;
  - `CostInv`: failed jobs, and the failure a counted fault has still to cause
    (`Owed`), are at most the faults; a connection closed by a live worker ends
    with its answer.

  That the worker, which validates again, fails no job the edge has accepted
  (`SaneIsServed`) rests on the lemmas of `RequestEdgeProofs`.

`CheckpointProofs`
* `OriginalsAlwaysSurvive`, `RestoresUndo`, `MutationsPassTheProbe`: the three
  invariants of the commands that mutate and restore, under `ToolSpec`, with any
  commands and deaths before. `MutationInv` says for each operation a command has
  left what is on the disk (`Preparing`, `Placing`, `Moving`, `Filling`,
  `Restoring`), and between commands (`Settled`) that the checkpoint is `Clean` or
  `Halfway`: its weights are the rewritten ones or absent, so that no mutation
  starts from it, and it can be restored unless it was mutated without backups.
  That the weights are restored last is what makes a restore that died leave the
  checkpoint `Halfway`. The lemmas `Stages`, `MutationIsWrite` and `RestoreLevels`
  are about the lists of operations: what the first is, and what is left after it.
* `InventoryCompletes`: `InventoryIsComplete`, for any entries. `CopyInv` adds that
  what the inventory is short of, its pass is still to make, and that the sweep
  does not touch the inventory again.
* `OnlyTheOriginalIsServed`, `OnlyBf16Reasons`: the loads, for any labels. They need
  of `MutationInv` that weights are the original ones only when all four files are,
  and of the rewrite which tensors it drops, adds and leaves quantized.

  Weights, sidecars and a file that is absent or torn are assumed to differ
  (`MutationAssumption`).

`RequestEdgeProofs`
* `AcceptedActionsAreServable`: for any action request and any caps, what the
  edge accepts the worker does not refuse, but for a trusted file over the cap.
  The edge and the worker reach the conditioning by different code: the proof
  goes from the checks that passed (`OkPassesAll`: a validator that answers
  "ok" has run them all) over the paths `JobParams` keeps to the worker's.
  `AcceptedIsServed` is what the run checks of it in every mode.
* `PrecheckIsSound`: base64 text longer than twice the cap never encodes media
  within the cap, so the check before decoding refuses nothing it should not.
  It needs caps of at least four bytes (`LimitsAssumption`).

`ReasoningChatProofs`
* `OmittedBudgetFits`: for every window and every ceiling a request that names
  no budget is refused only when its prompt is empty or fills the window, asks
  the model for no more than the window holds, and gets all that is left when
  the ceiling does not bite (FR-10, INV-12).
* `CountThatHolds`: whatever the edge counts a prompt as, if that does not fall
  short of its tokens, prompt and budget fit the window of the model. With the
  tokenizer it never does. The heuristic, which `reasoning.py` 39 calls a
  conservative over-estimate, falls short for a script with a token per character.
* `ChatTypeCorrect`: `Spec => []TypeOK`. `TypeOK` bounds retries and connections
  and is not inductive: `Retriable` adds that a retry and a connection are left
  whenever the tab is about to connect, and that a connection that is read has
  reset the count.
* `ChatDropsNoDelta`, `ChatQuietTurnIsOneAnswer`: `Spec => []NoDeltaIsDropped` and
  `Spec => []QuietTurnIsOneAnswer`, for any number of connections, deltas and
  retries. That the answer is one the model has finished is not to be had. Neither property says who may still write: a thread whose generator has gone
  reads on, and a turn that has ended must not change under the tab. `Conduit`
  adds:
  - `FreshAt`: a connection not opened yet has nothing; one whose generator has
    stopped the thread takes nothing more out of its queue;
  - `PipedAt`: the pending get and the queue hold no error or end while the thread
    reads, no delta behind one, and an end only once the thread is done, behind the
    error of an answer that failed;
  - `Streamed`: the text, the wire, the get and the queue continue one another, so
    that each step moves a delta over one seam;
  - `EndedWell`: a generator that ends sends an error or has had all its thread read;
  - `Turn`, `Quiet`: the text is empty outside a turn, and the answer a quiet turn
    shows has been read to its end, so that no thread can add to it.

  The lemmas (`TokensJoin`, `PipePut`, `PipeTake`, `PipeMove`) say what taking from
  one sequence and putting on the next does to the numbers they hold.

`JobTrackingProofs`
* `TrackingIsTyped`: `Spec => []Tracked`, the invariant of the two below:
  - `Attached`: a generator runs exactly while the tab reads, without an active
    job nothing is open or asked, and the job followed is the active one unless an
    effect has still to run;
  - `LogOK`: the events of a bounded log bear the last numbers of its counter, and
    a terminal event in it is the record's status;
  - `Replayed`: what the client has read, what is on the wire and the generator's
    cursor follow one another through the log (`Chained`). A log that grows or
    forgets under a wire in flight does not break it (`ChainLasts`), as it only
    gains numbers beyond those sent;
  - `WireHonest`, `RepliesHonest`: an end on the wire is the followed job's, an end in
    an answer that of the job asked about. A record that has ended does not change.
* `ReplayIsFaithful`: `Spec => NeitherLostNorRepeated`, for any log bound and any
  number of events, reconnects and failures.
* `ViewStaysHonest`: `[]ViewIsHonest` for the runs in which neither an answer for
  a job other than the active one (`StaleReply`) nor an event of a stream that is
  still to be aborted (`StaleEvent`) is folded into the view. The hypothesis is not
  to be had from the code: with two jobs either happens, and the property fails
  (`v_stale_reply` shows the first). So these two are the only ways to a dishonest
  view. `OneJobIsShownHonestly`: with one job, opened as often as one likes, there
  is neither, and `Spec` is enough.

Constants are assumed distinct where the code's objects are
(`ResidencyAssumption`, `OrchestratorAssumption`, `JobRunnerAssumption`,
`JobTrackingAssumption`);
caps, windows and bounds are natural numbers (windows and ceilings positive); and
requests are requests (`AnyRequest`: each field absent, `null`, no integer or a
value of its kind), which the edge may refuse or not.

**Only model-checked.** Liveness (`EveryRequestIsAnswered`,
`IdlePlaneIsReclaimed`, `EveryJobEnds`, `AcceptedCancelWins`,
`TrackedEndIsShown`, `AbandonedIsReleased`, `MessageIsSettled`, `EveryJobEnds` of
`GenerationJob`, `EveryTaskEnds` of `GenWorker`), which is out of the prover's
reach, as is what depends on the fairness stated above. No theorem states
`ViewIsHonest` without a hypothesis, because the code does not keep it.

## 6. Not modelled

The components marked `not_modelled` in `PROJECT.json`. The SSE parser and the
proxy are planned (section 2); viewers, drafts, launch arguments, the compose
wiring and the container patches are configuration or presentation; the verdicts
over recorded traces (`coresidency.py`) and the greedy oracle are test support.

* Shutdown. `JobRunner.stop()` cancels the drain loop while the work or a start
  runs on in its thread, so a container may come up after `evict_all`, against
  the comment at `main.py` 212: the cause is that of `v_disconnect`.
* Of the checkpoint tool: the scan for references back into the base, the
  commands that only read, and the provenance file, which a second run of
  `self-contained` rewrites without the entries swept by the first
  (`copy_shared.py` 310-340).
* Of observability: timings and labels. `MeteredOrchestrator` reads the slot
  outside the lock (`instruments.py` 33-34), so its label may be stale.
* A plane that outlives the api process is met by no run's one-plane property: the
  code evicts at shutdown only (`main.py` 212), so `AtMostOnePlane` fails with
  `restart`; `ImplementsGpuSlot` holds with it, but speaks of the slot only.
* A docker command that never returns (section 4, fairness); `os.replace` and
  `os.remove` of the mux raising (`artifacts.py`).
* A stray eviction thread that returns late is modelled (`StrayReturns`, in
  `jobs_faults`): it may stop a container another session has started since. No
  property is about that alone, as the code promises nothing of it.
* Payloads, prompts, sampler parameters and wording are abstracted: no property
  depends on them. `COSMOS3_INPUT_ALLOWLIST` is taken to contain the artifact
  volume, where inline media is kept, as the default does.
