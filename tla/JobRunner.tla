------------------------------ MODULE JobRunner ------------------------------
(***************************************************************************)
(* The asynchronous jobs of api/jobs (runner.py, model.py, store.py) on    *)
(* top of the orchestrator: the drain loop that takes one job at a time    *)
(* through lease, acquire and work, the work thread reporting progress,    *)
(* and the cancel requests.  Every step that touches the orchestrator is   *)
(* a step of Orchestrator with what it does to the jobs beside it.         *)
(*                                                                         *)
(* The runner and the cancels run on the event loop; the work runs in a    *)
(* thread, and its progress report is two critical sections of the store   *)
(* (update, then append_event), so loop steps may fall between them.       *)
(***************************************************************************)
EXTENDS Orchestrator

CONSTANTS
  Jobs,
  NoJob,
  MaxProgress  (* bound: progress events of one job                        *)

ASSUME JobRunnerAssumption == NoJob \notin Jobs /\ MaxProgress \in Nat

VARIABLES
  status,     (* each record's status; "new" before it is submitted        *)
  log,        (* each job's events: the types, oldest first                *)
  queue,      (* JobRunner._queue                                          *)
  cancelled,  (* JobRunner._cancelled                                      *)
  current,    (* JobRunner._current                                        *)
  work,       (* the current job's work thread                             *)
  victim      (* the job each cancel request is evicting                   *)

records == <<status, log>>
drain   == <<queue, cancelled, current>>
jobs    == <<records, drain, work, victim>>

Terminal == {"succeeded", "failed", "cancelled"}
Statuses == {"new", "queued", "running"} \cup Terminal

-----------------------------------------------------------------------------
(* A status change and its event: one loop step, no await between the two. *)

Transition(j, to) ==
  /\ status' = [status EXCEPT ![j] = to]
  /\ log' = [log EXCEPT ![j] = Append(@, to)]

\* submit_and_enqueue for a submission that is no idempotent replay.
Submit(j) ==
  /\ status[j] = "new"
  /\ Transition(j, "queued")
  /\ queue' = Append(queue, j)
  /\ UNCHANGED <<cancelled, current, work, victim, vars>>

-----------------------------------------------------------------------------
(* JobRunner._loop and _process.                                           *)

Idling == current = NoJob /\ queue # <<>>
Runnable(j) == j \notin cancelled /\ status[j] = "queued"

\* The job was cancelled while it was queued.
DequeueDrops ==
  /\ Idling /\ ~Runnable(Head(queue))
  /\ queue' = Tail(queue)
  /\ cancelled' = cancelled \ {Head(queue)}
  /\ UNCHANGED <<records, current, work, victim, vars>>

\* A drain loop that serves the newest job.
DequeueTakesNewestMutant ==
  /\ Idling /\ Runnable(queue[Len(queue)])
  /\ current' = queue[Len(queue)]
  /\ queue' = SubSeq(queue, 1, Len(queue) - 1)
  /\ \E id \in Wanted(Runner) : Request(Runner, id)
  /\ UNCHANGED <<records, cancelled, work, victim>>

DequeueTakes ==
  /\ Idling /\ Runnable(Head(queue))
  /\ current' = Head(queue)
  /\ queue' = Tail(queue)
  /\ \E id \in Wanted(Runner) : Request(Runner, id)
  /\ UNCHANGED <<records, cancelled, work, victim>>

\* The runner's way through acquire, and through evict_all after a failure.
Proceeds ==
  /\ \/ LeaseGranted(Runner)
     \/ AcquireSwap(Runner) \/ AcquireCold(Runner)
     \/ SwapStops(Runner) \/ SwapEvicted(Runner) \/ GatePasses(Runner)
     \/ StartReturns(Runner) \/ ProbeGivesUp(Runner) \/ UndoStops(Runner)
     \/ EvictAllStarts(Runner) \/ EvictAllStops(Runner)
  /\ UNCHANGED jobs

\* acquire returned, and the job is started without another suspension: unless
\* it was cancelled meanwhile.
Acquired ==
  /\ AcquireHit(Runner) \/ ProbeReady(Runner)
  /\ IF current \in cancelled
     THEN UNCHANGED <<records, work>>
     ELSE Transition(current, "running") /\ work' = "working"
  /\ UNCHANGED <<drain, victim>>

\* The finally block, beside notify_idle and the release of the lease.
Finish ==
  /\ cancelled' = cancelled \ {current}
  /\ current' = NoJob
  /\ work' = "none"
  /\ UNCHANGED <<queue, victim>>

\* A failure path that evicts the plane and forgets the job.
FailsSilentlyMutant ==
  /\ current \notin cancelled
  /\ \/ AcquireRaises(Runner)
     \/ work = "working" /\ WorkRaises
  /\ work' = "none"
  /\ UNCHANGED <<records, drain, victim>>

\* acquire or the work raised: the job fails unless it was cancelled, and the
\* runner goes on to evict_all.
Fails ==
  /\ current \notin cancelled
  /\ \/ AcquireRaises(Runner)
     \/ work = "working" /\ WorkRaises
  /\ Transition(current, "failed")
  /\ work' = "none"
  /\ UNCHANGED <<drain, victim>>

CleanedUp ==
  /\ EvictAllDone(Runner) \/ EvictAllEmpty(Runner)
  /\ Finish
  /\ UNCHANGED records

\* A result that is stored without a look at _cancelled.
SucceedsUncheckedMutant ==
  /\ work = "working" /\ UseEnds(Runner)
  /\ IF status[current] = "running" THEN Transition(current, "succeeded") ELSE UNCHANGED records
  /\ Finish

\* The work thread returned a result.
Succeeds ==
  /\ work = "working" /\ current \notin cancelled
  /\ UseEnds(Runner)
  /\ Transition(current, "succeeded")
  /\ Finish

\* A cancelled job's acquire or work ended, one way or the other.
Abandons ==
  /\ current \in cancelled /\ work # "reporting"
  /\ UseEnds(Runner) \/ AcquireRaisesCancelled
  /\ Finish
  /\ UNCHANGED records

-----------------------------------------------------------------------------
(* The work thread's progress callback.                                    *)

Reported(j) == Len(SelectSeq(log[j], LAMBDA e : e = "progress"))

\* store.update: the fraction is recorded while the job is running.
ReportUpdates ==
  /\ work = "working" /\ status[current] = "running"
  /\ Reported(current) < MaxProgress
  /\ work' = "reporting"
  /\ UNCHANGED <<records, drain, victim, vars>>

\* store.append_event: whatever has happened to the job since.
ReportAppends ==
  /\ work = "reporting"
  /\ log' = [log EXCEPT ![current] = Append(@, "progress")]
  /\ work' = "working"
  /\ UNCHANGED <<status, drain, victim, vars>>

-----------------------------------------------------------------------------
(* JobRunner.cancel.                                                       *)

\* A cancel that evicts before it takes the job's id.
MarkLateMutant(j) == UNCHANGED cancelled

\* The id is in _cancelled before any await.
Mark(j) == cancelled' = cancelled \cup {j}

\* A cancel that takes the queued job in turn for the one to evict.
EvictableQueuedMutant(j) == status[j] = "queued" /\ current = j

Evictable(j) == status[j] = "running" /\ current = j

\* A queued job, or one whose run is over but for its cancel: no eviction.
CancelAtOnce(j) ==
  /\ status[j] \in {"queued", "running"} /\ ~Evictable(j)
  /\ Mark(j)
  /\ Transition(j, "cancelled")
  /\ UNCHANGED <<queue, current, work, victim, vars>>

\* The running job: evict_all first.
CancelEvicts(c, j) ==
  /\ victim[c] = NoJob /\ Evictable(j)
  /\ Mark(j)
  /\ victim' = [victim EXCEPT ![c] = j]
  /\ CancelRunning(c)
  /\ UNCHANGED <<records, queue, current, work>>

CancelProceeds(c) ==
  /\ EvictAllStarts(c) \/ EvictAllStops(c)
  /\ UNCHANGED jobs

\* A cancel that does not look at the record again after its eviction.
CancelReturnsBlindMutant(c) ==
  /\ EvictAllDone(c) \/ EvictAllEmpty(c)
  /\ Transition(victim[c], "cancelled")
  /\ victim' = [victim EXCEPT ![c] = NoJob]
  /\ UNCHANGED <<drain, work>>

\* evict_all returned: the job is cancelled, unless another cancel was faster
\* (this one then answers 409).
CancelReturns(c) ==
  /\ EvictAllDone(c) \/ EvictAllEmpty(c)
  /\ IF status[victim[c]] \in Terminal
     THEN UNCHANGED records
     ELSE Transition(victim[c], "cancelled")
  /\ victim' = [victim EXCEPT ![c] = NoJob]
  /\ UNCHANGED <<drain, work>>

-----------------------------------------------------------------------------
(* The rest of the system beside the jobs.                                 *)

StreamStep(s) == SessionStep(s) /\ UNCHANGED jobs

IdleStep == (IdleFires \/ IdleSkips \/ IdleRuns \/ EvictStep(IdleTask)) /\ UNCHANGED jobs

Environment ==
  /\ \/ \E s \in Streams : Request(s, ReasonId) \/ Disconnect(s)
     \/ \E p \in Planes : PlaneCrashes(p) \/ Drains(p)
     \/ \E x \in strays : StrayReturns(x)
  /\ UNCHANGED jobs

\* The store and the runner live and die with the process.
Restarts ==
  /\ ApiRestarts
  /\ status' = [j \in Jobs |-> "new"]
  /\ log' = [j \in Jobs |-> <<>>]
  /\ queue' = <<>> /\ cancelled' = {} /\ current' = NoJob
  /\ work' = "none"
  /\ victim' = [c \in Cancellers |-> NoJob]

JobsInit ==
  /\ Init
  /\ status = [j \in Jobs |-> "new"]
  /\ log = [j \in Jobs |-> <<>>]
  /\ queue = <<>> /\ cancelled = {} /\ current = NoJob
  /\ work = "none"
  /\ victim = [c \in Cancellers |-> NoJob]

RunnerStep ==
  \/ DequeueDrops \/ DequeueTakes \/ Proceeds
  \/ Acquired \/ Fails \/ CleanedUp \/ Succeeds \/ Abandons

ThreadStep == ReportUpdates \/ ReportAppends

CancelStep(c) == CancelProceeds(c) \/ CancelReturns(c)

JobsNext ==
  \/ \E j \in Jobs : Submit(j) \/ CancelAtOnce(j)
  \/ RunnerStep
  \/ ThreadStep
  \/ \E c \in Cancellers, j \in Jobs : CancelEvicts(c, j)
  \/ \E c \in Cancellers : CancelStep(c)
  \/ \E s \in Streams : StreamStep(s)
  \/ IdleStep
  \/ Environment
  \/ Restarts

allvars == <<vars, jobs>>

JobsSpec == JobsInit /\ [][JobsNext]_allvars

\* The event loop runs every ready task, and thread calls return; nobody has to
\* submit, cancel or stream, and no plane has to fail.
JobsFairness ==
  /\ WF_allvars(RunnerStep) /\ WF_allvars(ThreadStep) /\ WF_allvars(IdleStep)
  /\ \A c \in Cancellers : WF_allvars(CancelStep(c))
  /\ \A s \in Streams : WF_allvars(StreamStep(s))

JobsFairSpec == JobsSpec /\ JobsFairness

-----------------------------------------------------------------------------
(* Properties.                                                             *)

\* Nobody evicts the plane under a job that was not cancelled: not the cancel
\* of an earlier job, not its cleanup, not the idle timer, not a stream.
RunningJobKeepsItsPlane ==
  work # "none" /\ current \notin cancelled => slot = target[Runner]

\* EC-S4: a cancel of the running job that has been answered has freed the GPU
\* slot, however long the work thread takes to notice.
CancelFreesTheSlot ==
  work # "none" /\ status[current] = "cancelled" => slot = Cold

\* The events end with the status s but for progress reports, and after a
\* terminal event there is nothing else.
Tells(events, s) ==
  /\ s = "new" <=> events = <<>>
  /\ s # "new" =>
       \E i \in 1..Len(events) :
         events[i] = s /\ \A k \in 1..Len(events) : i < k => events[k] = "progress"
  /\ \A i, k \in 1..Len(events) : events[i] \in Terminal /\ i < k => events[k] = "progress"

\* The event log tells each job's story: its last status event is the status the
\* record has now, and a job that has ended gets no event but a late progress
\* report.
EventsMatchStatus == \A j \in Jobs : Tells(log[j], status[j])

\* k waits before j: it is the job in turn, or further ahead in the queue.
WaitsBefore(k, j) ==
  /\ status[k] = "queued" /\ status[j] = "queued"
  /\ \/ k = current /\ j # current
     \/ \E a, b \in 1..Len(queue) : a < b /\ queue[a] = k /\ queue[b] = j

\* One job at a time, in the order of submission, each ended once.
Lifecycle == INSTANCE JobLifecycle WITH
  ahead <- {pair \in Jobs \X Jobs : WaitsBefore(pair[1], pair[2])}
ImplementsJobLifecycle == Lifecycle!Spec

\* INV-5: every submitted job reaches a terminal state, whatever fails on the
\* way: it never hangs.
EveryJobEnds == \A j \in Jobs : status[j] = "queued" ~> status[j] \in Terminal

\* A cancel that was accepted wins: the job ends as cancelled, even when its
\* work returns a result or fails meanwhile.
AcceptedCancelWins == \A j \in Jobs : j \in cancelled ~> status[j] = "cancelled"

=============================================================================
