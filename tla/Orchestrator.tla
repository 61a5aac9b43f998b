---------------------------- MODULE Orchestrator ----------------------------
(***************************************************************************)
(* The single-GPU orchestrator (api/orchestrator/manager.py) with the      *)
(* container planes it drives (container.py) and the lease discipline its  *)
(* clients follow (the job runner and the reasoning route).                *)
(*                                                                         *)
(* Everything runs on one asyncio event loop: a step of this module is the *)
(* code between two suspension points, or one blocking call finishing in a *)
(* worker thread (asyncio.to_thread).  An asyncio.Lock is a holder and a   *)
(* FIFO queue of waiters: release() leaves the lock free and wakes the     *)
(* head, a newcomer queues behind it, so an uncontended acquire() is here  *)
(* the enqueuing followed by the grant.                                    *)
(*                                                                         *)
(* A client session takes the GPU lease, acquires its identity, uses the   *)
(* plane, and on its way out calls notify_idle and returns the lease.      *)
(* A canceller is an API request that cancels the running job: it calls    *)
(* evict_all without the lease.  The idle task is the one _on_idle_timeout *)
(* creates.                                                                *)
(***************************************************************************)
EXTENDS Residency, Naturals, Sequences, FiniteSets

CONSTANTS
  Runner,      (* the job runner's drain loop                              *)
  Streams,     (* POST /v1/reason requests                                 *)
  Cancellers,  (* DELETE /v1/jobs/{id} requests                            *)
  IdleTask,    (* the task that runs _try_idle_evict                       *)
  Nobody,      (* a free lock or lease                                     *)
  KeepWarm,    (* idle_timeout > 0                                         *)
  Faults       (* which failures of the environment may happen             *)

\* "crash": a plane's container exits by itself.  "unclean_stop": docker stop
\* fails, or returns before the driver has given the VRAM back.  "disconnect":
\* a client goes away and its task is cancelled inside acquire.  "restart":
\* the api process dies and comes back.  "blind": nvidia-smi fails.
FaultKinds == {"crash", "unclean_stop", "disconnect", "restart", "blind"}

Sessions == {Runner} \cup Streams
Tasks == Sessions \cup Cancellers \cup {IdleTask}

ASSUME OrchestratorAssumption ==
  /\ Runner \notin Streams \cup Cancellers
  /\ IdleTask \notin Sessions \cup Cancellers
  /\ Streams \cap Cancellers = {}
  /\ Nobody \notin Tasks
  /\ KeepWarm \in BOOLEAN
  /\ Faults \subseteq FaultKinds

VARIABLES
  lease,      (* gpu_lease: the session that holds it                      *)
  leaseQ,     (* the sessions waiting for it, in order                     *)
  phase,      (* what each session is doing                                *)
  target,     (* the identity each session wants                           *)
  lock,       (* Orchestrator._lock: the task inside acquire / evict_all   *)
  lockQ,      (* the tasks waiting for it, in order                        *)
  call,       (* where each task is inside acquire, evict_all or the idle  *)
              (* task's own code                                           *)
  slot,       (* _slot; _worker is set and cleared with it, never apart    *)
  idleTimer,  (* _idle_handle is armed                                     *)
  plane,      (* what each container holds of the GPU                      *)
  strays      (* to_thread calls whose awaiting task was cancelled         *)

clients == <<lease, leaseQ, phase, target>>
manager == <<lock, lockQ, call, slot, idleTimer>>
gpu     == <<plane, strays>>
vars    == <<clients, manager, gpu>>

Phases == {"away", "lease", "acquire", "use", "cleanup"}
CallStates == {"out", "spawned", "queued",
               "evicting", "evicted", "gating", "starting", "probing",
               "undoing", "undone",        \* inside acquire
               "clearing", "cleared"}      \* inside evict_all
PlaneStates == {"down", "up", "draining"}  \* draining: stopped, VRAM still held
Stray(kind, p) == [kind |-> kind, plane |-> p]
StrayKinds == {"start", "evict"}

TypeOK ==
  /\ lease \in Sessions \cup {Nobody}
  /\ leaseQ \in Seq(Sessions)
  /\ phase \in [Sessions -> Phases]
  /\ target \in [Sessions -> ResidencyIds \cup {Cold}]
  /\ lock \in Tasks \cup {Nobody}
  /\ lockQ \in Seq(Tasks)
  /\ call \in [Tasks -> CallStates]
  /\ slot \in ResidencyIds \cup {Cold}
  /\ idleTimer \in BOOLEAN
  /\ plane \in [Planes -> PlaneStates]
  /\ strays \in SUBSET [kind : StrayKinds, plane : Planes]

-----------------------------------------------------------------------------
(* Helpers.                                                                *)

\* The queue without task t's place in it (asyncio drops a cancelled waiter).
Without(q, t) ==
  IF \E i \in 1..Len(q) : q[i] = t
  THEN LET k == CHOOSE i \in 1..Len(q) : q[i] = t
       IN  [i \in 1..(Len(q) - 1) |-> IF i < k THEN q[i] ELSE q[i + 1]]
  ELSE q

\* The next to run among those waiting for a free lock or lease.
NextFor(holder, q, t) == holder = Nobody /\ q # <<>> /\ Head(q) = t

\* What stopping container p may leave behind: evict never raises, so a failed
\* stop and a slow release look to the manager like a clean one.
StopOutcomes(p) ==
  IF plane[p] = "down" THEN {"down"}
  ELSE IF "unclean_stop" \in Faults THEN {"down", "draining", plane[p]}
  ELSE {"down"}

VramFree == \A p \in Planes : plane[p] = "down"

\* The identities a session asks for: every job mode is a generation mode.
Wanted(s) == IF s = Runner THEN GenIds ELSE {ReasonId}

-----------------------------------------------------------------------------
(* A session asks for the GPU and gets the lease.                          *)

Request(s, id) ==
  /\ phase[s] = "away"
  /\ phase' = [phase EXCEPT ![s] = "lease"]
  /\ target' = [target EXCEPT ![s] = id]
  /\ leaseQ' = Append(leaseQ, s)
  /\ UNCHANGED <<lease, manager, gpu>>

\* async with lease: await orchestrator.acquire(...)
LeaseGranted(s) ==
  /\ phase[s] = "lease" /\ NextFor(lease, leaseQ, s)
  /\ lease' = s
  /\ leaseQ' = Tail(leaseQ)
  /\ phase' = [phase EXCEPT ![s] = "acquire"]
  /\ call' = [call EXCEPT ![s] = "queued"]
  /\ lockQ' = Append(lockQ, s)
  /\ UNCHANGED <<target, lock, slot, idleTimer, gpu>>

-----------------------------------------------------------------------------
(* Orchestrator.acquire.                                                   *)

\* An acquire that leaves the idle timer running.
EnterAcquireKeepTimerMutant(s, next) ==
  /\ phase[s] = "acquire" /\ NextFor(lock, lockQ, s)
  /\ idleTimer' = idleTimer
  /\ call' = [call EXCEPT ![s] = next]
  /\ lockQ' = Tail(lockQ)

\* The lock is granted to s: the idle timer and a pending idle task are
\* cancelled before the plan is made.
EnterAcquire(s, next) ==
  /\ phase[s] = "acquire" /\ NextFor(lock, lockQ, s)
  /\ idleTimer' = FALSE
  /\ call' = [call EXCEPT ![s] = next, ![IdleTask] = "out"]
  /\ lockQ' = Without(Tail(lockQ), IdleTask)

\* Already resident: no suspension, straight on to using the plane.
AcquireHit(s) ==
  /\ EnterAcquire(s, "out")
  /\ PlanAcquire(slot, target[s]).load = Cold
  /\ phase' = [phase EXCEPT ![s] = "use"]
  /\ UNCHANGED <<lease, leaseQ, target, lock, slot, gpu>>

\* Another identity is resident: its eviction is handed to a thread.
AcquireSwap(s) ==
  /\ EnterAcquire(s, "evicting")
  /\ PlanAcquire(slot, target[s]).evict # Cold
  /\ lock' = s
  /\ UNCHANGED <<clients, slot, gpu>>

\* Nothing to evict: the start is handed to a thread.
AcquireCold(s) ==
  /\ EnterAcquire(s, "starting")
  /\ PlanAcquire(slot, target[s]).evict = Cold
  /\ PlanAcquire(slot, target[s]).load # Cold
  /\ lock' = s
  /\ UNCHANGED <<clients, slot, gpu>>

\* A thread running worker.evict finishes: docker stop has returned.
ThreadStops(t, from, to, p) ==
  /\ call[t] = from
  /\ \E after \in StopOutcomes(p) : plane' = [plane EXCEPT ![p] = after]
  /\ call' = [call EXCEPT ![t] = to]
  /\ UNCHANGED <<clients, lock, lockQ, slot, idleTimer, strays>>

SwapStops(s) == ThreadStops(s, "evicting", "evicted", PlaneOf(slot))

\* The slot is cleared and _post_evict_wait starts polling the VRAM.
SwapEvicted(s) ==
  /\ call[s] = "evicted"
  /\ slot' = Cold
  /\ call' = [call EXCEPT ![s] = "gating"]
  /\ UNCHANGED <<clients, lock, lockQ, idleTimer, gpu>>

\* gpu_memory_used_bytes is 0 when the GPU is empty, and when it cannot tell.
ReadsZero == VramFree \/ "blind" \in Faults

GatePasses(s) ==
  /\ call[s] = "gating"
  /\ ReadsZero
  /\ call' = [call EXCEPT ![s] = "starting"]
  /\ UNCHANGED <<clients, lock, lockQ, slot, idleTimer, gpu>>

\* docker start has returned: the container is up, wait_ready begins.
StartReturns(s) ==
  /\ call[s] = "starting"
  /\ plane' = [plane EXCEPT ![PlaneOf(target[s])] = "up"]
  /\ call' = [call EXCEPT ![s] = "probing"]
  /\ UNCHANGED <<clients, lock, lockQ, slot, idleTimer, strays>>

\* The readiness probe answered: only now is the identity recorded.
ProbeReady(s) ==
  /\ call[s] = "probing"
  /\ plane[PlaneOf(target[s])] = "up"
  /\ slot' = target[s]
  /\ lock' = Nobody
  /\ call' = [call EXCEPT ![s] = "out"]
  /\ phase' = [phase EXCEPT ![s] = "use"]
  /\ UNCHANGED <<lease, leaseQ, target, lockQ, idleTimer, gpu>>

\* The container exited or the ready timeout ran out: evict what was started.
ProbeGivesUp(s) ==
  /\ call[s] = "probing"
  /\ call' = [call EXCEPT ![s] = "undoing"]
  /\ UNCHANGED <<clients, lock, lockQ, slot, idleTimer, gpu>>

UndoStops(s) == ThreadStops(s, "undoing", "undone", PlaneOf(target[s]))

\* A failed acquire that keeps the lease of a stream.
AcquireRaisesLeaseKeptMutant(s) ==
  /\ call[s] \in {"gating", "starting", "undone"}
  /\ lock' = Nobody
  /\ phase' = [phase EXCEPT ![s] = IF s = Runner THEN "cleanup" ELSE "away"]
  /\ call' = [call EXCEPT ![s] = IF s = Runner THEN "queued" ELSE "out"]
  /\ lockQ' = IF s = Runner THEN Append(lockQ, s) ELSE lockQ
  /\ UNCHANGED <<lease, leaseQ, target, slot, idleTimer, gpu>>

\* acquire raises: the VRAM gate timed out, docker start failed, or the worker
\* never became ready.  The runner fails the job and goes on to evict_all; a
\* reasoning stream reports the error and returns the lease, with no
\* notify_idle.
AcquireRaises(s) ==
  /\ call[s] \in {"gating", "starting", "undone"}
  /\ lock' = Nobody
  /\ IF s = Runner
     THEN /\ phase' = [phase EXCEPT ![s] = "cleanup"]
          /\ call' = [call EXCEPT ![s] = "queued"]
          /\ lockQ' = Append(lockQ, s)
          /\ UNCHANGED lease
     ELSE /\ phase' = [phase EXCEPT ![s] = "away"]
          /\ call' = [call EXCEPT ![s] = "out"]
          /\ lease' = Nobody
          /\ UNCHANGED lockQ
  /\ UNCHANGED <<leaseQ, target, slot, idleTimer, gpu>>

-----------------------------------------------------------------------------
(* Leaving: notify_idle, then the lease.                                   *)

\* A notify_idle that trusts the timer to be armed already.
TimerKeptMutant == idleTimer

\* notify_idle arms a fresh timer when something is resident.
TimerAfterUse == KeepWarm /\ slot' # Cold

\* notify_idle cancels the handle and the idle task, wherever that task is;
\* then the lease is free.
Leave(s, q) ==
  /\ lease' = Nobody
  /\ phase' = [phase EXCEPT ![s] = "away"]
  /\ call' = [call EXCEPT ![s] = "out", ![IdleTask] = "out"]
  /\ lockQ' = Without(q, IdleTask)
  /\ lock' = IF lock \in {s, IdleTask} THEN Nobody ELSE lock
  /\ strays' = IF call[IdleTask] = "clearing"
               THEN strays \cup {Stray("evict", PlaneOf(slot))}
               ELSE strays
  /\ idleTimer' = TimerAfterUse

\* The job's work returned, was cancelled or failed after a cancel; the stream
\* ended or its client went away.
UseEnds(s) ==
  /\ phase[s] = "use"
  /\ UNCHANGED <<leaseQ, target, slot, plane>>
  /\ Leave(s, lockQ)

\* The job acquired the plane only to find itself cancelled meanwhile, or its
\* acquire raised after a cancel: it leaves without evicting.
AcquireRaisesCancelled ==
  /\ call[Runner] \in {"gating", "starting", "undone"}
  /\ UNCHANGED <<leaseQ, target, slot, plane>>
  /\ Leave(Runner, lockQ)

\* The job's work raised: the plane may be dirty, the runner evicts it while it
\* still holds the lease.
WorkRaises ==
  /\ phase[Runner] = "use"
  /\ phase' = [phase EXCEPT ![Runner] = "cleanup"]
  /\ call' = [call EXCEPT ![Runner] = "queued"]
  /\ lockQ' = Append(lockQ, Runner)
  /\ UNCHANGED <<lease, leaseQ, target, lock, slot, idleTimer, gpu>>

-----------------------------------------------------------------------------
(* Orchestrator.evict_all, called by the runner's cleanup, a canceller and *)
(* the idle task.                                                          *)

\* A cancel of the job that is running now.
CancelRunning(c) ==
  /\ phase[Runner] = "use" /\ call[c] = "out"
  /\ call' = [call EXCEPT ![c] = "queued"]
  /\ lockQ' = Append(lockQ, c)
  /\ UNCHANGED <<clients, lock, slot, idleTimer, gpu>>

Evictor(t) == t \in Cancellers \cup {IdleTask} \/ (t = Runner /\ phase[t] = "cleanup")

\* The lock is granted; only the idle handle is cancelled here.  There is a
\* worker: its eviction is handed to a thread.
EvictAllStarts(t) ==
  /\ Evictor(t) /\ NextFor(lock, lockQ, t)
  /\ slot # Cold
  /\ lock' = t
  /\ lockQ' = Tail(lockQ)
  /\ call' = [call EXCEPT ![t] = "clearing"]
  /\ idleTimer' = FALSE
  /\ UNCHANGED <<clients, slot, gpu>>

EvictAllStops(t) == ThreadStops(t, "clearing", "cleared", PlaneOf(slot))

\* What follows evict_all in its caller: the runner's finally block, or nothing.
EvictAllReturns(t, q, timer) ==
  IF t = Runner THEN Leave(t, q)
  ELSE /\ call' = [call EXCEPT ![t] = "out"]
       /\ lock' = Nobody
       /\ lockQ' = q
       /\ idleTimer' = timer
       /\ UNCHANGED <<lease, phase, strays>>

EvictAllDone(t) ==
  /\ call[t] = "cleared"
  /\ slot' = Cold
  /\ EvictAllReturns(t, lockQ, idleTimer)
  /\ UNCHANGED <<leaseQ, target, plane>>

\* No worker: evict_all passes through the lock without suspending.
EvictAllEmpty(t) ==
  /\ Evictor(t) /\ NextFor(lock, lockQ, t)
  /\ slot = Cold /\ slot' = Cold
  /\ EvictAllReturns(t, Tail(lockQ), FALSE)
  /\ UNCHANGED <<leaseQ, target, plane>>

-----------------------------------------------------------------------------
(* The idle timer.                                                         *)

\* _on_idle_timeout.
IdleFires ==
  /\ idleTimer
  /\ idleTimer' = FALSE
  /\ call' = [call EXCEPT ![IdleTask] = "spawned"]
  /\ UNCHANGED <<clients, lock, lockQ, slot, gpu>>

\* _try_idle_evict: give up when the lock is held, else evict_all.
IdleSkips ==
  /\ call[IdleTask] = "spawned" /\ lock # Nobody
  /\ call' = [call EXCEPT ![IdleTask] = "out"]
  /\ UNCHANGED <<clients, lock, lockQ, slot, idleTimer, gpu>>

IdleRuns ==
  /\ call[IdleTask] = "spawned" /\ lock = Nobody
  /\ call' = [call EXCEPT ![IdleTask] = "queued"]
  /\ lockQ' = Append(lockQ, IdleTask)
  /\ UNCHANGED <<clients, lock, slot, idleTimer, gpu>>

-----------------------------------------------------------------------------
(* The environment's failures.                                             *)

PlaneCrashes(p) ==
  /\ "crash" \in Faults /\ plane[p] = "up"
  /\ plane' = [plane EXCEPT ![p] = "down"]
  /\ UNCHANGED <<clients, manager, strays>>

\* The driver gives back the VRAM of a stopped plane.
Drains(p) ==
  /\ plane[p] = "draining"
  /\ plane' = [plane EXCEPT ![p] = "down"]
  /\ UNCHANGED <<clients, manager, strays>>

\* The thread call a task leaves running when it is cancelled inside acquire.
LeftRunning(s) ==
  CASE call[s] = "evicting" -> {Stray("evict", PlaneOf(slot))}
    [] call[s] = "undoing"  -> {Stray("evict", PlaneOf(target[s]))}
    [] call[s] = "starting" -> {Stray("start", PlaneOf(target[s]))}
    [] OTHER -> {}

\* A stream's client disconnects before its plane is acquired: CancelledError
\* is no Exception, so it unwinds both locks and nothing else.
Disconnect(s) ==
  /\ "disconnect" \in Faults /\ phase[s] \in {"lease", "acquire"}
  /\ phase' = [phase EXCEPT ![s] = "away"]
  /\ lease' = IF lease = s THEN Nobody ELSE lease
  /\ leaseQ' = Without(leaseQ, s)
  /\ lock' = IF lock = s THEN Nobody ELSE lock
  /\ lockQ' = Without(lockQ, s)
  /\ call' = [call EXCEPT ![s] = "out"]
  /\ strays' = strays \cup LeftRunning(s)
  /\ UNCHANGED <<target, slot, idleTimer, plane>>

\* The thread nobody awaits any more finishes.
StrayReturns(x) ==
  /\ strays' = strays \ {x}
  /\ \/ x.kind = "start" /\ plane' = [plane EXCEPT ![x.plane] = "up"]
     \/ x.kind = "evict" /\ \E after \in StopOutcomes(x.plane) :
                              plane' = [plane EXCEPT ![x.plane] = after]
  /\ UNCHANGED <<clients, manager>>

\* The api process dies and is restarted; the containers are not its children.
ApiRestarts ==
  /\ "restart" \in Faults
  /\ lease' = Nobody /\ leaseQ' = <<>>
  /\ lock' = Nobody /\ lockQ' = <<>>
  /\ phase' = [s \in Sessions |-> "away"]
  /\ target' = [s \in Sessions |-> Cold]
  /\ call' = [t \in Tasks |-> "out"]
  /\ slot' = Cold
  /\ idleTimer' = FALSE
  /\ strays' = {}
  /\ UNCHANGED plane

-----------------------------------------------------------------------------
Init ==
  /\ lease = Nobody /\ leaseQ = <<>>
  /\ lock = Nobody /\ lockQ = <<>>
  /\ phase = [s \in Sessions |-> "away"]
  /\ target = [s \in Sessions |-> Cold]
  /\ call = [t \in Tasks |-> "out"]
  /\ slot = Cold
  /\ idleTimer = FALSE
  /\ plane = [p \in Planes |-> "down"]
  /\ strays = {}

SessionStep(s) ==
  \/ LeaseGranted(s)
  \/ AcquireHit(s) \/ AcquireSwap(s) \/ AcquireCold(s)
  \/ SwapStops(s) \/ SwapEvicted(s) \/ GatePasses(s)
  \/ StartReturns(s) \/ ProbeReady(s) \/ ProbeGivesUp(s) \/ UndoStops(s)
  \/ AcquireRaises(s)
  \/ UseEnds(s)

EvictStep(t) == EvictAllStarts(t) \/ EvictAllStops(t) \/ EvictAllDone(t) \/ EvictAllEmpty(t)

Next ==
  \/ \E s \in Sessions : \E id \in Wanted(s) : Request(s, id)
  \/ \E s \in Sessions : SessionStep(s)
  \/ AcquireRaisesCancelled
  \/ WorkRaises
  \/ \E c \in Cancellers : CancelRunning(c)
  \/ \E t \in Cancellers \cup {Runner, IdleTask} : EvictStep(t)
  \/ IdleFires \/ IdleSkips \/ IdleRuns
  \/ \E p \in Planes : PlaneCrashes(p) \/ Drains(p)
  \/ \E s \in Streams : Disconnect(s)
  \/ \E x \in strays : StrayReturns(x)
  \/ ApiRestarts

Spec == Init /\ [][Next]_vars

\* Worker threads return, a ready task runs, work ends and timers fire; whether
\* anyone asks for the GPU, cancels, fails or disconnects is left open.
Fairness ==
  /\ \A s \in Sessions : WF_vars(SessionStep(s))
  /\ \A t \in Cancellers \cup {Runner, IdleTask} : WF_vars(EvictStep(t))
  /\ WF_vars(IdleFires) /\ WF_vars(IdleSkips \/ IdleRuns)

FairSpec == Spec /\ Fairness

-----------------------------------------------------------------------------
(* Properties.                                                             *)

\* FR-8: no plane is loaded while another is resident; at most one container
\* holds VRAM at any time, whatever the sessions, the cancels and the idle
\* timer do (the Orchestrator class: at most one heavy plane resident).
AtMostOnePlane ==
  \A p, q \in Planes : plane[p] # "down" /\ plane[q] # "down" => p = q

\* A reasoning stream that is being served keeps its plane recorded in the slot
\* to its end: a cancel or a failure of the job before it, queued behind the
\* same lock, and the idle timer all miss it.
StreamKeepsItsSlot == \A s \in Streams : phase[s] = "use" => slot = ReasonId

\* Keep-warm: a resident plane that no session is using always has its eviction
\* pending, as an armed timer, an idle task, or a lock operation under way.
WarmPlaneIsTimed ==
  KeepWarm /\ slot # Cold /\ lease = Nobody =>
    idleTimer \/ call[IdleTask] # "out" \/ lock # Nobody \/ lockQ # <<>>

\* The orchestrator and the lease implement one slot with one user.
Slot == INSTANCE GpuSlot WITH
  resident <- slot,
  user <- IF \E s \in Sessions : phase[s] = "use"
          THEN CHOOSE s \in Sessions : phase[s] = "use"
          ELSE Nobody
ImplementsGpuSlot == Slot!Spec

\* RK-15: the next plane is never loaded on top of VRAM that an evicted plane
\* has not released.
LoadsIntoFreeVram ==
  [][\A p, q \in Planes :
       plane[p] # "up" /\ plane'[p] = "up" /\ plane[q] # "down" => p = q]_vars

\* A session that queues for the GPU is served, or is told that its plane is
\* unavailable: nobody is starved by the other sessions, the cancels or the
\* idle timer.
EveryRequestIsAnswered ==
  \A s \in Sessions : phase[s] = "lease" ~> phase[s] \in {"use", "cleanup", "away"}

\* A plane nobody asks for again is evicted when its idle time is over.
IdlePlaneIsReclaimed ==
  KeepWarm /\ slot # Cold ~> slot = Cold \/ \E s \in Sessions : phase[s] # "away"

=============================================================================
