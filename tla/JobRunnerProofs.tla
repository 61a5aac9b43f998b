--------------------------- MODULE JobRunnerProofs ---------------------------
(***************************************************************************)
(* Theorems about JobRunner, for any number of jobs, streams and cancels.  *)
(*                                                                         *)
(* The runner and the cancels drive the orchestrator only as Orchestrator  *)
(* lets its sessions and cancellers do, so its theorems hold of the api as *)
(* a whole.  On top of them one inductive invariant, JobInv, relates the   *)
(* records, the queue, the cancels under way and the runner's phase; from  *)
(* it follow what a running and a cancelled job may rely on, that the      *)
(* event log tells the record's story, and that the runner implements      *)
(* JobLifecycle.                                                           *)
(***************************************************************************)
EXTENDS JobRunner, OrchestratorProofs

\* Every step of the jobs is a step of the orchestrator's module, or leaves the
\* orchestrator alone.
LEMMA JobsStep == [JobsNext]_allvars => [Next]_vars
<1> SUFFICES ASSUME [JobsNext]_allvars PROVE [Next]_vars
  OBVIOUS
<1>r. Runner \in Sessions
  BY DEF Sessions
<1>1. ASSUME NEW j \in Jobs, Submit(j) \/ CancelAtOnce(j) PROVE UNCHANGED vars
  BY <1>1 DEF Submit, CancelAtOnce, vars
<1>2. CASE RunnerStep
  <2>1. CASE DequeueDrops
    BY <2>1 DEF DequeueDrops, vars
  <2>2. CASE DequeueTakes
    BY <2>2, <1>r DEF DequeueTakes, Next
  <2>3. CASE Proceeds
    BY <2>3, <1>r DEF Proceeds, Next, SessionStep, EvictStep
  <2>4. CASE Acquired
    BY <2>4, <1>r DEF Acquired, Next, SessionStep
  <2>5. CASE Fails
    BY <2>5, <1>r DEF Fails, Next, SessionStep
  <2>6. CASE CleanedUp
    BY <2>6 DEF CleanedUp, Next, EvictStep
  <2>7. CASE Succeeds
    BY <2>7, <1>r DEF Succeeds, Next, SessionStep
  <2>8. CASE Abandons
    BY <2>8, <1>r DEF Abandons, Next, SessionStep
  <2> QED BY <1>2, <2>1, <2>2, <2>3, <2>4, <2>5, <2>6, <2>7, <2>8 DEF RunnerStep
<1>3. CASE ThreadStep
  BY <1>3 DEF ThreadStep, ReportUpdates, ReportAppends, vars
<1>4. ASSUME NEW c \in Cancellers, NEW j \in Jobs, CancelEvicts(c, j) PROVE Next
  BY <1>4 DEF CancelEvicts, Next
<1>5. ASSUME NEW c \in Cancellers, CancelStep(c) PROVE Next
  BY <1>5 DEF CancelStep, CancelProceeds, CancelReturns, Next, EvictStep
<1>6. ASSUME NEW s \in Streams, StreamStep(s) PROVE Next
  BY <1>6 DEF StreamStep, Next, Sessions
<1>7. CASE IdleStep
  BY <1>7 DEF IdleStep, Next
<1>8. CASE Environment
  <2>1. ASSUME NEW s \in Streams PROVE ReasonId \in Wanted(s) /\ s \in Sessions
    BY OrchestratorAssumption DEF Wanted, Sessions
  <2> QED BY <1>8, <2>1 DEF Environment, Next
<1>9. CASE UNCHANGED allvars
  BY <1>9 DEF allvars, vars
<1>10. CASE Restarts
  BY <1>10 DEF Restarts, Next
<1> QED BY <1>1, <1>2, <1>3, <1>4, <1>5, <1>6, <1>7, <1>8, <1>9, <1>10 DEF JobsNext

\* The jobs on top of the orchestrator implement the orchestrator's module:
\* whatever it promises its clients holds with the job runner as one of them.
THEOREM JobsImplementOrchestrator == JobsSpec => Spec
<1>1. JobsInit => Init
  BY DEF JobsInit
<1> QED  BY <1>1, JobsStep, PTL DEF JobsSpec, Spec

\* FR-8 for the api as a whole: with jobs, cancels, streams and the idle timer,
\* at most one container holds VRAM while stops work and clients stay.
THEOREM JobsAtMostOne ==
  ASSUME Faults \subseteq {"crash"}
  PROVE  JobsSpec => []AtMostOnePlane
BY JobsImplementOrchestrator, AtMostOne, PTL

\* Whatever fails, a stream that is served keeps its slot with jobs and cancels
\* around it.
THEOREM JobsStreamKeeps == JobsSpec => []StreamKeepsItsSlot
BY JobsImplementOrchestrator, StreamKeeps, PTL

\* Whatever fails, the api as a whole implements one slot with one user.
THEOREM JobsRefineGpuSlot == JobsSpec => ImplementsGpuSlot
BY JobsImplementOrchestrator, RefinesGpuSlot, PTL

\* A warm plane has its eviction pending, with jobs and cancels around it, unless
\* a client goes away in mid-acquire.
THEOREM JobsWarmIsTimed ==
  ASSUME "disconnect" \notin Faults
  PROVE  JobsSpec => []WarmPlaneIsTimed
BY JobsImplementOrchestrator, WarmIsTimed, PTL


-----------------------------------------------------------------------------
(* The invariant of the jobs.                                              *)

EventTypes == (Statuses \ {"new"}) \cup {"progress"}

JobsTypeOK ==
  /\ status \in [Jobs -> Statuses] /\ log \in [Jobs -> Seq(EventTypes)]
  /\ queue \in Seq(Jobs) /\ cancelled \subseteq Jobs /\ current \in Jobs \cup {NoJob}
  /\ work \in {"none", "working", "reporting"}
  /\ victim \in [Cancellers -> Jobs \cup {NoJob}]

\* What the runner's phase says of the job it has taken.
TurnInv ==
  /\ phase[Runner] = "away" <=> current = NoJob
  /\ phase[Runner] \in {"lease", "acquire"} =>
       IF current \in cancelled THEN status[current] = "cancelled" ELSE status[current] = "queued"
  /\ phase[Runner] = "use" =>
       \/ work # "none" /\ status[current] = "running"
       \/ current \in cancelled /\ status[current] = "cancelled"
  /\ phase[Runner] = "cleanup" => status[current] = "failed"
  /\ work # "none" => phase[Runner] = "use"

\* A cancel that waits for its eviction is one of the job that is being worked
\* on, or of one whose run is over.
VictimInv ==
  \A c \in Cancellers :
    /\ call[c] = "out" <=> victim[c] = NoJob
    /\ victim[c] # NoJob => status[victim[c]] \in {"running", "cancelled"}
    /\ work # "none" /\ victim[c] # NoJob => victim[c] = current /\ current \in cancelled

\* A job that is marked as cancelled has not ended otherwise.
MarkedInv == \A j \in cancelled : status[j] \in {"running", "cancelled"}

\* The queue holds the jobs that wait, each once, and those cancelled waiting.
BacklogInv ==
  /\ Distinct(queue) /\ ~In(queue, current)
  /\ \A j \in Jobs :
       /\ In(queue, j) => status[j] = "queued" \/ (j \in cancelled /\ status[j] = "cancelled")
       /\ status[j] = "queued" => j = current \/ In(queue, j)

\* A running job is the current one, or the cancel that will end it is under way.
RunningInv ==
  \A j \in Jobs : status[j] = "running" =>
    (j = current /\ j \notin cancelled) \/ \E c \in Cancellers : victim[c] = j

JobInv ==
  /\ JobsTypeOK /\ TurnInv /\ VictimInv /\ MarkedInv /\ BacklogInv /\ RunningInv
  /\ EventsMatchStatus /\ RunningJobKeepsItsPlane /\ CancelFreesTheSlot

-----------------------------------------------------------------------------
(* Events.                                                                 *)

\* A status change of a job that has not ended continues its story.
LEMMA TellsTransition ==
  ASSUME NEW events \in Seq(EventTypes), NEW s \in Statuses \ Terminal,
         NEW to \in Statuses \ {"new"}, Tells(events, s)
  PROVE  Append(events, to) \in Seq(EventTypes) /\ Tells(Append(events, to), to)
<1> DEFINE r == Append(events, to)
           n == Len(events)
<1>1. /\ n \in Nat /\ Len(r) = n + 1 /\ r[n + 1] = to /\ r # <<>>
      /\ \A i \in 1..n : r[i] = events[i]
  OBVIOUS
<1>2. r \in Seq(EventTypes)
  BY DEF EventTypes
<1>3. \A i \in 1..n : events[i] \notin Terminal
  <2> SUFFICES ASSUME NEW i \in 1..n, events[i] \in Terminal PROVE FALSE
    OBVIOUS
  <2>1. s # "new"
    BY DEF Tells
  <2>2. PICK k \in 1..n : events[k] = s /\ \A m \in 1..n : k < m => events[m] = "progress"
    BY <2>1 DEF Tells
  <2>3. i # k
    BY <2>2
  <2>4. k < i => events[i] = "progress"
    BY <2>2
  <2>5. i < k => events[k] = "progress"
    BY DEF Tells
  <2> QED BY <1>1, <2>2, <2>3, <2>4, <2>5 DEF Terminal, Statuses
<1> HIDE DEF r
<1>4. \A i, k \in 1..Len(r) : r[i] \in Terminal /\ i < k => r[k] = "progress"
  BY <1>1, <1>3
<1>5. /\ n + 1 \in 1..Len(r) /\ r[n + 1] = to
      /\ \A k \in 1..Len(r) : ~(n + 1 < k)
  BY <1>1
<1>6. Tells(r, to)
  BY <1>1, <1>4, <1>5 DEF Tells
<1> QED BY <1>2, <1>6 DEF r

\* A progress report, early or late, is no part of the story.
LEMMA TellsProgress ==
  ASSUME NEW events \in Seq(EventTypes), NEW s, s # "new", Tells(events, s)
  PROVE  /\ Append(events, "progress") \in Seq(EventTypes)
         /\ Tells(Append(events, "progress"), s)
<1> DEFINE r == Append(events, "progress")
           n == Len(events)
<1>1. /\ n \in Nat /\ Len(r) = n + 1 /\ r[n + 1] = "progress" /\ r # <<>>
      /\ \A i \in 1..n : r[i] = events[i]
  OBVIOUS
<1>2. r \in Seq(EventTypes)
  BY DEF EventTypes
<1> HIDE DEF r
<1>3. PICK i \in 1..n : events[i] = s /\ \A k \in 1..n : i < k => events[k] = "progress"
  BY DEF Tells
<1>4. \A k \in 1..Len(r) : i < k => r[k] = "progress"
  BY <1>1, <1>3
<1>5. i \in 1..Len(r) /\ r[i] = s
  BY <1>1, <1>3
<1>6. \A k, m \in 1..Len(r) : r[k] \in Terminal /\ k < m => r[m] = "progress"
  BY <1>1 DEF Tells
<1>7. Tells(r, s)
  BY <1>1, <1>4, <1>5, <1>6 DEF Tells
<1> QED BY <1>2, <1>7 DEF r

\* A job that has not ended moves on: the records keep their types and stories.
LEMMA TransitionKeeps ==
  ASSUME JobInv, NEW j \in Jobs, NEW to \in Statuses \ {"new"}, status[j] \notin Terminal,
         Transition(j, to)
  PROVE  /\ status' \in [Jobs -> Statuses] /\ log' \in [Jobs -> Seq(EventTypes)]
         /\ EventsMatchStatus'
         /\ status'[j] = to /\ \A k \in Jobs : k # j => status'[k] = status[k]
<1>1. status \in [Jobs -> Statuses] /\ log \in [Jobs -> Seq(EventTypes)]
  BY DEF JobInv, JobsTypeOK
<1>2. status' = [status EXCEPT ![j] = to] /\ log' = [log EXCEPT ![j] = Append(log[j], to)]
  BY DEF Transition
<1>3. Append(log[j], to) \in Seq(EventTypes) /\ Tells(Append(log[j], to), to)
  <2>1. status[j] \in Statuses \ Terminal /\ log[j] \in Seq(EventTypes) /\ Tells(log[j], status[j])
    BY <1>1 DEF JobInv, EventsMatchStatus
  <2> QED BY <2>1, TellsTransition
<1>4. status' \in [Jobs -> Statuses] /\ log' \in [Jobs -> Seq(EventTypes)]
  BY <1>1, <1>2, <1>3
<1>5. ASSUME NEW k \in Jobs PROVE Tells(log'[k], status'[k])
  <2>1. CASE k = j
    BY <1>1, <1>2, <1>3, <2>1
  <2>2. CASE k # j
    <3>1. log'[k] = log[k] /\ status'[k] = status[k]
      BY <1>1, <1>2, <2>2
    <3> QED BY <3>1 DEF JobInv, EventsMatchStatus
  <2> QED BY <2>1, <2>2
<1> QED BY <1>1, <1>2, <1>4, <1>5 DEF EventsMatchStatus

-----------------------------------------------------------------------------
(* What the orchestrator's steps do to the runner, the cancels and the     *)
(* slot.                                                                   *)

\* The cancels and the runner's target are left alone.
Bystander == target'[Runner] = target[Runner] /\ \A c \in Cancellers : call'[c] = call[c]

\* A step of a stream, of the idle timer or of the environment: the runner does
\* not notice, and if it is using the plane nobody takes it away.
LEMMA Elsewhere ==
  ASSUME CoreInv,
         \/ \E s \in Streams : SessionStep(s) \/ Request(s, ReasonId) \/ Disconnect(s)
         \/ IdleFires \/ IdleSkips \/ IdleRuns \/ EvictStep(IdleTask)
         \/ \E p \in Planes : PlaneCrashes(p) \/ Drains(p)
         \/ \E x \in strays : StrayReturns(x)
  PROVE  Bystander /\ phase'[Runner] = phase[Runner] /\ (phase[Runner] = "use" => slot' = slot)
<1> USE CoreFacts
<1>s. \A s \in Streams : s \in Sessions /\ s # Runner
  BY OrchestratorAssumption DEF Sessions
<1>c. IdleTask # Runner
  BY OrchestratorAssumption
<1>1. ASSUME NEW s \in Streams, SessionStep(s)
      PROVE  Bystander /\ phase'[Runner] = phase[Runner] /\ (phase[Runner] = "use" => slot' = slot)
  <2>0. s \in Sessions /\ s # Runner /\ s \in Tasks
    BY <1>s
  <2>r. phase[Runner] = "use" => lease = Runner
    BY DEF CoreInv, LeaseInv
  <2>1. CASE LeaseGranted(s)
    BY <2>0, <2>1 DEF LeaseGranted, Bystander
  <2>2. CASE AcquireHit(s) \/ AcquireSwap(s) \/ AcquireCold(s)
    BY <2>0, <2>2 DEF AcquireHit, AcquireSwap, AcquireCold, EnterAcquire, clients, Bystander
  <2>3. CASE \/ SwapStops(s) \/ GatePasses(s) \/ StartReturns(s) \/ ProbeGivesUp(s) \/ UndoStops(s)
    BY <2>0, <2>3
    DEF SwapStops, GatePasses, StartReturns, ProbeGivesUp, UndoStops, ThreadStops, clients, Bystander
  <2>4. CASE SwapEvicted(s) \/ ProbeReady(s)
    <3>1. call[s] \in Inside
      BY <2>4 DEF SwapEvicted, ProbeReady, Inside, CallStates
    <3>2. phase[Runner] # "use"
      BY <2>0, <2>r, <3>1
    <3> QED BY <2>0, <2>4, <3>2 DEF SwapEvicted, ProbeReady, clients, Bystander
  <2>5. CASE AcquireRaises(s)
    BY <2>0, <2>5 DEF AcquireRaises, Bystander
  <2>6. CASE UseEnds(s)
    BY <2>0, <2>6 DEF UseEnds, Leave, Bystander
  <2> QED BY <1>1, <2>1, <2>2, <2>3, <2>4, <2>5, <2>6 DEF SessionStep
<1>2. ASSUME NEW s \in Streams, Request(s, ReasonId) \/ Disconnect(s)
      PROVE  Bystander /\ phase'[Runner] = phase[Runner] /\ slot' = slot
  <2>0. s \in Sessions /\ s # Runner /\ s \in Tasks
    BY <1>s
  <2> QED BY <1>2, <2>0 DEF Request, Disconnect, manager, Bystander
<1>3. ASSUME IdleFires \/ IdleSkips \/ IdleRuns
      PROVE  Bystander /\ phase'[Runner] = phase[Runner] /\ slot' = slot
  BY <1>3 DEF IdleFires, IdleSkips, IdleRuns, clients, Bystander
<1>4. ASSUME EvictStep(IdleTask)
      PROVE  Bystander /\ phase'[Runner] = phase[Runner] /\ (phase[Runner] = "use" => slot' = slot)
  <2>1. CASE EvictAllStarts(IdleTask) \/ EvictAllStops(IdleTask)
    BY <2>1 DEF EvictAllStarts, EvictAllStops, ThreadStops, clients, Bystander
  <2>2. CASE EvictAllDone(IdleTask) \/ EvictAllEmpty(IdleTask)
    <3>1. call[IdleTask] # "out"
      BY <2>2, HeadFacts DEF EvictAllDone, EvictAllEmpty
    <3>2. phase[Runner] # "use"
      BY <3>1 DEF CoreInv, ServedInv
    <3> QED BY <2>2, <3>2, <1>c DEF EvictAllDone, EvictAllEmpty, EvictAllReturns, Bystander
  <2> QED BY <1>4, <2>1, <2>2 DEF EvictStep
<1>5. ASSUME \/ \E p \in Planes : PlaneCrashes(p) \/ Drains(p)
             \/ \E x \in strays : StrayReturns(x)
      PROVE  Bystander /\ phase'[Runner] = phase[Runner] /\ slot' = slot
  BY <1>5 DEF PlaneCrashes, Drains, StrayReturns, clients, manager, Bystander
<1> QED BY <1>1, <1>2, <1>3, <1>4, <1>5

\* The runner on its way through acquire or evict_all.
LEMMA RunnerProceeds ==
  ASSUME CoreInv, Proceeds
  PROVE  /\ Bystander
         /\ \/ phase[Runner] \in {"lease", "acquire"} /\ phase'[Runner] = "acquire"
            \/ phase[Runner] = "cleanup" /\ phase'[Runner] = "cleanup"
<1> USE CoreFacts
<1>r. \A c \in Cancellers : c # Runner /\ c # IdleTask
  OBVIOUS
<1>1. CASE LeaseGranted(Runner)
  BY <1>1 DEF LeaseGranted, Bystander
<1>2. CASE AcquireSwap(Runner) \/ AcquireCold(Runner)
  BY <1>2, <1>r DEF AcquireSwap, AcquireCold, EnterAcquire, clients, Bystander
<1>3. CASE \/ SwapStops(Runner) \/ SwapEvicted(Runner) \/ GatePasses(Runner) \/ StartReturns(Runner)
           \/ ProbeGivesUp(Runner) \/ UndoStops(Runner)
  <2>1. call[Runner] \in Acquiring /\ phase' = phase /\ Bystander
    BY <1>3, <1>r
    DEF SwapStops, SwapEvicted, GatePasses, StartReturns, ProbeGivesUp, UndoStops, ThreadStops,
        clients, Bystander, Acquiring, Inside, CallStates
  <2>2. phase[Runner] = "acquire"
    BY <2>1 DEF CoreInv, SessionInv
  <2> QED BY <2>1, <2>2
<1>4. CASE EvictAllStarts(Runner)
  <2>1. phase[Runner] = "cleanup"
    BY <1>4, OrchestratorAssumption DEF EvictAllStarts, Evictor, Sessions
  <2> QED BY <1>4, <2>1, <1>r DEF EvictAllStarts, clients, Bystander
<1>5. CASE EvictAllStops(Runner)
  <2>1. call[Runner] = "clearing" /\ phase' = phase /\ Bystander
    BY <1>5, <1>r DEF EvictAllStops, ThreadStops, clients, Bystander
  <2>2. phase[Runner] \in {"acquire", "cleanup"}
    BY <2>1 DEF CoreInv, SessionInv, Phases
  <2> QED BY <2>1, <2>2
<1> QED BY <1>1, <1>2, <1>3, <1>4, <1>5 DEF Proceeds

\* acquire returns to the runner with its identity in the slot and no cancel
\* under way.
LEMMA RunnerAcquires ==
  ASSUME CoreInv, AcquireHit(Runner) \/ ProbeReady(Runner)
  PROVE  /\ Bystander /\ phase[Runner] = "acquire" /\ phase'[Runner] = "use"
         /\ slot' = target[Runner] /\ \A c \in Cancellers : call[c] = "out"
<1> USE CoreFacts
<1>1. CASE AcquireHit(Runner)
  <2>1. EnterAcquire(Runner, "out") /\ phase[Runner] = "acquire" /\ target[Runner] \in Wanted(Runner)
    BY <1>1 DEF AcquireHit, EnterAcquire, CoreInv, SessionInv
  <2>2. slot = target[Runner]
    BY <1>1, <2>1, ResidencyAssumption DEF AcquireHit, PlanAcquire, Wanted
  <2>3. \A c \in Cancellers : call[c] = "out"
    BY <2>1, GrantFacts
  <2> QED BY <1>1, <2>1, <2>2, <2>3 DEF AcquireHit, EnterAcquire, Bystander
<1>2. CASE ProbeReady(Runner)
  <2>1. call[Runner] \in Acquiring
    BY <1>2 DEF ProbeReady, Acquiring, Inside, CallStates
  <2>2. phase[Runner] = "acquire"
    BY <2>1 DEF CoreInv, SessionInv
  <2>3. \A c \in Cancellers : call[c] = "out"
    BY <2>1, <2>2 DEF CoreInv, ServedInv
  <2> QED BY <1>2, <2>2, <2>3 DEF ProbeReady, Bystander
<1> QED BY <1>1, <1>2

\* The runner's acquire or its work raises.
LEMMA RunnerRaises ==
  ASSUME CoreInv, AcquireRaises(Runner) \/ WorkRaises
  PROVE  /\ Bystander /\ phase'[Runner] = "cleanup"
         /\ AcquireRaises(Runner) => phase[Runner] = "acquire"
         /\ WorkRaises => phase[Runner] = "use"
<1> USE CoreFacts
<1>1. CASE AcquireRaises(Runner)
  <2>1. phase[Runner] = "acquire"
    BY <1>1 DEF AcquireRaises, CoreInv, SessionInv, Acquiring, Inside, CallStates
  <2>2. Bystander /\ phase'[Runner] = "cleanup"
    BY <1>1 DEF AcquireRaises, Bystander
  <2>3. ~WorkRaises
    BY <2>1 DEF WorkRaises
  <2> QED BY <2>1, <2>2, <2>3
<1>2. CASE WorkRaises
  <2>1. phase[Runner] = "use"
    BY <1>2 DEF WorkRaises
  <2>2. Bystander /\ phase'[Runner] = "cleanup"
    BY <1>2 DEF WorkRaises, Bystander
  <2>3. ~AcquireRaises(Runner)
    BY <2>1 DEF AcquireRaises, CoreInv, SessionInv
  <2> QED BY <2>1, <2>2, <2>3
<1> QED BY <1>1, <1>2

\* The runner leaves.
LEMMA RunnerLeaves ==
  ASSUME CoreInv,
         \/ UseEnds(Runner) \/ AcquireRaisesCancelled
         \/ EvictAllDone(Runner) \/ EvictAllEmpty(Runner)
  PROVE  /\ Bystander /\ phase'[Runner] = "away"
         /\ UseEnds(Runner) => phase[Runner] = "use"
         /\ AcquireRaisesCancelled => phase[Runner] = "acquire"
         /\ EvictAllDone(Runner) \/ EvictAllEmpty(Runner) => phase[Runner] = "cleanup"
<1> USE CoreFacts
<1>1. ASSUME NEW q, Leave(Runner, q), target' = target PROVE Bystander /\ phase'[Runner] = "away"
  BY <1>1 DEF Leave, Bystander
<1>2. Bystander /\ phase'[Runner] = "away"
  BY <1>1 DEF UseEnds, AcquireRaisesCancelled, EvictAllDone, EvictAllEmpty, EvictAllReturns
<1>3. UseEnds(Runner) => phase[Runner] = "use"
  BY DEF UseEnds
<1>4. AcquireRaisesCancelled => phase[Runner] = "acquire"
  BY DEF AcquireRaisesCancelled, CoreInv, SessionInv, Acquiring, Inside, CallStates
<1>5. EvictAllEmpty(Runner) => phase[Runner] = "cleanup"
  BY OrchestratorAssumption DEF EvictAllEmpty, Evictor
<1>6. EvictAllDone(Runner) => phase[Runner] = "cleanup"
  BY DEF EvictAllDone, CoreInv, SessionInv
<1> QED BY <1>2, <1>3, <1>4, <1>5, <1>6

\* A cancel evicts the plane of the job that runs.
LEMMA CancelMoves ==
  ASSUME CoreInv, NEW c \in Cancellers
  PROVE  /\ EvictAllStarts(c) \/ EvictAllStops(c) =>
              /\ UNCHANGED <<phase, target, slot>>
              /\ call[c] # "out" /\ call'[c] # "out"
         /\ EvictAllDone(c) \/ EvictAllEmpty(c) =>
              /\ UNCHANGED <<phase, target>> /\ slot' = Cold
              /\ call[c] # "out" /\ call'[c] = "out"
         /\ CancelRunning(c) =>
              /\ UNCHANGED <<phase, target, slot>>
              /\ phase[Runner] = "use" /\ call[c] = "out" /\ call'[c] # "out"
         /\ EvictStep(c) \/ CancelRunning(c) => \A d \in Cancellers : d # c => call'[d] = call[d]
<1> USE CoreFacts
<1>r. c # Runner /\ c \in Tasks
  OBVIOUS
<1>1. EvictAllStarts(c) \/ EvictAllStops(c) =>
        /\ UNCHANGED <<phase, target, slot>>
        /\ call[c] # "out" /\ call'[c] # "out"
        /\ \A d \in Cancellers : d # c => call'[d] = call[d]
  BY <1>r, HeadFacts DEF EvictAllStarts, EvictAllStops, ThreadStops, clients
<1>2. EvictAllDone(c) \/ EvictAllEmpty(c) =>
        /\ UNCHANGED <<phase, target>> /\ slot' = Cold
        /\ call[c] # "out" /\ call'[c] = "out"
        /\ \A d \in Cancellers : d # c => call'[d] = call[d]
  BY <1>r, HeadFacts DEF EvictAllDone, EvictAllEmpty, EvictAllReturns
<1>3. CancelRunning(c) =>
        /\ UNCHANGED <<phase, target, slot>>
        /\ phase[Runner] = "use" /\ call[c] = "out" /\ call'[c] # "out"
        /\ \A d \in Cancellers : d # c => call'[d] = call[d]
  BY <1>r DEF CancelRunning, clients
<1> QED BY <1>1, <1>2, <1>3 DEF EvictStep

-----------------------------------------------------------------------------
(* Every step keeps the invariant of the jobs, whatever fails.             *)

\* The jobs before anything is submitted.
LEMMA JobsStart ==
  ASSUME CoreInv', status' = [j \in Jobs |-> "new"], log' = [j \in Jobs |-> <<>>],
         queue' = <<>>, cancelled' = {}, current' = NoJob, work' = "none",
         victim' = [c \in Cancellers |-> NoJob],
         phase'[Runner] = "away", \A c \in Cancellers : call'[c] = "out"
  PROVE  JobInv'
<1>1. JobsTypeOK'
  BY DEF JobsTypeOK, Statuses
<1>2. TurnInv' /\ VictimInv' /\ MarkedInv' /\ RunningInv'
  BY DEF TurnInv, VictimInv, MarkedInv, RunningInv
<1>3. BacklogInv'
  BY DEF BacklogInv, Distinct, In
<1>4. Tells(<<>>, "new")
  BY DEF Tells
<1>5. EventsMatchStatus'
  BY <1>4 DEF EventsMatchStatus
<1>6. RunningJobKeepsItsPlane' /\ CancelFreesTheSlot'
  BY DEF RunningJobKeepsItsPlane, CancelFreesTheSlot
<1> QED BY <1>1, <1>2, <1>3, <1>5, <1>6 DEF JobInv

\* A step in which no job moves and the runner and the cancels stay where they
\* are.
LEMMA JobsUnmoved ==
  ASSUME JobInv, UNCHANGED jobs, Bystander, phase'[Runner] = phase[Runner],
         phase[Runner] = "use" => slot' = slot
  PROVE  JobInv'
<1> USE DEF jobs, records, drain
<1>1. JobsTypeOK' /\ TurnInv'
  BY DEF JobInv, JobsTypeOK, TurnInv
<1>2. VictimInv'
  BY DEF JobInv, VictimInv, Bystander
<1>3. MarkedInv' /\ RunningInv' /\ BacklogInv'
  BY DEF JobInv, MarkedInv, RunningInv, BacklogInv
<1>4. EventsMatchStatus'
  BY DEF JobInv, EventsMatchStatus
<1>5. RunningJobKeepsItsPlane' /\ CancelFreesTheSlot'
  BY DEF JobInv, TurnInv, RunningJobKeepsItsPlane, CancelFreesTheSlot, Bystander
<1> QED BY <1>1, <1>2, <1>3, <1>4, <1>5 DEF JobInv

\* The types of the jobs' variables, ready for use.
LEMMA JobFacts ==
  ASSUME CoreInv, JobInv
  PROVE  /\ status \in [Jobs -> Statuses] /\ log \in [Jobs -> Seq(EventTypes)]
         /\ queue \in Seq(Jobs) /\ cancelled \subseteq Jobs /\ current \in Jobs \cup {NoJob}
         /\ work \in {"none", "working", "reporting"}
         /\ victim \in [Cancellers -> Jobs \cup {NoJob}]
         /\ NoJob \notin Jobs
         /\ phase[Runner] # "away" \/ work # "none" => current \in Jobs
         /\ phase[Runner] \in Phases
<1>1. phase[Runner] \in Phases
  BY CoreFacts
<1>2. phase[Runner] # "away" \/ work # "none" => current \in Jobs
  BY DEF JobInv, JobsTypeOK, TurnInv
<1> QED BY <1>1, <1>2, JobRunnerAssumption DEF JobInv, JobsTypeOK

\* A job is submitted.
LEMMA SubmitKeeps ==
  ASSUME CoreInv, JobInv, NEW j \in Jobs, Submit(j)
  PROVE  JobInv'
<1> USE JobFacts
<1>1. /\ status[j] = "new" /\ Transition(j, "queued") /\ queue' = Append(queue, j)
      /\ UNCHANGED <<cancelled, current, work, victim>>
      /\ UNCHANGED <<phase, target, call, slot>>
  BY DEF Submit, vars, clients, manager
<1>2. /\ status' \in [Jobs -> Statuses] /\ log' \in [Jobs -> Seq(EventTypes)] /\ EventsMatchStatus'
      /\ status'[j] = "queued" /\ \A k \in Jobs : k # j => status'[k] = status[k]
  BY <1>1, TransitionKeeps DEF Statuses, Terminal
<1>3. j # current /\ j \notin cancelled /\ ~In(queue, j) /\ \A c \in Cancellers : victim[c] # j
  <2>1. j # current
    BY <1>1 DEF JobInv, TurnInv, Phases
  <2>2. j \notin cancelled
    BY <1>1 DEF JobInv, MarkedInv
  <2>3. ~In(queue, j)
    BY <1>1 DEF JobInv, BacklogInv
  <2>4. \A c \in Cancellers : victim[c] # j
    BY <1>1 DEF JobInv, VictimInv
  <2> QED BY <2>1, <2>2, <2>3, <2>4
<1>4. queue' \in Seq(Jobs) /\ Distinct(queue') /\ \A a : In(queue', a) <=> In(queue, a) \/ a = j
  BY <1>1, <1>3, AppendQueue DEF JobInv, BacklogInv
<1>5. JobsTypeOK'
  BY <1>1, <1>2, <1>4 DEF JobInv, JobsTypeOK
<1>6. TurnInv'
  BY <1>1, <1>2, <1>3 DEF JobInv, TurnInv
<1>7. VictimInv'
  BY <1>1, <1>2, <1>3 DEF JobInv, VictimInv
<1>8. MarkedInv' /\ RunningInv'
  BY <1>1, <1>2, <1>3 DEF JobInv, MarkedInv, RunningInv
<1>9. BacklogInv'
  BY <1>1, <1>2, <1>3, <1>4 DEF JobInv, BacklogInv
<1>10. RunningJobKeepsItsPlane' /\ CancelFreesTheSlot'
  BY <1>1, <1>2, <1>3 DEF JobInv, RunningJobKeepsItsPlane, CancelFreesTheSlot
<1> QED BY <1>2, <1>5, <1>6, <1>7, <1>8, <1>9, <1>10 DEF JobInv

\* The drain loop takes the head of the queue, or drops it.
LEMMA DequeueKeeps ==
  ASSUME CoreInv, JobInv, DequeueDrops \/ DequeueTakes
  PROVE  JobInv'
<1> USE JobFacts
<1> DEFINE h == Head(queue)
<1>1. /\ current = NoJob /\ queue # <<>> /\ queue' = Tail(queue)
      /\ UNCHANGED <<status, log, work, victim>>
  BY DEF DequeueDrops, DequeueTakes, Idling, records
<1>2. /\ h \in Jobs /\ In(queue, h) /\ queue' \in Seq(Jobs) /\ Distinct(queue')
      /\ \A a : In(queue', a) <=> In(queue, a) /\ a # h
  <2>1. Distinct(queue)
    BY DEF JobInv, BacklogInv
  <2> QED BY <1>1, <2>1, TailQueue
<1> HIDE DEF h
<1>3. phase[Runner] = "away" /\ work = "none"
  BY <1>1 DEF JobInv, TurnInv
<1>4. EventsMatchStatus'
  BY <1>1 DEF JobInv, EventsMatchStatus
<1>5. CASE DequeueDrops
  <2>1. /\ current' = NoJob /\ cancelled' = cancelled \ {h}
        /\ UNCHANGED <<phase, target, call, slot>>
    BY <1>1, <1>5 DEF DequeueDrops, vars, clients, manager, h
  <2>2. ~Runnable(h)
    BY <1>5 DEF DequeueDrops, h
  <2>3. status[h] # "queued"
    BY <1>2, <2>2 DEF JobInv, BacklogInv, MarkedInv, Runnable
  <2>4. JobsTypeOK' /\ TurnInv' /\ VictimInv' /\ MarkedInv'
    BY <1>1, <1>2, <1>3, <2>1 DEF JobInv, JobsTypeOK, TurnInv, VictimInv, MarkedInv
  <2>5. BacklogInv'
    <3>1. ~In(queue', current')
      BY <1>1, <1>2, <2>1 DEF JobInv, BacklogInv
    <3>2. \A j \in Jobs : In(queue', j) =>
            status'[j] = "queued" \/ (j \in cancelled' /\ status'[j] = "cancelled")
      BY <1>1, <1>2, <2>1 DEF JobInv, BacklogInv
    <3>3. \A j \in Jobs : status'[j] = "queued" => j = current' \/ In(queue', j)
      BY <1>1, <1>2, <2>1, <2>3 DEF JobInv, BacklogInv
    <3> QED BY <1>2, <3>1, <3>2, <3>3 DEF BacklogInv
  <2>6. RunningInv'
    BY <1>1, <2>1 DEF JobInv, RunningInv
  <2>7. RunningJobKeepsItsPlane' /\ CancelFreesTheSlot'
    BY <1>1, <1>3 DEF RunningJobKeepsItsPlane, CancelFreesTheSlot
  <2> QED BY <1>4, <2>4, <2>5, <2>6, <2>7 DEF JobInv
<1>6. CASE DequeueTakes
  <2>1. /\ current' = h /\ cancelled' = cancelled /\ Runnable(h)
        /\ phase'[Runner] = "lease" /\ UNCHANGED <<call, slot>>
    BY <1>6, CoreFacts DEF DequeueTakes, Request, manager, h
  <2>2. h \notin cancelled /\ status[h] = "queued"
    BY <2>1 DEF Runnable
  <2>3. JobsTypeOK' /\ VictimInv' /\ MarkedInv'
    BY <1>1, <1>2, <1>3, <2>1 DEF JobInv, JobsTypeOK, VictimInv, MarkedInv
  <2>4. TurnInv'
    BY <1>1, <1>2, <1>3, <2>1, <2>2 DEF TurnInv
  <2>5. BacklogInv'
    <3>1. ~In(queue', current')
      BY <1>2, <2>1
    <3>2. \A j \in Jobs : In(queue', j) =>
            status'[j] = "queued" \/ (j \in cancelled' /\ status'[j] = "cancelled")
      BY <1>1, <1>2, <2>1 DEF JobInv, BacklogInv
    <3>3. \A j \in Jobs : status'[j] = "queued" => j = current' \/ In(queue', j)
      BY <1>1, <1>2, <2>1 DEF JobInv, BacklogInv
    <3> QED BY <1>2, <3>1, <3>2, <3>3 DEF BacklogInv
  <2>6. RunningInv'
    BY <1>1, <2>1 DEF JobInv, RunningInv
  <2>7. RunningJobKeepsItsPlane' /\ CancelFreesTheSlot'
    BY <1>1, <1>3 DEF RunningJobKeepsItsPlane, CancelFreesTheSlot
  <2> QED BY <1>4, <2>3, <2>4, <2>5, <2>6, <2>7 DEF JobInv
<1> QED BY <1>5, <1>6

\* The runner moves on without its job.
LEMMA ProceedsKeeps ==
  ASSUME CoreInv, JobInv, Proceeds
  PROVE  JobInv'
<1> USE JobFacts
<1>1. UNCHANGED jobs
  BY DEF Proceeds
<1> USE <1>1 DEF jobs, records, drain
<1>2. /\ Bystander
      /\ \/ phase[Runner] \in {"lease", "acquire"} /\ phase'[Runner] = "acquire"
         \/ phase[Runner] = "cleanup" /\ phase'[Runner] = "cleanup"
  BY RunnerProceeds
<1>3. work = "none"
  BY <1>2 DEF JobInv, TurnInv
<1>4. JobsTypeOK' /\ MarkedInv' /\ BacklogInv' /\ RunningInv'
  BY DEF JobInv, JobsTypeOK, MarkedInv, BacklogInv, RunningInv
<1>5. TurnInv'
  BY <1>2, <1>3 DEF JobInv, TurnInv
<1>6. VictimInv'
  BY <1>2, <1>3 DEF JobInv, VictimInv, Bystander
<1>7. EventsMatchStatus'
  BY DEF JobInv, EventsMatchStatus
<1>8. RunningJobKeepsItsPlane' /\ CancelFreesTheSlot'
  BY <1>3 DEF RunningJobKeepsItsPlane, CancelFreesTheSlot
<1> QED BY <1>4, <1>5, <1>6, <1>7, <1>8 DEF JobInv

\* acquire returns to the runner: the job starts unless it was cancelled.
LEMMA AcquiredKeeps ==
  ASSUME CoreInv, JobInv, Acquired
  PROVE  JobInv'
<1> USE JobFacts
<1>1. /\ Bystander /\ phase[Runner] = "acquire" /\ phase'[Runner] = "use"
      /\ slot' = target[Runner] /\ \A c \in Cancellers : call[c] = "out"
  BY RunnerAcquires DEF Acquired
<1>2. UNCHANGED <<queue, cancelled, current, victim>>
  BY DEF Acquired, drain
<1>3. work = "none" /\ current \in Jobs
  BY <1>1 DEF JobInv, TurnInv
<1>4. \A c \in Cancellers : victim[c] = NoJob /\ call'[c] = "out"
  BY <1>1 DEF JobInv, VictimInv, Bystander
<1>5. CASE current \in cancelled
  <2>1. UNCHANGED <<status, log, work>> /\ status[current] = "cancelled"
    BY <1>1, <1>5 DEF Acquired, records, JobInv, TurnInv
  <2>2. JobsTypeOK' /\ MarkedInv' /\ BacklogInv' /\ RunningInv'
    BY <1>2, <2>1 DEF JobInv, JobsTypeOK, MarkedInv, BacklogInv, RunningInv
  <2>3. TurnInv'
    BY <1>1, <1>2, <1>3, <1>5, <2>1 DEF TurnInv
  <2>4. VictimInv'
    BY <1>2, <1>4 DEF VictimInv
  <2>5. EventsMatchStatus'
    BY <2>1 DEF JobInv, EventsMatchStatus
  <2>6. RunningJobKeepsItsPlane' /\ CancelFreesTheSlot'
    BY <1>3, <2>1 DEF RunningJobKeepsItsPlane, CancelFreesTheSlot
  <2> QED BY <2>2, <2>3, <2>4, <2>5, <2>6 DEF JobInv
<1>6. CASE current \notin cancelled
  <2>1. Transition(current, "running") /\ work' = "working" /\ status[current] = "queued"
    BY <1>1, <1>6 DEF Acquired, JobInv, TurnInv
  <2>2. /\ status' \in [Jobs -> Statuses] /\ log' \in [Jobs -> Seq(EventTypes)] /\ EventsMatchStatus'
        /\ status'[current] = "running" /\ \A k \in Jobs : k # current => status'[k] = status[k]
    BY <1>3, <2>1, TransitionKeeps DEF Statuses, Terminal
  <2>3. JobsTypeOK' /\ MarkedInv' /\ RunningInv'
    BY <1>2, <1>6, <2>1, <2>2 DEF JobInv, JobsTypeOK, MarkedInv, RunningInv
  <2>4. BacklogInv'
    BY <1>2, <2>2 DEF JobInv, BacklogInv
  <2>5. TurnInv'
    BY <1>1, <1>2, <1>3, <2>1, <2>2 DEF TurnInv
  <2>6. VictimInv'
    BY <1>2, <1>4 DEF VictimInv
  <2>7. RunningJobKeepsItsPlane' /\ CancelFreesTheSlot'
    BY <1>1, <1>2, <2>2 DEF RunningJobKeepsItsPlane, CancelFreesTheSlot, Bystander
  <2> QED BY <2>2, <2>3, <2>4, <2>5, <2>6, <2>7 DEF JobInv
<1> QED BY <1>5, <1>6

\* The job fails: it was not cancelled, so no cancel of it is under way.
LEMMA FailsKeeps ==
  ASSUME CoreInv, JobInv, Fails
  PROVE  JobInv'
<1> USE JobFacts
<1>1. /\ current \notin cancelled /\ Transition(current, "failed") /\ work' = "none"
      /\ UNCHANGED <<queue, cancelled, current, victim>>
  BY DEF Fails, drain
<1>2. /\ Bystander /\ phase'[Runner] = "cleanup"
      /\ phase[Runner] = "acquire" \/ (phase[Runner] = "use" /\ work # "none")
  BY RunnerRaises DEF Fails
<1>3. current \in Jobs /\ status[current] \in {"queued", "running"}
  BY <1>1, <1>2 DEF JobInv, TurnInv
<1>4. /\ status' \in [Jobs -> Statuses] /\ log' \in [Jobs -> Seq(EventTypes)] /\ EventsMatchStatus'
      /\ status'[current] = "failed" /\ \A k \in Jobs : k # current => status'[k] = status[k]
  BY <1>1, <1>3, TransitionKeeps DEF Statuses, Terminal
<1>5. \A c \in Cancellers : victim[c] # current
  BY <1>1, <1>2, <1>3 DEF JobInv, VictimInv, TurnInv
<1>6. JobsTypeOK' /\ MarkedInv' /\ RunningInv'
  BY <1>1, <1>4 DEF JobInv, JobsTypeOK, MarkedInv, RunningInv
<1>7. TurnInv'
  BY <1>1, <1>2, <1>3, <1>4 DEF TurnInv
<1>8. VictimInv'
  <2>1. \A c \in Cancellers : victim[c] # NoJob =>
          /\ status'[victim[c]] = status[victim[c]]
          /\ status[victim[c]] \in {"running", "cancelled"}
    BY <1>4, <1>5 DEF JobInv, VictimInv
  <2>2. \A c \in Cancellers : call'[c] = "out" <=> victim[c] = NoJob
    BY <1>2 DEF JobInv, VictimInv, Bystander
  <2> QED BY <1>1, <2>1, <2>2 DEF VictimInv
<1>9. BacklogInv'
  BY <1>1, <1>4 DEF JobInv, BacklogInv
<1>10. RunningJobKeepsItsPlane' /\ CancelFreesTheSlot'
  BY <1>1 DEF RunningJobKeepsItsPlane, CancelFreesTheSlot
<1> QED BY <1>4, <1>6, <1>7, <1>8, <1>9, <1>10 DEF JobInv

\* The runner is done with a job that has ended, or whose cancel will end it.
LEMMA FinishKeeps ==
  ASSUME CoreInv, JobInv, Finish, Bystander, phase[Runner] # "away", phase'[Runner] = "away",
         status' \in [Jobs -> Statuses], log' \in [Jobs -> Seq(EventTypes)], EventsMatchStatus',
         \A k \in Jobs : k # current => status'[k] = status[k],
         status'[current] \notin {"new", "queued"},
         status'[current] = "running" => current \in cancelled /\ status[current] = "running",
         \A c \in Cancellers : victim[c] = current => status'[current] \in {"running", "cancelled"}
  PROVE  JobInv'
<1> USE JobFacts
<1>1. /\ cancelled' = cancelled \ {current} /\ current' = NoJob /\ work' = "none"
      /\ UNCHANGED <<queue, victim>>
  BY DEF Finish
<1>2. current \in Jobs
  OBVIOUS
<1>3. JobsTypeOK' /\ TurnInv' /\ MarkedInv'
  BY <1>1, <1>2 DEF JobInv, JobsTypeOK, TurnInv, MarkedInv
<1>4. VictimInv'
  <2>1. \A c \in Cancellers : victim[c] # NoJob => status'[victim[c]] \in {"running", "cancelled"}
    <3> SUFFICES ASSUME NEW c \in Cancellers, victim[c] # NoJob
                 PROVE  status'[victim[c]] \in {"running", "cancelled"}
      OBVIOUS
    <3>1. victim[c] \in Jobs /\ status[victim[c]] \in {"running", "cancelled"}
      BY DEF JobInv, VictimInv
    <3>2. CASE victim[c] = current
      BY <3>2
    <3>3. CASE victim[c] # current
      BY <3>1, <3>3
    <3> QED BY <3>2, <3>3
  <2>2. \A c \in Cancellers : call'[c] = "out" <=> victim[c] = NoJob
    <3>1. \A c \in Cancellers : call[c] = "out" <=> victim[c] = NoJob
      BY DEF JobInv, VictimInv
    <3> QED BY <3>1 DEF Bystander
  <2> QED BY <1>1, <2>1, <2>2 DEF VictimInv
<1>5. BacklogInv'
  <2>1. ~In(queue', current')
    BY <1>1 DEF In
  <2>2. \A j \in Jobs : In(queue', j) =>
          status'[j] = "queued" \/ (j \in cancelled' /\ status'[j] = "cancelled")
    BY <1>1 DEF JobInv, BacklogInv
  <2>3. \A j \in Jobs : status'[j] = "queued" => j = current' \/ In(queue', j)
    BY <1>1 DEF JobInv, BacklogInv
  <2> QED BY <1>1, <2>1, <2>2, <2>3 DEF JobInv, BacklogInv
<1>6. RunningInv'
  BY <1>1, <1>2 DEF JobInv, RunningInv
<1>7. RunningJobKeepsItsPlane' /\ CancelFreesTheSlot'
  BY <1>1 DEF RunningJobKeepsItsPlane, CancelFreesTheSlot
<1> QED BY <1>3, <1>4, <1>5, <1>6, <1>7 DEF JobInv

\* The three ways to the runner's finally block.
LEMMA EndsKeep ==
  ASSUME CoreInv, JobInv, CleanedUp \/ Succeeds \/ Abandons
  PROVE  JobInv'
<1> USE JobFacts
<1>1. CASE CleanedUp \/ Abandons
  <2>1. Finish /\ UNCHANGED <<status, log>>
    BY <1>1 DEF CleanedUp, Abandons, records
  <2>2. /\ Bystander /\ phase'[Runner] = "away" /\ phase[Runner] # "away"
        /\ CleanedUp => phase[Runner] = "cleanup"
        /\ ~CleanedUp => phase[Runner] \in {"use", "acquire"} /\ current \in cancelled
    BY <1>1, RunnerLeaves DEF CleanedUp, Abandons
  <2>3. /\ status[current] \notin {"new", "queued"}
        /\ status[current] = "running" => current \in cancelled
    BY <2>2 DEF JobInv, TurnInv
  <2>4. \A c \in Cancellers : victim[c] = current => status[current] \in {"running", "cancelled"}
    <3>1. current # NoJob
      BY <2>2
    <3> QED BY <3>1 DEF JobInv, VictimInv
  <2>5. EventsMatchStatus'
    BY <2>1 DEF JobInv, EventsMatchStatus
  <2> QED BY <2>1, <2>2, <2>3, <2>4, <2>5, FinishKeeps
<1>2. CASE Succeeds
  <2>1. work = "working" /\ current \notin cancelled /\ Transition(current, "succeeded") /\ Finish
    BY <1>2 DEF Succeeds
  <2>2. Bystander /\ phase'[Runner] = "away" /\ phase[Runner] = "use"
    BY <1>2, RunnerLeaves DEF Succeeds
  <2>3. current \in Jobs /\ status[current] = "running"
    BY <2>1, <2>2 DEF JobInv, TurnInv
  <2>4. /\ status' \in [Jobs -> Statuses] /\ log' \in [Jobs -> Seq(EventTypes)] /\ EventsMatchStatus'
        /\ status'[current] = "succeeded" /\ \A k \in Jobs : k # current => status'[k] = status[k]
    BY <2>1, <2>3, TransitionKeeps DEF Statuses, Terminal
  <2>5. \A c \in Cancellers : victim[c] # current
    BY <2>1, <2>3 DEF JobInv, VictimInv
  <2> QED BY <2>1, <2>2, <2>4, <2>5, FinishKeeps
<1> QED BY <1>1, <1>2

\* A progress report, in two steps.
LEMMA ReportKeeps ==
  ASSUME CoreInv, JobInv, ThreadStep
  PROVE  JobInv'
<1> USE JobFacts
<1>1. /\ work # "none" /\ work' \in {"working", "reporting"}
      /\ UNCHANGED <<status, queue, cancelled, current, victim>>
      /\ UNCHANGED <<phase, target, call, slot>>
  BY DEF ThreadStep, ReportUpdates, ReportAppends, records, drain, vars, clients, manager
<1>2. current \in Jobs /\ status[current] # "new"
  BY <1>1 DEF JobInv, TurnInv
<1>3. log' \in [Jobs -> Seq(EventTypes)] /\ EventsMatchStatus'
  <2>1. CASE ReportUpdates
    BY <1>1, <2>1 DEF ReportUpdates, records, JobInv, EventsMatchStatus
  <2>2. CASE ReportAppends
    <3>1. log' = [log EXCEPT ![current] = Append(log[current], "progress")]
      BY <2>2 DEF ReportAppends
    <3>2. /\ Append(log[current], "progress") \in Seq(EventTypes)
          /\ Tells(Append(log[current], "progress"), status[current])
      BY <1>2, TellsProgress DEF JobInv, EventsMatchStatus
    <3>3. ASSUME NEW k \in Jobs PROVE Tells(log'[k], status'[k])
      <4>1. CASE k = current
        BY <1>1, <1>2, <3>1, <3>2, <4>1
      <4>2. CASE k # current
        <5>1. log'[k] = log[k] /\ status'[k] = status[k]
          BY <1>1, <3>1, <4>2
        <5> QED BY <5>1 DEF JobInv, EventsMatchStatus
      <4> QED BY <4>1, <4>2
    <3>4. log' \in [Jobs -> Seq(EventTypes)]
      BY <3>1, <3>2
    <3> QED BY <3>3, <3>4 DEF EventsMatchStatus
  <2> QED BY <2>1, <2>2 DEF ThreadStep
<1>4. JobsTypeOK' /\ MarkedInv' /\ BacklogInv' /\ RunningInv'
  BY <1>1, <1>3 DEF JobInv, JobsTypeOK, MarkedInv, BacklogInv, RunningInv
<1>5. TurnInv' /\ VictimInv'
  BY <1>1 DEF JobInv, TurnInv, VictimInv
<1>6. RunningJobKeepsItsPlane' /\ CancelFreesTheSlot'
  BY <1>1 DEF JobInv, RunningJobKeepsItsPlane, CancelFreesTheSlot
<1> QED BY <1>3, <1>4, <1>5, <1>6 DEF JobInv

\* A cancel of a job that is not being worked on.
LEMMA CancelAtOnceKeeps ==
  ASSUME CoreInv, JobInv, NEW j \in Jobs, CancelAtOnce(j)
  PROVE  JobInv'
<1> USE JobFacts
<1>1. /\ status[j] \in {"queued", "running"} /\ Transition(j, "cancelled")
      /\ cancelled' = cancelled \cup {j}
      /\ UNCHANGED <<queue, current, work, victim>>
      /\ UNCHANGED <<phase, target, call, slot>>
  BY DEF CancelAtOnce, Mark, vars, clients, manager
<1>2. /\ status' \in [Jobs -> Statuses] /\ log' \in [Jobs -> Seq(EventTypes)] /\ EventsMatchStatus'
      /\ status'[j] = "cancelled" /\ \A k \in Jobs : k # j => status'[k] = status[k]
  BY <1>1, TransitionKeeps DEF Statuses, Terminal
<1>3. j = current => work = "none" /\ phase[Runner] \in {"lease", "acquire"}
  <2>1. j = current => status[j] = "queued"
    BY <1>1 DEF CancelAtOnce, Evictable
  <2> QED BY <1>1, <2>1 DEF JobInv, TurnInv, Phases
<1>4. JobsTypeOK' /\ MarkedInv' /\ RunningInv'
  BY <1>1, <1>2 DEF JobInv, JobsTypeOK, MarkedInv, RunningInv
<1>5. TurnInv'
  BY <1>1, <1>2, <1>3 DEF JobInv, TurnInv
<1>6. VictimInv'
  BY <1>1, <1>2 DEF JobInv, VictimInv
<1>7. BacklogInv'
  BY <1>1, <1>2 DEF JobInv, BacklogInv
<1>8. RunningJobKeepsItsPlane' /\ CancelFreesTheSlot'
  BY <1>1, <1>2, <1>3 DEF JobInv, RunningJobKeepsItsPlane, CancelFreesTheSlot
<1> QED BY <1>2, <1>4, <1>5, <1>6, <1>7, <1>8 DEF JobInv

\* A cancel of the job that is being worked on: its id is marked first.
LEMMA CancelEvictsKeeps ==
  ASSUME CoreInv, JobInv, NEW c \in Cancellers, NEW j \in Jobs, CancelEvicts(c, j)
  PROVE  JobInv'
<1> USE JobFacts
<1>1. /\ status[j] = "running" /\ current = j /\ cancelled' = cancelled \cup {j}
      /\ victim' = [victim EXCEPT ![c] = j] /\ CancelRunning(c)
      /\ UNCHANGED <<status, log, queue, current, work>>
  BY DEF CancelEvicts, Evictable, Mark, records
<1>2. /\ UNCHANGED <<phase, target, slot>> /\ phase[Runner] = "use"
      /\ call[c] = "out" /\ call'[c] # "out"
      /\ \A d \in Cancellers : d # c => call'[d] = call[d]
  BY <1>1, CancelMoves
<1>3. JobsTypeOK' /\ MarkedInv' /\ BacklogInv'
  BY <1>1 DEF JobInv, JobsTypeOK, MarkedInv, BacklogInv
<1>4. TurnInv'
  BY <1>1, <1>2 DEF JobInv, TurnInv
<1>5. VictimInv'
  BY <1>1, <1>2 DEF JobInv, VictimInv
<1>6. RunningInv'
  <2> SUFFICES ASSUME NEW k \in Jobs, status[k] = "running" PROVE \E d \in Cancellers : victim'[d] = k
    BY <1>1 DEF RunningInv
  <2>1. CASE k = j
    BY <1>1, <2>1
  <2>2. CASE k # j
    <3>1. PICK d \in Cancellers : victim[d] = k
      BY <1>1, <2>2 DEF JobInv, RunningInv
    <3>2. victim[c] = NoJob
      BY DEF CancelEvicts
    <3> QED BY <1>1, <3>1, <3>2
  <2> QED BY <2>1, <2>2
<1>7. EventsMatchStatus'
  BY <1>1 DEF JobInv, EventsMatchStatus
<1>8. RunningJobKeepsItsPlane' /\ CancelFreesTheSlot'
  BY <1>1, <1>2 DEF JobInv, RunningJobKeepsItsPlane, CancelFreesTheSlot
<1> QED BY <1>3, <1>4, <1>5, <1>6, <1>7, <1>8 DEF JobInv

\* A cancel evicts, and then ends its job unless another one was faster.
LEMMA CancelStepKeeps ==
  ASSUME CoreInv, JobInv, NEW c \in Cancellers, CancelStep(c)
  PROVE  JobInv'
<1> USE JobFacts
<1>1. CASE CancelProceeds(c)
  <2>1. /\ UNCHANGED jobs /\ UNCHANGED <<phase, target, slot>>
        /\ call[c] # "out" /\ call'[c] # "out"
        /\ \A d \in Cancellers : d # c => call'[d] = call[d]
    BY <1>1, CancelMoves DEF CancelProceeds, EvictStep
  <2> USE <2>1 DEF jobs, records, drain
  <2>2. JobsTypeOK' /\ MarkedInv' /\ BacklogInv' /\ RunningInv' /\ TurnInv'
    BY DEF JobInv, JobsTypeOK, MarkedInv, BacklogInv, RunningInv, TurnInv
  <2>3. VictimInv'
    BY DEF JobInv, VictimInv
  <2>4. EventsMatchStatus' /\ RunningJobKeepsItsPlane' /\ CancelFreesTheSlot'
    BY DEF JobInv, EventsMatchStatus, RunningJobKeepsItsPlane, CancelFreesTheSlot
  <2> QED BY <2>2, <2>3, <2>4 DEF JobInv
<1>2. CASE CancelReturns(c)
  <2> DEFINE v == victim[c]
  <2>1. /\ victim' = [victim EXCEPT ![c] = NoJob]
        /\ UNCHANGED <<queue, cancelled, current, work>>
        /\ IF status[v] \in Terminal THEN UNCHANGED records ELSE Transition(v, "cancelled")
    BY <1>2 DEF CancelReturns, drain
  <2>2. /\ UNCHANGED <<phase, target>> /\ slot' = Cold
        /\ call[c] # "out" /\ call'[c] = "out"
        /\ \A d \in Cancellers : d # c => call'[d] = call[d]
    BY <1>2, CancelMoves DEF CancelReturns, EvictStep
  <2>3. v \in Jobs /\ status[v] \in {"running", "cancelled"}
    BY <2>2 DEF JobInv, VictimInv
  <2>4. work # "none" => v = current /\ current \in cancelled
    BY <2>2 DEF JobInv, VictimInv
  <2> HIDE DEF v
  <2>5. /\ status' \in [Jobs -> Statuses] /\ log' \in [Jobs -> Seq(EventTypes)] /\ EventsMatchStatus'
        /\ status'[v] = "cancelled" /\ \A k \in Jobs : k # v => status'[k] = status[k]
    <3>1. CASE status[v] = "running"
      BY <2>1, <2>3, <3>1, TransitionKeeps DEF Terminal, Statuses
    <3>2. CASE status[v] = "cancelled"
      BY <2>1, <2>3, <3>2 DEF Terminal, records, JobInv, EventsMatchStatus
    <3> QED BY <2>3, <3>1, <3>2
  <2>6. JobsTypeOK' /\ MarkedInv'
    BY <2>1, <2>5 DEF JobInv, JobsTypeOK, MarkedInv
  <2>7. TurnInv'
    BY <2>1, <2>2, <2>3, <2>4, <2>5 DEF JobInv, TurnInv
  <2>8. VictimInv'
    <3> SUFFICES ASSUME NEW d \in Cancellers
                 PROVE  /\ call'[d] = "out" <=> victim'[d] = NoJob
                        /\ victim'[d] # NoJob => status'[victim'[d]] \in {"running", "cancelled"}
                        /\ work' # "none" /\ victim'[d] # NoJob =>
                             victim'[d] = current' /\ current' \in cancelled'
      BY DEF VictimInv
    <3>1. CASE d = c
      BY <2>1, <2>2, <3>1
    <3>2. CASE d # c
      <4>1. victim'[d] = victim[d] /\ call'[d] = call[d]
        BY <2>1, <2>2, <3>2
      <4>2. victim[d] # NoJob => victim[d] \in Jobs /\ status[victim[d]] \in {"running", "cancelled"}
        BY DEF JobInv, VictimInv
      <4>3. victim[d] # NoJob => status'[victim[d]] \in {"running", "cancelled"}
        BY <2>5, <4>2
      <4> QED BY <2>1, <4>1, <4>3 DEF JobInv, VictimInv
    <3> QED BY <3>1, <3>2
  <2>9. BacklogInv'
    BY <2>1, <2>3, <2>5 DEF JobInv, BacklogInv
  <2>10. RunningInv'
    BY <2>1, <2>5 DEF JobInv, RunningInv, v
  <2>11. RunningJobKeepsItsPlane' /\ CancelFreesTheSlot'
    BY <2>1, <2>2, <2>4 DEF RunningJobKeepsItsPlane, CancelFreesTheSlot
  <2> QED BY <2>5, <2>6, <2>7, <2>8, <2>9, <2>10, <2>11 DEF JobInv
<1> QED BY <1>1, <1>2 DEF CancelStep

\* Every step of the api keeps the invariant of the jobs.
LEMMA JobInvStep ==
  ASSUME CoreInv, CoreInv', JobInv, [JobsNext]_allvars
  PROVE  JobInv'
<1>1. ASSUME NEW j \in Jobs, Submit(j) \/ CancelAtOnce(j) PROVE JobInv'
  BY <1>1, SubmitKeeps, CancelAtOnceKeeps
<1>2. CASE RunnerStep
  BY <1>2, DequeueKeeps, ProceedsKeeps, AcquiredKeeps, FailsKeeps, EndsKeep DEF RunnerStep
<1>3. CASE ThreadStep
  BY <1>3, ReportKeeps
<1>4. ASSUME NEW c \in Cancellers, NEW j \in Jobs, CancelEvicts(c, j) PROVE JobInv'
  BY <1>4, CancelEvictsKeeps
<1>5. ASSUME NEW c \in Cancellers, CancelStep(c) PROVE JobInv'
  BY <1>5, CancelStepKeeps
<1>6. CASE (\E s \in Streams : StreamStep(s)) \/ IdleStep \/ Environment
  <2>1. /\ UNCHANGED jobs /\ Bystander /\ phase'[Runner] = phase[Runner]
        /\ phase[Runner] = "use" => slot' = slot
    BY <1>6, Elsewhere DEF StreamStep, IdleStep, Environment
  <2> QED BY <2>1, JobsUnmoved
<1>7. CASE Restarts
  <2>1. phase'[Runner] = "away" /\ \A c \in Cancellers : call'[c] = "out"
    BY <1>7, CoreFacts DEF Restarts, ApiRestarts
  <2> QED BY <1>7, <2>1, JobsStart DEF Restarts
<1>8. CASE UNCHANGED allvars
  <2>1. UNCHANGED jobs /\ Bystander /\ phase' = phase /\ slot' = slot
    BY <1>8 DEF allvars, vars, clients, manager, Bystander
  <2> QED BY <2>1, JobsUnmoved
<1> QED BY <1>1, <1>2, <1>3, <1>4, <1>5, <1>6, <1>7, <1>8 DEF JobsNext

\* The invariant of the jobs holds in every reachable state, whatever fails.
LEMMA JobInvHolds == JobsSpec => []JobInv
<1>1. JobsInit => JobInv
  <2> SUFFICES ASSUME JobsInit PROVE JobInv
    OBVIOUS
  <2>1. phase[Runner] = "away" /\ \A c \in Cancellers : call[c] = "out"
    BY DEF JobsInit, Init, Sessions, Tasks
  <2>2. JobsTypeOK
    BY DEF JobsInit, JobsTypeOK, Statuses
  <2>3. TurnInv /\ VictimInv /\ MarkedInv /\ RunningInv
    BY <2>1 DEF JobsInit, TurnInv, VictimInv, MarkedInv, RunningInv
  <2>4. BacklogInv
    BY DEF JobsInit, BacklogInv, Distinct, In
  <2>5. EventsMatchStatus
    BY DEF JobsInit, EventsMatchStatus, Tells
  <2>6. RunningJobKeepsItsPlane /\ CancelFreesTheSlot
    BY DEF JobsInit, RunningJobKeepsItsPlane, CancelFreesTheSlot
  <2> QED BY <2>2, <2>3, <2>4, <2>5, <2>6 DEF JobInv
<1>2. CoreInv /\ CoreInv' /\ JobInv /\ [JobsNext]_allvars => JobInv'
  BY JobInvStep
<1>3. JobsSpec => []CoreInv
  BY JobsImplementOrchestrator, CoreHolds, PTL
<1> QED BY <1>1, <1>2, <1>3, PTL DEF JobsSpec

\* Whatever fails and however many streams and cancels there are, nobody evicts
\* the plane under a job that was not cancelled.
THEOREM RunningJobKeepsPlane == JobsSpec => []RunningJobKeepsItsPlane
<1>1. JobInv => RunningJobKeepsItsPlane
  BY DEF JobInv
<1> QED BY <1>1, JobInvHolds, PTL

\* EC-S4: whatever fails, when the cancel of the job that runs has been answered
\* the GPU slot is free, also while the work thread has not noticed yet.
THEOREM CancelFrees == JobsSpec => []CancelFreesTheSlot
<1>1. JobInv => CancelFreesTheSlot
  BY DEF JobInv
<1> QED BY <1>1, JobInvHolds, PTL

\* Whatever fails, and wherever the loop's steps fall between the two halves of
\* a progress report, the event log tells the record's story.
THEOREM EventsTell == JobsSpec => []EventsMatchStatus
<1>1. JobInv => EventsMatchStatus
  BY DEF JobInv
<1> QED BY <1>1, JobInvHolds, PTL

-----------------------------------------------------------------------------
(* The runner implements JobLifecycle.                                     *)

\* Nobody waits before the job in turn.
LEMMA CurrentIsFirst ==
  ASSUME CoreInv, JobInv
  PROVE  \A k \in Jobs : ~WaitsBefore(k, current)
<1>1. ~In(queue, current)
  BY DEF JobInv, BacklogInv
<1> QED BY <1>1 DEF WaitsBefore, In

\* Who waits before whom is kept where no job starts or stops waiting.
LEMMA OrderUnchanged ==
  ASSUME \A k, i \in Jobs : WaitsBefore(k, i)' <=> WaitsBefore(k, i)
  PROVE  {pair \in Jobs \X Jobs : WaitsBefore(pair[1], pair[2])'}
           = {pair \in Jobs \X Jobs : WaitsBefore(pair[1], pair[2])}
OBVIOUS

\* A step that changes no status and keeps the order stutters.
LEMMA LifecycleStutters ==
  ASSUME status' = status, \A k, i \in Jobs : WaitsBefore(k, i)' <=> WaitsBefore(k, i)
  PROVE  [Lifecycle!Next]_<<status, {pair \in Jobs \X Jobs : WaitsBefore(pair[1], pair[2])}>>
BY OrderUnchanged

\* A job that was waiting moves on: those that are left keep their order.
LEMMA LeavesQueueStep ==
  ASSUME CoreInv, JobInv, NEW j \in Jobs, NEW to, to # "queued",
         status' = [status EXCEPT ![j] = to], UNCHANGED <<queue, current>>
  PROVE  Lifecycle!LeavesQueue(j)
<1>1. \A k \in Jobs : status'[k] = "queued" <=> status[k] = "queued" /\ k # j
  BY JobFacts
<1>2. ASSUME NEW k \in Jobs, NEW i \in Jobs
      PROVE  WaitsBefore(k, i)' <=> WaitsBefore(k, i) /\ k # j /\ i # j
  BY <1>1 DEF WaitsBefore
<1>3. {pair \in Jobs \X Jobs : WaitsBefore(pair[1], pair[2])'}
        = {pair \in {p \in Jobs \X Jobs : WaitsBefore(p[1], p[2])} : j \notin {pair[1], pair[2]}}
  BY <1>2
<1> QED BY <1>3 DEF Lifecycle!LeavesQueue

\* A running job ends, which is no matter to those that wait.
LEMMA EndStep ==
  ASSUME CoreInv, JobInv, NEW j \in Jobs, NEW to \in Terminal, status[j] = "running",
         status' = [status EXCEPT ![j] = to], UNCHANGED queue,
         current' = current \/ (current' = NoJob /\ current = j)
  PROVE  Lifecycle!End(j, to)
<1> USE JobFacts
<1>1. \A k \in Jobs : status'[k] = "queued" <=> status[k] = "queued"
  BY DEF Terminal
<1>2. \A k \in Jobs : status[k] = "queued" => (k = current <=> k = current')
  OBVIOUS
<1>3. ASSUME NEW k \in Jobs, NEW i \in Jobs PROVE WaitsBefore(k, i)' <=> WaitsBefore(k, i)
  BY <1>1, <1>2 DEF WaitsBefore
<1> QED BY <1>3, OrderUnchanged DEF Lifecycle!End

\* A new job waits after all that wait.
LEMMA SubmitStep ==
  ASSUME CoreInv, JobInv, NEW j \in Jobs, Submit(j)
  PROVE  Lifecycle!Submit(j)
<1> USE JobFacts
<1>1. /\ status[j] = "new" /\ status' = [status EXCEPT ![j] = "queued"]
      /\ queue' = Append(queue, j) /\ current' = current
  BY DEF Submit, Transition
<1>2. \A a, b : Before(queue', a, b) <=> Before(queue, a, b) \/ (In(queue, a) /\ b = j)
  BY <1>1, AppendQueue
<1>3. \A k \in Jobs : status'[k] = "queued" <=> status[k] = "queued" \/ k = j
  BY <1>1
<1>4. j # current /\ ~In(queue, j)
  BY <1>1 DEF JobInv, TurnInv, BacklogInv, Phases
<1>5. \A k \in Jobs : status[k] = "queued" => k = current \/ In(queue, k)
  BY DEF JobInv, BacklogInv
<1>w. ASSUME NEW k \in Jobs, NEW i \in Jobs
      PROVE  /\ WaitsBefore(k, i) <=> /\ status[k] = "queued" /\ status[i] = "queued"
                                      /\ (k = current /\ i # current) \/ Before(queue, k, i)
             /\ WaitsBefore(k, i)' <=> /\ status'[k] = "queued" /\ status'[i] = "queued"
                                       /\ (k = current /\ i # current) \/ Before(queue', k, i)
  BY <1>1 DEF WaitsBefore, Before
<1>6. ASSUME NEW k \in Jobs, NEW i \in Jobs
      PROVE  WaitsBefore(k, i)' <=> WaitsBefore(k, i) \/ (i = j /\ status[k] = "queued")
  <2>b. \A a : Before(queue, j, a) \/ Before(queue, a, j) => FALSE
    BY <1>4, BeforeIn
  <2>1. CASE i = j
    <3>1. ~WaitsBefore(k, i)
      BY <1>1, <1>w, <2>1
    <3>2. CASE k = j
      BY <1>1, <1>2, <1>4, <1>w, <2>1, <2>b, <3>1, <3>2
    <3>3. CASE k # j
      BY <1>1, <1>2, <1>3, <1>4, <1>5, <1>w, <2>1, <3>1, <3>3
    <3> QED BY <3>2, <3>3
  <2>2. CASE i # j /\ k = j
    BY <1>1, <1>2, <1>4, <1>w, <2>2, <2>b
  <2>3. CASE i # j /\ k # j
    BY <1>2, <1>3, <1>w, <2>3
  <2> QED BY <2>1, <2>2, <2>3
<1>7. {pair \in Jobs \X Jobs : WaitsBefore(pair[1], pair[2])'}
        = {pair \in Jobs \X Jobs : WaitsBefore(pair[1], pair[2])}
            \cup {<<k, j>> : k \in {i \in Jobs : status[i] = "queued"}}
  BY <1>6
<1> QED BY <1>1, <1>7 DEF Lifecycle!Submit

\* Behind the head of a queue everybody keeps the place.
LEMMA TailOrder ==
  ASSUME NEW S, NEW q \in Seq(S), q # <<>>, NEW a, NEW b, Before(q, a, b), a # Head(q)
  PROVE  Before(Tail(q), a, b)
<1>1. /\ Len(q) = Len(Tail(q)) + 1 /\ Len(Tail(q)) \in Nat
      /\ \A i \in 1..Len(Tail(q)) : Tail(q)[i] = q[i + 1]
      /\ q[1] = Head(q)
  OBVIOUS
<1>2. PICK i, j \in 1..Len(q) : i < j /\ q[i] = a /\ q[j] = b
  BY DEF Before
<1>3. /\ i - 1 \in 1..Len(Tail(q)) /\ j - 1 \in 1..Len(Tail(q)) /\ i - 1 < j - 1
      /\ Tail(q)[i - 1] = a /\ Tail(q)[j - 1] = b
  BY <1>1, <1>2
<1> QED BY <1>3 DEF Before

\* Taking the head of the queue, or dropping it when it was cancelled, keeps the
\* order of the jobs that wait.
LEMMA DequeueStutters ==
  ASSUME CoreInv, JobInv, DequeueDrops \/ DequeueTakes
  PROVE  status' = status /\ \A k, i \in Jobs : WaitsBefore(k, i)' <=> WaitsBefore(k, i)
<1> USE JobFacts
<1> DEFINE h == Head(queue)
<1>1. current = NoJob /\ queue # <<>> /\ queue' = Tail(queue) /\ status' = status
  BY DEF DequeueDrops, DequeueTakes, Idling, records
<1>2. Distinct(queue)
  BY DEF JobInv, BacklogInv
<1>3. /\ \A a, b : Before(queue', a, b) => Before(queue, a, b)
      /\ \A a : In(queue', a) <=> In(queue, a) /\ a # h
      /\ \A b : In(queue, b) => b = h \/ Before(queue, h, b)
      /\ In(queue, h)
      /\ \A a, b : Before(queue, a, b) /\ a # h => Before(queue', a, b)
  BY <1>1, <1>2, TailQueue, TailOrder
<1>4. h \in Jobs
  BY <1>1
<1>5. \A b : ~Before(queue, b, h)
  BY <1>1, <1>2 DEF Before, Distinct
<1> HIDE DEF h
<1>w. ASSUME NEW k \in Jobs, NEW i \in Jobs
      PROVE  /\ WaitsBefore(k, i) <=> /\ status[k] = "queued" /\ status[i] = "queued"
                                      /\ Before(queue, k, i)
             /\ WaitsBefore(k, i)' <=> /\ status[k] = "queued" /\ status[i] = "queued"
                                       /\ (k = current' /\ i # current') \/ Before(queue', k, i)
  BY <1>1 DEF WaitsBefore, Before
<1>6. CASE DequeueDrops
  <2>1. current' = NoJob /\ status[h] # "queued"
    <3>1. current' = current /\ ~Runnable(h)
      BY <1>6 DEF DequeueDrops, h
    <3> QED BY <1>1, <1>3, <1>4, <3>1 DEF JobInv, BacklogInv, MarkedInv, Runnable
  <2> QED BY <1>1, <1>3, <1>w, <2>1
<1>7. CASE DequeueTakes
  <2>1. current' = h
    BY <1>7 DEF DequeueTakes, h
  <2>2. ASSUME NEW k \in Jobs, NEW i \in Jobs, status[i] = "queued"
        PROVE  Before(queue, k, i) <=> (k = h /\ i # h) \/ Before(queue', k, i)
    <3>1. In(queue, i)
      BY <1>1, <2>2 DEF JobInv, BacklogInv
    <3>2. ~Before(queue', h, i)
      BY <1>3, BeforeIn
    <3> QED BY <1>3, <1>5, <3>1, <3>2
  <2> QED BY <1>1, <1>w, <2>1, <2>2
<1> QED BY <1>6, <1>7

\* Every step of the api but its restart is a step of the lifecycle of the jobs,
\* or leaves it alone.
LEMMA LifecycleStep ==
  ASSUME "restart" \notin Faults, CoreInv, JobInv, [JobsNext]_allvars
  PROVE  [Lifecycle!Next]_<<status, {pair \in Jobs \X Jobs : WaitsBefore(pair[1], pair[2])}>>
<1> USE JobFacts
<1> DEFINE Goal == [Lifecycle!Next]_<<status, {pair \in Jobs \X Jobs : WaitsBefore(pair[1], pair[2])}>>
<1>n. ASSUME NEW j \in Jobs,
             \/ Lifecycle!Submit(j) \/ Lifecycle!Start(j) \/ Lifecycle!FailStart(j)
             \/ Lifecycle!CancelQueued(j)
             \/ \E outcome \in Terminal : Lifecycle!End(j, outcome)
      PROVE  Goal
  BY <1>n DEF Lifecycle!Next, Terminal
<1>s. ASSUME UNCHANGED <<status, queue, current>> PROVE Goal
  <2>1. \A k, i \in Jobs : WaitsBefore(k, i)' <=> WaitsBefore(k, i)
    BY <1>s DEF WaitsBefore
  <2> QED BY <1>s, <2>1, LifecycleStutters
<1>f. ASSUME UNCHANGED <<status, queue>>, current' = NoJob, status[current] # "queued" PROVE Goal
  <2>1. \A k \in Jobs : status[k] = "queued" => (k = current <=> k = current')
    BY <1>f
  <2>2. \A k, i \in Jobs : WaitsBefore(k, i)' <=> WaitsBefore(k, i)
    BY <1>f, <2>1 DEF WaitsBefore
  <2> QED BY <1>f, <2>2, LifecycleStutters
<1> HIDE DEF Goal
<1>1. ASSUME NEW j \in Jobs, Submit(j) PROVE Goal
  BY <1>1, <1>n, SubmitStep
<1>2. ASSUME NEW j \in Jobs, CancelAtOnce(j) PROVE Goal
  <2>1. /\ status[j] \in {"queued", "running"} /\ status' = [status EXCEPT ![j] = "cancelled"]
        /\ UNCHANGED <<queue, current>>
    BY <1>2 DEF CancelAtOnce, Transition
  <2>2. CASE status[j] = "queued"
    <3>1. Lifecycle!LeavesQueue(j)
      BY <2>1, LeavesQueueStep
    <3>2. Lifecycle!CancelQueued(j)
      BY <2>1, <2>2, <3>1 DEF Lifecycle!CancelQueued
    <3> QED BY <1>n, <3>2
  <2>3. CASE status[j] = "running"
    <3>1. Lifecycle!End(j, "cancelled")
      BY <2>1, <2>3, EndStep DEF Terminal
    <3> QED BY <1>n, <3>1 DEF Terminal
  <2> QED BY <2>1, <2>2, <2>3
<1>3. ASSUME DequeueDrops \/ DequeueTakes PROVE Goal
  BY <1>3, DequeueStutters, LifecycleStutters DEF Goal
<1>4. ASSUME Acquired PROVE Goal
  <2>1. /\ phase[Runner] = "acquire" /\ \A c \in Cancellers : call[c] = "out"
        /\ UNCHANGED <<queue, current>>
    BY <1>4, RunnerAcquires DEF Acquired, drain
  <2>2. CASE current \in cancelled
    BY <1>4, <1>s, <2>1, <2>2 DEF Acquired, records
  <2>3. CASE current \notin cancelled
    <3>1. /\ current \in Jobs /\ status[current] = "queued"
          /\ status' = [status EXCEPT ![current] = "running"]
      BY <1>4, <2>1, <2>3 DEF Acquired, Transition, JobInv, TurnInv
    <3>2. \A c \in Cancellers : victim[c] = NoJob
      BY <2>1 DEF JobInv, VictimInv
    <3>3. \A k \in Jobs : status[k] # "running"
      BY <3>1, <3>2 DEF JobInv, RunningInv
    <3>4. Lifecycle!LeavesQueue(current)
      BY <2>1, <3>1, LeavesQueueStep
    <3>5. Lifecycle!InTurn(current)
      BY <3>1, CurrentIsFirst DEF Lifecycle!InTurn
    <3>6. Lifecycle!Start(current)
      BY <3>1, <3>3, <3>4, <3>5 DEF Lifecycle!Start
    <3> QED BY <1>n, <3>1, <3>6
  <2> QED BY <2>2, <2>3
<1>5. ASSUME Fails PROVE Goal
  <2>1. /\ current \notin cancelled /\ status' = [status EXCEPT ![current] = "failed"]
        /\ UNCHANGED <<queue, current>>
    BY <1>5 DEF Fails, Transition, drain
  <2>2. phase[Runner] = "acquire" \/ (phase[Runner] = "use" /\ work # "none")
    BY <1>5, RunnerRaises DEF Fails
  <2>3. current \in Jobs
    BY <2>2
  <2>4. CASE status[current] = "queued"
    <3>1. Lifecycle!LeavesQueue(current)
      BY <2>1, <2>3, LeavesQueueStep
    <3>2. Lifecycle!InTurn(current)
      BY <2>3, <2>4, CurrentIsFirst DEF Lifecycle!InTurn
    <3>3. Lifecycle!FailStart(current)
      BY <2>1, <3>1, <3>2 DEF Lifecycle!FailStart
    <3> QED BY <1>n, <2>3, <3>3
  <2>5. CASE status[current] = "running"
    <3>1. Lifecycle!End(current, "failed")
      BY <2>1, <2>3, <2>5, EndStep DEF Terminal
    <3> QED BY <1>n, <2>3, <3>1 DEF Terminal
  <2> QED BY <2>1, <2>2, <2>4, <2>5 DEF JobInv, TurnInv
<1>6. ASSUME CleanedUp \/ Abandons PROVE Goal
  <2>1. UNCHANGED <<status, queue>> /\ current' = NoJob
    BY <1>6 DEF CleanedUp, Abandons, Finish, records
  <2>2. phase[Runner] = "cleanup" \/ (phase[Runner] \in {"use", "acquire"} /\ current \in cancelled)
    BY <1>6, RunnerLeaves DEF CleanedUp, Abandons
  <2>3. status[current] # "queued"
    BY <2>2 DEF JobInv, TurnInv
  <2> QED BY <1>f, <2>1, <2>3
<1>7. ASSUME Succeeds PROVE Goal
  <2>1. /\ work # "none" /\ current \notin cancelled /\ current' = NoJob /\ queue' = queue
        /\ status' = [status EXCEPT ![current] = "succeeded"]
    BY <1>7 DEF Succeeds, Finish, Transition
  <2>2. current \in Jobs /\ status[current] = "running"
    BY <2>1 DEF JobInv, TurnInv
  <2>3. Lifecycle!End(current, "succeeded")
    BY <2>1, <2>2, EndStep DEF Terminal
  <2> QED BY <1>n, <2>2, <2>3 DEF Terminal
<1>8. ASSUME NEW c \in Cancellers, CancelReturns(c) PROVE Goal
  <2>1. call[c] # "out" /\ UNCHANGED <<queue, current>>
    BY <1>8, CancelMoves DEF CancelReturns, drain
  <2>2. victim[c] \in Jobs /\ status[victim[c]] \in {"running", "cancelled"}
    BY <2>1 DEF JobInv, VictimInv
  <2>3. CASE status[victim[c]] = "cancelled"
    <3>1. status' = status
      BY <1>8, <2>3 DEF CancelReturns, Terminal, records
    <3> QED BY <1>s, <2>1, <3>1
  <2>4. CASE status[victim[c]] = "running"
    <3>1. status' = [status EXCEPT ![victim[c]] = "cancelled"]
      BY <1>8, <2>4 DEF CancelReturns, Transition, Terminal
    <3>2. Lifecycle!End(victim[c], "cancelled")
      BY <2>1, <2>2, <2>4, <3>1, EndStep DEF Terminal
    <3> QED BY <1>n, <2>2, <3>2 DEF Terminal
  <2> QED BY <2>2, <2>3, <2>4
<1>9. ASSUME \/ Proceeds \/ ThreadStep
             \/ \E c \in Cancellers : CancelProceeds(c) \/ \E j \in Jobs : CancelEvicts(c, j)
             \/ \E s \in Streams : StreamStep(s)
             \/ IdleStep \/ Environment \/ UNCHANGED allvars
      PROVE  Goal
  <2>1. UNCHANGED <<status, queue, current>>
    BY <1>9 DEF Proceeds, ThreadStep, ReportUpdates, ReportAppends, CancelProceeds, CancelEvicts,
                StreamStep, IdleStep, Environment, allvars, jobs, records, drain
  <2> QED BY <1>s, <2>1
<1>10. ~Restarts
  BY DEF Restarts, ApiRestarts
<1>11. Goal
  BY <1>1, <1>2, <1>3, <1>4, <1>5, <1>6, <1>7, <1>8, <1>9, <1>10
  DEF JobsNext, RunnerStep, CancelStep
<1> QED BY <1>11 DEF Goal

\* One job at a time, in the order of submission, each ended exactly once: the
\* runner, its cancels and the work thread implement JobLifecycle for any number
\* of jobs, as long as the process that holds the records does not restart.
THEOREM RefinesJobLifecycle ==
  ASSUME "restart" \notin Faults
  PROVE  JobsSpec => ImplementsJobLifecycle
<1>1. JobsInit => Lifecycle!Init
  <2> SUFFICES ASSUME JobsInit PROVE Lifecycle!Init
    OBVIOUS
  <2>1. \A k, i \in Jobs : ~WaitsBefore(k, i)
    BY DEF JobsInit, WaitsBefore
  <2> QED BY <2>1 DEF JobsInit, Lifecycle!Init
<1>2. CoreInv /\ JobInv /\ [JobsNext]_allvars =>
        [Lifecycle!Next]_<<status, {pair \in Jobs \X Jobs : WaitsBefore(pair[1], pair[2])}>>
  BY LifecycleStep
<1>3. JobsSpec => []CoreInv
  BY JobsImplementOrchestrator, CoreHolds, PTL
<1> QED BY <1>1, <1>2, <1>3, JobInvHolds, PTL DEF JobsSpec, ImplementsJobLifecycle, Lifecycle!Spec

==============================================================================
