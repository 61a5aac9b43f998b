------------------------- MODULE OrchestratorProofs -------------------------
(***************************************************************************)
(* Theorems about Orchestrator, for any number of streams, cancellers and  *)
(* generation identities.                                                  *)
(*                                                                         *)
(* Under every failure: the variables have their types, a stream that is   *)
(* served keeps its slot, and the orchestrator with its lease implements   *)
(* GpuSlot.  They rest on one inductive invariant, CoreInv, which relates  *)
(* the two locks, their queues and the order in them.                      *)
(*                                                                         *)
(* Unless a client goes away in mid-acquire: a warm plane has its eviction *)
(* pending.                                                                *)
(*                                                                         *)
(* When planes may crash and nothing else fails: at most one plane is on   *)
(* the GPU, and none is loaded on top of another's VRAM.                   *)
(***************************************************************************)
EXTENDS Orchestrator, TLAPS

-----------------------------------------------------------------------------
(* The queues of the lock and the lease.                                   *)

\* Who is in a queue, who comes before whom, and that nobody is in it twice.
In(q, a) == \E i \in 1..Len(q) : q[i] = a
Before(q, a, b) == \E i, j \in 1..Len(q) : i < j /\ q[i] = a /\ q[j] = b
Distinct(q) == \A i, j \in 1..Len(q) : q[i] = q[j] => i = j

\* Both of a pair in order are in the queue.
LEMMA BeforeIn ==
  ASSUME NEW q, NEW a, NEW b, Before(q, a, b)
  PROVE  In(q, a) /\ In(q, b)
BY DEF Before, In

\* Who joins a queue comes after all that are in it.
LEMMA AppendQueue ==
  ASSUME NEW S, NEW q \in Seq(S), NEW x \in S
  PROVE  LET r == Append(q, x) IN
         /\ \A a : In(r, a) <=> In(q, a) \/ a = x
         /\ \A a, b : Before(r, a, b) <=> Before(q, a, b) \/ (In(q, a) /\ b = x)
         /\ Distinct(q) /\ ~In(q, x) => Distinct(r)
<1> DEFINE r == Append(q, x)
<1>1. /\ Len(r) = Len(q) + 1 /\ Len(q) \in Nat
      /\ \A i \in 1..Len(q) : r[i] = q[i]
      /\ r[Len(q) + 1] = x
  OBVIOUS
<1> HIDE DEF r
<1>2. \A a : In(r, a) <=> In(q, a) \/ a = x
  BY <1>1 DEF In
<1>3. \A a, b : Before(r, a, b) <=> Before(q, a, b) \/ (In(q, a) /\ b = x)
  <2> TAKE a, b
  <2>1. ASSUME Before(r, a, b) PROVE Before(q, a, b) \/ (In(q, a) /\ b = x)
    BY <2>1, <1>1 DEF Before, In
  <2>2. ASSUME Before(q, a, b) PROVE Before(r, a, b)
    BY <2>2, <1>1 DEF Before
  <2>3. ASSUME In(q, a), b = x PROVE Before(r, a, b)
    BY <2>3, <1>1 DEF Before, In
  <2> QED BY <2>1, <2>2, <2>3
<1>4. Distinct(q) /\ ~In(q, x) => Distinct(r)
  BY <1>1 DEF Distinct, In
<1> QED BY <1>2, <1>3, <1>4 DEF r

\* Serving the head of a queue removes it and keeps the order of the others,
\* all of whom came after it.
LEMMA TailQueue ==
  ASSUME NEW S, NEW q \in Seq(S), q # <<>>, Distinct(q)
  PROVE  LET r == Tail(q) IN
         /\ \A a : In(r, a) <=> In(q, a) /\ a # Head(q)
         /\ \A a, b : Before(r, a, b) => Before(q, a, b)
         /\ Distinct(r)
         /\ r \in Seq(S)
         /\ In(q, Head(q))
         /\ \A b : In(q, b) => b = Head(q) \/ Before(q, Head(q), b)
<1> DEFINE r == Tail(q)
<1>1. /\ Len(q) = Len(r) + 1 /\ Len(r) \in Nat /\ r \in Seq(S)
      /\ \A i \in 1..Len(r) : r[i] = q[i + 1]
      /\ q[1] = Head(q)
  OBVIOUS
<1> HIDE DEF r
<1>2. \A a : In(r, a) <=> In(q, a) /\ a # Head(q)
  <2> TAKE a
  <2>1. ASSUME In(r, a) PROVE In(q, a) /\ a # Head(q)
    BY <2>1, <1>1 DEF In, Distinct
  <2>2. ASSUME In(q, a), a # Head(q) PROVE In(r, a)
    <3>1. PICK i \in 1..Len(q) : q[i] = a
      BY <2>2 DEF In
    <3>2. i - 1 \in 1..Len(r) /\ r[i - 1] = a
      BY <3>1, <2>2, <1>1
    <3> QED BY <3>2 DEF In
  <2> QED BY <2>1, <2>2
<1>3. \A a, b : Before(r, a, b) => Before(q, a, b)
  <2> SUFFICES ASSUME NEW a, NEW b, Before(r, a, b) PROVE Before(q, a, b)
    OBVIOUS
  <2>1. PICK i, j \in 1..Len(r) : i < j /\ r[i] = a /\ r[j] = b
    BY DEF Before
  <2>2. /\ i + 1 \in 1..Len(q) /\ j + 1 \in 1..Len(q) /\ i + 1 < j + 1
        /\ q[i + 1] = a /\ q[j + 1] = b
    BY <2>1, <1>1
  <2> QED BY <2>2 DEF Before
<1>4. Distinct(r)
  <2> SUFFICES ASSUME NEW i \in 1..Len(r), NEW j \in 1..Len(r), r[i] = r[j] PROVE i = j
    BY DEF Distinct
  <2>1. i + 1 \in 1..Len(q) /\ j + 1 \in 1..Len(q) /\ q[i + 1] = q[j + 1]
    BY <1>1
  <2>2. i + 1 = j + 1
    BY <2>1 DEF Distinct
  <2> QED BY <2>2, <1>1
<1>5. \A b : In(q, b) => b = Head(q) \/ Before(q, Head(q), b)
  BY <1>1 DEF In, Before
<1>6. In(q, Head(q))
  BY <1>1 DEF In
<1> QED BY <1>1, <1>2, <1>3, <1>4, <1>5, <1>6 DEF r

\* A waiter that is dropped leaves the others in their order.
LEMMA WithoutQueue ==
  ASSUME NEW S, NEW q \in Seq(S), NEW t, Distinct(q)
  PROVE  LET r == Without(q, t) IN
         /\ \A a : In(r, a) <=> In(q, a) /\ a # t
         /\ \A a, b : Before(r, a, b) => Before(q, a, b)
         /\ Distinct(r)
         /\ r \in Seq(S)
<1>1. CASE In(q, t)
  <2> DEFINE k == CHOOSE i \in 1..Len(q) : q[i] = t
             n == Len(q) - 1
             r == [i \in 1..n |-> IF i < k THEN q[i] ELSE q[i + 1]]
  <2>1. k \in 1..Len(q) /\ q[k] = t
    BY <1>1 DEF In
  <2>2. n \in Nat /\ Len(q) = n + 1 /\ n + 1 \in Nat
    BY <2>1
  <2>3. Without(q, t) = r
    BY <1>1 DEF Without, In
  <2> HIDE DEF k, n
  <2>4. r \in Seq(S) /\ Len(r) = n
    BY <2>1, <2>2
  <2>5. \A i \in 1..n : r[i] = IF i < k THEN q[i] ELSE q[i + 1]
    OBVIOUS
  <2> HIDE DEF r
  <2>6. \A a : In(r, a) <=> In(q, a) /\ a # t
    <3> TAKE a
    <3>1. ASSUME In(r, a) PROVE In(q, a) /\ a # t
      BY <3>1, <2>1, <2>2, <2>4, <2>5 DEF In, Distinct
    <3>2. ASSUME In(q, a), a # t PROVE In(r, a)
      <4>1. PICK i \in 1..Len(q) : q[i] = a
        BY <3>2 DEF In
      <4>2. CASE i < k
        <5>1. i \in 1..n /\ r[i] = a
          BY <4>1, <4>2, <2>1, <2>2, <2>5
        <5> QED BY <5>1, <2>4 DEF In
      <4>3. CASE ~(i < k)
        <5>1. i - 1 \in 1..n /\ r[i - 1] = a
          BY <4>1, <4>3, <3>2, <2>1, <2>2, <2>5
        <5> QED BY <5>1, <2>4 DEF In
      <4> QED BY <4>2, <4>3
    <3> QED BY <3>1, <3>2
  <2>7. \A i, j \in 1..n : i < j => \E u, v \in 1..Len(q) : u < v /\ q[u] = r[i] /\ q[v] = r[j]
    <3> TAKE i, j \in 1..n
    <3> HAVE i < j
    <3> DEFINE u == IF i < k THEN i ELSE i + 1
               v == IF j < k THEN j ELSE j + 1
    <3>1. u \in 1..Len(q) /\ v \in 1..Len(q) /\ u < v /\ q[u] = r[i] /\ q[v] = r[j]
      BY <2>1, <2>2, <2>5
    <3> QED BY <3>1
  <2>8. \A a, b : Before(r, a, b) => Before(q, a, b)
    <3> SUFFICES ASSUME NEW a, NEW b, Before(r, a, b) PROVE Before(q, a, b)
      OBVIOUS
    <3>1. PICK i, j \in 1..n : i < j /\ r[i] = a /\ r[j] = b
      BY <2>4 DEF Before
    <3>2. PICK u, v \in 1..Len(q) : u < v /\ q[u] = r[i] /\ q[v] = r[j]
      BY <3>1, <2>7
    <3> QED BY <3>1, <3>2 DEF Before
  <2>9. Distinct(r)
    <3> SUFFICES ASSUME NEW i \in 1..n, NEW j \in 1..n, i < j PROVE r[i] # r[j]
      BY <2>2, <2>4 DEF Distinct
    <3> QED BY <2>2, <2>7 DEF Distinct
  <2> QED BY <2>3, <2>4, <2>6, <2>8, <2>9
<1>2. CASE ~In(q, t)
  BY <1>2 DEF Without, In
<1> QED BY <1>1, <1>2

\* Dropping a waiter leaves a queue of the same kind of waiters.
LEMMA WithoutType ==
  ASSUME NEW S, NEW q \in Seq(S), NEW t
  PROVE  Without(q, t) \in Seq(S)
<1>1. CASE \E i \in 1..Len(q) : q[i] = t
  <2> DEFINE k == CHOOSE i \in 1..Len(q) : q[i] = t
             n == Len(q) - 1
             r == [i \in 1..n |-> IF i < k THEN q[i] ELSE q[i + 1]]
  <2>1. k \in 1..Len(q)
    BY <1>1
  <2>2. n \in Nat
    BY <2>1
  <2>3. \A i \in 1..n : r[i] \in S
    BY <2>1
  <2>4. r \in Seq(S)
    BY <2>2, <2>3
  <2>5. Without(q, t) = r
    BY <1>1 DEF Without
  <2> QED BY <2>4, <2>5
<1>2. CASE ~ \E i \in 1..Len(q) : q[i] = t
  BY <1>2 DEF Without
<1> QED BY <1>1, <1>2

\* Whatever stopping a container leaves behind is a state of a container.
LEMMA StopOutcomesType ==
  ASSUME TypeOK, NEW p \in Planes
  PROVE  StopOutcomes(p) \subseteq PlaneStates
BY DEF StopOutcomes, TypeOK, PlaneStates

\* Every identity is served by one of the two containers.
LEMMA PlaneOfType == \A id : PlaneOf(id) \in Planes
BY DEF PlaneOf, Planes

-----------------------------------------------------------------------------
(* Type correctness.                                                       *)

\* The variables have their types in the initial state.
LEMMA TypeInit == Init => TypeOK
<1> USE OrchestratorAssumption, ResidencyAssumption
<1> SUFFICES ASSUME Init PROVE TypeOK
  OBVIOUS
<1> USE DEF Init
<1>1. lease \in Sessions \cup {Nobody} /\ leaseQ \in Seq(Sessions)
  OBVIOUS
<1>2. phase \in [Sessions -> Phases] /\ target \in [Sessions -> ResidencyIds \cup {Cold}]
  BY DEF Phases
<1>3. lock \in Tasks \cup {Nobody} /\ lockQ \in Seq(Tasks)
  OBVIOUS
<1>4. call \in [Tasks -> CallStates]
  BY DEF CallStates
<1>5. slot \in ResidencyIds \cup {Cold} /\ idleTimer \in BOOLEAN
  OBVIOUS
<1>6. plane \in [Planes -> PlaneStates] /\ strays \in SUBSET [kind : StrayKinds, plane : Planes]
  BY DEF PlaneStates
<1> QED BY <1>1, <1>2, <1>3, <1>4, <1>5, <1>6 DEF TypeOK

\* Every step keeps every variable's type, under any failures.
LEMMA TypeStep == TypeOK /\ [Next]_vars => TypeOK'
<1> USE OrchestratorAssumption, ResidencyAssumption, PlaneOfType
<1> SUFFICES ASSUME TypeOK, [Next]_vars PROVE TypeOK'
  OBVIOUS
<1> USE DEF TypeOK, clients, manager, gpu
<1>a. \A t \in Tasks : Without(lockQ, t) \in Seq(Tasks)
  BY WithoutType
<1>b. ASSUME lockQ # <<>>
      PROVE  Tail(lockQ) \in Seq(Tasks) /\ \A t \in Tasks : Without(Tail(lockQ), t) \in Seq(Tasks)
  <2>1. Tail(lockQ) \in Seq(Tasks)
    BY <1>b
  <2> QED BY <2>1, WithoutType
<1>c. \A s \in Sessions : Without(leaseQ, s) \in Seq(Sessions)
  BY WithoutType
<1>d. Sessions \subseteq Tasks /\ IdleTask \in Tasks /\ Runner \in Sessions
  BY DEF Sessions, Tasks
<1>e. \A t, from, to, p :
        t \in Tasks /\ to \in CallStates /\ p \in Planes /\ ThreadStops(t, from, to, p)
          => TypeOK'
  BY StopOutcomesType DEF ThreadStops
<1>f. ASSUME NEW s \in Sessions, NEW q \in Seq(Tasks), Leave(s, q),
             slot' \in ResidencyIds \cup {Cold}, UNCHANGED <<leaseQ, target, plane>>
      PROVE  TypeOK'
  <2> USE <1>f, <1>d DEF Leave
  <2>1. lease' \in Sessions \cup {Nobody} /\ phase' \in [Sessions -> Phases]
    BY DEF Phases
  <2>2. lock' \in Tasks \cup {Nobody} /\ call' \in [Tasks -> CallStates]
    BY DEF CallStates
  <2>3. lockQ' \in Seq(Tasks)
    BY WithoutType
  <2>4. strays' \in SUBSET [kind : StrayKinds, plane : Planes]
    BY DEF Stray, StrayKinds
  <2>5. idleTimer' \in BOOLEAN
    BY DEF TimerAfterUse
  <2> QED BY <2>1, <2>2, <2>3, <2>4, <2>5
<1>1. ASSUME NEW s \in Sessions, NEW id \in Wanted(s), Request(s, id) PROVE TypeOK'
  BY <1>1 DEF Request, Wanted, ResidencyIds, Phases
<1>2. ASSUME NEW s \in Sessions, SessionStep(s) PROVE TypeOK'
  <2>1. CASE LeaseGranted(s)
    BY <2>1, <1>d DEF LeaseGranted, NextFor, Phases, CallStates
  <2>2. CASE AcquireHit(s)
    BY <2>2, <1>b, <1>d DEF AcquireHit, EnterAcquire, NextFor, Phases, CallStates
  <2>3. CASE AcquireSwap(s)
    BY <2>3, <1>b, <1>d DEF AcquireSwap, EnterAcquire, NextFor, CallStates
  <2>4. CASE AcquireCold(s)
    BY <2>4, <1>b, <1>d DEF AcquireCold, EnterAcquire, NextFor, CallStates
  <2>5. CASE SwapStops(s)
    BY <2>5, <1>d, <1>e DEF SwapStops, CallStates
  <2>6. CASE SwapEvicted(s)
    BY <2>6, <1>d DEF SwapEvicted, CallStates
  <2>7. CASE GatePasses(s)
    BY <2>7, <1>d DEF GatePasses, CallStates
  <2>8. CASE StartReturns(s)
    BY <2>8, <1>d DEF StartReturns, CallStates, PlaneStates
  <2>9. CASE ProbeReady(s)
    BY <2>9, <1>d DEF ProbeReady, Phases, CallStates
  <2>10. CASE ProbeGivesUp(s)
    BY <2>10, <1>d DEF ProbeGivesUp, CallStates
  <2>11. CASE UndoStops(s)
    BY <2>11, <1>d, <1>e DEF UndoStops, CallStates
  <2>12. CASE AcquireRaises(s)
    <3>1. CASE s = Runner
      <4>0. s \in Tasks /\ lockQ \in Seq(Tasks)
        BY <1>d
      <4>1. lockQ' = Append(lockQ, s) /\ lock' = Nobody
        BY <2>12, <3>1 DEF AcquireRaises
      <4>3. lockQ' \in Seq(Tasks)
        BY ONLY <4>0, <4>1
      <4>2. phase' \in [Sessions -> Phases] /\ call' \in [Tasks -> CallStates]
        BY <2>12, <3>1, <1>d DEF AcquireRaises, Phases, CallStates
      <4> QED BY <2>12, <3>1, <4>1, <4>2, <4>3 DEF AcquireRaises
    <3>2. CASE s # Runner
      BY <2>12, <3>2, <1>d DEF AcquireRaises, Phases, CallStates
    <3> QED BY <3>1, <3>2
  <2>13. CASE UseEnds(s)
    BY <2>13, <1>f DEF UseEnds
  <2> QED BY <1>2, <2>1, <2>2, <2>3, <2>4, <2>5, <2>6, <2>7, <2>8, <2>9, <2>10, <2>11, <2>12, <2>13 DEF SessionStep
<1>3. CASE AcquireRaisesCancelled
  BY <1>3, <1>d, <1>f DEF AcquireRaisesCancelled
<1>4. CASE WorkRaises
  BY <1>4, <1>d DEF WorkRaises, Phases, CallStates
<1>5. ASSUME NEW c \in Cancellers, CancelRunning(c) PROVE TypeOK'
  BY <1>5 DEF CancelRunning, CallStates, Tasks
<1>6. ASSUME NEW t \in Cancellers \cup {Runner, IdleTask}, EvictStep(t) PROVE TypeOK'
  <2>0. t \in Tasks
    BY <1>d DEF Tasks
  <2>r. ASSUME NEW q \in Seq(Tasks), NEW timer \in BOOLEAN, slot' = Cold,
               EvictAllReturns(t, q, timer), UNCHANGED <<leaseQ, target, plane>>
        PROVE  TypeOK'
    <3>1. CASE t = Runner
      BY <3>1, <2>r, <1>d, <1>f DEF EvictAllReturns
    <3>2. CASE t # Runner
      BY <3>2, <2>r, <2>0 DEF EvictAllReturns, CallStates
    <3> QED BY <3>1, <3>2
  <2>1. CASE EvictAllStarts(t)
    BY <2>1, <2>0, <1>b DEF EvictAllStarts, NextFor, CallStates
  <2>2. CASE EvictAllStops(t)
    BY <2>2, <2>0, <1>e DEF EvictAllStops, CallStates
  <2>3. CASE EvictAllDone(t)
    BY <2>3, <2>r DEF EvictAllDone
  <2>4. CASE EvictAllEmpty(t)
    <3>1. Tail(lockQ) \in Seq(Tasks)
      BY <2>4, <1>b DEF EvictAllEmpty, NextFor
    <3> QED BY <2>4, <2>r, <3>1 DEF EvictAllEmpty
  <2> QED BY <1>6, <2>1, <2>2, <2>3, <2>4 DEF EvictStep
<1>7. CASE IdleFires
  BY <1>7, <1>d DEF IdleFires, CallStates
<1>8. CASE IdleSkips
  BY <1>8, <1>d DEF IdleSkips, CallStates
<1>9. CASE IdleRuns
  BY <1>9, <1>d DEF IdleRuns, CallStates
<1>10. ASSUME NEW p \in Planes, PlaneCrashes(p) \/ Drains(p) PROVE TypeOK'
  BY <1>10 DEF PlaneCrashes, Drains, PlaneStates
<1>11. ASSUME NEW s \in Streams, Disconnect(s) PROVE TypeOK'
  <2>1. s \in Sessions /\ s \in Tasks
    BY DEF Sessions, Tasks
  <2>2. LeftRunning(s) \subseteq [kind : StrayKinds, plane : Planes]
    BY DEF LeftRunning, Stray, StrayKinds
  <2>3. lease' \in Sessions \cup {Nobody} /\ lock' \in Tasks \cup {Nobody}
    BY <1>11 DEF Disconnect
  <2>4. leaseQ' \in Seq(Sessions) /\ lockQ' \in Seq(Tasks)
    BY <1>11, <2>1, <1>a, <1>c DEF Disconnect
  <2>5. phase' \in [Sessions -> Phases] /\ call' \in [Tasks -> CallStates]
    BY <1>11, <2>1 DEF Disconnect, Phases, CallStates
  <2>6. strays' \in SUBSET [kind : StrayKinds, plane : Planes]
    BY <1>11, <2>2 DEF Disconnect
  <2> QED BY <1>11, <2>3, <2>4, <2>5, <2>6 DEF Disconnect
<1>12. ASSUME NEW x \in strays, StrayReturns(x) PROVE TypeOK'
  <2>1. x.plane \in Planes /\ "up" \in PlaneStates
    BY DEF PlaneStates
  <2>2. \E after \in PlaneStates : plane' = [plane EXCEPT ![x.plane] = after]
    BY <1>12, <2>1, StopOutcomesType DEF StrayReturns
  <2>3. plane' \in [Planes -> PlaneStates]
    BY <2>2
  <2>4. strays' \in SUBSET [kind : StrayKinds, plane : Planes]
    BY <1>12 DEF StrayReturns
  <2>5. UNCHANGED <<clients, manager>>
    BY <1>12 DEF StrayReturns
  <2> QED BY <2>3, <2>4, <2>5
<1>13. CASE ApiRestarts
  <2> USE <1>13 DEF ApiRestarts
  <2>1. lease' \in Sessions \cup {Nobody} /\ leaseQ' \in Seq(Sessions)
    OBVIOUS
  <2>2. phase' \in [Sessions -> Phases] /\ target' \in [Sessions -> ResidencyIds \cup {Cold}]
    BY DEF Phases
  <2>3. lock' \in Tasks \cup {Nobody} /\ lockQ' \in Seq(Tasks) /\ call' \in [Tasks -> CallStates]
    BY DEF CallStates
  <2>4. slot' \in ResidencyIds \cup {Cold} /\ idleTimer' \in BOOLEAN
    OBVIOUS
  <2>5. plane' \in [Planes -> PlaneStates] /\ strays' \in SUBSET [kind : StrayKinds, plane : Planes]
    OBVIOUS
  <2> QED BY <2>1, <2>2, <2>3, <2>4, <2>5
<1>14. CASE UNCHANGED vars
  BY <1>14 DEF vars
<1> QED
  BY <1>1, <1>2, <1>3, <1>4, <1>5, <1>6, <1>7, <1>8, <1>9, <1>10, <1>11, <1>12, <1>13, <1>14
  DEF Next

\* The variables have their types in every state the api and its containers
\* reach, whatever fails.
THEOREM TypeCorrect == Spec => []TypeOK
BY TypeInit, TypeStep, PTL DEF Spec

-----------------------------------------------------------------------------
(* The invariant that every failure leaves standing.                       *)

\* The states of a task that holds the lock, and those of an acquire.
Inside == CallStates \ {"out", "spawned", "queued"}
Acquiring == Inside \ {"clearing", "cleared"}

\* The session that holds the lease is the one past its wait for it.
LeaseInv == \A s \in Sessions : phase[s] \in {"acquire", "use", "cleanup"} <=> lease = s

\* The lock holder is the one task inside acquire or evict_all.
LockInv == \A t \in Tasks : call[t] \in Inside <=> lock = t

\* A session runs acquire in its acquire phase only, for an identity of its own
\* kind, evict_all in its cleanup only, and makes no orchestrator call while it
\* waits for the lease or uses the plane; only the idle task is ever spawned.
SessionInv ==
  /\ \A s \in Sessions :
       /\ phase[s] \in {"away", "lease", "use"} => call[s] = "out"
       /\ phase[s] # "away" => target[s] \in Wanted(s)
       /\ call[s] \in {"clearing", "cleared"} => phase[s] = "cleanup"
  /\ \A t \in Tasks :
       /\ call[t] \in Acquiring => t \in Sessions /\ phase[t] = "acquire"
       /\ call[t] = "spawned" => t = IdleTask

\* Who waits for the lock is in its queue, once.
QueueInv ==
  /\ Distinct(lockQ)
  /\ \A t \in Tasks : call[t] = "queued" <=> In(lockQ, t)

\* No cancel is queued behind a session that acquires: only a job that is
\* running is cancelled with an eviction.
OrderInv == \A s \in Sessions, c \in Cancellers : phase[s] = "acquire" => ~Before(lockQ, s, c)

\* An armed timer means that no idle task is under way.
TimerInv == idleTimer => call[IdleTask] = "out"

\* Once a session has passed the lock no idle eviction is pending, and, until it
\* is a running job, no cancel either.
ServedInv ==
  \A s \in Sessions : phase[s] = "use" \/ call[s] \in Acquiring =>
    /\ ~idleTimer /\ call[IdleTask] = "out"
    /\ s # Runner \/ phase[s] # "use" => \A c \in Cancellers : call[c] = "out"

\* Once the old identity is out of the way the slot stays empty until the new
\* plane is ready; and a stream that is served has its identity in the slot.
SlotInv ==
  /\ \A t \in Tasks : call[t] \in {"gating", "starting", "probing", "undoing", "undone"} => slot = Cold
  /\ StreamKeepsItsSlot

CoreInv == /\ TypeOK /\ LeaseInv /\ LockInv /\ SessionInv /\ QueueInv
           /\ OrderInv /\ TimerInv /\ ServedInv /\ SlotInv

-----------------------------------------------------------------------------
(* Every step keeps the invariant, whatever fails.                         *)

\* Which tasks are which, and what the sessions and the lock say of each other.
LEMMA CoreFacts ==
  ASSUME CoreInv
  PROVE  /\ Sessions \subseteq Tasks /\ Cancellers \subseteq Tasks /\ IdleTask \in Tasks
         /\ IdleTask \notin Sessions \cup Cancellers /\ Sessions \cap Cancellers = {}
         /\ Runner \in Sessions /\ Nobody \notin Tasks
         /\ phase \in [Sessions -> Phases] /\ call \in [Tasks -> CallStates]
         /\ lockQ \in Seq(Tasks) /\ lock \in Tasks \cup {Nobody}
         /\ target \in [Sessions -> ResidencyIds \cup {Cold}]
         /\ \A s \in Sessions : call[s] \in Inside \cup {"queued"} => lease = s
         /\ \A s, u \in Sessions : phase[s] \in {"acquire", "use", "cleanup"} /\ lease = u => s = u
<1>1. /\ Sessions \subseteq Tasks /\ Cancellers \subseteq Tasks /\ IdleTask \in Tasks
      /\ IdleTask \notin Sessions \cup Cancellers /\ Sessions \cap Cancellers = {}
      /\ Runner \in Sessions /\ Nobody \notin Tasks
  BY OrchestratorAssumption DEF Sessions, Tasks
<1>2. /\ phase \in [Sessions -> Phases] /\ call \in [Tasks -> CallStates]
      /\ lockQ \in Seq(Tasks) /\ lock \in Tasks \cup {Nobody}
      /\ target \in [Sessions -> ResidencyIds \cup {Cold}]
  BY DEF CoreInv, TypeOK
<1>3. \A s \in Sessions : call[s] \in Inside \cup {"queued"} => lease = s
  BY <1>1, <1>2 DEF CoreInv, LeaseInv, SessionInv, Inside, CallStates, Phases
<1>4. \A s, u \in Sessions : phase[s] \in {"acquire", "use", "cleanup"} /\ lease = u => s = u
  BY DEF CoreInv, LeaseInv
<1> QED BY <1>1, <1>2, <1>3, <1>4

\* A session that leaves: nobody has the lease then, no acquire is under way and
\* no idle eviction pending.
LEMMA LeaveKeeps ==
  ASSUME CoreInv, TypeOK', NEW s \in Sessions, NEW q \in Seq(Tasks), Leave(s, q), lease = s,
         Distinct(q), \A a : In(q, a) <=> In(lockQ, a) /\ a # s,
         UNCHANGED target,
         slot' \in {slot, Cold}
  PROVE  CoreInv'
<1> USE CoreFacts
<1>1. \A u \in Sessions : phase'[u] \notin {"acquire", "use", "cleanup"}
  BY DEF Leave, CoreInv, LeaseInv, Phases
<1>2. LeaseInv'
  BY <1>1 DEF Leave, LeaseInv, Tasks
<1>3. LockInv'
  BY DEF Leave, CoreInv, LockInv, Inside, CallStates
<1>4. SessionInv'
  BY DEF Leave, CoreInv, SessionInv, LeaseInv, Acquiring, Inside, CallStates
<1>5. \A u \in Sessions : call'[u] \notin Acquiring
  BY <1>1, <1>4 DEF SessionInv
<1>6. QueueInv'
  <2>1. /\ Distinct(lockQ')
        /\ \A a : In(lockQ', a) <=> In(lockQ, a) /\ a # s /\ a # IdleTask
    BY WithoutQueue DEF Leave
  <2>2. \A t \in Tasks : call'[t] = "queued" <=> call[t] = "queued" /\ t # s /\ t # IdleTask
    BY DEF Leave
  <2> QED BY <2>1, <2>2 DEF CoreInv, QueueInv
<1>7. OrderInv' /\ ServedInv'
  BY <1>1, <1>5 DEF OrderInv, ServedInv
<1>8. TimerInv'
  BY DEF Leave, TimerInv
<1>9. SlotInv'
  <2>1. \A t \in Tasks : call'[t] \notin Acquiring
    BY <1>4, <1>5 DEF SessionInv
  <2> QED BY <1>1, <2>1 DEF SlotInv, StreamKeepsItsSlot, Acquiring, Inside, CallStates, Sessions
<1> QED BY <1>2, <1>3, <1>4, <1>6, <1>7, <1>8, <1>9 DEF CoreInv

\* The lock is granted to a session: everyone else in the queue came later, and
\* of those none is a cancel.
LEMMA GrantFacts ==
  ASSUME CoreInv, NEW s \in Sessions, NEW next, EnterAcquire(s, next)
  PROVE  /\ lock = Nobody /\ lease = s /\ call[s] = "queued"
         /\ \A c \in Cancellers : call[c] = "out"
         /\ Distinct(lockQ')
         /\ \A a : In(lockQ', a) <=> In(lockQ, a) /\ a # s /\ a # IdleTask
         /\ \A a, b : Before(lockQ', a, b) => Before(lockQ, a, b)
<1> USE CoreFacts
<1>1. phase[s] = "acquire" /\ lock = Nobody /\ lockQ # <<>> /\ Head(lockQ) = s
  BY DEF EnterAcquire, NextFor
<1>2. lease = s
  BY <1>1 DEF CoreInv, LeaseInv
<1>3. Distinct(lockQ)
  BY DEF CoreInv, QueueInv
<1>4. /\ Tail(lockQ) \in Seq(Tasks) /\ Distinct(Tail(lockQ))
      /\ \A a : In(Tail(lockQ), a) <=> In(lockQ, a) /\ a # s
      /\ \A a, b : Before(Tail(lockQ), a, b) => Before(lockQ, a, b)
      /\ In(lockQ, s)
      /\ \A b : In(lockQ, b) => b = s \/ Before(lockQ, s, b)
  BY <1>1, <1>3, TailQueue
<1>5. call[s] = "queued"
  BY <1>4 DEF CoreInv, QueueInv
<1>6. \A c \in Cancellers : call[c] = "out"
  <2> TAKE c \in Cancellers
  <2>1. ~In(lockQ, c)
    BY <1>1, <1>4 DEF CoreInv, OrderInv
  <2>2. call[c] # "queued"
    BY <2>1 DEF CoreInv, QueueInv
  <2>3. call[c] \notin Inside
    BY <1>1 DEF CoreInv, LockInv
  <2>4. call[c] # "spawned"
    BY DEF CoreInv, SessionInv
  <2> QED BY <2>2, <2>3, <2>4 DEF Inside, CallStates
<1>7. /\ Distinct(lockQ')
      /\ \A a : In(lockQ', a) <=> In(Tail(lockQ), a) /\ a # IdleTask
      /\ \A a, b : Before(lockQ', a, b) => Before(Tail(lockQ), a, b)
  BY <1>4, WithoutQueue DEF EnterAcquire
<1> QED BY <1>1, <1>2, <1>4, <1>5, <1>6, <1>7

\* A task joins the lock's queue.
LEMMA JoinFacts ==
  ASSUME CoreInv, NEW t \in Tasks, call[t] # "queued", lockQ' = Append(lockQ, t),
         call' = [call EXCEPT ![t] = "queued"]
  PROVE  QueueInv'
         /\ \A a, b : Before(lockQ', a, b) <=> Before(lockQ, a, b) \/ (In(lockQ, a) /\ b = t)
<1> USE CoreFacts
<1>1. ~In(lockQ, t) /\ Distinct(lockQ)
  BY DEF CoreInv, QueueInv
<1>2. /\ Distinct(lockQ')
      /\ \A a : In(lockQ', a) <=> In(lockQ, a) \/ a = t
      /\ \A a, b : Before(lockQ', a, b) <=> Before(lockQ, a, b) \/ (In(lockQ, a) /\ b = t)
  BY <1>1, AppendQueue
<1> QED BY <1>2 DEF CoreInv, QueueInv

\* The head of the queue gets the lock.
LEMMA HeadFacts ==
  ASSUME CoreInv, NEW t \in Tasks, NextFor(lock, lockQ, t)
  PROVE  /\ lock = Nobody /\ call[t] = "queued"
         /\ Tail(lockQ) \in Seq(Tasks) /\ Distinct(Tail(lockQ))
         /\ \A a : In(Tail(lockQ), a) <=> In(lockQ, a) /\ a # t
         /\ \A a, b : Before(Tail(lockQ), a, b) => Before(lockQ, a, b)
<1> USE CoreFacts
<1>1. lock = Nobody /\ lockQ # <<>> /\ Head(lockQ) = t /\ Distinct(lockQ)
  BY DEF NextFor, CoreInv, QueueInv
<1>2. /\ Tail(lockQ) \in Seq(Tasks) /\ Distinct(Tail(lockQ))
      /\ \A a : In(Tail(lockQ), a) <=> In(lockQ, a) /\ a # t
      /\ \A a, b : Before(Tail(lockQ), a, b) => Before(lockQ, a, b)
      /\ In(lockQ, t)
  BY <1>1, TailQueue
<1> QED BY <1>1, <1>2 DEF CoreInv, QueueInv

\* A task that holds the lock moves on inside acquire or evict_all; the slot
\* may be cleared on the way.
LEMMA InsideKeeps ==
  ASSUME CoreInv, TypeOK', NEW t \in Tasks, NEW to \in Inside,
         call[t] \in Inside, call' = [call EXCEPT ![t] = to],
         to \in Acquiring <=> call[t] \in Acquiring,
         to \in {"gating", "starting", "probing", "undoing", "undone"} => slot' = Cold,
         slot' = slot \/ (slot' = Cold /\ t \in Sessions),
         UNCHANGED <<lease, phase, target, lock, lockQ, idleTimer>>
  PROVE  CoreInv'
<1> USE CoreFacts
<1>0. lock = t
  BY DEF CoreInv, LockInv
<1>1. LeaseInv' /\ TimerInv'
  BY DEF CoreInv, LeaseInv, TimerInv, Inside
<1>2. LockInv'
  BY <1>0 DEF CoreInv, LockInv
<1>3. SessionInv'
  BY DEF CoreInv, SessionInv, Inside, Acquiring
<1>4. QueueInv' /\ OrderInv'
  BY DEF CoreInv, QueueInv, OrderInv, Inside
<1>5. ServedInv'
  BY DEF CoreInv, ServedInv, Inside, Acquiring
<1>6. SlotInv'
  <2>1. \A u \in Tasks : call'[u] \in Inside => u = t
    BY <1>0, <1>2 DEF LockInv
  <2>2. \A u \in Streams : phase'[u] = "use" => slot' = ReasonId
    <3> SUFFICES ASSUME NEW u \in Streams, phase[u] = "use" PROVE slot' = ReasonId
      OBVIOUS
    <3>1. u \in Sessions /\ slot = ReasonId
      BY DEF Sessions, CoreInv, SlotInv, StreamKeepsItsSlot
    <3>2. t \notin Sessions
      BY <3>1 DEF CoreInv, LeaseInv, SessionInv, Inside
    <3> QED BY <3>1, <3>2
  <2> QED BY <2>1, <2>2 DEF SlotInv, StreamKeepsItsSlot, Inside, CallStates
<1> QED BY <1>1, <1>2, <1>3, <1>4, <1>5, <1>6 DEF CoreInv

\* The initial state: nobody waits for anything or holds it.
LEMMA CoreInit == Init => CoreInv
<1> SUFFICES ASSUME Init PROVE CoreInv
  OBVIOUS
<1>1. TypeOK
  BY TypeInit
<1>2. Sessions \subseteq Tasks /\ Nobody \notin Tasks
  BY OrchestratorAssumption DEF Tasks
<1>3. Distinct(<<>>) /\ \A a, b : ~In(<<>>, a) /\ ~Before(<<>>, a, b)
  BY DEF Distinct, In, Before
<1>4. LeaseInv /\ LockInv /\ SessionInv
  BY <1>2 DEF Init, LeaseInv, LockInv, SessionInv, Acquiring, Inside
<1>5. QueueInv /\ OrderInv /\ TimerInv
  BY <1>3 DEF Init, QueueInv, OrderInv, TimerInv
<1>6. ServedInv /\ SlotInv
  BY <1>2 DEF Init, ServedInv, SlotInv, StreamKeepsItsSlot, Acquiring, Inside, Sessions
<1> QED BY <1>1, <1>4, <1>5, <1>6 DEF CoreInv

\* Every step keeps the invariant, one step of the proof per action.
LEMMA CoreStep == CoreInv /\ [Next]_vars => CoreInv'
<1> SUFFICES ASSUME CoreInv, [Next]_vars PROVE CoreInv'
  OBVIOUS
<1> USE CoreFacts
<1>0. TypeOK'
  BY TypeStep DEF CoreInv
<1>e. Distinct(lockQ) /\ \A t \in Tasks : call[t] # "queued" => ~In(lockQ, t)
  BY DEF CoreInv, QueueInv
<1>1. ASSUME NEW s \in Sessions, NEW id \in Wanted(s), Request(s, id) PROVE CoreInv'
  <2> USE <1>1 DEF Request, clients, manager, gpu
  <2>1. LeaseInv' /\ SessionInv'
    BY DEF CoreInv, LeaseInv, SessionInv, Acquiring
  <2>2. LockInv' /\ QueueInv' /\ TimerInv'
    BY DEF CoreInv, LockInv, QueueInv, TimerInv
  <2>3. OrderInv' /\ ServedInv' /\ SlotInv'
    BY DEF CoreInv, OrderInv, ServedInv, SlotInv, StreamKeepsItsSlot, Sessions
  <2> QED BY <1>0, <2>1, <2>2, <2>3 DEF CoreInv
<1>2. ASSUME NEW s \in Sessions, SessionStep(s) PROVE CoreInv'
  <2>1. CASE LeaseGranted(s)
    <3> USE <2>1 DEF LeaseGranted, gpu
    <3>1. phase[s] = "lease" /\ lease = Nobody /\ call[s] = "out" /\ target[s] \in Wanted(s)
      BY DEF NextFor, CoreInv, SessionInv
    <3>2. \A u \in Sessions : phase[u] \notin {"acquire", "use", "cleanup"}
      BY <3>1 DEF CoreInv, LeaseInv
    <3>3. QueueInv' /\ \A a, b : Before(lockQ', a, b) <=> Before(lockQ, a, b) \/ (In(lockQ, a) /\ b = s)
      BY <3>1, JoinFacts
    <3>4. LeaseInv'
      BY <3>1, <3>2 DEF LeaseInv
    <3>5. LockInv' /\ TimerInv'
      BY <3>1 DEF CoreInv, LockInv, TimerInv, Inside
    <3>6. SessionInv'
      BY <3>1, <3>2 DEF CoreInv, SessionInv, Acquiring, Inside
    <3>7. OrderInv'
      BY <3>1, <3>2, <3>3, <1>e, BeforeIn DEF OrderInv
    <3>8. \A t \in Tasks : call'[t] \notin Acquiring
      BY <3>2 DEF CoreInv, SessionInv, Acquiring, Inside
    <3>9. ServedInv' /\ SlotInv'
      BY <3>2, <3>8 DEF ServedInv, SlotInv, StreamKeepsItsSlot, Acquiring, Inside, CallStates, Sessions
    <3> QED BY <1>0, <3>3, <3>4, <3>5, <3>6, <3>7, <3>9 DEF CoreInv
  <2>2. CASE AcquireHit(s)
    <3> USE <2>2 DEF AcquireHit, EnterAcquire, gpu
    <3>0. EnterAcquire(s, "out")
      OBVIOUS
    <3>1. /\ lock = Nobody /\ lease = s /\ call[s] = "queued"
          /\ \A c \in Cancellers : call[c] = "out"
          /\ Distinct(lockQ')
          /\ \A a : In(lockQ', a) <=> In(lockQ, a) /\ a # s /\ a # IdleTask
          /\ \A a, b : Before(lockQ', a, b) => Before(lockQ, a, b)
      BY <3>0, GrantFacts
    <3>2. target[s] \in Wanted(s) /\ slot = target[s]
      BY ResidencyAssumption DEF CoreInv, SessionInv, PlanAcquire, Wanted
    <3>3. LeaseInv' /\ LockInv'
      BY <3>1 DEF CoreInv, LeaseInv, LockInv, Inside
    <3>4. SessionInv'
      BY <3>1 DEF CoreInv, SessionInv, Acquiring, Inside
    <3>5. QueueInv'
      BY <3>1 DEF CoreInv, QueueInv
    <3>6. OrderInv' /\ TimerInv'
      BY <3>1 DEF CoreInv, OrderInv, TimerInv
    <3>7. ServedInv'
      BY <3>1 DEF CoreInv, ServedInv
    <3>8. SlotInv'
      BY <3>1, <3>2, OrchestratorAssumption
      DEF CoreInv, SlotInv, StreamKeepsItsSlot, Wanted, Sessions
    <3> QED BY <1>0, <3>3, <3>4, <3>5, <3>6, <3>7, <3>8 DEF CoreInv
  <2>3. CASE AcquireSwap(s) \/ AcquireCold(s)
    <3>0. PICK next \in {"evicting", "starting"} :
            /\ EnterAcquire(s, next) /\ lock' = s /\ slot' = slot
            /\ next = "starting" => slot = Cold
            /\ UNCHANGED <<lease, phase, target>>
      <4>1. CASE AcquireSwap(s)
        BY <4>1 DEF AcquireSwap, clients
      <4>2. CASE AcquireCold(s)
        BY <4>2, ResidencyAssumption DEF AcquireCold, PlanAcquire, clients
      <4> QED BY <2>3, <4>1, <4>2
    <3>1. /\ lock = Nobody /\ lease = s /\ call[s] = "queued"
          /\ \A c \in Cancellers : call[c] = "out"
          /\ Distinct(lockQ')
          /\ \A a : In(lockQ', a) <=> In(lockQ, a) /\ a # s /\ a # IdleTask
          /\ \A a, b : Before(lockQ', a, b) => Before(lockQ, a, b)
      BY <3>0, GrantFacts
    <3>2. next \in Acquiring
      BY <3>0 DEF Acquiring, Inside, CallStates
    <3> USE <3>0 DEF EnterAcquire
    <3>3. LeaseInv' /\ LockInv'
      BY <3>1, <3>2 DEF CoreInv, LeaseInv, LockInv, Acquiring, Inside
    <3>4. SessionInv'
      BY <3>1, <3>2 DEF CoreInv, SessionInv, Acquiring, Inside
    <3>5. QueueInv'
      BY <3>1 DEF CoreInv, QueueInv
    <3>6. OrderInv' /\ TimerInv'
      BY <3>1 DEF CoreInv, OrderInv, TimerInv
    <3>7. ServedInv'
      BY <3>1 DEF CoreInv, ServedInv
    <3>8. SlotInv'
      BY <3>1 DEF CoreInv, SlotInv, StreamKeepsItsSlot, Sessions
    <3> QED BY <1>0, <3>3, <3>4, <3>5, <3>6, <3>7, <3>8 DEF CoreInv
  <2>4. CASE SwapStops(s) \/ SwapEvicted(s) \/ GatePasses(s) \/ StartReturns(s) \/ ProbeGivesUp(s) \/ UndoStops(s)
    <3>1. \E to \in Acquiring :
            /\ call[s] \in Acquiring /\ call' = [call EXCEPT ![s] = to]
            /\ slot' \in {slot, Cold}
            /\ to \in {"gating", "starting", "probing", "undoing", "undone"} => slot' = Cold
            /\ UNCHANGED <<lease, phase, target, lock, lockQ, idleTimer>>
      <4> USE DEF CoreInv, SlotInv, Acquiring, Inside, CallStates, clients
      <4>1. CASE SwapStops(s) \/ UndoStops(s)
        BY <4>1 DEF SwapStops, UndoStops, ThreadStops
      <4>2. CASE SwapEvicted(s) \/ GatePasses(s)
        BY <4>2 DEF SwapEvicted, GatePasses
      <4>3. CASE StartReturns(s) \/ ProbeGivesUp(s)
        BY <4>3 DEF StartReturns, ProbeGivesUp
      <4> QED BY <2>4, <4>1, <4>2, <4>3
    <3> QED BY <1>0, <3>1, InsideKeeps DEF Acquiring
  <2>5. CASE ProbeReady(s)
    <3> USE <2>5 DEF ProbeReady, gpu
    <3>1. /\ lock = s /\ lease = s /\ phase[s] = "acquire" /\ target[s] \in Wanted(s)
          /\ \A c \in Cancellers : call[c] = "out"
          /\ call[IdleTask] = "out" /\ ~idleTimer
      BY DEF CoreInv, LockInv, SessionInv, ServedInv, LeaseInv, Acquiring, Inside, CallStates
    <3>2. LeaseInv' /\ LockInv'
      BY <3>1 DEF CoreInv, LeaseInv, LockInv, Inside
    <3>3. SessionInv'
      BY <3>1 DEF CoreInv, SessionInv, Acquiring, Inside
    <3>4. QueueInv' /\ OrderInv' /\ TimerInv'
      BY <3>1 DEF CoreInv, QueueInv, OrderInv, TimerInv
    <3>5. ServedInv'
      BY <3>1 DEF CoreInv, ServedInv
    <3>6. SlotInv'
      <4>1. \A t \in Tasks : call'[t] \notin Inside
        BY <3>1, <3>2 DEF LockInv
      <4>2. \A u \in Sessions : phase'[u] = "use" => u = s
        BY <3>1 DEF CoreInv, LeaseInv
      <4> QED BY <4>1, <4>2, <3>1, OrchestratorAssumption
          DEF SlotInv, StreamKeepsItsSlot, Inside, CallStates, Wanted, Sessions
    <3> QED BY <1>0, <3>2, <3>3, <3>4, <3>5, <3>6 DEF CoreInv
  <2>6. CASE AcquireRaises(s)
    <3> USE <2>6 DEF gpu
    <3>1. /\ lock = s /\ lease = s /\ phase[s] = "acquire"
          /\ call[s] \in Acquiring /\ call[s] # "queued"
      BY DEF AcquireRaises, CoreInv, LockInv, SessionInv, LeaseInv, Acquiring, Inside, CallStates
    <3>2. \A u \in Sessions : phase'[u] \notin {"acquire", "use"}
      BY <3>1 DEF AcquireRaises, CoreInv, LeaseInv
    <3>3. LockInv' /\ TimerInv'
      <4>1. CASE s = Runner
        BY <3>1, <4>1 DEF AcquireRaises, CoreInv, LockInv, TimerInv, Inside
      <4>2. CASE s # Runner
        BY <3>1, <4>2 DEF AcquireRaises, CoreInv, LockInv, TimerInv, Inside
      <4> QED BY <4>1, <4>2
    <3>4. LeaseInv' /\ SessionInv'
      <4>1. CASE s = Runner
        BY <3>1, <4>1 DEF AcquireRaises, CoreInv, LeaseInv, SessionInv, Acquiring, Inside
      <4>2. CASE s # Runner
        BY <3>1, <4>2 DEF AcquireRaises, CoreInv, LeaseInv, SessionInv, Acquiring, Inside
      <4> QED BY <4>1, <4>2
    <3>5. QueueInv'
      <4>1. CASE s = Runner
        BY <3>1, <4>1, JoinFacts DEF AcquireRaises
      <4>2. CASE s # Runner
        BY <3>1, <4>2 DEF AcquireRaises, CoreInv, QueueInv
      <4> QED BY <4>1, <4>2
    <3>6. \A t \in Tasks : call'[t] \notin Acquiring
      BY <3>2, <3>4 DEF SessionInv
    <3>7. OrderInv' /\ ServedInv' /\ SlotInv'
      BY <3>2, <3>6
      DEF OrderInv, ServedInv, SlotInv, StreamKeepsItsSlot, Acquiring, Inside, CallStates, Sessions
    <3> QED BY <1>0, <3>3, <3>4, <3>5, <3>7 DEF CoreInv
  <2>7. CASE UseEnds(s)
    <3>1. lease = s /\ call[s] = "out"
      BY <2>7 DEF UseEnds, CoreInv, LeaseInv, SessionInv
    <3>2. \A a : In(lockQ, a) <=> In(lockQ, a) /\ a # s
      BY <3>1, <1>e
    <3> QED BY <2>7, <1>0, <1>e, <3>1, <3>2, LeaveKeeps DEF UseEnds
  <2> QED BY <1>2, <2>1, <2>2, <2>3, <2>4, <2>5, <2>6, <2>7 DEF SessionStep
<1>3. CASE AcquireRaisesCancelled
  <2>1. lease = Runner /\ call[Runner] # "queued"
    BY <1>3 DEF AcquireRaisesCancelled, Inside, CallStates
  <2>2. \A a : In(lockQ, a) <=> In(lockQ, a) /\ a # Runner
    BY <2>1, <1>e
  <2> QED BY <1>3, <1>0, <1>e, <2>1, <2>2, LeaveKeeps DEF AcquireRaisesCancelled
<1>4. CASE WorkRaises
  <2> USE <1>4 DEF WorkRaises, gpu
  <2>1. lease = Runner /\ call[Runner] = "out" /\ target[Runner] \in Wanted(Runner)
    BY DEF CoreInv, LeaseInv, SessionInv
  <2>2. \A u \in Sessions : phase'[u] \notin {"acquire", "use"}
    BY <2>1 DEF CoreInv, LeaseInv
  <2>3. LeaseInv' /\ LockInv' /\ TimerInv'
    BY <2>1 DEF CoreInv, LeaseInv, LockInv, TimerInv, Inside
  <2>4. SessionInv'
    BY <2>1 DEF CoreInv, SessionInv, Acquiring, Inside
  <2>5. QueueInv'
    BY <2>1, JoinFacts
  <2>6. \A t \in Tasks : call'[t] \notin Acquiring
    BY <2>2, <2>4 DEF SessionInv
  <2>7. OrderInv' /\ ServedInv' /\ SlotInv'
    BY <2>2, <2>6
    DEF OrderInv, ServedInv, SlotInv, StreamKeepsItsSlot, Acquiring, Inside, CallStates, Sessions
  <2> QED BY <1>0, <2>3, <2>4, <2>5, <2>7 DEF CoreInv
<1>5. ASSUME NEW c \in Cancellers, CancelRunning(c) PROVE CoreInv'
  <2> USE <1>5 DEF CancelRunning, clients, gpu
  <2>1. lease = Runner /\ c \in Tasks \ Sessions /\ c # IdleTask
    BY DEF CoreInv, LeaseInv
  <2>2. \A u \in Sessions : phase[u] \in {"acquire", "use"} => u = Runner
    BY <2>1 DEF CoreInv, LeaseInv
  <2>3. QueueInv'
    BY <2>1, JoinFacts
  <2>4. LeaseInv' /\ LockInv' /\ TimerInv'
    BY <2>1 DEF CoreInv, LeaseInv, LockInv, TimerInv, Inside
  <2>5. SessionInv'
    BY <2>1 DEF CoreInv, SessionInv, Acquiring, Inside
  <2>6. OrderInv'
    BY <2>2 DEF OrderInv
  <2>7. ServedInv'
    <3>1. \A u \in Sessions : phase[u] = "use" \/ call'[u] \in Acquiring => u = Runner
      BY <2>2, <2>5 DEF SessionInv
    <3> QED BY <3>1, <2>1 DEF CoreInv, ServedInv
  <2>8. SlotInv'
    BY <2>1 DEF CoreInv, SlotInv, StreamKeepsItsSlot
  <2> QED BY <1>0, <2>3, <2>4, <2>5, <2>6, <2>7, <2>8 DEF CoreInv
<1>6. ASSUME NEW t \in Cancellers \cup {Runner, IdleTask}, EvictStep(t) PROVE CoreInv'
  <2>t. t \in Tasks /\ (t \in Sessions => t = Runner)
    OBVIOUS
  <2>n. ASSUME NEW u \in Sessions, phase[u] = "use" \/ call[u] \in Acquiring, call[t] # "out", t # Runner
        PROVE  u = Runner /\ phase[u] = "use" /\ t \in Cancellers
    BY <2>n DEF CoreInv, ServedInv
  <2>1. CASE EvictAllStarts(t)
    <3> USE <2>1 DEF EvictAllStarts, clients, gpu
    <3>1. /\ lock = Nobody /\ call[t] = "queued"
          /\ Tail(lockQ) \in Seq(Tasks) /\ Distinct(Tail(lockQ))
          /\ \A a : In(Tail(lockQ), a) <=> In(lockQ, a) /\ a # t
          /\ \A a, b : Before(Tail(lockQ), a, b) => Before(lockQ, a, b)
      BY <2>t, HeadFacts
    <3>2. t \in Sessions => phase[t] = "cleanup"
      BY <2>t DEF Evictor
    <3>3. LeaseInv' /\ LockInv'
      BY <2>t, <3>1 DEF CoreInv, LeaseInv, LockInv, Inside, CallStates
    <3>4. SessionInv'
      BY <2>t, <3>1, <3>2 DEF CoreInv, SessionInv, Acquiring, Inside
    <3>5. QueueInv' /\ OrderInv' /\ TimerInv'
      BY <2>t, <3>1 DEF CoreInv, QueueInv, OrderInv, TimerInv
    <3>6. ServedInv'
      BY <2>t, <3>1, <3>2 DEF CoreInv, ServedInv, Acquiring, Inside
    <3>7. SlotInv'
      BY <2>t DEF CoreInv, SlotInv, StreamKeepsItsSlot
    <3> QED BY <1>0, <3>3, <3>4, <3>5, <3>6, <3>7 DEF CoreInv
  <2>2. CASE EvictAllStops(t)
    <3>1. /\ call[t] \in Inside \ Acquiring /\ "cleared" \in Inside \ Acquiring
          /\ call' = [call EXCEPT ![t] = "cleared"] /\ slot' = slot
          /\ UNCHANGED <<lease, phase, target, lock, lockQ, idleTimer>>
      BY <2>2 DEF EvictAllStops, ThreadStops, clients, Acquiring, Inside, CallStates
    <3> QED BY <1>0, <2>t, <3>1, InsideKeeps DEF Acquiring
  <2>r. ASSUME NEW q \in Seq(Tasks), Distinct(q), \A a : In(q, a) <=> In(lockQ, a) /\ a # t,
               \A a, b : Before(q, a, b) => Before(lockQ, a, b),
               call[t] # "out", lock \in {t, Nobody}, NEW timer, timer => idleTimer,
               EvictAllReturns(t, q, timer), slot' = Cold, UNCHANGED target
        PROVE  CoreInv'
    <3>1. CASE t = Runner
      <4>1. lease = Runner
        BY <2>r, <3>1 DEF CoreInv, LeaseInv, SessionInv, Phases
      <4>2. slot' \in {slot, Cold} /\ Leave(Runner, q)
        BY <2>r, <3>1 DEF EvictAllReturns
      <4> QED BY <1>0, <2>r, <3>1, <4>1, <4>2, LeaveKeeps
    <3>2. CASE t # Runner
      <4> USE <2>r, <3>2, <2>t DEF EvictAllReturns
      <4>1. LeaseInv' /\ LockInv'
        BY DEF CoreInv, LeaseInv, LockInv, Inside
      <4>2. SessionInv'
        <5>1. t \notin Sessions /\ call' = [call EXCEPT ![t] = "out"] /\ UNCHANGED <<phase, target>>
          OBVIOUS
        <5>2. \A u \in Tasks : call'[u] \in {call[u], "out"}
          BY <5>1
        <5>3. "out" \notin Acquiring
          BY DEF Acquiring, Inside
        <5> QED BY ONLY CoreInv, CoreFacts, <5>1, <5>2, <5>3 DEF CoreInv, SessionInv
      <4>3. QueueInv' /\ OrderInv'
        BY DEF CoreInv, QueueInv, OrderInv
      <4>4. TimerInv'
        BY DEF CoreInv, TimerInv
      <4>5. \A u \in Sessions : phase[u] = "use" \/ call'[u] \in Acquiring => u = Runner /\ phase[u] = "use"
        BY <2>n
      <4>6. ServedInv'
        BY <4>5 DEF CoreInv, ServedInv
      <4>7. SlotInv'
        BY <4>5, OrchestratorAssumption DEF SlotInv, StreamKeepsItsSlot, Sessions
      <4> QED BY <1>0, <4>1, <4>2, <4>3, <4>4, <4>6, <4>7 DEF CoreInv
    <3> QED BY <3>1, <3>2
  <2>3. CASE EvictAllDone(t)
    <3>1. call[t] = "cleared" /\ lock = t
      BY <2>3, <2>t DEF EvictAllDone, CoreInv, LockInv, Inside, CallStates
    <3>2. \A a : In(lockQ, a) <=> In(lockQ, a) /\ a # t
      BY <3>1, <2>t, <1>e
    <3>3. EvictAllReturns(t, lockQ, idleTimer) /\ slot' = Cold /\ UNCHANGED target
      BY <2>3 DEF EvictAllDone
    <3> QED BY <1>e, <2>r, <3>1, <3>2, <3>3
  <2>4. CASE EvictAllEmpty(t)
    <3>1. EvictAllReturns(t, Tail(lockQ), FALSE) /\ slot' = Cold /\ UNCHANGED target
      BY <2>4 DEF EvictAllEmpty
    <3>2. NextFor(lock, lockQ, t)
      BY <2>4 DEF EvictAllEmpty
    <3> QED BY <2>r, <2>t, <3>1, <3>2, HeadFacts
  <2> QED BY <1>6, <2>1, <2>2, <2>3, <2>4 DEF EvictStep
<1>7. CASE IdleFires \/ IdleSkips
  <2>1. PICK to \in {"spawned", "out"} :
          /\ call' = [call EXCEPT ![IdleTask] = to] /\ call[IdleTask] \in {"out", "spawned"}
          /\ to = "spawned" => idleTimer /\ ~idleTimer'
          /\ to = "out" => idleTimer' = idleTimer
          /\ UNCHANGED <<lease, phase, target, lock, lockQ, slot>>
    BY <1>7 DEF IdleFires, IdleSkips, clients, CoreInv, TimerInv
  <2> USE <2>1
  <2>2. LeaseInv' /\ LockInv'
    BY DEF CoreInv, LeaseInv, LockInv, Inside
  <2>3. SessionInv'
    BY DEF CoreInv, SessionInv, Acquiring, Inside
  <2>4. QueueInv' /\ OrderInv' /\ TimerInv'
    BY DEF CoreInv, QueueInv, OrderInv, TimerInv
  <2>5. ServedInv'
    BY DEF CoreInv, ServedInv
  <2>6. SlotInv'
    BY DEF CoreInv, SlotInv, StreamKeepsItsSlot
  <2> QED BY <1>0, <2>2, <2>3, <2>4, <2>5, <2>6 DEF CoreInv
<1>8. CASE IdleRuns
  <2> USE <1>8 DEF IdleRuns, clients, gpu
  <2>1. QueueInv' /\ \A a, b : Before(lockQ', a, b) <=> Before(lockQ, a, b) \/ (In(lockQ, a) /\ b = IdleTask)
    BY JoinFacts
  <2>2. LeaseInv' /\ LockInv' /\ TimerInv'
    BY DEF CoreInv, LeaseInv, LockInv, TimerInv, Inside
  <2>3. SessionInv'
    BY DEF CoreInv, SessionInv, Acquiring, Inside
  <2>4. OrderInv'
    BY <2>1 DEF CoreInv, OrderInv
  <2>5. ServedInv' /\ SlotInv'
    BY DEF CoreInv, ServedInv, SlotInv, StreamKeepsItsSlot, Acquiring
  <2> QED BY <1>0, <2>1, <2>2, <2>3, <2>4, <2>5 DEF CoreInv
<1>9. ASSUME UNCHANGED <<clients, manager>> PROVE CoreInv'
  BY <1>9, <1>0
  DEF clients, manager, CoreInv, LeaseInv, LockInv, SessionInv, QueueInv, OrderInv, TimerInv,
      ServedInv, SlotInv, StreamKeepsItsSlot
<1>10. ASSUME NEW p \in Planes, PlaneCrashes(p) \/ Drains(p) PROVE CoreInv'
  BY <1>9, <1>10 DEF PlaneCrashes, Drains
<1>11. ASSUME NEW s \in Streams, Disconnect(s) PROVE CoreInv'
  <2> USE <1>11 DEF Disconnect
  <2>1. s \in Sessions
    BY DEF Sessions
  <2>2. /\ Distinct(lockQ')
        /\ \A a : In(lockQ', a) <=> In(lockQ, a) /\ a # s
        /\ \A a, b : Before(lockQ', a, b) => Before(lockQ, a, b)
    BY <1>e, WithoutQueue
  <2>3. LeaseInv' /\ LockInv'
    BY <2>1 DEF CoreInv, LeaseInv, LockInv, Inside
  <2>4. SessionInv'
    BY <2>1 DEF CoreInv, SessionInv, Acquiring, Inside
  <2>5. QueueInv'
    BY <2>1, <2>2 DEF CoreInv, QueueInv
  <2>6. OrderInv' /\ TimerInv'
    BY <2>1, <2>2 DEF CoreInv, OrderInv, TimerInv
  <2>7. ServedInv' /\ SlotInv'
    BY <2>1 DEF CoreInv, ServedInv, SlotInv, StreamKeepsItsSlot, Acquiring, Inside, Sessions
  <2> QED BY <1>0, <2>3, <2>4, <2>5, <2>6, <2>7 DEF CoreInv
<1>12. ASSUME NEW x \in strays, StrayReturns(x) PROVE CoreInv'
  BY <1>9, <1>12 DEF StrayReturns
<1>13. CASE ApiRestarts
  <2> USE <1>13 DEF ApiRestarts
  <2>1. Distinct(lockQ') /\ \A a, b : ~In(lockQ', a) /\ ~Before(lockQ', a, b)
    BY DEF Distinct, In, Before
  <2>2. LeaseInv' /\ LockInv' /\ SessionInv'
    BY DEF LeaseInv, LockInv, SessionInv, Acquiring, Inside
  <2>3. QueueInv' /\ OrderInv' /\ TimerInv'
    BY <2>1 DEF QueueInv, OrderInv, TimerInv
  <2>4. ServedInv' /\ SlotInv'
    BY DEF ServedInv, SlotInv, StreamKeepsItsSlot, Acquiring, Inside, Sessions
  <2> QED BY <1>0, <2>2, <2>3, <2>4 DEF CoreInv
<1>14. CASE UNCHANGED vars
  BY <1>9, <1>14 DEF vars
<1> QED
  BY <1>1, <1>2, <1>3, <1>4, <1>5, <1>6, <1>7, <1>8, <1>10, <1>11, <1>12, <1>13, <1>14
  DEF Next

\* The invariant holds in every reachable state, whatever fails.
LEMMA CoreHolds == Spec => []CoreInv
BY CoreInit, CoreStep, PTL DEF Spec

\* A stream that is being served keeps its plane recorded in the slot to its
\* end, whatever fails and whoever cancels: for any number of streams, cancels
\* and checkpoint labels.
THEOREM StreamKeeps == Spec => []StreamKeepsItsSlot
<1>1. CoreInv => StreamKeepsItsSlot
  BY DEF CoreInv, SlotInv
<1> QED BY <1>1, CoreHolds, PTL

-----------------------------------------------------------------------------
(* The orchestrator and the lease implement one slot with one user.        *)

\* The user of the abstract slot: the session in its use phase.
UserOf(ph) ==
  IF \E s \in Sessions : ph[s] = "use" THEN CHOOSE s \in Sessions : ph[s] = "use" ELSE Nobody

\* When one session at most is in its use phase, it is the user.
LEMMA OneUser ==
  ASSUME NEW ph, \A s, u \in Sessions : ph[s] = "use" /\ ph[u] = "use" => s = u
  PROVE  /\ \A s \in Sessions : ph[s] = "use" => UserOf(ph) = s
         /\ (\A s \in Sessions : ph[s] # "use") => UserOf(ph) = Nobody
<1>1. ASSUME NEW s \in Sessions, ph[s] = "use" PROVE UserOf(ph) = s
  <2> DEFINE u == CHOOSE u \in Sessions : ph[u] = "use"
  <2>1. u \in Sessions /\ ph[u] = "use"
    BY <1>1
  <2> QED BY <1>1, <2>1 DEF UserOf
<1>2. ASSUME \A s \in Sessions : ph[s] # "use" PROVE UserOf(ph) = Nobody
  BY <1>2 DEF UserOf
<1> QED BY <1>1, <1>2

\* Every step of the orchestrator is a step of the slot, or leaves it alone.
LEMMA SlotStep ==
  ASSUME CoreInv, CoreInv', [Next]_vars
  PROVE  [Slot!Next]_<<slot, UserOf(phase)>>
<1> USE CoreFacts
<1> DEFINE u == UserOf(phase)
           v == UserOf(phase')
<1>u. /\ \A s \in Sessions : phase[s] = "use" => u = s
      /\ (\A s \in Sessions : phase[s] # "use") => u = Nobody
  BY OneUser DEF CoreInv, LeaseInv
<1>v. /\ \A s \in Sessions : phase'[s] = "use" => v = s
      /\ (\A s \in Sessions : phase'[s] # "use") => v = Nobody
  BY OneUser DEF CoreInv, LeaseInv
<1>w. u' = v
  BY DEF UserOf
<1> HIDE DEF u, v
<1>same. ASSUME \A s \in Sessions : phase[s] = "use" <=> phase'[s] = "use" PROVE v = u
  BY <1>same, <1>u, <1>v
<1>free. ASSUME NEW s \in Sessions, lease = s, phase[s] # "use" PROVE u = Nobody
  BY <1>free, <1>u DEF CoreInv, LeaseInv
<1>s. ASSUME slot' = slot, v = u PROVE [Slot!Next]_<<slot, u>>
  BY <1>s, <1>w
<1>f. ASSUME slot' \in {slot, Cold}, v = Nobody, slot' = Cold \/ slot' = slot
      PROVE  [Slot!Next]_<<slot, u>>
  BY <1>f, <1>w DEF u, UserOf, Slot!Next, Slot!Finish, Slot!Forget
<1>e. ASSUME slot' = Cold, v = u, u \in {Nobody, Runner} PROVE [Slot!Next]_<<slot, u>>
  BY <1>e, <1>w DEF u, UserOf, Slot!Next, Slot!Evict
<1>g. ASSUME NEW s \in Sessions, NEW id \in Wanted(s), u = Nobody, slot \in {Cold, id}, slot' = id, v = s
      PROVE  [Slot!Next]_<<slot, u>>
  BY <1>g, <1>w DEF u, UserOf, Slot!Next, Slot!Serve, Slot!IdsOf, Wanted, Sessions
<1>l. ASSUME NEW s \in Sessions, NEW q, Leave(s, q), lease = s, slot' \in {slot, Cold}
      PROVE  [Slot!Next]_<<slot, u>>
  <2>1. \A x \in Sessions : phase'[x] # "use"
    BY <1>l DEF Leave, CoreInv, LeaseInv
  <2> QED BY <1>f, <1>l, <1>v, <2>1
<1>1. ASSUME NEW s \in Sessions, NEW id \in Wanted(s), Request(s, id) PROVE [Slot!Next]_<<slot, u>>
  BY <1>1, <1>same, <1>s DEF Request, manager
<1>2. ASSUME NEW s \in Sessions, SessionStep(s) PROVE [Slot!Next]_<<slot, u>>
  <2>1. CASE LeaseGranted(s)
    BY <2>1, <1>same, <1>s DEF LeaseGranted
  <2>2. CASE AcquireHit(s)
    <3>1. lease = s /\ phase[s] = "acquire" /\ target[s] \in Wanted(s)
      BY <2>2 DEF AcquireHit, EnterAcquire, CoreInv, LeaseInv, SessionInv
    <3>2. slot = target[s] /\ slot' = slot /\ phase'[s] = "use"
      BY <2>2, <3>1, ResidencyAssumption DEF AcquireHit, PlanAcquire, Wanted
    <3> QED BY <1>free, <1>v, <1>g, <3>1, <3>2
  <2>3. CASE AcquireSwap(s) \/ AcquireCold(s)
    BY <2>3, <1>same, <1>s DEF AcquireSwap, AcquireCold, clients
  <2>4. CASE SwapStops(s) \/ UndoStops(s)
    BY <2>4, <1>same, <1>s DEF SwapStops, UndoStops, ThreadStops, clients
  <2>5. CASE SwapEvicted(s)
    <3>1. lease = s /\ phase[s] = "acquire" /\ slot' = Cold /\ phase' = phase
      BY <2>5 DEF SwapEvicted, clients, CoreInv, LeaseInv, SessionInv, Acquiring, Inside, CallStates
    <3> QED BY <1>free, <1>same, <1>e, <3>1
  <2>6. CASE GatePasses(s) \/ StartReturns(s) \/ ProbeGivesUp(s)
    BY <2>6, <1>same, <1>s DEF GatePasses, StartReturns, ProbeGivesUp, clients
  <2>7. CASE ProbeReady(s)
    <3>1. lease = s /\ phase[s] = "acquire" /\ target[s] \in Wanted(s) /\ slot = Cold
      BY <2>7 DEF ProbeReady, CoreInv, LeaseInv, SessionInv, SlotInv, Acquiring, Inside, CallStates
    <3>2. slot' = target[s] /\ phase'[s] = "use"
      BY <2>7 DEF ProbeReady
    <3> QED BY <1>free, <1>v, <1>g, <3>1, <3>2
  <2>8. CASE AcquireRaises(s)
    <3>1. lease = s /\ phase[s] = "acquire" /\ slot' = slot
      BY <2>8 DEF AcquireRaises, CoreInv, LeaseInv, SessionInv, Acquiring, Inside, CallStates
    <3>2. \A x \in Sessions : phase[x] = "use" <=> phase'[x] = "use"
      BY <2>8, <3>1 DEF AcquireRaises
    <3> QED BY <1>same, <1>s, <3>1, <3>2
  <2>9. CASE UseEnds(s)
    BY <2>9, <1>l DEF UseEnds, CoreInv, LeaseInv
  <2> QED BY <1>2, <2>1, <2>2, <2>3, <2>4, <2>5, <2>6, <2>7, <2>8, <2>9 DEF SessionStep
<1>3. ASSUME AcquireRaisesCancelled PROVE [Slot!Next]_<<slot, u>>
  <2>1. lease = Runner
    BY <1>3 DEF AcquireRaisesCancelled, Inside, CallStates
  <2> QED BY <1>3, <1>l, <2>1 DEF AcquireRaisesCancelled
<1>4. ASSUME WorkRaises PROVE [Slot!Next]_<<slot, u>>
  <2>1. slot' = slot /\ \A x \in Sessions : phase'[x] # "use"
    BY <1>4 DEF WorkRaises, CoreInv, LeaseInv
  <2>2. v = Nobody
    BY <1>v, <2>1
  <2> QED BY <1>f, <2>1, <2>2
<1>5. ASSUME NEW c \in Cancellers, CancelRunning(c) PROVE [Slot!Next]_<<slot, u>>
  BY <1>5, <1>same, <1>s DEF CancelRunning, clients
<1>6. ASSUME NEW t \in Cancellers \cup {Runner, IdleTask}, EvictStep(t) PROVE [Slot!Next]_<<slot, u>>
  <2>1. CASE EvictAllStarts(t) \/ EvictAllStops(t)
    BY <2>1, <1>same, <1>s DEF EvictAllStarts, EvictAllStops, ThreadStops, clients
  <2>2. CASE EvictAllDone(t) \/ EvictAllEmpty(t)
    <3>1. t \in Tasks /\ call[t] # "out" /\ slot' = Cold
          /\ \E q, timer : EvictAllReturns(t, q, timer)
      BY <2>2, HeadFacts DEF EvictAllDone, EvictAllEmpty
    <3>2. CASE t = Runner
      <4>1. lease = Runner
        BY <3>1, <3>2 DEF CoreInv, LeaseInv, SessionInv, Phases
      <4> QED BY <3>1, <3>2, <4>1, <1>l DEF EvictAllReturns
    <3>3. CASE t # Runner
      <4>1. phase' = phase
        BY <3>1, <3>3 DEF EvictAllReturns
      <4>2. \A x \in Sessions : phase[x] = "use" => x = Runner
        BY <3>1, <3>3 DEF CoreInv, ServedInv
      <4>3. u \in {Nobody, Runner}
        BY <4>2, <1>u
      <4> QED BY <3>1, <4>1, <4>3, <1>same, <1>e
    <3> QED BY <3>2, <3>3
  <2> QED BY <1>6, <2>1, <2>2 DEF EvictStep
<1>7. ASSUME IdleFires \/ IdleSkips \/ IdleRuns PROVE [Slot!Next]_<<slot, u>>
  BY <1>7, <1>same, <1>s DEF IdleFires, IdleSkips, IdleRuns, clients
<1>8. ASSUME UNCHANGED <<clients, manager>> PROVE [Slot!Next]_<<slot, u>>
  BY <1>8, <1>same, <1>s DEF clients, manager
<1>9. ASSUME NEW p \in Planes, PlaneCrashes(p) \/ Drains(p) PROVE [Slot!Next]_<<slot, u>>
  BY <1>8, <1>9 DEF PlaneCrashes, Drains
<1>10. ASSUME NEW s \in Streams, Disconnect(s) PROVE [Slot!Next]_<<slot, u>>
  <2>1. \A x \in Sessions : phase[x] = "use" <=> phase'[x] = "use"
    BY <1>10 DEF Disconnect, Sessions
  <2> QED BY <1>10, <2>1, <1>same, <1>s DEF Disconnect
<1>11. ASSUME NEW x \in strays, StrayReturns(x) PROVE [Slot!Next]_<<slot, u>>
  BY <1>8, <1>11 DEF StrayReturns
<1>12. ASSUME ApiRestarts PROVE [Slot!Next]_<<slot, u>>
  <2>1. slot' = Cold /\ \A x \in Sessions : phase'[x] # "use"
    BY <1>12 DEF ApiRestarts
  <2>2. v = Nobody
    BY <1>v, <2>1
  <2> QED BY <1>f, <2>1, <2>2
<1>13. ASSUME UNCHANGED vars PROVE [Slot!Next]_<<slot, u>>
  BY <1>8, <1>13 DEF vars
<1>14. [Slot!Next]_<<slot, u>>
  BY <1>1, <1>2, <1>3, <1>4, <1>5, <1>6, <1>7, <1>9, <1>10, <1>11, <1>12, <1>13 DEF Next
<1> QED BY <1>14 DEF u

\* The orchestrator with its lease implements GpuSlot, whatever fails: one user
\* at a time, who finds the identity it asked for, the slot emptied in between,
\* and no eviction under a stream.
THEOREM RefinesGpuSlot == Spec => ImplementsGpuSlot
<1>1. Init => Slot!Init
  <2> SUFFICES ASSUME Init PROVE slot = Cold /\ UserOf(phase) = Nobody
    BY DEF Slot!Init, UserOf
  <2> QED BY DEF Init, UserOf
<1>2. CoreInv /\ CoreInv' /\ [Next]_vars => [Slot!Next]_<<slot, UserOf(phase)>>
  BY SlotStep
<1>3. CoreInv /\ CoreInv' /\ [Next]_vars
        => [Slot!Next]_<<slot, IF \E s \in Sessions : phase[s] = "use"
                               THEN CHOOSE s \in Sessions : phase[s] = "use"
                               ELSE Nobody>>
  BY <1>2 DEF UserOf
<1> QED BY <1>1, <1>3, CoreHolds, PTL DEF Spec, ImplementsGpuSlot, Slot!Spec

-----------------------------------------------------------------------------
(* Keep-warm.                                                              *)

\* As long as no client goes away inside acquire, every step that leaves the
\* GPU warm and unused leaves its eviction pending.
LEMMA WarmStep ==
  ASSUME "disconnect" \notin Faults, CoreInv, CoreInv', WarmPlaneIsTimed, [Next]_vars
  PROVE  WarmPlaneIsTimed'
<1> USE CoreFacts
<1>s. ASSUME slot' = Cold \/ lease' # Nobody \/ lock' # Nobody PROVE WarmPlaneIsTimed'
  BY <1>s DEF WarmPlaneIsTimed
<1>u. ASSUME UNCHANGED <<lease, slot, idleTimer, call, lock, lockQ>> PROVE WarmPlaneIsTimed'
  BY <1>u DEF WarmPlaneIsTimed
<1>l. ASSUME NEW s \in Sessions, NEW q, Leave(s, q) PROVE WarmPlaneIsTimed'
  BY <1>l DEF Leave, TimerAfterUse, WarmPlaneIsTimed
<1>1. ASSUME NEW s \in Sessions, NEW id \in Wanted(s), Request(s, id) PROVE WarmPlaneIsTimed'
  BY <1>1, <1>u DEF Request, manager
<1>2. ASSUME NEW s \in Sessions, SessionStep(s) PROVE WarmPlaneIsTimed'
  <2>n. s # Nobody
    OBVIOUS
  <2>1. CASE LeaseGranted(s)
    BY <2>1, <2>n, <1>s DEF LeaseGranted
  <2>2. CASE AcquireHit(s)
    <3>1. lease = s /\ lease' = lease
      BY <2>2 DEF AcquireHit, EnterAcquire, CoreInv, LeaseInv
    <3> QED BY <3>1, <2>n, <1>s
  <2>3. CASE AcquireSwap(s) \/ AcquireCold(s)
    <3>1. lock' = s
      BY <2>3 DEF AcquireSwap, AcquireCold
    <3> QED BY <3>1, <2>n, <1>s
  <2>4. CASE \/ SwapStops(s) \/ UndoStops(s) \/ SwapEvicted(s) \/ GatePasses(s)
             \/ StartReturns(s) \/ ProbeReady(s) \/ ProbeGivesUp(s)
    <3>1. lease' = lease /\ call[s] \in Inside
      BY <2>4 DEF SwapStops, UndoStops, SwapEvicted, GatePasses, StartReturns, ProbeReady,
                  ProbeGivesUp, ThreadStops, clients, Inside, CallStates
    <3> QED BY <3>1, <2>n, <1>s
  <2>5. CASE AcquireRaises(s)
    <3>1. slot' = slot /\ call[s] \in {"gating", "starting", "undone"}
      BY <2>5 DEF AcquireRaises
    <3>2. slot = Cold
      BY <3>1 DEF CoreInv, SlotInv
    <3> QED BY <3>1, <3>2, <1>s
  <2>6. CASE UseEnds(s)
    BY <2>6, <1>l DEF UseEnds
  <2> QED BY <1>2, <2>1, <2>2, <2>3, <2>4, <2>5, <2>6 DEF SessionStep
<1>3. ASSUME AcquireRaisesCancelled PROVE WarmPlaneIsTimed'
  BY <1>3, <1>l DEF AcquireRaisesCancelled
<1>4. ASSUME WorkRaises PROVE WarmPlaneIsTimed'
  <2>1. lease = Runner /\ lease' = lease
    BY <1>4 DEF WorkRaises, CoreInv, LeaseInv
  <2> QED BY <2>1, <1>s
<1>5. ASSUME NEW c \in Cancellers, CancelRunning(c) PROVE WarmPlaneIsTimed'
  <2>1. lease = Runner /\ lease' = lease
    BY <1>5 DEF CancelRunning, clients, CoreInv, LeaseInv
  <2> QED BY <2>1, <1>s
<1>6. ASSUME NEW t \in Cancellers \cup {Runner, IdleTask}, EvictStep(t) PROVE WarmPlaneIsTimed'
  <2>1. CASE EvictAllStarts(t)
    BY <2>1, <1>s DEF EvictAllStarts
  <2>2. CASE EvictAllStops(t)
    <3>1. lock' = lock /\ call[t] \in Inside
      BY <2>2 DEF EvictAllStops, ThreadStops, Inside, CallStates
    <3> QED BY <3>1, <1>s DEF CoreInv, LockInv
  <2>3. CASE EvictAllDone(t) \/ EvictAllEmpty(t)
    BY <2>3, <1>s DEF EvictAllDone, EvictAllEmpty
  <2> QED BY <1>6, <2>1, <2>2, <2>3 DEF EvictStep
<1>7. ASSUME IdleFires \/ IdleSkips \/ IdleRuns PROVE WarmPlaneIsTimed'
  <2>1. CASE IdleSkips
    BY <2>1, <1>s DEF IdleSkips
  <2>2. CASE IdleFires \/ IdleRuns
    <3>1. call'[IdleTask] # "out"
      BY <2>2 DEF IdleFires, IdleRuns
    <3> QED BY <3>1 DEF WarmPlaneIsTimed
  <2> QED BY <1>7, <2>1, <2>2
<1>8. ASSUME NEW p \in Planes, PlaneCrashes(p) \/ Drains(p) PROVE WarmPlaneIsTimed'
  BY <1>8, <1>u DEF PlaneCrashes, Drains, clients, manager
<1>9. ASSUME NEW s \in Streams, Disconnect(s) PROVE WarmPlaneIsTimed'
  BY <1>9 DEF Disconnect
<1>10. ASSUME NEW x \in strays, StrayReturns(x) PROVE WarmPlaneIsTimed'
  BY <1>10, <1>u DEF StrayReturns, clients, manager
<1>11. ASSUME ApiRestarts PROVE WarmPlaneIsTimed'
  BY <1>11, <1>s DEF ApiRestarts
<1>12. ASSUME UNCHANGED vars PROVE WarmPlaneIsTimed'
  BY <1>12, <1>u DEF vars, clients, manager
<1> QED BY <1>1, <1>2, <1>3, <1>4, <1>5, <1>6, <1>7, <1>8, <1>9, <1>10, <1>11, <1>12 DEF Next

\* Keep-warm: unless a client goes away in mid-acquire, a resident plane that no
\* session is using has its eviction pending in every reachable state, whatever
\* else fails.
THEOREM WarmIsTimed ==
  ASSUME "disconnect" \notin Faults
  PROVE  Spec => []WarmPlaneIsTimed
<1>1. Init => WarmPlaneIsTimed
  BY DEF Init, WarmPlaneIsTimed
<1>2. CoreInv /\ CoreInv' /\ WarmPlaneIsTimed /\ [Next]_vars => WarmPlaneIsTimed'
  BY WarmStep
<1> QED BY <1>1, <1>2, CoreHolds, PTL DEF Spec

-----------------------------------------------------------------------------
(* At most one plane on the GPU.                                           *)

\* A plane that holds VRAM is the slot's, or the one an acquire is bringing up.
AccountedFor(p) ==
  \/ slot # Cold /\ p = PlaneOf(slot)
  \/ \E s \in Sessions : call[s] \in {"probing", "undoing"} /\ p = PlaneOf(target[s])

\* Every plane with VRAM is accounted for, one whose eviction is over has none,
\* and what a cancelled task may leave running is a stop, never a start.
PlaneInv ==
  /\ \A p \in Planes : plane[p] # "down" => AccountedFor(p)
  /\ \A t \in Tasks : call[t] \in {"evicted", "cleared"} => plane[PlaneOf(slot)] = "down"
  /\ \A x \in strays : x.kind = "evict"

\* A stop that works leaves the container down.
LEMMA CleanStop ==
  ASSUME Faults \subseteq {"crash"}, NEW p \in Planes
  PROVE  StopOutcomes(p) = {"down"}
BY DEF StopOutcomes

\* Two planes with VRAM would both be the slot's or that of the one acquire
\* under way.
LEMMA OneAccounted == CoreInv /\ PlaneInv => AtMostOnePlane
<1> SUFFICES ASSUME CoreInv, PlaneInv, NEW p \in Planes, NEW q \in Planes,
                    plane[p] # "down", plane[q] # "down"
             PROVE  p = q
  BY DEF AtMostOnePlane
<1> USE CoreFacts
<1>1. AccountedFor(p) /\ AccountedFor(q)
  BY DEF PlaneInv
<1>2. \A s, t \in Sessions :
        call[s] \in {"probing", "undoing"} /\ call[t] \in {"probing", "undoing"} => s = t
  BY DEF CoreInv, LockInv, Inside, CallStates
<1>3. \A s \in Sessions : call[s] \in {"probing", "undoing"} => slot = Cold
  BY DEF CoreInv, SlotInv
<1> QED BY <1>1, <1>2, <1>3 DEF AccountedFor

\* With the slot empty and no acquire bringing a plane up, the GPU is free.
LEMMA NothingLoaded ==
  ASSUME CoreInv, PlaneInv, slot = Cold,
         \A s \in Sessions : call[s] \notin {"probing", "undoing"}
  PROVE  \A p \in Planes : plane[p] = "down"
BY DEF PlaneInv, AccountedFor

\* When an eviction is over the GPU is free.
LEMMA EvictedIsFree ==
  ASSUME CoreInv, PlaneInv, NEW t \in Tasks, call[t] \in {"evicted", "cleared"}
  PROVE  \A p \in Planes : plane[p] = "down"
<1> USE CoreFacts
<1>1. \A s \in Sessions : call[s] \in {"probing", "undoing"} => s = t
  BY DEF CoreInv, LockInv, Inside, CallStates
<1>2. \A s \in Sessions : call[s] \notin {"probing", "undoing"}
  BY <1>1
<1>3. plane[PlaneOf(slot)] = "down"
  BY DEF PlaneInv
<1> QED BY <1>2, <1>3 DEF PlaneInv, AccountedFor

\* A step that starts no container keeps every plane accounted for when it
\* leaves the slot and the acquires that are bringing a plane up as they were.
LEMMA PlanesKept ==
  ASSUME PlaneInv, slot' = slot,
         \A p \in Planes : plane'[p] # "down" => plane[p] # "down",
         \A s \in Sessions : call[s] \in {"probing", "undoing"} =>
            call'[s] \in {"probing", "undoing"} /\ target'[s] = target[s],
         \A t \in Tasks : call'[t] \in {"evicted", "cleared"} =>
            call[t] \in {"evicted", "cleared"} \/ plane'[PlaneOf(slot)] = "down",
         \A x \in strays' : x.kind = "evict",
         plane \in [Planes -> PlaneStates], plane' \in [Planes -> PlaneStates]
  PROVE  PlaneInv'
<1>1. \A p \in Planes : plane'[p] # "down" => AccountedFor(p)'
  BY DEF PlaneInv, AccountedFor
<1>2. PlaneOf(slot) \in Planes
  BY PlaneOfType
<1>3. \A t \in Tasks : call'[t] \in {"evicted", "cleared"} => plane'[PlaneOf(slot')] = "down"
  BY <1>2 DEF PlaneInv
<1> QED BY <1>1, <1>3 DEF PlaneInv

\* A step that leaves the GPU free.
LEMMA FreeKept ==
  ASSUME \A p \in Planes : plane'[p] = "down", \A x \in strays' : x.kind = "evict"
  PROVE  PlaneInv'
BY PlaneOfType DEF PlaneInv

\* A session that leaves keeps every plane accounted for, evicting or not.
LEMMA LeaveAccounts ==
  ASSUME CoreInv, PlaneInv, NEW s \in Sessions, NEW q, Leave(s, q),
         UNCHANGED <<target, plane>>, TypeOK,
         call[s] \notin {"probing", "undoing"},
         slot' = slot \/ \A p \in Planes : plane[p] = "down"
  PROVE  PlaneInv'
<1> USE CoreFacts
<1>1. \A x \in strays' : x.kind = "evict"
  BY DEF Leave, Stray, PlaneInv
<1>2. CASE slot' = slot
  <2>1. \A t \in Tasks : call'[t] = call[t] \/ call'[t] = "out"
    BY DEF Leave
  <2>2. \A u \in Sessions : call[u] \in {"probing", "undoing"} => call'[u] = call[u]
    BY DEF Leave
  <2>3. plane \in [Planes -> PlaneStates]
    BY DEF TypeOK
  <2> QED BY <1>1, <1>2, <2>1, <2>2, <2>3, PlanesKept
<1>3. CASE \A p \in Planes : plane[p] = "down"
  BY <1>1, <1>3, FreeKept
<1> QED BY <1>2, <1>3

\* Every step keeps the planes accounted for as long as planes may crash and
\* nothing else fails.
LEMMA PlaneStep ==
  ASSUME Faults \subseteq {"crash"}, CoreInv, PlaneInv, TypeOK', [Next]_vars
  PROVE  PlaneInv'
<1> USE CoreFacts
<1>p. plane \in [Planes -> PlaneStates] /\ plane' \in [Planes -> PlaneStates]
  BY DEF CoreInv, TypeOK
<1>x. \A x \in strays : x.kind = "evict"
  BY DEF PlaneInv
<1>k. ASSUME slot' = slot, plane' = plane, strays' = strays,
             \A t \in Tasks : call'[t] = call[t] \/
                (call[t] \notin {"probing", "undoing"} /\ call'[t] \notin {"evicted", "cleared"}),
             \A s \in Sessions : call[s] \in {"probing", "undoing"} => target'[s] = target[s]
      PROVE  PlaneInv'
  BY <1>k, <1>p, <1>x, PlanesKept
<1>t. ASSUME NEW t \in Tasks, NEW from, NEW to, NEW p \in Planes, ThreadStops(t, from, to, p)
      PROVE  /\ call[t] = from /\ plane' = [plane EXCEPT ![p] = "down"]
             /\ call' = [call EXCEPT ![t] = to]
             /\ UNCHANGED <<clients, lock, slot, strays>>
  BY <1>t, CleanStop DEF ThreadStops
<1>1. ASSUME NEW s \in Sessions, NEW id \in Wanted(s), Request(s, id) PROVE PlaneInv'
  <2>1. \A u \in Sessions : call[u] \in {"probing", "undoing"} => target'[u] = target[u]
    BY <1>1 DEF Request, CoreInv, SessionInv
  <2> QED BY <1>1, <1>k, <2>1 DEF Request, manager, gpu
<1>2. ASSUME NEW s \in Sessions, SessionStep(s) PROVE PlaneInv'
  <2>1. CASE LeaseGranted(s)
    <3>1. call[s] = "out"
      BY <2>1 DEF LeaseGranted, CoreInv, SessionInv
    <3> QED BY <2>1, <3>1, <1>k DEF LeaseGranted, gpu
  <2>2. CASE AcquireHit(s) \/ AcquireSwap(s) \/ AcquireCold(s)
    <3>1. /\ \E next \in {"out", "evicting", "starting"} : EnterAcquire(s, next)
          /\ UNCHANGED <<target, slot, gpu>>
      BY <2>2 DEF AcquireHit, AcquireSwap, AcquireCold, clients
    <3>2. PICK next \in {"out", "evicting", "starting"} : EnterAcquire(s, next)
      BY <3>1
    <3>3. \A t \in Tasks : call[t] \notin Inside
      BY <3>2, GrantFacts DEF CoreInv, LockInv
    <3>4. \A t \in Tasks : call'[t] = call[t] \/ call'[t] \in {"out", "evicting", "starting"}
      BY <3>2 DEF EnterAcquire
    <3> QED BY <3>1, <3>3, <3>4, <1>k DEF gpu, Inside, CallStates
  <2>3. CASE SwapStops(s)
    <3>0. PlaneOf(slot) \in Planes
      BY PlaneOfType
    <3>1. /\ call[s] = "evicting" /\ plane' = [plane EXCEPT ![PlaneOf(slot)] = "down"]
          /\ call' = [call EXCEPT ![s] = "evicted"] /\ UNCHANGED <<clients, slot, strays>>
      BY <2>3, <3>0, <1>t DEF SwapStops
    <3> QED BY <3>0, <3>1, <1>p, <1>x, PlanesKept DEF clients
  <2>4. CASE SwapEvicted(s)
    <3>1. \A p \in Planes : plane[p] = "down"
      BY <2>4, EvictedIsFree DEF SwapEvicted
    <3> QED BY <2>4, <3>1, <1>x, FreeKept DEF SwapEvicted, gpu
  <2>5. CASE GatePasses(s)
    BY <2>5, <1>k DEF GatePasses, clients, gpu
  <2>6. CASE StartReturns(s)
    <3>1. call[s] = "starting" /\ slot = Cold /\ lock = s
      BY <2>6 DEF StartReturns, CoreInv, SlotInv, LockInv, Inside, CallStates
    <3>2. \A t \in Tasks : call[t] \in Inside => t = s
      BY <3>1 DEF CoreInv, LockInv
    <3>3. \A p \in Planes : plane[p] = "down"
      BY <3>1, <3>2, NothingLoaded DEF Inside, CallStates
    <3>4. call'[s] = "probing" /\ target' = target
          /\ \A p \in Planes : plane'[p] # "down" => p = PlaneOf(target[s])
      BY <2>6, <3>3, <1>p, PlaneOfType DEF StartReturns, clients
    <3>5. \A p \in Planes : plane'[p] # "down" => AccountedFor(p)'
      BY <3>4 DEF AccountedFor
    <3>6. \A t \in Tasks : call'[t] \notin {"evicted", "cleared"}
      BY <2>6, <3>2 DEF StartReturns, Inside, CallStates
    <3> QED BY <2>6, <3>5, <3>6, <1>x DEF StartReturns, PlaneInv
  <2>7. CASE ProbeReady(s)
    <3>1. call[s] = "probing" /\ slot = Cold /\ lock = s /\ target[s] # Cold
      BY <2>7, ResidencyAssumption DEF ProbeReady, CoreInv, SlotInv, LockInv, SessionInv, Inside, Acquiring,
                          CallStates, Wanted
    <3>2. \A t \in Tasks : call[t] \in Inside => t = s
      BY <3>1 DEF CoreInv, LockInv
    <3>3. \A p \in Planes : plane[p] # "down" => p = PlaneOf(target[s])
      BY <3>1, <3>2 DEF PlaneInv, AccountedFor, Inside, CallStates
    <3>4. \A p \in Planes : plane'[p] # "down" => AccountedFor(p)'
      BY <2>7, <3>1, <3>3 DEF AccountedFor, ProbeReady, gpu
    <3>5. \A t \in Tasks : call'[t] \notin {"evicted", "cleared"}
      BY <2>7, <3>2 DEF ProbeReady, Inside, CallStates
    <3> QED BY <2>7, <3>4, <3>5, <1>x DEF ProbeReady, gpu, PlaneInv
  <2>8. CASE ProbeGivesUp(s)
    BY <2>8, <1>p, <1>x, PlanesKept DEF ProbeGivesUp, clients, gpu
  <2>9. CASE UndoStops(s)
    <3>0. PlaneOf(target[s]) \in Planes
      BY PlaneOfType
    <3>1. /\ call[s] = "undoing" /\ plane' = [plane EXCEPT ![PlaneOf(target[s])] = "down"]
          /\ call' = [call EXCEPT ![s] = "undone"] /\ UNCHANGED <<clients, slot, strays>>
      BY <2>9, <3>0, <1>t DEF UndoStops
    <3>2. slot = Cold /\ \A t \in Sessions : call[t] \in {"probing", "undoing"} => t = s
      BY <3>1 DEF CoreInv, SlotInv, LockInv, Inside, CallStates
    <3>3. \A p \in Planes : plane[p] # "down" => p = PlaneOf(target[s])
      BY <3>2 DEF PlaneInv, AccountedFor
    <3>4. \A p \in Planes : plane'[p] = "down"
      BY <3>0, <3>1, <3>3, <1>p
    <3> QED BY <3>1, <3>4, <1>x, FreeKept
  <2>10. CASE AcquireRaises(s)
    <3>1. /\ \A t \in Tasks : call'[t] = call[t] \/ (t = s /\ call'[t] \in {"queued", "out"})
          /\ call[s] \in {"gating", "starting", "undone"}
          /\ UNCHANGED <<target, slot, gpu>>
      BY <2>10 DEF AcquireRaises
    <3> QED BY <3>1, <1>k DEF gpu
  <2>11. CASE UseEnds(s)
    <3>1. call[s] = "out"
      BY <2>11 DEF UseEnds, CoreInv, SessionInv
    <3> QED BY <2>11, <3>1, LeaveAccounts DEF UseEnds, CoreInv
  <2> QED BY <1>2, <2>1, <2>2, <2>3, <2>4, <2>5, <2>6, <2>7, <2>8, <2>9, <2>10, <2>11 DEF SessionStep
<1>3. ASSUME AcquireRaisesCancelled PROVE PlaneInv'
  BY <1>3, LeaveAccounts DEF AcquireRaisesCancelled, CoreInv
<1>4. ASSUME WorkRaises PROVE PlaneInv'
  <2>1. call[Runner] = "out"
    BY <1>4 DEF WorkRaises, CoreInv, SessionInv
  <2> QED BY <1>4, <2>1, <1>k DEF WorkRaises, gpu
<1>5. ASSUME NEW c \in Cancellers, CancelRunning(c) PROVE PlaneInv'
  BY <1>5, <1>k DEF CancelRunning, clients, gpu
<1>6. ASSUME NEW t \in Cancellers \cup {Runner, IdleTask}, EvictStep(t) PROVE PlaneInv'
  <2>0. t \in Tasks
    OBVIOUS
  <2>1. CASE EvictAllStarts(t)
    <3>1. call[t] = "queued"
      BY <2>0, <2>1, HeadFacts DEF EvictAllStarts
    <3> QED BY <2>1, <3>1, <1>k DEF EvictAllStarts, clients, gpu
  <2>2. CASE EvictAllStops(t)
    <3>0. PlaneOf(slot) \in Planes
      BY PlaneOfType
    <3>1. /\ call[t] = "clearing" /\ plane' = [plane EXCEPT ![PlaneOf(slot)] = "down"]
          /\ call' = [call EXCEPT ![t] = "cleared"] /\ UNCHANGED <<clients, slot, strays>>
      BY <2>0, <2>2, <3>0, <1>t DEF EvictAllStops
    <3> QED BY <2>0, <3>0, <3>1, <1>p, <1>x, PlanesKept DEF clients
  <2>3. CASE EvictAllDone(t) \/ EvictAllEmpty(t)
    <3>1. /\ \E q, timer : EvictAllReturns(t, q, timer)
          /\ slot' = Cold /\ UNCHANGED <<target, plane>>
      BY <2>3 DEF EvictAllDone, EvictAllEmpty
    <3>2. call[t] \in {"cleared", "queued"}
      BY <2>0, <2>3, HeadFacts DEF EvictAllDone, EvictAllEmpty
    <3>3. slot' = slot \/ \A p \in Planes : plane[p] = "down"
      <4>1. CASE EvictAllDone(t)
        BY <4>1, <2>0, EvictedIsFree DEF EvictAllDone
      <4>2. CASE EvictAllEmpty(t)
        BY <4>2 DEF EvictAllEmpty
      <4> QED BY <2>3, <4>1, <4>2
    <3>4. CASE t = Runner
      BY <3>1, <3>2, <3>3, <3>4, LeaveAccounts DEF EvictAllReturns, CoreInv
    <3>5. CASE t # Runner
      <4>1. strays' = strays /\ call' = [call EXCEPT ![t] = "out"]
        BY <3>1, <3>5 DEF EvictAllReturns
      <4>2. CASE slot' = slot
        BY <2>0, <3>1, <3>2, <4>1, <4>2, <1>k
      <4>3. CASE \A p \in Planes : plane[p] = "down"
        BY <3>1, <4>1, <4>3, <1>x, FreeKept
      <4> QED BY <3>3, <4>2, <4>3
    <3> QED BY <3>4, <3>5
  <2> QED BY <1>6, <2>1, <2>2, <2>3 DEF EvictStep
<1>7. ASSUME IdleFires \/ IdleSkips \/ IdleRuns PROVE PlaneInv'
  <2>1. call[IdleTask] \in {"out", "spawned"}
    BY <1>7 DEF IdleFires, IdleSkips, IdleRuns, CoreInv, TimerInv
  <2>2. /\ \A t \in Tasks : call'[t] = call[t] \/ (t = IdleTask /\ call'[t] \in {"spawned", "queued", "out"})
        /\ UNCHANGED <<target, slot, plane, strays>>
    BY <1>7 DEF IdleFires, IdleSkips, IdleRuns, clients, gpu
  <2> QED BY <2>1, <2>2, <1>k
<1>8. ASSUME NEW p \in Planes, PlaneCrashes(p) \/ Drains(p) PROVE PlaneInv'
  <2>1. /\ \A q \in Planes : plane'[q] # "down" => plane[q] # "down"
        /\ UNCHANGED <<target, slot, call, strays>>
    BY <1>8, <1>p DEF PlaneCrashes, Drains, clients, manager
  <2> QED BY <2>1, <1>p, <1>x, PlanesKept
<1>9. ASSUME NEW s \in Streams, Disconnect(s) PROVE PlaneInv'
  BY <1>9 DEF Disconnect
<1>10. ASSUME NEW x \in strays, StrayReturns(x) PROVE PlaneInv'
  <2>1. /\ \A q \in Planes : plane'[q] # "down" => plane[q] # "down"
        /\ UNCHANGED <<target, slot, call>> /\ strays' \subseteq strays
    <3>1. x.plane \in Planes /\ x.kind = "evict"
      BY <1>x DEF CoreInv, TypeOK
    <3>2. plane' = [plane EXCEPT ![x.plane] = "down"]
      BY <1>10, <3>1, CleanStop DEF StrayReturns
    <3> QED BY <1>10, <3>1, <3>2, <1>p DEF StrayReturns, clients, manager
  <2> QED BY <2>1, <1>p, <1>x, PlanesKept
<1>11. ASSUME ApiRestarts PROVE PlaneInv'
  BY <1>11 DEF ApiRestarts
<1>12. ASSUME UNCHANGED vars PROVE PlaneInv'
  BY <1>12, <1>k DEF vars, clients, manager, gpu
<1> QED BY <1>1, <1>2, <1>3, <1>4, <1>5, <1>6, <1>7, <1>8, <1>9, <1>10, <1>11, <1>12 DEF Next

\* The planes stay accounted for.
LEMMA PlanesAccounted ==
  ASSUME Faults \subseteq {"crash"}
  PROVE  Spec => []PlaneInv
<1>1. Init => PlaneInv
  BY DEF Init, PlaneInv
<1>2. CoreInv /\ CoreInv' /\ PlaneInv /\ [Next]_vars => PlaneInv'
  BY PlaneStep DEF CoreInv
<1> QED BY <1>1, <1>2, CoreHolds, PTL DEF Spec

\* FR-8: when stops work and no client leaves in mid-acquire, at most one
\* container holds VRAM in every reachable state, for any number of sessions,
\* cancels and checkpoint labels, planes crashing at any time.
THEOREM AtMostOne ==
  ASSUME Faults \subseteq {"crash"}
  PROVE  Spec => []AtMostOnePlane
BY CoreHolds, PlanesAccounted, OneAccounted, PTL

\* A container comes up from an acquire, with the GPU free.
LEMMA LoadStep ==
  ASSUME Faults \subseteq {"crash"}, CoreInv, PlaneInv, [Next]_vars,
         NEW p \in Planes, NEW q \in Planes,
         plane[p] # "up", plane'[p] = "up", plane[q] # "down"
  PROVE  p = q
<1> USE CoreFacts
<1>p. plane \in [Planes -> PlaneStates]
  BY DEF CoreInv, TypeOK
<1>d. ASSUME \E x \in Planes : plane' = [plane EXCEPT ![x] = "down"] PROVE FALSE
  BY <1>d, <1>p
<1>u. ASSUME plane' = plane PROVE FALSE
  BY <1>u
<1>t. ASSUME NEW t, NEW from, NEW to, NEW x \in Planes, ThreadStops(t, from, to, x) PROVE FALSE
  BY <1>t, <1>d, CleanStop DEF ThreadStops
<1>1. ASSUME NEW s \in Sessions, NEW id \in Wanted(s), Request(s, id) PROVE FALSE
  BY <1>1, <1>u DEF Request, gpu
<1>2. ASSUME NEW s \in Sessions, SessionStep(s), ~StartReturns(s) PROVE FALSE
  <2>1. CASE SwapStops(s) \/ UndoStops(s)
    BY <2>1, <1>t, PlaneOfType DEF SwapStops, UndoStops
  <2>2. CASE ~(SwapStops(s) \/ UndoStops(s))
    BY <1>2, <2>2, <1>u
    DEF SessionStep, LeaseGranted, AcquireHit, AcquireSwap, AcquireCold, SwapEvicted, GatePasses,
        ProbeReady, ProbeGivesUp, AcquireRaises, UseEnds, gpu
  <2> QED BY <2>1, <2>2
<1>3. ASSUME NEW s \in Sessions, StartReturns(s) PROVE FALSE \/ p = q
  <2>1. call[s] = "starting" /\ slot = Cold /\ lock = s
    BY <1>3 DEF StartReturns, CoreInv, SlotInv, LockInv, Inside, CallStates
  <2>2. \A t \in Tasks : call[t] \in Inside => t = s
    BY <2>1 DEF CoreInv, LockInv
  <2> QED BY <2>1, <2>2, NothingLoaded DEF Inside, CallStates
<1>4. ASSUME \/ AcquireRaisesCancelled \/ WorkRaises \/ IdleFires \/ IdleSkips \/ IdleRuns \/ ApiRestarts
             \/ \E c \in Cancellers : CancelRunning(c)
      PROVE FALSE
  BY <1>4, <1>u DEF AcquireRaisesCancelled, WorkRaises, IdleFires, IdleSkips, IdleRuns, ApiRestarts,
                    CancelRunning, gpu
<1>5. ASSUME NEW t \in Cancellers \cup {Runner, IdleTask}, EvictStep(t) PROVE FALSE
  <2>1. CASE EvictAllStops(t)
    BY <2>1, <1>t, PlaneOfType DEF EvictAllStops
  <2>2. CASE ~EvictAllStops(t)
    BY <1>5, <2>2, <1>u DEF EvictStep, EvictAllStarts, EvictAllDone, EvictAllEmpty, gpu
  <2> QED BY <2>1, <2>2
<1>6. ASSUME NEW x \in Planes, PlaneCrashes(x) \/ Drains(x) PROVE FALSE
  BY <1>6, <1>d DEF PlaneCrashes, Drains
<1>7. ASSUME NEW s \in Streams, Disconnect(s) PROVE FALSE
  BY <1>7 DEF Disconnect
<1>8. ASSUME NEW x \in strays, StrayReturns(x) PROVE FALSE
  <2>1. x.plane \in Planes /\ x.kind = "evict"
    BY DEF CoreInv, TypeOK, PlaneInv
  <2> QED BY <1>8, <2>1, <1>d, CleanStop DEF StrayReturns
<1>9. ASSUME UNCHANGED vars PROVE FALSE
  BY <1>9, <1>u DEF vars, gpu
<1> QED BY <1>1, <1>2, <1>3, <1>4, <1>5, <1>6, <1>7, <1>8, <1>9 DEF Next

\* RK-15: under the same hypotheses no plane is ever loaded on top of VRAM that
\* another still holds.  Where a stop may fail the code does load on top of it:
\* evict_all does not poll the VRAM.
THEOREM LoadsWhenFree ==
  ASSUME Faults \subseteq {"crash"}
  PROVE  Spec => LoadsIntoFreeVram
<1>1. CoreInv /\ PlaneInv /\ [Next]_vars =>
        [\A p, q \in Planes : plane[p] # "up" /\ plane'[p] = "up" /\ plane[q] # "down" => p = q]_vars
  BY LoadStep
<1> QED BY <1>1, CoreHolds, PlanesAccounted, PTL DEF Spec, LoadsIntoFreeVram

=============================================================================
