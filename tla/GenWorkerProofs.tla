--------------------------- MODULE GenWorkerProofs ---------------------------
(***************************************************************************)
(* What the diffusers engine promises for every number of jobs, of steps   *)
(* and every choice of requests.                                           *)
(*                                                                         *)
(* WorkerInv is the inductive invariant.  The runner, the manager and the  *)
(* process know of each other through the ready-file, the socket's path    *)
(* and the frames only; the invariant says what each of these tells of the *)
(* others' state at every moment, also after a crash, a time-out or a      *)
(* cancel.                                                                 *)
(***************************************************************************)
EXTENDS GenerationEngines, RequestEdgeProofs, FiniteSetTheorems, SequenceTheorems

ClientSteps == {"idle", "acquire", "unready", "connect", "read", "returned", "raised", "cleanup"}
States == {"absent", "torn", "whole", "muxed"}

\* What a job may keep: the mapped parameters of a request the edge accepts.
Takeable == {JobParams(Mapped(r)) :
               r \in {q \in UNION {TaskRequests[n] : n \in 1..MaxTasks} : Verdict(q) = "ok"}}

TaskRecords ==
  [params : Takeable, status : Over \cup {"queued", "running"}, names : SUBSET Artifacts]
Frames == [type : {"progress", "failure", "result"}, names : SUBSET Artifacts]
Links == [task : 0..MaxTasks, open : BOOLEAN, unread : BOOLEAN, frames : Seq(Frames), closed : BOOLEAN]

\* What is left to be written, at any point of any reply.
Todos == {<<>>, <<"raise">>, <<"png">>, <<"npy">>, <<"mp4">>, <<"json">>, <<"mp4", "json">>, <<"mux">>,
          <<"wav", "mux">>, <<"mp4", "wav", "mux">>, <<"png", "npy">>, <<"mp4", "npy">>,
          <<"mux", "npy">>, <<"wav", "mux", "npy">>, <<"mp4", "wav", "mux", "npy">>}
Runs == [steps : 0..Steps, todo : Todos, names : SUBSET Artifacts]

StrongTypeOK ==
  /\ task \in Seq(TaskRecords) /\ Len(task) <= MaxTasks
  /\ client \in ClientSteps /\ manager \in {"none", "starting", "up", "term", "kill"}
  /\ leader \in Alive \cup {"dead"} /\ path \in {"absent", "stale", "live"} /\ ready \in BOOLEAN
  /\ link \in Links /\ run \in Runs
  /\ file \in [1..MaxTasks -> [Artifacts -> States]]
  /\ faults \in 0..MaxTasks

\* The runner's view: how far the last job is, whose plane is up, and whose
\* connection is the last one.
RunnerInv ==
  /\ client # "idle" => Now # 0
  /\ client \in {"acquire", "unready"} => task[Now].status = "queued"
  /\ client \in {"connect", "read", "returned", "raised"} => task[Now].status \in {"running", "cancelled"}
  /\ client = "cleanup" => task[Now].status = "failed"
  /\ client = "idle" /\ Now # 0 => task[Now].status \in Over
  /\ \A n \in DOMAIN task : n # Now => task[n].status \in Over
  /\ manager = "starting" => client = "acquire"
  /\ client \in {"connect", "read", "returned", "raised"} => (manager = "up" <=> ~Cancelled)
  /\ client \in {"unready", "cleanup"} => manager \notin {"up", "starting"}
  /\ link.task <= Now
  /\ client \in {"acquire", "unready", "connect"} => link.task # Now
  /\ client \in {"read", "returned"} => link.task = Now
  /\ client = "read" => link.open

\* The process's view: what the ready-file and the path say of it.
Busy == leader \in {"running", "encoding", "failing"}
ProcessInv ==
  /\ leader \in {"loading", "warming", "warm", "bound"} => ~ready /\ manager # "up"
  /\ leader = "bound" => path = "live"
  /\ leader = "serving" \/ Busy => path = "live" /\ ready
  /\ leader = "dead" => path # "live" /\ ~link.unread
  /\ manager = "none" => leader = "dead"
  /\ (Busy \/ link.unread) /\ manager \in {"starting", "up"} => client \in {"read", "raised"}
  /\ client = "connect" => ~Busy /\ ~link.unread
  /\ Busy => ~link.unread
  /\ Busy \/ link.unread => link.task # 0 /\ ~link.closed

\* The files a reply names.
Complete(names, n) == names # {} /\ \A f \in names : file[n][f] \in {"whole", "muxed"}
Settled(n) == n = link.task => ~Busy /\ ~link.unread

\* Nothing is on the disk for a job that has not been served.
Blank ==
  /\ \A n \in 1..MaxTasks : n > link.task => file[n] = NoFiles
  /\ link.unread \/ leader = "running" => file[link.task] = NoFiles

\* Files are written in the order of the reply, and named when they are whole.
Written ==
  /\ leader = "running" => run.names = {}
  /\ leader = "encoding" =>
       /\ \A f \in run.names : file[link.task][f] \in {"whole", "muxed"}
       /\ run.todo = <<>> \/ Head(run.todo) \in {"npy", "wav", "mux"} => run.names # {}
       /\ run.todo # <<>> /\ Head(run.todo) \in {"wav", "mux"} => "mp4" \in run.names
       /\ file[link.task].mp4 = "muxed" => run.todo \in {<<>>, <<"npy">>}
MuxedOnce == \A n \in 1..MaxTasks : file[n].mp4 = "muxed" => file[n].wav = "absent"

\* What a result names is complete, and nobody writes it any more.
Delivered ==
  \A i \in DOMAIN link.frames : link.frames[i].type = "result" =>
    Complete(link.frames[i].names, link.task) /\ Settled(link.task)
Finished ==
  /\ client = "returned" => Complete(task[Now].names, Now) /\ Settled(Now)
  /\ \A n \in DOMAIN task : task[n].status = "succeeded" => Complete(task[n].names, n) /\ Settled(n)

FileInv == Blank /\ Written /\ MuxedOnce /\ Delivered /\ Finished

\* The jobs whose failure is a fault's, and whether a fault that has been
\* counted has yet to cost its job.
Sane(p) == ~Misdeclared(p) /\ ~Unconvertible(p)
Lost == {n \in DOMAIN task : task[n].status = "failed" /\ Sane(task[n].params)}
Waits == client \in {"read", "raised"} /\ ~Cancelled /\ Sane(TaskParams)
Fails == \/ client = "raised" \/ leader = "failing"
         \/ \E i \in DOMAIN link.frames : link.frames[i].type = "failure"
Owed == \/ client = "unready"
        \/ manager \in {"starting", "up"} /\ leader = "dead"
        \/ Waits /\ Fails
Paid == faults = MaxTasks \/ Cardinality(Lost) + (IF Owed THEN 1 ELSE 0) <= faults

\* A connection that the worker closed ends with its answer.
Answered ==
  client = "read" /\ ~Cancelled /\ link.closed /\ leader # "dead"
    => link.frames # <<>> /\ link.frames[Len(link.frames)].type # "progress"

CostInv == Paid /\ Answered

WorkerInv == StrongTypeOK /\ RunnerInv /\ ProcessInv /\ FileInv /\ CostInv

-----------------------------------------------------------------------------
(* The requests and the replies.                                           *)

\* A job keeps what a request that passed the edge was mapped to.
LEMMA TakenRequest ==
  ASSUME NEW p \in Takeable
  PROVE  \E r \in AnyRequest : Verdict(r) = "ok" /\ p = JobParams(Mapped(r))
<1>1. PICK r \in UNION {TaskRequests[n] : n \in 1..MaxTasks} :
        Verdict(r) = "ok" /\ p = JobParams(Mapped(r))
  BY DEF Takeable
<1>2. r \in AnyRequest
  BY <1>1, WorkerAssumption
<1> QED BY <1>1, <1>2

\* resolve_within, a second time, finds no path the edge did not find
\* (gen_client.build_request after jobs_router): media put into a file is under
\* the job's own directory.
LEMMA TakenIsTrusted ==
  ASSUME NEW p \in Takeable
  PROVE  PathError(p) = "ok"
<1>1. PICK r \in AnyRequest : Verdict(r) = "ok" /\ p = JobParams(Mapped(r))
  BY TakenRequest
<1>2. PathError(Mapped(r)) = "ok"
  BY <1>1, EdgeChecks DEF Verdict
<1>3. p.path = [k \in Kinds |-> IF k = Mapped(r).media.kind THEN "inline" ELSE Mapped(r).path[k]]
  BY <1>1 DEF JobParams
<1> QED BY <1>2, <1>3 DEF PathError

\* The worker's second validation of an action request sees what the edge saw:
\* media has become a path, null is the default, and a tensor as wide as it was
\* declared has the width of the embodiment.
LEMMA ActionIsServable ==
  ASSUME NEW r \in AnyRequest, Verdict(r) = "ok", NEW p, p = JobParams(Mapped(r)), Sane(p),
         p.mode \in ActionModes
  PROVE  GenerateActionError(p) = "ok"
<1> DEFINE m == Mapped(r)
           a == SpecOf(ToActionRequest(p))
<1>1. EdgeError(m) = "ok"
  BY DEF Verdict
<1>2. p.mode = m.mode /\ p.domain = m.domain /\ p.chunk = m.chunk /\ p.tier = m.tier
      /\ p.width = m.width /\ p.rows = m.rows
      /\ p.path = [k \in Kinds |-> IF k = m.media.kind THEN "inline" ELSE m.path[k]]
  BY DEF JobParams
<1>3. m.rows \in Nat \cup {Missing}
  <2>1. CASE r.route = "jobs"
    BY <2>1 DEF Mapped, AnyRequest
  <2>2. CASE r.route # "jobs" /\ r.mode \in ActionModes
    BY <2>2 DEF Mapped, MappedAction, AnyRequest
  <2>3. CASE r.route # "jobs" /\ r.mode \notin ActionModes
    BY <2>3 DEF Mapped, MappedGeneration, AnyRequest
  <2> QED BY <2>1, <2>2, <2>3
<1> HIDE DEF m
<1>4. ActionError(m) = "ok" /\ m.mode \in ActionModes
  BY <1>1, <1>2, EdgeChecks
<1>5. ActionIsFine(m)
  BY <1>4, ActionChecks
<1>6. m.tier # Null /\ (m.mode = "forward_dynamics" => m.rows = m.width)
  BY <1>2 DEF Sane, Misdeclared, Unconvertible
<1>7. ~IntFails(m.chunk) /\ ~IntFails(m.tier)
  BY <1>4, <1>6, ActionIsConditioned DEF IntFails
<1>8. a.mode = m.mode /\ a.domain = m.domain /\ a.chunk = Get(m.chunk, 0) /\ a.tier = Get(m.tier, 480)
      /\ a.width = m.rows /\ a.path = p.path /\ a.media.kind = "none"
  BY <1>2 DEF SpecOf, ToActionRequest
<1> HIDE DEF a
<1>9. (Has(a, "image") <=> Has(m, "image")) /\ (Has(a, "video") <=> Has(m, "video"))
  BY <1>2, <1>8 DEF Has, Kinds
<1>10. IntOr(a.chunk, 0) = IntOr(m.chunk, 0) /\ IntOr(a.tier, 480) = IntOr(m.tier, 480)
       /\ a.chunk # NotInt /\ a.tier # NotInt /\ a.width # NotInt
  BY <1>3, <1>7, <1>8 DEF IntOr, Get, IntFails, Missing, Null, NotInt
<1>11. a.mode = "forward_dynamics" => a.width = Width[a.domain] /\ a.width \notin {Missing, Null}
  BY <1>5, <1>6, <1>8 DEF ActionIsFine
<1>12. ActionIsFine(a)
  BY <1>5, <1>8, <1>9, <1>10, <1>11 DEF ActionIsFine
<1>13. ActionError(a) = "ok"
  BY <1>12, ActionChecks
<1>14. Convertible(p)
  BY <1>2, <1>4, <1>7 DEF Convertible
<1> QED BY <1>13, <1>14 DEF GenerateActionError, a

\* The worker refuses no job whose actions are as wide as declared and whose
\* parameters int() takes (gen_worker.dispatch after jobs_router).
LEMMA SaneIsServed ==
  ASSUME NEW p \in Takeable, Sane(p)
  PROVE  Dispatch(BuildRequest(p, WantLatents)) = "ok"
<1>1. PICK r \in AnyRequest : Verdict(r) = "ok" /\ p = JobParams(Mapped(r))
  BY TakenRequest
<1> DEFINE q == BuildRequest(p, WantLatents)
<1>2. q.params = p /\ q.kind = IF p.mode \in ActionModes THEN "action" ELSE "generation"
  BY DEF BuildRequest
<1> HIDE DEF q
<1>3. CASE p.mode \in ActionModes
  <2>1. GenerateActionError(p) = "ok"
    BY <1>1, <1>3, ActionIsServable
  <2> QED BY <1>2, <1>3, <2>1 DEF Dispatch, q
<1>4. CASE p.mode \notin ActionModes
  <2> DEFINE m == Mapped(r)
  <2>1. m.mode \in Modes /\ OutputError(m) = "ok"
    BY <1>1, EdgeChecks DEF Verdict
  <2>2. p.mode = m.mode /\ p.resolution = m.resolution /\ p.height = m.height /\ p.wide = m.wide
        /\ p.frames = m.frames
    BY <1>1 DEF JobParams
  <2> HIDE DEF m
  <2>3. Convertible(p)
    BY <1>4, <2>1, <2>2, NumbersAreChecked DEF Convertible, IntFails, Sane, Unconvertible
  <2>4. p.mode \in GenerationModes
    BY <1>4, <2>1, <2>2 DEF Modes
  <2> QED BY <1>2, <1>4, <2>3, <2>4 DEF Dispatch, GenerateError, q
<1> QED BY <1>3, <1>4

\* The ends of short sequences.
LEMMA Ends ==
  ASSUME NEW a, NEW b, NEW c, NEW d
  PROVE  /\ <<a>> # <<>> /\ Head(<<a>>) = a /\ Tail(<<a>>) = <<>>
         /\ <<a, b>> # <<>> /\ Head(<<a, b>>) = a /\ Tail(<<a, b>>) = <<b>>
         /\ <<a, b, c>> # <<>> /\ Head(<<a, b, c>>) = a /\ Tail(<<a, b, c>>) = <<b, c>>
         /\ <<a, b, c, d>> # <<>> /\ Head(<<a, b, c, d>>) = a /\ Tail(<<a, b, c, d>>) = <<b, c, d>>
<1>1. <<a>> # <<>> /\ Head(<<a>>) = a /\ Tail(<<a>>) = <<>>
  OBVIOUS
<1>2. <<a, b>> # <<>> /\ Head(<<a, b>>) = a /\ Tail(<<a, b>>) = <<b>>
  OBVIOUS
<1>3. <<a, b, c>> # <<>> /\ Head(<<a, b, c>>) = a /\ Tail(<<a, b, c>>) = <<b, c>>
  OBVIOUS
<1>4. <<a, b, c, d>> # <<>> /\ Head(<<a, b, c, d>>) = a /\ Tail(<<a, b, c, d>>) = <<b, c, d>>
  OBVIOUS
<1> QED BY <1>1, <1>2, <1>3, <1>4

\* Two of them, one after the other.
LEMMA Glued ==
  ASSUME NEW a, NEW b, NEW c, NEW d
  PROVE  /\ <<a>> \o <<>> = <<a>> /\ <<a>> \o <<d>> = <<a, d>>
         /\ <<a, b, c>> \o <<>> = <<a, b, c>> /\ <<a, b, c>> \o <<d>> = <<a, b, c, d>>
<1> DEFINE S == {a, b, c, d}
           u == <<a>> \o <<d>>
           v == <<a, b, c>> \o <<d>>
<1>1. <<a>> \o <<>> = <<a>> /\ <<a, b, c>> \o <<>> = <<a, b, c>>
  OBVIOUS
<1>2. u = <<a, d>>
  <2>1. <<a>> \in Seq(S) /\ <<d>> \in Seq(S) /\ <<a, d>> \in Seq(S)
    OBVIOUS
  <2>2. u \in Seq(S) /\ Len(u) = 2
    BY <2>1, ConcatProperties
  <2>3. u[1] = a /\ u[2] = d
    BY <2>1, ConcatProperties
  <2> HIDE DEF u
  <2>4. Len(<<a, d>>) = 2 /\ \A i \in 1..2 : u[i] = <<a, d>>[i]
    BY <2>3
  <2> QED BY <2>1, <2>2, <2>4, SeqEqual
<1>3. v = <<a, b, c, d>>
  <2>1. <<a, b, c>> \in Seq(S) /\ <<d>> \in Seq(S) /\ <<a, b, c, d>> \in Seq(S)
    OBVIOUS
  <2>2. v \in Seq(S) /\ Len(v) = 4
    BY <2>1, ConcatProperties
  <2>3. v[1] = a /\ v[2] = b /\ v[3] = c /\ v[4] = d
    BY <2>1, ConcatProperties
  <2> HIDE DEF v
  <2>4. Len(<<a, b, c, d>>) = 4 /\ \A i \in 1..4 : v[i] = <<a, b, c, d>>[i]
    BY <2>3
  <2> QED BY <2>1, <2>2, <2>4, SeqEqual
<1> QED BY <1>1, <1>2, <1>3

\* The replies as they begin: something to write, and not the sound first.
Begun == {<<"raise">>, <<"png">>, <<"mp4">>, <<"json">>, <<"mp4", "json">>, <<"png", "npy">>,
          <<"mp4", "npy">>, <<"mp4", "wav", "mux">>, <<"mp4", "wav", "mux", "npy">>}

\* What the encoders of jobs/artifacts.py write for a generation.
LEMMA GenerationReplies ==
  ASSUME NEW p, NEW result
  PROVE  EncodeGenerationReply(p, result) \in Begun
<1> DEFINE latents == IF WantLatents THEN <<"npy">> ELSE <<>>
<1>1. <<"png">> \o latents \in Begun /\ <<"mp4">> \o latents \in Begun
      /\ <<"mp4", "wav", "mux">> \o latents \in Begun
  <2>1. <<"png">> \o <<"npy">> = <<"png", "npy">> /\ <<"png">> \o <<>> = <<"png">>
    BY Glued
  <2>2. <<"mp4">> \o <<"npy">> = <<"mp4", "npy">> /\ <<"mp4">> \o <<>> = <<"mp4">>
    BY Glued
  <2>3. <<"mp4", "wav", "mux">> \o <<"npy">> = <<"mp4", "wav", "mux", "npy">>
        /\ <<"mp4", "wav", "mux">> \o <<>> = <<"mp4", "wav", "mux">>
    BY Glued
  <2>4. CASE WantLatents
    BY <2>1, <2>2, <2>3, <2>4, Zenon DEF Begun
  <2>5. CASE ~WantLatents
    BY <2>1, <2>2, <2>3, <2>5, Zenon DEF Begun
  <2> QED BY <2>4, <2>5
<1> HIDE DEF latents
<1>2. WithAudio(result.sound) = <<"mp4", "wav", "mux">> \/ WithAudio(result.sound) = <<"mp4">>
  BY DEF WithAudio
<1> DEFINE head == CASE p.mode = "t2i"       -> <<"png">>
                     [] p.mode = "t2v_audio" -> WithAudio(result.sound)
                     [] OTHER                -> <<"mp4">>
<1>3. head = <<"png">> \/ head = <<"mp4">> \/ head = <<"mp4", "wav", "mux">>
  BY <1>2
<1>4. EncodeGenerationReply(p, result) = IF ~result.frames THEN <<"raise">> ELSE head \o latents
  BY DEF EncodeGenerationReply, latents
<1> HIDE DEF head
<1>5. <<"raise">> \in Begun
  BY DEF Begun
<1> QED BY <1>1, <1>3, <1>4, <1>5, Zenon

\* And for an action.
LEMMA ActionReplies ==
  ASSUME NEW p, NEW result
  PROVE  EncodeActionReply(p, result) \in Begun
BY DEF EncodeActionReply, Begun

\* A reply begins with what it is named after; what has begun is left to do.
LEMMA BegunReplies ==
  ASSUME NEW t \in Begun
  PROVE  t \in Todos /\ t # <<>> /\ Head(t) \notin {"npy", "wav", "mux"}
<1>1. CASE t = <<"raise">>
  BY <1>1, Ends DEF Todos
<1>2. CASE t = <<"png">>
  BY <1>2, Ends DEF Todos
<1>3. CASE t = <<"mp4">>
  BY <1>3, Ends DEF Todos
<1>4. CASE t = <<"json">>
  BY <1>4, Ends DEF Todos
<1>5. CASE t = <<"mp4", "json">>
  BY <1>5, Ends DEF Todos
<1>6. CASE t = <<"png", "npy">>
  BY <1>6, Ends DEF Todos
<1>7. CASE t = <<"mp4", "npy">>
  BY <1>7, Ends DEF Todos
<1>8. CASE t = <<"mp4", "wav", "mux">>
  BY <1>8, Ends DEF Todos
<1>9. CASE t = <<"mp4", "wav", "mux", "npy">>
  BY <1>9, Ends DEF Todos
<1> QED BY <1>1, <1>2, <1>3, <1>4, <1>5, <1>6, <1>7, <1>8, <1>9 DEF Begun

\* The order in which a reply is written: the sound follows its video, the mux
\* follows the sound, and nothing but the latents comes after it.
LEMMA TodoOrder ==
  ASSUME NEW t \in Todos, t # <<>>
  PROVE  /\ Tail(t) \in Todos
         /\ Head(t) = "mux" => Tail(t) \in {<<>>, <<"npy">>}
         /\ Head(t) = "wav" => Tail(t) # <<>> /\ Head(Tail(t)) = "mux"
                               /\ Tail(Tail(t)) \in {<<>>, <<"npy">>}
         /\ Tail(t) # <<>> /\ Head(Tail(t)) = "wav" => Head(t) = "mp4"
         /\ Tail(t) # <<>> /\ Head(Tail(t)) = "mux" => Head(t) = "wav"
<1>1. CASE t = <<"raise">>
  BY <1>1, Ends DEF Todos
<1>2. CASE t = <<"png">>
  BY <1>2, Ends DEF Todos
<1>3. CASE t = <<"npy">>
  BY <1>3, Ends DEF Todos
<1>4. CASE t = <<"mp4">>
  BY <1>4, Ends DEF Todos
<1>5. CASE t = <<"json">>
  BY <1>5, Ends DEF Todos
<1>6. CASE t = <<"mp4", "json">>
  BY <1>6, Ends DEF Todos
<1>7. CASE t = <<"mux">>
  BY <1>7, Ends DEF Todos
<1>8. CASE t = <<"wav", "mux">>
  BY <1>8, Ends DEF Todos
<1>9. CASE t = <<"mp4", "wav", "mux">>
  BY <1>9, Ends DEF Todos
<1>10. CASE t = <<"png", "npy">>
  BY <1>10, Ends DEF Todos
<1>11. CASE t = <<"mp4", "npy">>
  BY <1>11, Ends DEF Todos
<1>12. CASE t = <<"mux", "npy">>
  BY <1>12, Ends DEF Todos
<1>13. CASE t = <<"wav", "mux", "npy">>
  BY <1>13, Ends DEF Todos
<1>14. CASE t = <<"mp4", "wav", "mux", "npy">>
  BY <1>14, Ends DEF Todos
<1> QED BY <1>1, <1>2, <1>3, <1>4, <1>5, <1>6, <1>7, <1>8, <1>9, <1>10, <1>11, <1>12, <1>13, <1>14 DEF Todos

-----------------------------------------------------------------------------
(* The record of the last job.                                             *)

\* While the runner is at work there is one.
LEMMA TheJob ==
  ASSUME StrongTypeOK, Now # 0
  PROVE  /\ Now \in DOMAIN task /\ Now \in 1..MaxTasks /\ DOMAIN task = 1..Now
         /\ task[Now] \in TaskRecords /\ TaskParams \in Takeable
<1>1. Now \in Nat /\ Now <= MaxTasks /\ DOMAIN task = 1..Now
  BY DEF StrongTypeOK, Now
<1>2. Now \in 1..Now /\ Now \in 1..MaxTasks
  BY <1>1, WorkerAssumption
<1>3. task[Now] \in TaskRecords
  BY <1>1, <1>2 DEF StrongTypeOK
<1> QED BY <1>1, <1>2, <1>3 DEF TaskRecords, TaskParams

\* Its status changes.
LEMMA JobMoves ==
  ASSUME StrongTypeOK, Now # 0, NEW s \in Over \cup {"queued", "running"},
         task' = [task EXCEPT ![Now].status = s]
  PROVE  /\ task' \in Seq(TaskRecords) /\ Now' = Now /\ DOMAIN task' = DOMAIN task
         /\ task'[Now].status = s /\ task'[Now].params = task[Now].params
         /\ task'[Now].names = task[Now].names
         /\ \A n \in DOMAIN task : n # Now => task'[n] = task[n]
         /\ \A n \in DOMAIN task : task'[n].params = task[n].params /\ task'[n].names = task[n].names
<1> DEFINE e == [task[Now] EXCEPT !.status = s]
<1>1. Now \in DOMAIN task /\ task[Now] \in TaskRecords
  BY TheJob
<1>2. e \in TaskRecords /\ e.status = s /\ e.params = task[Now].params /\ e.names = task[Now].names
  BY <1>1 DEF TaskRecords
<1>3. task' = [task EXCEPT ![Now] = e]
  OBVIOUS
<1> HIDE DEF e
<1>4. /\ task' \in Seq(TaskRecords) /\ Len(task') = Len(task) /\ DOMAIN task' = DOMAIN task
      /\ task'[Now] = e /\ \A n \in DOMAIN task : Now # n => task'[n] = task[n]
  BY <1>1, <1>2, <1>3, Update DEF StrongTypeOK
<1> QED BY <1>1, <1>2, <1>4 DEF Now

\* The result is stored.
LEMMA JobNames ==
  ASSUME StrongTypeOK, Now # 0, NEW names \in SUBSET Artifacts,
         task' = [task EXCEPT ![Now].names = names]
  PROVE  /\ task' \in Seq(TaskRecords) /\ Now' = Now /\ DOMAIN task' = DOMAIN task
         /\ task'[Now].names = names /\ task'[Now].params = task[Now].params
         /\ \A n \in DOMAIN task : n # Now => task'[n] = task[n]
         /\ \A n \in DOMAIN task : task'[n].params = task[n].params /\ task'[n].status = task[n].status
<1> DEFINE e == [task[Now] EXCEPT !.names = names]
<1>1. Now \in DOMAIN task /\ task[Now] \in TaskRecords
  BY TheJob
<1>2. e \in TaskRecords /\ e.status = task[Now].status /\ e.params = task[Now].params /\ e.names = names
  BY <1>1 DEF TaskRecords
<1>3. task' = [task EXCEPT ![Now] = e]
  OBVIOUS
<1> HIDE DEF e
<1>4. /\ task' \in Seq(TaskRecords) /\ Len(task') = Len(task) /\ DOMAIN task' = DOMAIN task
      /\ task'[Now] = e /\ \A n \in DOMAIN task : Now # n => task'[n] = task[n]
  BY <1>1, <1>2, <1>3, Update DEF StrongTypeOK
<1> QED BY <1>1, <1>2, <1>4 DEF Now

\* A job is taken.
LEMMA JobTaken ==
  ASSUME StrongTypeOK, NEW r, r \in TaskRequests[IF Now < MaxTasks THEN Now + 1 ELSE MaxTasks], Take(r)
  PROVE  /\ task' \in Seq(TaskRecords) /\ Now' = Now + 1 /\ Now' <= MaxTasks
         /\ DOMAIN task' = DOMAIN task \cup {Now'} /\ Now' \notin DOMAIN task
         /\ task'[Now'].status = "queued" /\ \A n \in DOMAIN task : task'[n] = task[n]
<1> DEFINE e == [params |-> JobParams(Mapped(r)), status |-> "queued", names |-> {}]
<1>1. Now \in Nat /\ Now < MaxTasks /\ MaxTasks \in Nat /\ DOMAIN task = 1..Now
  BY WorkerAssumption DEF StrongTypeOK, Now, Take
<1>2. r \in TaskRequests[Now + 1] /\ Now + 1 \in 1..MaxTasks
  BY <1>1
<1>3. JobParams(Mapped(r)) \in Takeable
  BY <1>2 DEF Takeable, Take
<1>4. e \in TaskRecords
  BY <1>3 DEF TaskRecords
<1>5. task' = Append(task, e)
  BY DEF Take
<1>6. e.status = "queued"
  OBVIOUS
<1> HIDE DEF e
<1>7. /\ task' \in Seq(TaskRecords) /\ Len(task') = Now + 1 /\ DOMAIN task' = DOMAIN task \cup {Now + 1}
      /\ task'[Now + 1] = e /\ \A n \in DOMAIN task : task'[n] = task[n]
  BY <1>4, <1>5, Added DEF StrongTypeOK, Now
<1>8. Now' = Now + 1
  BY <1>7 DEF Now
<1> QED BY <1>1, <1>6, <1>7, <1>8

\* The process has no say in the jobs, nor in whose the connection is.
LEMMA ProcessKeeps ==
  ASSUME StrongTypeOK, Serves \/ Crashes
  PROVE  /\ UNCHANGED <<task, client, manager>>
         /\ link'.task = link.task /\ link'.open = link.open
<1> USE DEF StrongTypeOK, Links
<1>1. CASE BuildAdapters \/ Warm \/ Listen \/ SaysReady
  BY <1>1 DEF BuildAdapters, Warm, Listen, SaysReady
<1>2. CASE Accepts
  BY <1>2 DEF Accepts
<1>3. CASE Generates
  BY <1>3 DEF Generates
<1>4. CASE GeneratesAction \/ RunEnds \/ RunFails
  BY <1>4 DEF GeneratesAction, RunEnds, RunFails
<1>5. CASE WritesImage \/ WritesVideo \/ WritesLatents \/ WritesTrajectory \/ WritesWav
  BY <1>5 DEF WritesImage, WritesVideo, WritesLatents, WritesTrajectory, WritesWav, Writes
<1>6. CASE WavFails \/ Muxes
  BY <1>6 DEF WavFails, Muxes
<1>7. CASE Replies
  BY <1>7 DEF Replies
<1>8. CASE Crashes
  BY <1>8 DEF Crashes, Dies
<1> QED BY <1>1, <1>2, <1>3, <1>4, <1>5, <1>6, <1>7, <1>8 DEF Serves

-----------------------------------------------------------------------------
(* Types.                                                                  *)

\* A frame is sent, or read.
LEMMA FramesStay ==
  ASSUME NEW s \in Seq(Frames)
  PROVE  /\ \A f \in Frames : Append(s, f) \in Seq(Frames)
         /\ s # <<>> => Tail(s) \in Seq(Frames) /\ Head(s) \in Frames
OBVIOUS

\* A file is written, or the sound of a video removed.
LEMMA FilesStay ==
  ASSUME StrongTypeOK, NEW n \in 1..MaxTasks
  PROVE  /\ \A f \in Artifacts, s \in States :
              [file EXCEPT ![n][f] = s] \in [1..MaxTasks -> [Artifacts -> States]]
         /\ [file EXCEPT ![n].mp4 = "muxed", ![n].wav = "absent"] \in [1..MaxTasks -> [Artifacts -> States]]
<1>1. file \in [1..MaxTasks -> [Artifacts -> States]]
  BY DEF StrongTypeOK
<1>2. \A g \in [Artifacts -> States] : [file EXCEPT ![n] = g] \in [1..MaxTasks -> [Artifacts -> States]]
  BY <1>1
<1>3. ASSUME NEW f \in Artifacts, NEW s \in States
      PROVE  [file EXCEPT ![n][f] = s] \in [1..MaxTasks -> [Artifacts -> States]]
  <2>1. [file[n] EXCEPT ![f] = s] \in [Artifacts -> States]
    BY <1>1
  <2> QED BY <1>2, <2>1
<1>4. [file EXCEPT ![n].mp4 = "muxed", ![n].wav = "absent"] \in [1..MaxTasks -> [Artifacts -> States]]
  <2> DEFINE one == [file EXCEPT ![n].mp4 = "muxed"]
  <2>1. [file[n] EXCEPT !.mp4 = "muxed"] \in [Artifacts -> States]
    BY <1>1 DEF States
  <2>2. one \in [1..MaxTasks -> [Artifacts -> States]]
    BY <1>2, <2>1
  <2>3. [file EXCEPT ![n].mp4 = "muxed", ![n].wav = "absent"] = [one EXCEPT ![n].wav = "absent"]
    OBVIOUS
  <2> HIDE DEF one
  <2>4. [one[n] EXCEPT !.wav = "absent"] \in [Artifacts -> States]
    BY <2>2 DEF States
  <2> QED BY <2>2, <2>3, <2>4
<1> QED BY <1>3, <1>4

\* The initial state has its types.
LEMMA TypeStart == WorkerInit => StrongTypeOK
<1> SUFFICES ASSUME WorkerInit PROVE StrongTypeOK
  OBVIOUS
<1> USE DEF WorkerInit
<1>1. task \in Seq(TaskRecords) /\ Len(task) <= MaxTasks
  BY WorkerAssumption
<1>2. link \in Links
  BY WorkerAssumption DEF NoLink, Links
<1>3. run \in Runs
  BY WorkerAssumption DEF NoRun, Runs, Todos
<1>4. NoFiles \in [Artifacts -> States]
  BY DEF NoFiles, States
<1>5. file \in [1..MaxTasks -> [Artifacts -> States]]
  BY <1>4
<1>6. client \in ClientSteps /\ manager = "none" /\ leader = "dead" /\ path = "absent" /\ ready = FALSE
  BY DEF ClientSteps
<1>7. faults \in 0..MaxTasks
  BY WorkerAssumption
<1> QED BY <1>1, <1>2, <1>3, <1>5, <1>6, <1>7 DEF StrongTypeOK

\* The runner's steps keep the types.
LEMMA TypeDrives ==
  ASSUME StrongTypeOK, RunnerInv, Drives \/ Evicts \/ EvictEscalates \/ CancelTask
  PROVE  StrongTypeOK'
<1> USE DEF procvars
<1>a. MaxTasks \in Nat
  BY WorkerAssumption
<1>f. Fault => faults' \in 0..MaxTasks
  BY <1>a DEF Fault, StrongTypeOK
<1>h. HangsUp => link' \in Links
  <2>1. link \in Links /\ <<>> \in Seq(Frames)
    BY DEF StrongTypeOK
  <2>2. [link EXCEPT !.open = FALSE] \in Links
    BY <2>1 DEF Links
  <2> QED BY <2>1, <2>2 DEF HangsUp, Links
<1>d. Dies => leader' = "dead" /\ path' \in {"absent", "stale", "live"} /\ ready' \in BOOLEAN
              /\ link' \in Links /\ run' \in Runs /\ file' = file
  <2>1. NoRun \in Runs
    BY WorkerAssumption DEF NoRun, Runs, Todos
  <2>2. Dies => link' \in Links
    BY DEF Dies, StrongTypeOK, Links
  <2> QED BY <2>1, <2>2 DEF Dies, StrongTypeOK
<1>e. EvictAll => manager' \in {"none", "starting", "up", "term", "kill"}
  BY DEF EvictAll, StrongTypeOK
<1>r. Resident /\ client # "idle" => /\ task' \in Seq(TaskRecords) /\ Len(task') <= MaxTasks
                                     /\ manager' = "up" /\ client' = "connect"
  BY JobMoves DEF Resident, RunnerInv, Now, StrongTypeOK
<1>1. CASE StartWorker
  BY <1>1 DEF StartWorker, StrongTypeOK, Alive
<1>2. CASE WaitReady
  <2>1. client # "idle"
    BY <1>2 DEF WaitReady, RunnerInv
  <2>2. task' \in Seq(TaskRecords) /\ Len(task') <= MaxTasks /\ manager' \in {"up", "term"}
        /\ client' \in ClientSteps
    BY <1>2, <1>r, <2>1 DEF WaitReady, StrongTypeOK, ClientSteps
  <2>3. faults' \in 0..MaxTasks
    BY <1>2, <1>f DEF WaitReady, StrongTypeOK
  <2> QED BY <1>2, <2>2, <2>3 DEF WaitReady, StrongTypeOK
<1>3. CASE AcquireResident
  <2>1. task' \in Seq(TaskRecords) /\ Len(task') <= MaxTasks /\ manager' = "up" /\ client' = "connect"
    BY <1>3, <1>r DEF AcquireResident
  <2> QED BY <1>3, <2>1 DEF AcquireResident, StrongTypeOK, ClientSteps
<1>4. CASE EvictTerminates \/ EvictKills \/ EvictEscalates
  BY <1>4, <1>d DEF EvictTerminates, EvictKills, EvictEscalates, StrongTypeOK
<1>5. CASE Connect
  <2>1. Now \in 0..MaxTasks
    BY <1>5, TheJob DEF Connect, RunnerInv
  <2>2. <<>> \in Seq(Frames) /\ link \in Links
    BY DEF StrongTypeOK
  <2>3. [task |-> Now, open |-> TRUE, unread |-> TRUE, frames |-> <<>>, closed |-> FALSE] \in Links
    BY <2>1, <2>2 DEF Links
  <2>4. link' \in Links
    BY <1>5, <2>2, <2>3 DEF Connect
  <2> QED BY <1>5, <2>4 DEF Connect, StrongTypeOK, ClientSteps
<1>6. CASE ReadReply
  <2> USE <1>6 DEF ReadReply, Got
  <2>1. link.frames \in Seq(Frames) /\ link \in Links
    BY DEF StrongTypeOK, Links
  <2>2. link' \in Links
    BY <1>h, <2>1, FramesStay DEF Links
  <2>3. task' \in Seq(TaskRecords) /\ Len(task') <= MaxTasks
    <3>1. CASE UNCHANGED task
      BY <3>1 DEF StrongTypeOK
    <3>2. CASE Got("result") /\ task' = [task EXCEPT ![Now].names = Head(link.frames).names]
      <4>1. Head(link.frames).names \in SUBSET Artifacts
        BY <2>1, <3>2, FramesStay DEF Frames
      <4> QED BY <3>2, <4>1, JobNames DEF RunnerInv, Now, StrongTypeOK
    <3> QED BY <3>1, <3>2
  <2> QED BY <2>2, <2>3 DEF StrongTypeOK, ClientSteps
<1>7. CASE ReadTimesOut
  BY <1>7, <1>f, <1>h DEF ReadTimesOut, StrongTypeOK, ClientSteps
<1>8. CASE Returns \/ RunnerFails \/ CancelTask
  <2>1. task' \in Seq(TaskRecords) /\ Len(task') <= MaxTasks
    BY <1>8, JobMoves DEF Returns, RunnerFails, CancelTask, RunnerInv, Now, StrongTypeOK, Over
  <2> QED BY <1>8, <1>e, <2>1 DEF Returns, RunnerFails, CancelTask, StrongTypeOK, ClientSteps
<1>9. CASE CleansUp
  BY <1>9 DEF CleansUp, StrongTypeOK, ClientSteps
<1> QED BY <1>1, <1>2, <1>3, <1>4, <1>5, <1>6, <1>7, <1>8, <1>9 DEF Drives, Evicts

\* So do the process's.
LEMMA TypeServes ==
  ASSUME StrongTypeOK, RunnerInv, ProcessInv, Serves \/ Crashes
  PROVE  StrongTypeOK'
<1>a. MaxTasks \in Nat /\ Steps \in Nat
  BY WorkerAssumption
<1>f. Fault => faults' \in 0..MaxTasks
  BY <1>a DEF Fault, StrongTypeOK
<1>n. NoRun \in Runs
  BY <1>a DEF NoRun, Runs, Todos
<1>t. task' \in Seq(TaskRecords) /\ Len(task') <= MaxTasks /\ client' \in ClientSteps
      /\ manager' \in {"none", "starting", "up", "term", "kill"}
  BY ProcessKeeps DEF StrongTypeOK
<1>m. link.frames \in Seq(Frames) /\ link \in Links /\ run \in Runs
  BY DEF StrongTypeOK, Links
<1>l. Busy => link.task \in 1..MaxTasks
  BY <1>a, <1>m DEF ProcessInv, Links
<1>1. CASE BuildAdapters \/ Warm \/ Listen \/ SaysReady
  BY <1>1, <1>t DEF BuildAdapters, Warm, Listen, SaysReady, StrongTypeOK, Alive
<1>2. CASE Accepts
  <2>1. link' \in Links
    BY <1>2, <1>m DEF Accepts, Links
  <2> QED BY <1>2, <1>n, <1>t, <2>1 DEF Accepts, StrongTypeOK, Alive
<1>3. CASE Generates \/ GeneratesAction
  <2>1. run' \in Runs
    BY <1>3, <1>a, <1>m DEF Generates, GeneratesAction, Runs
  <2>2. Frame("progress", {}) \in Frames
    BY DEF Frame, Frames
  <2>3. link' \in Links
    BY <1>3, <1>m, <2>2, FramesStay DEF Generates, GeneratesAction, Links
  <2> QED BY <1>3, <1>t, <2>1, <2>3 DEF Generates, GeneratesAction, StrongTypeOK, Alive
<1>4. CASE RunEnds
  <2>1. PICK t \in Begun : run' = [run EXCEPT !.todo = t]
    BY <1>4, GenerationReplies, ActionReplies DEF RunEnds
  <2>2. run' \in Runs
    BY <1>m, <2>1, BegunReplies DEF Runs
  <2> QED BY <1>4, <1>t, <2>2 DEF RunEnds, StrongTypeOK, Alive
<1>5. CASE RunFails
  BY <1>5, <1>f, <1>t DEF RunFails, StrongTypeOK, Alive
<1>6. ASSUME NEW f \in Artifacts, Writes(f)
      PROVE  StrongTypeOK'
  <2>1. run.todo # <<>> /\ leader = "encoding" /\ Tail(run.todo) \in Todos
    BY <1>6, <1>m, TodoOrder DEF Writes, Encoding, Runs
  <2>2. run' \in Runs
    BY <1>6, <1>m, <2>1 DEF Writes, Runs
  <2>3. file' \in [1..MaxTasks -> [Artifacts -> States]]
    <3>1. CASE file' = file
      BY <3>1 DEF StrongTypeOK
    <3>2. CASE file' = [file EXCEPT ![link.task][f] = "torn"]
      BY <1>l, <2>1, <3>2, FilesStay DEF States, Busy
    <3>3. CASE file' = [file EXCEPT ![link.task][f] = "whole"]
      BY <1>l, <2>1, <3>3, FilesStay DEF States, Busy
    <3> QED BY <1>6, <3>1, <3>2, <3>3 DEF Writes, Sets
  <2> QED BY <1>6, <1>t, <2>2, <2>3 DEF Writes, StrongTypeOK
<1>7. CASE WavFails
  <2>1. run.todo # <<>> /\ Tail(Tail(run.todo)) \in Todos
    BY <1>7, <1>m, TodoOrder DEF WavFails, Encoding, Runs, Todos
  <2>2. run' \in Runs
    BY <1>7, <1>m, <2>1 DEF WavFails, Runs
  <2> QED BY <1>7, <1>t, <2>2 DEF WavFails, StrongTypeOK
<1>8. CASE Muxes
  <2>1. run.todo # <<>> /\ leader = "encoding" /\ Tail(run.todo) \in Todos
    BY <1>8, <1>m, TodoOrder DEF Muxes, Encoding, Runs
  <2>2. run' \in Runs
    BY <1>8, <1>m, <2>1 DEF Muxes, Runs
  <2>3. file' \in [1..MaxTasks -> [Artifacts -> States]]
    BY <1>8, <1>l, <2>1, FilesStay DEF Muxes, StrongTypeOK, Busy
  <2> QED BY <1>8, <1>t, <2>2, <2>3 DEF Muxes, StrongTypeOK
<1>9. CASE Replies
  <2>1. Frame("failure", {}) \in Frames /\ Frame("result", run.names) \in Frames
    BY <1>m DEF Frame, Frames, Runs
  <2>2. link' \in Links
    BY <1>9, <1>m, <2>1, FramesStay DEF Replies, Links
  <2> QED BY <1>9, <1>n, <1>t, <2>2 DEF Replies, StrongTypeOK, Alive
<1>10. CASE Crashes
  <2>1. link' \in Links
    BY <1>10, <1>m DEF Crashes, Dies, Links
  <2> QED BY <1>10, <1>f, <1>n, <1>t, <2>1 DEF Crashes, Dies, StrongTypeOK
<1> QED BY <1>1, <1>2, <1>3, <1>4, <1>5, <1>6, <1>7, <1>8, <1>9, <1>10
        DEF Serves, WritesImage, WritesVideo, WritesLatents, WritesTrajectory, WritesWav, Artifacts

\* Every step keeps the types.
LEMMA TypeStep ==
  ASSUME StrongTypeOK, RunnerInv, ProcessInv, [WorkerNext]_workervars
  PROVE  StrongTypeOK'
<1>1. CASE Drives \/ Evicts \/ EvictEscalates \/ CancelTask
  BY <1>1, TypeDrives
<1>2. CASE Serves \/ Crashes
  BY <1>2, TypeServes
<1>3. ASSUME NEW r \in TaskRequests[IF Now < MaxTasks THEN Now + 1 ELSE MaxTasks], Take(r)
      PROVE  StrongTypeOK'
  <2>1. task' \in Seq(TaskRecords) /\ Len(task') <= MaxTasks
    BY <1>3, JobTaken DEF Now
  <2> QED BY <1>3, <2>1 DEF Take, StrongTypeOK, procvars, ClientSteps
<1>4. CASE UNCHANGED workervars
  BY <1>4 DEF workervars, procvars, StrongTypeOK
<1> QED BY <1>1, <1>2, <1>3, <1>4 DEF WorkerNext

-----------------------------------------------------------------------------
(* The runner's view.                                                      *)

\* It is about the jobs, the runner, the manager, and whose the connection is.
LEMMA RunnerFrame ==
  ASSUME StrongTypeOK, RunnerInv, task' = task, client' = client,
         manager' = manager \/ (manager \in {"term", "kill"} /\ manager' \in {"kill", "none"}),
         link'.task = link.task, link'.open = link.open
  PROVE  RunnerInv'
BY DEF RunnerInv, Now, Cancelled

\* While the status of the last job changes, the others are over.
LEMMA OthersOver ==
  ASSUME StrongTypeOK, RunnerInv, DOMAIN task' = DOMAIN task, Now' = Now,
         \A n \in DOMAIN task : n # Now => task'[n] = task[n]
  PROVE  \A n \in DOMAIN task' : n # Now' => task'[n].status \in Over
BY DEF RunnerInv

\* The runner keeps its view.
LEMMA RunnerDrives ==
  ASSUME StrongTypeOK, RunnerInv, Drives \/ Evicts \/ EvictEscalates \/ CancelTask
  PROVE  RunnerInv'
<1>l. link \in Links
  BY DEF StrongTypeOK
<1>r. ASSUME Resident, client = "acquire", UNCHANGED link
      PROVE  RunnerInv'
  <2>1. Now' = Now /\ Now # 0 /\ task'[Now].status = "running" /\ client' = "connect" /\ manager' = "up"
    BY <1>r, JobMoves DEF Resident, RunnerInv
  <2>2. \A n \in DOMAIN task' : n # Now' => task'[n].status \in Over
    BY <1>r, <2>1, JobMoves, OthersOver DEF Resident
  <2>3. link.task # Now /\ link.task <= Now
    BY <1>r DEF RunnerInv
  <2> QED BY <1>r, <2>1, <2>2, <2>3 DEF RunnerInv, Cancelled
<1>1. CASE StartWorker
  BY <1>1 DEF StartWorker, RunnerInv, Now, Cancelled
<1>2. CASE WaitReady
  <2>1. client = "acquire" /\ UNCHANGED link
    BY <1>2 DEF WaitReady, RunnerInv, procvars
  <2>2. CASE Resident
    BY <1>r, <2>1, <2>2
  <2>3. CASE manager' = "term" /\ client' = "unready" /\ UNCHANGED task
    BY <2>1, <2>3 DEF RunnerInv, Now, Cancelled
  <2> QED BY <1>2, <2>2, <2>3 DEF WaitReady
<1>3. CASE AcquireResident
  BY <1>3, <1>r DEF AcquireResident, procvars
<1>4. CASE EvictTerminates \/ EvictKills \/ EvictEscalates
  <2>1. link'.task = link.task /\ link'.open = link.open
    BY <1>4, <1>l DEF EvictTerminates, EvictKills, EvictEscalates, procvars, Dies, Links
  <2> QED BY <1>4, <2>1, RunnerFrame DEF EvictTerminates, EvictKills, EvictEscalates
<1>5. CASE Connect
  <2>1. UNCHANGED <<task, manager>> /\ Now' = Now /\ (Cancelled' <=> Cancelled) /\ client = "connect"
    BY <1>5 DEF Connect, Now, Cancelled
  <2>2. \/ client' = "raised" /\ UNCHANGED link
        \/ client' = "read" /\ link'.task = Now /\ link'.open
    BY <1>5 DEF Connect
  <2>3. Now \in Nat
    BY DEF StrongTypeOK, Now
  <2> QED BY <2>1, <2>2, <2>3 DEF RunnerInv
<1>6. CASE ReadReply \/ ReadTimesOut
  <2>1. client = "read" /\ link'.task = link.task /\ UNCHANGED manager
    BY <1>6, <1>l DEF ReadReply, ReadTimesOut, HangsUp, Links
  <2>2. client' \in {"returned", "raised"} \/ (client' = "read" /\ link'.open = link.open)
    BY <1>6, <1>l DEF ReadReply, ReadTimesOut, Links
  <2>3. Now' = Now /\ Now # 0 /\ DOMAIN task' = DOMAIN task
        /\ \A n \in DOMAIN task : task'[n].status = task[n].status
    <3>1. CASE UNCHANGED task
      BY <2>1, <3>1 DEF Now, RunnerInv
    <3>2. CASE Got("result") /\ task' = [task EXCEPT ![Now].names = Head(link.frames).names]
      <4>1. link.frames \in Seq(Frames)
        BY <1>l DEF Links
      <4>2. Head(link.frames).names \in SUBSET Artifacts
        BY <3>2, <4>1, FramesStay DEF Frames, Got
      <4> QED BY <2>1, <3>2, <4>2, JobNames DEF RunnerInv
    <3> QED BY <1>6, <3>1, <3>2 DEF ReadReply, ReadTimesOut
  <2>4. task'[Now].status = task[Now].status /\ (Cancelled' <=> Cancelled)
    BY <2>3, TheJob DEF Cancelled
  <2> QED BY <2>1, <2>2, <2>3, <2>4 DEF RunnerInv
<1>7. CASE Returns \/ RunnerFails \/ CancelTask
  <2>1. Now # 0
    BY <1>7 DEF Returns, RunnerFails, CancelTask, RunnerInv
  <2>2. UNCHANGED link
    BY <1>7 DEF Returns, RunnerFails, CancelTask, procvars
  <2>3. CASE UNCHANGED task
    <3>1. Cancelled /\ client' = "idle" /\ UNCHANGED manager /\ client \in {"returned", "raised"}
      BY <1>7, <2>1, <2>3, TheJob, JobMoves DEF Returns, RunnerFails, CancelTask, Cancelled, RunnerInv, Over
    <3> QED BY <2>1, <2>2, <2>3, <3>1 DEF RunnerInv, Now, Cancelled, Over
  <2>4. ASSUME NEW s \in Over, task' = [task EXCEPT ![Now].status = s]
        PROVE  Now' = Now /\ task'[Now].status = s
               /\ \A n \in DOMAIN task' : n # Now' => task'[n].status \in Over
    BY <2>1, <2>4, JobMoves, OthersOver
  <2>5. CASE ~UNCHANGED task
    <3>1. CASE Returns
      BY <2>1, <2>2, <2>4, <2>5, <3>1 DEF Returns, RunnerInv, Over
    <3>2. CASE RunnerFails
      BY <2>1, <2>2, <2>4, <2>5, <3>2 DEF RunnerFails, EvictAll, RunnerInv, Over
    <3>3. CASE CancelTask
      BY <2>1, <2>2, <2>4, <2>5, <3>3 DEF CancelTask, EvictAll, RunnerInv, Over, Cancelled
    <3> QED BY <1>7, <3>1, <3>2, <3>3
  <2> QED BY <2>3, <2>5
<1>8. CASE CleansUp
  BY <1>8 DEF CleansUp, RunnerInv, Now, Over, procvars, Cancelled
<1> QED BY <1>1, <1>2, <1>3, <1>4, <1>5, <1>6, <1>7, <1>8 DEF Drives, Evicts

\* Every step keeps the runner's view.
LEMMA RunnerStep ==
  ASSUME StrongTypeOK, RunnerInv, [WorkerNext]_workervars
  PROVE  RunnerInv'
<1>1. CASE Drives \/ Evicts \/ EvictEscalates \/ CancelTask
  BY <1>1, RunnerDrives
<1>2. CASE Serves \/ Crashes
  <2>1. UNCHANGED <<task, client, manager>> /\ link'.task = link.task /\ link'.open = link.open
    BY <1>2, ProcessKeeps
  <2>2. task' = task /\ client' = client /\ manager' = manager
    BY <2>1
  <2> QED BY <2>1, <2>2, RunnerFrame
<1>3. ASSUME NEW r \in TaskRequests[IF Now < MaxTasks THEN Now + 1 ELSE MaxTasks], Take(r)
      PROVE  RunnerInv'
  <2>1. /\ Now' = Now + 1 /\ DOMAIN task' = DOMAIN task \cup {Now'} /\ task'[Now'].status = "queued"
        /\ \A n \in DOMAIN task : task'[n] = task[n]
    BY <1>3, JobTaken
  <2>2. client = "idle" /\ client' = "acquire" /\ UNCHANGED <<manager, link>> /\ Now \in Nat
    BY <1>3 DEF Take, procvars, Now, StrongTypeOK
  <2>3. \A n \in DOMAIN task : task[n].status \in Over
    <3>1. CASE Now = 0
      BY <3>1 DEF StrongTypeOK, Now
    <3>2. CASE Now # 0
      BY <2>2, <3>2 DEF RunnerInv
    <3> QED BY <3>1, <3>2
  <2>4. link.task <= Now /\ link.task # Now' /\ link.task <= Now' /\ Now' # 0
    BY <2>1, <2>2 DEF RunnerInv, StrongTypeOK, Links
  <2>5. \A n \in DOMAIN task' : n # Now' => task'[n].status \in Over
    BY <2>1, <2>3
  <2>6. manager' # "starting" /\ client' = "acquire" /\ link' = link
    BY <2>2 DEF RunnerInv
  <2> QED BY <2>1, <2>2, <2>4, <2>5, <2>6 DEF RunnerInv
<1>4. CASE UNCHANGED workervars
  BY <1>4, RunnerFrame DEF workervars, procvars
<1> QED BY <1>1, <1>2, <1>3, <1>4 DEF WorkerNext

-----------------------------------------------------------------------------
(* The process's view.                                                     *)

\* It is about the process, the ready-file, the path, the request that waits,
\* the manager and the runner.
LEMMA ProcessFrame ==
  ASSUME ProcessInv, UNCHANGED <<leader, path, ready, link, manager, client>>
  PROVE  ProcessInv'
BY DEF ProcessInv, Busy

\* The group is gone.
LEMMA DiesWhole ==
  ASSUME StrongTypeOK, ProcessInv, Dies, client' = client
  PROVE  ProcessInv'
<1>1. leader' = "dead" /\ path' # "live" /\ ~link'.unread
  BY DEF Dies, StrongTypeOK, Links
<1> QED BY <1>1 DEF ProcessInv, Busy

\* The runner and the manager keep to it.
LEMMA ProcessDrives ==
  ASSUME StrongTypeOK, RunnerInv, ProcessInv, FileInv,
         Drives \/ Evicts \/ EvictEscalates \/ CancelTask
  PROVE  ProcessInv'
<1>l. link \in Links
  BY DEF StrongTypeOK
<1>1. CASE StartWorker
  BY <1>1 DEF StartWorker, ProcessInv, Busy
<1>2. CASE WaitReady
  BY <1>2 DEF WaitReady, Resident, Probe, RunnerInv, ProcessInv, Busy, procvars, StrongTypeOK, Alive
<1>3. CASE AcquireResident
  BY <1>3 DEF AcquireResident, Resident, ProcessInv, Busy, procvars
<1>4. CASE EvictTerminates \/ EvictKills
  <2>1. CASE leader = "dead"
    BY <1>4, <2>1 DEF EvictTerminates, EvictKills, ProcessInv, Busy, procvars
  <2>2. CASE leader # "dead"
    BY <1>4, <2>2, DiesWhole DEF EvictTerminates, EvictKills
  <2> QED BY <2>1, <2>2
<1>5. CASE EvictEscalates
  BY <1>5 DEF EvictEscalates, ProcessInv, Busy, procvars
<1>6. CASE Connect
  <2>1. ~Busy /\ ~link.unread /\ client = "connect"
        /\ UNCHANGED <<manager, leader, path, ready>>
    BY <1>6 DEF Connect, ProcessInv
  <2>2. CASE client' = "raised" /\ UNCHANGED link
    BY <2>1, <2>2 DEF ProcessInv, Busy
  <2>3. CASE path = "live" /\ client' = "read"
             /\ link' = [task |-> Now, open |-> TRUE, unread |-> TRUE, frames |-> <<>>, closed |-> FALSE]
    <3>1. link'.unread /\ link'.task # 0 /\ ~link'.closed
      BY <2>1, <2>3 DEF RunnerInv
    <3> QED BY <2>1, <2>3, <3>1 DEF ProcessInv, Busy
  <2> QED BY <1>6, <2>2, <2>3 DEF Connect
<1>7. CASE ReadReply \/ ReadTimesOut
  <2>1. UNCHANGED <<manager, leader, path, ready>> /\ client = "read"
        /\ link'.unread = link.unread /\ link'.task = link.task /\ link'.closed = link.closed
    BY <1>7, <1>l DEF ReadReply, ReadTimesOut, HangsUp, Links
  <2>2. client' \in {"read", "raised"} \/ (client' = "returned" /\ ~Busy /\ ~link.unread)
    <3>1. CASE Got("result")
      <4>1. link.frames \in Seq(Frames) /\ link.frames # <<>> /\ Head(link.frames).type = "result"
        BY <1>l, <3>1 DEF Got, Links
      <4>2. 1 \in DOMAIN link.frames /\ link.frames[1].type = "result"
        BY <4>1
      <4>3. Settled(link.task)
        BY <4>2 DEF FileInv, Delivered
      <4> QED BY <1>7, <2>1, <3>1, <4>3 DEF ReadReply, ReadTimesOut, Settled
    <3>2. CASE ~Got("result")
      BY <1>7, <2>1, <3>2 DEF ReadReply, ReadTimesOut
    <3> QED BY <3>1, <3>2
  <2> QED BY <2>1, <2>2 DEF ProcessInv, Busy
<1>8. CASE Returns
  BY <1>8 DEF Returns, ProcessInv, Busy, procvars
<1>9. CASE RunnerFails
  BY <1>9 DEF RunnerFails, EvictAll, RunnerInv, ProcessInv, Busy, procvars
<1>10. CASE CleansUp
  BY <1>10 DEF CleansUp, RunnerInv, ProcessInv, Busy, procvars
<1>11. CASE CancelTask
  BY <1>11 DEF CancelTask, EvictAll, RunnerInv, ProcessInv, Busy, procvars
<1> QED BY <1>1, <1>2, <1>3, <1>4, <1>5, <1>6, <1>7, <1>8, <1>9, <1>10, <1>11 DEF Drives, Evicts

\* So does the process.
LEMMA ProcessServes ==
  ASSUME StrongTypeOK, ProcessInv, Serves \/ Crashes
  PROVE  ProcessInv'
<1>l. link \in Links /\ UNCHANGED <<client, manager>> /\ link'.task = link.task
  BY ProcessKeeps DEF StrongTypeOK
<1>1. CASE BuildAdapters \/ Warm \/ Listen \/ SaysReady
  BY <1>1, <1>l DEF BuildAdapters, Warm, Listen, SaysReady, ProcessInv, Busy
<1>2. CASE Accepts
  <2>1. leader = "serving" /\ link.unread /\ ~link'.unread /\ leader' \in {"running", "failing"}
        /\ link'.closed = link.closed /\ UNCHANGED <<path, ready>>
    BY <1>2, <1>l DEF Accepts, Links
  <2> QED BY <1>l, <2>1 DEF ProcessInv, Busy
<1>3. CASE Generates \/ GeneratesAction \/ RunEnds \/ RunFails
  <2>1. Busy /\ Busy' /\ UNCHANGED <<path, ready>> /\ leader' \in {"running", "encoding", "failing"}
    BY <1>3 DEF Generates, GeneratesAction, RunEnds, RunFails, Busy
  <2>2. link'.unread = link.unread /\ link'.closed = link.closed
    BY <1>3, <1>l DEF Generates, GeneratesAction, RunEnds, RunFails, Links
  <2> QED BY <1>l, <2>1, <2>2 DEF ProcessInv
<1>4. CASE \/ WritesImage \/ WritesVideo \/ WritesLatents \/ WritesTrajectory \/ WritesWav
           \/ WavFails \/ Muxes
  BY <1>4, <1>l, ProcessFrame
     DEF WritesImage, WritesVideo, WritesLatents, WritesTrajectory, WritesWav, Writes, WavFails, Muxes
<1>5. CASE Replies
  <2>1. Busy /\ leader' = "serving" /\ UNCHANGED <<path, ready>> /\ link'.unread = link.unread
    BY <1>5, <1>l DEF Replies, Busy, Links
  <2> QED BY <1>l, <2>1 DEF ProcessInv, Busy
<1>6. CASE Crashes
  BY <1>6, <1>l, DiesWhole DEF Crashes
<1> QED BY <1>1, <1>2, <1>3, <1>4, <1>5, <1>6 DEF Serves

\* Every step keeps the process's view.
LEMMA ProcessStep ==
  ASSUME StrongTypeOK, RunnerInv, ProcessInv, FileInv, [WorkerNext]_workervars
  PROVE  ProcessInv'
<1>1. CASE Drives \/ Evicts \/ EvictEscalates \/ CancelTask
  BY <1>1, ProcessDrives
<1>2. CASE Serves \/ Crashes
  BY <1>2, ProcessServes
<1>3. ASSUME NEW r \in TaskRequests[IF Now < MaxTasks THEN Now + 1 ELSE MaxTasks], Take(r)
      PROVE  ProcessInv'
  BY <1>3 DEF Take, ProcessInv, Busy, procvars
<1>4. CASE UNCHANGED workervars
  BY <1>4, ProcessFrame DEF workervars, procvars
<1> QED BY <1>1, <1>2, <1>3, <1>4 DEF WorkerNext

-----------------------------------------------------------------------------
(* The files.                                                              *)

\* While the process has a request, its job has no result yet.
LEMMA BusyIsOpen ==
  ASSUME StrongTypeOK, RunnerInv, FileInv, Busy \/ link.unread
  PROVE  /\ client # "returned"
         /\ \A i \in DOMAIN link.frames : link.frames[i].type # "result"
         /\ \A n \in DOMAIN task : task[n].status = "succeeded" => n # link.task
<1>1. ~Settled(link.task)
  BY DEF Settled
<1> QED BY <1>1 DEF FileInv, Delivered, Finished, RunnerInv

\* The process is idle, or gone, and no file changes.
LEMMA FilesRest ==
  ASSUME FileInv, ~Busy', link'.unread => link.unread,
         link'.task = link.task, link'.frames = link.frames, file' = file, client' = client, task' = task
  PROVE  FileInv'
<1>1. \A n : Settled(n) => Settled(n)'
  BY DEF Settled
<1>2. \A names, n : Complete(names, n) => Complete(names, n)'
  BY DEF Complete
<1>3. Blank'
  BY DEF FileInv, Blank, Busy
<1>4. Written'
  BY DEF Written, Busy
<1>5. MuxedOnce'
  BY DEF FileInv, MuxedOnce
<1>6. Delivered'
  <2> SUFFICES ASSUME NEW i \in DOMAIN link'.frames, link'.frames[i].type = "result"
               PROVE  Complete(link.frames[i].names, link.task)' /\ Settled(link.task)'
    BY DEF Delivered
  <2>1. Complete(link.frames[i].names, link.task) /\ Settled(link.task)
    BY DEF FileInv, Delivered
  <2> QED BY <2>1 DEF Complete, Settled
<1>7. Finished'
  <2>1. client' = "returned" => (Complete(task[Now].names, Now) /\ Settled(Now))'
    BY DEF FileInv, Finished, Complete, Settled, Now
  <2>2. \A n \in DOMAIN task' : task'[n].status = "succeeded"
          => (Complete(task[n].names, n) /\ Settled(n))'
    BY DEF FileInv, Finished, Complete, Settled
  <2> QED BY <2>1, <2>2 DEF Finished
<1> QED BY <1>3, <1>4, <1>5, <1>6, <1>7 DEF FileInv

\* The runner moves on: a job succeeds only with the result it was returned.
LEMMA FilesWait ==
  ASSUME FileInv, leader' = leader, link' = link, run' = run, file' = file,
         client' = "returned" => client = "returned" /\ Now' = Now /\ task'[Now].names = task[Now].names,
         \A n \in DOMAIN task' : task'[n].status = "succeeded" =>
           /\ task'[n].names = task[n].names
           /\ (n \in DOMAIN task /\ task[n].status = "succeeded") \/ (client = "returned" /\ n = Now)
  PROVE  FileInv'
<1>1. Blank' /\ Written'
  BY DEF FileInv, Blank, Written
<1>2. MuxedOnce'
  BY DEF FileInv, MuxedOnce
<1>3. Delivered'
  BY DEF FileInv, Delivered, Complete, Settled, Busy
<1>4. Finished'
  <2>1. client' = "returned" => (Complete(task[Now].names, Now) /\ Settled(Now))'
    BY DEF FileInv, Finished, Complete, Settled, Busy
  <2>2. \A n \in DOMAIN task' : task'[n].status = "succeeded"
          => (Complete(task[n].names, n) /\ Settled(n))'
    BY DEF FileInv, Finished, Complete, Settled, Busy
  <2> QED BY <2>1, <2>2 DEF Finished
<1> QED BY <1>1, <1>2, <1>3, <1>4 DEF FileInv

\* Nobody writes the files of the job that connects, nor waits to.
LEMMA FilesConnect ==
  ASSUME StrongTypeOK, RunnerInv, ProcessInv, FileInv, Connect
  PROVE  FileInv'
<1>1. CASE client' = "raised" /\ UNCHANGED link
  BY <1>1, FilesWait DEF Connect
<1>2. CASE client' = "read"
           /\ link' = [task |-> Now, open |-> TRUE, unread |-> TRUE, frames |-> <<>>, closed |-> FALSE]
  <2>1. UNCHANGED <<task, leader, run, file>> /\ client = "connect" /\ ~Busy /\ ~Busy'
    BY <1>2 DEF Connect, ProcessInv, Busy
  <2>2. link'.task = Now /\ link'.frames = <<>> /\ link.task < Now /\ Now \in 1..MaxTasks
        /\ task[Now].status \in {"running", "cancelled"}
    BY <1>2, <2>1, TheJob DEF RunnerInv, StrongTypeOK, Links
  <2>3. Blank'
    <3>1. file[Now] = NoFiles /\ \A n \in 1..MaxTasks : n > Now => file[n] = NoFiles
      BY <2>2 DEF FileInv, Blank, StrongTypeOK, Links
    <3> QED BY <2>1, <2>2, <3>1 DEF Blank
  <2>4. Written' /\ MuxedOnce' /\ Delivered'
    BY <2>1, <2>2 DEF FileInv, Written, MuxedOnce, Delivered, Busy
  <2>5. Finished'
    BY <1>2, <2>1, <2>2 DEF FileInv, Finished, Complete, Settled
  <2> QED BY <2>3, <2>4, <2>5 DEF FileInv
<1> QED BY <1>1, <1>2 DEF Connect

\* What the runner has read is complete.
LEMMA FilesRead ==
  ASSUME StrongTypeOK, RunnerInv, FileInv, ReadReply \/ ReadTimesOut
  PROVE  FileInv'
<1>1. UNCHANGED <<leader, run, file>> /\ client = "read" /\ link'.task = link.task
      /\ link'.unread = link.unread /\ link.task = Now /\ Now # 0
  BY DEF ReadReply, ReadTimesOut, HangsUp, StrongTypeOK, Links, RunnerInv
<1>2. link.frames \in Seq(Frames)
  BY DEF StrongTypeOK, Links
<1>3. Blank' /\ Written' /\ MuxedOnce'
  BY <1>1 DEF FileInv, Blank, Written, MuxedOnce
<1>4. \A n : Settled(n) => Settled(n)'
  BY <1>1 DEF Settled, Busy
<1>5. Delivered'
  <2>1. CASE link'.frames = <<>>
    BY <2>1 DEF Delivered
  <2>2. CASE link.frames # <<>> /\ link'.frames = Tail(link.frames)
    <3> SUFFICES ASSUME NEW i \in DOMAIN link'.frames, link'.frames[i].type = "result"
                 PROVE  (Complete(link.frames[i].names, link.task) /\ Settled(link.task))'
      BY DEF Delivered
    <3>1. i + 1 \in DOMAIN link.frames /\ link'.frames[i] = link.frames[i + 1]
      <4> DEFINE s == link.frames
      <4>1. s \in Seq(Frames) /\ s # <<>> /\ i \in DOMAIN Tail(s)
        BY <1>2, <2>2
      <4> HIDE DEF s
      <4>2. i + 1 \in DOMAIN s /\ Tail(s)[i] = s[i + 1]
        BY <4>1, HeadTailProperties
      <4> QED BY <2>2, <4>2 DEF s
    <3>2. Complete(link.frames[i + 1].names, link.task) /\ Settled(link.task)
      BY <3>1 DEF FileInv, Delivered
    <3> QED BY <1>1, <1>4, <3>1, <3>2 DEF Complete
  <2>3. link'.frames = <<>> \/ (link.frames # <<>> /\ link'.frames = Tail(link.frames))
    BY DEF ReadReply, ReadTimesOut, HangsUp, Got, StrongTypeOK, Links
  <2> QED BY <2>1, <2>2, <2>3
<1>6. Finished'
  <2>1. CASE UNCHANGED task /\ client' # "returned"
    BY <1>1, <1>4, <2>1 DEF FileInv, Finished, Complete
  <2>2. CASE Got("result") /\ task' = [task EXCEPT ![Now].names = Head(link.frames).names]
    <3>1. 1 \in DOMAIN link.frames /\ link.frames[1].type = "result"
          /\ Head(link.frames) = link.frames[1] /\ Head(link.frames).names \in SUBSET Artifacts
      <4> DEFINE s == link.frames
      <4>1. s \in Seq(Frames) /\ s # <<>> /\ Head(s).type = "result"
        BY <1>2, <2>2 DEF Got
      <4> HIDE DEF s
      <4>2. 1 \in DOMAIN s /\ Head(s) = s[1] /\ Head(s) \in Frames
        BY <4>1, FramesStay
      <4>3. Head(s).names \in SUBSET Artifacts
        BY <4>2 DEF Frames
      <4> QED BY <4>1, <4>2, <4>3 DEF s
    <3>2. Complete(Head(link.frames).names, Now) /\ Settled(Now)
      BY <1>1, <3>1 DEF FileInv, Delivered
    <3>3. /\ Now' = Now /\ DOMAIN task' = DOMAIN task /\ task'[Now].names = Head(link.frames).names
          /\ \A n \in DOMAIN task : n # Now => task'[n] = task[n]
          /\ \A n \in DOMAIN task : task'[n].status = task[n].status
      BY <1>1, <2>2, <3>1, JobNames
    <3>4. task[Now].status # "succeeded"
      BY <1>1 DEF RunnerInv
    <3>5. (Complete(task[Now].names, Now) /\ Settled(Now))'
      BY <1>1, <1>4, <3>2, <3>3 DEF Complete
    <3>6. \A n \in DOMAIN task' : task'[n].status = "succeeded"
            => (Complete(task[n].names, n) /\ Settled(n))'
      BY <1>1, <1>4, <3>3, <3>4 DEF FileInv, Finished, Complete
    <3> QED BY <3>5, <3>6 DEF Finished
  <2> QED BY <2>1, <2>2 DEF ReadReply, ReadTimesOut
<1> QED BY <1>3, <1>5, <1>6 DEF FileInv

\* The runner and the manager keep the files' part.
LEMMA FilesDrives ==
  ASSUME StrongTypeOK, RunnerInv, ProcessInv, FileInv,
         Drives \/ Evicts \/ EvictEscalates \/ CancelTask
  PROVE  FileInv'
<1>l. link \in Links
  BY DEF StrongTypeOK
<1>1. CASE StartWorker
  BY <1>1, FilesRest DEF StartWorker, Busy
<1>2. CASE Evicts
  <2>1. CASE UNCHANGED procvars
    BY <1>2, <2>1, FilesWait DEF Evicts, EvictTerminates, EvictKills, procvars, Now
  <2>2. CASE Dies
    <3>1. leader' = "dead" /\ link'.task = link.task /\ link'.frames = link.frames /\ file' = file
          /\ ~link'.unread
      BY <1>l, <2>2 DEF Dies, Links
    <3> QED BY <1>2, <3>1, FilesRest DEF Evicts, EvictTerminates, EvictKills, Busy
  <2> QED BY <1>2, <2>1, <2>2 DEF Evicts, EvictTerminates, EvictKills
<1>3. CASE Connect
  BY <1>3, FilesConnect
<1>4. CASE ReadReply \/ ReadTimesOut
  BY <1>4, FilesRead
<1>5. CASE EvictEscalates \/ CleansUp
  BY <1>5, FilesWait DEF EvictEscalates, CleansUp, procvars, Now
<1>6. CASE WaitReady \/ AcquireResident \/ Returns \/ RunnerFails \/ CancelTask
  <2>1. UNCHANGED procvars /\ Now # 0
    BY <1>6 DEF WaitReady, AcquireResident, Returns, RunnerFails, CancelTask, RunnerInv
  <2>2. \/ task' = task
        \/ \E s \in Over \cup {"queued", "running"} :
             task' = [task EXCEPT ![Now].status = s] /\ (s = "succeeded" => client = "returned")
    BY <1>6 DEF WaitReady, AcquireResident, Resident, Returns, RunnerFails, CancelTask, Over
  <2>3. Now' = Now /\ task'[Now].names = task[Now].names
        /\ \A n \in DOMAIN task' : task'[n].status = "succeeded" =>
             /\ task'[n].names = task[n].names
             /\ (n \in DOMAIN task /\ task[n].status = "succeeded") \/ (client = "returned" /\ n = Now)
    <3>1. CASE task' = task
      BY <3>1 DEF Now
    <3>2. CASE task' # task
      BY <2>1, <2>2, <3>2, JobMoves
    <3> QED BY <3>1, <3>2
  <2>4. client' = "returned" => client = "returned"
    BY <1>6 DEF WaitReady, AcquireResident, Resident, Returns, RunnerFails, CancelTask
  <2> QED BY <2>1, <2>3, <2>4, FilesWait DEF procvars
<1> QED BY <1>1, <1>2, <1>3, <1>4, <1>5, <1>6 DEF Drives

\* A step of the process that has a request leaves the other jobs' files alone.
LEMMA FilesOthers ==
  ASSUME StrongTypeOK, RunnerInv, FileInv, Busy \/ link.unread, Serves,
         \A n \in 1..MaxTasks : n # link.task => file'[n] = file[n]
  PROVE  Finished' /\ \A n \in 1..MaxTasks : n > link'.task => file'[n] = NoFiles
<1>1. UNCHANGED <<task, client>> /\ link'.task = link.task
  BY ProcessKeeps
<1>2. client # "returned" /\ \A n \in DOMAIN task : task[n].status = "succeeded" => n # link.task
  BY BusyIsOpen
<1>3. DOMAIN task \subseteq 1..MaxTasks
  BY WorkerAssumption DEF StrongTypeOK
<1>4. \A n \in DOMAIN task' : task'[n].status = "succeeded" => (Complete(task[n].names, n) /\ Settled(n))'
  <2> SUFFICES ASSUME NEW n \in DOMAIN task, task[n].status = "succeeded"
               PROVE  (Complete(task[n].names, n) /\ Settled(n))'
    BY <1>1
  <2>1. n # link.task /\ n \in 1..MaxTasks /\ Complete(task[n].names, n)
    BY <1>2, <1>3 DEF FileInv, Finished
  <2>2. file'[n] = file[n]
    BY <2>1
  <2>3. Complete(task[n].names, n)'
    BY <1>1, <2>1, <2>2 DEF Complete
  <2>4. Settled(n)'
    BY <1>1, <2>1 DEF Settled
  <2> QED BY <2>3, <2>4
<1>5. Finished'
  BY <1>1, <1>2, <1>4 DEF Finished
<1>6. \A n \in 1..MaxTasks : n > link'.task => file'[n] = NoFiles
  <2>1. link.task \in Nat
    BY WorkerAssumption DEF StrongTypeOK, Links
  <2> QED BY <1>1, <2>1 DEF FileInv, Blank
<1> QED BY <1>5, <1>6

\* No result is among the frames of a request that is being served.
LEMMA NoResultYet ==
  ASSUME StrongTypeOK, RunnerInv, FileInv, Busy \/ link.unread,
         link'.frames = link.frames \/ link'.frames = Append(link.frames, Frame("progress", {}))
  PROVE  Delivered'
<1>1. \A i \in DOMAIN link.frames : link.frames[i].type # "result"
  BY BusyIsOpen
<1>2. link.frames \in Seq(Frames) /\ Frame("progress", {}) \in Frames /\ Frame("progress", {}).type = "progress"
  BY DEF StrongTypeOK, Links, Frame, Frames
<1>3. \A i \in DOMAIN link'.frames : link'.frames[i].type # "result"
  <2>1. CASE link'.frames = link.frames
    BY <1>1, <2>1
  <2>2. CASE link'.frames = Append(link.frames, Frame("progress", {}))
    <3> DEFINE t == link'.frames
               s == link.frames
    <3>1. DOMAIN t = DOMAIN s \cup {Len(s) + 1} /\ t[Len(s) + 1] = Frame("progress", {})
          /\ \A i \in DOMAIN s : t[i] = s[i]
      BY <1>2, <2>2, Added
    <3> QED BY <1>1, <1>2, <3>1
  <2> QED BY <2>1, <2>2
<1> QED BY <1>3 DEF Delivered

\* A file of the reply is written.
LEMMA FilesWrites ==
  ASSUME StrongTypeOK, RunnerInv, ProcessInv, FileInv, Serves, NEW f \in Artifacts, Writes(f)
  PROVE  FileInv'
<1> DEFINE w == link.task
<1>1. leader = "encoding" /\ run.todo \in Todos /\ run.todo # <<>> /\ Head(run.todo) = f /\ Busy
  BY DEF Writes, Encoding, StrongTypeOK, Runs, Busy
<1>2. w \in 1..MaxTasks /\ ~link.unread
  BY <1>1, WorkerAssumption DEF ProcessInv, StrongTypeOK, Links
<1>3. UNCHANGED <<task, client, leader, link>>
  BY DEF Writes
<1>4. file \in [1..MaxTasks -> [Artifacts -> States]]
  BY DEF StrongTypeOK
<1>5. PICK s \in {"torn", "whole"} :
        /\ file' = [file EXCEPT ![w][f] = s]
        /\ s = "torn" => file[w][f] = "absent" /\ run' = run
        /\ s = "whole" => run' = [run EXCEPT !.todo = Tail(@), !.names = @ \cup {f}]
  BY DEF Writes, Sets
<1>6. \A n \in 1..MaxTasks : n # w => file'[n] = file[n]
  BY <1>4, <1>5
<1>7. file'[w][f] = s /\ \A g \in Artifacts : g # f => file'[w][g] = file[w][g]
  BY <1>2, <1>4, <1>5
<1>8. Finished' /\ \A n \in 1..MaxTasks : n > w => file'[n] = NoFiles
  BY <1>1, <1>3, <1>6, FilesOthers
<1>9. Blank'
  BY <1>1, <1>2, <1>3, <1>8 DEF Blank
<1>10. Delivered'
  BY <1>1, <1>3, NoResultYet
<1>11. file[w].mp4 = "muxed" => f = "npy" /\ Tail(run.todo) = <<>>
  <2>1. file[w].mp4 = "muxed" => run.todo = <<"npy">>
    BY <1>1 DEF FileInv, Written
  <2>2. Head(<<"npy">>) = "npy" /\ Tail(<<"npy">>) = <<>>
    BY Ends
  <2> QED BY <1>1, <2>1, <2>2
<1>12. MuxedOnce'
  <2>1. file'[w].mp4 = "muxed" => file[w].mp4 = "muxed" /\ f = "npy"
    BY <1>7, <1>11 DEF Artifacts
  <2>2. file'[w].mp4 = "muxed" => file'[w].wav = "absent"
    BY <1>2, <1>7, <2>1 DEF FileInv, MuxedOnce, Artifacts
  <2> QED BY <1>2, <1>6, <2>2 DEF FileInv, MuxedOnce
<1>13. Written'
  <2>1. run.names \subseteq Artifacts /\ run \in Runs
    BY DEF StrongTypeOK, Runs
  <2>2. \A g \in run.names : file[w][g] \in {"whole", "muxed"}
    BY <1>1 DEF FileInv, Written
  <2>3. CASE s = "torn"
    <3>1. f \notin run.names /\ run' = run
      BY <1>5, <2>2, <2>3
    <3>2. \A g \in run'.names : file'[w][g] \in {"whole", "muxed"}
      BY <1>7, <2>1, <2>2, <3>1
    <3>3. file'[w].mp4 = "muxed" => file[w].mp4 = "muxed"
      BY <1>7, <2>3 DEF Artifacts
    <3> QED BY <1>1, <1>3, <3>1, <3>2, <3>3 DEF FileInv, Written
  <2>4. CASE s = "whole"
    <3>1. run'.todo = Tail(run.todo) /\ run'.names = run.names \cup {f}
      BY <1>5, <2>1, <2>4 DEF Runs
    <3>2. \A g \in run'.names : file'[w][g] \in {"whole", "muxed"}
      BY <1>7, <2>1, <2>2, <2>4, <3>1
    <3>3. run'.names # {}
      BY <3>1
    <3>4. run'.todo # <<>> /\ Head(run'.todo) \in {"wav", "mux"} => "mp4" \in run'.names
      <4>1. CASE run'.todo # <<>> /\ Head(run'.todo) = "wav"
        BY <1>1, <3>1, <4>1, TodoOrder
      <4>2. CASE run'.todo # <<>> /\ Head(run'.todo) = "mux"
        <5>1. f = "wav"
          BY <1>1, <3>1, <4>2, TodoOrder
        <5> QED BY <1>1, <3>1, <5>1 DEF FileInv, Written
      <4> QED BY <4>1, <4>2
    <3>5. file'[w].mp4 = "muxed" => run'.todo \in {<<>>, <<"npy">>}
      BY <1>7, <1>11, <2>4, <3>1 DEF Artifacts
    <3> QED BY <1>1, <1>3, <3>2, <3>3, <3>4, <3>5 DEF Written
  <2> QED BY <2>3, <2>4
<1> QED BY <1>8, <1>9, <1>10, <1>12, <1>13 DEF FileInv

\* The sound is muxed into its video, or stays beside it.
LEMMA FilesMuxes ==
  ASSUME StrongTypeOK, RunnerInv, ProcessInv, FileInv, Serves, Muxes
  PROVE  FileInv'
<1> DEFINE w == link.task
<1>1. leader = "encoding" /\ run.todo \in Todos /\ run.todo # <<>> /\ Head(run.todo) = "mux" /\ Busy
  BY DEF Muxes, Encoding, StrongTypeOK, Runs, Busy
<1>2. w \in 1..MaxTasks /\ ~link.unread
  BY <1>1, WorkerAssumption DEF ProcessInv, StrongTypeOK, Links
<1>3. UNCHANGED <<task, client, leader, link>>
  BY DEF Muxes
<1>4. file \in [1..MaxTasks -> [Artifacts -> States]] /\ run \in Runs
  BY DEF StrongTypeOK
<1>5. Tail(run.todo) \in {<<>>, <<"npy">>} /\ "mp4" \in run.names
      /\ \A g \in run.names : file[w][g] \in {"whole", "muxed"}
  BY <1>1, TodoOrder DEF FileInv, Written
<1>6. run.names \subseteq Artifacts
  BY <1>4 DEF Runs
<1>7. CASE /\ file' = [file EXCEPT ![w].mp4 = "muxed", ![w].wav = "absent"]
           /\ run' = [run EXCEPT !.todo = Tail(@), !.names = @ \ {"wav"}]
  <2> DEFINE one == [file EXCEPT ![w].mp4 = "muxed"]
  <2>1. file' = [one EXCEPT ![w].wav = "absent"]
    BY <1>7
  <2>2. one \in [1..MaxTasks -> [Artifacts -> States]] /\ one[w].mp4 = "muxed"
        /\ (\A n \in 1..MaxTasks : n # w => one[n] = file[n])
        /\ \A g \in Artifacts : g # "mp4" => one[w][g] = file[w][g]
    BY <1>2, <1>4 DEF Artifacts, States
  <2> HIDE DEF one
  <2>3. file'[w].mp4 = "muxed" /\ file'[w].wav = "absent"
        /\ (\A n \in 1..MaxTasks : n # w => file'[n] = file[n])
        /\ \A g \in Artifacts : g \notin {"mp4", "wav"} => file'[w][g] = file[w][g]
    BY <1>2, <2>1, <2>2 DEF Artifacts
  <2>4. run'.todo = Tail(run.todo) /\ run'.names = run.names \ {"wav"}
    BY <1>4, <1>7 DEF Runs
  <2>5. Finished' /\ \A n \in 1..MaxTasks : n > w => file'[n] = NoFiles
    BY <1>1, <1>3, <2>3, FilesOthers
  <2>6. Blank'
    BY <1>1, <1>2, <1>3, <2>5 DEF Blank
  <2>7. Delivered'
    BY <1>1, <1>3, NoResultYet
  <2>8. MuxedOnce'
    BY <1>2, <2>3 DEF FileInv, MuxedOnce
  <2>9. Written'
    <3>1. \A g \in run'.names : file'[w][g] \in {"whole", "muxed"}
      BY <1>5, <1>6, <2>3, <2>4
    <3>2. "mp4" \in run'.names
      BY <1>5, <2>4
    <3> QED BY <1>1, <1>3, <1>5, <2>4, <3>1, <3>2 DEF Written
  <2> QED BY <2>5, <2>6, <2>7, <2>8, <2>9 DEF FileInv
<1>8. CASE run' = [run EXCEPT !.todo = Tail(@)] /\ UNCHANGED file
  <2>1. run'.todo = Tail(run.todo) /\ run'.names = run.names
    BY <1>4, <1>8 DEF Runs
  <2>2. Finished'
    BY <1>1, <1>3, <1>8, FilesOthers
  <2>3. Blank' /\ MuxedOnce'
    BY <1>3, <1>8 DEF FileInv, Blank, MuxedOnce
  <2>4. Delivered'
    BY <1>1, <1>3, NoResultYet
  <2>5. Written'
    BY <1>1, <1>3, <1>5, <1>8, <2>1 DEF Written
  <2> QED BY <2>2, <2>3, <2>4, <2>5 DEF FileInv
<1> QED BY <1>7, <1>8 DEF Muxes

\* The process keeps the files' part.
LEMMA FilesServes ==
  ASSUME StrongTypeOK, RunnerInv, ProcessInv, FileInv, Serves \/ Crashes
  PROVE  FileInv'
<1>l. link \in Links /\ run \in Runs
  BY DEF StrongTypeOK
<1>k. UNCHANGED <<task, client>> /\ link'.task = link.task
  BY ProcessKeeps
<1>s. file' = file /\ Serves /\ (Busy \/ link.unread) => Finished' /\ MuxedOnce'
  BY FilesOthers DEF FileInv, MuxedOnce
<1>1. CASE BuildAdapters \/ Warm \/ Listen \/ SaysReady
  BY <1>1, FilesRest DEF BuildAdapters, Warm, Listen, SaysReady, Busy
<1>2. CASE Accepts
  <2>1. link'.frames = link.frames /\ file' = file /\ link.unread /\ ~link'.unread
        /\ leader' \in {"running", "failing"} /\ run'.names = {} /\ Serves
    BY <1>2, <1>l DEF Accepts, Links, NoRun, Serves
  <2>2. Finished' /\ MuxedOnce' /\ Delivered'
    BY <1>s, <2>1, NoResultYet
  <2>3. Blank' /\ Written'
    BY <1>k, <2>1 DEF FileInv, Blank, Written
  <2> QED BY <2>2, <2>3 DEF FileInv
<1>3. CASE Generates \/ GeneratesAction
  <2>1. /\ link'.frames = link.frames \/ link'.frames = Append(link.frames, Frame("progress", {}))
        /\ file' = file /\ link'.unread = link.unread /\ leader = "running" /\ Busy /\ Serves
        /\ leader' \in {"running", "failing"} /\ run'.names = run.names
    BY <1>3, <1>l DEF Generates, GeneratesAction, Links, Runs, Busy, Serves
  <2>2. Finished' /\ MuxedOnce' /\ Delivered'
    BY <1>s, <2>1, NoResultYet
  <2>3. Blank' /\ Written'
    BY <1>k, <2>1 DEF FileInv, Blank, Written
  <2> QED BY <2>2, <2>3 DEF FileInv
<1>4. CASE RunEnds
  <2>1. PICK t \in Begun : run' = [run EXCEPT !.todo = t]
    BY <1>4, GenerationReplies, ActionReplies DEF RunEnds
  <2>2. run'.todo = t /\ run'.names = run.names
    BY <1>l, <2>1 DEF Runs
  <2>3. file' = file /\ link' = link /\ leader = "running" /\ leader' = "encoding" /\ Busy /\ Serves
    BY <1>4 DEF RunEnds, Busy, Serves
  <2>4. Finished' /\ MuxedOnce' /\ Delivered'
    BY <1>s, <2>3, NoResultYet
  <2>5. run'.names = {} /\ file[link.task] = NoFiles /\ NoFiles.mp4 # "muxed"
    BY <2>2, <2>3 DEF FileInv, Blank, Written, NoFiles, Artifacts
  <2>6. Blank' /\ Written'
    BY <2>2, <2>3, <2>5, BegunReplies DEF FileInv, Blank, Written
  <2> QED BY <2>4, <2>6 DEF FileInv
<1>5. CASE RunFails
  <2>1. file' = file /\ link' = link /\ Busy /\ leader' = "failing" /\ Serves
    BY <1>5 DEF RunFails, Busy, Serves
  <2>2. Finished' /\ MuxedOnce' /\ Delivered'
    BY <1>s, <2>1, NoResultYet
  <2>3. Blank' /\ Written'
    BY <2>1 DEF FileInv, Blank, Written
  <2> QED BY <2>2, <2>3 DEF FileInv
<1>6. CASE WritesImage \/ WritesVideo \/ WritesLatents \/ WritesTrajectory \/ WritesWav
  <2>1. PICK f \in Artifacts : Writes(f)
    BY <1>6 DEF WritesImage, WritesVideo, WritesLatents, WritesTrajectory, WritesWav, Artifacts
  <2> QED BY <1>6, <2>1, FilesWrites DEF Serves
<1>7. CASE WavFails
  <2>1. file' = file /\ link' = link /\ Busy /\ leader = "encoding" /\ leader' = leader /\ Serves
        /\ run.todo \in Todos /\ run.todo # <<>> /\ Head(run.todo) = "wav"
    BY <1>7, <1>l DEF WavFails, Encoding, Busy, Runs, Serves
  <2>2. Finished' /\ MuxedOnce' /\ Delivered'
    BY <1>s, <2>1, NoResultYet
  <2>3. run'.todo = Tail(Tail(run.todo)) /\ run'.names = run.names
    BY <1>7, <1>l DEF WavFails, Runs
  <2>4. run'.todo \in {<<>>, <<"npy">>} /\ "mp4" \in run.names
    BY <2>1, <2>3, TodoOrder DEF FileInv, Written
  <2>5. \A s \in {<<>>, <<"npy">>} : s = <<>> \/ Head(s) = "npy"
    BY Ends
  <2>6. run'.todo # <<>> => Head(run'.todo) \notin {"wav", "mux"}
    BY <2>4, <2>5
  <2>7. Blank'
    BY <2>1 DEF FileInv, Blank
  <2>8. Written'
    BY <2>1, <2>3, <2>4, <2>6 DEF FileInv, Written
  <2> QED BY <2>2, <2>7, <2>8 DEF FileInv
<1>8. CASE Muxes
  BY <1>8, FilesMuxes DEF Serves
<1>9. CASE Replies
  <2>1. file' = file /\ Busy /\ leader' = "serving" /\ ~Busy' /\ Serves
    BY <1>9 DEF Replies, Busy, Serves
  <2>2. ~link.unread /\ link'.unread = link.unread
    BY <1>9, <1>l, <2>1 DEF Replies, Links, ProcessInv
  <2>3. Finished' /\ MuxedOnce'
    BY <1>s, <2>1
  <2>4. Blank' /\ Written'
    BY <1>k, <2>1, <2>2 DEF FileInv, Blank, Written
  <2>5. Delivered'
    <3>1. Settled(link.task)'
      BY <2>1, <2>2 DEF Settled
    <3>2. CASE link'.frames = link.frames \/ link'.frames = Append(link.frames, Frame("failure", {}))
      <4>1. \A i \in DOMAIN link.frames : link.frames[i].type # "result"
        BY <2>1, BusyIsOpen
      <4>2. link.frames \in Seq(Frames) /\ Frame("failure", {}) \in Frames
            /\ Frame("failure", {}).type = "failure"
        BY <1>l DEF Links, Frame, Frames
      <4>3. \A i \in DOMAIN link'.frames : link'.frames[i].type # "result"
        BY <3>2, <4>1, <4>2, Added
      <4> QED BY <4>3 DEF Delivered
    <3>3. CASE leader = "encoding" /\ run.todo = <<>>
               /\ link'.frames = Append(link.frames, Frame("result", run.names))
      <4> DEFINE e == Frame("result", run.names)
                 s == link.frames
                 t == link'.frames
      <4>1. s \in Seq(Frames) /\ e \in Frames /\ e.names = run.names
        BY <1>l DEF Links, Runs, Frame, Frames
      <4>2. \A i \in DOMAIN s : s[i].type # "result"
        BY <2>1, BusyIsOpen
      <4>3. Complete(run.names, link.task)
        BY <3>3 DEF Complete, FileInv, Written
      <4>4. t = Append(s, e)
        BY <3>3
      <4> HIDE DEF e, s, t
      <4>5. DOMAIN t = DOMAIN s \cup {Len(s) + 1} /\ t[Len(s) + 1] = e
            /\ \A i \in DOMAIN s : t[i] = s[i]
        BY <4>1, <4>4, Added
      <4>6. \A i \in DOMAIN t : t[i].type = "result" => t[i].names = run.names
        BY <4>1, <4>2, <4>5
      <4>7. Complete(run.names, link.task) => \A i \in DOMAIN link'.frames :
              link'.frames[i].type = "result" => Complete(link.frames[i].names, link.task)'
        BY <1>k, <2>1, <4>6 DEF Complete, t
      <4> QED BY <3>1, <4>3, <4>7 DEF Delivered
    <3> QED BY <1>9, <1>l, <3>2, <3>3 DEF Replies, Links
  <2> QED BY <2>3, <2>4, <2>5 DEF FileInv
<1>10. CASE Crashes
  <2>1. ~Busy' /\ ~link'.unread /\ link'.frames = link.frames /\ file' = file
    BY <1>10, <1>l DEF Crashes, Dies, Busy, Links
  <2> QED BY <1>k, <2>1, FilesRest
<1> QED BY <1>1, <1>2, <1>3, <1>4, <1>5, <1>6, <1>7, <1>8, <1>9, <1>10 DEF Serves

\* Every step keeps the files' part.
LEMMA FileStep ==
  ASSUME StrongTypeOK, RunnerInv, ProcessInv, FileInv, [WorkerNext]_workervars
  PROVE  FileInv'
<1>1. CASE Drives \/ Evicts \/ EvictEscalates \/ CancelTask
  BY <1>1, FilesDrives
<1>2. CASE Serves \/ Crashes
  BY <1>2, FilesServes
<1>3. ASSUME NEW r \in TaskRequests[IF Now < MaxTasks THEN Now + 1 ELSE MaxTasks], Take(r)
      PROVE  FileInv'
  <2>1. DOMAIN task' = DOMAIN task \cup {Now'} /\ task'[Now'].status = "queued"
        /\ \A n \in DOMAIN task : task'[n] = task[n]
    BY <1>3, JobTaken
  <2>2. UNCHANGED <<leader, link, run, file>> /\ client' = "acquire"
    BY <1>3 DEF Take, procvars
  <2>3. \A n \in DOMAIN task' : task'[n].status = "succeeded" =>
          n \in DOMAIN task /\ task[n].status = "succeeded" /\ task'[n].names = task[n].names
    BY <2>1
  <2> QED BY <2>2, <2>3, FilesWait
<1>4. CASE UNCHANGED workervars
  BY <1>4, FilesWait DEF workervars, procvars, Now
<1> QED BY <1>1, <1>2, <1>3, <1>4 DEF WorkerNext

-----------------------------------------------------------------------------
(* The costs.                                                              *)

\* The jobs that fail are among the jobs.
LEMMA LostIsFinite ==
  ASSUME StrongTypeOK
  PROVE  IsFiniteSet(Lost) /\ Cardinality(Lost) \in Nat /\ Cardinality(Lost) <= MaxTasks
<1>1. 1 \in Int /\ MaxTasks \in Int /\ MaxTasks >= 0
  BY WorkerAssumption
<1>2. IsFiniteSet(1..MaxTasks) /\ Cardinality(1..MaxTasks) = MaxTasks
  BY <1>1, FS_Interval
<1>3. Lost \subseteq 1..MaxTasks
  BY WorkerAssumption DEF Lost, StrongTypeOK
<1>4. IsFiniteSet(Lost) /\ Cardinality(Lost) <= Cardinality(1..MaxTasks)
  BY <1>2, <1>3, FS_Subset
<1> QED BY <1>2, <1>4, FS_CardinalityType

\* No job fails, and what is owed was owed, or a fault is counted.
LEMMA NothingLost ==
  ASSUME StrongTypeOK, Paid, DOMAIN task \subseteq DOMAIN task',
         \A n \in DOMAIN task' : task'[n].status = "failed" => n \in DOMAIN task,
         \A n \in DOMAIN task : /\ task'[n].params = task[n].params
                                /\ task'[n].status = "failed" <=> task[n].status = "failed",
         (faults' = faults /\ (Owed' => Owed)) \/ Fault
  PROVE  Paid'
<1>1. Lost' = Lost
  BY DEF Lost
<1>2. Cardinality(Lost) \in Nat /\ faults \in 0..MaxTasks /\ MaxTasks \in Nat
  BY LostIsFinite, WorkerAssumption DEF StrongTypeOK
<1>3. CASE faults' = faults /\ (Owed' => Owed)
  <2>1. faults = MaxTasks \/ Cardinality(Lost) + (IF Owed THEN 1 ELSE 0) <= faults
    BY DEF Paid
  <2>2. faults' = MaxTasks \/ Cardinality(Lost') + (IF Owed' THEN 1 ELSE 0) <= faults'
    BY <1>1, <1>2, <1>3, <2>1
  <2> QED BY <2>2 DEF Paid
<1>4. CASE Fault
  <2>1. faults = MaxTasks \/ Cardinality(Lost) <= faults
    BY <1>2 DEF Paid
  <2>2. faults' = MaxTasks \/ Cardinality(Lost') + 1 <= faults'
    BY <1>1, <1>2, <1>4, <2>1 DEF Fault
  <2>3. faults' = MaxTasks \/ Cardinality(Lost') + (IF Owed' THEN 1 ELSE 0) <= faults'
    BY <1>1, <1>2, <1>4, <2>2 DEF Fault
  <2> QED BY <2>3 DEF Paid
<1> QED BY <1>3, <1>4

\* The last job fails: that was owed, or is nobody's fault.
LEMMA OneLost ==
  ASSUME StrongTypeOK, Paid, Now # 0, faults' = faults, ~Owed', Sane(TaskParams) => Owed,
         task' = [task EXCEPT ![Now].status = "failed"]
  PROVE  Paid'
<1>1. /\ DOMAIN task' = DOMAIN task /\ task'[Now].status = "failed" /\ task'[Now].params = TaskParams
      /\ \A n \in DOMAIN task : n # Now => task'[n] = task[n]
  BY JobMoves DEF TaskParams, Over
<1>2. Cardinality(Lost) \in Nat /\ IsFiniteSet(Lost) /\ faults \in 0..MaxTasks /\ MaxTasks \in Nat
  BY LostIsFinite, WorkerAssumption DEF StrongTypeOK
<1>3. CASE Sane(TaskParams)
  <2>1. Lost' = Lost \cup {Now}
    BY <1>1, <1>3, TheJob DEF Lost
  <2>2. Cardinality(Lost') <= Cardinality(Lost) + 1 /\ Cardinality(Lost') \in Nat
    <3>1. Cardinality(Lost \cup {Now}) = IF Now \in Lost THEN Cardinality(Lost) ELSE Cardinality(Lost) + 1
      BY <1>2, FS_AddElement
    <3> QED BY <1>2, <2>1, <3>1
  <2>3. faults = MaxTasks \/ Cardinality(Lost) + 1 <= faults
    BY <1>3 DEF Paid
  <2>4. faults' = MaxTasks \/ Cardinality(Lost') <= faults'
    BY <1>2, <2>2, <2>3
  <2> QED BY <1>2, <2>2, <2>4 DEF Paid
<1>4. CASE ~Sane(TaskParams)
  <2>1. Lost' \subseteq Lost
    BY <1>1, <1>4 DEF Lost
  <2>2. Cardinality(Lost') <= Cardinality(Lost) /\ Cardinality(Lost') \in Nat
    BY <1>2, <2>1, FS_Subset, FS_CardinalityType
  <2>3. faults = MaxTasks \/ Cardinality(Lost) <= faults
    BY <1>2 DEF Paid
  <2>4. faults' = MaxTasks \/ Cardinality(Lost') <= faults'
    BY <1>2, <2>2, <2>3
  <2> QED BY <1>2, <2>2, <2>4 DEF Paid
<1> QED BY <1>3, <1>4

\* The runner's and the manager's steps pay, or owe what was owed.
LEMMA PaidDrives ==
  ASSUME StrongTypeOK, RunnerInv, ProcessInv, CostInv,
         Drives \/ Evicts \/ EvictEscalates \/ CancelTask
  PROVE  Paid'
<1>l. link \in Links /\ link.frames \in Seq(Frames) /\ Paid
  BY DEF StrongTypeOK, Links, CostInv
<1>s. UNCHANGED task => /\ DOMAIN task \subseteq DOMAIN task'
                        /\ \A n \in DOMAIN task' : task'[n].status = "failed" => n \in DOMAIN task
                        /\ \A n \in DOMAIN task : /\ task'[n].params = task[n].params
                                                  /\ task'[n].status = "failed" <=> task[n].status = "failed"
  OBVIOUS
<1>m. ASSUME NEW s \in {"running", "succeeded", "cancelled"}, Now # 0, task[Now].status # "failed",
             task' = [task EXCEPT ![Now].status = s]
      PROVE  /\ DOMAIN task \subseteq DOMAIN task'
             /\ \A n \in DOMAIN task' : task'[n].status = "failed" => n \in DOMAIN task
             /\ \A n \in DOMAIN task : /\ task'[n].params = task[n].params
                                       /\ task'[n].status = "failed" <=> task[n].status = "failed"
  BY <1>m, JobMoves DEF Over
<1>1. CASE StartWorker
  <2>1. UNCHANGED <<task, client, faults>> /\ leader' = "loading" /\ client = "acquire"
    BY <1>1 DEF StartWorker
  <2>2. ~Owed'
    BY <2>1 DEF Owed, Waits
  <2> QED BY <1>l, <1>s, <2>1, <2>2, NothingLost
<1>2. CASE WaitReady
  <2>1. client = "acquire" /\ manager = "starting" /\ UNCHANGED leader /\ Now # 0
        /\ task[Now].status = "queued"
    BY <1>2 DEF WaitReady, RunnerInv, procvars
  <2>2. CASE Resident
    <3>1. UNCHANGED faults /\ (Owed' => Owed)
      BY <1>2, <2>1, <2>2 DEF WaitReady, Resident, Owed, Waits
    <3> QED BY <1>l, <1>m, <2>1, <2>2, <3>1, NothingLost DEF Resident
  <2>3. CASE manager' = "term" /\ client' = "unready" /\ UNCHANGED task
    <3>1. Fault \/ (faults' = faults /\ Owed)
      BY <1>2, <2>1, <2>3 DEF WaitReady, Owed
    <3> QED BY <1>l, <1>s, <2>3, <3>1, NothingLost
  <2> QED BY <1>2, <2>2, <2>3 DEF WaitReady
<1>3. CASE AcquireResident
  <2>1. client = "acquire" /\ Resident /\ UNCHANGED <<leader, faults>> /\ Now # 0
        /\ task[Now].status = "queued" /\ manager = "up"
    BY <1>3 DEF AcquireResident, RunnerInv, procvars
  <2>2. Owed' => Owed
    BY <2>1 DEF Resident, Owed, Waits
  <2> QED BY <1>l, <1>m, <2>1, <2>2, NothingLost DEF Resident
<1>4. CASE Evicts \/ EvictEscalates
  <2>1. UNCHANGED <<task, client, faults>> /\ manager \in {"term", "kill"} /\ manager' \in {"none", "kill"}
    BY <1>4 DEF Evicts, EvictTerminates, EvictKills, EvictEscalates
  <2>2. ~Waits'
    BY <2>1 DEF Waits, RunnerInv, Cancelled, Now
  <2>3. Owed' => Owed
    BY <2>1, <2>2 DEF Owed
  <2> QED BY <1>l, <1>s, <2>1, <2>3, NothingLost
<1>5. CASE Connect
  <2>1. UNCHANGED <<task, manager, leader, faults>> /\ client = "connect" /\ Now # 0
    BY <1>5 DEF Connect, RunnerInv
  <2>2. PathError(TaskParams) = "ok"
    BY <2>1, TheJob, TakenIsTrusted
  <2>3. CASE client' = "raised" /\ path # "live"
    <3>1. ~Cancelled => manager = "up" /\ leader = "dead"
      BY <2>1, <2>3 DEF RunnerInv, ProcessInv, Busy, StrongTypeOK, Alive
    <3>2. Owed' => Owed
      BY <2>1, <2>3, <3>1 DEF Owed, Waits, Cancelled, Now
    <3> QED BY <1>l, <1>s, <2>1, <3>2, NothingLost
  <2>4. CASE client' = "read" /\ link'.frames = <<>>
    <3>1. ~Fails'
      BY <2>1, <2>4 DEF Fails, ProcessInv, Busy
    <3>2. Owed' => Owed
      BY <2>1, <2>4, <3>1 DEF Owed
    <3> QED BY <1>l, <1>s, <2>1, <3>2, NothingLost
  <2> QED BY <1>5, <2>2, <2>3, <2>4 DEF Connect
<1>6. CASE ReadReply
  <2>1. UNCHANGED <<manager, leader, faults>> /\ client = "read" /\ Now # 0
    BY <1>6 DEF ReadReply, RunnerInv
  <2>2. CASE Got("progress") /\ link' = [link EXCEPT !.frames = Tail(@)] /\ UNCHANGED <<client, task>>
    <3>1. link'.frames = Tail(link.frames) /\ link.frames # <<>>
      BY <1>l, <2>2 DEF Got, Links
    <3>2. Fails' => Fails
      <4> DEFINE s == link.frames
      <4>1. s \in Seq(Frames) /\ s # <<>> /\ link'.frames = Tail(s)
        BY <1>l, <3>1
      <4>2. (\E i \in DOMAIN link'.frames : link'.frames[i].type = "failure")
              => \E i \in DOMAIN s : s[i].type = "failure"
        <5> HIDE DEF s
        <5>1. \A i \in DOMAIN Tail(s) : i + 1 \in DOMAIN s /\ Tail(s)[i] = s[i + 1]
          BY <4>1, HeadTailProperties
        <5> QED BY <4>1, <5>1
      <4> QED BY <2>1, <2>2, <4>2 DEF Fails
    <3>3. Owed' => Owed
      BY <2>1, <2>2, <3>2 DEF Owed, Waits, Cancelled, TaskParams, Now
    <3> QED BY <1>l, <1>s, <2>1, <2>2, <3>3, NothingLost
  <2>3. CASE Got("failure") /\ client' = "raised" /\ UNCHANGED task
    <3>1. Fails
      BY <1>l, <2>3 DEF Got, Fails
    <3>2. Owed' => Owed
      BY <2>1, <2>3, <3>1 DEF Owed, Waits, Cancelled, TaskParams, Now
    <3> QED BY <1>l, <1>s, <2>1, <2>3, <3>2, NothingLost
  <2>4. CASE Got("result") /\ client' = "returned"
             /\ task' = [task EXCEPT ![Now].names = Head(link.frames).names]
    <3>1. Owed' => Owed
      BY <2>1, <2>4 DEF Owed, Waits
    <3>2. Head(link.frames).names \in SUBSET Artifacts
      BY <1>l, <2>4, FramesStay DEF Got, Frames
    <3> QED BY <1>l, <2>1, <2>4, <3>1, <3>2, JobNames, NothingLost
  <2>5. CASE StreamClosed /\ client' = "raised" /\ UNCHANGED task
    <3>1. ~Cancelled => leader = "dead" /\ manager = "up"
      BY <2>1, <2>5 DEF StreamClosed, CostInv, Answered, RunnerInv
    <3>2. Owed' => Owed
      BY <2>1, <2>5, <3>1 DEF Owed, Waits, Cancelled, Now
    <3> QED BY <1>l, <1>s, <2>1, <2>5, <3>2, NothingLost
  <2> QED BY <1>6, <2>2, <2>3, <2>4, <2>5 DEF ReadReply
<1>7. CASE ReadTimesOut
  <2>1. UNCHANGED task /\ Fault
    BY <1>7 DEF ReadTimesOut
  <2> QED BY <1>l, <1>s, <2>1, NothingLost
<1>8. CASE Returns \/ CleansUp
  <2>1. UNCHANGED <<manager, leader, faults>> /\ client' = "idle"
    BY <1>8 DEF Returns, CleansUp, procvars
  <2>2. Owed' => Owed
    BY <2>1 DEF Owed, Waits
  <2>3. CASE UNCHANGED task
    BY <1>l, <1>s, <2>1, <2>2, <2>3, NothingLost
  <2>4. CASE client = "returned" /\ task' = [task EXCEPT ![Now].status = "succeeded"]
    <3>1. Now # 0 /\ task[Now].status # "failed"
      BY <2>4 DEF RunnerInv
    <3> QED BY <1>l, <1>m, <2>1, <2>2, <2>4, <3>1, NothingLost
  <2> QED BY <1>8, <2>3, <2>4 DEF Returns, CleansUp
<1>9. CASE RunnerFails
  <2>1. UNCHANGED <<leader, faults>> /\ Now # 0 /\ client \in {"raised", "unready"}
    BY <1>9 DEF RunnerFails, procvars, RunnerInv
  <2>2. CASE client' = "idle" /\ UNCHANGED <<task, manager>>
    <3>1. Owed' => Owed
      BY <2>1, <2>2 DEF Owed, Waits
    <3> QED BY <1>l, <1>s, <2>1, <2>2, <3>1, NothingLost
  <2>3. CASE /\ ~Cancelled /\ client' = "cleanup" /\ EvictAll
             /\ task' = [task EXCEPT ![Now].status = "failed"]
    <3>1. ~Owed'
      BY <2>1, <2>3 DEF EvictAll, Owed, Waits, RunnerInv
    <3>2. Sane(TaskParams) => Owed
      BY <2>1, <2>3 DEF Owed, Waits, Fails
    <3> QED BY <1>l, <2>1, <2>3, <3>1, <3>2, OneLost
  <2> QED BY <1>9, <2>2, <2>3 DEF RunnerFails
<1>10. CASE CancelTask
  <2>1. UNCHANGED <<client, faults>> /\ Now # 0 /\ task[Now].status # "failed" /\ EvictAll
        /\ task' = [task EXCEPT ![Now].status = "cancelled"]
        /\ client \in {"connect", "read", "returned", "raised"}
    BY <1>10 DEF CancelTask, RunnerInv
  <2>2. Cancelled'
    BY <2>1, JobMoves DEF Cancelled, Over
  <2>3. ~Owed'
    BY <2>1, <2>2 DEF EvictAll, Owed, Waits, RunnerInv
  <2> QED BY <1>l, <1>m, <2>1, <2>3, NothingLost
<1> QED BY <1>1, <1>2, <1>3, <1>4, <1>5, <1>6, <1>7, <1>8, <1>9, <1>10 DEF Drives

\* A frame of another type adds no failure to a connection.
LEMMA NoFailureAdded ==
  ASSUME NEW s \in Seq(Frames), NEW e \in Frames, e.type # "failure", NEW t, t = Append(s, e),
         NEW i \in DOMAIN t, t[i].type = "failure"
  PROVE  \E j \in DOMAIN s : s[j].type = "failure"
<1>1. DOMAIN t = DOMAIN s \cup {Len(s) + 1} /\ t[Len(s) + 1] = e /\ \A j \in DOMAIN s : t[j] = s[j]
  BY Added
<1> QED BY <1>1

\* So do the process's: what it cannot serve, and no fault made it so, is not
\* a job's that is sane.
LEMMA PaidServes ==
  ASSUME StrongTypeOK, RunnerInv, ProcessInv, CostInv, Serves \/ Crashes
  PROVE  Paid'
<1>l. link \in Links /\ link.frames \in Seq(Frames) /\ Paid
  BY DEF StrongTypeOK, Links, CostInv
<1>k. UNCHANGED <<task, client, manager>> /\ link'.task = link.task /\ link'.open = link.open
  BY ProcessKeeps
<1>s. (faults' = faults /\ (Owed' => Owed)) \/ Fault => Paid'
  BY <1>k, <1>l, NothingLost
<1>w. Waits' <=> Waits
  BY <1>k DEF Waits, Cancelled, TaskParams, Now
<1>o. leader # "dead" /\ leader' # "dead" /\ faults' = faults /\ (Waits /\ Fails' => Fails) => Paid'
  BY <1>k, <1>s, <1>w DEF Owed
<1>1. CASE BuildAdapters \/ Warm \/ Listen \/ SaysReady
  <2>1. leader # "dead" /\ leader' \notin {"dead", "failing"} /\ UNCHANGED <<faults, link>>
    BY <1>1 DEF BuildAdapters, Warm, Listen, SaysReady
  <2> QED BY <1>k, <1>o, <2>1 DEF Fails
<1>2. CASE Accepts
  <2>1. leader = "serving" /\ leader' # "dead" /\ UNCHANGED faults /\ link'.frames = link.frames
        /\ (leader' = "failing" => Dispatch(BuildRequest(Request, WantLatents)) # "ok")
    BY <1>2, <1>l DEF Accepts, Links
  <2>2. Waits /\ client = "read" => Dispatch(BuildRequest(Request, WantLatents)) = "ok"
    <3> SUFFICES ASSUME Waits, client = "read" PROVE Dispatch(BuildRequest(Request, WantLatents)) = "ok"
      OBVIOUS
    <3>1. Request = TaskParams /\ Now # 0
      BY DEF Request, TaskParams, RunnerInv
    <3> QED BY <3>1, TheJob, SaneIsServed DEF Waits
  <2>3. Waits /\ Fails' => Fails
    BY <1>k, <2>1, <2>2 DEF Fails, Waits
  <2> QED BY <1>o, <2>1, <2>3
<1>3. CASE Generates
  <2>1. leader = "running" /\ leader' \in {"running", "failing"} /\ UNCHANGED faults
        /\ (leader' = "failing" => ~link.open)
        /\ (link'.frames = link.frames \/ link'.frames = Append(link.frames, Frame("progress", {})))
    BY <1>3, <1>l DEF Generates, Links
  <2>2. leader' = "failing" => client # "read"
    BY <2>1 DEF RunnerInv
  <2>3. (\E i \in DOMAIN link'.frames : link'.frames[i].type = "failure")
          => \E i \in DOMAIN link.frames : link.frames[i].type = "failure"
    <3>1. Frame("progress", {}) \in Frames /\ Frame("progress", {}).type = "progress"
      BY DEF Frame, Frames
    <3> QED BY <1>l, <2>1, <3>1, NoFailureAdded
  <2>4. Waits /\ Fails' => Fails
    BY <1>k, <2>2, <2>3 DEF Fails, Waits
  <2> QED BY <1>o, <2>1, <2>4
<1>4. CASE GeneratesAction \/ RunEnds
  <2>1. leader # "dead" /\ leader' \notin {"dead", "failing"} /\ UNCHANGED <<faults, link>>
    BY <1>4 DEF GeneratesAction, RunEnds
  <2> QED BY <1>k, <1>o, <2>1 DEF Fails
<1>5. CASE RunFails \/ Crashes
  BY <1>5, <1>s DEF RunFails, Crashes
<1>6. CASE \/ WritesImage \/ WritesVideo \/ WritesLatents \/ WritesTrajectory \/ WritesWav
           \/ WavFails \/ Muxes
  <2>1. leader = "encoding" /\ UNCHANGED <<leader, faults, link>>
    BY <1>6 DEF WritesImage, WritesVideo, WritesLatents, WritesTrajectory, WritesWav, Writes,
                WavFails, Muxes, Encoding
  <2> QED BY <1>k, <1>o, <2>1 DEF Fails
<1>7. CASE Replies
  <2>1. leader \in {"failing", "encoding"} /\ leader' = "serving" /\ UNCHANGED faults
        /\ \/ link'.frames = link.frames
           \/ leader = "failing" /\ link'.frames = Append(link.frames, Frame("failure", {}))
           \/ leader # "failing" /\ link'.frames = Append(link.frames, Frame("result", run.names))
    BY <1>7, <1>l DEF Replies, Links
  <2>2. leader # "failing" /\ (\E i \in DOMAIN link'.frames : link'.frames[i].type = "failure")
          => \E i \in DOMAIN link.frames : link.frames[i].type = "failure"
    <3>1. Frame("result", run.names) \in Frames /\ Frame("result", run.names).type = "result"
      BY DEF Frame, Frames, StrongTypeOK, Runs
    <3> QED BY <1>l, <2>1, <3>1, NoFailureAdded
  <2>3. Waits /\ Fails' => Fails
    BY <1>k, <2>1, <2>2 DEF Fails
  <2> QED BY <1>o, <2>1, <2>3
<1> QED BY <1>1, <1>2, <1>3, <1>4, <1>5, <1>6, <1>7 DEF Serves

\* A worker that closes the connection has sent its answer, unless it died.
LEMMA AnsweredStep ==
  ASSUME StrongTypeOK, RunnerInv, ProcessInv, CostInv, [WorkerNext]_workervars
  PROVE  Answered'
<1>l. link \in Links /\ link.frames \in Seq(Frames) /\ Answered
  BY DEF StrongTypeOK, Links, CostInv
<1>r. client' # "read" => Answered'
  BY DEF Answered
<1>u. UNCHANGED <<task, client, link>> /\ (leader = "dead" => leader' = "dead") => Answered'
  BY <1>l DEF Answered, Cancelled, Now
<1>d. leader' = "dead" => Answered'
  BY DEF Answered
<1>1. CASE Connect
  <2>1. client' = "read" => ~link'.closed
    BY <1>1 DEF Connect
  <2> QED BY <2>1 DEF Answered
<1>2. CASE ReadReply
  <2>1. CASE Got("progress") /\ link' = [link EXCEPT !.frames = Tail(@)] /\ UNCHANGED <<client, task>>
    <3> DEFINE s == link.frames
    <3>1. link'.closed = link.closed /\ link'.frames = Tail(s) /\ UNCHANGED leader
      BY <1>2, <1>l, <2>1 DEF ReadReply, Links
    <3>2. s \in Seq(Frames) /\ s # <<>> /\ s[1].type = "progress"
      <4>1. s \in Seq(Frames) /\ s # <<>> /\ Head(s).type = "progress"
        BY <1>l, <2>1 DEF Got
      <4> HIDE DEF s
      <4> QED BY <4>1
    <3> HIDE DEF s
    <3>3. s[Len(s)].type # "progress" => Tail(s) # <<>> /\ Tail(s)[Len(Tail(s))] = s[Len(s)]
      <4>1. Len(Tail(s)) = Len(s) - 1 /\ Len(s) \in Nat /\ Len(s) # 0
            /\ \A i \in 1..Len(Tail(s)) : Tail(s)[i] = s[i + 1]
        BY <3>2, HeadTailProperties
      <4>2. s[Len(s)].type # "progress" => Len(s) > 1
        <5>1. Len(s) = 1 => s[Len(s)].type = "progress"
          BY <3>2
        <5> QED BY <4>1, <5>1
      <4>3. Len(s) > 1 => Tail(s) # <<>> /\ Len(Tail(s)) \in 1..Len(Tail(s)) /\ Len(Tail(s)) + 1 = Len(s)
        <5>1. Len(<<>>) = 0
          OBVIOUS
        <5>2. Len(s) > 1 => Tail(s) # <<>>
          BY <4>1, <5>1
        <5>3. Len(s) > 1 => Len(Tail(s)) \in 1..Len(Tail(s)) /\ Len(Tail(s)) + 1 = Len(s)
          BY <4>1
        <5> QED BY <5>2, <5>3
      <4> QED BY <4>1, <4>2, <4>3
    <3>4. Cancelled' <=> Cancelled
      BY <2>1 DEF Cancelled, Now
    <3> QED BY <1>l, <2>1, <3>1, <3>3, <3>4 DEF Answered, s
  <2>2. CASE client' # "read"
    BY <1>r, <2>2
  <2> QED BY <1>2, <2>1, <2>2 DEF ReadReply
<1>3. CASE StartWorker \/ WaitReady \/ AcquireResident
  <2>1. client' # "read"
    BY <1>3 DEF StartWorker, WaitReady, AcquireResident, Resident, RunnerInv
  <2> QED BY <1>r, <2>1
<1>4. CASE ReadTimesOut \/ Returns \/ RunnerFails \/ CleansUp
  <2>1. client' # "read"
    BY <1>4 DEF ReadTimesOut, Returns, RunnerFails, CleansUp
  <2> QED BY <1>r, <2>1
<1>5. CASE Evicts \/ EvictEscalates
  BY <1>5, <1>d, <1>u DEF Evicts, EvictTerminates, EvictKills, EvictEscalates, Dies, procvars
<1>6. CASE CancelTask
  <2>1. Cancelled'
    BY <1>6, JobMoves DEF CancelTask, RunnerInv, Cancelled, Over
  <2> QED BY <2>1 DEF Answered
<1>7. CASE Serves
  <2>1. UNCHANGED <<task, client, manager>> /\ link'.open = link.open
    BY <1>7, ProcessKeeps
  <2>2. leader # "dead"
    BY <1>7 DEF Serves, BuildAdapters, Warm, Listen, SaysReady, Accepts, Generates, GeneratesAction,
       RunEnds, RunFails, WritesImage, WritesVideo, WritesLatents, WritesTrajectory, WritesWav, Writes,
       Encoding, WavFails, Muxes, Replies
  <2>3. CASE link'.frames = link.frames /\ link'.closed = link.closed
    BY <1>l, <2>1, <2>2, <2>3 DEF Answered, Cancelled, Now
  <2>4. CASE Generates
    <3>1. link'.closed = link.closed /\ ~link.closed
      BY <1>l, <2>4 DEF Generates, ProcessInv, Busy, Links
    <3> QED BY <3>1 DEF Answered
  <2>5. CASE Replies
    <3>1. CASE link'.frames = Append(link.frames, Frame("failure", {}))
      <4>1. Frame("failure", {}) \in Frames /\ Frame("failure", {}).type = "failure"
        BY DEF Frame, Frames
      <4>2. link'.frames # <<>> /\ link'.frames[Len(link'.frames)] = Frame("failure", {})
        BY <1>l, <3>1, <4>1, AppendProperties
      <4> QED BY <4>1, <4>2 DEF Answered
    <3>2. CASE link'.frames = Append(link.frames, Frame("result", run.names))
      <4>1. Frame("result", run.names) \in Frames /\ Frame("result", run.names).type = "result"
        BY DEF Frame, Frames, StrongTypeOK, Runs
      <4>2. link'.frames # <<>> /\ link'.frames[Len(link'.frames)] = Frame("result", run.names)
        BY <1>l, <3>2, <4>1, AppendProperties
      <4> QED BY <4>1, <4>2 DEF Answered
    <3>3. CASE ~link.open
      <4>1. client # "read"
        BY <3>3 DEF RunnerInv
      <4> QED BY <1>r, <2>1, <4>1
    <3> QED BY <1>l, <2>5, <3>1, <3>2, <3>3 DEF Replies, Links
  <2>6. Generates \/ Replies \/ (link'.frames = link.frames /\ link'.closed = link.closed)
    BY <1>7, <1>l DEF Serves, BuildAdapters, Warm, Listen, SaysReady, Accepts, GeneratesAction,
       RunEnds, RunFails, WritesImage, WritesVideo, WritesLatents, WritesTrajectory, WritesWav, Writes,
       WavFails, Muxes, Links
  <2> QED BY <2>3, <2>4, <2>5, <2>6
<1>8. CASE Crashes
  BY <1>8, <1>d DEF Crashes, Dies
<1>9. ASSUME NEW r \in TaskRequests[IF Now < MaxTasks THEN Now + 1 ELSE MaxTasks], Take(r)
      PROVE  Answered'
  BY <1>9, <1>r DEF Take
<1>10. CASE UNCHANGED workervars
  BY <1>10, <1>u DEF workervars, procvars
<1> QED BY <1>1, <1>2, <1>3, <1>4, <1>5, <1>6, <1>7, <1>8, <1>9, <1>10 DEF WorkerNext, Drives

\* Every step keeps the account.
LEMMA CostStep ==
  ASSUME StrongTypeOK, RunnerInv, ProcessInv, CostInv, [WorkerNext]_workervars
  PROVE  CostInv'
<1>1. CASE Drives \/ Evicts \/ EvictEscalates \/ CancelTask
  BY <1>1, AnsweredStep, PaidDrives DEF CostInv
<1>2. CASE Serves \/ Crashes
  BY <1>2, AnsweredStep, PaidServes DEF CostInv
<1>3. ASSUME NEW r \in TaskRequests[IF Now < MaxTasks THEN Now + 1 ELSE MaxTasks], Take(r)
      PROVE  CostInv'
  <2>1. DOMAIN task' = DOMAIN task \cup {Now'} /\ task'[Now'].status = "queued" /\ Now' \notin DOMAIN task
        /\ \A n \in DOMAIN task : task'[n] = task[n]
    BY <1>3, JobTaken
  <2>2. UNCHANGED <<faults, manager, leader>> /\ client' = "acquire"
    BY <1>3 DEF Take, procvars
  <2>3. Owed' => Owed
    BY <2>2 DEF Owed, Waits
  <2>4. Paid'
    BY <2>1, <2>2, <2>3, NothingLost DEF CostInv
  <2> QED BY <2>4, AnsweredStep DEF CostInv
<1>4. CASE UNCHANGED workervars
  <2>1. Owed' => Owed
    BY <1>4 DEF workervars, procvars, Owed, Waits, Fails, Cancelled, TaskParams, Now
  <2>2. UNCHANGED <<task, faults>>
    BY <1>4 DEF workervars
  <2>3. Paid'
    BY <2>1, <2>2, NothingLost DEF CostInv
  <2> QED BY <2>3, AnsweredStep DEF CostInv
<1> QED BY <1>1, <1>2, <1>3, <1>4 DEF WorkerNext

-----------------------------------------------------------------------------
(* The theorems.                                                           *)

\* The parts hold together.
LEMMA WorkerStarts == WorkerInit => WorkerInv
<1> SUFFICES ASSUME WorkerInit PROVE WorkerInv
  OBVIOUS
<1>1. StrongTypeOK
  BY TypeStart
<1>2. Len(task) = 0 /\ DOMAIN task = {} /\ client = "idle" /\ manager = "none" /\ leader = "dead"
      /\ path = "absent" /\ ready = FALSE /\ link = NoLink /\ faults = 0
  BY DEF WorkerInit
<1>3. RunnerInv
  BY <1>2 DEF RunnerInv, Now, NoLink
<1>4. ProcessInv
  BY <1>2 DEF ProcessInv, Busy, NoLink
<1>5. FileInv
  <2>1. Blank
    BY <1>2 DEF Blank, WorkerInit, NoLink
  <2>2. Written
    BY <1>2 DEF Written
  <2>3. MuxedOnce
    BY DEF MuxedOnce, WorkerInit, NoFiles, Artifacts
  <2>4. Delivered /\ Finished
    BY <1>2 DEF Delivered, Finished, NoLink
  <2> QED BY <2>1, <2>2, <2>3, <2>4 DEF FileInv
<1>6. CostInv
  <2>1. Lost = {} /\ ~Owed
    BY <1>2 DEF Lost, Owed, Waits
  <2>2. Cardinality(Lost) = 0
    BY <2>1, FS_EmptySet
  <2> QED BY <1>2, <2>1, <2>2 DEF CostInv, Paid, Answered
<1> QED BY <1>1, <1>3, <1>4, <1>5, <1>6 DEF WorkerInv

\* The engine that is chosen runs, the other is never started.
LEMMA EnginesStep ==
  ASSUME [EnginesNext]_enginesvars
  PROVE  [Next]_vars /\ [WorkerNext]_workervars
BY DEF EnginesNext, OmniOnly, DiffusersOnly, enginesvars

\* WorkerInv is an invariant, whichever engine is deployed.
LEMMA WorkerAlways == EnginesSpec => []WorkerInv
<1>1. EnginesInit => WorkerInv
  BY WorkerStarts DEF EnginesInit
<1>2. WorkerInv /\ [EnginesNext]_enginesvars => WorkerInv'
  BY EnginesStep, TypeStep, RunnerStep, ProcessStep, FileStep, CostStep DEF WorkerInv
<1> QED BY <1>1, <1>2, PTL DEF EnginesSpec

\* The deployment of the two engines is, for the vLLM-Omni worker, what
\* GenerationJob says of it alone (main.py selects one of them): what holds of
\* Spec holds of EnginesSpec.
THEOREM EnginesRunTheJob == EnginesSpec => Spec
<1>1. EnginesInit => Init
  BY DEF EnginesInit
<1>2. [EnginesNext]_enginesvars => [Next]_vars
  BY EnginesStep
<1> QED BY <1>1, <1>2, PTL DEF EnginesSpec, Spec

\* A job that connects to the diffusers worker finds it listening and idle, or
\* dead (SubprocessPlaneWorker.start and wait_ready, gen_worker.serve,
\* evict_all after a failed job).
THEOREM ConnectsIdle == EnginesSpec => []ConnectsToIdleWorker
<1>1. WorkerInv => ConnectsToIdleWorker
  BY DEF WorkerInv, StrongTypeOK, RunnerInv, ProcessInv, ConnectsToIdleWorker, Alive, Busy
<1> QED BY <1>1, WorkerAlways, PTL

\* Every fault of the worker costs one job at most, a job that was declared as
\* it is: the failed job's clean-up leaves no worker behind that could cost the
\* next one (runner.py's evict_all, is_alive never asked).
THEOREM FaultCostsOneJob == EnginesSpec => []EachFaultCostsOneJob
<1>1. ASSUME WorkerInv PROVE EachFaultCostsOneJob
  <2>1. Cardinality(Lost) \in Nat /\ Cardinality(Lost) <= MaxTasks
    BY <1>1, LostIsFinite DEF WorkerInv
  <2>2. faults \in Nat /\ (faults = MaxTasks \/ Cardinality(Lost) + (IF Owed THEN 1 ELSE 0) <= faults)
    BY <1>1, WorkerAssumption DEF WorkerInv, StrongTypeOK, CostInv, Paid
  <2>3. Cardinality(Lost) <= faults
    BY <2>1, <2>2
  <2>4. Lost = {n \in DOMAIN task : task[n].status = "failed" /\ ~Misdeclared(task[n].params)
                                                           /\ ~Unconvertible(task[n].params)}
    BY DEF Lost, Sane
  <2> QED BY <2>3, <2>4 DEF EachFaultCostsOneJob
<1> QED BY <1>1, WorkerAlways, PTL

\* The files a job that succeeded names are on the disk and complete, also when
\* the worker died, was given up or killed while it wrote (artifacts.py,
\* gen_worker.serve, gen_client.read_reply).
THEOREM NamedFilesStay == EnginesSpec => []NamedFilesAreThere
<1>1. ASSUME WorkerInv PROVE NamedFilesAreThere
  <2> SUFFICES ASSUME NEW n \in DOMAIN task, task[n].status = "succeeded"
               PROVE  /\ task[n].names # {}
                      /\ \A f \in task[n].names : file[n][f] \in {"whole", "muxed"}
                      /\ file[n].mp4 = "muxed" => file[n].wav = "absent"
    BY DEF NamedFilesAreThere
  <2>1. n \in 1..MaxTasks
    BY <1>1, WorkerAssumption DEF WorkerInv, StrongTypeOK
  <2> QED BY <1>1, <2>1 DEF WorkerInv, FileInv, Finished, MuxedOnce, Complete
<1> QED BY <1>1, WorkerAlways, PTL
=============================================================================
