------------------------- MODULE GenerationJobProofs -------------------------
(***************************************************************************)
(* What GenerationJob promises of a job for every number of jobs, every    *)
(* set of keys and every choice of requests.                               *)
(*                                                                         *)
(* GenInv is the inductive invariant.  It says what the worker has in hand *)
(* at each of its steps, because the job learns it only when the worker is *)
(* done, and a cancel or another submission may come at every step before. *)
(***************************************************************************)
EXTENDS GenerationJob, RequestEdgeProofs, FiniteSetTheorems, SequenceTheorems,
        WellFoundedInduction

Errors == ClientErrors \cup {"none", "internal_error"}
Refusals == {"invalid_input", "unsupported_mode", "untrusted_path", "payload_too_large"}

\* What a job may keep: the mapped parameters of a request the edge accepts.
Stored == {JobParams(Mapped(r)) :
             r \in {q \in UNION {Requests[n] : n \in Ids} : Verdict(q) = "ok"}}

JobRecords ==
  [params : Stored, key : Keys \cup {NoKey},
   status : Ended \cup {"queued", "running"}, progress : 0..Full, error : Errors,
   artifact : Files \cup {"none"}, trajectory : {"json", "none"}]

WorkRecords ==
  [step : {"idle", "resolve", "read", "submit", "call", "poll", "download", "open",
           "fill", "report", "return", "raised", "returned", "threw"},
   job : 0..MaxJobs, floor : 0..Full, file : Files \cup {"none"},
   bytes : {"none", "torn", "empty", "whole"}, error : Errors]

GenTypeOK ==
  /\ job \in Seq(JobRecords) /\ Len(job) <= MaxJobs
  /\ keys \in [Keys -> 0..MaxJobs]
  /\ upload # NoUpload => upload.params \in Stored \cup {NoParams} /\ upload.key \in Keys \cup {NoKey}
  /\ cond \in [Kinds -> {"absent", "torn", "whole"}]
  /\ work \in WorkRecords
  /\ late \in BOOLEAN /\ plane \in BOOLEAN
  /\ engine \in [Ids -> {"none", "busy", "completed", "failed", "gone"}]
  /\ sent \in [Ids -> {"nothing", "none", "torn", "whole"}] /\ spared \subseteq Ids
  /\ disk \in [Ids -> [Files -> {"absent", "torn", "empty", "whole"}]]
  /\ counted \in Nat /\ ended \in [Ids -> {"none", "succeeded", "failed"}]

\* The worker has one job, which is the only one that runs; it is still at it
\* when the job has been cancelled.
WorkInv ==
  /\ At("idle") <=> work.job = 0
  /\ ~At("idle") => work.job \in DOMAIN job /\ job[work.job].status \in {"running", "cancelled"}
  /\ \A j \in DOMAIN job : Running(j) => j = work.job
  /\ At("raised") \/ At("threw") => work.error # "none"
  /\ \A j \in DOMAIN job : (job[j].error = "none") <=> (job[j].status # "failed")

\* A used key leads to the one job that carries it; a submission that has found
\* its key used, and so keeps no parameters, will find it used again.
KeyInv ==
  /\ \A k \in Keys : keys[k] # 0 => keys[k] \in DOMAIN job /\ job[keys[k]].key = k
  /\ \A j \in DOMAIN job : job[j].key # NoKey => keys[job[j].key] = j
  /\ upload # NoUpload /\ upload.params = NoParams => Used(upload.key)

\* A cancel stops the engine and it stays down until the worker is done, unless
\* the stop fails, ...
CancelStops ==
  ~At("idle") /\ job[work.job].status = "cancelled"
    => work.job \in spared \/ (~plane /\ engine[work.job] # "busy")

\* ... and the worker leaves the engine with a result in hand only.
OrphanInv ==
  /\ OrphansAreSpared
  /\ CancelStops
  /\ work.step \in {"download", "open", "fill", "report", "return", "returned"}
     => engine[work.job] # "busy"

\* Media a job names is there, maybe torn.
MediaInv ==
  /\ \A j \in DOMAIN job : \A k \in Kinds : job[j].params.path[k] = "inline" => cond[k] # "absent"
  /\ upload # NoUpload /\ upload.params # NoParams =>
       \A k \in Kinds : upload.params.path[k] = "inline" => cond[k] # "absent"

Posted == {"call", "poll", "download", "open", "fill", "report", "return", "returned"}

\* What the worker has in hand: the media it read and sent, the bytes it got,
\* the files it wrote.
HandInv ==
  /\ At("resolve") \/ At("read") => work.bytes = "none"
  /\ At("submit") => /\ work.bytes # "empty"
                     /\ Conditioning(Params.mode) # "none" => work.bytes # "none"
  /\ work.step \in Posted /\ Conditioning(Params.mode) # "none"
     => sent[work.job] \in {"torn", "whole"}
  /\ At("call") => Synchronous
  /\ At("open") \/ At("fill") =>
       /\ work.bytes \in {"whole", "empty"} /\ (Params.mode = "policy" => work.bytes = "whole")
       /\ \/ work.file = FirstFile
          \/ Params.mode = "policy" /\ work.file = "json" /\ disk[work.job]["mp4"] = "whole"
  /\ work.step \in {"report", "return", "returned"} =>
       /\ disk[work.job][FirstFile] \in {"whole", "empty"}
       /\ Params.mode = "policy" => disk[work.job]["mp4"] = "whole" /\ disk[work.job]["json"] = "whole"

\* The worker has a job that it has not reported done.
AtWork == work.step \notin {"idle", "return", "returned"}

\* The bar of such a job is at most the floor, which is below the full bar.
BarInv ==
  /\ \A j \in DOMAIN job : job[j].status = "queued" => job[j].progress = 0
  /\ work.floor <= Cap
  /\ AtWork => job[work.job].progress <= work.floor

\* A refusal of the worker, on its way to the job.
RefusalInv ==
  /\ \A j \in DOMAIN job :
       job[j].params.mode \in ActionModes /\ job[j].error \in Refusals
       => job[j].params.path[Conditioning(job[j].params.mode)] = "large"
  /\ ~At("idle") /\ Params.mode \in ActionModes /\ work.error \in Refusals
     => Params.path[Conditioning(Params.mode)] = "large"

\* The outcomes counted, and the jobs that have ended so.
MeterInv ==
  /\ counted = Len(job)
  /\ \A j \in Ids : ended[j] # "none" =>
       j \in DOMAIN job /\ (job[j].status \in {ended[j], "cancelled"} \/ j = work.job)
  /\ At("returned") => ended[work.job] = "succeeded"
  /\ At("threw") => ended[work.job] = "failed"

GenInv == GenTypeOK /\ WorkInv /\ KeyInv /\ OrphanInv /\ MediaInv /\ HandInv /\ BarInv
          /\ RefusalInv /\ MeterInv /\ SucceededAsAsked /\ FullBarMeansWritten

-----------------------------------------------------------------------------
(* The order of the queue.                                                 *)

\* Job numbers have a least element, so the runner's choice is one.
LEMMA Least ==
  ASSUME NEW T, T \subseteq Nat, T # {}
  PROVE  \E x \in T : \A y \in T : x <= y
<1> DEFINE R == OpToRel(<, Nat)
<1>1. IsWellFoundedOn(R, Nat)
  BY NatLessThanWellFounded
<1>2. \A x, y \in Nat : x < y => <<x, y>> \in R
  BY DEF OpToRel
<1> HIDE DEF R
<1>3. PICK x \in T : \A y \in T : ~ (<<y, x>> \in R)
  BY <1>1, WFMin
<1>4. \A y \in T : x \in Nat /\ y \in Nat /\ ~(y < x)
  BY <1>2, <1>3
<1> QED BY <1>3, <1>4

-----------------------------------------------------------------------------
(* Requests.                                                               *)

\* What the worker may refuse a job for, and what holds when it does not.
LEMMA RefusalCodes ==
  ASSUME NEW p
  PROVE  /\ Refusal(p) \in Refusals \cup {"ok"}
         /\ Refusal(p) = "ok" /\ Conditioning(p.mode) # "none" => p.path[Conditioning(p.mode)] # "none"
<1> DEFINE kind == Conditioning(p.mode)
           from == IF kind = "none" THEN "unused" ELSE p.path[kind]
           checks == << Check(PathError(p) # "ok", "untrusted_path"),
                        Check(p.mode \notin Modes, "unsupported_mode"),
                        Check(from = "none", "invalid_input"),
                        Check(from = "large", "payload_too_large")>>
           failing == {i \in DOMAIN checks : checks[i].fails}
           first == CHOOSE i \in failing : \A k \in failing : i <= k
<1>1. Refusal(p) = FirstError(checks)
  BY DEF Refusal
<1>2. DOMAIN checks = 1..4
  OBVIOUS
<1>3. /\ checks[1].code \in Refusals /\ checks[2].code \in Refusals
      /\ checks[3].code \in Refusals /\ checks[4].code \in Refusals
      /\ checks[3].fails <=> from = "none"
  BY DEF Check, Refusals
<1> HIDE DEF checks
<1>4. \A i \in DOMAIN checks : checks[i].code \in Refusals
  BY <1>2, <1>3
<1>5. CASE failing = {}
  BY <1>1, <1>2, <1>3, <1>5 DEF FirstError
<1>6. CASE failing # {}
  <2>1. first \in failing
    BY <1>2, <1>6, FirstOfTwelve
  <2>2. FirstError(checks) = checks[first].code
    BY <1>6 DEF FirstError
  <2> QED BY <1>1, <1>4, <2>1, <2>2 DEF Refusals
<1> QED BY <1>5, <1>6

\* The paths of a request a job is made of.
LEMMA StoredPaths ==
  ASSUME NEW r \in AnyRequest
  PROVE  /\ JobParams(Mapped(r)).mode = r.mode
         /\ \A k \in Kinds : JobParams(Mapped(r)).path[k] = IF k = r.media.kind THEN "inline" ELSE r.path[k]
         /\ \A k \in Kinds : r.path[k] # "inline"
<1>1. Mapped(r).mode = r.mode /\ Mapped(r).path = r.path /\ Mapped(r).media = r.media
  BY MappedKeeps
<1> QED BY <1>1 DEF JobParams, AnyRequest

\* Every job comes from a request that the edge accepted.
LEMMA StoredRequest ==
  ASSUME NEW p \in Stored
  PROVE  \E r \in AnyRequest : Verdict(r) = "ok" /\ p = JobParams(Mapped(r))
<1>1. PICK r \in UNION {Requests[n] : n \in Ids} : Verdict(r) = "ok" /\ p = JobParams(Mapped(r))
  BY DEF Stored
<1>2. r \in AnyRequest
  BY <1>1, JobAssumption DEF Ids
<1> QED BY <1>1, <1>2

\* The worker can build the form of every job the edge has let through, whatever
\* the caps are, unless its steps are no number or its tier is null.
LEMMA StoredIsBuildable ==
  ASSUME NEW p \in Stored
  PROVE  \/ Buildable(p)
         \/ IntFails(p.steps)
         \/ p.mode \in ActionModes /\ p.tier = Null
<1>1. PICK r \in AnyRequest : Verdict(r) = "ok" /\ p = JobParams(Mapped(r))
  BY StoredRequest
<1> DEFINE m == Mapped(r)
<1>2. EdgeError(m) = "ok"
  BY <1>1 DEF Verdict
<1> HIDE DEF m
<1>3. OutputError(m) = "ok" /\ (m.mode \in ActionModes => ActionError(m) = "ok")
  BY <1>2, EdgeChecks
<1>4. ~IntFails(m.resolution) /\ ~IntFails(m.height) /\ ~IntFails(m.wide) /\ ~IntFails(m.frames)
  BY <1>3, NumbersAreChecked
<1>5. m.mode \in ActionModes => ~IntFails(m.chunk) /\ m.tier # NotInt
  BY <1>3, ActionIsConditioned
<1>6. p = JobParams(m)
  BY <1>1 DEF m
<1>7. /\ p.mode = m.mode /\ p.resolution = m.resolution /\ p.height = m.height /\ p.wide = m.wide
      /\ p.frames = m.frames /\ p.steps = m.steps /\ p.chunk = m.chunk /\ p.tier = m.tier
  BY <1>6 DEF JobParams
<1> QED BY <1>4, <1>5, <1>7 DEF Buildable, IntFails

\* An action job the worker refuses has its file over the cap.
LEMMA StoredIsServable ==
  ASSUME NEW p \in Stored, p.mode \in ActionModes, Refusal(p) # "ok"
  PROVE  p.path[Conditioning(p.mode)] = "large"
<1>1. PICK r \in AnyRequest : Verdict(r) = "ok" /\ p = JobParams(Mapped(r))
  BY StoredRequest
<1>2. p.mode = r.mode
  BY <1>1, StoredPaths
<1> QED BY <1>1, <1>2, AcceptedActionsAreServable

\* A job has parameters.
LEMMA StoredIsSome == NoParams \notin Stored
<1>1. SUFFICES ASSUME NoParams \in Stored PROVE FALSE
  OBVIOUS
<1>2. PICK r \in AnyRequest : NoParams = JobParams(Mapped(r))
  BY <1>1, StoredRequest
<1>3. DOMAIN NoParams = {"mode"} /\ "path" \in DOMAIN JobParams(Mapped(r))
  BY DEF NoParams, JobParams
<1> QED BY <1>2, <1>3

-----------------------------------------------------------------------------
(* The initial state.                                                      *)

\* Nothing has happened yet.
LEMMA GenInit == Init => GenInv
<1> SUFFICES ASSUME Init PROVE GenInv
  OBVIOUS
<1>1. job = <<>> /\ DOMAIN job = {} /\ Len(job) = 0
  BY DEF Init
<1>2. GenTypeOK
  <2>1. job \in Seq(JobRecords) /\ Len(job) <= MaxJobs
    BY <1>1, JobAssumption
  <2>2. work \in WorkRecords
    BY JobAssumption DEF Init, Idle, WorkRecords, Full, Files, Errors
  <2>3. keys \in [Keys -> 0..MaxJobs]
    BY JobAssumption DEF Init
  <2>4. disk \in [Ids -> [Files -> {"absent", "torn", "empty", "whole"}]]
    BY DEF Init
  <2> QED BY <2>1, <2>2, <2>3, <2>4 DEF Init, GenTypeOK
<1>3. WorkInv
  BY <1>1 DEF Init, WorkInv, At, Idle
<1>4. KeyInv /\ MediaInv
  <2>1. \A k \in Keys : keys[k] = 0
    BY DEF Init
  <2>2. upload = NoUpload
    BY DEF Init
  <2> QED BY <1>1, <2>1, <2>2 DEF KeyInv, MediaInv
<1>0. work.step = "idle"
  BY DEF Init, Idle
<1>5. OrphanInv
  BY <1>0 DEF Init, OrphanInv, OrphansAreSpared, CancelStops, At
<1>6. HandInv /\ BarInv /\ RefusalInv
  <2>1. work.floor <= Cap
    BY DEF Init, Idle, Cap
  <2> QED BY <1>0, <1>1, <2>1 DEF HandInv, BarInv, RefusalInv, At, AtWork, Posted
<1>7. MeterInv /\ SucceededAsAsked /\ FullBarMeansWritten
  BY <1>0, <1>1 DEF Init, MeterInv, At, SucceededAsAsked, FullBarMeansWritten
<1> QED BY <1>2, <1>3, <1>4, <1>5, <1>6, <1>7 DEF GenInv

-----------------------------------------------------------------------------
\* The jobs that there are.
LEMMA JobNumbers ==
  ASSUME GenTypeOK
  PROVE  /\ Len(job) \in Nat /\ Len(job) <= MaxJobs /\ DOMAIN job = 1..Len(job)
         /\ DOMAIN job \subseteq Ids /\ \A j \in DOMAIN job : job[j] \in JobRecords
<1>1. job \in Seq(JobRecords) /\ Len(job) <= MaxJobs
  BY DEF GenTypeOK
<1>2. Len(job) \in Nat /\ DOMAIN job = 1..Len(job) /\ \A j \in DOMAIN job : job[j] \in JobRecords
  BY <1>1
<1>3. 1..Len(job) \subseteq 1..MaxJobs
  BY <1>1, <1>2, JobAssumption
<1> QED BY <1>1, <1>2, <1>3 DEF Ids

(* Steps of the worker that leave the store alone.                         *)

\* A step of the worker on its own job: the store, the plane and the meters stay
\* as they are, and so does what belongs to other jobs.
OwnStep ==
  /\ AtWork /\ GenTypeOK'
  /\ UNCHANGED <<job, keys, upload, cond, plane, spared, counted, ended>>
  /\ work'.job = work.job /\ work'.step \notin {"idle", "returned", "threw"}
  /\ \A j \in Ids : j # work.job => engine'[j] = engine[j] /\ sent'[j] = sent[j] /\ disk'[j] = disk[j]
  /\ engine'[work.job] = "busy" => plane \/ engine[work.job] = "busy"

\* The parts of the invariant that such a step does not touch.
LEMMA OwnStepKeeps ==
  ASSUME GenInv, OwnStep
  PROVE  /\ KeyInv' /\ MediaInv' /\ MeterInv' /\ SucceededAsAsked' /\ OrphansAreSpared'
         /\ FullBarMeansWritten' /\ ~At("idle")
         /\ CancelStops'
         /\ (At("raised") \/ At("threw") => work.error # "none")' => WorkInv'
         /\ Params' = Params
<1>0. ~At("idle")
  BY DEF OwnStep, AtWork, At
<1> USE DEF OwnStep
<1>1. KeyInv' /\ MediaInv'
  BY DEF GenInv, KeyInv, MediaInv, Used
<1>2. MeterInv'
  BY DEF GenInv, MeterInv, At
<1>3. work.job \in DOMAIN job /\ work.job # 0 /\ job[work.job].status \in {"running", "cancelled"}
  BY <1>0 DEF GenInv, WorkInv
<1>4. SucceededAsAsked'
  <2>1. DOMAIN job \subseteq Ids
    BY JobNumbers DEF GenInv
  <2>2. \A j \in DOMAIN job : job[j].status = "succeeded" => sent'[j] = sent[j] /\ disk'[j] = disk[j]
    BY <1>3, <2>1
  <2> QED BY <2>2 DEF GenInv, SucceededAsAsked, ToJob, GetArtifact, GetTrajectory, Served
<1>5. OrphansAreSpared'
  BY DEF GenInv, OrphanInv, OrphansAreSpared
<1>6. CancelStops'
  BY <1>0 DEF GenInv, OrphanInv, CancelStops, At
<1>7. (At("raised") \/ At("threw") => work.error # "none")' => WorkInv'
  BY <1>3 DEF GenInv, WorkInv, At, Running
<1>8. Params' = Params
  BY DEF Params
<1>9. FullBarMeansWritten'
  <2>1. DOMAIN job \subseteq Ids /\ \A j \in DOMAIN job : job[j].progress \in Nat
    BY JobNumbers DEF GenInv, JobRecords
  <2>2. job[work.job].progress # Full
    <3>1. work.floor \in Nat /\ work.floor <= 1 /\ job[work.job].progress <= work.floor
      BY DEF GenInv, GenTypeOK, WorkRecords, BarInv, Cap
    <3> QED BY <1>3, <2>1, <3>1 DEF Full
  <2>3. \A j \in DOMAIN job : job[j].progress = Full => disk'[j] = disk[j]
    BY <2>1, <2>2
  <2> QED BY <2>3 DEF GenInv, FullBarMeansWritten
<1> QED BY <1>0, <1>1, <1>2, <1>4, <1>5, <1>6, <1>7, <1>8, <1>9

\* The worker gives its job up: nothing it had in hand matters any more.
LEMMA RaiseKeeps ==
  ASSUME GenInv, OwnStep, NEW code \in Errors \ {"none"}, Raises(code),
         Params.mode \in ActionModes /\ code \in Refusals
           => Params.path[Conditioning(Params.mode)] = "large"
  PROVE  GenInv'
<1>1. work'.step = "raised" /\ work'.error = code /\ work'.floor = work.floor
  BY DEF Raises, GenInv, GenTypeOK, WorkRecords
<1>2. WorkInv'
  BY <1>1, OwnStepKeeps DEF At
<1>3. OrphanInv' /\ HandInv'
  BY <1>1, OwnStepKeeps DEF OrphanInv, HandInv, At, Posted
<1>4. BarInv'
  BY <1>1 DEF OwnStep, GenInv, BarInv, AtWork
<1>5. RefusalInv'
  BY <1>1, OwnStepKeeps DEF OwnStep, GenInv, RefusalInv
<1> QED BY <1>2, <1>3, <1>4, <1>5, OwnStepKeeps DEF OwnStep, GenInv

\* The worker goes on: what it has in hand is what the next step needs.
LEMMA GoOnKeeps ==
  ASSUME GenInv, OwnStep, HandInv', work'.error = work.error,
         work'.step \notin {"raised", "threw"}, work'.floor = work.floor,
         work'.step \in {"download", "open", "fill", "report", "return", "returned"}
           => engine'[work.job] # "busy"
  PROVE  GenInv'
<1>1. WorkInv'
  BY OwnStepKeeps DEF At
<1>2. OrphanInv'
  BY OwnStepKeeps DEF OwnStep, OrphanInv
<1>3. BarInv'
  BY DEF OwnStep, GenInv, BarInv, AtWork
<1>4. RefusalInv'
  BY OwnStepKeeps DEF OwnStep, GenInv, RefusalInv
<1> QED BY <1>1, <1>2, <1>3, <1>4, OwnStepKeeps DEF OwnStep, GenInv

\* The steps of the worker are such steps.
LEMMA IsOwnStep ==
  ASSUME GenInv, AtWork, UNCHANGED <<edgevars, late, plane, spared, meters>>,
         work' \in WorkRecords, work'.job = work.job, work'.step \notin {"idle", "returned", "threw"},
         \/ UNCHANGED engine
         \/ plane /\ engine' = [engine EXCEPT ![work.job] = "busy"]
         \/ engine' = [engine EXCEPT ![work.job] = "gone"],
         \/ UNCHANGED sent
         \/ work.bytes # "empty" /\ sent' = [sent EXCEPT ![work.job] = work.bytes],
         \/ UNCHANGED disk
         \/ \E f \in Files : \E b \in {"torn", "empty", "whole"} :
              disk' = [disk EXCEPT ![work.job][f] = b]
  PROVE  OwnStep
<1>1. UNCHANGED <<job, keys, upload, cond, late, plane, spared, counted, ended>>
  BY DEF edgevars, meters
<1>2. engine' \in [Ids -> {"none", "busy", "completed", "failed", "gone"}]
  BY DEF GenInv, GenTypeOK
<1>3. sent' \in [Ids -> {"nothing", "none", "torn", "whole"}]
  BY DEF GenInv, GenTypeOK, WorkRecords
<1>4. disk' \in [Ids -> [Files -> {"absent", "torn", "empty", "whole"}]]
  <2>1. disk \in [Ids -> [Files -> {"absent", "torn", "empty", "whole"}]]
    BY DEF GenInv, GenTypeOK
  <2>2. CASE UNCHANGED disk
    BY <2>1, <2>2
  <2>3. ASSUME NEW f \in Files, NEW b \in {"torn", "empty", "whole"},
               disk' = [disk EXCEPT ![work.job][f] = b]
        PROVE  disk' \in [Ids -> [Files -> {"absent", "torn", "empty", "whole"}]]
    <3> DEFINE d == [disk[work.job] EXCEPT ![f] = b]
    <3>1. work.job \in Ids => d \in [Files -> {"absent", "torn", "empty", "whole"}]
      BY <2>1
    <3>2. disk' = [disk EXCEPT ![work.job] = d]
      BY <2>3
    <3> HIDE DEF d
    <3> QED BY <2>1, <3>1, <3>2
  <2> QED BY <2>2, <2>3
<1>5. GenTypeOK'
  BY <1>1, <1>2, <1>3, <1>4 DEF GenInv, GenTypeOK
<1>6. \A j \in Ids : j # work.job => engine'[j] = engine[j] /\ sent'[j] = sent[j] /\ disk'[j] = disk[j]
  <2>1. \A j \in Ids : j # work.job => engine'[j] = engine[j] /\ sent'[j] = sent[j]
    BY DEF GenInv, GenTypeOK
  <2>2. disk \in [Ids -> [Files -> {"absent", "torn", "empty", "whole"}]]
    BY DEF GenInv, GenTypeOK
  <2>3. \A j \in Ids : j # work.job => disk'[j] = disk[j]
    BY <2>2
  <2> QED BY <2>1, <2>3
<1>7. engine'[work.job] = "busy" => plane \/ engine[work.job] = "busy"
  BY DEF GenInv, GenTypeOK
<1> QED BY <1>1, <1>5, <1>6, <1>7 DEF OwnStep

\* The worker's record stays one when it raises or goes on.
LEMMA WorkMoves ==
  ASSUME GenInv, ~At("idle")
  PROVE  /\ work.job \in DOMAIN job /\ work.job \in Ids /\ job[work.job] \in JobRecords
         /\ Params \in Stored
         /\ \A code \in Errors : Raises(code) =>
              /\ work' \in WorkRecords /\ work'.job = work.job /\ work'.step = "raised"
         /\ \A step \in {"resolve", "read", "submit", "call", "poll", "download", "open",
                         "fill", "report", "return", "returned", "threw"} : Goes(step) =>
              /\ work' \in WorkRecords /\ work'.job = work.job /\ work'.step = step
              /\ work'.bytes = work.bytes /\ work'.error = work.error /\ work'.floor = work.floor
              /\ work'.file = work.file
<1>1. work \in WorkRecords /\ work.job \in DOMAIN job
  BY DEF GenInv, GenTypeOK, WorkInv
<1>2. work.job \in Ids /\ job[work.job] \in JobRecords /\ Params \in Stored
  BY <1>1, JobNumbers DEF GenInv, JobRecords, Params
<1>3. \A code \in Errors : Raises(code) =>
        work' \in WorkRecords /\ work'.job = work.job /\ work'.step = "raised"
  BY <1>1 DEF Raises, WorkRecords
<1>4. \A step \in {"resolve", "read", "submit", "call", "poll", "download", "open",
                   "fill", "report", "return", "returned", "threw"} : Goes(step) =>
              /\ work' \in WorkRecords /\ work'.job = work.job /\ work'.step = step
              /\ work'.bytes = work.bytes /\ work'.error = work.error /\ work'.floor = work.floor
              /\ work'.file = work.file
  BY <1>1 DEF Goes, WorkRecords
<1> QED BY <1>1, <1>2, <1>3, <1>4

\* Whatever goes wrong with a call: the engine may have the job, or have dropped
\* it, and the worker gives up.
LEMMA GivesUp ==
  ASSUME GenInv, AtWork, NEW code \in Errors \ {"none"}, Raises(code),
         UNCHANGED <<edgevars, late, plane, spared, meters, disk>>,
         \/ UNCHANGED engine
         \/ plane /\ engine' = [engine EXCEPT ![work.job] = "busy"]
         \/ engine' = [engine EXCEPT ![work.job] = "gone"],
         \/ UNCHANGED sent
         \/ work.bytes # "empty" /\ sent' = [sent EXCEPT ![work.job] = work.bytes],
         Params.mode \in ActionModes /\ code \in Refusals
           => Params.path[Conditioning(Params.mode)] = "large"
  PROVE  GenInv'
<1>0. ~At("idle")
  BY DEF AtWork, At
<1>1. work' \in WorkRecords /\ work'.job = work.job /\ work'.step = "raised"
  BY <1>0, WorkMoves
<1>2. OwnStep
  BY <1>1, IsOwnStep
<1> QED BY <1>2, RaiseKeeps

\* The codes of failures that are no refusals.
LEMMA FailureCodes ==
  \A code \in {"internal_error", "generation_failed", "timeout"} :
    code \in Errors \ {"none"} /\ code \notin Refusals
BY DEF Errors, ClientErrors, Refusals

\* The worker refuses its job, or goes on to read its media or to send its form.
LEMMA ResolvesKeeps == GenInv /\ Resolves => GenInv'
<1> SUFFICES ASSUME GenInv, Resolves PROVE GenInv'
  OBVIOUS
<1>1. At("resolve") /\ ~At("idle") /\ AtWork /\ work.bytes = "none"
  BY DEF Resolves, At, AtWork, GenInv, HandInv
<1>2. UNCHANGED <<edgevars, late, plane, spared, meters>> /\ UNCHANGED engine /\ UNCHANGED sent /\ UNCHANGED disk
  BY DEF Resolves, enginevars
<1>3. Params \in Stored
  BY <1>1, WorkMoves
<1>4. CASE Refusal(Params) # "ok"
  <2>1. Refusal(Params) \in Errors \ {"none"} /\ Raises(Refusal(Params))
    BY <1>4, RefusalCodes DEF Resolves, Errors, ClientErrors, Refusals
  <2>2. Params.mode \in ActionModes => Params.path[Conditioning(Params.mode)] = "large"
    BY <1>3, <1>4, StoredIsServable
  <2> QED BY <1>1, <1>2, <2>1, <2>2, GivesUp
<1>5. CASE Refusal(Params) = "ok"
  <2>1. PICK step \in {"read", "submit"} : Goes(step) /\ (step = "submit" => Source = "none")
    BY <1>5 DEF Resolves
  <2>2. /\ work' \in WorkRecords /\ work'.job = work.job /\ work'.step = step
        /\ work'.bytes = "none" /\ work'.error = work.error /\ work'.floor = work.floor
    BY <1>1, <2>1, WorkMoves
  <2>3. OwnStep
    BY <1>1, <1>2, <2>2, IsOwnStep
  <2>4. Source = "none" => Conditioning(Params.mode) = "none"
    BY <1>5, RefusalCodes DEF Source
  <2>5. HandInv'
    BY <2>1, <2>2, <2>3, <2>4, OwnStepKeeps DEF HandInv, At, Posted
  <2> QED BY <1>1, <2>2, <2>3, <2>5, GoOnKeeps DEF At
<1> QED BY <1>4, <1>5

\* The media is there, maybe torn; or it cannot be read.
LEMMA ReadsKeeps == GenInv /\ Reads => GenInv'
<1> SUFFICES ASSUME GenInv, Reads PROVE GenInv'
  OBVIOUS
<1>1. At("read") /\ ~At("idle") /\ AtWork
  BY DEF Reads, At, AtWork
<1>2. UNCHANGED <<edgevars, late, plane, spared, meters>> /\ UNCHANGED engine /\ UNCHANGED sent /\ UNCHANGED disk
  BY DEF Reads, enginevars
<1>3. CASE Raises("internal_error")
  BY <1>1, <1>2, <1>3, GivesUp, FailureCodes
<1>4. CASE work' = [work EXCEPT !.step = "submit",
                       !.bytes = IF Source = "inline" THEN cond[Conditioning(Params.mode)] ELSE "whole"]
  <2>1. work.job \in DOMAIN job
    BY <1>1, WorkMoves
  <2>2. Source = "inline" => Conditioning(Params.mode) \in Kinds
                             /\ job[work.job].params.path[Conditioning(Params.mode)] = "inline"
    BY DEF Source, Conditioning, Kinds, Params
  <2>3. Source = "inline" => cond[Conditioning(Params.mode)] \in {"torn", "whole"}
    BY <2>1, <2>2 DEF GenInv, GenTypeOK, MediaInv
  <2> DEFINE b == IF Source = "inline" THEN cond[Conditioning(Params.mode)] ELSE "whole"
  <2>4. b \in {"torn", "whole"}
    BY <2>3
  <2> HIDE DEF b
  <2>5. work \in WorkRecords /\ work' = [work EXCEPT !.step = "submit", !.bytes = b]
    BY <1>4 DEF b, GenInv, GenTypeOK
  <2>6. /\ work' \in WorkRecords /\ work'.job = work.job /\ work'.step = "submit" /\ work'.bytes = b
        /\ work'.error = work.error /\ work'.floor = work.floor
    BY <2>4, <2>5 DEF WorkRecords
  <2>7. OwnStep
    BY <1>1, <1>2, <2>6, IsOwnStep
  <2>8. HandInv'
    BY <2>4, <2>6 DEF HandInv, At, Posted
  <2> QED BY <1>1, <2>6, <2>7, <2>8, GoOnKeeps DEF At
<1> QED BY <1>3, <1>4 DEF Reads

\* The form cannot be built.
LEMMA FormRaisesKeeps == GenInv /\ FormRaises => GenInv'
<1> SUFFICES ASSUME GenInv, FormRaises PROVE GenInv'
  OBVIOUS
<1>1. ~At("idle") /\ AtWork /\ Raises("internal_error")
  BY DEF FormRaises, At, AtWork
<1>2. UNCHANGED <<edgevars, late, plane, spared, meters, disk>> /\ UNCHANGED engine /\ UNCHANGED sent
  BY DEF FormRaises, enginevars
<1> QED BY <1>1, <1>2, GivesUp, FailureCodes

\* The engine may have the job, and the worker does not know it.
LEMMA PostIsLostKeeps == GenInv /\ PostIsLost => GenInv'
<1> SUFFICES ASSUME GenInv, PostIsLost PROVE GenInv'
  OBVIOUS
<1>1. At("submit") /\ ~At("idle") /\ AtWork /\ work.bytes # "empty"
  BY DEF PostIsLost, At, AtWork, GenInv, HandInv
<1>2. PICK code \in {"internal_error", "generation_failed"} : Raises(code)
  BY DEF PostIsLost
<1>3. UNCHANGED <<edgevars, late, plane, spared, meters, disk>>
  BY DEF PostIsLost
<1>4. \/ UNCHANGED engine /\ UNCHANGED sent
      \/ /\ plane /\ engine' = [engine EXCEPT ![work.job] = "busy"]
         /\ sent' = [sent EXCEPT ![work.job] = work.bytes]
  BY DEF PostIsLost
<1> QED BY <1>1, <1>2, <1>3, <1>4, GivesUp, FailureCodes

\* The engine has the job and the media the worker read.
LEMMA PostsKeeps == GenInv /\ Posts => GenInv'
<1> SUFFICES ASSUME GenInv, Posts PROVE GenInv'
  OBVIOUS
<1> DEFINE step == IF Synchronous THEN "call" ELSE "poll"
<1>1. /\ At("submit") /\ ~At("idle") /\ AtWork /\ work.bytes # "empty" /\ plane
      /\ Conditioning(Params.mode) # "none" => work.bytes # "none"
  BY DEF Posts, At, AtWork, GenInv, HandInv
<1>2. /\ UNCHANGED <<edgevars, late, plane, spared, meters>> /\ UNCHANGED disk
      /\ engine' = [engine EXCEPT ![work.job] = "busy"]
      /\ sent' = [sent EXCEPT ![work.job] = work.bytes]
      /\ work' = [work EXCEPT !.step = step, !.bytes = "none"]
  BY DEF Posts
<1>3. work \in WorkRecords /\ work.job \in Ids /\ sent \in [Ids -> {"nothing", "none", "torn", "whole"}]
  BY <1>1, WorkMoves DEF GenInv, GenTypeOK
<1>4. step \in {"call", "poll"} /\ (step = "call" => Synchronous)
  OBVIOUS
<1> HIDE DEF step
<1>5. /\ work' \in WorkRecords /\ work'.job = work.job /\ work'.step = step
      /\ work'.error = work.error /\ work'.floor = work.floor
  BY <1>2, <1>3, <1>4 DEF WorkRecords
<1>6. OwnStep
  BY <1>1, <1>2, <1>4, <1>5, IsOwnStep
<1>7. sent'[work.job] = work.bytes /\ work.bytes \in {"none", "torn", "whole"}
  BY <1>1, <1>2, <1>3 DEF WorkRecords
<1>8. Params' = Params
  BY <1>6, OwnStepKeeps
<1>9. Synchronous' = Synchronous
  BY <1>8 DEF Synchronous
<1>10. HandInv'
  BY <1>1, <1>4, <1>5, <1>7, <1>8, <1>9 DEF HandInv, At, Posted
<1> QED BY <1>1, <1>4, <1>5, <1>6, <1>10, GoOnKeeps DEF At

\* The result is there, and the engine is done with it.
LEMMA GetsBytesKeeps ==
  ASSUME GenInv, work.step \in {"call", "poll", "download"}, engine[work.job] # "busy",
         NEW b \in {"whole", "empty"}, GetsBytes(b), Params.mode = "policy" => b = "whole",
         UNCHANGED <<edgevars, late, enginevars, disk, meters>>
  PROVE  GenInv'
<1>1. ~At("idle") /\ AtWork
  BY DEF At, AtWork
<1>2. UNCHANGED <<edgevars, late, plane, spared, meters>> /\ UNCHANGED engine /\ UNCHANGED sent /\ UNCHANGED disk
  BY DEF enginevars
<1>3. work \in WorkRecords /\ FirstFile \in Files
  BY DEF GenInv, GenTypeOK, FirstFile, Files
<1>4. /\ work' \in WorkRecords /\ work'.job = work.job /\ work'.step = "open" /\ work'.bytes = b
      /\ work'.error = work.error /\ work'.file = FirstFile /\ work'.floor = work.floor
  BY <1>3 DEF GetsBytes, WorkRecords
<1>5. OwnStep
  BY <1>1, <1>2, <1>4, IsOwnStep
<1>6. Params' = Params
  BY <1>5, OwnStepKeeps
<1>7. FirstFile' = FirstFile
  BY <1>6 DEF FirstFile
<1>8. Conditioning(Params.mode) # "none" => sent[work.job] \in {"torn", "whole"}
  BY DEF GenInv, HandInv, Posted
<1>9. HandInv'
  BY <1>2, <1>4, <1>6, <1>7, <1>8 DEF HandInv, At
<1> QED BY <1>2, <1>4, <1>5, <1>9, GoOnKeeps

\* A failed call at any step.
LEMMA FailsKeeps ==
  ASSUME GenInv, AtWork, NEW code \in {"internal_error", "generation_failed", "timeout"},
         Raises(code), UNCHANGED <<edgevars, late, enginevars, disk, meters>>
  PROVE  GenInv'
<1>1. UNCHANGED <<edgevars, late, plane, spared, meters, disk>> /\ UNCHANGED engine /\ UNCHANGED sent
  BY DEF enginevars
<1> QED BY <1>1, GivesUp, FailureCodes

\* A synchronous call ends.
LEMMA CallKeeps == GenInv /\ (CallReturns \/ CallIsLost) => GenInv'
<1> SUFFICES ASSUME GenInv, CallReturns \/ CallIsLost PROVE GenInv'
  OBVIOUS
<1>1. /\ At("call") /\ ~At("idle") /\ AtWork /\ Synchronous
      /\ UNCHANGED <<edgevars, late, enginevars, disk, meters>>
  BY DEF CallReturns, CallIsLost, At, AtWork, GenInv, HandInv, enginevars
<1>2. Params.mode # "policy"
  BY <1>1 DEF Synchronous
<1>3. CASE \E code \in {"internal_error", "generation_failed"} : Raises(code)
  BY <1>1, <1>3, FailsKeeps
<1>4. CASE engine[work.job] = "completed" /\ \E b \in {"whole", "empty"} : GetsBytes(b)
  <2>1. engine[work.job] # "busy" /\ work.step = "call"
    BY <1>1, <1>4 DEF At
  <2> QED BY <1>1, <1>2, <1>4, <2>1, GetsBytesKeeps
<1> QED BY <1>3, <1>4 DEF CallReturns, CallIsLost

\* The deadline has passed: the engine is asked to drop the job.
LEMMA PollTimesOutKeeps == GenInv /\ PollTimesOut => GenInv'
<1> SUFFICES ASSUME GenInv, PollTimesOut PROVE GenInv'
  OBVIOUS
<1>1. ~At("idle") /\ AtWork /\ Raises("timeout") /\ UNCHANGED <<edgevars, late, plane, spared, meters, disk>>
      /\ UNCHANGED sent
  BY DEF PollTimesOut, At, AtWork
<1>2. UNCHANGED engine \/ engine' = [engine EXCEPT ![work.job] = "gone"]
  BY DEF PollTimesOut, Deletes
<1> QED BY <1>1, <1>2, GivesUp, FailureCodes

\* The polling ends.
LEMMA PollEndsKeeps == GenInv /\ (PollCompleted \/ PollFailed \/ PollIsLost) => GenInv'
<1> SUFFICES ASSUME GenInv, PollCompleted \/ PollFailed \/ PollIsLost PROVE GenInv'
  OBVIOUS
<1>1. At("poll") /\ ~At("idle") /\ AtWork /\ UNCHANGED <<edgevars, late, enginevars, disk, meters>>
  BY DEF PollCompleted, PollFailed, PollIsLost, Polls, At, AtWork
<1>2. CASE \E code \in {"internal_error", "generation_failed"} : Raises(code)
  BY <1>1, <1>2, FailsKeeps
<1>3. CASE PollCompleted /\ Params.mode = "inverse_dynamics" /\ GetsBytes("whole")
  <2>1. engine[work.job] # "busy" /\ work.step = "poll"
    BY <1>1, <1>3 DEF PollCompleted, Polls, At
  <2> QED BY <1>1, <1>3, <2>1, GetsBytesKeeps
<1>4. CASE PollCompleted /\ Goes("download")
  <2>1. engine[work.job] # "busy" /\ work.step = "poll"
    BY <1>1, <1>4 DEF PollCompleted, Polls, At
  <2>2. UNCHANGED <<edgevars, late, plane, spared, meters>> /\ UNCHANGED engine /\ UNCHANGED sent /\ UNCHANGED disk
    BY <1>1 DEF enginevars
  <2>3. /\ work' \in WorkRecords /\ work'.job = work.job /\ work'.step = "download"
        /\ work'.error = work.error /\ work'.floor = work.floor
    BY <1>1, <1>4, WorkMoves
  <2>4. OwnStep
    BY <1>1, <2>2, <2>3, IsOwnStep
  <2>5. Params' = Params
    BY <2>4, OwnStepKeeps
  <2>6. Conditioning(Params.mode) # "none" => sent[work.job] \in {"torn", "whole"}
    BY <2>1 DEF GenInv, HandInv, Posted
  <2>7. HandInv'
    BY <2>2, <2>3, <2>5, <2>6 DEF HandInv, At
  <2> QED BY <2>1, <2>2, <2>3, <2>4, <2>7, GoOnKeeps
<1> QED BY <1>2, <1>3, <1>4 DEF PollCompleted, PollFailed, PollIsLost

\* A rollout without bytes is not taken.
LEMMA DownloadsKeeps == GenInv /\ Downloads => GenInv'
<1> SUFFICES ASSUME GenInv, Downloads PROVE GenInv'
  OBVIOUS
<1>1. At("download") /\ ~At("idle") /\ AtWork /\ UNCHANGED <<edgevars, late, enginevars, disk, meters>>
      /\ engine[work.job] # "busy"
  BY DEF Downloads, At, AtWork, GenInv, OrphanInv
<1>2. CASE \E code \in {"internal_error", "generation_failed"} : Raises(code)
  BY <1>1, <1>2, FailsKeeps
<1>3. CASE \E b \in {"whole", "empty"} : ~Unusable(b) /\ GetsBytes(b)
  <2>1. PICK b \in {"whole", "empty"} : ~Unusable(b) /\ GetsBytes(b)
    BY <1>3
  <2>2. Params.mode = "policy" => b = "whole"
    BY <2>1 DEF Unusable
  <2> QED BY <1>1, <2>1, <2>2, GetsBytesKeeps DEF At
<1> QED BY <1>2, <1>3 DEF Downloads

\* A file that cannot be written leaves a torn one, of a job that fails.
LEMMA WriteFailsKeeps == GenInv /\ WriteFails => GenInv'
<1> SUFFICES ASSUME GenInv, WriteFails PROVE GenInv'
  OBVIOUS
<1> QED BY FailsKeeps DEF WriteFails, At, AtWork

\* A file is opened, then filled with what the worker has; a rollout is followed
\* by its trajectory.
LEMMA WritesFileKeeps ==
  ASSUME GenInv, NEW f \in Files, WritesFile(f)
  PROVE  GenInv'
<1>1. /\ At("open") \/ At("fill")
      /\ ~At("idle") /\ AtWork /\ work.file = f
      /\ UNCHANGED <<edgevars, late, plane, spared, meters>> /\ UNCHANGED engine /\ UNCHANGED sent
  BY DEF WritesFile, At, AtWork, enginevars
<1>2. /\ work.bytes \in {"whole", "empty"} /\ (Params.mode = "policy" => work.bytes = "whole")
      /\ f = FirstFile \/ (Params.mode = "policy" /\ f = "json" /\ disk[work.job]["mp4"] = "whole")
      /\ Conditioning(Params.mode) # "none" => sent[work.job] \in {"torn", "whole"}
      /\ engine[work.job] # "busy"
  BY <1>1 DEF GenInv, HandInv, OrphanInv, Posted, At
<1>3. /\ work.job \in Ids /\ work \in WorkRecords
      /\ disk \in [Ids -> [Files -> {"absent", "torn", "empty", "whole"}]]
  BY <1>1, WorkMoves DEF GenInv, GenTypeOK
<1>4. Params.mode = "policy" => FirstFile = "mp4"
  BY DEF FirstFile
<1>5. CASE At("open") /\ disk' = [disk EXCEPT ![work.job][f] = "torn"] /\ Goes("fill")
  <2>1. /\ work' \in WorkRecords /\ work'.job = work.job /\ work'.step = "fill"
        /\ work'.error = work.error /\ work'.floor = work.floor /\ work'.bytes = work.bytes /\ work'.file = f
    BY <1>1, <1>5, WorkMoves
  <2>2. OwnStep
    BY <1>1, <1>5, <2>1, IsOwnStep
  <2>3. Params' = Params
    BY <2>2, OwnStepKeeps
  <2>4. FirstFile' = FirstFile
    BY <2>3 DEF FirstFile
  <2>5. f # "mp4" => disk'[work.job]["mp4"] = disk[work.job]["mp4"]
    BY <1>3, <1>5 DEF Files
  <2>6. HandInv'
    BY <1>1, <1>2, <2>1, <2>3, <2>4, <2>5 DEF HandInv, At
  <2> QED BY <1>1, <1>2, <2>1, <2>2, <2>6, GoOnKeeps
<1>6. CASE At("fill") /\ disk' = [disk EXCEPT ![work.job][f] = work.bytes]
           /\ Params.mode = "policy" /\ f = "mp4"
           /\ work' = [work EXCEPT !.step = "open", !.file = "json", !.bytes = "whole"]
  <2>1. /\ work' \in WorkRecords /\ work'.job = work.job /\ work'.step = "open"
        /\ work'.error = work.error /\ work'.bytes = "whole" /\ work'.file = "json"
        /\ work'.floor = work.floor
    BY <1>3, <1>6 DEF WorkRecords, Files
  <2>2. OwnStep
    BY <1>1, <1>2, <1>6, <2>1, IsOwnStep
  <2>3. Params' = Params
    BY <2>2, OwnStepKeeps
  <2>4. disk'[work.job]["mp4"] = "whole"
    BY <1>2, <1>3, <1>6 DEF Files
  <2>5. HandInv'
    BY <1>1, <1>2, <1>6, <2>1, <2>3, <2>4 DEF HandInv, At
  <2> QED BY <1>1, <1>2, <2>1, <2>2, <2>5, GoOnKeeps
<1>7. CASE At("fill") /\ disk' = [disk EXCEPT ![work.job][f] = work.bytes]
           /\ ~(Params.mode = "policy" /\ f = "mp4") /\ Goes("report")
  <2>1. /\ work' \in WorkRecords /\ work'.job = work.job /\ work'.step = "report"
        /\ work'.error = work.error /\ work'.floor = work.floor
    BY <1>1, <1>7, WorkMoves
  <2>2. OwnStep
    BY <1>1, <1>2, <1>7, <2>1, IsOwnStep
  <2>3. Params' = Params
    BY <2>2, OwnStepKeeps
  <2>4. FirstFile' = FirstFile
    BY <2>3 DEF FirstFile
  <2>5. disk'[work.job][f] = work.bytes /\ (f # "mp4" => disk'[work.job]["mp4"] = disk[work.job]["mp4"])
    BY <1>3, <1>7 DEF Files
  <2>6. disk'[work.job][FirstFile] \in {"whole", "empty"}
    BY <1>2, <1>4, <1>7, <2>5
  <2>7. Params.mode = "policy" => disk'[work.job]["mp4"] = "whole" /\ disk'[work.job]["json"] = "whole"
    BY <1>2, <1>4, <1>7, <2>5
  <2>8. HandInv'
    BY <1>1, <1>2, <2>1, <2>3, <2>4, <2>6, <2>7 DEF HandInv, At
  <2> QED BY <1>1, <1>2, <2>1, <2>2, <2>8, GoOnKeeps
<1> QED BY <1>5, <1>6, <1>7 DEF WritesFile

\* The three writers.
LEMMA WritesKeep == GenInv /\ (WritePng \/ WriteVideoBytes \/ WriteTrajectoryJson) => GenInv'
BY WritesFileKeeps DEF WritePng, WriteVideoBytes, WriteTrajectoryJson, Files

-----------------------------------------------------------------------------
(* Steps of the worker that the store or the meters hear of.               *)

\* SucceededAsAsked of one job: its record, what was sent for it, its files.
AsAsked(r, s, d) ==
  IF r.status = "succeeded"
  THEN /\ Conditioning(r.params.mode) # "none" => s \in {"torn", "whole"}
       /\ r.artifact # "none" /\ d[r.artifact] \in {"whole", "empty"}
       /\ r.trajectory # "none" <=> r.params.mode = "policy"
       /\ r.trajectory # "none" => d[r.artifact] = "whole" /\ d[r.trajectory] = "whole"
  ELSE r.artifact = "none" /\ r.trajectory = "none"

\* It is what SucceededAsAsked says of each job.
LEMMA EachAsAsked == SucceededAsAsked <=> \A j \in DOMAIN job : AsAsked(job[j], sent[j], disk[j])
<1>1. ASSUME NEW j \in DOMAIN job
      PROVE  /\ ToJob(j).artifact <=> job[j].artifact # "none"
             /\ ToJob(j).trajectory <=> job[j].trajectory # "none"
  BY DEF ToJob
<1>2. ASSUME NEW j \in DOMAIN job
      PROVE  /\ GetArtifact(j) \in {"whole", "empty"} <=>
                  job[j].artifact # "none" /\ disk[j][job[j].artifact] \in {"whole", "empty"}
             /\ GetArtifact(j) = "whole" <=>
                  job[j].artifact # "none" /\ disk[j][job[j].artifact] = "whole"
             /\ GetTrajectory(j) = "whole" <=>
                  job[j].trajectory # "none" /\ disk[j][job[j].trajectory] = "whole"
  BY DEF GetArtifact, GetTrajectory, Served
<1> HIDE DEF ToJob, GetArtifact, GetTrajectory
<1> QED BY <1>1, <1>2 DEF SucceededAsAsked, AsAsked

\* A report changes the bar of the worker's job, if it runs, and nothing else.
LEMMA ReportChanges ==
  ASSUME GenInv, ~At("idle"), NEW x \in 0..Full, Reported(x)
  PROVE  /\ job' \in Seq(JobRecords) /\ Len(job') = Len(job) /\ DOMAIN job' = DOMAIN job
         /\ \A j \in DOMAIN job :
              /\ job'[j].params = job[j].params /\ job'[j].key = job[j].key
              /\ job'[j].status = job[j].status /\ job'[j].error = job[j].error
              /\ job'[j].artifact = job[j].artifact /\ job'[j].trajectory = job[j].trajectory
              /\ j # work.job \/ job[j].status # "running" => job'[j].progress = job[j].progress
              /\ j = work.job /\ job[j].status = "running" => job'[j].progress = x
<1>1. /\ work.job \in DOMAIN job /\ job[work.job] \in JobRecords /\ job \in Seq(JobRecords)
  BY WorkMoves DEF GenInv, GenTypeOK
<1>2. CASE job[work.job].status # "running"
  <2>1. job' = job
    BY <1>2 DEF Reported
  <2> QED BY <1>1, <1>2, <2>1
<1>3. CASE job[work.job].status = "running"
  <2> DEFINE e == [job[work.job] EXCEPT !.progress = x]
  <2>1. job' = [job EXCEPT ![work.job] = e]
    BY <1>3 DEF Reported
  <2>2. /\ e \in JobRecords
        /\ e.params = job[work.job].params /\ e.key = job[work.job].key
        /\ e.status = job[work.job].status /\ e.error = job[work.job].error
        /\ e.artifact = job[work.job].artifact /\ e.trajectory = job[work.job].trajectory
        /\ e.progress = x
    BY <1>1 DEF JobRecords
  <2> HIDE DEF e
  <2>3. /\ job' \in Seq(JobRecords) /\ Len(job') = Len(job) /\ DOMAIN job' = DOMAIN job
        /\ job'[work.job] = e /\ \A i \in DOMAIN job : i # work.job => job'[i] = job[i]
    BY <1>1, <2>1, <2>2, Update
  <2> QED BY <1>3, <2>2, <2>3
<1> QED BY <1>2, <1>3

\* The parts of the invariant that do not look at the bar.
LEMMA ReportKeeps ==
  ASSUME GenInv, ~At("idle"), NEW x \in 0..Full, Reported(x),
         work' \in WorkRecords, work'.job = work.job, work'.error = work.error,
         work'.step \notin {"idle", "raised", "threw", "returned"},
         UNCHANGED <<keys, upload, cond, late, enginevars, disk, meters>>
  PROVE  /\ GenTypeOK' /\ WorkInv' /\ KeyInv' /\ MediaInv' /\ RefusalInv' /\ MeterInv'
         /\ SucceededAsAsked' /\ OrphansAreSpared' /\ CancelStops'
         /\ Params' = Params
<1>1. /\ keys' = keys /\ upload' = upload /\ cond' = cond /\ late' = late /\ plane' = plane
      /\ engine' = engine /\ sent' = sent /\ disk' = disk /\ counted' = counted /\ ended' = ended
      /\ spared' = spared
  BY DEF enginevars, meters
<1>2. /\ job' \in Seq(JobRecords) /\ Len(job') = Len(job) /\ DOMAIN job' = DOMAIN job
      /\ \A j \in DOMAIN job :
           /\ job'[j].params = job[j].params /\ job'[j].key = job[j].key
           /\ job'[j].status = job[j].status /\ job'[j].error = job[j].error
           /\ job'[j].artifact = job[j].artifact /\ job'[j].trajectory = job[j].trajectory
  BY ReportChanges
<1>3. work.job \in DOMAIN job
  BY WorkMoves
<1>4. GenTypeOK'
  BY <1>1, <1>2 DEF GenInv, GenTypeOK
<1>5. WorkInv'
  BY <1>2, <1>3 DEF GenInv, WorkInv, At, Running
<1>6. KeyInv' /\ MediaInv'
  BY <1>1, <1>2 DEF GenInv, KeyInv, MediaInv, Used
<1>7. Params' = Params
  BY <1>2, <1>3 DEF Params
<1>8. RefusalInv'
  BY <1>2, <1>7 DEF GenInv, RefusalInv, At
<1>9. MeterInv'
  BY <1>1, <1>2 DEF GenInv, MeterInv, At
<1>10. SucceededAsAsked'
  <2>1. \A j \in DOMAIN job : AsAsked(job[j], sent[j], disk[j])
    BY EachAsAsked DEF GenInv
  <2>2. \A j \in DOMAIN job' : AsAsked(job'[j], sent'[j], disk'[j])
    BY <1>1, <1>2, <2>1 DEF AsAsked
  <2>3. (SucceededAsAsked <=> \A j \in DOMAIN job : AsAsked(job[j], sent[j], disk[j]))'
    BY EachAsAsked, PTL
  <2> QED BY <2>2, <2>3
<1>11. OrphansAreSpared'
  BY <1>1 DEF GenInv, OrphanInv, OrphansAreSpared
<1>12. CancelStops'
  BY <1>1, <1>2, <1>3 DEF GenInv, OrphanInv, CancelStops, At
<1> QED BY <1>4, <1>5, <1>6, <1>7, <1>8, <1>9, <1>10, <1>11, <1>12

\* What the worker reports while it polls is at least what it reported before.
LEMMA PollPendingKeeps == GenInv /\ PollPending => GenInv'
<1> SUFFICES ASSUME GenInv, PollPending PROVE GenInv'
  OBVIOUS
<1>1. At("poll") /\ ~At("idle") /\ UNCHANGED <<keys, upload, cond, late, enginevars, disk, meters>>
  BY DEF PollPending, Polls, At
<1>2. PICK fraction \in 0..Full : work' = [work EXCEPT !.floor = Floor(Capped(fraction))]
                                  /\ Reported(Floor(Capped(fraction)))
  BY DEF PollPending
<1> DEFINE x == Floor(Capped(fraction))
<1>3. work \in WorkRecords /\ work.floor \in 0..Full
  BY DEF GenInv, GenTypeOK, WorkRecords
<1>4. x \in 0..Full /\ work.floor <= x /\ x <= Cap
  <2>1. work.floor <= 1
    BY DEF GenInv, BarInv, Cap
  <2> QED BY <1>3, <2>1 DEF Floor, Capped, Full, Cap
<1> HIDE DEF x
<1>5. work' = [work EXCEPT !.floor = x] /\ Reported(x)
  BY <1>2 DEF x
<1>6. /\ work' \in WorkRecords /\ work'.job = work.job /\ work'.error = work.error
      /\ work'.step = work.step /\ work'.floor = x /\ work'.bytes = work.bytes /\ work'.file = work.file
  BY <1>3, <1>4, <1>5 DEF WorkRecords
<1>7. /\ GenTypeOK' /\ WorkInv' /\ KeyInv' /\ MediaInv' /\ RefusalInv' /\ MeterInv'
      /\ SucceededAsAsked' /\ OrphansAreSpared' /\ CancelStops'
      /\ Params' = Params
  BY <1>1, <1>4, <1>5, <1>6, ReportKeeps DEF At
<1>8. OrphanInv'
  BY <1>1, <1>6, <1>7 DEF OrphanInv, At
<1>9. HandInv'
  BY <1>1, <1>6, <1>7 DEF GenInv, HandInv, At, Posted, enginevars
<1>10. BarInv'
  <2>1. /\ DOMAIN job' = DOMAIN job
        /\ \A j \in DOMAIN job :
              /\ job'[j].status = job[j].status
              /\ j # work.job \/ job[j].status # "running" => job'[j].progress = job[j].progress
              /\ j = work.job /\ job[j].status = "running" => job'[j].progress = x
    BY <1>1, <1>4, <1>5, ReportChanges
  <2>2. job[work.job].progress <= work.floor /\ job[work.job].progress \in 0..Full /\ work.job \in DOMAIN job
    BY <1>1, WorkMoves DEF GenInv, BarInv, At, AtWork, JobRecords
  <2>3. job'[work.job].progress <= x
    BY <1>3, <1>4, <2>1, <2>2 DEF Full
  <2>4. \A j \in DOMAIN job' : job'[j].status = "queued" => job'[j].progress = 0
    BY <2>1 DEF GenInv, BarInv
  <2> QED BY <1>4, <1>6, <2>3, <2>4 DEF BarInv
<1>11. FullBarMeansWritten'
  <2>1. /\ DOMAIN job' = DOMAIN job
        /\ \A j \in DOMAIN job :
              /\ job'[j].params = job[j].params
              /\ j # work.job \/ job[j].status # "running" => job'[j].progress = job[j].progress
              /\ j = work.job /\ job[j].status = "running" => job'[j].progress = x
    BY <1>1, <1>4, <1>5, ReportChanges
  <2>2. x # Full
    BY <1>4 DEF Full, Cap
  <2>3. \A j \in DOMAIN job : job'[j].progress = Full => job[j].progress = Full
    BY <2>1, <2>2
  <2>4. disk' = disk
    BY <1>1
  <2> QED BY <2>1, <2>3, <2>4 DEF GenInv, FullBarMeansWritten
<1> QED BY <1>7, <1>8, <1>9, <1>10, <1>11 DEF GenInv

\* The files are written when the job is reported done.
LEMMA ReportsKeeps == GenInv /\ Reports => GenInv'
<1> SUFFICES ASSUME GenInv, Reports PROVE GenInv'
  OBVIOUS
<1>1. /\ At("report") /\ ~At("idle") /\ Reported(Full) /\ Goes("return")
      /\ UNCHANGED <<keys, upload, cond, late, enginevars, disk, meters>>
  BY DEF Reports, At
<1>2. work' \in WorkRecords /\ work'.job = work.job /\ work'.step = "return" /\ work'.error = work.error
      /\ work'.floor = work.floor
  BY <1>1, WorkMoves
<1>3. Full \in 0..Full
  BY DEF Full
<1>4. /\ GenTypeOK' /\ WorkInv' /\ KeyInv' /\ MediaInv' /\ RefusalInv' /\ MeterInv'
      /\ SucceededAsAsked' /\ OrphansAreSpared' /\ CancelStops'
      /\ Params' = Params
  BY <1>1, <1>2, <1>3, ReportKeeps
<1>5. sent' = sent /\ disk' = disk /\ engine' = engine
  BY <1>1 DEF enginevars
<1>6. OrphanInv'
  BY <1>1, <1>2, <1>4, <1>5 DEF GenInv, OrphanInv, At
<1>7. FirstFile' = FirstFile
  BY <1>4 DEF FirstFile
<1>8. HandInv'
  BY <1>1, <1>2, <1>4, <1>5, <1>7 DEF GenInv, HandInv, At, Posted
<1>9. BarInv'
  <2>1. /\ DOMAIN job' = DOMAIN job
        /\ \A j \in DOMAIN job :
              /\ job'[j].status = job[j].status
              /\ j # work.job \/ job[j].status # "running" => job'[j].progress = job[j].progress
    BY <1>1, <1>3, ReportChanges
  <2>2. job[work.job].status # "queued"
    BY <1>1 DEF GenInv, WorkInv
  <2> QED BY <1>2, <2>1, <2>2 DEF GenInv, BarInv, AtWork
<1>10. FullBarMeansWritten'
  <2>1. /\ DOMAIN job' = DOMAIN job
        /\ \A j \in DOMAIN job :
              /\ job'[j].params = job[j].params
              /\ j # work.job => job'[j].progress = job[j].progress
    BY <1>1, <1>3, ReportChanges
  <2>2. /\ disk[work.job][FirstFile] \in {"whole", "empty"} /\ FirstFile \in Files
        /\ Params.mode = "policy" => disk[work.job]["mp4"] = "whole" /\ disk[work.job]["json"] = "whole"
    BY <1>1 DEF GenInv, HandInv, At, FirstFile, Files
  <2>3. job[work.job].params = Params /\ work.job \in DOMAIN job
    BY <1>1, WorkMoves DEF Params
  <2>4. \A j \in DOMAIN job : j # work.job /\ job[j].progress = Full =>
          /\ \E f \in Files : disk[j][f] \in {"whole", "empty"}
          /\ job[j].params.mode = "policy" => disk[j]["mp4"] = "whole" /\ disk[j]["json"] = "whole"
    BY DEF GenInv, FullBarMeansWritten
  <2> QED BY <1>5, <2>1, <2>2, <2>3, <2>4 DEF FullBarMeansWritten
<1> QED BY <1>4, <1>6, <1>8, <1>9, <1>10 DEF GenInv

\* The outcome is counted before the job learns it.
LEMMA MeteredWorkKeeps == GenInv /\ MeteredWork => GenInv'
<1> SUFFICES ASSUME GenInv, MeteredWork PROVE GenInv'
  OBVIOUS
<1> DEFINE outcome == IF At("return") THEN "succeeded" ELSE "failed"
           step == IF At("return") THEN "returned" ELSE "threw"
<1>1. /\ At("return") \/ At("raised")
      /\ ended' = [ended EXCEPT ![work.job] = outcome] /\ Goes(step)
      /\ UNCHANGED <<edgevars, late, enginevars, disk, counted>>
  BY DEF MeteredWork
<1>2. ~At("idle") /\ outcome \in {"succeeded", "failed"} /\ step \in {"returned", "threw"}
      /\ (step = "returned" <=> outcome = "succeeded") /\ (step = "returned" <=> At("return"))
  BY <1>1 DEF At
<1> HIDE DEF outcome, step
<1>3. /\ work' \in WorkRecords /\ work'.job = work.job /\ work'.step = step
      /\ work'.error = work.error /\ work'.floor = work.floor
      /\ work.job \in Ids /\ work.job \in DOMAIN job
  BY <1>1, <1>2, WorkMoves
<1>4. /\ job' = job /\ keys' = keys /\ upload' = upload /\ cond' = cond /\ late' = late /\ plane' = plane
      /\ engine' = engine /\ sent' = sent /\ disk' = disk /\ counted' = counted /\ spared' = spared
  BY <1>1 DEF edgevars, enginevars
<1>5. ended \in [Ids -> {"none", "succeeded", "failed"}]
  BY DEF GenInv, GenTypeOK
<1>6. /\ ended' \in [Ids -> {"none", "succeeded", "failed"}] /\ ended'[work.job] = outcome
      /\ \A j \in Ids : j # work.job => ended'[j] = ended[j]
  BY <1>1, <1>2, <1>3, <1>5
<1>7. GenTypeOK'
  BY <1>3, <1>4, <1>6 DEF GenInv, GenTypeOK
<1>8. WorkInv'
  BY <1>1, <1>2, <1>3, <1>4 DEF GenInv, WorkInv, At, Running
<1>9. KeyInv' /\ MediaInv'
  BY <1>4 DEF GenInv, KeyInv, MediaInv, Used
<1>10. OrphanInv'
  BY <1>1, <1>2, <1>3, <1>4 DEF GenInv, OrphanInv, OrphansAreSpared, CancelStops, At
<1>11. Params' = Params
  BY <1>3, <1>4 DEF Params
<1>12. FirstFile' = FirstFile
  BY <1>11 DEF FirstFile
<1>13. HandInv'
  BY <1>1, <1>2, <1>3, <1>4, <1>11, <1>12 DEF GenInv, HandInv, At, Posted
<1>14. BarInv' /\ RefusalInv'
  <2>1. AtWork' => AtWork
    BY <1>1, <1>2, <1>3 DEF AtWork, At
  <2> QED BY <1>2, <1>3, <1>4, <1>11, <2>1 DEF GenInv, BarInv, RefusalInv, At
<1>15. MeterInv'
  <2>4. \A j \in Ids : ended'[j] # "none" =>
          j \in DOMAIN job /\ (job[j].status \in {ended'[j], "cancelled"} \/ j = work.job)
    BY <1>3, <1>6 DEF GenInv, MeterInv
  <2>5. counted' = Len(job')
    BY <1>4 DEF GenInv, MeterInv
  <2>6. (At("returned") => ended[work.job] = "succeeded")' /\ (At("threw") => ended[work.job] = "failed")'
    BY <1>2, <1>3, <1>6 DEF At
  <2> QED BY <1>3, <1>4, <2>4, <2>5, <2>6 DEF MeterInv
<1>16. SucceededAsAsked' /\ FullBarMeansWritten'
  BY <1>4 DEF GenInv, SucceededAsAsked, FullBarMeansWritten, ToJob, GetArtifact, GetTrajectory, Served
<1> QED BY <1>7, <1>8, <1>9, <1>10, <1>13, <1>14, <1>15, <1>16 DEF GenInv

-----------------------------------------------------------------------------
(* Steps of the event loop on one job.                                     *)

\* A change of one job's record that keeps its parameters and its key.
LEMMA OneJobChanges ==
  ASSUME GenInv, NEW j \in DOMAIN job, NEW e \in JobRecords,
         e.params = job[j].params, e.key = job[j].key,
         job' = [job EXCEPT ![j] = e], UNCHANGED <<keys, upload, cond>>
  PROVE  /\ job' \in Seq(JobRecords) /\ Len(job') = Len(job) /\ DOMAIN job' = DOMAIN job
         /\ job'[j] = e /\ \A i \in DOMAIN job : i # j => job'[i] = job[i]
         /\ KeyInv' /\ MediaInv'
<1>1. /\ job' \in Seq(JobRecords) /\ Len(job') = Len(job) /\ DOMAIN job' = DOMAIN job
      /\ job'[j] = e /\ \A i \in DOMAIN job : i # j => job'[i] = job[i]
  BY Update DEF GenInv, GenTypeOK
<1>2. \A i \in DOMAIN job : job'[i].params = job[i].params /\ job'[i].key = job[i].key
  BY <1>1
<1>3. KeyInv' /\ MediaInv'
  BY <1>1, <1>2 DEF GenInv, KeyInv, MediaInv, Used
<1> QED BY <1>1, <1>3

\* AsAsked of every job is SucceededAsAsked, also in the next state.
LEMMA NextAsAsked ==
  ASSUME \A j \in DOMAIN job' : AsAsked(job'[j], sent'[j], disk'[j])
  PROVE  SucceededAsAsked'
<1>1. (SucceededAsAsked <=> \A j \in DOMAIN job : AsAsked(job[j], sent[j], disk[j]))'
  BY EachAsAsked, PTL
<1> QED BY <1>1

\* The job the runner takes is one that waits.
LEMMA TheFirstQueued ==
  ASSUME GenInv, Queued # {}
  PROVE  /\ Dequeued \in DOMAIN job /\ Dequeued \in Ids /\ job[Dequeued].status = "queued"
         /\ job[Dequeued] \in JobRecords /\ Dequeued # 0
<1>1. Queued \subseteq Nat
  BY JobNumbers DEF GenInv, Queued
<1>2. \E i \in Queued : \A k \in Queued : i <= k
  BY <1>1, Least
<1>3. Dequeued \in Queued
  BY <1>2 DEF Dequeued
<1> QED BY <1>3, JobNumbers DEF Queued, GenInv, Ids

\* The first of the queued jobs starts with nothing in hand.
LEMMA StartsKeeps == GenInv /\ Starts => GenInv'
<1> SUFFICES ASSUME GenInv, Starts PROVE GenInv'
  OBVIOUS
<1> DEFINE j == Dequeued
           e == [job[j] EXCEPT !.status = "running"]
<1>1. /\ At("idle") /\ Queued # {} /\ job' = [job EXCEPT ![j] = e]
      /\ work' = [Idle EXCEPT !.step = "resolve", !.job = j] /\ plane' = TRUE
  BY DEF Starts
<1>2. /\ keys' = keys /\ upload' = upload /\ cond' = cond /\ late' = late /\ spared' = spared
      /\ engine' = engine /\ sent' = sent /\ disk' = disk /\ counted' = counted /\ ended' = ended
  BY DEF Starts, meters
<1>4. j \in DOMAIN job /\ j \in Ids /\ job[j].status = "queued" /\ job[j] \in JobRecords /\ j # 0
  BY <1>1, TheFirstQueued
<1> HIDE DEF j
<1>5. /\ e \in JobRecords /\ e.params = job[j].params /\ e.key = job[j].key /\ e.status = "running"
      /\ e.error = job[j].error /\ e.progress = job[j].progress
      /\ e.artifact = job[j].artifact /\ e.trajectory = job[j].trajectory
  BY <1>4 DEF JobRecords
<1> HIDE DEF e
<1>6. /\ job' \in Seq(JobRecords) /\ Len(job') = Len(job) /\ DOMAIN job' = DOMAIN job
      /\ job'[j] = e /\ \A i \in DOMAIN job : i # j => job'[i] = job[i]
      /\ KeyInv' /\ MediaInv'
  BY <1>1, <1>2, <1>4, <1>5, OneJobChanges
<1>7. /\ work'.step = "resolve" /\ work'.job = j /\ work'.floor = 0 /\ work'.file = "none"
      /\ work'.bytes = "none" /\ work'.error = "none" /\ work' \in WorkRecords
  <2>1. work' = [step |-> "resolve", job |-> j, floor |-> 0, file |-> "none", bytes |-> "none",
                 error |-> "none"]
    BY <1>1 DEF Idle
  <2>2. j \in 0..MaxJobs
    BY <1>4, JobAssumption DEF Ids
  <2> QED BY <2>1, <2>2 DEF WorkRecords, Full, Files, Errors
<1>8. GenTypeOK'
  BY <1>1, <1>2, <1>6, <1>7 DEF GenInv, GenTypeOK
<1>9. work.job = 0 /\ \A i \in DOMAIN job : job[i].status # "running"
  BY <1>1, JobNumbers DEF GenInv, WorkInv, Running
<1>10. WorkInv'
  BY <1>4, <1>5, <1>6, <1>7, <1>9 DEF GenInv, WorkInv, At, Running
<1>11. OrphanInv'
  <2>1. \A i \in Ids : engine[i] = "busy" => i \in spared
    BY <1>9 DEF GenInv, OrphanInv, OrphansAreSpared, Ids
  <2> QED BY <1>2, <1>5, <1>6, <1>7, <2>1 DEF OrphanInv, OrphansAreSpared, CancelStops
<1>12. HandInv'
  BY <1>7 DEF HandInv, At, Posted
<1>13. BarInv' /\ FullBarMeansWritten'
  <2>1. \A i \in DOMAIN job : job'[i].progress = job[i].progress /\ job'[i].params = job[i].params
                              /\ (job'[i].status = "queued" => job[i].status = "queued")
    BY <1>5, <1>6
  <2>2. job'[j].progress = 0
    BY <1>4, <2>1 DEF GenInv, BarInv
  <2>3. BarInv'
    BY <1>4, <1>6, <1>7, <2>1, <2>2 DEF GenInv, BarInv, Cap
  <2> QED BY <1>2, <1>6, <2>1, <2>3 DEF GenInv, FullBarMeansWritten
<1>14. RefusalInv'
  <2>1. (~At("idle") /\ Params.mode \in ActionModes /\ work.error \in Refusals
     => Params.path[Conditioning(Params.mode)] = "large")'
    BY <1>7 DEF Refusals
  <2>2. \A i \in DOMAIN job : job'[i].params = job[i].params /\ job'[i].error = job[i].error
    BY <1>5, <1>6
  <2> QED BY <1>6, <2>1, <2>2 DEF GenInv, RefusalInv
<1>15. MeterInv'
  <2>2. \A i \in Ids : ended[i] # "none" =>
          i \in DOMAIN job /\ job[i].status \in {ended[i], "cancelled"}
    BY <1>9 DEF GenInv, MeterInv, Ids
  <2>3. \A i \in Ids : ended[i] # "none" =>
          i \in DOMAIN job /\ (job'[i].status \in {ended[i], "cancelled"} \/ i = j)
    BY <1>6, <2>2
  <2> QED BY <1>2, <1>6, <1>7, <2>3 DEF GenInv, MeterInv, At
<1>16. SucceededAsAsked'
  <2>1. \A i \in DOMAIN job : AsAsked(job[i], sent[i], disk[i])
    BY EachAsAsked DEF GenInv
  <2>2. AsAsked(e, sent[j], disk[j])
    BY <1>4, <1>5, <2>1 DEF AsAsked
  <2>3. \A i \in DOMAIN job' : AsAsked(job'[i], sent'[i], disk'[i])
    BY <1>2, <1>6, <2>1, <2>2
  <2> QED BY <2>3, NextAsAsked
<1> QED BY <1>6, <1>8, <1>10, <1>11, <1>12, <1>13, <1>14, <1>15, <1>16 DEF GenInv

\* What the worker has in hand stays as it is.
LEMMA HandStays ==
  ASSUME GenInv, work' = work, sent' = sent, disk' = disk, ~At("idle") => Params' = Params
  PROVE  HandInv'
<1>1. CASE At("idle")
  BY <1>1 DEF HandInv, At, Posted
<1>2. CASE ~At("idle")
  <2>1. Params' = Params
    BY <1>2
  <2>2. FirstFile' = FirstFile /\ Synchronous' = Synchronous
    BY <2>1 DEF FirstFile, Synchronous
  <2> QED BY <2>1, <2>2 DEF GenInv, HandInv, At
<1> QED BY <1>1, <1>2

\* The first of the queued jobs fails with no worker: nothing is in hand, and
\* the engine has at most what a failed stop has left on it.
LEMMA StartFailsKeeps == GenInv /\ StartFails => GenInv'
<1> SUFFICES ASSUME GenInv, StartFails PROVE GenInv'
  OBVIOUS
<1> DEFINE j == Dequeued
           e == [job[j] EXCEPT !.status = "failed", !.error = "internal_error"]
<1>1. /\ At("idle") /\ Queued # {} /\ job' = [job EXCEPT ![j] = e]
      /\ keys' = keys /\ upload' = upload /\ cond' = cond /\ work' = work /\ late' = late
      /\ sent' = sent /\ spared' = spared /\ disk' = disk /\ counted' = counted /\ ended' = ended
  BY DEF StartFails, meters
<1>2. j \in DOMAIN job /\ j \in Ids /\ job[j].status = "queued" /\ job[j] \in JobRecords /\ j # 0
  BY <1>1, TheFirstQueued
<1> HIDE DEF j
<1>3. /\ e \in JobRecords /\ e.params = job[j].params /\ e.key = job[j].key /\ e.status = "failed"
      /\ e.error = "internal_error" /\ e.progress = job[j].progress
      /\ e.artifact = job[j].artifact /\ e.trajectory = job[j].trajectory
  BY <1>2 DEF JobRecords, Ended, Errors
<1> HIDE DEF e
<1>4. /\ job' \in Seq(JobRecords) /\ Len(job') = Len(job) /\ DOMAIN job' = DOMAIN job
      /\ job'[j] = e /\ \A i \in DOMAIN job : i # j => job'[i] = job[i]
      /\ KeyInv' /\ MediaInv'
  BY <1>1, <1>2, <1>3, OneJobChanges
<1>5. work.job = 0 /\ \A i \in DOMAIN job : job[i].status # "running"
  BY <1>1, JobNumbers DEF GenInv, WorkInv, Running
<1>6. /\ plane' \in BOOLEAN /\ engine' \in [Ids -> {"none", "busy", "completed", "failed", "gone"}]
      /\ \A i \in Ids : engine'[i] = "busy" => engine[i] = "busy"
  <2>1. engine \in [Ids -> {"none", "busy", "completed", "failed", "gone"}]
    BY DEF GenInv, GenTypeOK
  <2>2. CASE ContainerStops
    BY <2>1, <2>2 DEF ContainerStops
  <2>3. CASE plane' = TRUE /\ engine' = engine
    BY <2>1, <2>3
  <2> QED BY <2>2, <2>3 DEF StartFails
<1>7. GenTypeOK'
  BY <1>1, <1>4, <1>6 DEF GenInv, GenTypeOK
<1>8. WorkInv'
  BY <1>1, <1>3, <1>4, <1>5 DEF GenInv, WorkInv, At, Running
<1>9. OrphanInv'
  BY <1>1, <1>6 DEF GenInv, OrphanInv, OrphansAreSpared, CancelStops, At
<1>10. HandInv'
  BY <1>1, HandStays
<1>11. BarInv' /\ FullBarMeansWritten'
  <2>1. \A i \in DOMAIN job : job'[i].progress = job[i].progress /\ job'[i].params = job[i].params
                              /\ (job'[i].status = "queued" => job[i].status = "queued")
    BY <1>3, <1>4
  <2>2. BarInv'
    BY <1>1, <1>4, <2>1 DEF GenInv, BarInv, AtWork, At
  <2> QED BY <1>1, <1>4, <2>1, <2>2 DEF GenInv, FullBarMeansWritten
<1>12. RefusalInv'
  <2>1. e.error \notin Refusals
    BY <1>3 DEF Refusals
  <2> QED BY <1>1, <1>4, <2>1 DEF GenInv, RefusalInv, At
<1>13. MeterInv'
  <2>1. ended[j] = "none"
    BY <1>2, <1>5 DEF GenInv, MeterInv, GenTypeOK
  <2>2. \A i \in Ids : ended[i] # "none" =>
          i \in DOMAIN job /\ (job'[i].status \in {ended[i], "cancelled"} \/ i = work.job)
    BY <1>4, <2>1 DEF GenInv, MeterInv
  <2> QED BY <1>1, <1>4, <2>2 DEF GenInv, MeterInv, At
<1>14. SucceededAsAsked'
  <2>1. \A i \in DOMAIN job : AsAsked(job[i], sent[i], disk[i])
    BY EachAsAsked DEF GenInv
  <2>2. AsAsked(e, sent[j], disk[j])
    BY <1>2, <1>3, <2>1 DEF AsAsked
  <2>3. \A i \in DOMAIN job' : AsAsked(job'[i], sent'[i], disk'[i])
    BY <1>1, <1>4, <2>1, <2>2
  <2> QED BY <2>3, NextAsAsked
<1> QED BY <1>4, <1>7, <1>8, <1>9, <1>10, <1>11, <1>12, <1>13, <1>14 DEF GenInv

\* The files of a job are written.
AllWritten(p, d) ==
  /\ \E f \in Files : d[f] \in {"whole", "empty"}
  /\ p.mode = "policy" => d["mp4"] = "whole" /\ d["json"] = "whole"

\* The worker is done: it has nothing in hand, and no job runs.
LEMMA DoneKeeps ==
  ASSUME GenInv, ~At("idle"), work' = Idle, late' = FALSE,
         UNCHANGED <<keys, upload, cond, sent, disk, meters>>,
         plane' \in BOOLEAN, engine' \in [Ids -> {"none", "busy", "completed", "failed", "gone"}],
         spared' \subseteq Ids, \A j \in Ids : engine'[j] = "busy" => j \in spared',
         \/ job' = job /\ job[work.job].status # "running"
         \/ \E e \in JobRecords :
              /\ job' = [job EXCEPT ![work.job] = e]
              /\ e.params = Params /\ e.key = job[work.job].key
              /\ e.status \in {"succeeded", "failed"}
              /\ e.error = "none" <=> e.status = "succeeded"
              /\ e.params.mode \in ActionModes /\ e.error \in Refusals
                   => e.params.path[Conditioning(e.params.mode)] = "large"
              /\ AsAsked(e, sent[work.job], disk[work.job])
              /\ ended[work.job] = e.status
              /\ e.progress = Full => \/ job[work.job].progress = Full
                                      \/ AllWritten(Params, disk[work.job]),
         job[work.job].status = "running" => job' # job,
         job[work.job].status = "running" \/ job[work.job].status = "cancelled"
  PROVE  GenInv'
<1>1. keys' = keys /\ upload' = upload /\ cond' = cond /\ sent' = sent /\ disk' = disk
      /\ counted' = counted /\ ended' = ended
  BY DEF meters
<1>2. /\ work'.step = "idle" /\ work'.job = 0 /\ work'.floor = 0 /\ work' \in WorkRecords
  BY JobAssumption DEF Idle, WorkRecords, Full, Files, Errors
<1>3. work.job \in DOMAIN job /\ work.job \in Ids
  BY WorkMoves
<1>9. job' \in Seq(JobRecords) /\ Len(job') = Len(job) => GenTypeOK'
  <2>1. job' \in Seq(JobRecords) /\ Len(job') = Len(job) => job' \in Seq(JobRecords) /\ Len(job') <= MaxJobs
    BY DEF GenInv, GenTypeOK
  <2>2. late' \in BOOLEAN
    OBVIOUS
  <2> QED BY <1>1, <1>2, <2>1, <2>2 DEF GenInv, GenTypeOK
<1>4. HandInv'
  BY <1>2 DEF HandInv, At, Posted
<1>5. OrphanInv'
  BY <1>2 DEF OrphanInv, OrphansAreSpared, CancelStops, At
<1>6. \A i \in DOMAIN job : AsAsked(job[i], sent[i], disk[i])
  BY EachAsAsked DEF GenInv
<1>7. CASE job' = job /\ job[work.job].status # "running"
  <2>1. GenTypeOK'
    BY <1>7, <1>9 DEF GenInv, GenTypeOK
  <2>2. WorkInv'
    BY <1>2, <1>7 DEF GenInv, WorkInv, At, Running
  <2>3. KeyInv' /\ MediaInv'
    BY <1>1, <1>7 DEF GenInv, KeyInv, MediaInv, Used
  <2>4. BarInv' /\ RefusalInv' /\ FullBarMeansWritten'
    <3>1. BarInv'
      BY <1>2, <1>7 DEF GenInv, BarInv, AtWork, Cap
    <3> QED BY <1>1, <1>2, <1>7, <3>1 DEF GenInv, RefusalInv, FullBarMeansWritten, At
  <2>5. MeterInv'
    BY <1>1, <1>2, <1>3, <1>7 DEF GenInv, MeterInv, At
  <2>6. SucceededAsAsked'
    BY <1>1, <1>6, <1>7, NextAsAsked
  <2> QED BY <1>4, <1>5, <2>1, <2>2, <2>3, <2>4, <2>5, <2>6 DEF GenInv
<1>8. CASE job' # job \/ job[work.job].status = "running"
  <2>1. PICK e \in JobRecords :
              /\ job' = [job EXCEPT ![work.job] = e]
              /\ e.params = Params /\ e.key = job[work.job].key
              /\ e.status \in {"succeeded", "failed"}
              /\ e.error = "none" <=> e.status = "succeeded"
              /\ e.params.mode \in ActionModes /\ e.error \in Refusals
                   => e.params.path[Conditioning(e.params.mode)] = "large"
              /\ AsAsked(e, sent[work.job], disk[work.job])
              /\ ended[work.job] = e.status
              /\ e.progress = Full => \/ job[work.job].progress = Full
                                      \/ AllWritten(Params, disk[work.job])
    BY <1>8
  <2>2. /\ job' \in Seq(JobRecords) /\ Len(job') = Len(job) /\ DOMAIN job' = DOMAIN job
        /\ job'[work.job] = e /\ \A i \in DOMAIN job : i # work.job => job'[i] = job[i]
        /\ KeyInv' /\ MediaInv'
    BY <1>1, <1>3, <2>1, OneJobChanges DEF Params
  <2>3. GenTypeOK'
    BY <1>9, <2>2
  <2>4. WorkInv'
    BY <1>2, <2>1, <2>2 DEF GenInv, WorkInv, At, Running
  <2>5. BarInv' /\ FullBarMeansWritten'
    <3>1. BarInv'
      BY <1>2, <2>1, <2>2 DEF GenInv, BarInv, AtWork, Cap
    <3>2. \A i \in DOMAIN job : job[i].progress = Full => AllWritten(job[i].params, disk[i])
      BY DEF GenInv, FullBarMeansWritten, AllWritten
    <3>3. job[work.job].params = Params
      BY DEF Params
    <3>4. \A i \in DOMAIN job : job'[i].progress = Full => AllWritten(job'[i].params, disk[i])
      BY <1>3, <2>1, <2>2, <3>2, <3>3
    <3> QED BY <1>1, <2>2, <3>1, <3>4 DEF FullBarMeansWritten, AllWritten
  <2>6. RefusalInv'
    BY <1>2, <2>1, <2>2 DEF GenInv, RefusalInv, At
  <2>7. MeterInv'
    <3>2. \A i \in Ids : ended[i] # "none" =>
            i \in DOMAIN job /\ job'[i].status \in {ended[i], "cancelled"}
      BY <2>1, <2>2 DEF GenInv, MeterInv
    <3> QED BY <1>1, <1>2, <2>2, <3>2 DEF GenInv, MeterInv, At
  <2>8. SucceededAsAsked'
    BY <1>1, <1>6, <2>1, <2>2, NextAsAsked
  <2> QED BY <1>4, <1>5, <2>2, <2>3, <2>4, <2>5, <2>6, <2>7, <2>8 DEF GenInv
<1> QED BY <1>7, <1>8

\* A job that was not cancelled succeeds with the files the worker wrote.
LEMMA WorkReturnsKeeps == GenInv /\ WorkReturns => GenInv'
<1> SUFFICES ASSUME GenInv, WorkReturns PROVE GenInv'
  OBVIOUS
<1> DEFINE t == IF Params.mode = "policy" THEN "json" ELSE "none"
           e == [job[work.job] EXCEPT !.status = "succeeded", !.progress = Full, !.artifact = FirstFile,
                       !.trajectory = t]
<1>1. /\ At("returned") /\ ~At("idle") /\ work' = Idle /\ late' = FALSE
      /\ UNCHANGED <<keys, upload, cond, sent, disk, meters>> /\ plane' = plane /\ engine' = engine
      /\ spared' = spared
  BY DEF WorkReturns, At, enginevars
<1>2. /\ work.job \in DOMAIN job /\ job[work.job] \in JobRecords /\ work.job \in Ids
      /\ job[work.job].status \in {"running", "cancelled"}
  BY <1>1, WorkMoves DEF GenInv, WorkInv
<1>3. /\ plane' \in BOOLEAN /\ engine' \in [Ids -> {"none", "busy", "completed", "failed", "gone"}]
      /\ spared' \subseteq Ids /\ \A j \in Ids : engine'[j] = "busy" => j \in spared'
  BY <1>1, <1>2 DEF GenInv, GenTypeOK, OrphanInv, OrphansAreSpared, At
<1>4. CASE job[work.job].status # "running"
  <2>1. job' = job
    BY <1>4 DEF WorkReturns, Running
  <2> QED BY <1>1, <1>2, <1>3, <1>4, <2>1, DoneKeeps
<1>5. CASE job[work.job].status = "running"
  <2>1. job' = [job EXCEPT ![work.job] = e]
    BY <1>5 DEF WorkReturns, Running
  <2>2. FirstFile \in Files
    BY DEF FirstFile, Files
  <2>3. /\ e \in JobRecords /\ e.params = Params /\ e.key = job[work.job].key
        /\ e.status = "succeeded" /\ e.error = job[work.job].error /\ e.artifact = FirstFile
        /\ e.trajectory = t
    <3>1. t \in {"json", "none"} /\ Full \in 0..Full
      BY DEF Full
    <3>2. job[work.job].params = Params
      BY DEF Params
    <3> HIDE DEF t
    <3> QED BY <1>2, <2>2, <3>1, <3>2 DEF JobRecords, Ended
  <2> HIDE DEF e
  <2>4. e.error = "none"
    BY <1>2, <1>5, <2>3 DEF GenInv, WorkInv
  <2>5. /\ Conditioning(Params.mode) # "none" => sent[work.job] \in {"torn", "whole"}
        /\ disk[work.job][FirstFile] \in {"whole", "empty"}
        /\ Params.mode = "policy" => disk[work.job]["mp4"] = "whole" /\ disk[work.job]["json"] = "whole"
    BY <1>1 DEF GenInv, HandInv, At, Posted
  <2>6. Params.mode = "policy" => FirstFile = "mp4"
    BY DEF FirstFile
  <2>7. FirstFile # "none"
    BY <2>2 DEF Files
  <2>8. AsAsked(e, sent[work.job], disk[work.job])
    BY <2>3, <2>5, <2>6, <2>7 DEF AsAsked
  <2>9. ended[work.job] = e.status /\ AllWritten(Params, disk[work.job])
    BY <1>1, <2>2, <2>3, <2>5 DEF GenInv, MeterInv, At, AllWritten
  <2>10. job' # job
    BY <1>2, <1>5, <2>1, <2>3, Update DEF GenInv, GenTypeOK
  <2> QED BY <1>1, <1>2, <1>3, <2>1, <2>3, <2>4, <2>8, <2>9, <2>10, DoneKeeps DEF Refusals
<1> QED BY <1>4, <1>5

\* A job that was not cancelled fails, and the engine is stopped.
LEMMA WorkRaisesKeeps == GenInv /\ WorkRaises => GenInv'
<1> SUFFICES ASSUME GenInv, WorkRaises PROVE GenInv'
  OBVIOUS
<1> DEFINE e == [job[work.job] EXCEPT !.status = "failed", !.error = work.error]
<1>1. /\ At("threw") /\ ~At("idle") /\ work' = Idle /\ late' = FALSE
      /\ UNCHANGED <<keys, upload, cond, sent, disk, meters>>
  BY DEF WorkRaises, At
<1>2. /\ work.job \in DOMAIN job /\ job[work.job] \in JobRecords /\ work.job \in Ids
      /\ job[work.job].status \in {"running", "cancelled"}
  BY <1>1, WorkMoves DEF GenInv, WorkInv
<1>3. CASE job[work.job].status # "running"
  <2>1. job' = job /\ plane' = plane /\ engine' = engine /\ spared' = spared
    BY <1>3 DEF WorkRaises, Running
  <2>2. /\ plane' \in BOOLEAN /\ engine' \in [Ids -> {"none", "busy", "completed", "failed", "gone"}]
        /\ spared' \subseteq Ids /\ \A j \in Ids : engine'[j] = "busy" => j \in spared'
    BY <1>1, <1>2, <1>3, <2>1 DEF GenInv, GenTypeOK, OrphanInv, OrphansAreSpared, CancelStops
  <2> QED BY <1>1, <1>2, <1>3, <2>1, <2>2, DoneKeeps
<1>4. CASE job[work.job].status = "running"
  <2>1. job' = [job EXCEPT ![work.job] = e] /\ EngineStops(work.job)
    BY <1>4 DEF WorkRaises, Running
  <2>2. /\ plane' \in BOOLEAN /\ engine' \in [Ids -> {"none", "busy", "completed", "failed", "gone"}]
        /\ spared' \subseteq Ids /\ \A j \in Ids : engine'[j] = "busy" => j \in spared'
    <3>1. /\ plane \in BOOLEAN /\ engine \in [Ids -> {"none", "busy", "completed", "failed", "gone"}]
          /\ spared \subseteq Ids /\ \A j \in Ids : engine[j] = "busy" => j = work.job \/ j \in spared
      BY DEF GenInv, GenTypeOK, OrphanInv, OrphansAreSpared
    <3>2. CASE ContainerStops /\ spared' = spared
      BY <3>1, <3>2 DEF ContainerStops
    <3>3. CASE spared' = spared \cup {work.job} /\ plane' = plane /\ engine' = engine
      BY <1>2, <3>1, <3>3
    <3> QED BY <2>1, <3>2, <3>3 DEF EngineStops
  <2>3. work.error \in Errors \ {"none"}
    BY <1>1 DEF GenInv, GenTypeOK, WorkRecords, WorkInv
  <2>4. /\ e \in JobRecords /\ e.params = Params /\ e.key = job[work.job].key
        /\ e.status = "failed" /\ e.error = work.error
        /\ e.artifact = job[work.job].artifact /\ e.trajectory = job[work.job].trajectory
        /\ e.progress = job[work.job].progress
    BY <1>2, <2>3 DEF JobRecords, Ended, Params
  <2> HIDE DEF e
  <2>5. Params.mode \in ActionModes /\ work.error \in Refusals
          => Params.path[Conditioning(Params.mode)] = "large"
    BY <1>1 DEF GenInv, RefusalInv
  <2>6. AsAsked(e, sent[work.job], disk[work.job])
    <3>1. AsAsked(job[work.job], sent[work.job], disk[work.job])
      BY <1>2, EachAsAsked DEF GenInv
    <3> QED BY <1>4, <2>4, <3>1 DEF AsAsked
  <2>7. ended[work.job] = e.status
    BY <1>1, <2>4 DEF GenInv, MeterInv, At
  <2>8. job' # job
    BY <1>2, <1>4, <2>1, <2>4, Update DEF GenInv, GenTypeOK
  <2> QED BY <1>1, <1>2, <2>1, <2>2, <2>3, <2>4, <2>5, <2>6, <2>7, <2>8, DoneKeeps
<1> QED BY <1>3, <1>4

\* A cancel of the running job stops the engine; one of a queued job does not
\* concern the worker.
LEMMA CancelKeeps ==
  ASSUME GenInv, NEW j \in DOMAIN job, Cancel(j)
  PROVE  GenInv'
<1> DEFINE e == [job[j] EXCEPT !.status = "cancelled"]
<1>1. /\ job[j].status \notin Ended /\ job' = [job EXCEPT ![j] = e]
      /\ keys' = keys /\ upload' = upload /\ cond' = cond /\ work' = work /\ late' = late
      /\ sent' = sent /\ disk' = disk /\ counted' = counted /\ ended' = ended
  BY DEF Cancel, meters
<1>2. job[j] \in JobRecords
  BY JobNumbers DEF GenInv
<1>3. job[j].status \in {"queued", "running"}
  BY <1>1, <1>2 DEF JobRecords
<1>4. /\ e \in JobRecords /\ e.params = job[j].params /\ e.key = job[j].key /\ e.status = "cancelled"
      /\ e.error = job[j].error /\ e.progress = job[j].progress
      /\ e.artifact = job[j].artifact /\ e.trajectory = job[j].trajectory
  BY <1>2 DEF JobRecords, Ended
<1> HIDE DEF e
<1>5. /\ job' \in Seq(JobRecords) /\ Len(job') = Len(job) /\ DOMAIN job' = DOMAIN job
      /\ job'[j] = e /\ \A i \in DOMAIN job : i # j => job'[i] = job[i]
      /\ KeyInv' /\ MediaInv'
  BY <1>1, <1>4, OneJobChanges
<1>6. \/ job[j].status = "running" /\ ContainerStops /\ spared' = spared
      \/ job[j].status = "running" /\ plane' = plane /\ engine' = engine /\ spared' = spared \cup {j}
      \/ job[j].status # "running" /\ plane' = plane /\ engine' = engine /\ spared' = spared
  BY DEF Cancel, EngineStops, Running
<1>7. /\ plane' \in BOOLEAN /\ engine' \in [Ids -> {"none", "busy", "completed", "failed", "gone"}]
      /\ spared \subseteq spared' /\ spared' \subseteq Ids
      /\ \A i \in Ids : engine'[i] = "busy" => engine[i] = "busy"
      /\ job[j].status = "running" =>
           j \in spared' \/ (~plane' /\ \A i \in Ids : engine'[i] # "busy")
      /\ job[j].status # "running" => plane' = plane /\ engine' = engine
  <2>1. /\ plane \in BOOLEAN /\ engine \in [Ids -> {"none", "busy", "completed", "failed", "gone"}]
        /\ spared \subseteq Ids /\ j \in Ids
    BY JobNumbers DEF GenInv, GenTypeOK
  <2>2. CASE job[j].status = "running" /\ ContainerStops /\ spared' = spared
    BY <2>1, <2>2 DEF ContainerStops
  <2>3. CASE job[j].status = "running" /\ plane' = plane /\ engine' = engine /\ spared' = spared \cup {j}
    BY <2>1, <2>3
  <2>4. CASE job[j].status # "running" /\ plane' = plane /\ engine' = engine /\ spared' = spared
    BY <2>1, <2>4
  <2> QED BY <1>6, <2>2, <2>3, <2>4
<1>8. GenTypeOK'
  BY <1>1, <1>5, <1>7 DEF GenInv, GenTypeOK
<1>9. WorkInv'
  BY <1>1, <1>3, <1>4, <1>5 DEF GenInv, WorkInv, At, Running
<1>10. job[j].status = "running" => j = work.job
  BY DEF GenInv, WorkInv, Running
<1>11. job[j].status = "queued" /\ ~At("idle") => j # work.job
  BY DEF GenInv, WorkInv
<1>12. ~At("idle") => work.job \in DOMAIN job /\ work.job \in Ids
  BY WorkMoves
<1>13. OrphanInv'
  <2>1. OrphansAreSpared'
    BY <1>1, <1>7 DEF GenInv, OrphanInv, OrphansAreSpared
  <2>2. ~At("idle") /\ job'[work.job].status = "cancelled"
          => work.job \in spared' \/ (~plane' /\ engine'[work.job] # "busy")
    <3>1. CASE job[j].status = "running"
      BY <1>7, <1>10, <1>12, <3>1
    <3>2. CASE job[j].status = "queued"
      BY <1>5, <1>7, <1>11, <1>12, <3>2 DEF GenInv, OrphanInv, CancelStops
    <3> QED BY <1>3, <3>1, <3>2
  <2>3. work.step \in {"download", "open", "fill", "report", "return", "returned"}
          => engine'[work.job] # "busy"
    BY <1>7, <1>12 DEF GenInv, OrphanInv, At
  <2> QED BY <1>1, <2>1, <2>2, <2>3 DEF OrphanInv, CancelStops, At
<1>14. ~At("idle") => Params' = Params
  BY <1>1, <1>4, <1>5, <1>12 DEF Params
<1>15. HandInv'
  <2>1. CASE At("idle")
    BY <1>1, <2>1 DEF HandInv, At, Posted
  <2>2. CASE ~At("idle")
    <3>1. Params' = Params
      BY <1>14, <2>2
    <3>2. FirstFile' = FirstFile /\ Synchronous' = Synchronous
      BY <3>1 DEF FirstFile, Synchronous
    <3> QED BY <1>1, <3>1, <3>2 DEF GenInv, HandInv, At
  <2> QED BY <2>1, <2>2
<1>16. BarInv' /\ FullBarMeansWritten'
  <2>1. \A i \in DOMAIN job : job'[i].progress = job[i].progress /\ job'[i].params = job[i].params
                              /\ (job'[i].status = "queued" => job[i].status = "queued")
    BY <1>4, <1>5
  <2>2. AtWork => work.job \in DOMAIN job
    BY <1>12 DEF At, AtWork
  <2>3. BarInv'
    BY <1>1, <1>5, <2>1, <2>2 DEF GenInv, BarInv, AtWork
  <2> QED BY <1>1, <1>5, <2>1, <2>3 DEF GenInv, FullBarMeansWritten
<1>17. RefusalInv'
  <2>1. \A i \in DOMAIN job : job'[i].params = job[i].params /\ job'[i].error = job[i].error
    BY <1>4, <1>5
  <2>2. (~At("idle") /\ Params.mode \in ActionModes /\ work.error \in Refusals
          => Params.path[Conditioning(Params.mode)] = "large")'
    BY <1>1, <1>14 DEF GenInv, RefusalInv, At
  <2> QED BY <1>5, <2>1, <2>2 DEF GenInv, RefusalInv
<1>18. MeterInv'
  <2>2. \A i \in DOMAIN job : job'[i].status = job[i].status \/ job'[i].status = "cancelled"
    BY <1>4, <1>5
  <2> QED BY <1>1, <1>5, <2>2 DEF GenInv, MeterInv, At
<1>19. SucceededAsAsked'
  <2>1. \A i \in DOMAIN job : AsAsked(job[i], sent[i], disk[i])
    BY EachAsAsked DEF GenInv
  <2>2. AsAsked(e, sent[j], disk[j])
    BY <1>3, <1>4, <2>1 DEF AsAsked
  <2>3. \A i \in DOMAIN job' : AsAsked(job'[i], sent'[i], disk'[i])
    BY <1>1, <1>5, <2>1, <2>2
  <2> QED BY <2>3, NextAsAsked
<1> QED BY <1>5, <1>8, <1>9, <1>13, <1>15, <1>16, <1>17, <1>18, <1>19 DEF GenInv

-----------------------------------------------------------------------------
(* Submissions, the engine and the clock.                                  *)

\* A new job, under a key that leads nowhere yet.
LEMMA CreatesKeeps ==
  ASSUME GenInv, NEW params \in Stored, NEW key \in Keys \cup {NoKey}, ~Used(key), Creates(params, key),
         upload' = NoUpload, cond' \in [Kinds -> {"absent", "torn", "whole"}],
         \A k \in Kinds : cond[k] # "absent" => cond'[k] # "absent",
         \A k \in Kinds : params.path[k] = "inline" => cond'[k] # "absent",
         UNCHANGED <<work, late, enginevars, disk, ended>>
  PROVE  GenInv'
<1> DEFINE e == [params |-> params, key |-> key, status |-> "queued", progress |-> 0,
                 error |-> "none", artifact |-> "none", trajectory |-> "none"]
           n == Len(job) + 1
<1>1. /\ Len(job) < MaxJobs /\ job' = Append(job, e) /\ counted' = counted + 1
      /\ keys' = IF key = NoKey THEN keys ELSE [keys EXCEPT ![key] = Len(job')]
  BY DEF Creates
<1>2. /\ work' = work /\ late' = late /\ plane' = plane /\ engine' = engine /\ sent' = sent
      /\ disk' = disk /\ ended' = ended /\ spared' = spared
  BY DEF enginevars
<1>3. /\ e \in JobRecords /\ e.params = params /\ e.key = key /\ e.status = "queued" /\ e.progress = 0
      /\ e.error = "none" /\ e.artifact = "none" /\ e.trajectory = "none"
  BY DEF JobRecords, Full, Errors
<1> HIDE DEF e
<1>4. /\ job' \in Seq(JobRecords) /\ Len(job') = n /\ DOMAIN job' = DOMAIN job \cup {n}
      /\ job'[n] = e /\ \A i \in DOMAIN job : job'[i] = job[i]
  BY <1>1, <1>3, Added DEF GenInv, GenTypeOK
<1>5. /\ n \in Ids /\ n <= MaxJobs /\ n # 0 /\ n \in 0..MaxJobs /\ n \notin DOMAIN job
      /\ DOMAIN job \subseteq Ids
  BY <1>1, JobNumbers, JobAssumption DEF GenInv, Ids
<1>6. Len(job) \in Nat /\ counted = Len(job)
  BY JobNumbers DEF GenInv, MeterInv
<1> HIDE DEF n
<1>7. keys' \in [Keys -> 0..MaxJobs]
  <2>1. keys \in [Keys -> 0..MaxJobs]
    BY DEF GenInv, GenTypeOK
  <2> QED BY <1>1, <1>4, <1>5, <2>1
<1>8. GenTypeOK'
  <2>1. counted' \in Nat
    BY <1>1, <1>6
  <2> QED BY <1>2, <1>4, <1>5, <1>7, <2>1 DEF GenInv, GenTypeOK
<1>9. ~At("idle") => work.job \in DOMAIN job
  BY WorkMoves
<1>10. WorkInv'
  BY <1>2, <1>3, <1>4, <1>9 DEF GenInv, WorkInv, At, Running
<1>11. KeyInv'
  <2>1. keys \in [Keys -> 0..MaxJobs] /\ \A j \in DOMAIN job : job[j].key \in Keys \cup {NoKey}
    BY JobNumbers DEF GenInv, GenTypeOK, JobRecords
  <2>2. key # NoKey => keys[key] = 0 /\ key \in Keys
    BY DEF Used
  <2>3. \A j \in DOMAIN job : job[j].key # NoKey => job[j].key # key /\ keys[job[j].key] = j
    BY <1>5, <2>2, JobNumbers DEF GenInv, KeyInv, Ids
  <2>4. key # NoKey => keys' = [keys EXCEPT ![key] = n]
    BY <1>1, <1>4
  <2>5. key = NoKey => keys' = keys
    BY <1>1
  <2>6. \A k \in Keys : k # key => keys'[k] = keys[k]
    BY <2>1, <2>4, <2>5
  <2>7. key # NoKey => keys'[key] = n
    BY <2>1, <2>2, <2>4
  <2>8. \A k \in Keys : keys'[k] # 0 => keys'[k] \in DOMAIN job' /\ job'[keys'[k]].key = k
    <3>1. \A k \in Keys : k # key /\ keys'[k] # 0 => keys'[k] \in DOMAIN job' /\ job'[keys'[k]].key = k
      BY <1>4, <2>6 DEF GenInv, KeyInv
    <3>2. key # NoKey => n \in DOMAIN job' /\ job'[n].key = key
      BY <1>3, <1>4
    <3>3. key = NoKey => key \notin Keys
      BY JobAssumption
    <3> QED BY <2>7, <3>1, <3>2, <3>3
  <2>9. \A j \in DOMAIN job' : job'[j].key # NoKey => keys'[job'[j].key] = j
    <3>1. \A j \in DOMAIN job : job[j].key # NoKey => keys'[job[j].key] = j
      BY <2>1, <2>3, <2>6
    <3>2. job'[n].key # NoKey => keys'[job'[n].key] = n
      BY <1>3, <1>4, <2>7
    <3> QED BY <1>4, <3>1, <3>2
  <2> QED BY <2>8, <2>9 DEF KeyInv
<1>12. MediaInv'
  BY <1>3, <1>4 DEF GenInv, MediaInv
<1>13. OrphanInv'
  BY <1>2, <1>4, <1>9 DEF GenInv, OrphanInv, OrphansAreSpared, CancelStops, At
<1>14. ~At("idle") => Params' = Params
  BY <1>2, <1>4, <1>9 DEF Params
<1>15. HandInv'
  BY <1>2, <1>14, HandStays
<1>16. BarInv' /\ FullBarMeansWritten'
  <2>1. AtWork => work.job \in DOMAIN job
    BY <1>9 DEF At, AtWork
  <2>2. BarInv'
    BY <1>2, <1>3, <1>4, <2>1 DEF GenInv, BarInv, AtWork
  <2>3. job'[n].progress # Full
    BY <1>3, <1>4 DEF Full
  <2> QED BY <1>2, <1>4, <2>2, <2>3 DEF GenInv, FullBarMeansWritten
<1>17. RefusalInv'
  <2>1. (~At("idle") /\ Params.mode \in ActionModes /\ work.error \in Refusals
          => Params.path[Conditioning(Params.mode)] = "large")'
    BY <1>2, <1>14 DEF GenInv, RefusalInv, At
  <2>2. e.error \notin Refusals
    BY <1>3 DEF Refusals
  <2> QED BY <1>4, <2>1, <2>2 DEF GenInv, RefusalInv
<1>18. MeterInv'
  <2>1. counted' = Len(job')
    BY <1>1, <1>4, <1>6 DEF n
  <2> QED BY <1>2, <1>3, <1>4, <2>1 DEF GenInv, MeterInv, At
<1>19. SucceededAsAsked'
  <2>1. \A i \in DOMAIN job : AsAsked(job[i], sent[i], disk[i])
    BY EachAsAsked DEF GenInv
  <2>2. AsAsked(e, sent[n], disk[n])
    BY <1>3 DEF AsAsked
  <2>3. \A i \in DOMAIN job' : AsAsked(job'[i], sent'[i], disk'[i])
    BY <1>2, <1>4, <2>1, <2>2
  <2> QED BY <2>3, NextAsAsked
<1> QED BY <1>8, <1>10, <1>11, <1>12, <1>13, <1>15, <1>16, <1>17, <1>18, <1>19 DEF GenInv

\* Steps of the edge and of the clock that make no job: the worker, the jobs and
\* the meters stay as they are.
LEMMA NothingMade ==
  ASSUME GenInv, GenTypeOK', KeyInv', MediaInv',
         UNCHANGED <<job, work, plane, engine, sent, spared, disk, counted, ended>>
  PROVE  GenInv'
<1>1. WorkInv' /\ OrphanInv'
  BY DEF GenInv, WorkInv, OrphanInv, OrphansAreSpared, CancelStops, At, Running
<1>2. Params' = Params
  BY DEF Params
<1>3. HandInv'
  BY <1>2, HandStays
<1>4. BarInv' /\ RefusalInv' /\ MeterInv'
  BY <1>2 DEF GenInv, BarInv, RefusalInv, MeterInv, At, AtWork
<1>5. SucceededAsAsked' /\ FullBarMeansWritten'
  BY DEF GenInv, SucceededAsAsked, FullBarMeansWritten, ToJob, GetArtifact, GetTrajectory, Served
<1> QED BY <1>1, <1>3, <1>4, <1>5 DEF GenInv

\* A client's request, when there is room for its job.
LEMMA ClientRequest ==
  ASSUME GenInv, Len(job) < MaxJobs, NEW r \in Clients
  PROVE  r \in AnyRequest /\ Verdict(r) = "ok" /\ JobParams(Mapped(r)) \in Stored
<1> DEFINE n == Len(job) + 1
<1>1. n \in Ids
  BY JobNumbers, JobAssumption DEF GenInv, Ids
<1>2. r \in Accepted[n]
  BY DEF Clients
<1> HIDE DEF n
<1>3. r \in Requests[n] /\ Verdict(r) = "ok"
  BY <1>1, <1>2 DEF Accepted
<1>4. r \in AnyRequest
  BY <1>1, <1>3, JobAssumption DEF Ids
<1> QED BY <1>1, <1>3, <1>4 DEF Stored

\* A submission without media finds its key used, or makes a job.
LEMMA SubmitKeeps ==
  ASSUME GenInv, NEW r \in Clients, NEW key \in KeysFor(r), Submit(r, key)
  PROVE  GenInv'
<1>1. key \in Keys \cup {NoKey}
  BY DEF KeysFor
<1>2. /\ upload = NoUpload /\ upload' = upload /\ cond' = cond /\ work' = work /\ late' = late
      /\ UNCHANGED enginevars /\ disk' = disk /\ ended' = ended /\ r.media.kind = "none"
  BY DEF Submit, LoopIsFree
<1>3. cond \in [Kinds -> {"absent", "torn", "whole"}]
  BY DEF GenInv, GenTypeOK
<1>4. CASE Used(key)
  <2>1. job' = job /\ keys' = keys /\ counted' = counted
    BY <1>4 DEF Submit, StoreSubmit
  <2>2. plane' = plane /\ engine' = engine /\ sent' = sent /\ spared' = spared
    BY <1>2 DEF enginevars
  <2>3. GenTypeOK'
    BY <1>2, <2>1, <2>2 DEF GenInv, GenTypeOK
  <2>4. KeyInv' /\ MediaInv'
    BY <1>2, <2>1 DEF GenInv, KeyInv, MediaInv
  <2> QED BY <1>2, <2>1, <2>2, <2>3, <2>4, NothingMade
<1>5. CASE ~Used(key)
  <2> DEFINE params == JobParams(Mapped(r))
  <2>1. Creates(params, key) /\ Len(job) < MaxJobs
    BY <1>5 DEF Submit, StoreSubmit, Creates
  <2>2. params \in Stored /\ r \in AnyRequest
    BY <2>1, ClientRequest
  <2>3. \A k \in Kinds : params.path[k] # "inline"
    BY <1>2, <2>2, StoredPaths DEF Kinds
  <2> HIDE DEF params
  <2> QED BY <1>1, <1>2, <1>3, <1>5, <2>1, <2>2, <2>3, CreatesKeeps
<1> QED BY <1>4, <1>5

\* The file is torn from now on; the submission knows whether its key is used.
LEMMA PersistOpensKeeps ==
  ASSUME GenInv, NEW r \in Clients, NEW key \in KeysFor(r), PersistOpens(r, key)
  PROVE  GenInv'
<1> DEFINE params == IF Used(key) THEN NoParams ELSE JobParams(Mapped(r))
<1>1. key \in Keys \cup {NoKey}
  BY DEF KeysFor
<1>2. /\ upload' = [kind |-> r.media.kind, key |-> key, params |-> params]
      /\ cond' = [cond EXCEPT ![r.media.kind] = "torn"]
      /\ job' = job /\ keys' = keys /\ work' = work /\ late' = late /\ plane' = plane
      /\ engine' = engine /\ sent' = sent /\ disk' = disk /\ counted' = counted /\ ended' = ended
      /\ spared' = spared
  BY DEF PersistOpens, enginevars, meters
<1>3. upload'.params = params /\ upload'.key = key
  BY <1>2
<1>4. ~Used(key) => r \in AnyRequest /\ params \in Stored /\ params = JobParams(Mapped(r))
  BY ClientRequest DEF PersistOpens
<1>5. Used(key) => params = NoParams
  OBVIOUS
<1> HIDE DEF params
<1>6. cond \in [Kinds -> {"absent", "torn", "whole"}]
  BY DEF GenInv, GenTypeOK
<1>7. /\ cond' \in [Kinds -> {"absent", "torn", "whole"}]
      /\ \A k \in Kinds : cond[k] # "absent" => cond'[k] # "absent"
      /\ r.media.kind \in Kinds => cond'[r.media.kind] # "absent"
  BY <1>2, <1>6
<1>8. GenTypeOK'
  BY <1>1, <1>2, <1>3, <1>4, <1>5, <1>7 DEF GenInv, GenTypeOK
<1>9. KeyInv'
  <2>1. params = NoParams => Used(key)
    BY <1>4, StoredIsSome
  <2>2. (upload # NoUpload /\ upload.params = NoParams => Used(upload.key))'
    BY <1>2, <1>3, <2>1 DEF Used
  <2> QED BY <1>2, <2>2 DEF GenInv, KeyInv
<1>10. MediaInv'
  <2>1. params # NoParams => \A k \in Kinds : params.path[k] = "inline" => cond'[k] # "absent"
    <3>1. SUFFICES ASSUME params # NoParams PROVE \A k \in Kinds : params.path[k] = "inline" => cond'[k] # "absent"
      OBVIOUS
    <3>2. r \in AnyRequest /\ params = JobParams(Mapped(r))
      BY <1>4, <1>5, <3>1
    <3>3. \A k \in Kinds : params.path[k] = "inline" => k = r.media.kind
      BY <3>2, StoredPaths
    <3> QED BY <1>7, <3>3
  <2> QED BY <1>2, <1>3, <1>7, <2>1 DEF GenInv, MediaInv
<1> QED BY <1>2, <1>8, <1>9, <1>10, NothingMade

\* The file is whole again and the store looks at the key once more.
LEMMA PersistWritesKeeps == GenInv /\ PersistWrites => GenInv'
<1> SUFFICES ASSUME GenInv, PersistWrites PROVE GenInv'
  OBVIOUS
<1>1. /\ upload # NoUpload /\ upload' = NoUpload /\ StoreSubmit(upload.params, upload.key)
      /\ cond' = [cond EXCEPT ![upload.kind] = "whole"]
      /\ work' = work /\ late' = late /\ UNCHANGED enginevars /\ disk' = disk /\ ended' = ended
  BY DEF PersistWrites, LoopIsFree
<1>2. cond \in [Kinds -> {"absent", "torn", "whole"}]
  BY DEF GenInv, GenTypeOK
<1>3. /\ cond' \in [Kinds -> {"absent", "torn", "whole"}]
      /\ \A k \in Kinds : cond[k] # "absent" => cond'[k] # "absent"
  BY <1>1, <1>2
<1>4. upload.params \in Stored \cup {NoParams} /\ upload.key \in Keys \cup {NoKey}
  BY <1>1 DEF GenInv, GenTypeOK
<1>5. CASE Used(upload.key)
  <2>1. job' = job /\ keys' = keys /\ counted' = counted
    BY <1>1, <1>5 DEF StoreSubmit
  <2>2. plane' = plane /\ engine' = engine /\ sent' = sent /\ spared' = spared
    BY <1>1 DEF enginevars
  <2>3. GenTypeOK'
    BY <1>1, <1>3, <2>1, <2>2 DEF GenInv, GenTypeOK
  <2>4. KeyInv' /\ MediaInv'
    BY <1>1, <1>3, <2>1 DEF GenInv, KeyInv, MediaInv
  <2> QED BY <1>1, <2>1, <2>2, <2>3, <2>4, NothingMade
<1>6. CASE ~Used(upload.key)
  <2>1. upload.params \in Stored /\ upload.params # NoParams
    BY <1>1, <1>4, <1>6 DEF GenInv, KeyInv
  <2>2. Creates(upload.params, upload.key)
    BY <1>1, <1>6 DEF StoreSubmit
  <2>3. \A k \in Kinds : upload.params.path[k] = "inline" => cond'[k] # "absent"
    BY <1>1, <1>3, <2>1 DEF GenInv, MediaInv
  <2> QED BY <1>1, <1>3, <1>4, <1>6, <2>1, <2>2, <2>3, CreatesKeeps
<1> QED BY <1>5, <1>6

\* The engine ends a job at any time.
LEMMA EngineEndsKeeps ==
  ASSUME GenInv, NEW j \in DOMAIN job, EngineEnds(j)
  PROVE  GenInv'
<1>1. /\ plane /\ engine[j] = "busy"
      /\ job' = job /\ keys' = keys /\ upload' = upload /\ cond' = cond /\ work' = work /\ late' = late
      /\ plane' = plane /\ sent' = sent /\ disk' = disk /\ counted' = counted /\ ended' = ended
      /\ spared' = spared
  BY DEF EngineEnds, edgevars, meters
<1>2. PICK end \in {"completed", "failed"} : engine' = [engine EXCEPT ![j] = end]
  BY DEF EngineEnds
<1>3. engine \in [Ids -> {"none", "busy", "completed", "failed", "gone"}]
  BY DEF GenInv, GenTypeOK
<1>4. /\ engine' \in [Ids -> {"none", "busy", "completed", "failed", "gone"}]
      /\ \A i \in Ids : engine'[i] = "busy" => engine[i] = "busy"
  BY <1>2, <1>3
<1>5. GenTypeOK'
  BY <1>1, <1>4 DEF GenInv, GenTypeOK
<1>6. WorkInv' /\ KeyInv' /\ MediaInv'
  BY <1>1 DEF GenInv, WorkInv, KeyInv, MediaInv, At, Running, Used
<1>7. OrphanInv'
  <2>1. ~At("idle") => work.job \in Ids
    BY WorkMoves
  <2> QED BY <1>1, <1>4, <2>1 DEF GenInv, OrphanInv, OrphansAreSpared, CancelStops, At
<1>8. Params' = Params
  BY <1>1 DEF Params
<1>9. HandInv'
  BY <1>1, <1>8, HandStays
<1>10. BarInv' /\ RefusalInv' /\ MeterInv'
  BY <1>1, <1>8 DEF GenInv, BarInv, RefusalInv, MeterInv, At, AtWork
<1>11. SucceededAsAsked' /\ FullBarMeansWritten'
  BY <1>1 DEF GenInv, SucceededAsAsked, FullBarMeansWritten, ToJob, GetArtifact, GetTrajectory, Served
<1> QED BY <1>5, <1>6, <1>7, <1>9, <1>10, <1>11 DEF GenInv

\* The deadline passes.
LEMMA ExpiresKeeps == GenInv /\ Expires => GenInv'
<1> SUFFICES ASSUME GenInv, Expires PROVE GenInv'
  OBVIOUS
<1>1. /\ late' = TRUE
      /\ job' = job /\ keys' = keys /\ upload' = upload /\ cond' = cond /\ work' = work
      /\ plane' = plane /\ engine' = engine /\ sent' = sent /\ disk' = disk /\ counted' = counted
      /\ ended' = ended /\ spared' = spared
  BY DEF Expires, edgevars, enginevars, meters
<1>2. late' \in BOOLEAN
  BY <1>1
<1>3. GenTypeOK'
  BY <1>1, <1>2 DEF GenInv, GenTypeOK
<1>4. KeyInv' /\ MediaInv'
  BY <1>1 DEF GenInv, KeyInv, MediaInv, Used
<1> QED BY <1>1, <1>3, <1>4, NothingMade

-----------------------------------------------------------------------------
\* Every step keeps the invariant.
LEMMA GenStep == GenInv /\ [Next]_vars => GenInv'
<1> SUFFICES ASSUME GenInv, [Next]_vars PROVE GenInv'
  OBVIOUS
<1>1. ASSUME NEW r \in Clients, NEW key \in KeysFor(r), Submit(r, key) \/ PersistOpens(r, key)
      PROVE  GenInv'
  BY <1>1, SubmitKeeps, PersistOpensKeeps
<1>2. ASSUME NEW j \in DOMAIN job, Cancel(j) \/ EngineEnds(j) PROVE GenInv'
  BY <1>2, CancelKeeps, EngineEndsKeeps
<1>3. CASE Working
  BY <1>3, ResolvesKeeps, ReadsKeeps, FormRaisesKeeps, PostsKeeps, PostIsLostKeeps, CallKeeps,
     DownloadsKeeps, WritesKeep, WriteFailsKeeps, ReportsKeeps, MeteredWorkKeeps DEF Working
<1>4. CASE PollsEnd \/ PollPending \/ PollIsLost
  BY <1>4, PollTimesOutKeeps, PollEndsKeeps, PollPendingKeeps DEF PollsEnd
<1>5. CASE PersistWrites \/ Runner \/ Expires
  BY <1>5, PersistWritesKeeps, StartsKeeps, StartFailsKeeps, WorkReturnsKeeps, WorkRaisesKeeps, ExpiresKeeps
     DEF Runner
<1>6. CASE UNCHANGED vars
  <2>1. UNCHANGED <<job, keys, upload, cond, work, late, plane, engine, sent, spared, disk, counted, ended>>
    BY <1>6 DEF vars, edgevars, enginevars, meters
  <2>2. GenTypeOK' /\ KeyInv' /\ MediaInv'
    BY <2>1 DEF GenInv, GenTypeOK, KeyInv, MediaInv, Used
  <2> QED BY <2>1, <2>2, NothingMade
<1> QED BY <1>1, <1>2, <1>3, <1>4, <1>5, <1>6 DEF Next

\* So it holds always.
LEMMA GenAlways == Spec => []GenInv
BY GenInit, GenStep, PTL DEF Spec

-----------------------------------------------------------------------------
(* The results.                                                            *)

\* The state has its types, whatever is submitted, fails or is cancelled: the
\* worker has a job unless it is idle, and a job has an error if it failed.
THEOREM JobTypeCorrect == Spec => []TypeOK
<1>1. GenInv => TypeOK
  <2> SUFFICES ASSUME GenInv PROVE TypeOK
    OBVIOUS
  <2>1. \A j \in DOMAIN job :
          /\ job[j].status \in Ended \cup {"queued", "running"} /\ job[j].progress \in 0..Full
          /\ job[j].error \in ClientErrors \cup {"none", "internal_error"}
          /\ (job[j].error = "none") <=> (job[j].status # "failed")
    BY JobNumbers DEF GenInv, WorkInv, JobRecords, Errors
  <2>2. keys \in [Keys -> 0..Len(job)]
    <3>1. keys \in [Keys -> 0..MaxJobs] /\ \A k \in Keys : keys[k] # 0 => keys[k] \in 1..Len(job)
      BY JobNumbers DEF GenInv, GenTypeOK, KeyInv
    <3>2. \A k \in Keys : keys[k] \in 0..Len(job)
      BY <3>1, JobNumbers DEF GenInv
    <3> QED BY <3>1, <3>2
  <2>3. (work.step = "idle") <=> (work.job = 0)
    BY DEF GenInv, WorkInv, At
  <2> QED BY <2>1, <2>2, <2>3 DEF GenInv, GenTypeOK, TypeOK, WorkRecords
<1> QED BY <1>1, GenAlways, PTL

\* JobStore.submit: however submissions interleave, also when one is suspended
\* in its upload, an Idempotency-Key has at most one job.
THEOREM KeyIsOneJob == Spec => []KeyNamesOneJob
<1>1. GenInv => KeyNamesOneJob
  BY DEF GenInv, KeyInv, KeyNamesOneJob
<1> QED BY <1>1, GenAlways, PTL

\* work.py, artifacts.py: a job that succeeded was made from its conditioning
\* media, and its files are there in full; no other job offers a file.
THEOREM Succeeded == Spec => []SucceededAsAsked
<1>1. GenInv => SucceededAsAsked
  BY DEF GenInv
<1> QED BY <1>1, GenAlways, PTL

\* client.py, runner.py, container.py: no failure, timeout or cancel leaves the
\* engine at work on a job that nobody waits for, unless the stop of its own
\* container failed; a stop that fails for another job does not.
THEOREM NothingOrphaned == Spec => []OrphansAreSpared
<1>1. GenInv => OrphansAreSpared
  BY DEF GenInv, OrphanInv
<1> QED BY <1>1, GenAlways, PTL

\* What the edge accepts the worker can serve, for every request and all caps,
\* but for what AcceptedIsServed names.
THEOREM AcceptedServed == Spec => []AcceptedIsServed
<1>1. GenInv => AcceptedIsServed
  <2> SUFFICES ASSUME GenInv PROVE AcceptedIsServed
    OBVIOUS
  <2>1. At("submit") => Params \in Stored
    BY WorkMoves DEF At
  <2>2. At("submit") => \/ Buildable(Params)
                        \/ IntFails(Params.steps)
                        \/ Params.mode \in ActionModes /\ Params.tier = Null
    BY <2>1, StoredIsBuildable
  <2> QED BY <2>2 DEF GenInv, RefusalInv, AcceptedIsServed, Refusals
<1> QED BY <1>1, GenAlways, PTL

\* The metadata of a job and its form agree, for all parameters.
THEOREM FormsAlwaysAgree == Spec => []FormsAgree
<1>1. ASSUME NEW p, NEW f \in {"size", "frames", "steps"}
      PROVE  Form(p)[f] = ParamRecord(p)[f] \/ (p.mode = "t2i" /\ f = "frames")
  <2>1. CASE p.mode = "t2i"
    BY <2>1 DEF Form, ParamRecord, BuildImageBody, ResolvedParams, ActionModes
  <2>2. CASE p.mode \in ActionModes
    BY <2>2 DEF Form, ParamRecord, BuildFdForm, BuildActionForm, FdResolvedParams,
                ActionResolvedParams, ActionModes
  <2>3. CASE p.mode # "t2i" /\ p.mode \notin ActionModes
    BY <2>3 DEF Form, ParamRecord, BuildVideoForm, ResolvedParams, ActionModes
  <2> QED BY <2>1, <2>2, <2>3
<1>2. ASSUME NEW p, p.mode \in GenerationModes
      PROVE  ToGenerationRequest(p).size = Form(p).size
  <2>1. ToGenerationRequest(p).size = Sized(p)
    BY DEF ToGenerationRequest
  <2>2. Form(p).size = Sized(p)
    BY <1>2 DEF Form, BuildImageBody, BuildVideoForm, ResolvedParams, ActionModes, GenerationModes
  <2> QED BY <2>1, <2>2
<1>3. FormsAgree
  BY <1>1, <1>2 DEF FormsAgree
<1> QED BY <1>3, PTL

\* run_video_job, _progress_cb: the bar of a job never goes back, and whatever
\* fraction the engine reports, it is full only when the files are written.
THEOREM BarStaysHonest == Spec => BarIsHonest
<1>1. GenInv /\ [Next]_vars => (\A j \in DOMAIN job : job'[j].progress >= job[j].progress) \/ UNCHANGED vars
  <2> SUFFICES ASSUME GenInv, [Next]_vars
               PROVE  \A j \in DOMAIN job : job'[j].progress >= job[j].progress
    OBVIOUS
  <2>1. \A j \in DOMAIN job : job[j].progress \in 0..Full
    BY JobNumbers DEF GenInv, JobRecords
  <2>2. CASE job' = job
    BY <2>1, <2>2 DEF Full
  <2>3. ASSUME NEW params, NEW key, Creates(params, key)
        PROVE  \A j \in DOMAIN job : job'[j] = job[j]
    <3>1. job \in Seq(JobRecords)
      BY DEF GenInv, GenTypeOK
    <3> QED BY <2>3, <3>1 DEF Creates
  <2>4. ASSUME NEW j \in DOMAIN job, NEW e, job' = [job EXCEPT ![j] = e], e.progress >= job[j].progress
        PROVE  \A i \in DOMAIN job : job'[i].progress >= job[i].progress
    BY <2>1, <2>4 DEF Full
  <2>5. ASSUME NEW x \in 0..Full, Reported(x), ~At("idle"), x >= job[work.job].progress
        PROVE  \A j \in DOMAIN job : job'[j].progress >= job[j].progress
    <3>1. \A j \in DOMAIN job :
              /\ j # work.job \/ job[j].status # "running" => job'[j].progress = job[j].progress
              /\ j = work.job /\ job[j].status = "running" => job'[j].progress = x
      BY <2>5, ReportChanges
    <3> QED BY <2>1, <2>5, <3>1 DEF Full
  <2>6. CASE \E r \in Clients : \E key \in KeysFor(r) : Submit(r, key) \/ PersistOpens(r, key)
    <3>1. job' = job \/ \E params, key : Creates(params, key)
      BY <2>6 DEF Submit, PersistOpens, StoreSubmit
    <3> QED BY <2>1, <2>2, <2>3, <3>1 DEF Full
  <2>7. CASE PersistWrites
    <3>1. job' = job \/ \E params, key : Creates(params, key)
      BY <2>7 DEF PersistWrites, StoreSubmit
    <3> QED BY <2>1, <2>2, <2>3, <3>1 DEF Full
  <2>8. ASSUME NEW j \in DOMAIN job, Cancel(j)
        PROVE  \A i \in DOMAIN job : job'[i].progress >= job[i].progress
    <3> DEFINE e == [job[j] EXCEPT !.status = "cancelled"]
    <3>1. job' = [job EXCEPT ![j] = e]
      BY <2>8 DEF Cancel
    <3>2. e.progress = job[j].progress /\ e.progress >= job[j].progress
      BY <2>1, JobNumbers DEF GenInv, JobRecords, Full
    <3> HIDE DEF e
    <3> QED BY <2>4, <3>1, <3>2
  <2>9. CASE Starts
    <3> DEFINE j == Dequeued
               e == [job[j] EXCEPT !.status = "running"]
    <3>1. job' = [job EXCEPT ![j] = e]
      BY <2>9 DEF Starts
    <3> HIDE DEF j
    <3>2. CASE j \in DOMAIN job
      <4>1. e.progress = job[j].progress /\ e.progress >= job[j].progress
        BY <2>1, <3>2, JobNumbers DEF GenInv, JobRecords, Full
      <4> HIDE DEF e
      <4> QED BY <2>4, <3>1, <3>2, <4>1
    <3>3. CASE j \notin DOMAIN job
      BY <2>1, <3>1, <3>3 DEF Full
    <3> QED BY <3>2, <3>3
  <2>15. CASE StartFails
    <3> DEFINE e == [job[Dequeued] EXCEPT !.status = "failed", !.error = "internal_error"]
    <3>1. job' = [job EXCEPT ![Dequeued] = e] /\ Dequeued \in DOMAIN job
      BY <2>15, TheFirstQueued DEF StartFails
    <3>2. e.progress = job[Dequeued].progress /\ e.progress >= job[Dequeued].progress
      BY <2>1, <3>1, JobNumbers DEF GenInv, JobRecords, Full
    <3> HIDE DEF e
    <3> QED BY <2>4, <3>1, <3>2
  <2>10. CASE WorkReturns
    <3> DEFINE e == [job[work.job] EXCEPT !.status = "succeeded", !.progress = Full, !.artifact = FirstFile,
                       !.trajectory = IF Params.mode = "policy" THEN "json" ELSE "none"]
    <3>1. job' = job \/ job' = [job EXCEPT ![work.job] = e]
      BY <2>10 DEF WorkReturns
    <3>2. work.job \in DOMAIN job /\ job[work.job] \in JobRecords
      BY <2>10, WorkMoves DEF WorkReturns, At
    <3>3. e.progress = Full
      BY <3>2 DEF JobRecords
    <3>4. e.progress >= job[work.job].progress
      BY <2>1, <3>2, <3>3 DEF Full
    <3> HIDE DEF e
    <3> QED BY <2>2, <2>4, <3>1, <3>2, <3>4
  <2>11. CASE WorkRaises
    <3> DEFINE e == [job[work.job] EXCEPT !.status = "failed", !.error = work.error]
    <3>1. job' = job \/ job' = [job EXCEPT ![work.job] = e]
      BY <2>11 DEF WorkRaises
    <3>2. work.job \in DOMAIN job /\ job[work.job] \in JobRecords
      BY <2>11, WorkMoves DEF WorkRaises, At
    <3>3. e.progress = job[work.job].progress /\ e.progress >= job[work.job].progress
      BY <2>1, <3>2 DEF JobRecords, Full
    <3> HIDE DEF e
    <3> QED BY <2>2, <2>4, <3>1, <3>2, <3>3
  <2>12. CASE PollPending
    <3>1. PICK fraction \in 0..Full : Reported(Floor(Capped(fraction)))
      BY <2>12 DEF PollPending
    <3>2. At("poll") /\ ~At("idle")
      BY <2>12 DEF PollPending, Polls, At
    <3>3. /\ work.floor \in 0..Full /\ job[work.job].progress <= work.floor
          /\ job[work.job].progress \in 0..Full
      BY <2>1, <3>2, WorkMoves DEF GenInv, GenTypeOK, WorkRecords, BarInv, At, AtWork
    <3>4. Floor(Capped(fraction)) \in 0..Full /\ Floor(Capped(fraction)) >= job[work.job].progress
      BY <3>3 DEF Floor, Capped, Full, Cap
    <3> QED BY <2>5, <3>1, <3>2, <3>4
  <2>13. CASE Reports
    <3>1. Reported(Full) /\ ~At("idle")
      BY <2>13 DEF Reports, At
    <3>2. Full \in 0..Full /\ Full >= job[work.job].progress
      BY <2>1, <3>1, WorkMoves DEF Full
    <3> QED BY <2>5, <3>1, <3>2
  <2>14. CASE \/ Resolves \/ Reads \/ FormRaises \/ Posts \/ PostIsLost \/ CallReturns \/ CallIsLost
              \/ Downloads \/ WritePng \/ WriteVideoBytes \/ WriteTrajectoryJson \/ WriteFails
              \/ MeteredWork \/ PollsEnd \/ PollIsLost \/ Expires \/ UNCHANGED vars
              \/ \E j \in DOMAIN job : EngineEnds(j)
    <3>1. job' = job
      BY <2>14 DEF Resolves, Reads, FormRaises, Posts, PostIsLost, CallReturns, CallIsLost, Downloads,
        WritePng, WriteVideoBytes, WriteTrajectoryJson, WritesFile, WriteFails, MeteredWork, PollsEnd,
        PollTimesOut, PollCompleted, PollFailed, PollIsLost, Expires, EngineEnds, edgevars, vars
    <3> QED BY <2>2, <3>1
  <2> QED BY <2>6, <2>7, <2>8, <2>9, <2>10, <2>11, <2>12, <2>13, <2>14, <2>15 DEF Next, Working, Runner
<1> DEFINE Monotone == \A j \in DOMAIN job : job'[j].progress >= job[j].progress
<1>2. GenInv /\ GenInv' /\ [Next]_vars => [Monotone /\ FullBarMeansWritten']_vars
  BY <1>1 DEF GenInv
<1> HIDE DEF Monotone
<1>3. Spec => [][Monotone /\ FullBarMeansWritten']_vars
  BY <1>2, GenAlways, PTL DEF Spec
<1> QED BY <1>3 DEF BarIsHonest, Monotone

\* Disjoint sets.
LEMMA DisjointSum ==
  ASSUME NEW S, NEW T, IsFiniteSet(S), IsFiniteSet(T), S \cap T = {}
  PROVE  IsFiniteSet(S \cup T) /\ Cardinality(S \cup T) = Cardinality(S) + Cardinality(T)
<1>1. Cardinality(S) \in Nat /\ Cardinality(T) \in Nat
  BY FS_CardinalityType
<1>2. Cardinality(S \cap T) = 0
  BY FS_EmptySet
<1>3. IsFiniteSet(S \cup T) /\ Cardinality(S \cup T) = Cardinality(S) + Cardinality(T) - Cardinality(S \cap T)
  BY FS_Union
<1> QED BY <1>1, <1>2, <1>3

\* StateCollector.collect against metered_work and the count of submissions: the
\* counters and the gauges of a scrape tell one story at any moment.
THEOREM MetersAlwaysAgree == Spec => []MetersAgree
<1>1. GenInv => MetersAgree
  <2> SUFFICES ASSUME GenInv PROVE MetersAgree
    OBVIOUS
  <2> DEFINE Of(s) == {j \in DOMAIN job : job[j].status = s}
  <2>1. /\ Len(job) \in Nat /\ DOMAIN job = 1..Len(job) /\ DOMAIN job \subseteq Ids
        /\ \A j \in DOMAIN job : job[j].status \in Ended \cup {"queued", "running"}
    BY JobNumbers DEF GenInv, JobRecords
  <2>2. IsFiniteSet(DOMAIN job) /\ Cardinality(DOMAIN job) = Len(job)
    <3>1. 1 \in Int /\ Len(job) \in Int
      BY <2>1
    <3>2. IsFiniteSet(1..Len(job)) /\ Cardinality(1..Len(job)) = IF 1 > Len(job) THEN 0 ELSE Len(job) - 1 + 1
      BY <3>1, FS_Interval
    <3>3. Cardinality(1..Len(job)) = Len(job)
      BY <2>1, <3>2
    <3> QED BY <2>1, <3>2, <3>3
  <2>3. \A s : IsFiniteSet(Of(s)) /\ Cardinality(Of(s)) \in Nat
    <3>1. \A s : Of(s) \in SUBSET DOMAIN job
      OBVIOUS
    <3> QED BY <2>2, <3>1, FS_Subset, FS_CardinalityType
  <2>4. counted = Collect("queued") + Collect("running") + Collect("succeeded")
                  + Collect("failed") + Collect("cancelled")
    <3> DEFINE A == Of("queued")
               B == A \cup Of("running")
               C == B \cup Of("succeeded")
               D == C \cup Of("failed")
               E == D \cup Of("cancelled")
    <3>1. /\ A \cap Of("running") = {} /\ B \cap Of("succeeded") = {}
          /\ C \cap Of("failed") = {} /\ D \cap Of("cancelled") = {}
      OBVIOUS
    <3>2. E = DOMAIN job
      BY <2>1 DEF Ended
    <3>0. \A s : Collect(s) = Cardinality(Of(s))
      BY DEF Collect
    <3> HIDE DEF Of
    <3>3. IsFiniteSet(A) /\ Cardinality(A) = Collect("queued")
      BY <2>3, <3>0
    <3> HIDE DEF A
    <3>4. IsFiniteSet(B) /\ Cardinality(B) = Cardinality(A) + Collect("running")
      BY <2>3, <3>1, <3>3, <3>0, DisjointSum
    <3> HIDE DEF B
    <3>5. IsFiniteSet(C) /\ Cardinality(C) = Cardinality(B) + Collect("succeeded")
      BY <2>3, <3>1, <3>4, <3>0, DisjointSum
    <3> HIDE DEF C
    <3>6. IsFiniteSet(D) /\ Cardinality(D) = Cardinality(C) + Collect("failed")
      BY <2>3, <3>1, <3>5, <3>0, DisjointSum
    <3> HIDE DEF D
    <3>7. IsFiniteSet(E) /\ Cardinality(E) = Cardinality(D) + Collect("cancelled")
      BY <2>3, <3>1, <3>6, <3>0, DisjointSum
    <3> HIDE DEF E
    <3>8. counted = Cardinality(E)
      BY <2>2, <3>2 DEF GenInv, MeterInv
    <3> QED BY <3>3, <3>4, <3>5, <3>6, <3>7, <3>8
  <2>5. \A j \in Ids : ended[j] # "none" =>
          \/ j = work.job
          \/ j \in DOMAIN job /\ job[j].status \in {ended[j], "cancelled"}
    BY DEF GenInv, MeterInv
  <2> QED BY <2>4, <2>5 DEF MetersAgree
<1> QED BY <1>1, GenAlways, PTL

\* metered_work against _run_next and _fail: a job that ran is counted when it
\* succeeds or fails, as it does, and one whose plane did not come up is not.
THEOREM RunsAreCounted == Spec => RunEndsCounted
<1> DEFINE Counts == \A j \in DOMAIN job :
      job'[j].status # job[j].status /\ job'[j].status \in {"succeeded", "failed"} =>
        ended[j] = IF job[j].status = "running" THEN job'[j].status ELSE "none"
<1>1. GenInv /\ [Next]_vars => Counts \/ UNCHANGED vars
  <2> SUFFICES ASSUME GenInv, [Next]_vars PROVE Counts
    OBVIOUS
  <2>1. CASE job' = job
    BY <2>1
  <2>2. ASSUME NEW params, NEW key, Creates(params, key)
        PROVE  \A j \in DOMAIN job : job'[j] = job[j]
    <3>1. job \in Seq(JobRecords)
      BY DEF GenInv, GenTypeOK
    <3> QED BY <2>2, <3>1 DEF Creates
  <2>3. ASSUME NEW j \in DOMAIN job, NEW e, job' = [job EXCEPT ![j] = e],
               e.status \in {"succeeded", "failed"} =>
                 ended[j] = IF job[j].status = "running" THEN e.status ELSE "none"
        PROVE  Counts
    <3>1. job \in Seq(JobRecords)
      BY DEF GenInv, GenTypeOK
    <3>2. job'[j] = e /\ \A i \in DOMAIN job : i # j => job'[i] = job[i]
      BY <2>3, <3>1
    <3> QED BY <2>3, <3>2
  <2>4. ASSUME NEW x \in 0..Full, Reported(x), ~At("idle")
        PROVE  \A j \in DOMAIN job : job'[j].status = job[j].status
    BY <2>4, ReportChanges
  <2>5. CASE \/ \E r \in Clients : \E key \in KeysFor(r) : Submit(r, key) \/ PersistOpens(r, key)
             \/ PersistWrites
    <3>1. job' = job \/ \E params, key : Creates(params, key)
      BY <2>5 DEF Submit, PersistOpens, PersistWrites, StoreSubmit
    <3> QED BY <2>1, <2>2, <3>1
  <2>6. ASSUME NEW j \in DOMAIN job, Cancel(j)
        PROVE  Counts
    <3> DEFINE e == [job[j] EXCEPT !.status = "cancelled"]
    <3>1. job' = [job EXCEPT ![j] = e]
      BY <2>6 DEF Cancel
    <3>2. e.status = "cancelled"
      BY JobNumbers DEF GenInv, JobRecords
    <3> HIDE DEF e
    <3> QED BY <2>3, <3>1, <3>2
  <2>7. CASE Starts
    <3> DEFINE e == [job[Dequeued] EXCEPT !.status = "running"]
    <3>1. job' = [job EXCEPT ![Dequeued] = e] /\ Dequeued \in DOMAIN job
      BY <2>7, TheFirstQueued DEF Starts
    <3>2. e.status = "running"
      BY <3>1, JobNumbers DEF GenInv, JobRecords
    <3> HIDE DEF e
    <3> QED BY <2>3, <3>1, <3>2
  <2>8. CASE StartFails
    <3> DEFINE e == [job[Dequeued] EXCEPT !.status = "failed", !.error = "internal_error"]
    <3>1. /\ job' = [job EXCEPT ![Dequeued] = e] /\ Dequeued \in DOMAIN job /\ Dequeued \in Ids
          /\ job[Dequeued].status = "queued" /\ Dequeued # 0
      BY <2>8, TheFirstQueued DEF StartFails
    <3>2. work.job = 0
      BY <2>8 DEF StartFails, GenInv, WorkInv
    <3>3. ended[Dequeued] = "none"
      BY <3>1, <3>2 DEF GenInv, GenTypeOK, MeterInv
    <3> HIDE DEF e
    <3> QED BY <2>3, <3>1, <3>3
  <2>9. CASE WorkReturns
    <3> DEFINE e == [job[work.job] EXCEPT !.status = "succeeded", !.progress = Full, !.artifact = FirstFile,
                       !.trajectory = IF Params.mode = "policy" THEN "json" ELSE "none"]
    <3>1. job' = job \/ (job' = [job EXCEPT ![work.job] = e] /\ job[work.job].status = "running")
      BY <2>9 DEF WorkReturns, Running
    <3>2. /\ work.job \in DOMAIN job /\ job[work.job] \in JobRecords
          /\ ended[work.job] = "succeeded"
      BY <2>9, WorkMoves DEF WorkReturns, At, GenInv, MeterInv
    <3>3. e.status = "succeeded"
      BY <3>2 DEF JobRecords
    <3> HIDE DEF e
    <3> QED BY <2>1, <2>3, <3>1, <3>2, <3>3
  <2>10. CASE WorkRaises
    <3> DEFINE e == [job[work.job] EXCEPT !.status = "failed", !.error = work.error]
    <3>1. job' = job \/ (job' = [job EXCEPT ![work.job] = e] /\ job[work.job].status = "running")
      BY <2>10 DEF WorkRaises, Running
    <3>2. /\ work.job \in DOMAIN job /\ job[work.job] \in JobRecords
          /\ ended[work.job] = "failed"
      BY <2>10, WorkMoves DEF WorkRaises, At, GenInv, MeterInv
    <3>3. e.status = "failed"
      BY <3>2 DEF JobRecords
    <3> HIDE DEF e
    <3> QED BY <2>1, <2>3, <3>1, <3>2, <3>3
  <2>11. CASE PollPending
    <3>1. PICK fraction \in 0..Full : Reported(Floor(Capped(fraction)))
      BY <2>11 DEF PollPending
    <3>2. ~At("idle") /\ work.floor \in 0..Full
      BY <2>11 DEF PollPending, Polls, At, GenInv, GenTypeOK, WorkRecords
    <3>3. Floor(Capped(fraction)) \in 0..Full
      BY <3>2 DEF Floor, Capped, Full, Cap
    <3> QED BY <2>4, <3>1, <3>2, <3>3
  <2>12. CASE Reports
    <3>1. Reported(Full) /\ ~At("idle") /\ Full \in 0..Full
      BY <2>12 DEF Reports, At, Full
    <3> QED BY <2>4, <3>1
  <2>13. CASE \/ Resolves \/ Reads \/ FormRaises \/ Posts \/ PostIsLost \/ CallReturns \/ CallIsLost
              \/ Downloads \/ WritePng \/ WriteVideoBytes \/ WriteTrajectoryJson \/ WriteFails
              \/ MeteredWork \/ PollsEnd \/ PollIsLost \/ Expires \/ UNCHANGED vars
              \/ \E j \in DOMAIN job : EngineEnds(j)
    <3>1. job' = job
      BY <2>13 DEF Resolves, Reads, FormRaises, Posts, PostIsLost, CallReturns, CallIsLost, Downloads,
        WritePng, WriteVideoBytes, WriteTrajectoryJson, WritesFile, WriteFails, MeteredWork, PollsEnd,
        PollTimesOut, PollCompleted, PollFailed, PollIsLost, Expires, EngineEnds, edgevars, vars
    <3> QED BY <2>1, <3>1
  <2> HIDE DEF Counts
  <2> QED BY <2>5, <2>6, <2>7, <2>8, <2>9, <2>10, <2>11, <2>12, <2>13 DEF Next, Working, Runner
<1> QED BY <1>1, GenAlways, PTL DEF Spec, RunEndsCounted
=============================================================================
