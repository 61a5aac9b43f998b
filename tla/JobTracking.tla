----------------------------- MODULE JobTracking -----------------------------
(***************************************************************************)
(* How the web UI follows a job: the job's event log and the SSE endpoint  *)
(* that replays it (api/jobs/store.py, api/app/jobs_router.py), the        *)
(* reconnecting stream client (webui/lib/sse/createEventStream.ts), and    *)
(* the tab's view of its active job (jobState.ts, StudioProvider.tsx and   *)
(* useActionJob.ts, which share the logic).                                *)
(*                                                                         *)
(* The jobs are those of JobRunner as the endpoint sees them: a status and *)
(* its event change together, a progress event may come late.  One turn    *)
(* of the endpoint's generator runs without giving up the event loop (its  *)
(* sends do not block), then it sleeps until the next heartbeat.           *)
(***************************************************************************)
EXTENDS Naturals, Sequences, FiniteSets

CONSTANTS
  Jobs,
  NoJob,
  LogBound,     (* events kept per job (_EVENT_LOG_BOUND)                  *)
  MaxRetries,   (* reconnects in a row before the client gives up          *)
  MaxProgress,  (* bound: progress events of one job                       *)
  MaxFailures,  (* bound: network failures while a job is followed         *)
  MaxOpens,     (* bound: jobs submitted or opened by the tab              *)
  MaxInFlight   (* bound: events on the wire when the generator wakes      *)

ASSUME JobTrackingAssumption ==
  /\ NoJob \notin Jobs
  /\ LogBound \in Nat \ {0}
  /\ {MaxRetries, MaxProgress, MaxFailures, MaxOpens, MaxInFlight} \subseteq Nat

Terminal == {"succeeded", "failed", "cancelled"}
Statuses == {"new", "queued", "running"} \cup Terminal
Event(id, type) == [id |-> id, type |-> type]

VARIABLES
  status,     (* each job's record                                         *)
  log,        (* each job's bounded event log                              *)
  lastSeq,    (* each job's event counter                                  *)
  reporting,  (* jobs whose work thread is about to append a progress event *)
  active,     (* the tab's active job                                      *)
  view,       (* the JobView                                               *)
  pending,    (* the effect on the active job has still to run             *)
  opens,      (* jobs opened so far                                        *)
  stream,     (* createEventStream: what the client is doing               *)
  following,  (* the job whose events it asks for                          *)
  lastId,     (* its Last-Event-ID; 0 for none                             *)
  attempt,    (* its failed attempts in a row                              *)
  wire,       (* events sent and not yet read                              *)
  gen,        (* the generator serving the connection, and its cursor      *)
  replies,    (* cancel requests and fallback polls on their way           *)
  failures    (* network failures so far                                   *)

server == <<status, log, lastSeq, reporting>>
tab    == <<active, pending, opens>>
client == <<tab, view, replies>>
link   == <<stream, following, lastId, attempt, wire, gen, failures>>
vars   == <<server, client, link>>

InitialView == [status |-> "queued", terminal |-> FALSE]
Replies == [kind : {"cancel", "poll"}, job : Jobs, answer : {"none"} \cup Statuses]
Gone == [at |-> "gone", sent |-> 0]

-----------------------------------------------------------------------------
(* The jobs.                                                               *)

\* append_event on a deque with a maximal length.
Logged(j, type) ==
  LET new == Append(log[j], Event(lastSeq[j] + 1, type)) IN
  /\ log' = [log EXCEPT ![j] = IF Len(new) > LogBound THEN Tail(new) ELSE new]
  /\ lastSeq' = [lastSeq EXCEPT ![j] = @ + 1]

Becomes(j, to) ==
  /\ status' = [status EXCEPT ![j] = to]
  /\ Logged(j, to)

Submitted(j) == status[j] = "new" /\ Becomes(j, "queued") /\ UNCHANGED <<reporting, client, link>>

Started(j) == status[j] = "queued" /\ Becomes(j, "running") /\ UNCHANGED <<reporting, client, link>>

\* succeed and fail from running, fail from queued.
Ended(j, outcome) ==
  /\ status[j] = "running" \/ (status[j] = "queued" /\ outcome = "failed")
  /\ Becomes(j, outcome)
  /\ UNCHANGED <<reporting, client, link>>

ProgressUpdates(j) ==
  /\ status[j] = "running" /\ j \notin reporting
  /\ lastSeq[j] < 2 + MaxProgress
  /\ reporting' = reporting \cup {j}
  /\ UNCHANGED <<status, log, lastSeq, client, link>>

ProgressAppends(j) ==
  /\ j \in reporting
  /\ reporting' = reporting \ {j}
  /\ Logged(j, "progress")
  /\ UNCHANGED <<status, client, link>>

-----------------------------------------------------------------------------
(* stream_events.                                                          *)

\* A cursor that means "from this event on".
EventsFromMutant(events, sent) ==
  LET older == CHOOSE n \in 0..Len(events) : \A i \in 1..Len(events) : events[i].id < sent <=> i <= n
  IN  SubSeq(events, older + 1, Len(events))

\* events_since: the ids of a log rise, and those beyond the cursor are its last.
EventsSince(events, sent) ==
  LET older == CHOOSE n \in 0..Len(events) : \A i \in 1..Len(events) : events[i].id <= sent <=> i <= n
  IN  SubSeq(events, older + 1, Len(events))

\* A generator that looks at the record before it replays.
GeneratorTurnsEarlyStopMutant ==
  LET batch == EventsSince(log[following], gen.sent)
      sent  == IF batch = <<>> THEN gen.sent ELSE batch[Len(batch)].id
  IN
  /\ gen.at \in {"awake", "asleep"} /\ Len(wire) <= MaxInFlight
  /\ IF status[following] \in Terminal
     THEN gen' = [gen EXCEPT !.at = "closed"] /\ UNCHANGED wire
     ELSE /\ gen' = [at |-> "asleep", sent |-> sent]
          /\ wire' = wire \o Append(batch, Event(sent, "heartbeat"))
  /\ UNCHANGED <<server, client, stream, following, lastId, attempt, failures>>

\* One turn: replay what the log holds beyond the cursor, then stop if a
\* terminal event was sent or the record is terminal, else send a heartbeat
\* with the cursor for its id and sleep.
GeneratorTurns ==
  LET batch == EventsSince(log[following], gen.sent)
      sent  == IF batch = <<>> THEN gen.sent ELSE batch[Len(batch)].id
  IN
  /\ gen.at \in {"awake", "asleep"} /\ Len(wire) <= MaxInFlight
  /\ IF status[following] \in Terminal \/ \E i \in 1..Len(batch) : batch[i].type \in Terminal
     THEN gen' = [at |-> "closed", sent |-> sent] /\ wire' = wire \o batch
     ELSE /\ gen' = [at |-> "asleep", sent |-> sent]
          /\ wire' = wire \o Append(batch, Event(sent, "heartbeat"))
  /\ UNCHANGED <<server, client, stream, following, lastId, attempt, failures>>

-----------------------------------------------------------------------------
(* reduceJobEvent.                                                         *)

\* A reducer without the terminal guard.
ReduceUnguardedMutant(v, type) ==
  IF type \in Terminal THEN [status |-> type, terminal |-> TRUE]
  ELSE IF type \in {"running", "progress"} THEN [v EXCEPT !.status = "running"]
  ELSE v

\* A terminal event always wins; running and progress mean running until then.
Reduce(v, type) ==
  IF type \in Terminal THEN [status |-> type, terminal |-> TRUE]
  ELSE IF type \in {"running", "progress"} /\ ~v.terminal THEN [v EXCEPT !.status = "running"]
  ELSE v

-----------------------------------------------------------------------------
(* createEventStream, run by the tab for the job it follows.                *)

Connects ==
  /\ stream = "connecting"
  /\ stream' = "reading"
  /\ attempt' = 0
  /\ gen' = [at |-> "awake", sent |-> lastId]
  /\ wire' = <<>>
  /\ UNCHANGED <<server, client, following, lastId, failures>>

\* The connection cannot be made, breaks, or goes quiet for too long; past the
\* last retry the job is polled once and the stream is over.
LinkFails ==
  /\ stream \in {"connecting", "reading"} /\ failures < MaxFailures
  /\ failures' = failures + 1
  /\ attempt' = attempt + 1
  /\ gen' = Gone /\ wire' = <<>>
  /\ IF attempt + 1 > MaxRetries
     THEN /\ stream' = "over"
          /\ replies' = replies \cup {[kind |-> "poll", job |-> following, answer |-> "none"]}
     ELSE stream' = "backoff" /\ UNCHANGED replies
  /\ UNCHANGED <<server, tab, view, following, lastId>>

BackoffEnds ==
  /\ stream = "backoff"
  /\ stream' = "connecting"
  /\ UNCHANGED <<server, client, following, lastId, attempt, wire, gen, failures>>

Reads ==
  /\ stream = "reading" /\ wire # <<>>
  /\ lastId' = Head(wire).id
  /\ view' = Reduce(view, Head(wire).type)
  /\ wire' = Tail(wire)
  /\ UNCHANGED <<server, tab, replies, stream, following, attempt, gen, failures>>

\* The response ended: the stream resolves, without a retry or a poll.
StreamEnds ==
  /\ stream = "reading" /\ wire = <<>> /\ gen.at = "closed"
  /\ stream' = "over" /\ gen' = Gone
  /\ UNCHANGED <<server, client, following, lastId, attempt, wire, failures>>

-----------------------------------------------------------------------------
(* The tab.                                                                *)

\* submit or openJob, of another job or of the same one again: the active job
\* and a fresh view are set; the stream of the old one goes on.
Opens(j) ==
  /\ status[j] # "new" /\ opens < MaxOpens
  /\ active' = j /\ view' = InitialView
  /\ pending' = TRUE /\ opens' = opens + 1
  /\ UNCHANGED <<server, replies, link>>

\* React runs the effect on the active job after a later render: its cleanup
\* aborts the old stream, its body starts a new one.  Requests on their way are
\* not aborted.
Effects ==
  /\ pending
  /\ pending' = FALSE
  /\ stream' = "connecting" /\ following' = active /\ lastId' = 0 /\ attempt' = 0
  /\ gen' = Gone /\ wire' = <<>>
  /\ UNCHANGED <<server, active, opens, view, replies, failures>>

AsksCancel ==
  /\ active # NoJob
  /\ replies' = replies \cup {[kind |-> "cancel", job |-> active, answer |-> "none"]}
  /\ UNCHANGED <<server, tab, view, link>>

\* The api answers a cancel of a job that has not ended; a terminal one gets a
\* 409, which the tab ignores.
CancelAnswered(r) ==
  /\ r.kind = "cancel" /\ r.answer = "none"
  /\ IF status[r.job] \in Terminal
     THEN replies' = replies \ {r} /\ UNCHANGED <<status, log, lastSeq>>
     ELSE /\ Becomes(r.job, "cancelled")
          /\ replies' = (replies \ {r}) \cup {[r EXCEPT !.answer = "cancelled"]}
  /\ UNCHANGED <<reporting, tab, view, link>>

\* The one GET of the fallback: it may fail as well.
PollAnswered(r) ==
  /\ r.kind = "poll" /\ r.answer = "none"
  /\ \/ /\ replies' = (replies \ {r}) \cup {[r EXCEPT !.answer = status[r.job]]}
        /\ UNCHANGED failures
     \/ /\ failures < MaxFailures
        /\ failures' = failures + 1
        /\ replies' = replies \ {r}
  /\ UNCHANGED <<server, tab, view, stream, following, lastId, attempt, wire, gen>>

\* The answer is folded into the view the tab has now.
ReplyArrives(r) ==
  /\ r.answer # "none"
  /\ view' = Reduce(view, r.answer)
  /\ replies' = replies \ {r}
  /\ UNCHANGED <<server, tab, link>>

-----------------------------------------------------------------------------
Init ==
  /\ status = [j \in Jobs |-> "new"]
  /\ log = [j \in Jobs |-> <<>>]
  /\ lastSeq = [j \in Jobs |-> 0]
  /\ reporting = {}
  /\ active = NoJob /\ view = InitialView /\ pending = FALSE /\ opens = 0
  /\ stream = "idle" /\ following = NoJob /\ lastId = 0 /\ attempt = 0
  /\ wire = <<>> /\ gen = Gone
  /\ replies = {} /\ failures = 0

ClientStep == Connects \/ BackoffEnds \/ Reads \/ StreamEnds

ReplyStep(r) == CancelAnswered(r) \/ PollAnswered(r) \/ ReplyArrives(r)

Next ==
  \/ \E j \in Jobs : Submitted(j) \/ Started(j) \/ ProgressUpdates(j) \/ ProgressAppends(j)
  \/ \E j \in Jobs, outcome \in {"succeeded", "failed"} : Ended(j, outcome)
  \/ GeneratorTurns
  \/ ClientStep \/ LinkFails
  \/ \E j \in Jobs : Opens(j)
  \/ Effects
  \/ AsksCancel
  \/ \E r \in replies : ReplyStep(r)

Spec == Init /\ [][Next]_vars

\* The generator wakes, the client connects and reads, React runs the effect,
\* every request is answered; what jobs, users and the network do is left open.
FairSpec ==
  /\ Spec
  /\ WF_vars(GeneratorTurns) /\ WF_vars(ClientStep) /\ WF_vars(Effects)
  /\ \A r \in Replies : WF_vars(r \in replies /\ ReplyStep(r))

-----------------------------------------------------------------------------
(* Properties.                                                             *)

\* A job that the tab shows as ended has ended so: late progress events, a
\* replay after a reconnect, a stale poll and the answer to a cancel leave the
\* view of the active job true ("never a faked local state").
ViewIsHonest == active # NoJob /\ view.terminal => view.status = status[active]

\* Last-Event-ID replay: whatever connections break, each event reaches the
\* view once, in order, and none is skipped but those the log had dropped.
NeitherLostNorRepeated ==
  [][wire # <<>> /\ wire' = Tail(wire) /\ Head(wire).type # "heartbeat" =>
       /\ Head(wire).id > lastId
       /\ \A id \in (lastId + 1)..(Head(wire).id - 1) :
            \A i \in 1..Len(log[following]) : log[following][i].id # id]_vars

\* The end of a job is shown, unless the stream has used up its retries.
TrackedEndIsShown ==
  active # NoJob /\ status[active] \in Terminal ~> view.terminal \/ attempt > MaxRetries

\* "The open events stream / poll fallback will still surface the terminal
\* state."
EndIsShown == active # NoJob /\ status[active] \in Terminal ~> view.terminal

=============================================================================
