--------------------------- MODULE JobTrackingProofs ---------------------------
(***************************************************************************)
(* What the tab is told of its job, for every number of jobs, log bound,   *)
(* retries and failures: the events that come over the stream are neither  *)
(* lost nor repeated, and what the view shows as ended has ended so,       *)
(* unless the answer to a request for another job, or an event of a stream *)
(* that the tab has turned from, is folded into it.                        *)
(***************************************************************************)
EXTENDS JobTracking, SequenceTheorems, TLAPS

-----------------------------------------------------------------------------
(* Logs, and what follows what on the wire.                                *)

EventTypes == {"queued", "running", "progress"} \cup Terminal
Events == [id : Nat, type : EventTypes]
Sent == [id : Nat, type : EventTypes \cup {"heartbeat"}]

\* The events of a log bear the last numbers of its counter.
Numbered(events, last) ==
  /\ Len(events) <= last
  /\ \A i \in 1..Len(events) : events[i].id = last - Len(events) + i

\* An event of the log is beyond the one before it with none of the log's
\* between them; a heartbeat repeats its number.
NextTo(prev, e, events) ==
  IF e.type = "heartbeat" THEN e.id = prev
  ELSE prev < e.id /\ \A k \in 1..Len(events) : ~(prev < events[k].id /\ events[k].id < e.id)

Before(w, p, i) == IF i = 1 THEN p ELSE w[i - 1].id

Chained(w, p, events) == \A i \in 1..Len(w) : NextTo(Before(w, p, i), w[i], events)

\* The number that the last event of w leaves, coming from p.
Left(w, p) == IF w = <<>> THEN p ELSE w[Len(w)].id

\* What is logged can be sent.
LEMMA EventsAreSent ==
  /\ Events \subseteq Sent /\ Seq(Events) \subseteq Seq(Sent)
  /\ \A e \in Events : e.type # "heartbeat"
<1>1. Events \subseteq Sent
  BY DEF Events, Sent
<1>2. \A e \in Events : e.type # "heartbeat"
  BY DEF Events, EventTypes, Terminal
<1> QED  BY <1>1, <1>2, SeqMonotonic

\* The events since a cursor are those of the log beyond it: the last of the
\* log, from the first whose number is higher than the cursor.
LEMMA SinceCursor ==
  ASSUME NEW events \in Seq(Events), NEW last \in Nat, Numbered(events, last), NEW sent \in Nat
  PROVE  /\ EventsSince(events, sent) \in Seq(Events)
         /\ \E n \in 0..Len(events) :
              /\ \A i \in 1..Len(events) : events[i].id <= sent <=> i <= n
              /\ Len(EventsSince(events, sent)) = Len(events) - n
              /\ \A k \in 1..(Len(events) - n) : EventsSince(events, sent)[k] = events[n + k]
<1> DEFINE Passed(n) == \A i \in 1..Len(events) : events[i].id <= sent <=> i <= n
           older == CHOOSE n \in 0..Len(events) : Passed(n)
<1>1. Len(events) \in Nat /\ Len(events) <= last
  BY DEF Numbered
<1>2. \A i \in 1..Len(events) : events[i].id = last - Len(events) + i
  BY DEF Numbered
<1>3. \E n \in 0..Len(events) : Passed(n)
  <2>1. CASE sent <= last - Len(events)
    <3>1. Passed(0)
      BY <1>1, <1>2, <2>1
    <3> QED  BY <1>1, <3>1
  <2>2. CASE sent >= last
    <3>1. Passed(Len(events))
      BY <1>1, <1>2, <2>2
    <3> QED  BY <1>1, <3>1
  <2>3. CASE last - Len(events) < sent /\ sent < last
    <3>1. sent - (last - Len(events)) \in 0..Len(events)
      BY <1>1, <2>3
    <3>2. ASSUME NEW i \in 1..Len(events)
          PROVE  events[i].id <= sent <=> i <= sent - (last - Len(events))
      <4>1. events[i].id = last - Len(events) + i
        BY <1>2
      <4> QED  BY <1>1, <4>1
    <3>3. Passed(sent - (last - Len(events)))
      BY <3>2
    <3> HIDE DEF Passed
    <3> QED  BY <3>1, <3>3
  <2>4. \/ sent <= last - Len(events) \/ sent >= last
        \/ last - Len(events) < sent /\ sent < last
    BY <1>1
  <2> HIDE DEF Passed
  <2> QED  BY <2>1, <2>2, <2>3, <2>4
<1>4. older \in 0..Len(events) /\ Passed(older)
  <2> HIDE DEF Passed
  <2> QED  BY <1>3
<1>5. EventsSince(events, sent) = SubSeq(events, older + 1, Len(events))
  BY DEF EventsSince
<1> HIDE DEF older
<1>6. /\ SubSeq(events, older + 1, Len(events)) \in Seq(Events)
      /\ Len(SubSeq(events, older + 1, Len(events))) = Len(events) - older
      /\ \A k \in 1..(Len(events) - older) :
           SubSeq(events, older + 1, Len(events))[k] = events[older + k]
  <2>1. \A i \in (older + 1)..Len(events) : events[i] \in Events
    BY <1>1, <1>4
  <2> QED  BY <1>1, <1>4, <2>1
<1> QED  BY <1>4, <1>5, <1>6

\* What is replayed follows the cursor, and leaves the cursor within the log.
LEMMA ReplayChained ==
  ASSUME NEW events \in Seq(Events), NEW last \in Nat, Numbered(events, last),
         NEW sent \in Nat, sent <= last
  PROVE  LET batch == EventsSince(events, sent) IN
         /\ batch \in Seq(Events)
         /\ Chained(batch, sent, events)
         /\ \A k \in 1..Len(batch) : batch[k].id <= last
         /\ \A k \in 1..Len(batch) : \E i \in 1..Len(events) : batch[k] = events[i]
<1> DEFINE batch == EventsSince(events, sent)
<1>1. batch \in Seq(Events)
  BY SinceCursor
<1>2. PICK n \in 0..Len(events) :
        /\ \A i \in 1..Len(events) : events[i].id <= sent <=> i <= n
        /\ Len(batch) = Len(events) - n
        /\ \A k \in 1..(Len(events) - n) : batch[k] = events[n + k]
  BY SinceCursor
<1> HIDE DEF batch
<1>3. Len(events) \in Nat /\ n \in Nat /\ n <= Len(events)
  OBVIOUS
<1>4. \A i \in 1..Len(events) : events[i].id = last - Len(events) + i
  BY DEF Numbered
<1>5. \A k \in 1..Len(batch) :
        n + k \in 1..Len(events) /\ batch[k] = events[n + k] /\ batch[k].id = last - Len(events) + n + k
  BY <1>2, <1>3, <1>4
<1>6. \A k \in 1..Len(batch) : batch[k].id <= last
  BY <1>2, <1>3, <1>5
<1>7. Chained(batch, sent, events)
  <2> SUFFICES ASSUME NEW k \in 1..Len(batch) PROVE NextTo(Before(batch, sent, k), batch[k], events)
    BY DEF Chained
  <2>1. batch[k].type # "heartbeat"
    BY <1>1, EventsAreSent
  <2>2. CASE k = 1
    <3>1. Before(batch, sent, k) = sent
      BY <2>2 DEF Before
    <3>2. batch[k] = events[n + 1] /\ n + 1 \in 1..Len(events)
      BY <1>5, <2>2
    <3>3. sent < batch[k].id
      BY <1>2, <1>3, <1>5, <3>2
    <3>4. \A i \in 1..Len(events) : sent < events[i].id => batch[k].id <= events[i].id
      BY <1>2, <1>3, <1>4, <1>5, <2>2
    <3>5. \A i \in 1..Len(events) : events[i].id \in Int
      BY <1>3, <1>4
    <3> QED  BY <1>3, <1>5, <2>1, <3>1, <3>3, <3>4, <3>5 DEF NextTo
  <2>3. CASE k # 1
    <3>1. k - 1 \in 1..Len(batch)
      BY <1>2, <1>3, <2>3
    <3>2. Before(batch, sent, k) = batch[k - 1].id
      BY <2>3 DEF Before
    <3>3. batch[k].id = last - Len(events) + n + k /\ batch[k - 1].id = last - Len(events) + n + k - 1
      BY <1>3, <1>5, <3>1
    <3>4. \A i \in 1..Len(events) : events[i].id \in Int
      BY <1>3, <1>4
    <3>5. last - Len(events) \in Int /\ n \in Int /\ k \in Int
      BY <1>3
    <3>6. batch[k - 1].id < batch[k].id
      BY <3>3, <3>5
    <3>7. ASSUME NEW i \in 1..Len(events) PROVE ~(batch[k - 1].id < events[i].id /\ events[i].id < batch[k].id)
      <4>1. events[i].id \in Int
        BY <3>4
      <4> QED  BY <3>3, <3>5, <4>1
    <3> QED  BY <2>1, <3>2, <3>6, <3>7 DEF NextTo
  <2> QED  BY <2>2, <2>3
<1>8. \A k \in 1..Len(batch) : \E i \in 1..Len(events) : batch[k] = events[i]
  BY <1>5
<1> QED  BY <1>1, <1>6, <1>7, <1>8 DEF batch

\* Sending more: what follows the last of w.
LEMMA ChainJoin ==
  ASSUME NEW w \in Seq(Sent), NEW v \in Seq(Sent), NEW p \in Nat, NEW events,
         Chained(w, p, events), Chained(v, Left(w, p), events)
  PROVE  /\ w \o v \in Seq(Sent)
         /\ Chained(w \o v, p, events)
         /\ Left(w \o v, p) = Left(v, Left(w, p))
<1> DEFINE all == w \o v
<1>1. /\ all \in Seq(Sent) /\ Len(all) = Len(w) + Len(v) /\ Len(w) \in Nat /\ Len(v) \in Nat
      /\ \A i \in 1..Len(w) : all[i] = w[i]
      /\ \A i \in 1..Len(v) : all[Len(w) + i] = v[i]
  BY ConcatProperties
<1>2. (w = <<>> <=> Len(w) = 0) /\ (v = <<>> <=> Len(v) = 0) /\ (all = <<>> <=> Len(all) = 0)
  BY <1>1, EmptySeq
<1> HIDE DEF all
<1>3. Chained(all, p, events)
  <2> SUFFICES ASSUME NEW i \in 1..Len(all) PROVE NextTo(Before(all, p, i), all[i], events)
    BY DEF Chained
  <2>1. CASE i <= Len(w)
    <3>0. i \in 1..Len(w)
      BY <1>1, <2>1
    <3>1. i \in 1..Len(w) /\ all[i] = w[i]
      BY <1>1, <3>0
    <3>2. Before(all, p, i) = Before(w, p, i)
      <4>1. CASE i = 1
        BY <4>1 DEF Before
      <4>2. CASE i # 1
        <5>0. i - 1 \in 1..Len(w)
          BY <3>0, <4>2
        <5>1. i - 1 \in 1..Len(w) /\ all[i - 1] = w[i - 1]
          BY <1>1, <5>0
        <5> QED  BY <4>2, <5>1 DEF Before
      <4> QED  BY <4>1, <4>2
    <3> QED  BY <3>1, <3>2 DEF Chained
  <2>2. CASE i > Len(w)
    <3>0. i - Len(w) \in 1..Len(v)
      BY <1>1, <2>2
    <3>1. PICK k \in 1..Len(v) : k = i - Len(w)
      BY <3>0
    <3>2. all[i] = v[k]
      <4>1. i = Len(w) + k
        BY <1>1, <3>1
      <4> QED  BY <1>1, <4>1
    <3>3. Before(all, p, i) = Before(v, Left(w, p), k)
      <4>1. CASE k = 1 /\ Len(w) = 0
        BY <1>1, <1>2, <3>1, <4>1 DEF Before, Left
      <4>2. CASE k = 1 /\ Len(w) # 0
        <5>2. i - 1 = Len(w) /\ Len(w) \in 1..Len(w) /\ w # <<>>
          BY <1>1, <1>2, <3>1, <4>2
        <5>3. all[Len(w)] = w[Len(w)]
          BY <1>1, <5>2
        <5>1. i # 1 /\ i - 1 = Len(w) /\ all[i - 1] = w[Len(w)] /\ w # <<>>
          BY <4>2, <5>2, <5>3
        <5> QED  BY <4>2, <5>1 DEF Before, Left
      <4>3. CASE k # 1
        <5>1. i # 1 /\ k - 1 \in 1..Len(v) /\ i - 1 = Len(w) + (k - 1)
          BY <1>1, <3>1, <4>3
        <5>2. all[i - 1] = v[k - 1]
          BY <1>1, <5>1
        <5> QED  BY <4>3, <5>1, <5>2 DEF Before
      <4> QED  BY <4>1, <4>2, <4>3
    <3> QED  BY <3>2, <3>3 DEF Chained
  <2> QED  BY <1>1, <2>1, <2>2
<1>4. Left(all, p) = Left(v, Left(w, p))
  <2>1. CASE Len(v) = 0
    <3>1. CASE Len(w) = 0
      BY <1>1, <1>2, <2>1, <3>1 DEF Left
    <3>2. CASE Len(w) # 0
      <4>1. Len(all) = Len(w) /\ all[Len(w)] = w[Len(w)] /\ w # <<>> /\ all # <<>> /\ v = <<>>
        BY <1>1, <1>2, <2>1, <3>2
      <4> QED  BY <4>1 DEF Left
    <3> QED  BY <3>1, <3>2
  <2>2. CASE Len(v) # 0
    <3>1. all[Len(all)] = v[Len(v)] /\ v # <<>> /\ all # <<>>
      BY <1>1, <1>2, <2>2
    <3> QED  BY <3>1 DEF Left
  <2> QED  BY <2>1, <2>2
<1> QED  BY <1>1, <1>3, <1>4 DEF all

\* Reading the first: the rest follows it.
LEMMA ChainRest ==
  ASSUME NEW w \in Seq(Sent), w # <<>>, NEW p \in Nat, NEW events, Chained(w, p, events)
  PROVE  /\ NextTo(p, Head(w), events)
         /\ Chained(Tail(w), Head(w).id, events)
         /\ Left(Tail(w), Head(w).id) = Left(w, p)
<1> DEFINE rest == Tail(w)
           first == Head(w)
<1>1. /\ rest \in Seq(Sent) /\ Len(w) = Len(rest) + 1 /\ Len(rest) \in Nat /\ w[1] = first
      /\ \A i \in 1..Len(rest) : rest[i] = w[i + 1]
  BY HeadTailProperties
<1>2. rest = <<>> <=> Len(rest) = 0
  BY <1>1, EmptySeq
<1> HIDE DEF rest, first
<1>3. NextTo(p, first, events)
  <2>1. 1 \in 1..Len(w) /\ Before(w, p, 1) = p
    BY <1>1 DEF Before
  <2> QED  BY <1>1, <2>1 DEF Chained
<1>4. Chained(rest, first.id, events)
  <2> SUFFICES ASSUME NEW i \in 1..Len(rest) PROVE NextTo(Before(rest, first.id, i), rest[i], events)
    BY DEF Chained
  <2>1. i + 1 \in 1..Len(w) /\ rest[i] = w[i + 1]
    BY <1>1
  <2>2. Before(rest, first.id, i) = Before(w, p, i + 1)
    <3>1. CASE i = 1
      BY <1>1, <3>1 DEF Before
    <3>2. CASE i # 1
      <4>1. i - 1 \in 1..Len(rest) /\ rest[i - 1] = w[(i - 1) + 1] /\ (i - 1) + 1 = (i + 1) - 1
        BY <1>1, <3>2
      <4> QED  BY <3>2, <4>1 DEF Before
    <3> QED  BY <3>1, <3>2
  <2> QED  BY <2>1, <2>2 DEF Chained
<1>5. Left(rest, first.id) = Left(w, p)
  <2>1. CASE Len(rest) = 0
    BY <1>1, <1>2, <2>1 DEF Left
  <2>2. CASE Len(rest) # 0
    <3>1. rest[Len(rest)] = w[Len(w)] /\ rest # <<>>
      BY <1>1, <1>2, <2>2
    <3> QED  BY <3>1 DEF Left
  <2> QED  BY <2>1, <2>2
<1> QED  BY <1>3, <1>4, <1>5 DEF rest, first

\* A log that grows beyond what was sent, and forgets, breaks no chain.
LEMMA ChainLasts ==
  ASSUME NEW w \in Seq(Sent), NEW p \in Nat, NEW last \in Nat,
         NEW events \in Seq(Events), NEW later \in Seq(Events),
         Chained(w, p, events),
         \A i \in 1..Len(w) : w[i].id <= last,
         \A k \in 1..Len(later) :
           later[k].id > last \/ \E i \in 1..Len(events) : later[k] = events[i]
  PROVE  Chained(w, p, later)
<1> SUFFICES ASSUME NEW i \in 1..Len(w) PROVE NextTo(Before(w, p, i), w[i], later)
  BY DEF Chained
<1>1. NextTo(Before(w, p, i), w[i], events)
  BY DEF Chained
<1>2. w[i] \in Sent
  OBVIOUS
<1>3. w[i].id \in Nat /\ w[i].id <= last
  BY <1>2 DEF Sent
<1>4. CASE w[i].type = "heartbeat"
  BY <1>1, <1>4 DEF NextTo
<1>5. CASE w[i].type # "heartbeat"
  <2>1. /\ Before(w, p, i) < w[i].id
        /\ \A k \in 1..Len(events) : ~(Before(w, p, i) < events[k].id /\ events[k].id < w[i].id)
    BY <1>1, <1>5 DEF NextTo
  <2>2. ASSUME NEW k \in 1..Len(later)
        PROVE  ~(Before(w, p, i) < later[k].id /\ later[k].id < w[i].id)
    <3>1. later[k].id \in Nat
      <4>1. later[k] \in Events
        OBVIOUS
      <4> QED  BY <4>1 DEF Events
    <3>2. CASE later[k].id > last
      BY <1>3, <3>1, <3>2
    <3>3. CASE \E m \in 1..Len(events) : later[k] = events[m]
      BY <2>1, <3>3
    <3> QED  BY <3>2, <3>3
  <2> QED  BY <1>5, <2>1, <2>2 DEF NextTo
<1> QED  BY <1>4, <1>5

-----------------------------------------------------------------------------
(* The types, and who is attached to what.                                 *)

ServerOK ==
  /\ status \in [Jobs -> Statuses]
  /\ log \in [Jobs -> Seq(Events)]
  /\ lastSeq \in [Jobs -> Nat]
  /\ reporting \subseteq Jobs

LinkOK ==
  /\ stream \in {"idle", "connecting", "reading", "backoff", "over"}
  /\ following \in Jobs \cup {NoJob}
  /\ lastId \in Nat
  /\ wire \in Seq(Sent)
  /\ gen \in [at : {"gone", "awake", "asleep", "closed"}, sent : Nat]

ClientOK ==
  /\ active \in Jobs \cup {NoJob}
  /\ pending \in BOOLEAN
  /\ view \in [status : Statuses, terminal : BOOLEAN]
  /\ replies \subseteq Replies

\* A generator runs exactly while the tab reads, and only then is something on
\* the wire; without an active job nothing is open, and the job followed is the
\* active one but for an effect that has still to run.
Attached ==
  /\ gen.at # "gone" <=> stream = "reading"
  /\ stream # "reading" => wire = <<>>
  /\ active = NoJob => ~pending /\ replies = {} /\ ~view.terminal
  /\ ~pending => following = active
  /\ following = NoJob <=> stream = "idle"

TypeOK == ServerOK /\ LinkOK /\ ClientOK /\ Attached

\* The log of a job ends with the job.
LogOK ==
  \A j \in Jobs :
    /\ Numbered(log[j], lastSeq[j])
    /\ \A i \in 1..Len(log[j]) : log[j][i].type \in Terminal => status[j] = log[j][i].type

-----------------------------------------------------------------------------
(* The jobs.                                                               *)

ActiveTypes == {"queued", "running"} \cup Terminal

\* Every change of a record comes with its event, and no record that has ended
\* changes; a progress event comes alone.
JobMoves ==
  \E j \in Jobs :
    \/ status[j] \notin Terminal /\ \E to \in ActiveTypes : Becomes(j, to)
    \/ status' = status /\ Logged(j, "progress")

\* What a step does to the jobs.
LEMMA NextByJobs ==
  ASSUME ServerOK, ClientOK, [Next]_vars
  PROVE  JobMoves \/ UNCHANGED <<status, log, lastSeq>>
<1>1. ASSUME NEW j \in Jobs, Submitted(j) \/ Started(j) PROVE JobMoves
  <2>1. status[j] \notin Terminal /\ (Becomes(j, "queued") \/ Becomes(j, "running"))
    BY <1>1 DEF Submitted, Started, Terminal
  <2> QED  BY <2>1 DEF JobMoves, ActiveTypes
<1>2. ASSUME NEW j \in Jobs, NEW outcome \in {"succeeded", "failed"}, Ended(j, outcome)
      PROVE  JobMoves
  <2>1. status[j] \notin Terminal /\ Becomes(j, outcome) /\ outcome \in ActiveTypes
    BY <1>2 DEF Ended, Terminal, ActiveTypes
  <2> QED  BY <2>1 DEF JobMoves
<1>3. ASSUME NEW j \in Jobs, ProgressAppends(j) PROVE JobMoves
  BY <1>3 DEF ProgressAppends, JobMoves
<1>4. ASSUME NEW r \in replies, CancelAnswered(r)
      PROVE  JobMoves \/ UNCHANGED <<status, log, lastSeq>>
  <2>1. r.job \in Jobs
    BY DEF ClientOK, Replies
  <2>2. CASE status[r.job] \in Terminal
    BY <1>4, <2>2 DEF CancelAnswered
  <2>3. CASE status[r.job] \notin Terminal
    <3>1. Becomes(r.job, "cancelled") /\ "cancelled" \in ActiveTypes
      BY <1>4, <2>3 DEF CancelAnswered, ActiveTypes, Terminal
    <3> QED  BY <2>1, <2>3, <3>1 DEF JobMoves
  <2> QED  BY <2>2, <2>3
<1>5. CASE \/ \E j \in Jobs : ProgressUpdates(j) \/ Opens(j)
           \/ GeneratorTurns \/ ClientStep \/ LinkFails \/ Effects \/ AsksCancel
           \/ \E r \in replies : PollAnswered(r) \/ ReplyArrives(r)
  BY <1>5 DEF ProgressUpdates, Opens, Effects, GeneratorTurns, ClientStep, Connects, BackoffEnds, Reads,
     StreamEnds, LinkFails, AsksCancel, PollAnswered, ReplyArrives, server
<1>6. CASE UNCHANGED vars
  BY <1>6 DEF vars, server
<1> QED  BY <1>1, <1>2, <1>3, <1>4, <1>5, <1>6 DEF Next, ReplyStep

\* append_event: the log stays numbered, and what is new in it is the event.
LEMMA LoggedKeeps ==
  ASSUME ServerOK, LogOK, NEW j \in Jobs, NEW type \in EventTypes, Logged(j, type)
  PROVE  /\ log' \in [Jobs -> Seq(Events)] /\ lastSeq' \in [Jobs -> Nat]
         /\ Numbered(log'[j], lastSeq'[j])
         /\ lastSeq'[j] = lastSeq[j] + 1
         /\ \A i \in 1..Len(log'[j]) :
              \/ log'[j][i] = Event(lastSeq[j] + 1, type)
              \/ \E k \in 1..Len(log[j]) : log'[j][i] = log[j][k]
         /\ \A d \in Jobs \ {j} : log'[d] = log[d] /\ lastSeq'[d] = lastSeq[d]
<1> DEFINE e == Event(lastSeq[j] + 1, type)
           old == log[j]
           new == Append(old, e)
           kept == IF Len(new) > LogBound THEN Tail(new) ELSE new
<1>1. /\ old \in Seq(Events) /\ lastSeq[j] \in Nat /\ Numbered(old, lastSeq[j])
  BY DEF ServerOK, LogOK
<1>2. e \in Events /\ e.id = lastSeq[j] + 1
  BY <1>1 DEF Event, Events
<1>3. log' = [log EXCEPT ![j] = kept] /\ lastSeq' = [lastSeq EXCEPT ![j] = @ + 1]
  BY DEF Logged
<1> HIDE DEF e
<1>4. /\ new \in Seq(Events) /\ Len(new) = Len(old) + 1 /\ Len(old) \in Nat /\ new # <<>>
      /\ \A i \in 1..Len(old) : new[i] = old[i]
      /\ new[Len(old) + 1] = e
  BY <1>1, <1>2, AppendProperties
<1>5. Len(old) <= lastSeq[j] /\ \A i \in 1..Len(old) : old[i].id = lastSeq[j] - Len(old) + i
  BY <1>1 DEF Numbered
<1> HIDE DEF new
<1>6. \A i \in 1..Len(new) : /\ new[i].id = lastSeq[j] - Len(old) + i
                             /\ new[i] = e \/ \E k \in 1..Len(old) : new[i] = old[k]
  <2> TAKE i \in 1..Len(new)
  <2>1. CASE i = Len(old) + 1
    BY <1>1, <1>2, <1>4, <2>1
  <2>2. CASE i \in 1..Len(old)
    BY <1>4, <1>5, <2>2
  <2> QED  BY <1>4, <2>1, <2>2
<1>7. /\ kept \in Seq(Events) /\ Numbered(kept, lastSeq[j] + 1)
      /\ \A i \in 1..Len(kept) : kept[i] = e \/ \E k \in 1..Len(old) : kept[i] = old[k]
  <2>1. CASE Len(new) > LogBound
    <3> DEFINE rest == Tail(new)
    <3>1. /\ rest \in Seq(Events) /\ Len(rest) = Len(old) /\ \A i \in 1..Len(rest) : rest[i] = new[i + 1]
      BY <1>4, HeadTailProperties
    <3>2. kept = rest
      BY <2>1
    <3> HIDE DEF rest, kept
    <3>3. \A i \in 1..Len(rest) :
            i + 1 \in 1..Len(new) /\ rest[i] = new[i + 1] /\ rest[i].id = lastSeq[j] + 1 - Len(rest) + i
      <4> TAKE i \in 1..Len(rest)
      <4>1. i + 1 \in 1..Len(new)
        BY <1>4, <3>1
      <4>2. new[i + 1].id = lastSeq[j] - Len(old) + (i + 1)
        BY <1>6, <4>1
      <4>3. rest[i] = new[i + 1]
        BY <3>1
      <4>4. lastSeq[j] - Len(old) + (i + 1) = lastSeq[j] + 1 - Len(rest) + i
        <5>1. Len(rest) = Len(old) /\ Len(old) \in Int /\ lastSeq[j] \in Int /\ i \in Int
          BY <1>1, <1>4, <3>1
        <5> QED  BY <5>1
      <4> QED  BY <4>1, <4>2, <4>3, <4>4
    <3>4. Numbered(rest, lastSeq[j] + 1)
      BY <1>1, <1>4, <1>5, <3>1, <3>3 DEF Numbered
    <3> QED  BY <1>6, <3>1, <3>2, <3>3, <3>4
  <2>2. CASE ~(Len(new) > LogBound)
    <3>1. kept = new
      BY <2>2
    <3> HIDE DEF kept
    <3>2. \A i \in 1..Len(new) : new[i].id = lastSeq[j] + 1 - Len(new) + i
      BY <1>1, <1>4, <1>6
    <3>3. Numbered(new, lastSeq[j] + 1)
      BY <1>1, <1>4, <1>5, <3>2 DEF Numbered
    <3> QED  BY <1>4, <1>6, <3>1, <3>3
  <2> QED  BY <2>1, <2>2
<1> HIDE DEF kept, old
<1>8. log'[j] = kept /\ lastSeq'[j] = lastSeq[j] + 1
  BY <1>3 DEF ServerOK
<1>9. log' \in [Jobs -> Seq(Events)] /\ lastSeq' \in [Jobs -> Nat]
  BY <1>1, <1>3, <1>7 DEF ServerOK
<1>10. \A d \in Jobs \ {j} : log'[d] = log[d] /\ lastSeq'[d] = lastSeq[d]
  BY <1>3 DEF ServerOK
<1> QED  BY <1>7, <1>8, <1>9, <1>10 DEF e, old

\* Jobs only go on: a log gains events with higher numbers and forgets old ones,
\* and a record that has ended stays as it is.
GoesOn(j) ==
  /\ lastSeq[j] <= lastSeq'[j]
  /\ \A i \in 1..Len(log'[j]) :
       \/ log'[j][i].id > lastSeq[j]
       \/ \E k \in 1..Len(log[j]) : log'[j][i] = log[j][k]
  /\ status[j] \in Terminal => status'[j] = status[j]

\* Every step keeps the records and the logs in order, and every job goes on.
LEMMA JobsGoOn ==
  ASSUME ServerOK, ClientOK, LogOK, [Next]_vars
  PROVE  /\ status' \in [Jobs -> Statuses] /\ log' \in [Jobs -> Seq(Events)]
         /\ lastSeq' \in [Jobs -> Nat]
         /\ LogOK'
         /\ \A j \in Jobs : GoesOn(j)
<1> DEFINE Ends(j) == \A i \in 1..Len(log[j]) :
                        log[j][i].type \in Terminal => status[j] = log[j][i].type
           Ends1(j) == \A i \in 1..Len(log'[j]) :
                        log'[j][i].type \in Terminal => status'[j] = log'[j][i].type
<1>0. \A d \in Jobs : Numbered(log[d], lastSeq[d]) /\ Ends(d) /\ lastSeq[d] \in Nat
  BY DEF LogOK, ServerOK
<1>1. CASE UNCHANGED <<status, log, lastSeq>>
  <2>1. LogOK'
    BY <1>1 DEF LogOK
  <2>2. \A j \in Jobs : GoesOn(j)
    BY <1>0, <1>1 DEF GoesOn
  <2> QED  BY <1>1, <2>1, <2>2 DEF ServerOK
<1>2. ASSUME NEW j \in Jobs, NEW type \in EventTypes, Logged(j, type),
             status' \in [Jobs -> Statuses],
             \A d \in Jobs \ {j} : status'[d] = status[d],
             \/ status'[j] = status[j] /\ type \notin Terminal
             \/ status'[j] = type /\ status[j] \notin Terminal
      PROVE  /\ log' \in [Jobs -> Seq(Events)] /\ lastSeq' \in [Jobs -> Nat]
             /\ LogOK'
             /\ \A d \in Jobs : GoesOn(d)
  <2>1. /\ log' \in [Jobs -> Seq(Events)] /\ lastSeq' \in [Jobs -> Nat]
        /\ Numbered(log'[j], lastSeq'[j])
        /\ lastSeq'[j] = lastSeq[j] + 1
        /\ \A i \in 1..Len(log'[j]) :
             \/ log'[j][i] = Event(lastSeq[j] + 1, type)
             \/ \E k \in 1..Len(log[j]) : log'[j][i] = log[j][k]
        /\ \A d \in Jobs \ {j} : log'[d] = log[d] /\ lastSeq'[d] = lastSeq[d]
    BY <1>2, LoggedKeeps
  <2>2. Event(lastSeq[j] + 1, type).id = lastSeq[j] + 1 /\ Event(lastSeq[j] + 1, type).type = type
    BY DEF Event
  <2>3. Ends1(j)
    <3> SUFFICES ASSUME NEW i \in 1..Len(log'[j]), log'[j][i].type \in Terminal
                 PROVE  status'[j] = log'[j][i].type
      OBVIOUS
    <3>1. CASE log'[j][i] = Event(lastSeq[j] + 1, type)
      BY <1>2, <2>2, <3>1
    <3>2. ASSUME NEW k \in 1..Len(log[j]), log'[j][i] = log[j][k]
          PROVE  status'[j] = log'[j][i].type
      <4>1. status[j] = log'[j][i].type
        BY <1>0, <3>2
      <4> QED  BY <1>2, <4>1
    <3> QED  BY <2>1, <3>1, <3>2
  <2>4. GoesOn(j)
    <3>1. lastSeq[j] <= lastSeq'[j] /\ lastSeq[j] + 1 > lastSeq[j]
      BY <1>0, <2>1
    <3>2. status[j] \in Terminal => status'[j] = status[j]
      BY <1>2
    <3> QED  BY <2>1, <2>2, <3>1, <3>2 DEF GoesOn
  <2>5. ASSUME NEW d \in Jobs, d # j PROVE GoesOn(d) /\ Numbered(log'[d], lastSeq'[d]) /\ Ends1(d)
    <3>1. log'[d] = log[d] /\ lastSeq'[d] = lastSeq[d] /\ status'[d] = status[d]
      BY <1>2, <2>1, <2>5
    <3>2. lastSeq[d] <= lastSeq[d]
      BY <1>0
    <3> QED  BY <1>0, <3>1, <3>2 DEF GoesOn
  <2>6. LogOK'
    <3>1. \A d \in Jobs : Numbered(log'[d], lastSeq'[d]) /\ Ends1(d)
      BY <2>1, <2>3, <2>5
    <3> QED  BY <3>1 DEF LogOK
  <2> QED  BY <2>1, <2>4, <2>5, <2>6
<1>3. ASSUME NEW j \in Jobs, status[j] \notin Terminal, NEW to \in ActiveTypes, Becomes(j, to)
      PROVE  /\ status' \in [Jobs -> Statuses] /\ log' \in [Jobs -> Seq(Events)]
             /\ lastSeq' \in [Jobs -> Nat] /\ LogOK' /\ \A d \in Jobs : GoesOn(d)
  <2>1. to \in EventTypes /\ to \in Statuses
    BY DEF ActiveTypes, EventTypes, Statuses
  <2>2. /\ status' \in [Jobs -> Statuses] /\ status'[j] = to
        /\ \A d \in Jobs \ {j} : status'[d] = status[d]
    BY <1>3, <2>1 DEF Becomes, ServerOK
  <2>3. Logged(j, to)
    BY <1>3 DEF Becomes
  <2> QED  BY <1>2, <1>3, <2>1, <2>2, <2>3
<1>4. ASSUME NEW j \in Jobs, status' = status, Logged(j, "progress")
      PROVE  /\ status' \in [Jobs -> Statuses] /\ log' \in [Jobs -> Seq(Events)]
             /\ lastSeq' \in [Jobs -> Nat] /\ LogOK' /\ \A d \in Jobs : GoesOn(d)
  <2>1. "progress" \in EventTypes /\ "progress" \notin Terminal
    BY DEF EventTypes, Terminal
  <2>2. status' \in [Jobs -> Statuses]
    BY <1>4 DEF ServerOK
  <2> QED  BY <1>2, <1>4, <2>1, <2>2
<1> QED  BY <1>1, <1>3, <1>4, NextByJobs DEF JobMoves

-----------------------------------------------------------------------------
(* The stream.                                                             *)

\* What a turn of the generator sends: what follows the cursor, each event from
\* the log, and no number beyond the log's last.
LEMMA TurnSends ==
  ASSUME TypeOK, LogOK, GeneratorTurns, following \in Jobs, gen.sent <= lastSeq[following]
  PROVE  \E v \in Seq(Sent) :
           /\ wire' = wire \o v
           /\ Chained(v, gen.sent, log[following])
           /\ gen'.sent = Left(v, gen.sent)
           /\ \A i \in 1..Len(v) :
                /\ v[i].id <= lastSeq[following]
                /\ v[i].type \in Terminal => status[following] = v[i].type
<1> DEFINE events == log[following]
           last == lastSeq[following]
           batch == EventsSince(events, gen.sent)
           sent == IF batch = <<>> THEN gen.sent ELSE batch[Len(batch)].id
           beat == Event(sent, "heartbeat")
           Good(v) == \A i \in 1..Len(v) :
                        /\ v[i].id <= last
                        /\ v[i].type \in Terminal => status[following] = v[i].type
<1>1. /\ events \in Seq(Events) /\ last \in Nat /\ Numbered(events, last) /\ gen.sent \in Nat
      /\ \A i \in 1..Len(events) : events[i].type \in Terminal => status[following] = events[i].type
  <2>1. events \in Seq(Events) /\ last \in Nat
    BY DEF TypeOK, ServerOK
  <2>2. gen.sent \in Nat
    BY DEF TypeOK, LinkOK
  <2>3. /\ Numbered(events, last)
        /\ \A i \in 1..Len(events) : events[i].type \in Terminal => status[following] = events[i].type
    BY DEF LogOK
  <2> QED  BY <2>1, <2>2, <2>3
<1>2. /\ batch \in Seq(Events)
      /\ Chained(batch, gen.sent, events)
      /\ \A k \in 1..Len(batch) : batch[k].id <= last
      /\ \A k \in 1..Len(batch) : \E i \in 1..Len(events) : batch[k] = events[i]
  BY <1>1, ReplayChained
<1>3. batch \in Seq(Sent) /\ Good(batch)
  BY <1>1, <1>2, EventsAreSent
<1>4. \/ gen' = [at |-> "closed", sent |-> sent] /\ wire' = wire \o batch
      \/ gen' = [at |-> "asleep", sent |-> sent] /\ wire' = wire \o Append(batch, beat)
  BY DEF GeneratorTurns
<1>5. gen'.sent = sent
  BY <1>4
<1>6. sent = Left(batch, gen.sent)
  BY DEF Left
<1> HIDE DEF batch
<1>7. sent \in Nat /\ sent <= last
  <2>1. CASE batch = <<>>
    BY <1>1, <2>1
  <2>2. CASE batch # <<>>
    <3>1. Len(batch) \in 1..Len(batch) /\ batch[Len(batch)] \in Events
      BY <1>2, <2>2, EmptySeq
    <3> QED  BY <1>2, <2>2, <3>1 DEF Events
  <2> QED  BY <2>1, <2>2
<1> HIDE DEF sent
<1>8. beat \in Sent /\ beat.id = sent /\ beat.type = "heartbeat" /\ "heartbeat" \notin Terminal
  BY <1>7 DEF Event, Sent, Terminal
<1> HIDE DEF beat
<1>9. CASE wire' = wire \o batch
  BY <1>2, <1>3, <1>5, <1>6, <1>9
<1>10. CASE wire' = wire \o Append(batch, beat)
  <2> DEFINE one == <<beat>>
  <2>1. one \in Seq(Sent) /\ Len(one) = 1 /\ one[1] = beat /\ one # <<>>
    BY <1>8
  <2>2. Append(batch, beat) = batch \o one
    BY <1>3, <1>8, AppendIsConcat
  <2> HIDE DEF one
  <2>3. Chained(one, sent, events)
    <3>1. \A i \in 1..Len(one) : i = 1
      BY <2>1
    <3> QED  BY <1>8, <2>1, <3>1 DEF Chained, NextTo, Before
  <2>4. Left(one, sent) = sent
    BY <1>8, <2>1 DEF Left
  <2> DEFINE v == batch \o one
  <2>5. v \in Seq(Sent) /\ Chained(v, gen.sent, events) /\ Left(v, gen.sent) = sent
    BY <1>1, <1>2, <1>3, <1>6, <2>1, <2>3, <2>4, ChainJoin
  <2>6. /\ Len(v) = Len(batch) + 1 /\ Len(batch) \in Nat
        /\ \A i \in 1..Len(batch) : v[i] = batch[i]
        /\ v[Len(batch) + 1] = beat
    BY <1>3, <2>1, ConcatProperties
  <2> HIDE DEF v
  <2>7. Good(v)
    <3> SUFFICES ASSUME NEW i \in 1..Len(v)
                 PROVE  /\ v[i].id <= last
                        /\ v[i].type \in Terminal => status[following] = v[i].type
      OBVIOUS
    <3>1. CASE i \in 1..Len(batch)
      BY <1>3, <2>6, <3>1
    <3>2. CASE i = Len(batch) + 1
      BY <1>7, <1>8, <2>6, <3>2
    <3> QED  BY <2>6, <3>1, <3>2
  <2> QED  BY <1>5, <1>10, <2>2, <2>5, <2>7 DEF v
<1> QED  BY <1>4, <1>9, <1>10

\* What the client has read, what is on the wire and the generator's cursor
\* follow one another through the log of the followed job.
Replayed ==
  following # NoJob =>
    /\ Chained(wire, lastId, log[following])
    /\ gen.at # "gone" => gen.sent = Left(wire, lastId)
    /\ lastId <= lastSeq[following]
    /\ \A i \in 1..Len(wire) : wire[i].id <= lastSeq[following]

\* A generator serves the followed job, and its cursor is within that job's log.
LEMMA CursorInLog ==
  ASSUME TypeOK, Replayed, gen.at # "gone"
  PROVE  following \in Jobs /\ gen.sent = Left(wire, lastId) /\ gen.sent <= lastSeq[following]
<1>1. following \in Jobs /\ following # NoJob
  BY DEF TypeOK, LinkOK, Attached
<1>2. gen.sent = Left(wire, lastId) /\ lastId <= lastSeq[following]
  BY <1>1 DEF Replayed
<1>3. wire \in Seq(Sent)
  BY DEF TypeOK, LinkOK
<1>4. Left(wire, lastId) <= lastSeq[following]
  <2>1. CASE wire = <<>>
    BY <1>2, <2>1 DEF Left
  <2>2. CASE wire # <<>>
    <3>1. Len(wire) \in 1..Len(wire)
      BY <1>3, <2>2, EmptySeq
    <3> QED  BY <1>1, <2>2, <3>1 DEF Left, Replayed
  <2> QED  BY <2>1, <2>2
<1> QED  BY <1>1, <1>2, <1>4

\* What a step does to the connection and to what it serves.
LEMMA NextByLink ==
  ASSUME [Next]_vars
  PROVE  \/ UNCHANGED <<following, wire, lastId, gen>>
         \/ GeneratorTurns \/ Connects \/ LinkFails \/ Reads \/ StreamEnds \/ Effects
<1>1. ASSUME NEW j \in Jobs, Submitted(j) \/ Started(j) \/ ProgressUpdates(j) \/ ProgressAppends(j)
      PROVE  UNCHANGED <<following, wire, lastId, gen>>
  BY <1>1 DEF Submitted, Started, ProgressUpdates, ProgressAppends, client, link
<1>2. ASSUME NEW j \in Jobs, NEW outcome \in {"succeeded", "failed"}, Ended(j, outcome)
      PROVE  UNCHANGED <<following, wire, lastId, gen>>
  BY <1>2 DEF Ended, client, link
<1>3. CASE BackoffEnds \/ AsksCancel \/ \E j \in Jobs : Opens(j)
  BY <1>3 DEF BackoffEnds, AsksCancel, Opens, link
<1>4. ASSUME NEW r \in replies, ReplyStep(r) PROVE UNCHANGED <<following, wire, lastId, gen>>
  BY <1>4 DEF ReplyStep, CancelAnswered, PollAnswered, ReplyArrives, link
<1>5. CASE UNCHANGED vars
  BY <1>5 DEF vars, client, link
<1> QED  BY <1>1, <1>2, <1>3, <1>4, <1>5 DEF Next, ClientStep

\* What follows stays in order, whatever the jobs, the network and the tab do.
LEMMA ReplayedStep ==
  ASSUME TypeOK, LogOK, Replayed, [Next]_vars
  PROVE  Replayed'
<1>1. /\ lastSeq' \in [Jobs -> Nat] /\ log' \in [Jobs -> Seq(Events)]
      /\ \A j \in Jobs : GoesOn(j)
  BY JobsGoOn DEF TypeOK
<1>2. wire \in Seq(Sent) /\ lastId \in Nat /\ following \in Jobs \cup {NoJob}
  BY DEF TypeOK, LinkOK, ClientOK
<1>3. \A j \in Jobs : lastSeq[j] \in Nat /\ log[j] \in Seq(Events)
  BY DEF TypeOK, ServerOK
<1>4. CASE UNCHANGED <<following, wire, lastId, gen>>
  <2> SUFFICES ASSUME following # NoJob
               PROVE  /\ Chained(wire, lastId, log'[following])
                      /\ gen.at # "gone" => gen.sent = Left(wire, lastId)
                      /\ lastId <= lastSeq'[following]
                      /\ \A i \in 1..Len(wire) : wire[i].id <= lastSeq'[following]
    BY <1>4 DEF Replayed
  <2>1. following \in Jobs
    BY <1>2
  <2>2. /\ Chained(wire, lastId, log[following])
        /\ gen.at # "gone" => gen.sent = Left(wire, lastId)
        /\ lastId <= lastSeq[following]
        /\ \A i \in 1..Len(wire) : wire[i].id <= lastSeq[following]
    BY DEF Replayed
  <2>3. /\ lastSeq[following] <= lastSeq'[following]
        /\ \A i \in 1..Len(log'[following]) :
             \/ log'[following][i].id > lastSeq[following]
             \/ \E k \in 1..Len(log[following]) : log'[following][i] = log[following][k]
    BY <1>1, <2>1 DEF GoesOn
  <2>4. /\ lastSeq[following] \in Nat /\ lastSeq'[following] \in Nat
        /\ log[following] \in Seq(Events) /\ log'[following] \in Seq(Events)
    BY <1>1, <1>3, <2>1
  <2>5. Chained(wire, lastId, log'[following])
    BY <1>2, <2>2, <2>3, <2>4, ChainLasts
  <2>6. lastId <= lastSeq'[following]
    BY <1>2, <2>2, <2>3, <2>4
  <2>7. ASSUME NEW i \in 1..Len(wire) PROVE wire[i].id <= lastSeq'[following]
    <3>1. wire[i] \in Sent
      BY <1>2
    <3>2. wire[i].id \in Nat /\ wire[i].id <= lastSeq[following]
      BY <2>2, <3>1 DEF Sent
    <3> QED  BY <2>3, <2>4, <3>2
  <2> QED  BY <2>2, <2>5, <2>6, <2>7
<1>5. CASE GeneratorTurns
  <2>1. UNCHANGED <<following, log, lastSeq, lastId>> /\ gen.at # "gone"
    BY <1>5 DEF GeneratorTurns, server, client
  <2>2. following \in Jobs /\ gen.sent = Left(wire, lastId) /\ gen.sent <= lastSeq[following]
    BY <2>1, CursorInLog
  <2>3. PICK v \in Seq(Sent) :
          /\ wire' = wire \o v
          /\ Chained(v, gen.sent, log[following])
          /\ gen'.sent = Left(v, gen.sent)
          /\ \A i \in 1..Len(v) :
               /\ v[i].id <= lastSeq[following]
               /\ v[i].type \in Terminal => status[following] = v[i].type
    BY <1>5, <2>2, TurnSends
  <2>4. following # NoJob
    BY <2>2, JobTrackingAssumption
  <2>5. /\ Chained(wire, lastId, log[following]) /\ lastId <= lastSeq[following]
        /\ \A i \in 1..Len(wire) : wire[i].id <= lastSeq[following]
    BY <2>4 DEF Replayed
  <2>6. Chained(wire', lastId, log[following]) /\ gen'.sent = Left(wire', lastId)
    BY <1>2, <2>2, <2>3, <2>5, ChainJoin
  <2>7. ASSUME NEW i \in 1..Len(wire') PROVE wire'[i].id <= lastSeq[following]
    BY <1>2, <2>3, <2>5, <2>7, ConcatProperties
  <2> QED  BY <2>1, <2>5, <2>6, <2>7 DEF Replayed
<1>6. CASE Connects \/ LinkFails \/ StreamEnds
  <2>1. /\ wire' = <<>> /\ Len(wire') = 0 /\ UNCHANGED <<following, lastId, log, lastSeq>>
        /\ gen'.at # "gone" => gen'.sent = lastId
    BY <1>6 DEF Connects, LinkFails, StreamEnds, Gone, server, client
  <2>2. Left(wire', lastId) = lastId
    BY <2>1 DEF Left
  <2> QED  BY <2>1, <2>2 DEF Replayed, Chained
<1>7. CASE Reads
  <2>1. /\ wire # <<>> /\ wire' = Tail(wire) /\ lastId' = Head(wire).id
        /\ UNCHANGED <<following, log, lastSeq, gen>> /\ following # NoJob
    BY <1>7 DEF Reads, server, TypeOK, Attached
  <2>2. /\ Chained(wire, lastId, log[following])
        /\ gen.at # "gone" => gen.sent = Left(wire, lastId)
        /\ \A i \in 1..Len(wire) : wire[i].id <= lastSeq[following]
    BY <2>1 DEF Replayed
  <2>3. Chained(wire', lastId', log[following]) /\ Left(wire', lastId') = Left(wire, lastId)
    BY <1>2, <2>1, <2>2, ChainRest
  <2>4. /\ Head(wire) = wire[1] /\ Len(wire) = Len(Tail(wire)) + 1 /\ Len(Tail(wire)) \in Nat
        /\ \A i \in 1..Len(Tail(wire)) : Tail(wire)[i] = wire[i + 1]
    BY <1>2, <2>1, HeadTailProperties
  <2>5. lastId' <= lastSeq[following] /\ \A i \in 1..Len(wire') : wire'[i].id <= lastSeq[following]
    BY <2>1, <2>2, <2>4
  <2> QED  BY <2>1, <2>2, <2>3, <2>5 DEF Replayed
<1>8. CASE Effects
  <2>1. /\ wire' = <<>> /\ Len(wire') = 0 /\ lastId' = 0 /\ following' = active /\ gen'.at = "gone"
        /\ lastSeq' = lastSeq /\ active \in Jobs
    BY <1>8 DEF Effects, Gone, TypeOK, ClientOK, Attached, server
  <2>2. 0 <= lastSeq'[active]
    BY <1>3, <2>1
  <2> QED  BY <2>1, <2>2 DEF Replayed, Chained
<1> QED  BY <1>4, <1>5, <1>6, <1>7, <1>8, NextByLink

-----------------------------------------------------------------------------
(* The tab.                                                                *)

\* What an event or an answer makes of the view: an end is shown as it is, and
\* nothing but another end changes a view that shows one.
LEMMA ReduceShows ==
  ASSUME NEW v \in [status : Statuses, terminal : BOOLEAN], NEW type
  PROVE  /\ Reduce(v, type) \in [status : Statuses, terminal : BOOLEAN]
         /\ type \in Terminal => Reduce(v, type).status = type
         /\ type \notin Terminal =>
              /\ Reduce(v, type).terminal = v.terminal
              /\ v.terminal => Reduce(v, type).status = v.status
<1>1. CASE type \in Terminal
  BY <1>1 DEF Reduce, Statuses
<1>2. CASE type \notin Terminal
  <2>1. CASE type \in {"running", "progress"} /\ ~v.terminal
    <3>1. Reduce(v, type) = [v EXCEPT !.status = "running"]
      BY <1>2, <2>1 DEF Reduce
    <3>2. "running" \in Statuses
      BY DEF Statuses
    <3> QED  BY <1>2, <2>1, <3>1, <3>2
  <2>2. CASE ~(type \in {"running", "progress"} /\ ~v.terminal)
    <3>1. Reduce(v, type) = v
      BY <1>2, <2>2 DEF Reduce
    <3> QED  BY <1>2, <3>1
  <2> QED  BY <2>1, <2>2
<1> QED  BY <1>1, <1>2

\* A request about a job is one of the requests there can be.
LEMMA AskedOfAJob ==
  ASSUME NEW kind \in {"cancel", "poll"}, NEW j \in Jobs, NEW answer \in {"none"} \cup Statuses
  PROVE  [kind |-> kind, job |-> j, answer |-> answer] \in Replies
BY DEF Replies

\* Every step keeps the types, and who is attached to what.
LEMMA TypeStep ==
  ASSUME TypeOK, LogOK, Replayed, [Next]_vars
  PROVE  TypeOK'
<1> USE DEF TypeOK
<1>1. status' \in [Jobs -> Statuses] /\ log' \in [Jobs -> Seq(Events)] /\ lastSeq' \in [Jobs -> Nat]
  BY JobsGoOn
<1>2. ASSUME NEW j \in Jobs, Submitted(j) \/ Started(j) \/ ProgressUpdates(j) \/ ProgressAppends(j)
      PROVE  TypeOK'
  <2>1. UNCHANGED <<client, link>>
    BY <1>2 DEF Submitted, Started, ProgressUpdates, ProgressAppends
  <2>2. reporting' \subseteq Jobs
    BY <1>2 DEF Submitted, Started, ProgressUpdates, ProgressAppends, ServerOK
  <2> QED  BY <1>1, <2>1, <2>2 DEF ServerOK, LinkOK, ClientOK, Attached, client, tab, link
<1>3. ASSUME NEW j \in Jobs, NEW outcome \in {"succeeded", "failed"}, Ended(j, outcome)
      PROVE  TypeOK'
  BY <1>1, <1>3 DEF Ended, ServerOK, LinkOK, ClientOK, Attached, client, tab, link
<1>4. CASE GeneratorTurns
  <2>1. /\ UNCHANGED <<server, client, stream, following, lastId>> /\ gen.at # "gone"
        /\ gen'.at # "gone" /\ stream = "reading"
    BY <1>4 DEF GeneratorTurns, Attached
  <2>2. following \in Jobs /\ gen.sent <= lastSeq[following]
    BY <2>1, CursorInLog
  <2>3. PICK v \in Seq(Sent) : wire' = wire \o v /\ gen'.sent = Left(v, gen.sent)
    <3>1. \E v \in Seq(Sent) : wire' = wire \o v /\ gen'.sent = Left(v, gen.sent)
      BY <1>4, <2>2, TurnSends
    <3> QED  BY <3>1
  <2>4. wire' \in Seq(Sent)
    BY <2>3, ConcatProperties DEF LinkOK
  <2>5. gen'.sent \in Nat
    <3>1. CASE v = <<>>
      BY <2>3, <3>1 DEF Left, LinkOK
    <3>2. CASE v # <<>>
      <4>1. v[Len(v)] \in Sent
        BY <3>2, EmptySeq
      <4> QED  BY <2>3, <3>2, <4>1 DEF Left, Sent
    <3> QED  BY <3>1, <3>2
  <2>6. \E at \in {"asleep", "closed"}, sent \in {gen'.sent} : gen' = [at |-> at, sent |-> sent]
    BY <1>4 DEF GeneratorTurns
  <2>7. gen' \in [at : {"gone", "awake", "asleep", "closed"}, sent : Nat]
    BY <2>5, <2>6
  <2> QED  BY <1>1, <2>1, <2>4, <2>7 DEF ServerOK, LinkOK, ClientOK, Attached, server, client, tab
<1>5. CASE Connects \/ BackoffEnds \/ StreamEnds
  BY <1>1, <1>5 DEF Connects, BackoffEnds, StreamEnds, Gone, ServerOK, LinkOK, ClientOK, Attached,
     server, client, tab
<1>6. CASE Reads
  <2>1. /\ stream = "reading" /\ wire # <<>> /\ lastId' = Head(wire).id
        /\ view' = Reduce(view, Head(wire).type) /\ wire' = Tail(wire)
        /\ UNCHANGED <<reporting, active, pending, following, replies, stream, gen>>
        /\ active # NoJob
    BY <1>6 DEF Reads, Attached, server, tab
  <2>2. wire' \in Seq(Sent) /\ Head(wire) \in Sent
    BY <2>1, HeadTailProperties DEF LinkOK
  <2>3. lastId' \in Nat
    BY <2>1, <2>2 DEF Sent
  <2>4. view' \in [status : Statuses, terminal : BOOLEAN]
    BY <2>1, ReduceShows DEF ClientOK
  <2> QED  BY <1>1, <2>1, <2>2, <2>3, <2>4 DEF ServerOK, LinkOK, ClientOK, Attached
<1>7. CASE LinkFails
  <2>1. /\ gen' = Gone /\ wire' = <<>> /\ stream' \in {"backoff", "over"} /\ stream # "idle"
        /\ UNCHANGED <<reporting, active, pending, following, view, lastId>>
        /\ \/ replies' = replies \cup {[kind |-> "poll", job |-> following, answer |-> "none"]}
           \/ replies' = replies
    BY <1>7 DEF LinkFails, server, tab
  <2>2. following \in Jobs /\ following # NoJob /\ active # NoJob
    BY <2>1 DEF LinkOK, Attached
  <2>3. replies' \subseteq Replies
    BY <2>1, <2>2, AskedOfAJob DEF ClientOK
  <2> QED  BY <1>1, <2>1, <2>2, <2>3 DEF ServerOK, LinkOK, ClientOK, Attached, Gone
<1>8. ASSUME NEW j \in Jobs, Opens(j) PROVE TypeOK'
  <2>1. InitialView \in [status : Statuses, terminal : BOOLEAN]
    BY DEF InitialView, Statuses
  <2>2. j # NoJob
    BY JobTrackingAssumption
  <2>3. UNCHANGED <<reporting, replies, link>> /\ active' = j /\ view' = InitialView /\ pending' = TRUE
    BY <1>8 DEF Opens, server
  <2> QED  BY <1>1, <2>1, <2>2, <2>3 DEF ServerOK, LinkOK, ClientOK, Attached, link
<1>12. CASE Effects
  <2>1. /\ UNCHANGED <<reporting, active, view, replies>> /\ pending' = FALSE /\ active # NoJob
        /\ stream' = "connecting" /\ following' = active /\ lastId' = 0 /\ gen' = Gone /\ wire' = <<>>
    BY <1>12 DEF Effects, ClientOK, Attached, server
  <2>2. gen'.at = "gone" /\ gen' \in [at : {"gone", "awake", "asleep", "closed"}, sent : Nat]
    BY <2>1 DEF Gone
  <2>3. ServerOK' /\ ClientOK'
    BY <1>1, <2>1 DEF ServerOK, ClientOK
  <2>4. LinkOK'
    BY <2>1, <2>2 DEF LinkOK, ClientOK
  <2>5. Attached'
    BY <2>1, <2>2 DEF Attached
  <2> QED  BY <2>3, <2>4, <2>5
<1>9. CASE AsksCancel
  <2>1. active \in Jobs
    BY <1>9 DEF AsksCancel, ClientOK
  <2>2. replies' \subseteq Replies
    BY <1>9, <2>1, AskedOfAJob DEF AsksCancel, ClientOK
  <2> QED  BY <1>1, <1>9, <2>2 DEF AsksCancel, ServerOK, LinkOK, ClientOK, Attached, server, tab, link
<1>10. ASSUME NEW r \in replies, ReplyStep(r) PROVE TypeOK'
  <2>1. r \in Replies /\ r.job \in Jobs /\ active # NoJob
    BY DEF ClientOK, Replies, Attached
  <2>2. /\ replies' \subseteq Replies /\ view' \in [status : Statuses, terminal : BOOLEAN]
        /\ UNCHANGED <<reporting, active, pending, following, stream, lastId, wire, gen>>
    <3>1. CASE CancelAnswered(r)
      <4>1. [r EXCEPT !.answer = "cancelled"] \in Replies
        BY <2>1 DEF Replies, Statuses, Terminal
      <4> QED  BY <3>1, <4>1 DEF CancelAnswered, ClientOK, tab, link
    <3>2. CASE PollAnswered(r)
      <4>1. status[r.job] \in Statuses
        BY <2>1 DEF ServerOK
      <4>2. [r EXCEPT !.answer = status[r.job]] \in Replies
        BY <2>1, <4>1 DEF Replies
      <4> QED  BY <3>2, <4>2 DEF PollAnswered, ClientOK, server, tab
    <3>3. CASE ReplyArrives(r)
      <4>1. Reduce(view, r.answer) \in [status : Statuses, terminal : BOOLEAN]
        BY ReduceShows DEF ClientOK
      <4> QED  BY <3>3, <4>1 DEF ReplyArrives, ClientOK, server, tab, link
    <3> QED  BY <1>10, <3>1, <3>2, <3>3 DEF ReplyStep
  <2> QED  BY <1>1, <2>1, <2>2 DEF ServerOK, LinkOK, ClientOK, Attached
<1>11. CASE UNCHANGED vars
  BY <1>11 DEF vars, server, client, tab, link, ServerOK, LinkOK, ClientOK, Attached
<1> QED
  BY <1>2, <1>3, <1>4, <1>5, <1>6, <1>7, <1>8, <1>9, <1>10, <1>11, <1>12 DEF Next, ClientStep

-----------------------------------------------------------------------------
(* The end of a job, wherever it is on its way to the view.                *)

\* The ends on the wire and in the answers are those of their jobs.
WireHonest ==
  following # NoJob =>
    \A i \in 1..Len(wire) : wire[i].type \in Terminal => status[following] = wire[i].type

RepliesHonest == \A r \in replies : r.answer \in Terminal => status[r.job] = r.answer

\* A view that shows an end shows that of the active job.
Shown == active # NoJob /\ view.terminal => view.status \in Terminal /\ view.status = status[active]

\* What is on the wire stays true: a record that has ended does not change.
LEMMA WireStep ==
  ASSUME TypeOK, LogOK, Replayed, WireHonest, [Next]_vars
  PROVE  WireHonest'
<1>1. \A j \in Jobs : status[j] \in Terminal => status'[j] = status[j]
  BY JobsGoOn DEF TypeOK, GoesOn
<1>2. wire \in Seq(Sent) /\ following \in Jobs \cup {NoJob}
  BY DEF TypeOK, LinkOK
<1>3. CASE UNCHANGED <<following, wire, lastId, gen>>
  BY <1>1, <1>2, <1>3 DEF WireHonest
<1>4. CASE GeneratorTurns
  <2>1. UNCHANGED <<following, status>> /\ gen.at # "gone"
    BY <1>4 DEF GeneratorTurns, server, client
  <2>2. following \in Jobs /\ gen.sent <= lastSeq[following]
    BY <2>1, CursorInLog
  <2>3. PICK v \in Seq(Sent) :
          /\ wire' = wire \o v
          /\ \A i \in 1..Len(v) : v[i].type \in Terminal => status[following] = v[i].type
    <3>1. \E v \in Seq(Sent) :
            /\ wire' = wire \o v
            /\ \A i \in 1..Len(v) : v[i].type \in Terminal => status[following] = v[i].type
      BY <1>4, <2>2, TurnSends
    <3> QED  BY <3>1
  <2>4. \A i \in 1..Len(wire) : wire[i].type \in Terminal => status[following] = wire[i].type
    BY <2>2, JobTrackingAssumption DEF WireHonest
  <2>5. ASSUME NEW i \in 1..Len(wire'), wire'[i].type \in Terminal
        PROVE  status[following] = wire'[i].type
    <3>1. /\ Len(wire') = Len(wire) + Len(v) /\ Len(wire) \in Nat /\ Len(v) \in Nat
          /\ \A k \in 1..Len(wire) : wire'[k] = wire[k]
          /\ \A k \in 1..Len(v) : wire'[Len(wire) + k] = v[k]
      BY <1>2, <2>3, ConcatProperties
    <3>2. CASE i <= Len(wire)
      BY <2>4, <2>5, <3>1, <3>2
    <3>3. CASE i > Len(wire)
      <4>1. i - Len(wire) \in 1..Len(v) /\ Len(wire) + (i - Len(wire)) = i
        BY <3>1, <3>3
      <4>2. wire'[i] = v[i - Len(wire)]
        BY <3>1, <4>1
      <4> QED  BY <2>3, <2>5, <4>1, <4>2
    <3> QED  BY <3>1, <3>2, <3>3
  <2> QED  BY <2>1, <2>5 DEF WireHonest
<1>5. CASE Connects \/ LinkFails \/ StreamEnds \/ Effects
  <2>1. wire' = <<>> /\ Len(wire') = 0
    BY <1>5 DEF Connects, LinkFails, StreamEnds, Effects
  <2> QED  BY <2>1 DEF WireHonest
<1>6. CASE Reads
  <2>1. wire # <<>> /\ wire' = Tail(wire) /\ UNCHANGED <<following, status>>
    BY <1>6 DEF Reads, server
  <2>2. /\ Len(wire) = Len(wire') + 1 /\ Len(wire') \in Nat
        /\ \A i \in 1..Len(wire') : wire'[i] = wire[i + 1]
    BY <1>2, <2>1, HeadTailProperties
  <2>3. \A i \in 1..Len(wire') : i + 1 \in 1..Len(wire)
    BY <2>2
  <2> QED  BY <2>1, <2>2, <2>3 DEF WireHonest
<1> QED  BY <1>3, <1>4, <1>5, <1>6, NextByLink

\* The api answers with the record, and a record that has ended does not change.
LEMMA RepliesStep ==
  ASSUME TypeOK, LogOK, RepliesHonest, [Next]_vars
  PROVE  RepliesHonest'
<1>1. \A j \in Jobs : status[j] \in Terminal => status'[j] = status[j]
  BY JobsGoOn DEF TypeOK, GoesOn
<1>2. \A r \in replies : r \in Replies /\ r.job \in Jobs
  BY DEF TypeOK, ClientOK, Replies
<1>3. ASSUME \A q \in replies' : q \in replies \/ q.answer \notin Terminal \/ status'[q.job] = q.answer
      PROVE  RepliesHonest'
  <2> SUFFICES ASSUME NEW q \in replies', q.answer \in Terminal PROVE status'[q.job] = q.answer
    BY DEF RepliesHonest
  <2>1. CASE q \in replies
    BY <1>1, <1>2, <2>1 DEF RepliesHonest
  <2> QED  BY <1>3, <2>1
<1>4. ASSUME NEW r \in replies, CancelAnswered(r) PROVE RepliesHonest'
  <2>1. CASE status[r.job] \in Terminal
    BY <1>3, <1>4, <2>1 DEF CancelAnswered
  <2>2. CASE status[r.job] \notin Terminal
    <3> DEFINE q == [r EXCEPT !.answer = "cancelled"]
    <3>1. q.answer = "cancelled" /\ q.job = r.job
      BY <1>2 DEF Replies
    <3>2. replies' = (replies \ {r}) \cup {q} /\ status' = [status EXCEPT ![r.job] = "cancelled"]
      BY <1>4, <2>2 DEF CancelAnswered, Becomes
    <3>3. status'[r.job] = "cancelled"
      BY <1>2, <3>2 DEF TypeOK, ServerOK
    <3> HIDE DEF q
    <3> QED  BY <1>3, <3>1, <3>2, <3>3
  <2> QED  BY <2>1, <2>2
<1>5. ASSUME NEW r \in replies, PollAnswered(r) PROVE RepliesHonest'
  <2> DEFINE q == [r EXCEPT !.answer = status[r.job]]
  <2>1. q.answer = status[r.job] /\ q.job = r.job
    BY <1>2 DEF Replies
  <2>2. replies' \subseteq replies \cup {q} /\ status' = status
    BY <1>5 DEF PollAnswered, server
  <2> HIDE DEF q
  <2> QED  BY <1>3, <2>1, <2>2
<1>6. ASSUME NEW r \in replies, ReplyArrives(r) PROVE RepliesHonest'
  BY <1>3, <1>6 DEF ReplyArrives
<1>7. CASE LinkFails \/ AsksCancel
  <2>1. "none" \notin Terminal
    BY DEF Terminal
  <2>2. \A q \in replies' : q \in replies \/ q.answer = "none"
    BY <1>7 DEF LinkFails, AsksCancel
  <2> QED  BY <1>3, <2>1, <2>2
<1>8. CASE replies' = replies
  BY <1>3, <1>8
<1>9. CASE \/ \E j \in Jobs : \/ Submitted(j) \/ Started(j) \/ ProgressUpdates(j)
                              \/ ProgressAppends(j) \/ Opens(j)
           \/ \E j \in Jobs, outcome \in {"succeeded", "failed"} : Ended(j, outcome)
           \/ GeneratorTurns \/ ClientStep \/ Effects \/ UNCHANGED vars
  <2>1. replies' = replies
    BY <1>9 DEF Submitted, Started, ProgressUpdates, ProgressAppends, Ended, Opens, Effects, GeneratorTurns,
       ClientStep, Connects, BackoffEnds, Reads, StreamEnds, client, vars
  <2> QED  BY <1>8, <2>1
<1> QED  BY <1>4, <1>5, <1>6, <1>7, <1>9 DEF Next, ReplyStep

\* A reply for a job that is no longer the active one comes in.
StaleReply == \E r \in replies : r.job # active /\ ReplyArrives(r)

\* An event comes in over the stream of a job that is no longer the active one:
\* the effect that aborts the stream has still to run.
StaleEvent == following # active /\ Reads

\* A view keeps showing how its job ended: nothing but an end changes it, and
\* every end that comes in is the job's, unless it is the answer for another or
\* an event of the stream before.
LEMMA ShownStep ==
  ASSUME TypeOK, LogOK, WireHonest, RepliesHonest, Shown, [Next]_vars, ~StaleReply, ~StaleEvent
  PROVE  Shown'
<1>1. \A j \in Jobs : status[j] \in Terminal => status'[j] = status[j]
  BY JobsGoOn DEF TypeOK, GoesOn
<1>2. /\ active \in Jobs \cup {NoJob} /\ view \in [status : Statuses, terminal : BOOLEAN]
      /\ wire \in Seq(Sent)
  BY DEF TypeOK, LinkOK, ClientOK
<1>3. CASE UNCHANGED <<active, view>>
  BY <1>1, <1>2, <1>3 DEF Shown
<1>4. ASSUME NEW type, UNCHANGED <<active, status>>, view' = Reduce(view, type),
             active # NoJob => (type \in Terminal => status[active] = type)
      PROVE  Shown'
  <2> SUFFICES ASSUME active # NoJob, view'.terminal
               PROVE  view'.status \in Terminal /\ view'.status = status[active]
    BY <1>4 DEF Shown
  <2>1. CASE type \in Terminal
    BY <1>2, <1>4, <2>1, ReduceShows
  <2>2. CASE type \notin Terminal
    <3>1. view'.terminal = view.terminal /\ (view.terminal => view'.status = view.status)
      BY <1>2, <1>4, <2>2, ReduceShows
    <3> QED  BY <3>1 DEF Shown
  <2> QED  BY <2>1, <2>2
<1>5. CASE Reads
  <2>1. /\ wire # <<>> /\ view' = Reduce(view, Head(wire).type) /\ UNCHANGED <<active, status>>
        /\ following = active
    BY <1>5 DEF Reads, StaleEvent, server, tab
  <2>2. Head(wire) = wire[1] /\ 1 \in 1..Len(wire)
    BY <1>2, <2>1, EmptySeq
  <2>3. active # NoJob => (Head(wire).type \in Terminal => status[active] = Head(wire).type)
    BY <2>1, <2>2 DEF WireHonest
  <2> QED  BY <1>4, <2>1, <2>3
<1>6. ASSUME NEW j \in Jobs, Opens(j) PROVE Shown'
  BY <1>6 DEF Opens, Shown, InitialView
<1>7. ASSUME NEW r \in replies, ReplyArrives(r) PROVE Shown'
  <2>1. r.job = active
    BY <1>7 DEF StaleReply
  <2>2. view' = Reduce(view, r.answer) /\ UNCHANGED <<active, status>>
    BY <1>7 DEF ReplyArrives, server, tab
  <2>3. r.answer \in Terminal => status[active] = r.answer
    BY <2>1 DEF RepliesHonest
  <2> QED  BY <1>4, <2>2, <2>3
<1>8. CASE \/ \E j \in Jobs : Submitted(j) \/ Started(j) \/ ProgressUpdates(j) \/ ProgressAppends(j)
           \/ \E j \in Jobs, outcome \in {"succeeded", "failed"} : Ended(j, outcome)
           \/ GeneratorTurns \/ Connects \/ BackoffEnds \/ StreamEnds \/ LinkFails \/ Effects \/ AsksCancel
           \/ \E r \in replies : CancelAnswered(r) \/ PollAnswered(r)
           \/ UNCHANGED vars
  <2>1. UNCHANGED <<active, view>>
    BY <1>8 DEF Submitted, Started, ProgressUpdates, ProgressAppends, Ended, GeneratorTurns,
       Connects, BackoffEnds, StreamEnds, LinkFails, Effects, AsksCancel, CancelAnswered, PollAnswered,
       client, tab, vars
  <2> QED  BY <1>3, <2>1
<1> QED  BY <1>5, <1>6, <1>7, <1>8 DEF Next, ClientStep, ReplyStep

-----------------------------------------------------------------------------
(* What holds of every run.                                                *)

\* What the stream and the api hold of the jobs, whatever the view makes of it.
Tracked == TypeOK /\ LogOK /\ Replayed /\ WireHonest /\ RepliesHonest

\* Nothing is logged, sent or asked at first.
LEMMA TrackedInit == Init => Tracked /\ Shown
<1> SUFFICES ASSUME Init PROVE Tracked /\ Shown
  OBVIOUS
<1> USE DEF Init
<1>1. ServerOK
  BY DEF ServerOK, Statuses
<1>2. LinkOK
  BY DEF LinkOK, Gone
<1>3. ClientOK /\ Attached
  BY DEF ClientOK, Attached, InitialView, Gone, Statuses
<1>4. ASSUME NEW j \in Jobs
      PROVE  /\ Numbered(log[j], lastSeq[j])
             /\ \A i \in 1..Len(log[j]) : log[j][i].type \in Terminal => status[j] = log[j][i].type
  <2>1. log[j] = <<>> /\ Len(log[j]) = 0 /\ lastSeq[j] = 0
    OBVIOUS
  <2> QED  BY <2>1 DEF Numbered
<1>5. LogOK
  BY <1>4 DEF LogOK
<1>6. Replayed /\ WireHonest /\ RepliesHonest /\ Shown
  BY DEF Replayed, WireHonest, RepliesHonest, Shown
<1> QED  BY <1>1, <1>2, <1>3, <1>5, <1>6 DEF Tracked, TypeOK

\* Every step keeps it.
LEMMA TrackedStep == Tracked /\ [Next]_vars => Tracked'
BY TypeStep, JobsGoOn, ReplayedStep, WireStep, RepliesStep DEF Tracked, TypeOK

\* Every run is one in which logs are numbered, what is on the wire follows what
\* was read, and every end on its way is the job's.
THEOREM TrackingIsTyped == Spec => []Tracked
<1>1. Init => Tracked
  BY TrackedInit
<1> QED  BY <1>1, TrackedStep, PTL DEF Spec

\* Last-Event-ID replay over stream_events: for every number of reconnects, every
\* log bound and every number of events, an event that the tab reads is beyond
\* all it has read, and none that the log still holds lies between.
THEOREM ReplayIsFaithful == Spec => NeitherLostNorRepeated
<1> DEFINE Faithful ==
      wire # <<>> /\ wire' = Tail(wire) /\ Head(wire).type # "heartbeat" =>
        /\ Head(wire).id > lastId
        /\ \A id \in (lastId + 1)..(Head(wire).id - 1) :
             \A i \in 1..Len(log[following]) : log[following][i].id # id
<1>1. Tracked => Faithful
  <2> SUFFICES ASSUME Tracked, wire # <<>>, Head(wire).type # "heartbeat"
               PROVE  /\ Head(wire).id > lastId
                      /\ \A id \in (lastId + 1)..(Head(wire).id - 1) :
                           \A i \in 1..Len(log[following]) : log[following][i].id # id
    OBVIOUS
  <2>1. following \in Jobs /\ following # NoJob /\ wire \in Seq(Sent) /\ lastId \in Nat
    BY DEF Tracked, TypeOK, LinkOK, ClientOK, Attached
  <2>2. NextTo(lastId, Head(wire), log[following])
    BY <2>1, ChainRest DEF Tracked, Replayed
  <2>3. /\ lastId < Head(wire).id
        /\ \A k \in 1..Len(log[following]) :
             ~(lastId < log[following][k].id /\ log[following][k].id < Head(wire).id)
    BY <2>2 DEF NextTo
  <2>4. Head(wire).id \in Nat
    <3>1. Head(wire) \in Sent
      BY <2>1
    <3> QED  BY <3>1 DEF Sent
  <2> QED  BY <2>1, <2>3, <2>4
<1>2. Tracked /\ [Next]_vars => [Faithful]_vars
  BY <1>1
<1>3. Spec => [][Faithful]_vars
  BY <1>2, TrackingIsTyped, PTL DEF Spec
<1> QED  BY <1>3 DEF NeitherLostNorRepeated

\* "Never a faked local state": late progress events, replays after a reconnect,
\* polls and answers to cancels leave the view of the active job true, as long
\* as no answer to a request for another job and no event of a stream that is
\* still to be aborted is folded into it.
THEOREM ViewStaysHonest == Spec /\ [][~StaleReply /\ ~StaleEvent]_vars => []ViewIsHonest
<1> DEFINE Fresh == ~StaleReply /\ ~StaleEvent
<1>1. Init => Shown
  BY TrackedInit
<1>2. Tracked /\ Shown /\ [Next]_vars /\ [Fresh]_vars => Shown'
  <2> SUFFICES ASSUME Tracked, Shown, [Next]_vars, [Fresh]_vars PROVE Shown'
    OBVIOUS
  <2>1. CASE Fresh
    BY <2>1, ShownStep DEF Tracked
  <2>2. CASE UNCHANGED vars
    BY <2>2 DEF Shown, vars, server, client, tab
  <2> QED  BY <2>1, <2>2
<1>3. Shown => ViewIsHonest
  BY DEF Shown, ViewIsHonest
<1> HIDE DEF Fresh
<1>4. Spec /\ [][Fresh]_vars => []Shown
  BY <1>1, <1>2, TrackingIsTyped, PTL DEF Spec
<1>5. Spec /\ [][Fresh]_vars => []ViewIsHonest
  BY <1>3, <1>4, PTL
<1> QED  BY <1>5 DEF Fresh

\* A tab that follows one job shows it as ended only if it has ended so, however
\* often it is opened again: there is no other job whose answers or events could
\* come in.
THEOREM OneJobIsShownHonestly == (\A j, k \in Jobs : j = k) => (Spec => []ViewIsHonest)
<1> SUFFICES ASSUME \A j, k \in Jobs : j = k PROVE Spec => []ViewIsHonest
  OBVIOUS
<1> DEFINE Fresh == ~StaleReply /\ ~StaleEvent
<1>1. Tracked => ~StaleReply
  <2> SUFFICES ASSUME Tracked, NEW r \in replies PROVE r.job = active
    BY DEF StaleReply
  <2>1. active # NoJob /\ r \in Replies
    BY DEF Tracked, TypeOK, ClientOK, Attached
  <2>2. active \in Jobs /\ r.job \in Jobs
    BY <2>1 DEF Tracked, TypeOK, ClientOK, Replies
  <2> QED  BY <2>2
<1>2. Tracked => ~StaleEvent
  <2> SUFFICES ASSUME Tracked, stream = "reading" PROVE following = active
    BY DEF StaleEvent, Reads
  <2>1. following # NoJob /\ active # NoJob
    BY DEF Tracked, TypeOK, Attached
  <2>2. active \in Jobs /\ following \in Jobs
    BY <2>1 DEF Tracked, TypeOK, ClientOK, LinkOK
  <2> QED  BY <2>2
<1>3. Tracked /\ [Next]_vars => [Fresh]_vars
  BY <1>1, <1>2
<1> HIDE DEF Fresh
<1>4. Spec => [][Fresh]_vars
  BY <1>3, TrackingIsTyped, PTL DEF Spec
<1>5. Spec /\ [][Fresh]_vars => []ViewIsHonest
  BY ViewStaysHonest DEF Fresh
<1> QED  BY <1>4, <1>5, PTL

=============================================================================
