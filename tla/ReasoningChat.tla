---------------------------- MODULE ReasoningChat ----------------------------
(***************************************************************************)
(* A reasoning request from the chat tab to the model and back: the token  *)
(* budget and the generator of POST /v1/reason with its pump thread        *)
(* (api/app/routes/reasoning.py, api/engines/vllm/context_cap.py), and the *)
(* tab that shows the answer, over the reconnecting stream client          *)
(* (webui/components/chat/ChatStream.tsx, createEventStream.ts).           *)
(*                                                                         *)
(* The stream carries no event ids: a connection that breaks is answered   *)
(* from the start on a new one, while the generator and the thread of the  *)
(* old one may still be running.  The lease and acquire are Orchestrator's;*)
(* here a generator waits for them, and no two generators have them.       *)
(***************************************************************************)
EXTENDS Integers, Sequences

CONSTANTS
  MaxContext,   (* ContextCapConfig.max_context_tokens                     *)
  MaxOutput,    (* ContextCapConfig.max_output_tokens                      *)
  Prompts,      (* the messages a user may send, by their number of        *)
                (* characters                                              *)
  Tokens,       (* the tokens each of them has                             *)
  EdgeTokenizer, (* load_edge_tokenizer has found one                      *)
  MaxRetries,   (* reconnects in a row before the client gives up          *)
  MaxConns,     (* bound: connections made                                 *)
  MaxDeltas     (* bound: deltas of one answer                             *)

ASSUME ReasoningChatAssumption ==
  /\ MaxContext \in Nat \ {0} /\ MaxOutput \in Nat \ {0}
  /\ Prompts \subseteq Nat /\ Tokens \in [Prompts -> Nat] /\ EdgeTokenizer \in BOOLEAN
  /\ MaxRetries \in Nat /\ MaxConns \in Nat /\ MaxDeltas \in Nat

-----------------------------------------------------------------------------
(* The budget of a request, before the GPU is touched.                     *)

\* load_edge_tokenizer: there may be none.
Encoded(p) == IF EdgeTokenizer THEN {Tokens[p]} ELSE {}

\* count_tokens: the tokenizer's count, or, without one and when it raises, a
\* third of the characters, rounded up.
CountTokens(p) == {(p + 2) \div 3} \cup Encoded(p)

Least(a, b) == IF a <= b THEN a ELSE b
Room(tokens) == IF tokens < MaxContext THEN MaxContext - tokens ELSE 1

\* The budget of a request that names none.
OmittedBudget(tokens) == Least(MaxOutput, Room(tokens))

\* validate_context, in its order of precedence.
ContextError(tokens, output) ==
  IF tokens <= 0 THEN "empty_prompt"
  ELSE IF output <= 0 \/ output > MaxOutput THEN "bad_max_tokens"
  ELSE IF tokens + output > MaxContext THEN "context_over_cap"
  ELSE "ok"

\* The tab names no budget.
Admitted(tokens) == ContextError(tokens, OmittedBudget(tokens)) = "ok"

-----------------------------------------------------------------------------
Conns == 1..MaxConns
Item(kind, n) == [kind |-> kind, n |-> n]
Items(kinds) == [kind : kinds, n : 0..MaxDeltas]
WireItems == Items({"token", "error", "heartbeat", "done"})
QueueItems == Items({"token", "error", "end"})
NoGet == Item("none", 0)
Shown == Conns \X (0..MaxDeltas)
Pending == Item("pending", 0)
GetItems == QueueItems \cup {NoGet, Pending}

\* How the model's stream returns: after [DONE], or with the answer cut short,
\* when the response ends without [DONE] or the server sends an error frame, which
\* has no choice and is skipped.  The thread cannot tell the one from the other.
Returned == {"whole", "cut"}

VARIABLES
  stream,    (* the tab: createEventStream, or the component unmounted     *)
  attempt,   (* its failed attempts in a row                               *)
  conn,      (* the connection it reads; 0 for none                        *)
  prompt,    (* the message it sent                                        *)
  text,      (* the assistant's turn: deltas, each with its connection     *)
  gotToken,  (* a token has come since the last reconnect                  *)
  error,     (* the banner                                                 *)
  wire,      (* events sent on conn and not yet read                       *)
  gen,       (* each connection's generator                                *)
  get,       (* _relay's get_task, with its result                         *)
  queue,     (* _relay's queue                                             *)
  stop,      (* _relay's stop flag                                         *)
  pump,      (* the pump thread                                            *)
  read,      (* deltas it has read from the model                          *)
  fate,      (* how the model's answer ended                               *)
  opened     (* connections made so far                                    *)

tab    == <<stream, attempt, prompt, text, gotToken, error>>
relay  == <<get, queue, stop>>
thread == <<pump, read, fate>>
vars   == <<tab, conn, wire, gen, relay, thread, opened>>

TabOK ==
  /\ stream \in {"idle", "connecting", "reading", "backoff", "over", "left"}
  /\ attempt \in 0..(MaxRetries + 1)
  /\ conn \in {0, opened} /\ (conn # 0 <=> stream = "reading")
  /\ opened \in 0..MaxConns
  /\ prompt \in Prompts \cup {0}

ShownOK == text \in Seq(Shown) /\ wire \in Seq(WireItems)

FlagsOK == gotToken \in BOOLEAN /\ error \in BOOLEAN

ServerOK ==
  /\ gen \in [Conns -> {"none", "waiting", "serving", "ended"}]
  /\ get \in [Conns -> GetItems]
  /\ queue \in [Conns -> Seq(QueueItems)]
  /\ stop \in [Conns -> BOOLEAN]
  /\ pump \in [Conns -> {"none", "queued", "reading", "closing", "done"}]
  /\ read \in [Conns -> 0..MaxDeltas]
  /\ fate \in [Conns -> {"open", "failed"} \cup Returned]

TypeOK == TabOK /\ ShownOK /\ FlagsOK /\ ServerOK

-----------------------------------------------------------------------------
(* The pump thread, reading the model's server.                            *)

\* call_soon_threadsafe(queue.put_nowait, ...): once _relay is left nobody reads
\* its queue any more.
Put(c, item) == queue' = IF stop[c] THEN queue ELSE [queue EXCEPT ![c] = Append(@, item)]

PumpStarts(c) ==
  /\ pump[c] = "queued"
  /\ pump' = [pump EXCEPT ![c] = "reading"]
  /\ UNCHANGED <<tab, conn, wire, gen, relay, read, fate, opened>>

\* The flag is looked at once there is a delta.
PumpReads(c) ==
  /\ pump[c] = "reading" /\ read[c] < MaxDeltas
  /\ IF stop[c]
     THEN pump' = [pump EXCEPT ![c] = "closing"] /\ UNCHANGED <<queue, read>>
     ELSE /\ read' = [read EXCEPT ![c] = @ + 1]
          /\ Put(c, Item("token", read[c] + 1))
          /\ UNCHANGED pump
  /\ UNCHANGED <<tab, conn, wire, gen, get, stop, fate, opened>>

\* The response has ended, or [DONE] has come.
UpstreamEnds(c) ==
  /\ pump[c] = "reading"
  /\ pump' = [pump EXCEPT ![c] = "closing"]
  /\ \E f \in Returned : fate' = [fate EXCEPT ![c] = f]
  /\ UNCHANGED <<tab, conn, wire, gen, relay, read, opened>>

\* A thread that ends on a failure as it does on the end of the answer.
UpstreamFailsQuietlyMutant(c) ==
  /\ pump[c] = "reading"
  /\ pump' = [pump EXCEPT ![c] = "closing"]
  /\ fate' = [fate EXCEPT ![c] = "failed"]
  /\ UNCHANGED <<tab, conn, wire, gen, relay, read, opened>>

\* The server cannot be reached or is silent for too long, the connection breaks,
\* or a frame cannot be read: the stream raises.
UpstreamFails(c) ==
  /\ pump[c] = "reading"
  /\ pump' = [pump EXCEPT ![c] = "closing"]
  /\ fate' = [fate EXCEPT ![c] = "failed"]
  /\ Put(c, Item("error", 0))
  /\ UNCHANGED <<tab, conn, wire, gen, get, stop, read, opened>>

\* A thread that relies on its errors to end the stream.
PumpClosesWithoutSentinelMutant(c) ==
  /\ pump[c] = "closing"
  /\ pump' = [pump EXCEPT ![c] = "done"]
  /\ UNCHANGED <<tab, conn, wire, gen, relay, read, fate, opened>>

\* The finally block: close the upstream, put the sentinel.
PumpCloses(c) ==
  /\ pump[c] = "closing"
  /\ pump' = [pump EXCEPT ![c] = "done"]
  /\ Put(c, Item("end", 0))
  /\ UNCHANGED <<tab, conn, wire, gen, get, stop, read, fate, opened>>

-----------------------------------------------------------------------------
(* The generator and _relay, on the event loop.                            *)

\* A send on a connection that the client has given up goes nowhere.
Sends(c, items) == wire' = IF c = conn THEN wire \o items ELSE wire

LeaseFree == \A d \in Conns : gen[d] # "serving"

\* Lease and plane are there: the thread is handed to the executor.
PlaneReady(c) ==
  /\ gen[c] = "waiting" /\ LeaseFree
  /\ gen' = [gen EXCEPT ![c] = "serving"]
  /\ pump' = [pump EXCEPT ![c] = "queued"]
  /\ UNCHANGED <<tab, conn, wire, relay, read, fate, opened>>

PlaneUnavailable(c) ==
  /\ gen[c] = "waiting" /\ LeaseFree
  /\ gen' = [gen EXCEPT ![c] = "ended"]
  /\ Sends(c, <<Item("error", 0), Item("done", 0)>>)
  /\ UNCHANGED <<tab, conn, relay, thread, opened>>

Asks(c) ==
  /\ gen[c] = "serving" /\ get[c] = NoGet
  /\ get' = [get EXCEPT ![c] = Pending]
  /\ UNCHANGED <<tab, conn, wire, gen, queue, stop, thread, opened>>

GetFills(c) ==
  /\ get[c] = Pending /\ queue[c] # <<>>
  /\ get' = [get EXCEPT ![c] = Head(queue[c])]
  /\ queue' = [queue EXCEPT ![c] = Tail(@)]
  /\ UNCHANGED <<tab, conn, wire, gen, stop, thread, opened>>

\* A heartbeat that gives up the get it was waiting for.
HeartbeatDropsGetMutant(c) ==
  /\ gen[c] = "serving" /\ get[c] # NoGet /\ (c = conn => wire = <<>>)
  /\ get' = [get EXCEPT ![c] = NoGet]
  /\ Sends(c, <<Item("heartbeat", 0)>>)
  /\ UNCHANGED <<tab, conn, gen, queue, stop, thread, opened>>

\* The wait timed out: the pending get is kept.  By then what was sent before
\* has been read.
Heartbeat(c) ==
  /\ gen[c] = "serving" /\ get[c] = Pending /\ (c = conn => wire = <<>>)
  /\ Sends(c, <<Item("heartbeat", 0)>>)
  /\ UNCHANGED <<tab, conn, gen, relay, thread, opened>>

\* An item is there: pass the delta on, or end the stream; leaving _relay sets
\* the flag.
Relays(c) ==
  /\ gen[c] = "serving" /\ get[c].kind \in {"token", "error", "end"}
  /\ get' = [get EXCEPT ![c] = NoGet]
  /\ IF get[c].kind = "token"
     THEN Sends(c, <<get[c]>>) /\ UNCHANGED <<gen, stop>>
     ELSE /\ Sends(c, IF get[c].kind = "error" THEN <<get[c], Item("done", 0)>>
                      ELSE <<Item("done", 0)>>)
          /\ gen' = [gen EXCEPT ![c] = "ended"]
          /\ stop' = [stop EXCEPT ![c] = TRUE]
  /\ queue' = IF stop'[c] THEN [queue EXCEPT ![c] = <<>>] ELSE queue
  /\ UNCHANGED <<tab, conn, thread, opened>>

\* The server notices that the client is gone: the generator unwinds, and
\* releases the lease.
ClientGone(c) ==
  /\ gen[c] \in {"waiting", "serving"} /\ c # conn
  /\ gen' = [gen EXCEPT ![c] = "ended"]
  /\ UNCHANGED <<tab, conn, wire, relay, thread, opened>>

\* A finally block that forgets the pending get.
RelayFinalizesWithoutCancelMutant(c) ==
  /\ gen[c] = "ended" /\ pump[c] # "none" /\ ~stop[c]
  /\ stop' = [stop EXCEPT ![c] = TRUE]
  /\ queue' = [queue EXCEPT ![c] = <<>>]
  /\ UNCHANGED <<tab, conn, wire, gen, get, thread, opened>>

\* _relay's finally block: at once when the generator was waiting for an item,
\* later when it was suspended in a yield and _relay is left to the collector.
RelayFinalizes(c) ==
  /\ gen[c] = "ended" /\ pump[c] # "none" /\ ~stop[c]
  /\ stop' = [stop EXCEPT ![c] = TRUE]
  /\ get' = [get EXCEPT ![c] = NoGet]
  /\ queue' = [queue EXCEPT ![c] = <<>>]
  /\ UNCHANGED <<tab, conn, wire, gen, thread, opened>>

-----------------------------------------------------------------------------
(* The tab.                                                                *)

server == <<gen, relay, thread>>

\* send: only while no message is being answered.
Send(p) ==
  /\ stream \in {"idle", "over", "left"} /\ opened < MaxConns
  /\ stream' = "connecting" /\ attempt' = 0 /\ prompt' = p
  /\ text' = <<>> /\ gotToken' = FALSE /\ error' = FALSE
  /\ UNCHANGED <<conn, wire, server, opened>>

Connects ==
  /\ stream = "connecting" /\ \E tokens \in CountTokens(prompt) : Admitted(tokens)
  /\ stream' = "reading" /\ attempt' = 0
  /\ opened' = opened + 1 /\ conn' = opened + 1
  /\ gen' = [gen EXCEPT ![opened + 1] = "waiting"]
  /\ wire' = <<>>
  /\ UNCHANGED <<prompt, text, gotToken, error, relay, thread>>

\* What follows the end of createEventStream: a turn without a token since the
\* last reconnect gets a banner.
Settles(token) ==
  /\ stream' = "over"
  /\ error' = (error \/ ~token)

\* A client that never gives up.
DroppedRetriesForEverMutant ==
  /\ text' = <<>> /\ gotToken' = FALSE
  /\ attempt' = attempt + 1
  /\ conn' = 0 /\ wire' = <<>>
  /\ stream' = "backoff" /\ UNCHANGED <<prompt, error>>

\* onError, and a retry unless there have been too many in a row.
Dropped ==
  /\ text' = <<>> /\ gotToken' = FALSE
  /\ attempt' = attempt + 1
  /\ conn' = 0 /\ wire' = <<>>
  /\ IF attempt + 1 > MaxRetries THEN Settles(FALSE) ELSE stream' = "backoff" /\ UNCHANGED error
  /\ UNCHANGED prompt

\* The request is refused with a 422, which is retried like any failure.
Refused ==
  /\ stream = "connecting" /\ \E tokens \in CountTokens(prompt) : ~Admitted(tokens)
  /\ Dropped
  /\ UNCHANGED <<server, opened>>

ConnectFails ==
  /\ stream = "connecting"
  /\ Dropped
  /\ UNCHANGED <<server, opened>>

\* The connection breaks, or nothing has come for 30 s.
LinkBreaks ==
  /\ stream = "reading" /\ opened < MaxConns
  /\ Dropped
  /\ UNCHANGED <<server, opened>>

BackoffEnds ==
  /\ stream = "backoff"
  /\ stream' = "connecting"
  /\ UNCHANGED <<attempt, prompt, text, gotToken, error, conn, wire, server, opened>>

\* onEvent.
Reads ==
  /\ stream = "reading" /\ wire # <<>>
  /\ wire' = Tail(wire)
  /\ LET e == Head(wire) IN
     /\ text' = IF e.kind = "token" THEN Append(text, <<conn, e.n>>) ELSE text
     /\ gotToken' = (gotToken \/ e.kind = "token")
     /\ error' = (error \/ e.kind = "error")
  /\ UNCHANGED <<stream, attempt, prompt, conn, server, opened>>

\* The response ended.
StreamEnds ==
  /\ stream = "reading" /\ wire = <<>> /\ gen[conn] = "ended"
  /\ Settles(gotToken)
  /\ conn' = 0
  /\ UNCHANGED <<attempt, prompt, text, gotToken, wire, server, opened>>

\* The component is unmounted: the stream is aborted, the transcript is gone.
Leaves ==
  /\ stream \in {"connecting", "reading", "backoff"}
  /\ stream' = "left" /\ conn' = 0 /\ wire' = <<>>
  /\ text' = <<>> /\ gotToken' = FALSE /\ error' = FALSE
  /\ UNCHANGED <<attempt, prompt, server, opened>>

-----------------------------------------------------------------------------
Init ==
  /\ stream = "idle" /\ attempt = 0 /\ conn = 0 /\ prompt = 0
  /\ text = <<>> /\ gotToken = FALSE /\ error = FALSE /\ wire = <<>>
  /\ gen = [c \in Conns |-> "none"]
  /\ get = [c \in Conns |-> NoGet]
  /\ queue = [c \in Conns |-> <<>>]
  /\ stop = [c \in Conns |-> FALSE]
  /\ pump = [c \in Conns |-> "none"]
  /\ read = [c \in Conns |-> 0]
  /\ fate = [c \in Conns |-> "open"]
  /\ opened = 0

PumpStep(c) == PumpStarts(c) \/ PumpReads(c) \/ UpstreamEnds(c) \/ UpstreamFails(c) \/ PumpCloses(c)
RelayStep(c) ==
  PlaneReady(c) \/ PlaneUnavailable(c) \/ Asks(c) \/ GetFills(c) \/ Relays(c) \/ RelayFinalizes(c)
TabStep == Connects \/ Refused \/ BackoffEnds \/ Reads \/ StreamEnds

Next ==
  \/ \E p \in Prompts : Send(p)
  \/ TabStep \/ ConnectFails \/ LinkBreaks \/ Leaves
  \/ \E c \in Conns : PumpStep(c) \/ RelayStep(c) \/ Heartbeat(c) \/ ClientGone(c)

Spec == Init /\ [][Next]_vars

\* The tab and the event loop go on, the thread's reads return (urlopen has a
\* timeout), lease and plane are granted or refused, a disconnect is noticed.
\* Nobody has to send or to leave, and no connection has to break.
FairSpec ==
  /\ Spec
  /\ WF_vars(TabStep)
  /\ \A c \in Conns :
       WF_vars(PumpStep(c)) /\ WF_vars(RelayStep(c)) /\ WF_vars(ClientGone(c))

-----------------------------------------------------------------------------
(* Properties.                                                             *)

\* The tokens among the items are the deltas lo + 1 to hi, each once, in order.
TokensAre(items, lo, hi) ==
  LET tokens == {i \in 1..Len(items) : items[i].kind = "token"} IN
  /\ lo <= hi
  /\ {items[i].n : i \in tokens} = (lo + 1)..hi
  /\ \A i, j \in tokens : i < j => items[i].n < items[j].n

Answer(c) == [i \in 1..read[c] |-> <<c, i>>]

\* _relay: "a pending get is preserved across heartbeat ticks so no delta is
\* dropped".  The tab shows the first deltas of its connection's answer, and of
\* no other; the wire, the get and the queue hold the others that the thread has
\* read, each once and in order.
NoDeltaIsDropped ==
  conn # 0 =>
    /\ text = [i \in 1..Len(text) |-> <<conn, i>>]
    /\ TokensAre(wire \o <<get[conn]>> \o queue[conn], Len(text), read[conn])

\* EC-U2, RK-09: a turn that ends without a banner shows what the model sent on
\* one connection, all of it: not nothing, not the part before a drop, not two
\* answers in a row, and not an answer whose stream raised.
QuietTurnIsOneAnswer ==
  stream = "over" /\ ~error =>
    text # <<>> /\ \E c \in Conns : fate[c] \in Returned /\ text = Answer(c)

\* "Neither the executor thread nor a pending task leaks while the client is
\* gone": every generator whose client has gone ends, and with it its thread
\* and its get.
AbandonedIsReleased ==
  \A c \in Conns :
    gen[c] = "serving" /\ conn # c ~>
      gen[c] = "ended" /\ pump[c] = "done" /\ get[c] = NoGet

\* A message that was sent is answered or given a banner, unless the user has
\* left: the tab does not stream for ever.
MessageIsSettled == stream = "connecting" ~> stream \in {"over", "left"}

=============================================================================
