------------------------- MODULE ReasoningChatProofs -------------------------
(***************************************************************************)
(* The budget of a reasoning request, for every context window and every   *)
(* ceiling; the type of the chat, and that it loses no delta and mixes no  *)
(* two answers, for every number of connections and deltas.                *)
(***************************************************************************)
EXTENDS ReasoningChat, SequenceTheorems, TLAPS

\* The remaining room is at least one token, and fits beside a prompt that is
\* shorter than the window.
LEMMA RoomFits ==
  ASSUME NEW tokens \in Nat
  PROVE  /\ Room(tokens) \in Nat \ {0}
         /\ tokens < MaxContext => tokens + Room(tokens) = MaxContext
BY ReasoningChatAssumption DEF Room

\* FR-10, INV-12: a request that names no budget is refused only when its prompt
\* is empty or leaves no room in the window, whatever the output ceiling; an
\* admitted one never asks the model for more than the window holds, and when
\* the ceiling does not bite it gets all of what is left.
THEOREM OmittedBudgetFits ==
  \A tokens \in Nat :
    /\ Admitted(tokens) <=> tokens \in 1..(MaxContext - 1)
    /\ Admitted(tokens) => tokens + OmittedBudget(tokens) <= MaxContext
    /\ Admitted(tokens) /\ MaxOutput >= MaxContext
         => tokens + OmittedBudget(tokens) = MaxContext
<1> TAKE tokens \in Nat
<1>1. /\ OmittedBudget(tokens) \in Nat \ {0}
      /\ OmittedBudget(tokens) <= MaxOutput /\ OmittedBudget(tokens) <= Room(tokens)
      /\ MaxOutput >= Room(tokens) => OmittedBudget(tokens) = Room(tokens)
  BY RoomFits, ReasoningChatAssumption DEF OmittedBudget, Least, Room
<1>2. CASE tokens \in 1..(MaxContext - 1)
  <2>1. tokens + Room(tokens) = MaxContext /\ Room(tokens) \in Nat
    BY <1>2, RoomFits, ReasoningChatAssumption
  <2>2. Admitted(tokens)
    BY <1>1, <1>2, <2>1, ReasoningChatAssumption DEF Admitted, ContextError
  <2>3. tokens + OmittedBudget(tokens) <= MaxContext
    BY <1>1, <2>1, ReasoningChatAssumption
  <2>4. MaxOutput >= MaxContext => tokens + OmittedBudget(tokens) = MaxContext
    BY <1>1, <1>2, <2>1, ReasoningChatAssumption
  <2> QED  BY <1>2, <2>2, <2>3, <2>4
<1>3. CASE tokens \notin 1..(MaxContext - 1)
  <2>1. tokens = 0 \/ tokens >= MaxContext
    BY <1>3, ReasoningChatAssumption
  <2>2. ~Admitted(tokens)
    BY <1>1, <2>1, ReasoningChatAssumption DEF Admitted, ContextError
  <2> QED  BY <1>3, <2>2
<1> QED  BY <1>2, <1>3

\* D-8: the edge's count is right for the model's window as far as it does not
\* fall short.  The tokenizer's never does; a third of the characters does on a
\* text of which each character is a token, and then the prompt and its budget
\* may be more than the window holds.
THEOREM CountThatHolds ==
  ASSUME NEW p \in Prompts, NEW tokens \in CountTokens(p),
         Tokens[p] <= tokens, Admitted(tokens)
  PROVE  Tokens[p] + OmittedBudget(tokens) <= MaxContext
<1>1. tokens \in Nat /\ Tokens[p] \in Nat
  BY ReasoningChatAssumption DEF CountTokens, Encoded
<1>2. OmittedBudget(tokens) \in Nat
  BY <1>1, RoomFits, ReasoningChatAssumption DEF OmittedBudget, Least
<1>3. tokens + OmittedBudget(tokens) <= MaxContext
  BY <1>1, OmittedBudgetFits
<1> QED  BY <1>1, <1>2, <1>3, ReasoningChatAssumption

-----------------------------------------------------------------------------
(* The type invariant.  A retry is counted before the limit is reached, and *)
(* a message that is being connected has a connection left.                *)

Retriable ==
  /\ stream \in {"connecting", "backoff"} => opened < MaxConns /\ attempt <= MaxRetries
  /\ stream = "reading" => attempt = 0

IndInv == TypeOK /\ Retriable

\* Items travel from queue to get to wire unchanged.
LEMMA ItemTypes ==
  /\ \A n \in 0..MaxDeltas : Item("token", n) \in QueueItems
  /\ Item("error", 0) \in QueueItems /\ Item("end", 0) \in QueueItems
  /\ \A e \in QueueItems : e \in GetItems
  /\ NoGet \in GetItems /\ Pending \in GetItems
  /\ Item("error", 0) \in WireItems /\ Item("done", 0) \in WireItems
  /\ Item("heartbeat", 0) \in WireItems
  /\ \A e \in GetItems : e.kind \in {"token", "error"} => e \in WireItems
  /\ \A e \in WireItems : e.n \in 0..MaxDeltas
BY ReasoningChatAssumption DEF Item, Items, WireItems, QueueItems, GetItems, NoGet, Pending

\* What _relay sends are items of the wire.
LEMMA RelaysSends ==
  ASSUME NEW c \in Conns, get[c] \in GetItems, Relays(c)
  PROVE  \E s \in Seq(WireItems) : Sends(c, s)
<1>1. CASE get[c].kind = "token"
  <2>1. <<get[c]>> \in Seq(WireItems)
    BY <1>1, ItemTypes
  <2> QED  BY <1>1, <2>1 DEF Relays
<1>2. CASE get[c].kind = "error"
  <2>1. <<get[c], Item("done", 0)>> \in Seq(WireItems)
    BY <1>2, ItemTypes
  <2> QED  BY <1>2, <2>1 DEF Relays
<1>3. CASE get[c].kind = "end"
  <2>1. <<Item("done", 0)>> \in Seq(WireItems)
    BY ItemTypes
  <2> QED  BY <1>3, <2>1 DEF Relays
<1> QED  BY <1>1, <1>2, <1>3 DEF Relays


\* Nobody has asked anything yet.
LEMMA IndInvInit == Init => IndInv
<1> SUFFICES ASSUME Init PROVE IndInv
  OBVIOUS
<1>1. TabOK /\ Retriable
  BY ReasoningChatAssumption DEF Init, TabOK, Retriable
<1>2. ShownOK /\ FlagsOK
  <2>1. text = <<>> /\ wire = <<>>
    BY DEF Init
  <2>2. FlagsOK
    BY Zenon DEF Init, FlagsOK
  <2> QED  BY <2>1, <2>2 DEF ShownOK
<1>3. ServerOK
  BY ItemTypes, ReasoningChatAssumption DEF Init, ServerOK
<1> QED  BY <1>1, <1>2, <1>3 DEF IndInv, TypeOK

\* Only the tab moves its stream, and a connection is opened only with one left.
LEMMA TabStepOK == IndInv /\ [Next]_vars => (TabOK /\ Retriable)'
<1> SUFFICES ASSUME TabOK, Retriable, [Next]_vars PROVE (TabOK /\ Retriable)'
  BY DEF IndInv, TypeOK
<1> USE ReasoningChatAssumption DEF TabOK, Retriable
<1>1. ASSUME NEW p \in Prompts, Send(p) PROVE (TabOK /\ Retriable)'
  BY <1>1 DEF Send
<1>2. CASE Connects
  BY <1>2 DEF Connects
<1>3. CASE Refused
  BY <1>3 DEF Refused, Dropped, Settles
<1>4. CASE BackoffEnds
  BY <1>4 DEF BackoffEnds
<1>5. CASE Reads
  BY <1>5 DEF Reads
<1>6. CASE StreamEnds
  BY <1>6 DEF StreamEnds, Settles
<1>7. CASE ConnectFails
  BY <1>7 DEF ConnectFails, Dropped, Settles
<1>8. CASE LinkBreaks
  BY <1>8 DEF LinkBreaks, Dropped, Settles
<1>9. CASE Leaves
  BY <1>9 DEF Leaves
<1>10. ASSUME NEW c \in Conns, PumpStep(c) \/ RelayStep(c) \/ Heartbeat(c) \/ ClientGone(c)
      PROVE  (TabOK /\ Retriable)'
  <2>1. UNCHANGED <<tab, conn, opened>>
    BY <1>10 DEF PumpStep, RelayStep, PumpStarts, PumpReads, UpstreamEnds, UpstreamFails, PumpCloses, PlaneReady, PlaneUnavailable, Asks, GetFills, Relays, RelayFinalizes, Heartbeat, ClientGone
  <2> QED  BY <2>1 DEF tab
<1>11. CASE UNCHANGED vars
  BY <1>11 DEF vars, tab
<1> QED
  BY <1>1, <1>2, <1>3, <1>4, <1>5, <1>6, <1>7, <1>8, <1>9, <1>10, <1>11 DEF Next, TabStep

\* What is shown comes from the wire, and what is on the wire from the relay.
LEMMA ShownStepOK == IndInv /\ [Next]_vars => ShownOK'
<1> SUFFICES ASSUME TabOK, ShownOK, ServerOK, [Next]_vars PROVE ShownOK'
  BY DEF IndInv, TypeOK
<1> USE DEF ShownOK
<1>2. CASE Connects
  BY <1>2 DEF Connects
<1>3. ASSUME \/ \E p \in Prompts : Send(p)
             \/ Refused \/ ConnectFails \/ LinkBreaks \/ Leaves
      PROVE  ShownOK'
  <2>1. text' = <<>> /\ (wire' = wire \/ wire' = <<>>)
    BY <1>3, Zenon DEF Send, Refused, ConnectFails, LinkBreaks, Dropped, Leaves
  <2>2. <<>> \in Seq(Shown) /\ <<>> \in Seq(WireItems)
    OBVIOUS
  <2> QED  BY <2>1, <2>2, Zenon
<1>4. CASE BackoffEnds
  BY <1>4 DEF BackoffEnds
<1>5. CASE Reads
  <2>1. conn \in Conns
    BY <1>5, ReasoningChatAssumption DEF Reads, TabOK, Conns
  <2>2. Head(wire) \in WireItems /\ Tail(wire) \in Seq(WireItems)
    BY <1>5 DEF Reads
  <2>3. Head(wire).n \in 0..MaxDeltas
    BY <2>2, ItemTypes
  <2>4. text' \in Seq(Shown)
    <3>1. <<conn, Head(wire).n>> \in Shown
      BY <2>1, <2>3 DEF Shown
    <3> QED  BY <1>5, <3>1 DEF Reads
  <2>5. wire' \in Seq(WireItems)
    BY <1>5, <2>2 DEF Reads
  <2> QED  BY <2>4, <2>5
<1>6. CASE StreamEnds
  BY <1>6 DEF StreamEnds, Settles
<1>8. ASSUME NEW c \in Conns, PumpStep(c) \/ RelayStep(c) \/ Heartbeat(c) \/ ClientGone(c)
      PROVE  ShownOK'
  <2>1. UNCHANGED tab
    BY <1>8 DEF PumpStep, RelayStep, PumpStarts, PumpReads, UpstreamEnds, UpstreamFails, PumpCloses, PlaneReady, PlaneUnavailable, Asks, GetFills, Relays, RelayFinalizes, Heartbeat, ClientGone
  <2>2. wire' \in Seq(WireItems)
    <3>1. ASSUME NEW items \in Seq(WireItems), Sends(c, items) PROVE wire' \in Seq(WireItems)
      BY <3>1 DEF Sends
    <3>2. CASE PlaneUnavailable(c)
      <4>1. <<Item("error", 0), Item("done", 0)>> \in Seq(WireItems)
        BY ItemTypes
      <4> QED  BY <3>1, <3>2, <4>1 DEF PlaneUnavailable
    <3>3. CASE Heartbeat(c)
      <4>1. <<Item("heartbeat", 0)>> \in Seq(WireItems)
        BY ItemTypes
      <4> QED  BY <3>1, <3>3, <4>1 DEF Heartbeat
    <3>4. CASE Relays(c)
      <4>1. get[c] \in GetItems
        BY DEF ServerOK
      <4> QED  BY <3>1, <3>4, <4>1, RelaysSends
    <3>5. CASE UNCHANGED wire
      BY <3>5
    <3> QED
      BY <1>8, <3>2, <3>3, <3>4, <3>5 DEF PumpStep, RelayStep, PumpStarts, PumpReads,
         UpstreamEnds, UpstreamFails, PumpCloses, PlaneReady, Asks, GetFills, RelayFinalizes,
         ClientGone
  <2> QED  BY <2>1, <2>2 DEF tab
<1>9. CASE UNCHANGED vars
  BY <1>9 DEF vars, tab
<1> QED
  BY <1>2, <1>3, <1>4, <1>5, <1>6, <1>8, <1>9 DEF Next, TabStep

\* The flags stay Boolean.
LEMMA FlagsStepOK == IndInv /\ [Next]_vars => FlagsOK'
<1> SUFFICES ASSUME FlagsOK, [Next]_vars PROVE FlagsOK'
  BY DEF IndInv, TypeOK
<1>1. CASE Reads
  BY <1>1, Zenon DEF Reads, FlagsOK
<1>2. CASE StreamEnds
  BY <1>2, Zenon DEF StreamEnds, Settles, FlagsOK
<1>3. CASE Refused \/ ConnectFails \/ LinkBreaks
  <2>1. Dropped
    BY <1>3, Zenon DEF Refused, ConnectFails, LinkBreaks
  <2>2. gotToken' = FALSE
    BY <2>1, Zenon DEF Dropped
  <2>3. Settles(FALSE) \/ UNCHANGED error
    BY <2>1, Zenon DEF Dropped
  <2>4. error' \in BOOLEAN
    BY <2>3, Zenon DEF Settles, FlagsOK
  <2> QED  BY <2>2, <2>4, Zenon DEF FlagsOK
<1>4. CASE Leaves \/ \E p \in Prompts : Send(p)
  BY <1>4, Zenon DEF Leaves, Send, FlagsOK
<1>5. CASE Connects \/ BackoffEnds
  BY <1>5, Zenon DEF Connects, BackoffEnds, FlagsOK
<1>6. CASE \E c \in Conns : PumpStep(c) \/ RelayStep(c) \/ Heartbeat(c) \/ ClientGone(c)
  <2>1. UNCHANGED tab
    BY <1>6 DEF PumpStep, RelayStep, PumpStarts, PumpReads, UpstreamEnds, UpstreamFails,
       PumpCloses, PlaneReady, PlaneUnavailable, Asks, GetFills, Relays, RelayFinalizes,
       Heartbeat, ClientGone
  <2> QED  BY <2>1, Zenon DEF tab, FlagsOK
<1>7. CASE UNCHANGED vars
  BY <1>7, Zenon DEF vars, tab, FlagsOK
<1> QED
  BY <1>1, <1>2, <1>3, <1>4, <1>5, <1>6, <1>7 DEF Next, TabStep

\* The server's side of every connection.
LEMMA ServerStepOK == IndInv /\ [Next]_vars => ServerOK'
<1> SUFFICES ASSUME TabOK, Retriable, ServerOK, [Next]_vars PROVE ServerOK'
  BY DEF IndInv, TypeOK
<1> USE DEF ServerOK
<1>1. ASSUME NEW p \in Prompts, Send(p) PROVE ServerOK'
  BY <1>1 DEF Send, server, relay, thread
<1>2. CASE Connects
  <2>1. opened + 1 \in Conns
    BY <1>2, ReasoningChatAssumption DEF Connects, TabOK, Retriable, Conns
  <2> QED  BY <1>2, <2>1 DEF Connects, relay, thread
<1>3. CASE Refused \/ BackoffEnds \/ Reads \/ StreamEnds \/ ConnectFails \/ LinkBreaks \/ Leaves
  BY <1>3 DEF Refused, BackoffEnds, Reads, StreamEnds, ConnectFails, LinkBreaks, Leaves,
     server, relay, thread
<1>4. ASSUME NEW c \in Conns, PumpStarts(c) PROVE ServerOK'
  BY <1>4, ItemTypes, ReasoningChatAssumption DEF PumpStarts, relay, thread
<1>5. ASSUME NEW c \in Conns, PumpReads(c) PROVE ServerOK'
  <2>1. read[c] + 1 \in 0..MaxDeltas
    BY <1>5, ReasoningChatAssumption DEF PumpReads
  <2>2. Item("token", read[c] + 1) \in QueueItems
    BY <2>1, ItemTypes
  <2>3. CASE stop[c]
    BY <1>5, <2>3 DEF PumpReads
  <2>4. CASE ~stop[c]
    <3>1. /\ read' = [read EXCEPT ![c] = @ + 1]
          /\ queue' = [queue EXCEPT ![c] = Append(@, Item("token", read[c] + 1))]
          /\ UNCHANGED <<gen, get, stop, pump, fate>>
      BY <1>5, <2>4 DEF PumpReads, Put
    <3>2. Append(queue[c], Item("token", read[c] + 1)) \in Seq(QueueItems)
      BY <2>2
    <3> QED  BY <3>1, <3>2, <2>1
  <2> QED  BY <2>3, <2>4
<1>6. ASSUME NEW c \in Conns, UpstreamEnds(c) PROVE ServerOK'
  BY <1>6, ItemTypes, ReasoningChatAssumption DEF UpstreamEnds, relay, thread
<1>7. ASSUME NEW c \in Conns, UpstreamFails(c) PROVE ServerOK'
  BY <1>7, ItemTypes, ReasoningChatAssumption DEF UpstreamFails, Put, relay, thread
<1>8. ASSUME NEW c \in Conns, PumpCloses(c) PROVE ServerOK'
  BY <1>8, ItemTypes, ReasoningChatAssumption DEF PumpCloses, Put, relay, thread
<1>9. ASSUME NEW c \in Conns, PlaneReady(c) PROVE ServerOK'
  BY <1>9, ItemTypes, ReasoningChatAssumption DEF PlaneReady, relay, thread
<1>10. ASSUME NEW c \in Conns, PlaneUnavailable(c) PROVE ServerOK'
  BY <1>10, ItemTypes, ReasoningChatAssumption DEF PlaneUnavailable, relay, thread
<1>11. ASSUME NEW c \in Conns, Asks(c) PROVE ServerOK'
  BY <1>11, ItemTypes, ReasoningChatAssumption DEF Asks, relay, thread
<1>12. ASSUME NEW c \in Conns, GetFills(c) PROVE ServerOK'
  BY <1>12, ItemTypes, ReasoningChatAssumption DEF GetFills, relay, thread
<1>13. ASSUME NEW c \in Conns, Relays(c) PROVE ServerOK'
  <2>1. gen' \in [Conns -> {"none", "waiting", "serving", "ended"}] /\ stop' \in [Conns -> BOOLEAN]
    BY <1>13 DEF Relays
  <2>2. queue' \in [Conns -> Seq(QueueItems)]
    BY <1>13 DEF Relays
  <2>3. get' \in [Conns -> GetItems]
    BY <1>13, ItemTypes DEF Relays
  <2> QED  BY <1>13, <2>1, <2>2, <2>3 DEF Relays, thread
<1>14. ASSUME NEW c \in Conns, RelayFinalizes(c) PROVE ServerOK'
  BY <1>14, ItemTypes, ReasoningChatAssumption DEF RelayFinalizes, relay, thread
<1>15. ASSUME NEW c \in Conns, Heartbeat(c) PROVE ServerOK'
  BY <1>15, ItemTypes, ReasoningChatAssumption DEF Heartbeat, relay, thread
<1>16. ASSUME NEW c \in Conns, ClientGone(c) PROVE ServerOK'
  BY <1>16, ItemTypes, ReasoningChatAssumption DEF ClientGone, relay, thread
<1>17. CASE UNCHANGED vars
  BY <1>17 DEF vars, relay, thread
<1> QED
  BY <1>1, <1>2, <1>3, <1>4, <1>5, <1>6, <1>7, <1>8, <1>9, <1>10, <1>11, <1>12, <1>13, <1>14, <1>15, <1>16, <1>17
     DEF Next, TabStep, PumpStep, RelayStep

\* Every step keeps the types.
LEMMA IndInvStep == IndInv /\ [Next]_vars => IndInv'
BY TabStepOK, ShownStepOK, FlagsStepOK, ServerStepOK DEF IndInv, TypeOK

\* The chat keeps its types: no connection beyond the bound, no retry beyond the
\* limit, a connection exactly while the tab is reading.
THEOREM ChatTypeCorrect == Spec => []TypeOK
<1>1. IndInv => TypeOK
  BY DEF IndInv
<1> QED  BY IndInvInit, IndInvStep, <1>1, PTL DEF Spec

-----------------------------------------------------------------------------
(* The deltas on their way.                                                *)

\* The items that a sequence may carry, as far as their numbers matter.
Carried ==
  [kind : {"none", "pending", "token", "error", "end", "heartbeat", "done"}, n : Nat]

\* TokensAre, position by position: each token is one of the deltas, each delta
\* is a token, and the tokens rise.
Within(items, lo, hi) ==
  \A i \in 1..Len(items) : items[i].kind = "token" => lo < items[i].n /\ items[i].n <= hi

Covered(items, lo, hi) ==
  \A n \in (lo + 1)..hi : \E i \in 1..Len(items) : items[i].kind = "token" /\ items[i].n = n

Rising(items) ==
  \A i, j \in 1..Len(items) :
    i < j /\ items[i].kind = "token" /\ items[j].kind = "token" => items[i].n < items[j].n

TokensAt(items, lo, hi) ==
  lo <= hi /\ Within(items, lo, hi) /\ Covered(items, lo, hi) /\ Rising(items)

\* Every carried item has a number.
LEMMA CarriedNumber ==
  ASSUME NEW items \in Seq(Carried)
  PROVE  \A i \in 1..Len(items) : items[i].n \in Nat
<1> TAKE i \in 1..Len(items)
<1>1. items[i] \in Carried
  OBVIOUS
<1> QED  BY <1>1 DEF Carried

\* The numbers of the tokens are lo + 1 to hi exactly when each of them is one of
\* these and each of these is one of theirs.
LEMMA TokensByPosition ==
  ASSUME NEW items \in Seq(Carried), NEW lo \in Nat, NEW hi \in Nat
  PROVE  TokensAre(items, lo, hi) <=> TokensAt(items, lo, hi)
<1> DEFINE tokens == {i \in 1..Len(items) : items[i].kind = "token"}
<1>1. \A i \in 1..Len(items) : items[i].n \in Nat
  BY CarriedNumber
<1>2. {items[i].n : i \in tokens} = (lo + 1)..hi
        <=> /\ \A i \in tokens : lo < items[i].n /\ items[i].n <= hi
            /\ \A n \in (lo + 1)..hi : \E i \in tokens : items[i].n = n
  <2>1. ASSUME {items[i].n : i \in tokens} = (lo + 1)..hi
        PROVE  /\ \A i \in tokens : lo < items[i].n /\ items[i].n <= hi
               /\ \A n \in (lo + 1)..hi : \E i \in tokens : items[i].n = n
    <3>1. \A i \in tokens : items[i].n \in (lo + 1)..hi
      BY <2>1
    <3>2. \A n \in (lo + 1)..hi : \E i \in tokens : items[i].n = n
      BY <2>1
    <3>3. \A i \in tokens : lo < items[i].n /\ items[i].n <= hi
      BY <1>1, <3>1
    <3> QED  BY <3>2, <3>3
  <2>2. ASSUME \A i \in tokens : lo < items[i].n /\ items[i].n <= hi,
               \A n \in (lo + 1)..hi : \E i \in tokens : items[i].n = n
        PROVE  {items[i].n : i \in tokens} = (lo + 1)..hi
    <3>1. \A i \in tokens : items[i].n \in (lo + 1)..hi
      BY <1>1, <2>2
    <3>2. {items[i].n : i \in tokens} \subseteq (lo + 1)..hi
      BY <3>1
    <3>3. (lo + 1)..hi \subseteq {items[i].n : i \in tokens}
      BY <2>2
    <3> QED  BY <3>2, <3>3
  <2> QED  BY <2>1, <2>2
<1>3. TokensAre(items, lo, hi) <=>
        /\ lo <= hi /\ {items[i].n : i \in tokens} = (lo + 1)..hi
        /\ \A i, j \in tokens : i < j => items[i].n < items[j].n
  BY DEF TokensAre
<1>4. /\ (\A i \in tokens : lo < items[i].n /\ items[i].n <= hi) <=> Within(items, lo, hi)
      /\ (\A n \in (lo + 1)..hi : \E i \in tokens : items[i].n = n) <=> Covered(items, lo, hi)
      /\ (\A i, j \in tokens : i < j => items[i].n < items[j].n) <=> Rising(items)
  BY DEF Within, Covered, Rising
<1> HIDE DEF tokens
<1> QED  BY <1>2, <1>3, <1>4 DEF TokensAt

\* No items, no deltas.
LEMMA NoTokens ==
  ASSUME NEW lo \in Nat
  PROVE  TokensAre(<<>>, lo, lo)
<1>1. <<>> \in Seq(Carried) /\ Len(<<>>) = 0
  BY EmptySeq
<1>2. (lo + 1)..lo = {}
  OBVIOUS
<1>3. TokensAt(<<>>, lo, lo)
  BY <1>1, <1>2 DEF TokensAt, Within, Covered, Rising
<1> QED  BY <1>1, <1>3, TokensByPosition

\* A delta that is put behind the others is the next one.
LEMMA TokensGrow ==
  ASSUME NEW items \in Seq(Carried), NEW lo \in Nat, NEW hi \in Nat, NEW e \in Carried,
         TokensAre(items, lo, hi)
  PROVE  /\ e.kind = "token" /\ e.n = hi + 1 => TokensAre(Append(items, e), lo, hi + 1)
         /\ e.kind # "token" => TokensAre(Append(items, e), lo, hi)
<1> DEFINE more == Append(items, e)
<1>1. /\ more \in Seq(Carried) /\ Len(more) = Len(items) + 1 /\ Len(items) \in Nat
      /\ more[Len(items) + 1] = e
      /\ \A i \in 1..Len(items) : more[i] = items[i]
  OBVIOUS
<1>2. TokensAt(items, lo, hi)
  BY TokensByPosition
<1>3. \A i \in 1..Len(items) : items[i].n \in Nat
  BY CarriedNumber
<1> HIDE DEF more
<1>4. ASSUME e.kind = "token", e.n = hi + 1 PROVE TokensAre(more, lo, hi + 1)
  <2>1. Within(more, lo, hi + 1)
    BY <1>1, <1>2, <1>3, <1>4 DEF TokensAt, Within
  <2>2. Covered(more, lo, hi + 1)
    <3> SUFFICES ASSUME NEW n \in (lo + 1)..(hi + 1)
                 PROVE  \E i \in 1..Len(more) : more[i].kind = "token" /\ more[i].n = n
      BY DEF Covered
    <3>1. CASE n = hi + 1
      BY <1>1, <1>4, <3>1
    <3>2. CASE n # hi + 1
      <4>1. n \in (lo + 1)..hi
        BY <3>2
      <4>2. PICK i \in 1..Len(items) : items[i].kind = "token" /\ items[i].n = n
        BY <1>2, <4>1 DEF TokensAt, Covered
      <4> QED  BY <1>1, <4>2
    <3> QED  BY <3>1, <3>2
  <2>3. Rising(more)
    <3> SUFFICES ASSUME NEW i \in 1..Len(more), NEW j \in 1..Len(more), i < j,
                        more[i].kind = "token", more[j].kind = "token"
                 PROVE  more[i].n < more[j].n
      BY DEF Rising
    <3>1. i \in 1..Len(items) /\ more[i] = items[i]
      BY <1>1
    <3>2. CASE j \in 1..Len(items)
      <4>1. more[j] = items[j]
        BY <1>1, <3>2
      <4> QED  BY <1>2, <3>1, <3>2, <4>1 DEF TokensAt, Rising
    <3>3. CASE j = Len(items) + 1
      <4>1. items[i].n <= hi /\ items[i].n \in Nat
        BY <1>2, <1>3, <3>1 DEF TokensAt, Within
      <4> QED  BY <1>1, <1>4, <3>1, <3>3, <4>1
    <3> QED  BY <1>1, <3>2, <3>3
  <2>4. TokensAt(more, lo, hi + 1)
    BY <1>2, <2>1, <2>2, <2>3 DEF TokensAt
  <2> QED  BY <1>1, <2>4, TokensByPosition
<1>5. ASSUME e.kind # "token" PROVE TokensAre(more, lo, hi)
  <2>1. Covered(more, lo, hi)
    <3> SUFFICES ASSUME NEW n \in (lo + 1)..hi
                 PROVE  \E i \in 1..Len(more) : more[i].kind = "token" /\ more[i].n = n
      BY DEF Covered
    <3>1. PICK i \in 1..Len(items) : items[i].kind = "token" /\ items[i].n = n
      BY <1>2 DEF TokensAt, Covered
    <3> QED  BY <1>1, <3>1
  <2>3. \A i \in 1..Len(more) : more[i].kind = "token" => i \in 1..Len(items) /\ more[i] = items[i]
    BY <1>1, <1>5
  <2>2. Within(more, lo, hi) /\ Rising(more)
    BY <1>1, <1>2, <2>3 DEF TokensAt, Within, Rising
  <2>4. TokensAt(more, lo, hi)
    BY <1>2, <2>1, <2>2 DEF TokensAt
  <2> QED  BY <1>1, <2>4, TokensByPosition
<1> QED  BY <1>4, <1>5 DEF more

\* The first delta is the lowest; without it the rest go on from there.
LEMMA TokensShrink ==
  ASSUME NEW items \in Seq(Carried), NEW lo \in Nat, NEW hi \in Nat, items # <<>>,
         TokensAre(items, lo, hi)
  PROVE  /\ Head(items).kind = "token" =>
              lo + 1 <= hi /\ Head(items).n = lo + 1 /\ TokensAre(Tail(items), lo + 1, hi)
         /\ Head(items).kind # "token" => TokensAre(Tail(items), lo, hi)
<1> DEFINE rest == Tail(items)
           first == Head(items)
<1>1. /\ rest \in Seq(Carried) /\ Len(items) = Len(rest) + 1 /\ Len(rest) \in Nat
      /\ items[1] = first
      /\ \A i \in 1..Len(rest) : rest[i] = items[i + 1]
  BY HeadTailProperties
<1>2. TokensAt(items, lo, hi)
  BY TokensByPosition
<1>3. \A i \in 1..Len(items) : items[i].n \in Nat
  BY CarriedNumber
<1> HIDE DEF rest, first
<1>6. \A i \in 2..Len(items) : (i - 1) \in 1..Len(rest) /\ rest[i - 1] = items[i]
  BY <1>1
<1>4. ASSUME first.kind = "token"
      PROVE  lo + 1 <= hi /\ first.n = lo + 1 /\ TokensAre(rest, lo + 1, hi)
  <2>1. lo < first.n /\ first.n <= hi /\ first.n \in Nat
    BY <1>1, <1>2, <1>3, <1>4 DEF TokensAt, Within
  <2>2. \A i \in 2..Len(items) : items[i].kind = "token" => first.n < items[i].n
    BY <1>1, <1>2, <1>4 DEF TokensAt, Rising
  <2>3. first.n = lo + 1
    <3>1. PICK i \in 1..Len(items) : items[i].kind = "token" /\ items[i].n = lo + 1
      BY <1>2, <2>1 DEF TokensAt, Covered
    <3>2. CASE i = 1
      BY <1>1, <3>1, <3>2
    <3>3. CASE i # 1
      BY <2>1, <2>2, <3>1, <3>3
    <3> QED  BY <3>2, <3>3
  <2>4. Within(rest, lo + 1, hi)
    BY <1>1, <1>2, <2>2, <2>3 DEF TokensAt, Within
  <2>5. Covered(rest, lo + 1, hi)
    <3> SUFFICES ASSUME NEW n \in (lo + 2)..hi
                 PROVE  \E i \in 1..Len(rest) : rest[i].kind = "token" /\ rest[i].n = n
      BY DEF Covered
    <3>1. PICK i \in 1..Len(items) : items[i].kind = "token" /\ items[i].n = n
      BY <1>2 DEF TokensAt, Covered
    <3>2. i # 1
      BY <1>1, <2>3, <3>1
    <3> QED  BY <1>6, <3>1, <3>2
  <2>6. Rising(rest)
    <3> SUFFICES ASSUME NEW i \in 1..Len(rest), NEW j \in 1..Len(rest), i < j,
                        rest[i].kind = "token", rest[j].kind = "token"
                 PROVE  rest[i].n < rest[j].n
      BY DEF Rising
    <3>1. rest[i] = items[i + 1] /\ rest[j] = items[j + 1] /\ i + 1 \in 1..Len(items) /\ j + 1 \in 1..Len(items)
      BY <1>1
    <3> QED  BY <1>2, <3>1 DEF TokensAt, Rising
  <2>7. TokensAt(rest, lo + 1, hi)
    BY <2>1, <2>4, <2>5, <2>6 DEF TokensAt
  <2> QED  BY <1>1, <2>1, <2>3, <2>7, TokensByPosition
<1>5. ASSUME first.kind # "token" PROVE TokensAre(rest, lo, hi)
  <2>4. Within(rest, lo, hi)
    BY <1>1, <1>2 DEF TokensAt, Within
  <2>5. Covered(rest, lo, hi)
    <3> SUFFICES ASSUME NEW n \in (lo + 1)..hi
                 PROVE  \E i \in 1..Len(rest) : rest[i].kind = "token" /\ rest[i].n = n
      BY DEF Covered
    <3>1. PICK i \in 1..Len(items) : items[i].kind = "token" /\ items[i].n = n
      BY <1>2 DEF TokensAt, Covered
    <3>2. i # 1
      BY <1>1, <1>5, <3>1
    <3> QED  BY <1>6, <3>1, <3>2
  <2>6. Rising(rest)
    <3> SUFFICES ASSUME NEW i \in 1..Len(rest), NEW j \in 1..Len(rest), i < j,
                        rest[i].kind = "token", rest[j].kind = "token"
                 PROVE  rest[i].n < rest[j].n
      BY DEF Rising
    <3>1. rest[i] = items[i + 1] /\ rest[j] = items[j + 1] /\ i + 1 \in 1..Len(items) /\ j + 1 \in 1..Len(items)
      BY <1>1
    <3> QED  BY <1>2, <3>1 DEF TokensAt, Rising
  <2>7. TokensAt(rest, lo, hi)
    BY <1>2, <2>4, <2>5, <2>6 DEF TokensAt
  <2> QED  BY <1>1, <2>7, TokensByPosition
<1> QED  BY <1>4, <1>5 DEF rest, first

\* Two stretches of deltas, one behind the other.
LEMMA TokensJoin ==
  ASSUME NEW front \in Seq(Carried), NEW back \in Seq(Carried),
         NEW lo \in Nat, NEW mid \in Nat, NEW hi \in Nat,
         TokensAre(front, lo, mid), TokensAre(back, mid, hi)
  PROVE  TokensAre(front \o back, lo, hi)
<1> DEFINE all == front \o back
<1>1. /\ all \in Seq(Carried) /\ Len(all) = Len(front) + Len(back)
      /\ Len(front) \in Nat /\ Len(back) \in Nat
      /\ \A i \in 1..Len(front) : all[i] = front[i]
      /\ \A i \in 1..Len(back) : all[Len(front) + i] = back[i]
  BY ConcatProperties
<1>2. TokensAt(front, lo, mid) /\ TokensAt(back, mid, hi)
  BY TokensByPosition
<1>3. /\ \A i \in 1..Len(front) : front[i].n \in Nat
      /\ \A i \in 1..Len(back) : back[i].n \in Nat
  BY CarriedNumber
<1> HIDE DEF all
<1>4. \A i \in 1..Len(all) :
        \/ i \in 1..Len(front) /\ all[i] = front[i]
        \/ i - Len(front) \in 1..Len(back) /\ all[i] = back[i - Len(front)] /\ i > Len(front)
  <2> TAKE i \in 1..Len(all)
  <2>1. CASE i <= Len(front)
    BY <1>1, <2>1
  <2>2. CASE i > Len(front)
    <3>1. i - Len(front) \in 1..Len(back) /\ Len(front) + (i - Len(front)) = i
      BY <1>1, <2>2
    <3> QED  BY <1>1, <2>2, <3>1
  <2> QED  BY <1>1, <2>1, <2>2
<1>5. Within(all, lo, hi)
  <2> SUFFICES ASSUME NEW i \in 1..Len(all), all[i].kind = "token"
               PROVE  lo < all[i].n /\ all[i].n <= hi
    BY DEF Within
  <2>1. CASE i \in 1..Len(front) /\ all[i] = front[i]
    BY <1>2, <1>3, <2>1 DEF TokensAt, Within
  <2>2. CASE i - Len(front) \in 1..Len(back) /\ all[i] = back[i - Len(front)]
    BY <1>2, <1>3, <2>2 DEF TokensAt, Within
  <2> QED  BY <1>4, <2>1, <2>2
<1>6. Covered(all, lo, hi)
  <2> SUFFICES ASSUME NEW n \in (lo + 1)..hi
               PROVE  \E i \in 1..Len(all) : all[i].kind = "token" /\ all[i].n = n
    BY DEF Covered
  <2>1. CASE n <= mid
    <3>1. PICK i \in 1..Len(front) : front[i].kind = "token" /\ front[i].n = n
      BY <1>2, <2>1 DEF TokensAt, Covered
    <3> QED  BY <1>1, <3>1
  <2>2. CASE n > mid
    <3>1. PICK i \in 1..Len(back) : back[i].kind = "token" /\ back[i].n = n
      BY <1>2, <2>2 DEF TokensAt, Covered
    <3>2. Len(front) + i \in 1..Len(all)
      BY <1>1
    <3> QED  BY <1>1, <3>1, <3>2
  <2> QED  BY <2>1, <2>2
<1>7. Rising(all)
  <2> SUFFICES ASSUME NEW i \in 1..Len(all), NEW j \in 1..Len(all), i < j,
                      all[i].kind = "token", all[j].kind = "token"
               PROVE  all[i].n < all[j].n
    BY DEF Rising
  <2>1. CASE j \in 1..Len(front)
    <3>1. i \in 1..Len(front) /\ all[i] = front[i] /\ all[j] = front[j]
      BY <1>1, <2>1
    <3> QED  BY <1>2, <2>1, <3>1 DEF TokensAt, Rising
  <2>2. CASE i \notin 1..Len(front)
    <3>1. PICK k \in 1..Len(back) : all[i] = back[k] /\ k = i - Len(front)
      BY <1>4, <2>2
    <3>2. j \notin 1..Len(front)
      BY <1>1, <2>2
    <3>3. PICK m \in 1..Len(back) : all[j] = back[m] /\ m = j - Len(front)
      BY <1>4, <3>2
    <3>4. k < m
      BY <1>1, <3>1, <3>3
    <3> QED  BY <1>2, <3>1, <3>3, <3>4 DEF TokensAt, Rising
  <2>3. CASE i \in 1..Len(front) /\ j \notin 1..Len(front)
    <3>1. all[i] = front[i]
      BY <1>1, <2>3
    <3>2. PICK m \in 1..Len(back) : all[j] = back[m]
      BY <1>4, <2>3
    <3>3. front[i].n <= mid
      BY <1>2, <2>3, <3>1 DEF TokensAt, Within
    <3>4. mid < back[m].n
      BY <1>2, <3>2 DEF TokensAt, Within
    <3> QED  BY <1>3, <2>3, <3>1, <3>2, <3>3, <3>4
  <2> QED  BY <2>1, <2>2, <2>3
<1>8. TokensAt(all, lo, hi)
  BY <1>2, <1>5, <1>6, <1>7 DEF TokensAt
<1> QED  BY <1>1, <1>8, TokensByPosition DEF all

\* A single item holds one delta or none.
LEMMA TokensOfOne ==
  ASSUME NEW e \in Carried, NEW lo \in Nat, NEW hi \in Nat
  PROVE  /\ e.kind = "token" => (TokensAre(<<e>>, lo, hi) <=> hi = lo + 1 /\ e.n = hi)
         /\ e.kind # "token" => (TokensAre(<<e>>, lo, hi) <=> hi = lo)
<1>1. <<e>> \in Seq(Carried) /\ Len(<<e>>) = 1 /\ <<e>>[1] = e
  OBVIOUS
<1>2. TokensAre(<<e>>, lo, hi) <=> TokensAt(<<e>>, lo, hi)
  BY <1>1, TokensByPosition
<1>3. e.n \in Nat
  BY DEF Carried
<1>4. TokensAt(<<e>>, lo, hi) <=>
        /\ lo <= hi
        /\ e.kind = "token" => lo < e.n /\ e.n <= hi
        /\ \A n \in (lo + 1)..hi : e.kind = "token" /\ e.n = n
  BY <1>1 DEF TokensAt, Within, Covered, Rising
<1>5. CASE e.kind = "token"
  <2>1. ASSUME TokensAt(<<e>>, lo, hi) PROVE hi = lo + 1 /\ e.n = hi
    <3>1. lo < e.n /\ e.n <= hi /\ \A n \in (lo + 1)..hi : e.n = n
      BY <1>4, <1>5, <2>1
    <3>2. lo + 1 \in (lo + 1)..hi /\ hi \in (lo + 1)..hi
      BY <1>3, <3>1
    <3> QED  BY <3>1, <3>2
  <2>2. ASSUME hi = lo + 1, e.n = hi PROVE TokensAt(<<e>>, lo, hi)
    BY <1>4, <1>5, <2>2
  <2> QED  BY <1>2, <1>5, <2>1, <2>2
<1>6. CASE e.kind # "token"
  <2>1. ASSUME TokensAt(<<e>>, lo, hi) PROVE hi = lo
    <3>1. lo <= hi /\ \A n \in (lo + 1)..hi : FALSE
      BY <1>4, <1>6, <2>1
    <3>2. lo < hi => hi \in (lo + 1)..hi
      OBVIOUS
    <3> QED  BY <3>1, <3>2
  <2>2. ASSUME hi = lo PROVE TokensAt(<<e>>, lo, hi)
    <3>1. (lo + 1)..hi = {}
      BY <2>2
    <3> QED  BY <1>4, <1>6, <2>2, <3>1
  <2> QED  BY <1>2, <1>6, <2>1, <2>2
<1> QED  BY <1>5, <1>6

\* Two items without a delta.
LEMMA TokensOfTwo ==
  ASSUME NEW e \in Carried, NEW f \in Carried, e.kind # "token", f.kind # "token", NEW lo \in Nat
  PROVE  TokensAre(<<e, f>>, lo, lo)
<1>1. TokensAre(<<e>>, lo, lo)
  BY TokensOfOne
<1>2. <<e>> \in Seq(Carried) /\ Append(<<e>>, f) = <<e, f>>
  <2>1. <<e>> \in Seq(Carried) /\ <<e, f>> \in Seq(Carried) /\ Len(<<e>>) = 1 /\ Len(<<e, f>>) = 2
    OBVIOUS
  <2>2. /\ Append(<<e>>, f) \in Seq(Carried) /\ Len(Append(<<e>>, f)) = 2
        /\ Append(<<e>>, f)[1] = e /\ Append(<<e>>, f)[2] = f
    BY <2>1, AppendProperties
  <2>3. <<e, f>>[1] = e /\ <<e, f>>[2] = f
    OBVIOUS
  <2> DEFINE s == Append(<<e>>, f)
             t == <<e, f>>
  <2>5. s \in Seq(Carried) /\ t \in Seq(Carried) /\ Len(s) = Len(t)
    BY <2>1, <2>2
  <2>6. \A i \in 1..Len(s) : s[i] = t[i]
    BY <2>1, <2>2, <2>3
  <2> HIDE DEF s, t
  <2>7. s = t
    BY <2>5, <2>6, SeqEqual
  <2> QED  BY <2>1, <2>7 DEF s, t
<1>3. TokensAre(Append(<<e>>, f), lo, lo)
  BY <1>1, <1>2, TokensGrow
<1> QED  BY <1>2, <1>3

\* Where there is no token, no delta is.
LEMMA TokensOfNone ==
  ASSUME NEW items \in Seq(Carried), NEW lo \in Nat, NEW hi \in Nat,
         TokensAre(items, lo, hi), \A i \in 1..Len(items) : items[i].kind # "token"
  PROVE  lo = hi
<1>1. lo <= hi /\ \A n \in (lo + 1)..hi : \E i \in 1..Len(items) : items[i].kind = "token"
  BY TokensByPosition DEF TokensAt, Covered
<1>2. lo < hi => hi \in (lo + 1)..hi
  OBVIOUS
<1> QED  BY <1>1, <1>2

\* What is sent, asked for and queued are items of that kind.
LEMMA AllCarried ==
  /\ WireItems \subseteq Carried /\ GetItems \subseteq Carried
  /\ Seq(WireItems) \subseteq Seq(Carried) /\ Seq(QueueItems) \subseteq Seq(Carried)
<1>1. WireItems \subseteq Carried
  BY ReasoningChatAssumption DEF WireItems, Items, Carried
<1>2. QueueItems \subseteq Carried
  BY ReasoningChatAssumption DEF QueueItems, Items, Carried
<1>3. NoGet \in Carried /\ Pending \in Carried
  BY DEF NoGet, Pending, Item, Carried
<1>4. GetItems \subseteq Carried
  BY <1>2, <1>3 DEF GetItems
<1> QED  BY <1>1, <1>2, <1>4, SeqMonotonic

-----------------------------------------------------------------------------
(* The pipe between the thread and the generator: the get and the queue    *)
(* behind it, by what the thread has done.                                 *)

Breaks == {"error", "end"}

\* A pipe without an error or an end while the thread reads; no token behind
\* one; an end once the thread is done, behind the error of an answer that
\* failed.
WellPiped(g, q, p, f) ==
  /\ p \in {"none", "queued", "reading"} =>
       /\ f = "open" /\ g.kind \notin Breaks
       /\ \A i \in 1..Len(q) : q[i].kind \notin Breaks
  /\ g.kind \in Breaks => \A i \in 1..Len(q) : q[i].kind # "token"
  /\ \A i, j \in 1..Len(q) : i < j /\ q[i].kind \in Breaks => q[j].kind # "token"
  /\ g.kind = "end" => p = "done" /\ f \in Returned
  /\ \A i \in 1..Len(q) : q[i].kind = "end" =>
       /\ p = "done"
       /\ f \in Returned \/ g.kind = "error" \/ \E k \in 1..(i - 1) : q[k].kind = "error"
  /\ p = "closing" =>
       f \in Returned \/ g.kind = "error" \/ \E k \in 1..Len(q) : q[k].kind = "error"

\* What the thread puts.
LEMMA PipePut ==
  ASSUME NEW q \in Seq(QueueItems), NEW e \in QueueItems, NEW g, NEW p, NEW f,
         WellPiped(g, q, p, f)
  PROVE  /\ p = "reading" /\ e.kind = "token" => WellPiped(g, Append(q, e), "reading", f)
         /\ p = "reading" /\ e.kind = "error" => WellPiped(g, Append(q, e), "closing", "failed")
         /\ p = "closing" /\ e.kind = "end" => WellPiped(g, Append(q, e), "done", f)
<1> DEFINE more == Append(q, e)
<1>1. /\ Len(more) = Len(q) + 1 /\ Len(q) \in Nat
      /\ more[Len(q) + 1] = e
      /\ \A i \in 1..Len(q) : more[i] = q[i]
  OBVIOUS
<1> HIDE DEF more
<1>2. \A i \in 1..Len(more) : i \in 1..Len(q) \/ i = Len(q) + 1
  BY <1>1
<1>3. ASSUME p = "reading", e.kind = "token" PROVE WellPiped(g, more, "reading", f)
  BY <1>1, <1>2, <1>3 DEF WellPiped, Breaks
<1>4. ASSUME p = "reading", e.kind = "error" PROVE WellPiped(g, more, "closing", "failed")
  <2>1. /\ g.kind \notin Breaks /\ \A i \in 1..Len(q) : q[i].kind \notin Breaks
    BY <1>4 DEF WellPiped
  <2>2. \A i \in 1..Len(more) : more[i].kind \in Breaks => i = Len(q) + 1
    BY <1>1, <1>2, <2>1
  <2>3. \E k \in 1..Len(more) : more[k].kind = "error"
    BY <1>1, <1>4
  <2>4. \A i \in 1..Len(more) : more[i].kind # "end"
    BY <1>1, <1>2, <1>4, <2>1 DEF Breaks
  <2>5. \A i, j \in 1..Len(more) : i < j => more[i].kind \notin Breaks
    BY <1>1, <2>2
  <2> QED  BY <2>1, <2>3, <2>4, <2>5 DEF WellPiped, Breaks
<1>5. ASSUME p = "closing", e.kind = "end" PROVE WellPiped(g, more, "done", f)
  <2>1. /\ g.kind # "end" /\ \A i \in 1..Len(q) : q[i].kind # "end"
    BY <1>5 DEF WellPiped
  <2>2. f \in Returned \/ g.kind = "error" \/ \E k \in 1..Len(q) : more[k].kind = "error"
    BY <1>1, <1>5 DEF WellPiped
  <2>3. \A i \in 1..Len(more) : more[i].kind = "end" => i = Len(q) + 1
    BY <1>1, <1>2, <2>1
  <2>4. \A i \in 1..Len(more) : more[i].kind = "end" =>
          f \in Returned \/ g.kind = "error" \/ \E k \in 1..(i - 1) : more[k].kind = "error"
    <3> SUFFICES ASSUME NEW i \in 1..Len(more), more[i].kind = "end"
                 PROVE  f \in Returned \/ g.kind = "error" \/ \E k \in 1..(i - 1) : more[k].kind = "error"
      OBVIOUS
    <3>1. i - 1 = Len(q)
      BY <1>1, <2>3
    <3> QED  BY <2>2, <3>1
  <2>5. /\ g.kind \in Breaks => \A i \in 1..Len(more) : more[i].kind # "token"
        /\ \A i, j \in 1..Len(more) : i < j /\ more[i].kind \in Breaks => more[j].kind # "token"
    BY <1>1, <1>2, <1>5 DEF WellPiped, Breaks
  <2> QED  BY <2>1, <2>4, <2>5 DEF WellPiped, Breaks
<1> QED  BY <1>3, <1>4, <1>5 DEF more

\* What _relay takes: the first of the queue becomes the get.
LEMMA PipeTake ==
  ASSUME NEW q \in Seq(QueueItems), NEW p, NEW f, q # <<>>, WellPiped(Pending, q, p, f)
  PROVE  WellPiped(Head(q), Tail(q), p, f)
<1> DEFINE rest == Tail(q)
           first == Head(q)
<1>1. /\ Len(q) = Len(rest) + 1 /\ Len(rest) \in Nat /\ q[1] = first
      /\ \A i \in 1..Len(rest) : rest[i] = q[i + 1]
  BY HeadTailProperties
<1>2. Pending.kind = "pending"
  BY DEF Pending, Item
<1> HIDE DEF rest, first
<1>3. \A k \in 1..Len(q) : k = 1 \/ (k - 1 \in 1..Len(rest) /\ rest[k - 1] = q[k])
  BY <1>1
<1>4. \A i \in 1..Len(rest) : i + 1 \in 1..Len(q) /\ rest[i] = q[i + 1]
  BY <1>1
<1>5. p \in {"none", "queued", "reading"} =>
        /\ f = "open" /\ first.kind \notin Breaks
        /\ \A i \in 1..Len(rest) : rest[i].kind \notin Breaks
  BY <1>1, <1>4 DEF WellPiped
<1>6. first.kind \in Breaks => \A i \in 1..Len(rest) : rest[i].kind # "token"
  <2> SUFFICES ASSUME first.kind \in Breaks, NEW i \in 1..Len(rest) PROVE rest[i].kind # "token"
    OBVIOUS
  <2>1. 1 \in 1..Len(q) /\ i + 1 \in 1..Len(q) /\ 1 < i + 1
    BY <1>1
  <2> QED  BY <1>1, <2>1 DEF WellPiped
<1>7. \A i, j \in 1..Len(rest) : i < j /\ rest[i].kind \in Breaks => rest[j].kind # "token"
  <2> SUFFICES ASSUME NEW i \in 1..Len(rest), NEW j \in 1..Len(rest), i < j, rest[i].kind \in Breaks
               PROVE  rest[j].kind # "token"
    OBVIOUS
  <2>1. i + 1 \in 1..Len(q) /\ j + 1 \in 1..Len(q) /\ i + 1 < j + 1
    BY <1>1
  <2> QED  BY <1>1, <2>1 DEF WellPiped
<1>8. first.kind = "end" => p = "done" /\ f \in Returned
  <2>1. 1 \in 1..Len(q) /\ 1..(1 - 1) = {}
    BY <1>1
  <2> QED  BY <1>1, <1>2, <2>1 DEF WellPiped
<1>9. \A i \in 1..Len(rest) : rest[i].kind = "end" =>
        /\ p = "done"
        /\ f \in Returned \/ first.kind = "error" \/ \E k \in 1..(i - 1) : rest[k].kind = "error"
  <2> SUFFICES ASSUME NEW i \in 1..Len(rest), rest[i].kind = "end"
               PROVE  /\ p = "done"
                      /\ f \in Returned \/ first.kind = "error" \/ \E k \in 1..(i - 1) : rest[k].kind = "error"
    OBVIOUS
  <2>1. i + 1 \in 1..Len(q) /\ q[i + 1].kind = "end"
    BY <1>1
  <2>2. p = "done" /\ (f \in Returned \/ \E k \in 1..i : q[k].kind = "error")
    BY <1>2, <2>1 DEF WellPiped
  <2>3. ASSUME NEW k \in 1..i, q[k].kind = "error"
        PROVE  first.kind = "error" \/ \E m \in 1..(i - 1) : rest[m].kind = "error"
    <3>1. CASE k = 1
      BY <1>1, <2>3, <3>1
    <3>2. CASE k # 1
      <4>1. k - 1 \in 1..(i - 1) /\ k - 1 \in 1..Len(rest) /\ rest[k - 1] = q[k]
        BY <1>1, <3>2
      <4> QED  BY <2>3, <4>1
    <3> QED  BY <3>1, <3>2
  <2> QED  BY <2>2, <2>3
<1>10. p = "closing" => f \in Returned \/ first.kind = "error" \/ \E k \in 1..Len(rest) : rest[k].kind = "error"
  <2>1. ASSUME NEW k \in 1..Len(q), q[k].kind = "error"
        PROVE  first.kind = "error" \/ \E m \in 1..Len(rest) : rest[m].kind = "error"
    BY <1>1, <1>3, <2>1
  <2> QED  BY <1>2, <2>1 DEF WellPiped
<1>11. WellPiped(first, rest, p, f)
  BY <1>5, <1>6, <1>7, <1>8, <1>9, <1>10 DEF WellPiped
<1> QED  BY <1>11 DEF first, rest

\* What moves no item but the get: the thread starts, the stream returns, a
\* get is asked for, a token is passed on.
LEMMA PipeMove ==
  ASSUME NEW q \in Seq(QueueItems), NEW g, NEW p, NEW f, WellPiped(g, q, p, f)
  PROVE  /\ p = "none" => WellPiped(g, q, "queued", f)
         /\ p = "queued" => WellPiped(g, q, "reading", f)
         /\ p = "reading" => \A r \in Returned : WellPiped(g, q, "closing", r)
         /\ g = NoGet => WellPiped(Pending, q, p, f)
         /\ g.kind = "token" => WellPiped(NoGet, q, p, f)
<1>1. Pending.kind = "pending" /\ NoGet.kind = "none"
  BY DEF Pending, NoGet, Item
<1>2. /\ p = "none" => WellPiped(g, q, "queued", f)
      /\ p = "queued" => WellPiped(g, q, "reading", f)
  BY DEF WellPiped
<1>3. p = "reading" => \A r \in Returned : WellPiped(g, q, "closing", r)
  BY DEF WellPiped, Breaks
<1>4. g = NoGet => WellPiped(Pending, q, p, f)
  BY <1>1 DEF WellPiped, Breaks
<1>5. g.kind = "token" => WellPiped(NoGet, q, p, f)
  BY <1>1 DEF WellPiped, Breaks
<1> QED  BY <1>2, <1>3, <1>4, <1>5

-----------------------------------------------------------------------------
(* What holds between the connections, the tab and the threads.            *)

\* A connection's generator, its thread and its relay: nothing before the plane
\* is ready, nothing after _relay is left, and the generator of the connection
\* that the tab reads ends only by leaving _relay.
FreshAt(c) ==
  /\ gen[c] = "none" <=> c > opened
  /\ gen[c] \in {"none", "waiting"} => pump[c] = "none"
  /\ gen[c] = "serving" => pump[c] # "none"
  /\ pump[c] = "none" =>
       get[c] = NoGet /\ queue[c] = <<>> /\ read[c] = 0 /\ ~stop[c] /\ fate[c] = "open"
  /\ stop[c] => gen[c] = "ended" /\ get[c] = NoGet /\ queue[c] = <<>>
  /\ c = conn /\ gen[c] = "ended" => stop[c] \/ pump[c] = "none"

PipedAt(c) == ~stop[c] => WellPiped(get[c], queue[c], pump[c], fate[c])

\* The turn is empty but while the answer comes in and after it.
Turn ==
  /\ stream \notin {"reading", "over"} => text = <<>>
  /\ gotToken => text # <<>>

\* The text, the wire, the get and the queue hold the answer's deltas in turn.
Streamed ==
  conn # 0 =>
    /\ text = [i \in 1..Len(text) |-> <<conn, i>>]
    /\ \E a, b \in 0..read[conn] :
         /\ TokensAre(wire, Len(text), a)
         /\ TokensAre(<<get[conn]>>, a, b)
         /\ TokensAre(queue[conn], b, read[conn])

\* A generator that has ended has sent an error, or the thread's stream returned.
EndedWell ==
  conn # 0 /\ gen[conn] = "ended" =>
    \/ error
    \/ \E i \in 1..Len(wire) : wire[i].kind = "error"
    \/ pump[conn] = "done" /\ fate[conn] \in Returned

\* The answer that a quiet turn shows no longer changes.
QuietAnswer(c) == pump[c] = "done" /\ fate[c] \in Returned /\ text = Answer(c)

Quiet == stream = "over" /\ ~error => text # <<>> /\ \E c \in Conns : QuietAnswer(c)

Conduit ==
  /\ \A c \in Conns : FreshAt(c) /\ PipedAt(c)
  /\ Turn /\ Streamed /\ EndedWell /\ Quiet

ServerStep(c) == PumpStep(c) \/ RelayStep(c) \/ Heartbeat(c) \/ ClientGone(c)

TabMove ==
  \/ \E p \in Prompts : Send(p)
  \/ Refused \/ ConnectFails \/ LinkBreaks \/ Leaves \/ BackoffEnds \/ Reads \/ StreamEnds

\* A step is one connection's, the tab's, or a new connection's.
LEMMA NextByActor == [Next]_vars => \/ \E c \in Conns : ServerStep(c)
                                    \/ TabMove \/ Connects \/ UNCHANGED vars
BY DEF Next, TabStep, ServerStep, TabMove

\* A step of the server is one connection's, and nothing of the tab's.
LEMMA OneConnection ==
  ASSUME ServerOK, NEW c \in Conns, ServerStep(c)
  PROVE  /\ stream' = stream /\ attempt' = attempt /\ prompt' = prompt
         /\ text' = text /\ gotToken' = gotToken /\ error' = error
         /\ conn' = conn /\ opened' = opened
         /\ c # conn => wire' = wire
         /\ \A d \in Conns \ {c} :
              /\ gen'[d] = gen[d] /\ get'[d] = get[d] /\ queue'[d] = queue[d]
              /\ stop'[d] = stop[d] /\ pump'[d] = pump[d] /\ read'[d] = read[d]
              /\ fate'[d] = fate[d]
<1> USE DEF ServerOK
<1>1. UNCHANGED <<tab, conn, opened>>
  BY DEF ServerStep, PumpStep, RelayStep, PumpStarts, PumpReads, UpstreamEnds, UpstreamFails,
     PumpCloses, PlaneReady, PlaneUnavailable, Asks, GetFills, Relays, RelayFinalizes, Heartbeat,
     ClientGone
<1>2. c # conn => wire' = wire
  BY DEF ServerStep, PumpStep, RelayStep, PumpStarts, PumpReads, UpstreamEnds, UpstreamFails,
     PumpCloses, PlaneReady, PlaneUnavailable, Asks, GetFills, Relays, RelayFinalizes, Heartbeat,
     ClientGone, Sends
<1> DEFINE Others == \A d \in Conns \ {c} :
              /\ gen'[d] = gen[d] /\ get'[d] = get[d] /\ queue'[d] = queue[d]
              /\ stop'[d] = stop[d] /\ pump'[d] = pump[d] /\ read'[d] = read[d]
              /\ fate'[d] = fate[d]
<1>3. CASE PumpStarts(c) \/ UpstreamEnds(c) \/ PumpCloses(c)
  BY <1>1, <1>2, <1>3 DEF PumpStarts, UpstreamEnds, PumpCloses, Put, tab, relay
<1>4. CASE PumpReads(c) \/ UpstreamFails(c)
  BY <1>1, <1>2, <1>4 DEF PumpReads, UpstreamFails, Put, tab, relay
<1>5. CASE PlaneReady(c) \/ PlaneUnavailable(c) \/ Asks(c) \/ GetFills(c)
  BY <1>1, <1>2, <1>5 DEF PlaneReady, PlaneUnavailable, Asks, GetFills, tab, relay, thread
<1>6. CASE Relays(c)
  <2>1. Others
    <3> SUFFICES ASSUME NEW d \in Conns \ {c}
                 PROVE  /\ gen'[d] = gen[d] /\ get'[d] = get[d] /\ queue'[d] = queue[d]
                        /\ stop'[d] = stop[d] /\ pump'[d] = pump[d] /\ read'[d] = read[d]
                        /\ fate'[d] = fate[d]
      OBVIOUS
    <3>1. pump' = pump /\ read' = read /\ fate' = fate /\ get' = [get EXCEPT ![c] = NoGet]
      BY <1>6 DEF Relays, thread
    <3>2. gen'[d] = gen[d] /\ stop'[d] = stop[d]
      BY <1>6 DEF Relays
    <3>3. queue'[d] = queue[d]
      BY <1>6 DEF Relays
    <3> QED  BY <3>1, <3>2, <3>3
  <2> QED  BY <1>1, <1>2, <2>1 DEF tab
<1>7. CASE RelayFinalizes(c) \/ Heartbeat(c) \/ ClientGone(c)
  BY <1>1, <1>2, <1>7 DEF RelayFinalizes, Heartbeat, ClientGone, tab, relay, thread
<1> QED
  BY <1>3, <1>4, <1>5, <1>6, <1>7 DEF ServerStep, PumpStep, RelayStep

\* The tab does not touch the server but to open a connection.
LEMMA TabTouchesNoServer ==
  TabMove =>
    /\ UNCHANGED <<gen, get, queue, stop, pump, read, fate, opened>>
    /\ conn' \in {0, conn}
BY DEF TabMove, Send, Refused, ConnectFails, LinkBreaks, Leaves, BackoffEnds, Reads, StreamEnds,
   Dropped, server, relay, thread

-----------------------------------------------------------------------------
\* FreshAt and PipedAt, for the connection that moves.
LEMMA FreshMoves ==
  ASSUME TypeOK, NEW c \in Conns, FreshAt(c), ServerStep(c)
  PROVE  FreshAt(c)'
<1>0. ServerOK /\ opened' = opened /\ conn' = conn /\ opened \in Nat /\ c \in Nat
  BY OneConnection, ReasoningChatAssumption DEF TypeOK, TabOK, Conns
<1> USE DEF ServerOK, FreshAt
<1>1. CASE PumpStarts(c)
  BY <1>0, <1>1 DEF PumpStarts, relay
<1>2. CASE PumpReads(c)
  <2>1. CASE stop[c]
    BY <1>0, <1>2, <2>1 DEF PumpReads
  <2>2. CASE ~stop[c]
    <3>1. pump' = pump /\ UNCHANGED <<gen, get, stop, fate>>
      BY <1>2, <2>2 DEF PumpReads
    <3> QED  BY <1>0, <1>2, <2>2, <3>1 DEF PumpReads
  <2> QED  BY <2>1, <2>2
<1>3. CASE UpstreamEnds(c)
  BY <1>0, <1>3 DEF UpstreamEnds, relay
<1>4. CASE UpstreamFails(c)
  BY <1>0, <1>4 DEF UpstreamFails, Put
<1>5. CASE PumpCloses(c)
  BY <1>0, <1>5 DEF PumpCloses, Put
<1>6. CASE PlaneReady(c)
  BY <1>0, <1>6 DEF PlaneReady, relay
<1>7. CASE PlaneUnavailable(c)
  BY <1>0, <1>7 DEF PlaneUnavailable, relay, thread
<1>8. CASE Asks(c)
  BY <1>0, <1>8 DEF Asks, thread
<1>9. CASE GetFills(c)
  BY <1>0, <1>9 DEF GetFills, thread, Pending, NoGet, Item
<1>10. CASE Relays(c)
  <2>1. pump' = pump /\ read' = read /\ fate' = fate /\ get'[c] = NoGet
    BY <1>0, <1>10 DEF Relays, thread
  <2>2. CASE get[c].kind = "token"
    BY <1>0, <1>10, <2>1, <2>2 DEF Relays
  <2>3. CASE get[c].kind # "token"
    <3>1. gen'[c] = "ended" /\ stop'[c] = TRUE
      BY <1>0, <1>10, <2>3 DEF Relays
    <3>2. queue'[c] = <<>>
      BY <1>0, <1>10, <3>1 DEF Relays
    <3> QED  BY <1>0, <1>10, <2>1, <3>1, <3>2 DEF Relays
  <2> QED  BY <2>2, <2>3
<1>11. CASE RelayFinalizes(c)
  BY <1>0, <1>11 DEF RelayFinalizes, thread
<1>12. CASE Heartbeat(c)
  BY <1>0, <1>12 DEF Heartbeat, relay, thread
<1>13. CASE ClientGone(c)
  BY <1>0, <1>13 DEF ClientGone, relay, thread
<1> QED
  BY <1>1, <1>2, <1>3, <1>4, <1>5, <1>6, <1>7, <1>8, <1>9, <1>10, <1>11, <1>12, <1>13
     DEF ServerStep, PumpStep, RelayStep

\* What the thread and _relay do keeps the pipe between them in order.
LEMMA PipeMoves ==
  ASSUME TypeOK, NEW c \in Conns, FreshAt(c), PipedAt(c), ServerStep(c)
  PROVE  PipedAt(c)'
<1>0. /\ ServerOK
      /\ get[c] \in GetItems /\ queue[c] \in Seq(QueueItems)
      /\ stop[c] \in BOOLEAN /\ read[c] \in 0..MaxDeltas
  BY DEF TypeOK, ServerOK
<1> DEFINE Before == WellPiped(get[c], queue[c], pump[c], fate[c])
           After  == WellPiped(get'[c], queue'[c], pump'[c], fate'[c])
<1> SUFFICES ASSUME ~stop'[c] PROVE After
  BY DEF PipedAt
<1> HIDE DEF Before, After
<1>1. CASE PumpStarts(c)
  <2>1. ~stop[c] /\ pump[c] = "queued" /\ pump'[c] = "reading" /\ UNCHANGED <<get, queue, fate>>
    BY <1>0, <1>1 DEF PumpStarts, relay, ServerOK
  <2> QED  BY <1>0, <2>1, PipeMove DEF PipedAt, After
<1>2. CASE PumpReads(c)
  <2>1. stop' = stop
    BY <1>2 DEF PumpReads
  <2>2. ~stop[c]
    BY <2>1
  <2>3. /\ pump[c] = "reading" /\ UNCHANGED <<get, fate, pump>>
        /\ queue'[c] = Append(queue[c], Item("token", read[c] + 1))
    BY <1>0, <1>2, <2>2 DEF PumpReads, Put, ServerOK
  <2>4. Item("token", read[c] + 1) \in QueueItems
    <3>1. read[c] + 1 \in 0..MaxDeltas
      BY <1>0, <1>2, ReasoningChatAssumption DEF PumpReads
    <3> QED  BY <3>1, ItemTypes
  <2>5. Item("token", read[c] + 1).kind = "token"
    BY DEF Item
  <2> QED  BY <1>0, <2>2, <2>3, <2>4, <2>5, PipePut DEF PipedAt, After
<1>3. CASE UpstreamEnds(c)
  <2>1. /\ ~stop[c] /\ pump[c] = "reading" /\ pump'[c] = "closing" /\ fate'[c] \in Returned
        /\ UNCHANGED <<get, queue>>
    BY <1>0, <1>3 DEF UpstreamEnds, relay, ServerOK
  <2> QED  BY <1>0, <2>1, PipeMove DEF PipedAt, After
<1>4. CASE UpstreamFails(c)
  <2>1. stop' = stop
    BY <1>4 DEF UpstreamFails
  <2>2. ~stop[c]
    BY <2>1
  <2>3. /\ pump[c] = "reading" /\ pump'[c] = "closing" /\ fate'[c] = "failed" /\ get' = get
        /\ queue'[c] = Append(queue[c], Item("error", 0))
    BY <1>0, <1>4, <2>2 DEF UpstreamFails, Put, ServerOK
  <2>4. Item("error", 0).kind = "error" /\ Item("error", 0) \in QueueItems
    BY ItemTypes DEF Item
  <2> QED  BY <1>0, <2>2, <2>3, <2>4, PipePut DEF PipedAt, After
<1>5. CASE PumpCloses(c)
  <2>1. stop' = stop
    BY <1>5 DEF PumpCloses
  <2>2. ~stop[c]
    BY <2>1
  <2>3. /\ pump[c] = "closing" /\ pump'[c] = "done" /\ fate' = fate /\ get' = get
        /\ queue'[c] = Append(queue[c], Item("end", 0))
    BY <1>0, <1>5, <2>2 DEF PumpCloses, Put, ServerOK
  <2>4. Item("end", 0).kind = "end" /\ Item("end", 0) \in QueueItems
    BY ItemTypes DEF Item
  <2> QED  BY <1>0, <2>2, <2>3, <2>4, PipePut DEF PipedAt, After
<1>6. CASE PlaneReady(c)
  <2>1. ~stop[c] /\ pump'[c] = "queued" /\ UNCHANGED <<get, queue, fate>>
    BY <1>0, <1>6 DEF PlaneReady, relay, ServerOK
  <2>2. pump[c] = "none"
    BY <1>6 DEF PlaneReady, FreshAt
  <2> QED  BY <1>0, <2>1, <2>2, PipeMove DEF PipedAt, After
<1>7. CASE PlaneUnavailable(c) \/ Heartbeat(c) \/ ClientGone(c)
  <2>1. UNCHANGED <<get, queue, stop, pump, fate>>
    BY <1>7 DEF PlaneUnavailable, Heartbeat, ClientGone, relay, thread
  <2> QED  BY <2>1 DEF PipedAt, After
<1>8. CASE Asks(c)
  <2>1. /\ ~stop[c] /\ get[c] = NoGet /\ get'[c] = Pending
        /\ UNCHANGED <<queue, pump, fate>>
    BY <1>0, <1>8 DEF Asks, thread, ServerOK
  <2> QED  BY <1>0, <2>1, PipeMove DEF PipedAt, After
<1>9. CASE GetFills(c)
  <2>1. /\ ~stop[c] /\ get[c] = Pending /\ queue[c] # <<>>
        /\ get'[c] = Head(queue[c]) /\ queue'[c] = Tail(queue[c])
        /\ UNCHANGED <<pump, fate>>
    BY <1>0, <1>9 DEF GetFills, thread, ServerOK
  <2>2. WellPiped(Pending, queue[c], pump[c], fate[c])
    BY <2>1 DEF PipedAt
  <2> QED  BY <1>0, <2>1, <2>2, PipeTake DEF After
<1>10. CASE Relays(c)
  <2>1. get[c].kind = "token"
    BY <1>0, <1>10 DEF Relays, ServerOK
  <2>2. stop' = stop
    BY <1>10, <2>1 DEF Relays
  <2>3. ~stop[c]
    BY <2>2
  <2>4. get'[c] = NoGet /\ queue' = queue /\ UNCHANGED <<pump, fate>>
    BY <1>0, <1>10, <2>1 DEF Relays, thread, ServerOK
  <2> QED  BY <1>0, <2>1, <2>3, <2>4, PipeMove DEF PipedAt, After
<1>11. CASE RelayFinalizes(c)
  BY <1>0, <1>11 DEF RelayFinalizes, ServerOK
<1> QED
  BY <1>1, <1>2, <1>3, <1>4, <1>5, <1>6, <1>7, <1>8, <1>9, <1>10, <1>11
     DEF ServerStep, PumpStep, RelayStep

-----------------------------------------------------------------------------
\* The deltas of the connection that is read, as one connection moves.
LEMMA StreamedMoves ==
  ASSUME TypeOK, NEW c \in Conns, FreshAt(c), PipedAt(c), Streamed, ServerStep(c)
  PROVE  Streamed'
<1>0. /\ TabOK /\ ShownOK /\ ServerOK /\ conn' = conn /\ text' = text
      /\ c # conn => wire' = wire
      /\ get[c] \in GetItems /\ queue[c] \in Seq(QueueItems) /\ read[c] \in 0..MaxDeltas
      /\ wire \in Seq(WireItems) /\ Len(text) \in Nat
  BY OneConnection DEF TypeOK, ServerOK, ShownOK
<1> SUFFICES ASSUME conn # 0 PROVE Streamed'
  BY <1>0 DEF Streamed
<1>1. conn \in Conns
  BY <1>0, ReasoningChatAssumption DEF TabOK, Conns
<1>2. text = [i \in 1..Len(text) |-> <<conn, i>>]
  BY DEF Streamed
<1>3. PICK a \in 0..read[conn], b \in 0..read[conn] :
        /\ TokensAre(wire, Len(text), a)
        /\ TokensAre(<<get[conn]>>, a, b)
        /\ TokensAre(queue[conn], b, read[conn])
  BY DEF Streamed
<1> DEFINE Goal(w, x, y) ==
      /\ x \in 0..read'[conn] /\ y \in 0..read'[conn]
      /\ TokensAre(w, Len(text), x)
      /\ TokensAre(<<get'[conn]>>, x, y)
      /\ TokensAre(queue'[conn], y, read'[conn])
<1>4. ASSUME NEW x, NEW y, Goal(wire', x, y) PROVE Streamed'
  <2>1. \E p, q \in 0..read'[conn] :
         /\ TokensAre(wire', Len(text), p)
         /\ TokensAre(<<get'[conn]>>, p, q)
         /\ TokensAre(queue'[conn], q, read'[conn])
    BY <1>4
  <2> QED  BY <1>0, <1>2, <2>1 DEF Streamed
<1>5. CASE c # conn
  <2>1. wire' = wire /\ get'[conn] = get[conn] /\ queue'[conn] = queue[conn] /\ read'[conn] = read[conn]
    BY <1>0, <1>1, <1>5, OneConnection
  <2>2. Goal(wire', a, b)
    BY <1>3, <2>1
  <2> QED  BY <1>4, <2>2
<1>6. CASE c = conn
  <2> USE <1>6
  <2>0. /\ a \in Nat /\ b \in Nat /\ read[c] \in Nat /\ a <= read[c] /\ b <= read[c]
        /\ wire \in Seq(Carried) /\ queue[c] \in Seq(Carried) /\ get[c] \in Carried
        /\ TokensAre(wire, Len(text), a)
        /\ TokensAre(<<get[c]>>, a, b)
        /\ TokensAre(queue[c], b, read[c])
    BY <1>0, <1>3, AllCarried
  <2>1. CASE UNCHANGED <<wire, get, queue, read>>
    BY <1>3, <1>4, <2>1
  <2>2. CASE PumpReads(c) /\ ~stop[c]
    <3>1. /\ read'[c] = read[c] + 1 /\ UNCHANGED <<wire, get>>
          /\ queue'[c] = Append(queue[c], Item("token", read[c] + 1))
      BY <1>0, <2>2 DEF PumpReads, Put, ServerOK
    <3>2. /\ Item("token", read[c] + 1) \in Carried
          /\ Item("token", read[c] + 1).kind = "token" /\ Item("token", read[c] + 1).n = read[c] + 1
      BY <2>0 DEF Item, Carried
    <3>3. TokensAre(queue'[c], b, read[c] + 1)
      BY <2>0, <3>1, <3>2, TokensGrow
    <3>4. Goal(wire', a, b)
      BY <2>0, <3>1, <3>3
    <3> QED  BY <1>4, <3>4
  <2>3. ASSUME NEW e \in QueueItems, e.kind # "token", queue'[c] = Append(queue[c], e),
               UNCHANGED <<wire, get, read>>
        PROVE  Streamed'
    <3>1. e \in Carried
      BY AllCarried DEF GetItems
    <3>2. TokensAre(queue'[c], b, read[c])
      BY <2>0, <2>3, <3>1, TokensGrow
    <3>3. Goal(wire', a, b)
      BY <2>0, <2>3, <3>2
    <3> QED  BY <1>4, <3>3
  <2>4. CASE (UpstreamFails(c) \/ PumpCloses(c)) /\ ~stop[c]
    <3>1. /\ Item("error", 0) \in QueueItems /\ Item("error", 0).kind # "token"
          /\ Item("end", 0) \in QueueItems /\ Item("end", 0).kind # "token"
      BY ItemTypes DEF Item
    <3>2. /\ UNCHANGED <<wire, get, read>>
          /\ queue'[c] = Append(queue[c], Item("error", 0)) \/ queue'[c] = Append(queue[c], Item("end", 0))
      BY <1>0, <2>4 DEF UpstreamFails, PumpCloses, Put, ServerOK
    <3> QED  BY <2>3, <3>1, <3>2
  <2>5. ASSUME NEW e \in WireItems, e.kind # "token", wire' = Append(wire, e),
               UNCHANGED <<get, queue, read>>
        PROVE  Streamed'
    <3>1. e \in Carried
      BY AllCarried
    <3>2. TokensAre(wire', Len(text), a)
      BY <1>0, <2>0, <2>5, <3>1, TokensGrow
    <3>3. Goal(wire', a, b)
      BY <2>0, <2>5, <3>2
    <3> QED  BY <1>4, <3>3
  <2>6. CASE Heartbeat(c)
    <3>1. Item("heartbeat", 0) \in WireItems /\ Item("heartbeat", 0).kind # "token"
      BY ItemTypes DEF Item
    <3>2. wire' = Append(wire, Item("heartbeat", 0)) /\ UNCHANGED <<get, queue, read>>
      BY <1>0, <2>6, <3>1, AppendIsConcat DEF Heartbeat, Sends, relay, thread
    <3> QED  BY <2>5, <3>1, <3>2
  <2>7. ASSUME NEW s \in Seq(Carried), wire' = wire \o s, TokensAre(s, a, b),
               get'[c] = NoGet, TokensAre(queue'[c], b, read[c]), read' = read
        PROVE  Streamed'
    <3>1. TokensAre(wire', Len(text), b)
      BY <1>0, <2>0, <2>7, TokensJoin
    <3>2. TokensAre(<<NoGet>>, b, b)
      <4>1. NoGet \in Carried /\ NoGet.kind # "token"
        BY DEF NoGet, Item, Carried
      <4> QED  BY <2>0, <4>1, TokensOfOne
    <3>3. Goal(wire', b, b)
      BY <2>0, <2>7, <3>1, <3>2
    <3> QED  BY <1>4, <3>3
  <2>8. /\ Item("error", 0) \in Carried /\ Item("done", 0) \in Carried
        /\ Item("error", 0).kind # "token" /\ Item("done", 0).kind # "token"
    BY DEF Item, Carried
  <2>9. CASE PlaneUnavailable(c)
    <3> DEFINE s == <<Item("error", 0), Item("done", 0)>>
    <3>1. wire' = wire \o s /\ UNCHANGED <<get, queue, read>>
      BY <2>9 DEF PlaneUnavailable, Sends, relay, thread
    <3>2. get[c] = NoGet
      BY <2>9 DEF PlaneUnavailable, FreshAt
    <3>3. a = b
      BY <2>0, <3>2, TokensOfOne DEF NoGet, Item
    <3>4. TokensAre(s, a, a)
      BY <2>0, <2>8, TokensOfTwo
    <3>5. s \in Seq(Carried)
      BY <2>8
    <3> HIDE DEF s
    <3> QED  BY <2>0, <2>7, <3>1, <3>2, <3>3, <3>4, <3>5
  <2>10. CASE Asks(c)
    <3>1. get[c] = NoGet /\ get'[c] = Pending /\ UNCHANGED <<wire, queue, read>>
      BY <1>0, <2>10 DEF Asks, thread, ServerOK
    <3>2. a = b
      BY <2>0, <3>1, TokensOfOne DEF NoGet, Item
    <3>3. TokensAre(<<Pending>>, a, b)
      <4>1. Pending \in Carried /\ Pending.kind # "token"
        BY DEF Pending, Item, Carried
      <4> QED  BY <2>0, <3>2, <4>1, TokensOfOne
    <3>4. Goal(wire', a, b)
      BY <2>0, <3>1, <3>3
    <3> QED  BY <1>4, <3>4
  <2>11. CASE GetFills(c)
    <3>1. /\ get[c] = Pending /\ queue[c] # <<>> /\ get'[c] = Head(queue[c])
          /\ queue'[c] = Tail(queue[c]) /\ UNCHANGED <<wire, read>>
      BY <1>0, <2>11 DEF GetFills, thread, ServerOK
    <3>2. a = b
      BY <2>0, <3>1, TokensOfOne DEF Pending, Item
    <3>3. Head(queue[c]) \in Carried
      BY <2>0, <3>1
    <3>4. CASE Head(queue[c]).kind = "token"
      <4>1. /\ b + 1 <= read[c] /\ Head(queue[c]).n = b + 1
            /\ TokensAre(Tail(queue[c]), b + 1, read[c])
        BY <2>0, <3>1, <3>4, TokensShrink
      <4>2. TokensAre(<<Head(queue[c])>>, b, b + 1)
        BY <2>0, <3>3, <3>4, <4>1, TokensOfOne
      <4>3. Goal(wire', a, b + 1)
        BY <2>0, <3>1, <3>2, <4>1, <4>2
      <4> QED  BY <1>4, <4>3
    <3>5. CASE Head(queue[c]).kind # "token"
      <4>1. TokensAre(Tail(queue[c]), b, read[c])
        BY <2>0, <3>1, <3>5, TokensShrink
      <4>2. TokensAre(<<Head(queue[c])>>, b, b)
        BY <2>0, <3>3, <3>5, TokensOfOne
      <4>3. Goal(wire', a, b)
        BY <2>0, <3>1, <3>2, <4>1, <4>2
      <4> QED  BY <1>4, <4>3
    <3> QED  BY <3>4, <3>5
  <2>12. CASE Relays(c)
    <3>1. get'[c] = NoGet /\ read' = read
      BY <1>0, <2>12 DEF Relays, thread, ServerOK
    <3>2. CASE get[c].kind = "token"
      <4>1. wire' = wire \o <<get[c]>> /\ stop' = stop
        BY <2>12, <3>2 DEF Relays, Sends
      <4>2. queue'[c] = queue[c]
        BY <1>0, <2>12, <4>1 DEF Relays, ServerOK, FreshAt
      <4>3. <<get[c]>> \in Seq(Carried)
        BY <2>0
      <4> QED  BY <2>0, <2>7, <3>1, <4>1, <4>2, <4>3
    <3>3. CASE get[c].kind # "token"
      <4>1. get[c].kind \in Breaks /\ ~stop[c]
        BY <2>12, <3>3 DEF Relays, Breaks, FreshAt
      <4>2. a = b
        BY <2>0, <3>3, TokensOfOne
      <4>3. \A i \in 1..Len(queue[c]) : queue[c][i].kind # "token"
        BY <4>1 DEF PipedAt, WellPiped
      <4>4. b = read[c]
        BY <2>0, <4>3, TokensOfNone
      <4>5. stop'[c] = TRUE
        BY <1>0, <2>12, <3>3 DEF Relays, ServerOK
      <4>6. queue'[c] = <<>>
        BY <1>0, <2>12, <4>5 DEF Relays, ServerOK
      <4>7. TokensAre(queue'[c], b, read[c])
        BY <2>0, <4>4, <4>6, NoTokens
      <4>8. CASE get[c].kind = "error"
        <5> DEFINE s == <<get[c], Item("done", 0)>>
        <5>1. wire' = wire \o s
          BY <2>12, <3>3, <4>8 DEF Relays, Sends
        <5>2. TokensAre(s, a, a)
          BY <2>0, <2>8, <3>3, TokensOfTwo
        <5>3. s \in Seq(Carried)
          BY <2>0, <2>8
        <5> HIDE DEF s
        <5> QED  BY <2>7, <3>1, <4>2, <4>7, <5>1, <5>2, <5>3
      <4>9. CASE get[c].kind # "error"
        <5>1. wire' = wire \o <<Item("done", 0)>>
          BY <2>12, <3>3, <4>9 DEF Relays, Sends
        <5>2. TokensAre(<<Item("done", 0)>>, a, a)
          BY <2>0, <2>8, TokensOfOne
        <5>3. <<Item("done", 0)>> \in Seq(Carried)
          BY <2>8
        <5> QED  BY <2>7, <3>1, <4>2, <4>7, <5>1, <5>2, <5>3
      <4> QED  BY <4>8, <4>9
    <3> QED  BY <3>2, <3>3
  <2>13. ~RelayFinalizes(c)
    BY DEF RelayFinalizes, FreshAt
  <2>14. CASE (PumpReads(c) \/ UpstreamFails(c) \/ PumpCloses(c)) /\ stop[c]
    <3>1. UNCHANGED <<wire, get, queue, read>>
      BY <2>14 DEF PumpReads, UpstreamFails, PumpCloses, Put
    <3> QED  BY <2>1, <3>1
  <2>15. CASE PumpStarts(c) \/ UpstreamEnds(c) \/ PlaneReady(c) \/ ClientGone(c)
    <3>1. UNCHANGED <<wire, get, queue, read>>
      BY <2>15 DEF PumpStarts, UpstreamEnds, PlaneReady, ClientGone, relay, thread
    <3> QED  BY <2>1, <3>1
  <2> QED
    BY <2>2, <2>4, <2>6, <2>9, <2>10, <2>11, <2>12, <2>13, <2>14, <2>15
       DEF ServerStep, PumpStep, RelayStep
<1> QED  BY <1>5, <1>6

-----------------------------------------------------------------------------
\* Every step keeps each connection fresh and its pipe in order.
LEMMA ConnectionsStep ==
  ASSUME IndInv, \A c \in Conns : FreshAt(c) /\ PipedAt(c), [Next]_vars
  PROVE  (\A c \in Conns : FreshAt(c) /\ PipedAt(c))'
<1> SUFFICES ASSUME NEW d \in Conns PROVE FreshAt(d)' /\ PipedAt(d)'
  BY DEF Conns
<1>0. TypeOK /\ ServerOK /\ TabOK /\ FreshAt(d) /\ PipedAt(d) /\ d # 0 /\ opened \in Nat /\ d \in Nat
  BY ReasoningChatAssumption DEF IndInv, TypeOK, TabOK, Conns
<1>1. ASSUME NEW c \in Conns, ServerStep(c) PROVE FreshAt(d)' /\ PipedAt(d)'
  <2>1. CASE d = c
    BY <1>0, <1>1, <2>1, FreshMoves, PipeMoves
  <2>2. CASE d # c
    <3>1. /\ conn' = conn /\ opened' = opened
          /\ gen'[d] = gen[d] /\ get'[d] = get[d] /\ queue'[d] = queue[d]
          /\ stop'[d] = stop[d] /\ pump'[d] = pump[d] /\ read'[d] = read[d]
          /\ fate'[d] = fate[d]
      BY <1>0, <1>1, <2>2, OneConnection
    <3> QED  BY <1>0, <3>1 DEF FreshAt, PipedAt
  <2> QED  BY <2>1, <2>2
<1>2. CASE TabMove
  <2>1. UNCHANGED <<gen, get, queue, stop, pump, read, fate, opened>> /\ conn' \in {0, conn}
    BY <1>2, TabTouchesNoServer
  <2> QED  BY <1>0, <2>1 DEF FreshAt, PipedAt
<1>3. CASE Connects
  <2>1. /\ UNCHANGED <<get, queue, stop, pump, read, fate>>
        /\ opened' = opened + 1 /\ conn' = opened + 1
        /\ gen' = [gen EXCEPT ![opened + 1] = "waiting"]
    BY <1>3 DEF Connects, relay, thread
  <2>2. CASE d = opened + 1
    <3>1. gen[d] = "none" /\ gen'[d] = "waiting"
      BY <1>0, <2>1, <2>2 DEF FreshAt, ServerOK
    <3> QED  BY <1>0, <2>1, <2>2, <3>1 DEF FreshAt, PipedAt
  <2>3. CASE d # opened + 1
    <3>1. gen'[d] = gen[d] /\ (d > opened <=> d > opened')
      BY <1>0, <2>1, <2>3 DEF ServerOK
    <3> QED  BY <1>0, <2>1, <2>3, <3>1 DEF FreshAt, PipedAt
  <2> QED  BY <2>2, <2>3
<1>4. CASE UNCHANGED vars
  BY <1>0, <1>4 DEF vars, tab, relay, thread, FreshAt, PipedAt
<1> QED  BY <1>1, <1>2, <1>3, <1>4, NextByActor

\* The turn is emptied when a message is sent, dropped or left.
LEMMA TurnStep ==
  ASSUME IndInv, Turn, [Next]_vars
  PROVE  Turn'
<1>0. TabOK /\ ShownOK /\ ServerOK
  BY DEF IndInv, TypeOK
<1>1. ASSUME NEW c \in Conns, ServerStep(c) PROVE Turn'
  <2>1. stream' = stream /\ text' = text /\ gotToken' = gotToken
    BY <1>0, <1>1, OneConnection
  <2> QED  BY <2>1, Zenon DEF Turn
<1>2. ASSUME NEW p \in Prompts, Send(p) PROVE Turn'
  BY <1>2, Zenon DEF Turn, Send
<1>3. CASE Refused \/ ConnectFails \/ LinkBreaks
  <2>1. text' = <<>> /\ gotToken' = FALSE
    BY <1>3, Zenon DEF Refused, ConnectFails, LinkBreaks, Dropped
  <2> QED  BY <2>1, Zenon DEF Turn
<1>4. CASE Leaves
  BY <1>4, Zenon DEF Leaves, Turn
<1>5. CASE BackoffEnds
  <2>1. stream \notin {"reading", "over"}
    BY <1>5 DEF BackoffEnds
  <2>2. text' = text /\ gotToken' = gotToken
    BY <1>5, Zenon DEF BackoffEnds
  <2> QED  BY <2>1, <2>2, Zenon DEF Turn
<1>6. CASE Connects
  <2>1. stream \notin {"reading", "over"}
    BY <1>6 DEF Connects
  <2>2. text' = text /\ gotToken' = gotToken
    BY <1>6, Zenon DEF Connects
  <2> QED  BY <2>1, <2>2, Zenon DEF Turn
<1>7. CASE Reads
  <2>1. stream' \in {"reading", "over"}
    BY <1>7 DEF Reads
  <2>2. CASE Head(wire).kind = "token"
    <3>1. text' = Append(text, <<conn, Head(wire).n>>)
      BY <1>7, <2>2 DEF Reads
    <3>2. text \in Seq(Shown) /\ <<conn, Head(wire).n>> \in Conns \X (0..MaxDeltas)
      <4>1. conn \in Conns
        BY <1>0, <1>7, ReasoningChatAssumption DEF Reads, TabOK, Conns
      <4>2. Head(wire) \in WireItems
        BY <1>0, <1>7 DEF Reads, ShownOK
      <4> QED  BY <1>0, <4>1, <4>2, ItemTypes DEF ShownOK
    <3>3. text' # <<>>
      BY <3>1, <3>2, AppendProperties DEF Shown
    <3> QED  BY <2>1, <3>3, Zenon DEF Turn
  <2>3. CASE Head(wire).kind # "token"
    <3>1. text' = text /\ (gotToken' => gotToken)
      BY <1>7, <2>3, Zenon DEF Reads
    <3> QED  BY <2>1, <3>1, Zenon DEF Turn
  <2> QED  BY <2>2, <2>3
<1>8. CASE StreamEnds
  <2>1. stream' \in {"reading", "over"} /\ text' = text
    BY <1>8 DEF StreamEnds, Settles
  <2>2. gotToken' = gotToken
    BY <1>8, Zenon DEF StreamEnds
  <2> QED  BY <2>1, <2>2, Zenon DEF Turn
<1>9. CASE UNCHANGED vars
  <2>1. stream' = stream /\ text' = text /\ gotToken' = gotToken
    BY <1>9, Zenon DEF vars, tab
  <2> QED  BY <2>1, Zenon DEF Turn
<1> QED
  BY <1>1, <1>2, <1>3, <1>4, <1>5, <1>6, <1>7, <1>8, <1>9, NextByActor DEF TabMove

\* The tab reads the next delta, and a new connection starts with none.
LEMMA StreamedStep ==
  ASSUME IndInv, \A c \in Conns : FreshAt(c) /\ PipedAt(c), Turn, Streamed, [Next]_vars
  PROVE  Streamed'
<1>0. TypeOK /\ TabOK /\ ShownOK /\ ServerOK
  BY DEF IndInv, TypeOK
<1>1. ASSUME NEW c \in Conns, ServerStep(c) PROVE Streamed'
  BY <1>0, <1>1, StreamedMoves
<1>2. CASE Reads
  <2>1. /\ conn \in Conns /\ conn # 0 /\ conn' = conn /\ wire # <<>> /\ wire' = Tail(wire)
        /\ UNCHANGED <<get, queue, read>>
    BY <1>0, <1>2, ReasoningChatAssumption DEF Reads, TabOK, Conns, server, relay, thread
  <2>2. text = [i \in 1..Len(text) |-> <<conn, i>>] /\ Len(text) \in Nat /\ text \in Seq(Shown)
    BY <1>0, <2>1 DEF Streamed, ShownOK
  <2>3. PICK a \in 0..read[conn], b \in 0..read[conn] :
          /\ TokensAre(wire, Len(text), a)
          /\ TokensAre(<<get[conn]>>, a, b)
          /\ TokensAre(queue[conn], b, read[conn])
    BY <2>1 DEF Streamed
  <2>4. wire \in Seq(Carried) /\ a \in Nat /\ Head(wire) \in WireItems
    BY <1>0, <2>1, <2>3, AllCarried, ReasoningChatAssumption DEF ShownOK, ServerOK
  <2>5. CASE Head(wire).kind = "token"
    <3>1. Head(wire).n = Len(text) + 1 /\ TokensAre(Tail(wire), Len(text) + 1, a)
      BY <2>2, <2>3, <2>4, <2>1, <2>5, TokensShrink
    <3>2. text' = Append(text, <<conn, Len(text) + 1>>)
      BY <1>2, <2>5, <3>1 DEF Reads
    <3>3. <<conn, Len(text) + 1>> \in Shown
      BY <2>1, <2>4, <3>1, ItemTypes DEF Shown
    <3>4. /\ text' \in Seq(Shown) /\ Len(text') = Len(text) + 1
          /\ \A i \in 1..Len(text) : text'[i] = text[i]
          /\ text'[Len(text) + 1] = <<conn, Len(text) + 1>>
      BY <2>2, <3>2, <3>3, AppendProperties
    <3>5. \A i \in 1..Len(text') : text'[i] = <<conn, i>>
      <4> TAKE i \in 1..Len(text')
      <4>1. CASE i = Len(text) + 1
        BY <3>4, <4>1
      <4>2. CASE i # Len(text) + 1
        <5>1. i \in 1..Len(text)
          BY <2>2, <3>4, <4>2
        <5>2. text[i] = <<conn, i>>
          BY <2>2, <5>1
        <5> QED  BY <3>4, <5>1, <5>2
      <4> QED  BY <4>1, <4>2
    <3>6. text' = [i \in 1..Len(text') |-> <<conn, i>>]
      <4>1. text' = [i \in 1..Len(text') |-> text'[i]]
        BY <3>4
      <4> QED  BY <3>5, <4>1
    <3>7. TokensAre(wire', Len(text'), a)
      BY <2>1, <3>1, <3>4
    <3> QED  BY <2>1, <2>3, <3>6, <3>7 DEF Streamed
  <2>6. CASE Head(wire).kind # "token"
    <3>1. text' = text
      BY <1>2, <2>6 DEF Reads
    <3>2. TokensAre(wire', Len(text'), a)
      BY <2>1, <2>2, <2>3, <2>4, <2>6, <3>1, TokensShrink
    <3> QED  BY <2>1, <2>2, <2>3, <3>1, <3>2 DEF Streamed
  <2> QED  BY <2>5, <2>6
<1>3. CASE Connects
  <2> DEFINE c == opened + 1
  <2>1. /\ conn' = c /\ wire' = <<>> /\ text' = text
        /\ UNCHANGED <<get, queue, read>>
    BY <1>3 DEF Connects, relay, thread
  <2>2. c \in Conns /\ opened \in Nat /\ opened < MaxConns
    BY <1>0, <1>3, ReasoningChatAssumption DEF Connects, TabOK, IndInv, Retriable, Conns
  <2>3. gen[c] = "none"
    BY <2>2 DEF FreshAt
  <2>4. get[c] = NoGet /\ queue[c] = <<>> /\ read[c] = 0
    BY <2>2, <2>3 DEF FreshAt
  <2>5. text = <<>> /\ Len(<<>>) = 0
    BY <1>3 DEF Connects, Turn
  <2>6. NoGet \in Carried /\ NoGet.kind # "token"
    BY DEF NoGet, Item, Carried
  <2>7. TokensAre(<<>>, 0, 0) /\ TokensAre(<<NoGet>>, 0, 0)
    BY <2>6, NoTokens, TokensOfOne
  <2> HIDE DEF c
  <2>8. text' = [i \in 1..Len(text') |-> <<conn', i>>]
    BY <2>1, <2>5
  <2>9. /\ TokensAre(wire', Len(text'), 0)
        /\ TokensAre(<<get'[conn']>>, 0, 0)
        /\ TokensAre(queue'[conn'], 0, read'[conn'])
        /\ 0 \in 0..read'[conn']
    BY <2>1, <2>4, <2>5, <2>7
  <2> QED  BY <2>8, <2>9 DEF Streamed
<1>4. CASE \/ \E p \in Prompts : Send(p)
           \/ Refused \/ ConnectFails \/ LinkBreaks \/ Leaves \/ BackoffEnds \/ StreamEnds
  <2>1. conn' = 0
    BY <1>0, <1>4 DEF Send, Refused, ConnectFails, LinkBreaks, Dropped, Leaves, BackoffEnds,
       StreamEnds, TabOK
  <2> QED  BY <2>1 DEF Streamed
<1>5. CASE UNCHANGED vars
  BY <1>5 DEF vars, tab, relay, thread, Streamed
<1> QED  BY <1>1, <1>2, <1>3, <1>4, <1>5, NextByActor DEF TabMove

\* A generator ends behind an error it has sent, or behind the thread's end.
LEMMA EndedWellMoves ==
  ASSUME TypeOK, NEW c \in Conns, FreshAt(c), PipedAt(c), EndedWell, ServerStep(c)
  PROVE  EndedWell'
<1>0. /\ TabOK /\ ShownOK /\ ServerOK /\ conn' = conn /\ error' = error
      /\ c # conn => wire' = wire
      /\ wire \in Seq(WireItems) /\ get[c] \in GetItems
  BY OneConnection, Zenon DEF TypeOK, ServerOK, ShownOK
<1> SUFFICES ASSUME conn # 0 PROVE EndedWell'
  BY <1>0 DEF EndedWell
<1>1. conn \in Conns
  BY <1>0, ReasoningChatAssumption DEF TabOK, Conns
<1> DEFINE ErrorOn(w) == \E i \in 1..Len(w) : w[i].kind = "error"
           Whole == pump[conn] = "done" /\ fate[conn] \in Returned
           Whole1 == pump'[conn] = "done" /\ fate'[conn] \in Returned
<1>2. ASSUME NEW s \in Seq(WireItems), wire' = wire \o s
      PROVE  (ErrorOn(wire) => ErrorOn(wire')) /\ (ErrorOn(s) => ErrorOn(wire'))
  <2>1. /\ Len(wire') = Len(wire) + Len(s) /\ Len(wire) \in Nat /\ Len(s) \in Nat
        /\ \A i \in 1..Len(wire) : wire'[i] = wire[i]
        /\ \A i \in 1..Len(s) : wire'[Len(wire) + i] = s[i]
    BY <1>0, <1>2, ConcatProperties
  <2>2. ASSUME NEW i \in 1..Len(wire), wire[i].kind = "error" PROVE ErrorOn(wire')
    BY <2>1, <2>2
  <2>3. ASSUME NEW i \in 1..Len(s), s[i].kind = "error" PROVE ErrorOn(wire')
    <3>1. Len(wire) + i \in 1..Len(wire')
      BY <2>1
    <3> QED  BY <2>1, <2>3, <3>1
  <2> QED  BY <2>2, <2>3
<1>3. ErrorOn(wire) => ErrorOn(wire')
  <2>1. ASSUME NEW s \in Seq(WireItems), Sends(c, s) PROVE ErrorOn(wire) => ErrorOn(wire')
    BY <1>2, <2>1 DEF Sends
  <2>2. CASE UNCHANGED wire
    BY <2>2
  <2>3. CASE PlaneUnavailable(c)
    <3>1. <<Item("error", 0), Item("done", 0)>> \in Seq(WireItems)
      BY ItemTypes
    <3> QED  BY <2>1, <2>3, <3>1 DEF PlaneUnavailable
  <2>4. CASE Heartbeat(c)
    <3>1. <<Item("heartbeat", 0)>> \in Seq(WireItems)
      BY ItemTypes
    <3> QED  BY <2>1, <2>4, <3>1 DEF Heartbeat
  <2>5. CASE Relays(c)
    <3>1. \E s \in Seq(WireItems) : Sends(c, s)
      BY <1>0, <2>5, RelaysSends
    <3> QED  BY <2>1, <3>1
  <2> QED
    BY <2>2, <2>3, <2>4, <2>5 DEF ServerStep, PumpStep, RelayStep, PumpStarts, PumpReads,
       UpstreamEnds, UpstreamFails, PumpCloses, PlaneReady, Asks, GetFills, RelayFinalizes,
       ClientGone
<1>4. Whole => Whole1
  <2>1. CASE c # conn
    BY <1>0, <1>1, <2>1, OneConnection
  <2>2. CASE c = conn
    <3> SUFFICES ASSUME pump[c] = "done" PROVE pump' = pump /\ fate' = fate
      BY <2>2
    <3>1. gen[c] # "waiting"
      BY DEF FreshAt
    <3> QED
      BY <3>1 DEF ServerStep, PumpStep, RelayStep, PumpStarts, PumpReads,
         UpstreamEnds, UpstreamFails, PumpCloses, PlaneReady, PlaneUnavailable, Asks, GetFills,
         Relays, RelayFinalizes, Heartbeat, ClientGone, thread
  <2> QED  BY <2>1, <2>2
<1>5. CASE gen[conn] = "ended"
  <2>1. error \/ ErrorOn(wire) \/ Whole
    BY <1>5, Zenon DEF EndedWell
  <2> QED  BY <1>0, <1>3, <1>4, <2>1, Zenon DEF EndedWell
<1>6. CASE gen[conn] # "ended" /\ gen'[conn] = "ended"
  <2>1. c = conn
    BY <1>0, <1>1, <1>6, OneConnection
  <2>2. PlaneUnavailable(c) \/ Relays(c)
    BY <1>0, <1>6, <2>1 DEF ServerStep, PumpStep, RelayStep, PumpStarts, PumpReads,
         UpstreamEnds, UpstreamFails, PumpCloses, PlaneReady, Asks, GetFills,
         RelayFinalizes, Heartbeat, ClientGone, relay, ServerOK
  <2>3. CASE PlaneUnavailable(c)
    <3> DEFINE s == <<Item("error", 0), Item("done", 0)>>
    <3>1. s \in Seq(WireItems)
      BY ItemTypes
    <3>2. ErrorOn(s)
      <4>1. Len(s) = 2 /\ s[1] = Item("error", 0) /\ 1 \in 1..2
        OBVIOUS
      <4>2. Item("error", 0).kind = "error"
        BY DEF Item
      <4> QED  BY <4>1, <4>2
    <3>3. wire' = wire \o s
      BY <2>1, <2>3 DEF PlaneUnavailable, Sends
    <3> HIDE DEF s
    <3>4. ErrorOn(wire')
      BY <1>2, <3>1, <3>2, <3>3
    <3> QED  BY <3>4, Zenon DEF EndedWell
  <2>4. CASE Relays(c) /\ get[c].kind = "error"
    <3> DEFINE s == <<get[c], Item("done", 0)>>
    <3>1. s \in Seq(WireItems)
      BY <1>0, <2>4, ItemTypes
    <3>2. ErrorOn(s)
      <4>1. Len(s) = 2 /\ s[1] = get[c] /\ 1 \in 1..2
        OBVIOUS
      <4> QED  BY <2>4, <4>1
    <3>3. wire' = wire \o s
      BY <2>1, <2>4 DEF Relays, Sends
    <3> HIDE DEF s
    <3>4. ErrorOn(wire')
      BY <1>2, <3>1, <3>2, <3>3
    <3> QED  BY <3>4, Zenon DEF EndedWell
  <2>5. CASE Relays(c) /\ get[c].kind = "end"
    <3>1. gen[c] = "serving"
      BY <2>5 DEF Relays
    <3>2. ~stop[c]
      BY <3>1 DEF FreshAt
    <3>3. pump[c] = "done" /\ fate[c] \in Returned
      BY <2>5, <3>2 DEF PipedAt, WellPiped
    <3>4. Whole1
      BY <1>4, <2>1, <3>3
    <3> QED  BY <1>0, <3>4, Zenon DEF EndedWell
  <2>6. CASE Relays(c) /\ get[c].kind = "token"
    BY <1>6, <2>1, <2>6 DEF Relays
  <2> QED  BY <2>2, <2>3, <2>4, <2>5, <2>6 DEF Relays
<1>7. CASE gen'[conn] # "ended"
  BY <1>0, <1>7 DEF EndedWell
<1> QED  BY <1>5, <1>6, <1>7

\* The tab takes an error off the wire only by showing it.
LEMMA EndedWellStep ==
  ASSUME IndInv, \A c \in Conns : FreshAt(c) /\ PipedAt(c), EndedWell, [Next]_vars
  PROVE  EndedWell'
<1>0. TypeOK /\ TabOK /\ ShownOK /\ ServerOK
  BY DEF IndInv, TypeOK
<1>1. ASSUME NEW c \in Conns, ServerStep(c) PROVE EndedWell'
  BY <1>0, <1>1, EndedWellMoves
<1>2. CASE Reads
  <2> DEFINE Was == \E i \in 1..Len(wire) : wire[i].kind = "error"
             Is  == \E i \in 1..Len(wire') : wire'[i].kind = "error"
  <2>1. conn' = conn /\ wire # <<>> /\ wire' = Tail(wire) /\ UNCHANGED <<gen, pump, fate>>
    BY <1>2 DEF Reads, server, relay, thread
  <2>2. error' = (error \/ Head(wire).kind = "error")
    BY <1>2, Zenon DEF Reads
  <2>3. Was => Head(wire).kind = "error" \/ Is
    <3> SUFFICES ASSUME NEW i \in 1..Len(wire), wire[i].kind = "error"
                 PROVE  Head(wire).kind = "error" \/ Is
      OBVIOUS
    <3>1. /\ Len(wire) = Len(wire') + 1 /\ Len(wire') \in Nat /\ wire[1] = Head(wire)
          /\ \A k \in 1..Len(wire') : wire'[k] = wire[k + 1]
      BY <1>0, <2>1, HeadTailProperties DEF ShownOK
    <3>2. CASE i = 1
      BY <3>1, <3>2
    <3>3. CASE i # 1
      <4>1. i - 1 \in 1..Len(wire') /\ wire'[i - 1] = wire[i]
        BY <3>1, <3>3
      <4> QED  BY <4>1
    <3> QED  BY <3>2, <3>3
  <2> QED  BY <2>1, <2>2, <2>3, Zenon DEF EndedWell
<1>3. CASE Connects
  <2>1. opened + 1 \in Conns
    BY <1>0, <1>3, ReasoningChatAssumption DEF Connects, TabOK, IndInv, Retriable, Conns
  <2>2. gen'[conn'] = "waiting"
    BY <1>0, <1>3, <2>1 DEF Connects, ServerOK
  <2> QED  BY <2>2 DEF EndedWell
<1>4. CASE \/ \E p \in Prompts : Send(p)
           \/ Refused \/ ConnectFails \/ LinkBreaks \/ Leaves \/ BackoffEnds \/ StreamEnds
  <2>1. conn' = 0
    BY <1>0, <1>4 DEF Send, Refused, ConnectFails, LinkBreaks, Dropped, Leaves, BackoffEnds,
       StreamEnds, TabOK
  <2> QED  BY <2>1 DEF EndedWell
<1>5. CASE UNCHANGED vars
  <2>1. UNCHANGED <<conn, gen, error, wire, pump, fate>>
    BY <1>5, Zenon DEF vars, tab, thread
  <2> QED  BY <2>1, Zenon DEF EndedWell
<1> QED  BY <1>1, <1>2, <1>3, <1>4, <1>5, NextByActor DEF TabMove

\* When the stream of a generator that ended well is used up without an error,
\* the text is all that the thread has read.
LEMMA UsedUpIsAnswer ==
  ASSUME IndInv, \A c \in Conns : FreshAt(c) /\ PipedAt(c), Streamed, EndedWell,
         StreamEnds, ~error
  PROVE  conn \in Conns /\ QuietAnswer(conn)
<1>0. TypeOK /\ TabOK /\ ShownOK /\ ServerOK
  BY DEF IndInv, TypeOK
<1>1. wire = <<>> /\ gen[conn] = "ended" /\ stream = "reading"
  BY DEF StreamEnds
<1>2. conn \in Conns /\ conn # 0
  BY <1>0, <1>1, ReasoningChatAssumption DEF TabOK, Conns
<1>3. ~ \E i \in 1..Len(wire) : wire[i].kind = "error"
  BY <1>1
<1>4. pump[conn] = "done" /\ fate[conn] \in Returned
  BY <1>1, <1>2, <1>3, Zenon DEF EndedWell
<1>5. get[conn] = NoGet /\ queue[conn] = <<>>
  BY <1>1, <1>2 DEF FreshAt
<1>6. PICK a \in 0..read[conn], b \in 0..read[conn] :
        /\ TokensAre(wire, Len(text), a)
        /\ TokensAre(<<get[conn]>>, a, b)
        /\ TokensAre(queue[conn], b, read[conn])
  BY <1>2 DEF Streamed
<1>7. /\ a \in Nat /\ b \in Nat /\ read[conn] \in Nat /\ Len(text) \in Nat
      /\ NoGet \in Carried /\ NoGet.kind # "token" /\ <<>> \in Seq(Carried)
  BY <1>0, <1>2, <1>6, ReasoningChatAssumption DEF ServerOK, ShownOK, NoGet, Item, Carried
<1>8. \A i \in 1..Len(<<>>) : FALSE
  OBVIOUS
<1>9. Len(text) = a /\ b = read[conn]
  BY <1>1, <1>5, <1>6, <1>7, <1>8, TokensOfNone
<1>10. a = b
  BY <1>5, <1>6, <1>7, TokensOfOne
<1>11. text = Answer(conn)
  BY <1>2, <1>9, <1>10 DEF Streamed, Answer
<1> QED  BY <1>2, <1>4, <1>11 DEF QuietAnswer

\* Once the thread is done, its answer stays as it is.
LEMMA QuietAnswerStays ==
  ASSUME TypeOK, NEW c \in Conns, ServerStep(c), NEW d \in Conns, FreshAt(d), QuietAnswer(d)
  PROVE  QuietAnswer(d)'
<1>0. ServerOK /\ text' = text
  BY OneConnection DEF TypeOK
<1>1. pump'[d] = pump[d] /\ fate'[d] = fate[d] /\ read'[d] = read[d]
  <2>1. CASE c # d
    BY <1>0, <2>1, OneConnection
  <2>2. CASE c = d
    <3>1. pump[c] = "done" /\ gen[c] # "waiting"
      BY <2>2 DEF FreshAt, QuietAnswer
    <3> QED
      BY <2>2, <3>1 DEF ServerStep, PumpStep, RelayStep, PumpStarts, PumpReads,
         UpstreamEnds, UpstreamFails, PumpCloses, PlaneReady, PlaneUnavailable, Asks, GetFills,
         Relays, RelayFinalizes, Heartbeat, ClientGone, relay, thread
  <2> QED  BY <2>1, <2>2
<1> QED  BY <1>0, <1>1 DEF QuietAnswer, Answer

\* A turn becomes quiet with one answer, and keeps it.
LEMMA QuietStep ==
  ASSUME IndInv, \A c \in Conns : FreshAt(c) /\ PipedAt(c), Turn, Streamed, EndedWell, Quiet,
         [Next]_vars
  PROVE  Quiet'
<1>0. TypeOK /\ TabOK /\ ShownOK /\ ServerOK
  BY DEF IndInv, TypeOK
<1>1. ASSUME NEW c \in Conns, ServerStep(c) PROVE Quiet'
  <2>1. stream' = stream /\ error' = error /\ text' = text
    BY <1>0, <1>1, OneConnection, Zenon
  <2>2. \A d \in Conns : QuietAnswer(d) => QuietAnswer(d)'
    BY <1>0, <1>1, QuietAnswerStays
  <2> SUFFICES ASSUME stream = "over", ~error
               PROVE  text # <<>> /\ \E d \in Conns : QuietAnswer(d)'
    BY <2>1, Zenon DEF Quiet, Conns
  <2> QED  BY <2>2, Zenon DEF Quiet
<1>2. CASE StreamEnds
  <2>1. error' = (error \/ ~gotToken) /\ text' = text
    BY <1>2, Zenon DEF StreamEnds, Settles
  <2>2. UNCHANGED <<pump, fate, read>>
    BY <1>2, Zenon DEF StreamEnds, server, thread
  <2> SUFFICES ASSUME ~error, gotToken
               PROVE  text # <<>> /\ \E d \in Conns : QuietAnswer(d)'
    BY <2>1, Zenon DEF Quiet, Conns
  <2>3. text # <<>>
    BY Zenon DEF Turn
  <2>4. conn \in Conns /\ QuietAnswer(conn)
    BY <1>2, UsedUpIsAnswer
  <2>5. \E d \in Conns : QuietAnswer(d)
    BY <2>4
  <2>6. PICK d \in Conns : QuietAnswer(d)
    BY <2>5
  <2>7. QuietAnswer(d)'
    BY <2>1, <2>2, <2>6 DEF QuietAnswer, Answer
  <2> QED  BY <2>3, <2>7
<1>3. CASE Refused \/ ConnectFails \/ LinkBreaks
  <2>1. Dropped
    BY <1>3, Zenon DEF Refused, ConnectFails, LinkBreaks
  <2>2. CASE attempt + 1 > MaxRetries
    <3>1. error' = (error \/ ~FALSE)
      BY <2>1, <2>2, Zenon DEF Dropped, Settles
    <3> QED  BY <3>1, Zenon DEF Quiet
  <2>3. CASE ~(attempt + 1 > MaxRetries)
    <3>1. stream' = "backoff"
      BY <2>1, <2>3, Zenon DEF Dropped
    <3> QED  BY <3>1 DEF Quiet
  <2> QED  BY <2>2, <2>3
<1>4. CASE (\E p \in Prompts : Send(p)) \/ Connects \/ Leaves \/ BackoffEnds \/ Reads
  <2>1. stream' # "over"
    BY <1>4 DEF Send, Connects, Leaves, BackoffEnds, Reads
  <2> QED  BY <2>1 DEF Quiet
<1>5. CASE UNCHANGED vars
  <2>1. UNCHANGED <<stream, error, text, pump, fate, read>>
    BY <1>5, Zenon DEF vars, tab, thread
  <2> QED  BY <2>1, Zenon DEF Quiet, QuietAnswer, Answer, Conns
<1> QED  BY <1>1, <1>2, <1>3, <1>4, <1>5, NextByActor DEF TabMove

-----------------------------------------------------------------------------
(* The chat's two promises.                                                *)

\* Nothing is shown or on its way yet.
LEMMA ConduitInit == Init => Conduit
<1> SUFFICES ASSUME Init PROVE Conduit
  OBVIOUS
<1>1. \A c \in Conns : FreshAt(c) /\ PipedAt(c)
  <2> TAKE c \in Conns
  <2>1. /\ gen[c] = "none" /\ get[c] = NoGet /\ queue[c] = <<>> /\ ~stop[c] /\ pump[c] = "none"
        /\ read[c] = 0 /\ fate[c] = "open" /\ opened = 0 /\ c > 0
    BY ReasoningChatAssumption DEF Init, Conns
  <2>2. FreshAt(c)
    BY <2>1 DEF FreshAt
  <2>3. WellPiped(NoGet, <<>>, "none", "open")
    BY DEF WellPiped, NoGet, Item, Breaks
  <2> QED  BY <2>1, <2>2, <2>3 DEF PipedAt
<1>2. stream = "idle" /\ conn = 0 /\ text = <<>>
  BY DEF Init
<1>3. gotToken = FALSE
  BY Zenon DEF Init
<1>4. Turn
  BY <1>2, <1>3, Zenon DEF Turn
<1>5. Streamed /\ EndedWell
  BY <1>2 DEF Streamed, EndedWell
<1>6. Quiet
  BY <1>2 DEF Quiet
<1> QED  BY <1>1, <1>4, <1>5, <1>6 DEF Conduit

\* Every step keeps all of it.
LEMMA ConduitStep == IndInv /\ Conduit /\ [Next]_vars => Conduit'
<1> SUFFICES ASSUME IndInv, Conduit, [Next]_vars PROVE Conduit'
  OBVIOUS
<1>1. /\ \A c \in Conns : FreshAt(c) /\ PipedAt(c)
      /\ Turn /\ Streamed /\ EndedWell /\ Quiet
  BY DEF Conduit
<1> QED
  BY <1>1, ConnectionsStep, TurnStep, StreamedStep, EndedWellStep, QuietStep DEF Conduit

\* The stretches on the wire, in the get and in the queue are one.
LEMMA StreamedInOrder == IndInv /\ Streamed => NoDeltaIsDropped
<1> SUFFICES ASSUME IndInv, Streamed, conn # 0 PROVE NoDeltaIsDropped
  BY DEF NoDeltaIsDropped
<1>0. ServerOK /\ ShownOK /\ conn \in Conns
  BY ReasoningChatAssumption DEF IndInv, TypeOK, TabOK, Conns
<1>1. PICK a \in 0..read[conn], b \in 0..read[conn] :
        /\ TokensAre(wire, Len(text), a)
        /\ TokensAre(<<get[conn]>>, a, b)
        /\ TokensAre(queue[conn], b, read[conn])
  BY DEF Streamed
<1>2. /\ a \in Nat /\ b \in Nat /\ read[conn] \in Nat /\ Len(text) \in Nat
      /\ wire \in Seq(Carried) /\ queue[conn] \in Seq(Carried) /\ get[conn] \in Carried
  BY <1>0, <1>1, AllCarried, ReasoningChatAssumption DEF ServerOK, ShownOK
<1> DEFINE held == <<get[conn]>>
<1>3. held \in Seq(Carried)
  BY <1>2
<1>4. TokensAre(held, a, b)
  BY <1>1
<1> HIDE DEF held
<1> DEFINE front == wire \o held
<1>5. front \in Seq(Carried)
  BY <1>2, <1>3, ConcatProperties
<1>6. TokensAre(front, Len(text), b)
  BY <1>1, <1>2, <1>3, <1>4, TokensJoin
<1> HIDE DEF front
<1>7. TokensAre(front \o queue[conn], Len(text), read[conn])
  BY <1>1, <1>2, <1>5, <1>6, TokensJoin
<1> QED  BY <1>7 DEF front, held, NoDeltaIsDropped, Streamed

\* "A pending get is preserved across heartbeat ticks so no delta is dropped":
\* whatever the tab, the network, the thread and the heartbeats do, what the tab
\* shows and what is on its way to it are the deltas that the thread has read
\* for this connection, each once and in order.
THEOREM ChatDropsNoDelta == Spec => []NoDeltaIsDropped
<1>1. IndInv /\ Conduit => NoDeltaIsDropped
  BY StreamedInOrder DEF Conduit
<1> QED  BY IndInvInit, IndInvStep, ConduitInit, ConduitStep, <1>1, PTL DEF Spec

\* EC-U2, RK-09: a turn that ends without a banner shows all that the model sent
\* on one connection, however many were broken before it.  Whether the model had
\* finished is not known to anybody.
THEOREM ChatQuietTurnIsOneAnswer == Spec => []QuietTurnIsOneAnswer
<1>1. Conduit => QuietTurnIsOneAnswer
  BY Zenon DEF Conduit, Quiet, QuietAnswer, QuietTurnIsOneAnswer
<1> QED  BY IndInvInit, IndInvStep, ConduitInit, ConduitStep, <1>1, PTL DEF Spec

=============================================================================
