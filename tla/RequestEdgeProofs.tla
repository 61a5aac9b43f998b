-------------------------- MODULE RequestEdgeProofs --------------------------
(***************************************************************************)
(* What the edge promises the worker, for every request and every setting  *)
(* of the caps.                                                            *)
(***************************************************************************)
EXTENDS RequestEdge, SequenceTheorems, TLAPS

\* No validator makes more than twelve checks.
LEMMA FirstOfTwelve ==
  ASSUME NEW T \in SUBSET (1..12), T # {}
  PROVE  \E x \in T : \A y \in T : x <= y
<1>1. SUFFICES ASSUME \A x \in T : \E y \in T : y < x PROVE FALSE
  OBVIOUS
<1>2. 1 \notin T /\ 2 \notin T /\ 3 \notin T /\ 4 \notin T
  BY <1>1
<1>3. 5 \notin T /\ 6 \notin T /\ 7 \notin T /\ 8 \notin T
  BY <1>1, <1>2
<1>4. 9 \notin T /\ 10 \notin T /\ 11 \notin T /\ 12 \notin T
  BY <1>1, <1>2, <1>3
<1>5. PICK x \in T : TRUE
  OBVIOUS
<1>6. x \in Nat /\ 1 <= x /\ x <= 12
  OBVIOUS
<1>7. x \in {1, 2, 3, 4, 5, 6, 7, 8, 9, 10, 11, 12}
  BY <1>6
<1> QED BY <1>2, <1>3, <1>4, <1>7

\* A validator that answers "ok" has run all its checks, and none failed.
LEMMA OkPassesAll ==
  ASSUME NEW checks, DOMAIN checks \in SUBSET (1..12),
         \A i \in DOMAIN checks : checks[i].fails => checks[i].code # "ok",
         FirstError(checks) = "ok"
  PROVE  \A i \in DOMAIN checks : ~checks[i].fails
<1> DEFINE failing == {i \in DOMAIN checks : checks[i].fails}
<1>1. SUFFICES ASSUME failing # {} PROVE FALSE
  OBVIOUS
<1> DEFINE first == CHOOSE i \in failing : \A k \in failing : i <= k
<1>2. first \in failing
  BY <1>1, FirstOfTwelve
<1>3. FirstError(checks) = checks[first].code
  BY <1>1 DEF FirstError
<1> QED BY <1>2, <1>3

\* The check before decoding refuses no media within its cap (media.py,
\* _validate_inline_media): base64 is at most twice as long as what it encodes.
THEOREM PrecheckIsSound ==
  ASSUME NEW m, m.kind \in Kinds, m.bytes \in Nat, m.bytes <= Limits.bytes[m.kind]
  PROVE  ~Oversized(m)
<1> DEFINE cap == Limits.bytes[m.kind]
<1>1. cap \in Nat /\ cap >= 4
  BY LimitsAssumption
<1>2. m.bytes + 2 \in Nat /\ (m.bytes + 2) \div 3 \in Nat /\ 3 * ((m.bytes + 2) \div 3) <= m.bytes + 2
  OBVIOUS
<1>3. 4 * ((m.bytes + 2) \div 3) <= 2 * cap
  <2> DEFINE q == (m.bytes + 2) \div 3
  <2>1. q \in Nat /\ 3 * q <= cap + 2
    BY <1>1, <1>2
  <2> HIDE DEF q, cap
  <2>2. 4 * q <= 2 * cap
    BY <1>1, <2>1
  <2> QED BY <2>2 DEF q, cap
<1> QED BY <1>1, <1>3 DEF Oversized, Base64Length

-----------------------------------------------------------------------------
\* The mapping of the typed routes leaves the mode and the media alone.
LEMMA MappedKeeps ==
  ASSUME NEW r \in AnyRequest
  PROVE  Mapped(r).mode = r.mode /\ Mapped(r).path = r.path /\ Mapped(r).media = r.media
<1>1. CASE r.route = "jobs"
  BY <1>1 DEF Mapped
<1>2. CASE r.route # "jobs" /\ r.mode \in ActionModes
  BY <1>2 DEF AnyRequest, Mapped, MappedAction
<1>3. CASE r.route # "jobs" /\ r.mode \notin ActionModes
  BY <1>3 DEF AnyRequest, Mapped, MappedGeneration
<1> QED BY <1>1, <1>2, <1>3

\* The action schema, as one condition.
ActionIsFine(r) ==
  /\ NotInt \notin {r.chunk, r.width, r.tier}
  /\ r.domain \in Known /\ r.domain \in DOMAIN Width
  /\ ~(Has(r, "image") /\ Has(r, "video"))
  /\ r.mode = "inverse_dynamics" => Has(r, "video")
  /\ r.mode # "inverse_dynamics" => Has(r, "image")
  /\ IntOr(r.tier, 480) \in Tiers
  /\ ~(IntOr(r.chunk, 0) < 1) /\ IntOr(r.chunk, 0) \in FrameMin..FrameMax
  /\ r.mode = "forward_dynamics" => r.width \notin {Missing, Null} /\ r.width = Width[r.domain]

\* validate answers "ok" if and only if it holds.
LEMMA ActionChecks ==
  ASSUME NEW r
  PROVE  ActionError(r) = "ok" <=> ActionIsFine(r)
<1> DEFINE checks == <<
      Check(NotInt \in {r.chunk, r.width, r.tier}, "invalid_param"),
      Check(r.domain \notin Known, "unknown_embodiment"),
      Check(r.domain \notin DOMAIN Width, "unsupported_for_inference"),
      Check(Has(r, "image") /\ Has(r, "video"), "condition_conflict"),
      Check(r.mode = "inverse_dynamics" /\ ~Has(r, "video"), "condition_missing"),
      Check(r.mode # "inverse_dynamics" /\ ~Has(r, "image"), "condition_missing"),
      Check(IntOr(r.tier, 480) \notin Tiers, "bad_resolution_tier"),
      Check(IntOr(r.chunk, 0) < 1, "bad_chunk"),
      Check(IntOr(r.chunk, 0) \notin FrameMin..FrameMax, "frame_window"),
      Check(r.mode = "forward_dynamics" /\ r.width \in {Missing, Null}, "condition_missing"),
      Check(r.mode = "forward_dynamics" /\ r.domain \in DOMAIN Width /\ r.width # Width[r.domain],
            "width_mismatch")>>
<1>1. ActionError(r) = FirstError(checks)
  BY DEF ActionError
<1>2. DOMAIN checks = 1..11
  OBVIOUS
<1>3. \A i \in DOMAIN checks : checks[i].code # "ok"
  BY <1>2 DEF Check
<1>4. /\ checks[1].fails <=> NotInt \in {r.chunk, r.width, r.tier}
      /\ checks[2].fails <=> r.domain \notin Known
      /\ checks[3].fails <=> r.domain \notin DOMAIN Width
      /\ checks[4].fails <=> Has(r, "image") /\ Has(r, "video")
      /\ checks[5].fails <=> r.mode = "inverse_dynamics" /\ ~Has(r, "video")
      /\ checks[6].fails <=> r.mode # "inverse_dynamics" /\ ~Has(r, "image")
  BY DEF Check
<1>5. /\ checks[7].fails <=> IntOr(r.tier, 480) \notin Tiers
      /\ checks[8].fails <=> IntOr(r.chunk, 0) < 1
      /\ checks[9].fails <=> IntOr(r.chunk, 0) \notin FrameMin..FrameMax
      /\ checks[10].fails <=> r.mode = "forward_dynamics" /\ r.width \in {Missing, Null}
      /\ checks[11].fails <=> r.mode = "forward_dynamics" /\ r.domain \in DOMAIN Width
                              /\ r.width # Width[r.domain]
  BY DEF Check
<1> HIDE DEF checks
<1>6. (\A i \in DOMAIN checks : ~checks[i].fails) <=>
        /\ ~checks[1].fails /\ ~checks[2].fails /\ ~checks[3].fails /\ ~checks[4].fails
        /\ ~checks[5].fails /\ ~checks[6].fails /\ ~checks[7].fails /\ ~checks[8].fails
        /\ ~checks[9].fails /\ ~checks[10].fails /\ ~checks[11].fails
  BY <1>2
<1>7. FirstError(checks) = "ok" => \A i \in DOMAIN checks : ~checks[i].fails
  BY <1>2, <1>3, OkPassesAll
<1>8. (\A i \in DOMAIN checks : ~checks[i].fails) => FirstError(checks) = "ok"
  BY DEF FirstError
<1> QED BY <1>1, <1>4, <1>5, <1>6, <1>7, <1>8 DEF ActionIsFine

\* An action request passes the edge with the media its mode is conditioned on,
\* a chunk that is a number, and a tier that is one or null.
LEMMA ActionIsConditioned ==
  ASSUME NEW r, ActionError(r) = "ok", r.mode \in ActionModes
  PROVE  Has(r, Conditioning(r.mode)) /\ ~IntFails(r.chunk) /\ r.tier # NotInt
<1>1. ActionIsFine(r)
  BY ActionChecks
<1>2. ~IntFails(r.chunk)
  BY <1>1 DEF ActionIsFine, IntFails, IntOr, FrameMin, FrameMax
<1> QED BY <1>1, <1>2 DEF ActionIsFine, Conditioning, ActionModes

\* What passes the edge has passed each of its validators.
LEMMA EdgeChecks ==
  ASSUME NEW r, EdgeError(r) = "ok"
  PROVE  /\ r.mode \in Modes /\ PathError(r) = "ok" /\ OutputError(r) = "ok"
         /\ r.mode \in ActionModes => ActionError(r) = "ok"
<1> DEFINE checks == <<
      Check(r.mode \notin Modes, "invalid_param"),
      Check(PathError(r) # "ok", PathError(r)),
      Check(InlineError(r.media) # "ok", InlineError(r.media)),
      Check(OutputError(r) # "ok", OutputError(r)),
      Check(r.mode \in ActionModes /\ ActionError(r) # "ok", ActionError(r))>>
<1>1. FirstError(checks) = "ok"
  BY DEF EdgeError
<1>2. DOMAIN checks = 1..5
  OBVIOUS
<1>3. /\ checks[1].fails => checks[1].code # "ok"
      /\ checks[2].fails => checks[2].code # "ok"
      /\ checks[3].fails => checks[3].code # "ok"
      /\ checks[4].fails => checks[4].code # "ok"
      /\ checks[5].fails => checks[5].code # "ok"
  BY DEF Check
<1>4. ~checks[1].fails /\ ~checks[2].fails /\ ~checks[4].fails /\ ~checks[5].fails
  <2> HIDE DEF checks
  <2>1. \A i \in DOMAIN checks : checks[i].fails => checks[i].code # "ok"
    BY <1>2, <1>3
  <2> QED BY <1>1, <1>2, <2>1, OkPassesAll
<1> QED BY <1>4 DEF Check

\* The edge has checked the numbers a size is made of, and the frames.
LEMMA NumbersAreChecked ==
  ASSUME NEW r, OutputError(r) = "ok"
  PROVE  ~IntFails(r.resolution) /\ ~IntFails(r.height) /\ ~IntFails(r.wide) /\ ~IntFails(r.frames)
<1> DEFINE checks == <<
      Check(IntFails(r.resolution), "invalid_param"),
      Check(r.resolution # Missing /\ BadResolution(r.resolution), "invalid_dimension"),
      Check(IntFails(r.height), "invalid_param"),
      Check(r.height # Missing /\ BadDimension(r.height), "invalid_dimension"),
      Check(IntFails(r.wide), "invalid_param"),
      Check(r.wide # Missing /\ BadDimension(r.wide), "invalid_dimension"),
      Check(r.frames # Missing /\ BadNumFrames(r.frames), "invalid_param")>>
<1>1. FirstError(checks) = "ok"
  BY DEF OutputError
<1>2. DOMAIN checks = 1..7
  OBVIOUS
<1>3. \A i \in DOMAIN checks : checks[i].code # "ok"
  BY <1>2 DEF Check
<1>4. ~checks[1].fails /\ ~checks[3].fails /\ ~checks[5].fails /\ ~checks[7].fails
  <2> HIDE DEF checks
  <2> QED BY <1>1, <1>2, <1>3, OkPassesAll
<1>5. ~IntFails(r.resolution) /\ ~IntFails(r.height) /\ ~IntFails(r.wide)
      /\ ~(r.frames # Missing /\ BadNumFrames(r.frames))
  BY <1>4 DEF Check
<1>6. ~IntFails(r.frames)
  BY <1>5, LimitsAssumption DEF BadNumFrames, IntFails, Missing, NotInt, Null
<1> QED BY <1>5, <1>6

\* What the edge accepts of action requests the worker can serve: the only thing
\* left to refuse is a trusted file over the cap, whose size nobody looked at
\* (action_schema.py, jobs_router.py against vllm_omni_work).
THEOREM AcceptedActionsAreServable ==
  ASSUME NEW r \in AnyRequest, r.mode \in ActionModes, Verdict(r) = "ok"
  PROVE  \/ Refusal(JobParams(Mapped(r))) = "ok"
         \/ JobParams(Mapped(r)).path[Conditioning(r.mode)] = "large"
<1> DEFINE m == Mapped(r)
           p == JobParams(m)
           kind == Conditioning(r.mode)
<1>1. m.mode = r.mode /\ m.path = r.path /\ m.media = r.media
  BY MappedKeeps
<1>2. EdgeError(m) = "ok"
  BY DEF Verdict
<1>3. PathError(m) = "ok" /\ ActionError(m) = "ok"
  BY <1>1, <1>2, EdgeChecks
<1>4. kind \in Kinds /\ kind # "none"
  BY DEF Conditioning, ActionModes, Kinds
<1>5. Has(m, kind)
  BY <1>1, <1>3, ActionIsConditioned
<1>6. p.mode = r.mode /\ p.path = [k \in Kinds |-> IF k = r.media.kind THEN "inline" ELSE r.path[k]]
  BY <1>1 DEF JobParams
<1>7. p.path[kind] # "none"
  BY <1>1, <1>4, <1>5, <1>6 DEF Has
<1>8. PathError(p) = "ok"
  BY <1>1, <1>3, <1>6 DEF PathError
<1>9. SUFFICES ASSUME p.path[kind] # "large" PROVE Refusal(p) = "ok"
  OBVIOUS
<1> DEFINE from == IF kind = "none" THEN "unused" ELSE p.path[kind]
           checks == << Check(PathError(p) # "ok", "untrusted_path"),
                        Check(p.mode \notin Modes, "unsupported_mode"),
                        Check(from = "none", "invalid_input"),
                        Check(from = "large", "payload_too_large")>>
<1>10. Refusal(p) = FirstError(checks)
  BY <1>6 DEF Refusal
<1>11. DOMAIN checks = 1..4
  OBVIOUS
<1> HIDE DEF p
<1>12. \A i \in DOMAIN checks : ~checks[i].fails
  <2>1. ~checks[1].fails
    BY <1>8 DEF Check
  <2>2. ~checks[2].fails
    <3>1. p.mode \in Modes
      BY <1>6 DEF Modes
    <3> QED BY <3>1 DEF Check
  <2>3. ~checks[3].fails /\ ~checks[4].fails
    <3>1. from # "none" /\ from # "large"
      BY <1>4, <1>7, <1>9
    <3> HIDE DEF from
    <3> QED BY <3>1 DEF Check
  <2> QED
    <3> HIDE DEF checks
    <3> QED BY <1>11, <2>1, <2>2, <2>3
<1>13. FirstError(checks) = "ok"
  <2> HIDE DEF checks
  <2> QED BY <1>12 DEF FirstError
<1> QED BY <1>10, <1>13

-----------------------------------------------------------------------------
(* What the proofs about the jobs that are made of the requests need of    *)
(* sequences.                                                              *)

\* Changing an element of a sequence.
LEMMA Update ==
  ASSUME NEW S, NEW s \in Seq(S), NEW j \in DOMAIN s, NEW e \in S, NEW t, t = [s EXCEPT ![j] = e]
  PROVE  /\ t \in Seq(S) /\ Len(t) = Len(s) /\ DOMAIN t = DOMAIN s
         /\ t[j] = e /\ \A i \in DOMAIN s : i # j => t[i] = s[i]
<1>1. j \in 1..Len(s) /\ DOMAIN s = 1..Len(s)
  OBVIOUS
<1>2. t \in Seq(S) /\ Len(t) = Len(s)
  BY <1>1, ExceptSeq
<1>3. DOMAIN t = DOMAIN s
  OBVIOUS
<1> QED BY <1>2, <1>3

\* Adding one.
LEMMA Added ==
  ASSUME NEW S, NEW s \in Seq(S), NEW e \in S, NEW t, t = Append(s, e)
  PROVE  /\ t \in Seq(S) /\ Len(t) = Len(s) + 1 /\ DOMAIN t = DOMAIN s \cup {Len(s) + 1}
         /\ t[Len(s) + 1] = e /\ \A i \in DOMAIN s : t[i] = s[i]
<1>1. t \in Seq(S) /\ Len(t) = Len(s) + 1
  BY AppendProperties
<1>2. DOMAIN s = 1..Len(s) /\ DOMAIN t = 1..(Len(s) + 1) /\ Len(s) \in Nat
  BY <1>1
<1>3. t[Len(s) + 1] = e /\ \A i \in 1..Len(s) : t[i] = s[i]
  BY AppendProperties
<1> QED BY <1>1, <1>2, <1>3
=============================================================================
