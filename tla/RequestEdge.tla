----------------------------- MODULE RequestEdge -----------------------------
(***************************************************************************)
(* What the api checks of a generation or action request before it becomes *)
(* a job (api/app/jobs_router.py, routes/generation.py, routes/action.py,  *)
(* routes/checkpoint.py and api/preprocessing), and what the worker checks *)
(* again before it uses the GPU (api/engines/vllm_omni/work.py).           *)
(*                                                                         *)
(* A check that fails stops the request with its code, so a validator is   *)
(* the sequence of its checks in the order the code makes them.            *)
(***************************************************************************)
EXTENDS Integers, Sequences, FiniteSets

CONSTANTS
  Limits,          (* MediaLimits: the caps, by kind of media or by field  *)
  CheckpointLabel  (* COSMOS3_CHECKPOINT_LABEL                             *)

Kinds == {"image", "video", "audio"}

ASSUME LimitsAssumption ==
  /\ Limits.bytes \in [Kinds -> Nat] /\ \A k \in Kinds : Limits.bytes[k] >= 4
  /\ Limits.side \in Nat /\ Limits.frames \in Nat /\ Limits.seconds \in Nat
  /\ Limits.rate \in Nat /\ Limits.channels \in Nat

GenerationModes == {"t2i", "t2v", "i2v", "t2v_audio"}
ActionModes == {"forward_dynamics", "inverse_dynamics", "policy"}
Modes == GenerationModes \cup ActionModes

Missing == -1000   \* a parameter that is absent, a field no probe fills
NotInt == -1001    \* a parameter int() does not take
Null == -1002      \* a parameter that is null, which int() does not take either
IntFails(v) == v \in {NotInt, Null}

\* Any request a client may write down.
AnyRequest ==
  [route : {"jobs", "typed"}, mode : STRING,
   path : [Kinds -> {"none", "trusted", "large", "outside"}],
   media : [kind : STRING, bytes : Nat, base64 : BOOLEAN, mime : STRING,
            side : Int, rate : Int, channels : Int, seconds : Int],
   resolution : Int, height : Int, wide : Int, frames : Int, steps : Int, sound : BOOLEAN,
   checkpoint : STRING,
   domain : STRING, chunk : Int, tier : Int, width : Int, rows : Nat \cup {Missing}]

Check(fails, code) == [fails |-> fails, code |-> code]

FirstError(checks) ==
  LET failing == {i \in DOMAIN checks : checks[i].fails} IN
  IF failing = {} THEN "ok"
  ELSE checks[CHOOSE i \in failing : \A k \in failing : i <= k].code

-----------------------------------------------------------------------------
(* media.py.  A piece of media is its size and what its header says; a     *)
(* probe knows the header of the formats it can parse.                     *)

Mimes == [image |-> {"png", "jpeg", "webp"}, video |-> {"mp4", "webm"}, audio |-> {"wav", "flac"}]
Probed(m, field) ==
  CASE field = "side" -> IF m.mime \in {"png", "jpeg"} THEN m.side ELSE Missing
    [] OTHER          -> IF m.mime = "wav" THEN m[field] ELSE Missing

ImageError(m) == FirstError(<<
  Check(m.bytes > Limits.bytes["image"], "payload_too_large"),
  Check(m.mime \notin Mimes.image, "unsupported_media_type"),
  Check(Probed(m, "side") # Missing /\ Probed(m, "side") \notin 1..Limits.side, "invalid_dimension")>>)

\* probe_video fills neither frames nor dimensions, so their caps never apply.
VideoError(m) == FirstError(<<
  Check(m.bytes > Limits.bytes["video"], "payload_too_large"),
  Check(m.mime \notin Mimes.video, "unsupported_media_type")>>)

AudioError(m) == FirstError(<<
  Check(m.bytes > Limits.bytes["audio"], "payload_too_large"),
  Check(m.mime \notin Mimes.audio, "unsupported_media_type"),
  Check(Probed(m, "rate") \notin {Missing, Limits.rate}, "invalid_param"),
  Check(Probed(m, "channels") \notin {Missing, Limits.channels}, "invalid_param"),
  Check(Probed(m, "seconds") > Limits.seconds, "invalid_param")>>)

Base64Length(n) == 4 * ((n + 2) \div 3)

\* _validate_inline_media: an oversized payload is refused before it is decoded.
Oversized(m) == Base64Length(m.bytes) > 2 * Limits.bytes[m.kind]

InlineError(m) ==
  IF m.kind = "none" THEN "ok"
  ELSE IF m.kind \notin Kinds THEN "unsupported_media_type"
  ELSE FirstError(<<
    Check(Oversized(m), "payload_too_large"),
    Check(~m.base64, "invalid_param"),
    Check(m.kind = "image" /\ ImageError(m) # "ok", ImageError(m)),
    Check(m.kind = "video" /\ VideoError(m) # "ok", VideoError(m)),
    Check(m.kind = "audio" /\ AudioError(m) # "ok", AudioError(m))>>)

\* A check of the size that takes any number for one.
OutputErrorMutant(p) == FirstError(<<
  Check(p.resolution \notin Limits.resolutions \cup {Missing, NotInt}, "invalid_dimension"),
  Check(p.frames # Missing /\ p.frames \notin 1..Limits.frames, "invalid_param")>>)

BadResolution(value) == value \notin Limits.resolutions
BadDimension(value) == value \notin Limits.dimensions
BadNumFrames(value) == value \notin 1..Limits.frames

\* _validate_output_params: a parameter that is there must be a number, null is
\* none.
OutputError(p) == FirstError(<<
  Check(IntFails(p.resolution), "invalid_param"),
  Check(p.resolution # Missing /\ BadResolution(p.resolution), "invalid_dimension"),
  Check(IntFails(p.height), "invalid_param"),
  Check(p.height # Missing /\ BadDimension(p.height), "invalid_dimension"),
  Check(IntFails(p.wide), "invalid_param"),
  Check(p.wide # Missing /\ BadDimension(p.wide), "invalid_dimension"),
  Check(p.frames # Missing /\ BadNumFrames(p.frames), "invalid_param")>>)

\* resolve_within, for every conditioning path: the request names a file under
\* a trusted root, or it is refused.
PathError(p) == IF \E k \in Kinds : p.path[k] = "outside" THEN "untrusted_path" ELSE "ok"

-----------------------------------------------------------------------------
(* action_schema.py.  Stand-ins for the embodiments: one with a canonical  *)
(* width, one the engine knows without a width, one it does not know.      *)

Width == [av |-> 9]
Known == DOMAIN Width \cup {"libero"}
Tiers == {256, 480, 704, 720}
FrameMin == 16
FrameMax == 400

\* has_image and has_video, as _validate_action_params fills them.
Has(r, kind) == r.path[kind] # "none" \/ r.media.kind = kind
IntOr(v, default) == IF v \in {Missing, Null} THEN default ELSE v

ActionError(r) == FirstError(<<
  Check(NotInt \in {r.chunk, r.width, r.tier}, "invalid_param"),
  Check(r.domain \notin Known, "unknown_embodiment"),
  Check(r.domain \notin DOMAIN Width, "unsupported_for_inference"),
  Check(Has(r, "image") /\ Has(r, "video"), "condition_conflict"),
  Check(r.mode = "inverse_dynamics" /\ ~Has(r, "video"), "condition_missing"),
  Check(r.mode # "inverse_dynamics" /\ ~Has(r, "image"), "condition_missing"),
  Check(IntOr(r.tier, 480) \notin Tiers, "bad_resolution_tier"),
  Check(IntOr(r.chunk, 0) < 1, "bad_chunk"),
  Check(IntOr(r.chunk, 0) \notin FrameMin..FrameMax, "frame_window"),
  Check(r.mode = "forward_dynamics" /\ r.width \in {Missing, Null}, "condition_missing"),
  Check(r.mode = "forward_dynamics" /\ r.domain \in DOMAIN Width /\ r.width # Width[r.domain],
        "width_mismatch")>>)

-----------------------------------------------------------------------------
(* The routes.  "jobs" takes the parameters as they are; the typed routes  *)
(* map their body and check the checkpoint label, and i2v its image.       *)

\* The one label a deployment serves: a label it does not know is fp8.
KnownCheckpoints == {"fp8", "nvfp4"}
DeployedCheckpoint == IF CheckpointLabel \in KnownCheckpoints THEN CheckpointLabel ELSE "fp8"
CheckpointError(label) == FirstError(<<
  Check(label \notin KnownCheckpoints \cup {"none"}, "invalid_param"),
  Check(label \notin {"none", DeployedCheckpoint}, "invalid_param")>>)

RouteError(r) ==
  IF r.route = "jobs" THEN "ok"
  ELSE FirstError(<<
    Check(r.mode = "i2v" /\ r.media.kind = "none" /\ r.path.image = "none", "invalid_param"),
    Check(CheckpointError(r.checkpoint) # "ok", CheckpointError(r.checkpoint))>>)

\* _params of the generation routes: t2i makes one frame, t2v_audio asks for
\* sound.
MappedGeneration(r) == [r EXCEPT !.frames = IF r.mode = "t2i" THEN 1 ELSE @,
                                 !.sound = (r.mode = "t2v_audio")]

\* _params of the action routes: the width of the actions is that of the first
\* row, and the body has neither frames nor steps.
MappedAction(r) == [r EXCEPT !.width = r.rows, !.frames = Missing, !.steps = Missing]

Mapped(r) == IF r.route = "jobs" THEN r
             ELSE IF r.mode \in ActionModes THEN MappedAction(r) ELSE MappedGeneration(r)

EdgeError(r) == FirstError(<<
  Check(r.mode \notin Modes, "invalid_param"),
  Check(PathError(r) # "ok", PathError(r)),
  Check(InlineError(r.media) # "ok", InlineError(r.media)),
  Check(OutputError(r) # "ok", OutputError(r)),
  Check(r.mode \in ActionModes /\ ActionError(r) # "ok", ActionError(r))>>)

\* submit_and_enqueue up to the store: "ok", or the code the caller gets.
Verdict(r) == IF RouteError(r) # "ok" THEN RouteError(r) ELSE EdgeError(Mapped(r))

\* What the job keeps of an accepted request: _persist_inline_media puts inline
\* media into a file and its path over the one the request may have named.
JobParams(r) ==
  [mode |-> r.mode,
   path |-> [k \in Kinds |-> IF k = r.media.kind THEN "inline" ELSE r.path[k]],
   resolution |-> r.resolution, height |-> r.height, wide |-> r.wide, frames |-> r.frames,
   steps |-> r.steps, sound |-> r.sound,
   domain |-> r.domain, chunk |-> r.chunk, tier |-> r.tier, width |-> r.width, rows |-> r.rows]

-----------------------------------------------------------------------------
(* work.py: what the worker refuses without asking the engine.             *)

\* The file a mode is conditioned on, if it must be.
Conditioning(mode) ==
  CASE mode \in {"i2v", "forward_dynamics", "policy"} -> "image"
    [] mode = "inverse_dynamics"                      -> "video"
    [] OTHER                                          -> "none"

\* A worker that makes a text-to-video job of an i2v job without its image.
RefusalMutant(p) ==
  LET kind == Conditioning(p.mode) IN
  IF kind # "none" /\ p.mode # "i2v" /\ p.path[kind] = "none" THEN "invalid_input" ELSE "ok"

Refusal(p) ==
  LET kind == Conditioning(p.mode)
      from == IF kind = "none" THEN "unused" ELSE p.path[kind] IN
  FirstError(<<
    Check(PathError(p) # "ok", "untrusted_path"),
    Check(p.mode \notin Modes, "unsupported_mode"),
    Check(from = "none", "invalid_input"),
    Check(from = "large", "payload_too_large")>>)

=============================================================================
