----------------------------- MODULE RequestForms -----------------------------
(***************************************************************************)
(* What an engine is asked to make of a job: the forms of the vLLM-Omni    *)
(* client (api/engines/vllm_omni/client.py, work.py) and the requests of   *)
(* the diffusers worker (api/jobs/gen_client.py, orchestrator/             *)
(* gen_worker.py), with the sizes both default to (engines/base.py).       *)
(*                                                                         *)
(* p is what a job keeps of its request (JobParams).  A form has the size, *)
(* the frames and the steps of a result, and what it is conditioned on;    *)
(* prompts, the other sampler settings and the encoding are left out.      *)
(***************************************************************************)
EXTENDS RequestEdge

\* int(params.get(key, default)): the default is for an absent key only.
Get(v, default) == IF v = Missing THEN default ELSE v

VideoModes == {"t2v", "i2v", "t2v_audio"}
DefaultDimensions(mode, resolution) ==
  IF resolution \notin {Missing, Null} THEN <<resolution, resolution>>
  ELSE IF mode \in VideoModes THEN <<1280, 720>> ELSE <<480, 480>>

Sized(p) == LET d == DefaultDimensions(p.mode, p.resolution) IN <<Get(p.wide, d[1]), Get(p.height, d[2])>>

-----------------------------------------------------------------------------
(* vLLM-Omni.                                                              *)

ResolvedParams(p) ==
  [size |-> Sized(p), frames |-> Get(p.frames, 1), steps |-> Get(p.steps, 35), sound |-> p.sound]

\* The image of an i2v job is the only input a video form has.
BuildVideoForm(p) ==
  LET rp == ResolvedParams(p) IN
  [size |-> rp.size, frames |-> rp.frames, steps |-> rp.steps, sound |-> rp.sound,
   input |-> IF p.mode = "i2v" THEN "image" ELSE "none"]

\* One image: the frames and the sound of the parameters are not sent.
BuildImageBody(p) ==
  LET rp == ResolvedParams(p) IN
  [size |-> rp.size, frames |-> 1, steps |-> rp.steps, sound |-> FALSE,
   input |-> "none"]

\* A tier is the height of a picture of 4:3, round(tier * 4 / 3) made even.
TierSize(tier) == LET w == (4 * tier + 1) \div 3 IN <<w - (w % 2), tier>>

FdResolvedParams(p) ==
  [size |-> TierSize(Get(p.tier, 480)), frames |-> Get(p.frames, Get(p.chunk, 0) + 1),
   steps |-> Get(p.steps, 30)]
ActionResolvedParams(p) ==
  [size |-> TierSize(Get(p.tier, 480)), frames |-> Get(p.frames, Get(p.chunk, 0) + 1),
   steps |-> Get(p.steps, 30)]

\* The width of the actions: that of the tensor sent, or of the embodiment.
ActionExtraParams(p) == p.width
ActionExtraParamsPredict(p) == IF p.domain \in DOMAIN Width THEN Width[p.domain] ELSE Missing

BuildFdForm(p) ==
  LET fp == FdResolvedParams(p) IN
  [size |-> fp.size, frames |-> fp.frames, steps |-> fp.steps, sound |-> FALSE,
   input |-> "image", width |-> ActionExtraParams(p)]
BuildActionForm(p) ==
  LET ap == ActionResolvedParams(p) IN
  [size |-> ap.size, frames |-> ap.frames, steps |-> ap.steps, sound |-> FALSE,
   input |-> Conditioning(p.mode), width |-> ActionExtraParamsPredict(p)]

Form(p) == CASE p.mode = "t2i"              -> BuildImageBody(p)
             [] p.mode = "forward_dynamics" -> BuildFdForm(p)
             [] p.mode \in ActionModes      -> BuildActionForm(p)
             [] OTHER                       -> BuildVideoForm(p)

\* No int() of the form raises; resolution alone is looked at for null.
Buildable(p) ==
  IF p.mode \in ActionModes THEN \A v \in {p.tier, p.chunk, p.frames, p.steps} : ~IntFails(v)
  ELSE p.resolution # NotInt /\ \A v \in {p.wide, p.height, p.frames, p.steps} : ~IntFails(v)

\* _param_record: what the job's metadata says it was made with.
ParamRecord(p) ==
  LET rp == CASE p.mode = "forward_dynamics" -> FdResolvedParams(p)
              [] p.mode \in ActionModes      -> ActionResolvedParams(p)
              [] OTHER                       -> ResolvedParams(p) IN
  [size |-> rp.size, frames |-> rp.frames, steps |-> rp.steps]

-----------------------------------------------------------------------------
(* Diffusers.                                                              *)

\* build_request: the mode's kind, and the paths that are named, resolved anew.
BuildRequest(p, latents) ==
  [kind |-> IF p.mode \in ActionModes THEN "action" ELSE "generation",
   params |-> p, latents |-> latents]

\* A worker with a default of its own.
ToGenerationRequestMutant(p) ==
  [size |-> <<Get(p.wide, 480), Get(p.height, 480)>>, frames |-> Get(p.frames, 1),
   steps |-> Get(p.steps, 8), sound |-> p.sound, image |-> p.path["image"]]

ToGenerationRequest(p) ==
  [size |-> Sized(p), frames |-> Get(p.frames, 1), steps |-> Get(p.steps, 8),
   sound |-> p.sound, image |-> p.path["image"]]

\* The steps of an action request are ActionRequest's, whatever the job says.
ToActionRequest(p) ==
  [mode |-> p.mode, domain |-> p.domain, chunk |-> Get(p.chunk, 0), tier |-> Get(p.tier, 480),
   rows |-> p.rows, path |-> p.path, steps |-> 8]

\* What the mapping's int() calls see.
Convertible(p) ==
  IF p.mode \in ActionModes THEN ~IntFails(p.tier) /\ ~IntFails(p.chunk)
  ELSE p.resolution # NotInt /\ \A v \in {p.wide, p.height, p.frames, p.steps} : ~IntFails(v)

\* spec_of: the width is that of the tensor the request carries, whatever the
\* job declared; media has become a path.
SpecOf(a) ==
  [mode |-> a.mode, domain |-> a.domain, chunk |-> a.chunk, tier |-> a.tier,
   width |-> a.rows, path |-> a.path, media |-> [kind |-> "none"]]

=============================================================================
