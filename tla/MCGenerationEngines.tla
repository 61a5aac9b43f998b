--------------------------- MODULE MCGenerationEngines ------------------------
(***************************************************************************)
(* Instances of GenerationEngines for TLC.  The requests cover every mode  *)
(* with each way to condition it, and, one field at a time, what the       *)
(* checks of the edge look at.                                             *)
(***************************************************************************)
EXTENDS GenerationEngines

MCLimits == [bytes |-> [image |-> 8, video |-> 8, audio |-> 8], side |-> 4, frames |-> 400,
             seconds |-> 2, rate |-> 48, channels |-> 2,
             resolutions |-> {480, 720}, dimensions |-> {480, 720}]

Media(kind, mime) ==
  [kind |-> kind, bytes |-> 8, base64 |-> TRUE, mime |-> mime,
   side |-> 4, rate |-> 48, channels |-> 2, seconds |-> 2]
NoMedia == Media("none", "none")
Png == Media("image", "png")
Mp4 == Media("video", "mp4")
Wav == Media("audio", "wav")

NoPath == [k \in Kinds |-> "none"]
Video == [route |-> "jobs", mode |-> "t2v", path |-> NoPath, media |-> NoMedia,
          resolution |-> Missing, height |-> Missing, wide |-> Missing, frames |-> Missing,
          steps |-> Missing, sound |-> FALSE, checkpoint |-> "none",
          domain |-> "av", chunk |-> FrameMin, tier |-> Missing, width |-> Missing, rows |-> Missing]
Of(mode, media) == [Video EXCEPT !.mode = mode, !.media = media]
On(mode, kind, where) == [Video EXCEPT !.mode = mode, !.path[kind] = where]
Typed(r) == [r EXCEPT !.route = "typed"]
Forward(r) == [r EXCEPT !.width = Width.av, !.rows = Width.av]

Policy == Of("policy", Png)
Servable == {
  [Video EXCEPT !.wide = 720], [Of("t2i", NoMedia) EXCEPT !.frames = 2, !.resolution = 720],
  [Of("t2i", NoMedia) EXCEPT !.steps = NotInt], Of("i2v", NoMedia), 
  [Typed(Of("i2v", Png)) EXCEPT !.checkpoint = "fp8"],
  Typed(Of("t2v_audio", Wav)), Forward(Typed(Of("forward_dynamics", Png))),
  Policy, On("policy", "image", "large"), [Policy EXCEPT !.tier = Null],
  On("inverse_dynamics", "video", "trusted")}

\* One thing wrong with each.
WrongMedia == {
  [Png EXCEPT !.bytes = 9], [Png EXCEPT !.bytes = 13], [Png EXCEPT !.base64 = FALSE],
  [Png EXCEPT !.mime = "mp4"], [Png EXCEPT !.side = 5], Media("text", "none"),
  [Wav EXCEPT !.rate = 44], [Wav EXCEPT !.channels = 1], [Wav EXCEPT !.seconds = 3],
  [Mp4 EXCEPT !.mime = "png"]}
Refusable ==
  {Of("t2v", m) : m \in WrongMedia} \cup {
  Of("t2x", NoMedia), Typed(Of("i2v", NoMedia)), On("i2v", "image", "outside"),
  [Video EXCEPT !.resolution = Null], [Video EXCEPT !.resolution = 481],
  [Video EXCEPT !.height = NotInt], [Video EXCEPT !.height = 481], [Video EXCEPT !.wide = Null],
  [Video EXCEPT !.frames = 401],
  [Typed(Video) EXCEPT !.checkpoint = "other"], [Typed(Video) EXCEPT !.checkpoint = "nvfp4"],
  Of("policy", NoMedia), Of("policy", Mp4), Of("inverse_dynamics", Png),
  [On("policy", "video", "trusted") EXCEPT !.media = Png],
  [Policy EXCEPT !.domain = "libero"], [Policy EXCEPT !.domain = "other"],
  [Policy EXCEPT !.chunk = Missing], [Policy EXCEPT !.chunk = FrameMin - 1],
  [Policy EXCEPT !.chunk = FrameMax + 1], [Policy EXCEPT !.chunk = NotInt],
  [Policy EXCEPT !.tier = 481],
  Of("forward_dynamics", Png), [Forward(Of("forward_dynamics", Png)) EXCEPT !.width = 8]}

\* The second job meets what the first has left, may be a replay of it, and
\* uploads the same inline image; the engine answers it in one call.
MCRequests == <<Servable \cup Refusable, {Of("t2i", Png)}>>

\* A request of every kind the worker tells apart, a forward_dynamics job whose
\* tensor is not what it declares, and one the edge refuses; then a second job.
Sound == Typed(Of("t2v_audio", NoMedia))
Narrow == [Forward(Of("forward_dynamics", Png)) EXCEPT !.rows = 8]
MCTasks == <<{Of("t2i", NoMedia), Sound, Forward(Of("forward_dynamics", Png)), Narrow,
              [Policy EXCEPT !.tier = Null], Of("inverse_dynamics", Mp4), Of("policy", NoMedia)},
             {Video}>>
=============================================================================
