--------------------------- MODULE CheckpointLoad ---------------------------
(***************************************************************************)
(* The in-process engines that load a checkpoint directory, in whatever    *)
(* state the checkpoint tools have left it: the diffusers oracle           *)
(* (engines/diffusers_oracle), the action engine grafted on it             *)
(* (engines/diffusers_action) and the vLLM reasoner (engines/vllm).  Each  *)
(* refuses a directory at the first check that fails; an engine that       *)
(* passes them all serves.  A load only reads, and the operator runs the   *)
(* tools while no engine is loaded, so a load is one step.                 *)
(***************************************************************************)
EXTENDS CheckpointMutation, CheckpointCopy

CONSTANTS
  Labels,             (* the recipe in quantization_config.json and the    *)
                      (* layout of the scales: no tool touches either      *)
  ExpectedQuantized   (* 505 in the code; of the stand-in tensors, 2       *)

ASSUME LoadAssumption ==
  /\ Labels \subseteq [recipe : STRING, layout : {"fp8", "nvfp4"}]
  /\ ExpectedQuantized \in Nat

VARIABLE engine  (* the engine in memory, or why the last load was refused *)

None == "none"
Then(error, next) == IF error # None THEN error ELSE next
NoLabel == [recipe |-> "", layout |-> "fp8"]
Idle == [kind |-> None, from |-> None, label |-> NoLabel, refused |-> None]
Serving(kind) == engine.kind = kind /\ engine.refused = None

-----------------------------------------------------------------------------
(* diffusers_oracle/loader.py and config.py.                               *)

DiscoverTransformerDir(f) ==
  IF f.weights = Absent \/ f.config = Absent THEN "not_found" ELSE None

\* The modules of the skeleton once modelopt_state.pt, which no tool rewrites,
\* has put the quantizers back.
Skeleton(actionGen) == DOMAIN OriginalWeights \cup (IF actionGen THEN {"action"} ELSE {})

\* from_config and load_state_dict(strict=True).
LoadStateDict(f, tensors, actionGen) ==
  IF f.config = Torn \/ tensors # Skeleton(actionGen) THEN "keys" ELSE None

LoadTransformer(f) == LoadStateDict(f, DOMAIN f.weights, FALSE)

\* An absent declaration is an empty one.
ReadQuantConfig(f, label) == IF f.quant = Absent THEN "" ELSE label.recipe

PrecisionFromQuantConfig(recipe) ==
  CASE recipe \in {"nvfp4_awq", "nvfp4_blockwise_mixed"} -> "nvfp4"
    [] recipe = "fp8" -> "fp8"
    [] OTHER -> "unknown"

\* The precision the scales of the loaded weights show, and their number.
ObservePrecision(w, label) ==
  [precision |-> label.layout, n_quantized |-> Cardinality({t \in DOMAIN w : w[t].dtype = "F8"})]

\* A check that believes the declaration.
VerifyPrecisionMutant(f, label) ==
  IF f.quant = Torn \/ PrecisionFromQuantConfig(ReadQuantConfig(f, label)) = "unknown"
  THEN "recipe" ELSE None

VerifyPrecision(f, label) ==
  LET declared == PrecisionFromQuantConfig(ReadQuantConfig(f, label))
      observed == ObservePrecision(f.weights, label)
  IN  CASE f.quant = Torn \/ declared = "unknown" -> "recipe"
        [] declared # "unknown" /\ observed # [precision |-> declared, n_quantized |-> ExpectedQuantized]
             -> "precision"
        [] OTHER -> None

\* Cosmos3OmniPipeline.from_pretrained: the VAE, the tokenizers and the other
\* modules come from beside the transformer, through a symlink too.
LoadPipeline ==
  IF \A x \in Inventory : entry[x] = "real" \/ (entry[x] = "link" /\ base)
  THEN None ELSE "pipeline"

BuildOracle(f, label) ==
  Then(DiscoverTransformerDir(f),
       Then(LoadTransformer(f), Then(VerifyPrecision(f, label), LoadPipeline)))

-----------------------------------------------------------------------------
(* diffusers_action/loader.py.                                             *)

\* COSMOS3_BASE_ACTION_DIR: unset, the adapters are read from the checkpoint.
ActionDirs == {"own", "override"}

ReadActionAdapterTensors(f, dir) ==
  IF dir = "own" THEN DOMAIN f.weights \cap {"action"}
  ELSE {t \in {"action"} : source[t] # "missing"}

MergeStateDicts(gen, adapters) ==
  CASE adapters = {} -> "no_adapters"
    [] gen \cap adapters # {} -> "collision"
    [] OTHER -> None

LoadActionTransformer(f, dir, label) ==
  LET adapters == ReadActionAdapterTensors(f, dir) IN
  Then(DiscoverTransformerDir(f),
    Then(MergeStateDicts(DOMAIN f.weights, adapters),
      Then(IF dir = "override" /\ source["action"] = "wrong_shape" THEN "keys"
           ELSE LoadStateDict(f, DOMAIN f.weights \cup adapters, TRUE),
           VerifyPrecision(f, label))))

BuildActionEngine(f, dir, label) == Then(LoadActionTransformer(f, dir, label), LoadPipeline)

-----------------------------------------------------------------------------
(* vllm/reasoner_preflight.py and vllm/loader.py.                          *)

\* COSMOS3_REASONER_MODEL_DIR: this checkpoint, the BF16 base, another model,
\* a directory whose header cannot be read.
ReasonerDirs == {"own", "base", "other_model", "malformed"}
Bf16Weights == [t \in {"mlp", "embed", "lm_head", "action"} |-> Tensor("BF16", "source")]

ReadTransformerHeaders(f, dir) ==
  CASE dir = "own" -> IF f.weights = Absent THEN "no_weights" ELSE None
    [] dir = "malformed" -> "malformed_header"
    [] OTHER -> None

Headers(f, dir) == IF dir = "own" THEN f.weights ELSE Bf16Weights

\* The reasoner drops the generation tower and the adapters.
IsDropped(t) == t = "action"
IsKept(t) == ~IsDropped(t)

\* A verdict that looks for the quantizers only, not at the weights' type.
ReasonerSourceVerdictMutant(h) ==
  LET kept == {t \in DOMAIN h : IsKept(t)} IN
  CASE "lm_head_scale" \in kept -> "quantized"
    [] kept = {} -> "empty_tower"
    [] OTHER -> None

ReasonerSourceVerdict(h) ==
  LET kept == {t \in DOMAIN h : IsKept(t)} IN
  CASE "lm_head_scale" \in kept \/ \E t \in kept : h[t].dtype = "F8" -> "quantized"
    [] kept = {} -> "empty_tower"
    [] OTHER -> None

AssertReasonerSource(f, dir) ==
  Then(ReadTransformerHeaders(f, dir), ReasonerSourceVerdict(Headers(f, dir)))

\* verify_reasoner_info on what observe_arch_dtype reads of the loaded engine:
\* the architecture of the directory, the type that was asked for.
VerifyReasonerInfo(dir, dtype) ==
  IF dir = "other_model" \/ dtype # "bfloat16" THEN "identity" ELSE None

BuildReasoner(f, dir, dtype) == Then(AssertReasonerSource(f, dir), VerifyReasonerInfo(dir, dtype))

-----------------------------------------------------------------------------
Loads(kind, from, label, error) ==
  /\ engine = Idle /\ todo = <<>> /\ copying = "no"
  /\ engine' = [kind |-> kind, from |-> from, label |-> label, refused |-> error]
  /\ UNCHANGED <<mutvars, copyvars>>

LoadsOracle(label) == Loads("oracle", "own", label, BuildOracle(file, label))
LoadsAction(dir, label) == Loads("action", dir, label, BuildActionEngine(file, dir, label))
LoadsReasoner(dir, dtype) == Loads("reasoner", dir, NoLabel, BuildReasoner(file, dir, dtype))

Unloads == engine # Idle /\ engine' = Idle /\ UNCHANGED <<mutvars, copyvars>>

LoadInit == engine = Idle

LoadNext ==
  \/ \E label \in Labels : LoadsOracle(label)
  \/ \E dir \in ActionDirs, label \in Labels : LoadsAction(dir, label)
  \/ \E dir \in ReasonerDirs, dtype \in {"bfloat16", "float16"} : LoadsReasoner(dir, dtype)
  \/ Unloads

-----------------------------------------------------------------------------
(* Properties.                                                             *)

\* "We refuse to serve an engine whose actual precision we cannot confirm":
\* after any commands, dead or finished, the diffusers engines serve only the
\* original checkpoint, all four files of it, under the precision it declares
\* and has, and the action engine only with adapters from the override: an
\* unmutated directory has none of its own, and in a mutated one they collide.
EnginesServeTheOriginal ==
  Serving("oracle") \/ Serving("action") =>
    /\ file = Original
    /\ engine.label.layout = PrecisionFromQuantConfig(engine.label.recipe)
    /\ Serving("action") => engine.from = "override"

\* The reasoner cannot dequantize: it never serves this checkpoint, in none of
\* the states the tools can leave it in.
ReasonerServesBf16 == Serving("reasoner") => engine.from = "base"

=============================================================================
