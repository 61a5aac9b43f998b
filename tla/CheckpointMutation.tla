------------------------- MODULE CheckpointMutation -------------------------
(***************************************************************************)
(* The checkpoint mutation of tools/checkpoint_prep (mutation.py,          *)
(* rewrite.py, integrity_probe.py): the FP8 transformer gets its action    *)
(* tensors and a BF16 lm_head from the BF16 source, its configuration and  *)
(* sidecars follow, the originals are kept as *.s5-orig.bak, and restore   *)
(* brings them back.                                                       *)
(*                                                                         *)
(* A command is a list of file operations, each atomic (a rename) or split *)
(* where it is not (a write first truncates).  The command may die between *)
(* any two of them: the process is killed, or an operation raises.         *)
(***************************************************************************)
EXTENDS Naturals, Sequences, FiniteSets

CONSTANTS
  Absent,  (* no such file                                                 *)
  Torn     (* a file being written: not readable                           *)

Files == {"weights", "config", "quant", "map"}

\* Stand-ins for the tensors: one quantized MLP weight, one BF16 weight, the
\* lm_head with its quantizer scale, and the action adapters.
Tensor(dtype, data) == [dtype |-> dtype, data |-> data]
OriginalWeights ==
  [t \in {"mlp", "embed", "lm_head", "lm_head_scale"} |->
     Tensor(CASE t \in {"mlp", "lm_head"} -> "F8" [] t = "embed" -> "BF16" [] OTHER -> "F32",
            "original")]
DroppedLmHead == {"lm_head", "lm_head_scale"}
Added == {"action", "lm_head"}

\* A file that is there and readable is neither of the two.
Tensors == DOMAIN OriginalWeights \cup Added
Contents ==
  (UNION {[S -> [dtype : {"F8", "BF16", "F32"}, data : {"original", "source", "damaged"}]] :
            S \in SUBSET Tensors})
  \cup [action_gen : BOOLEAN]
  \cup [quant_lmhead : BOOLEAN, n_quantized : Nat]
  \cup [dropped_action_keys : BOOLEAN, n_weight_quantized : Nat]
ASSUME MutationAssumption == Absent # Torn /\ Absent \notin Contents /\ Torn \notin Contents

Original ==
  [weights |-> OriginalWeights,
   config  |-> [action_gen |-> FALSE],
   quant   |-> [quant_lmhead |-> TRUE, n_quantized |-> 2],
   map     |-> [dropped_action_keys |-> TRUE, n_weight_quantized |-> 2]]

VARIABLES
  file,     (* the content of each file                                    *)
  backup,   (* the content of each *.s5-orig.bak                           *)
  tmp,      (* the rewritten weights, before they take their place         *)
  source,   (* what the BF16 source has for each added tensor              *)
  held,     (* the contents the running command holds in memory            *)
  todo,     (* the file operations it has left                             *)
  flags,    (* --no-backup and --no-verify                                 *)
  outcome,  (* how the last command ended                                  *)
  unbacked  (* a mutation without backups has begun to commit              *)

disk    == <<file, backup, tmp, source>>
command == <<held, todo, flags, outcome, unbacked>>
mutvars == <<disk, command>>

-----------------------------------------------------------------------------
(* mutation.py and the readers of rewrite.py.                              *)

\* hash_all_tensors: a tensor's hash is what its bytes are.
Hashes(w) == [t \in DOMAIN w |-> w[t].data]

\* _resolve_source_tensors: the added tensors the source's shards have.
ResolveSourceTensors == {t \in Added : source[t] # "missing"}
SourceHashes == [t \in ResolveSourceTensors |-> "source"]

AlreadyMutated(w) == "action" \in DOMAIN w /\ w["lm_head"].dtype = "BF16"

\* A plan that does not look for an earlier mutation.
PlannableAgainMutant(w) ==
  ResolveSourceTensors = Added /\ \A t \in Added : source[t] = "usable"

\* A source that lacks a tensor is refused before the plan; plan_mutation refuses
\* a second application, and tensors of another dtype or shape.
Plannable(w) ==
  /\ ResolveSourceTensors = Added
  /\ ~AlreadyMutated(w)
  /\ \A t \in Added : source[t] = "usable"

\* build_layout and _write_rewrite: kept tensors verbatim, added ones from the
\* source.
Rewritten(w) ==
  [t \in (DOMAIN w \ DroppedLmHead) \cup Added |->
     IF t \in Added THEN Tensor("BF16", "source") ELSE w[t]]

\* updated_sidecars: lm_head leaves the quantized set, the action keys are resolved.
UpdatedSidecars(quant, map) ==
  [quant |-> [quant_lmhead |-> FALSE, n_quantized |-> quant.n_quantized - 1],
   map   |-> [dropped_action_keys |-> FALSE, n_weight_quantized |-> map.n_weight_quantized - 1]]

-----------------------------------------------------------------------------
(* integrity_probe.py.                                                     *)

Quantized(w) == {t \in DOMAIN w : w[t].dtype = "F8" \/ t = "lm_head_scale"}

CheckActionSet(w) == "action" \in DOMAIN w /\ w["action"].dtype = "BF16"
CheckInv7Structure(w) ==
  /\ w["lm_head"].dtype = "BF16" /\ w["embed"].dtype = "BF16"
  /\ Quantized(w) \subseteq {"mlp"}
CheckQuantizedCount(w, quant) ==
  Cardinality({t \in DOMAIN w : w[t].dtype = "F8"}) = quant.n_quantized
CheckSidecars(config, quant, map) ==
  config.action_gen /\ ~quant.quant_lmhead /\ ~map.dropped_action_keys
CheckByteIdentity(pre, post) ==
  /\ \A t \in DOMAIN pre \ DroppedLmHead : t \in DOMAIN post /\ post[t] = pre[t]
  /\ "lm_head_scale" \notin DOMAIN post
  /\ Added \subseteq DOMAIN post
CheckSourceIdentity(post, src) ==
  \A t \in Added : t \in DOMAIN post /\ t \in DOMAIN src /\ post[t] = src[t]

\* probe_checkpoint without a backup or a source to compare with.
ProbeOk(f) ==
  /\ \A name \in Files : f[name] \notin {Absent, Torn}
  /\ CheckActionSet(f.weights)
  /\ CheckInv7Structure(f.weights)
  /\ CheckQuantizedCount(f.weights, f.quant)
  /\ CheckSidecars(f.config, f.quant, f.map)

-----------------------------------------------------------------------------
(* apply_mutation.                                                         *)

Op(do, f) == [do |-> do, file |-> f]
Ops(do, names) == [i \in 1..Len(names) |-> Op(do, names[i])]
Written(f) == <<Op("open", f), Op("fill", f)>>

MutationOps(fl) ==
  LET aside(names) == IF fl.backup THEN Ops("move", names) ELSE <<>> IN
  <<Op("write", "weights")>>
  \o (IF fl.verify THEN <<Op("verify", "weights")>> ELSE <<>>)
  \o aside(<<"weights">>) \o <<Op("place", "weights")>>
  \o aside(<<"config", "quant", "map">>)
  \o Written("config") \o <<Op("read", "quant")>> \o Written("quant") \o Written("map")

\* Everything up to the first write: read the headers and the configuration,
\* find the source tensors, plan.
Mutate(fl) ==
  /\ todo = <<>>
  /\ flags' = fl
  /\ IF file.weights # Absent /\ file.config \notin {Absent, Torn} /\ Plannable(file.weights)
     THEN /\ todo' = MutationOps(fl)
          /\ held' = [held EXCEPT !.config = [action_gen |-> TRUE]]
          /\ tmp' = Torn
          /\ outcome' = "none"
     ELSE outcome' = "failed" /\ UNCHANGED <<todo, held, tmp>>
  /\ UNCHANGED <<file, backup, source, unbacked>>

\* An operation is done; the last one ends the command.
Does(do) == todo # <<>> /\ Head(todo).do = do
Proceed(result) ==
  /\ todo' = Tail(todo)
  /\ outcome' = IF Len(todo) = 1 THEN result ELSE outcome
  /\ UNCHANGED <<source, flags>>

\* The write may go wrong unnoticed: what lands on the disk is not what was
\* read.
WriteRewrite ==
  /\ Does("write")
  /\ tmp' \in {Rewritten(file.weights)} \cup
              {[Rewritten(file.weights) EXCEPT ![t].data = "damaged"] : t \in {"mlp", "action"}}
  /\ Proceed("mutated")
  /\ UNCHANGED <<file, backup, held, unbacked>>

\* A verification that compares the added tensors only.
VerifyOutputMutant ==
  /\ Does("verify")
  /\ CheckSourceIdentity(Hashes(tmp), SourceHashes)
  /\ Proceed("mutated")
  /\ UNCHANGED <<file, backup, tmp, held, unbacked>>

VerifyOutput ==
  /\ Does("verify")
  /\ CheckByteIdentity(Hashes(file.weights), Hashes(tmp))
  /\ CheckSourceIdentity(Hashes(tmp), SourceHashes)
  /\ Proceed("mutated")
  /\ UNCHANGED <<file, backup, tmp, held, unbacked>>

\* The write or the verification raises: the temporary file is removed.
RewriteRaises ==
  /\ Does("write") \/ Does("verify")
  /\ tmp' = Absent /\ todo' = <<>> /\ outcome' = "failed"
  /\ UNCHANGED <<file, backup, source, held, flags, unbacked>>

\* os.replace(path, bak): an earlier backup would be overwritten.
BackupMove ==
  /\ Does("move")
  /\ LET f == Head(todo).file IN
     /\ file[f] # Absent
     /\ backup' = [backup EXCEPT ![f] = file[f]]
     /\ file' = [file EXCEPT ![f] = Absent]
  /\ Proceed("mutated")
  /\ UNCHANGED <<tmp, held, unbacked>>

PlaceWeights ==
  /\ Does("place")
  /\ file' = [file EXCEPT !.weights = tmp]
  /\ tmp' = Absent
  /\ unbacked' = (unbacked \/ ~flags.backup)
  /\ Proceed("mutated")
  /\ UNCHANGED <<backup, held>>

\* The sidecars are read from the backups, or in place when there are none.
ReadSidecars ==
  /\ Does("read")
  /\ LET from == IF flags.backup THEN backup ELSE file IN
     /\ {from.quant, from.map} \cap {Absent, Torn} = {}
     /\ LET new == UpdatedSidecars(from.quant, from.map) IN
        held' = [held EXCEPT !.quant = new.quant, !.map = new.map]
  /\ Proceed("mutated")
  /\ UNCHANGED <<file, backup, tmp, unbacked>>

OpenForWriting ==
  /\ Does("open")
  /\ file' = [file EXCEPT ![Head(todo).file] = Torn]
  /\ Proceed("mutated")
  /\ UNCHANGED <<backup, tmp, held, unbacked>>

WriteText ==
  /\ Does("fill")
  /\ file' = [file EXCEPT ![Head(todo).file] = held[Head(todo).file]]
  /\ Proceed("mutated")
  /\ UNCHANGED <<backup, tmp, held, unbacked>>

-----------------------------------------------------------------------------
(* restore_backup: the backups in the order of their sorted paths.         *)

Restored(f) == IF backup[f] # Absent THEN <<Op("restore", f)>> ELSE <<>>

\* A restore that starts with the transformer directory.
RestoreOpsMutant ==
  Restored("weights") \o Restored("config") \o Restored("quant") \o Restored("map")

RestoreOps == Restored("quant") \o Restored("map") \o Restored("config") \o Restored("weights")

Restore ==
  /\ todo = <<>>
  /\ todo' = RestoreOps
  /\ outcome' = IF RestoreOps = <<>> THEN "failed" ELSE "none"
  /\ UNCHANGED <<disk, held, flags, unbacked>>

RestoreOne ==
  /\ Does("restore")
  /\ LET f == Head(todo).file IN
     /\ file' = [file EXCEPT ![f] = backup[f]]
     /\ backup' = [backup EXCEPT ![f] = Absent]
  /\ Proceed("restored")
  /\ UNCHANGED <<tmp, held, unbacked>>

-----------------------------------------------------------------------------
\* The command is killed, or an operation raises.
CommandDies ==
  /\ todo # <<>>
  /\ todo' = <<>> /\ outcome' = "failed"
  /\ UNCHANGED <<disk, held, flags, unbacked>>

\* Somebody brings another source directory.
SourceChanges ==
  /\ todo = <<>>
  /\ source' \in {[t \in Added |-> "usable"]} \cup
                 {[action |-> s, lm_head |-> "usable"] : s \in {"missing", "wrong_dtype", "wrong_shape"}}
  /\ UNCHANGED <<file, backup, tmp, command>>

MutationInit ==
  /\ file = Original
  /\ backup = [f \in Files |-> Absent]
  /\ tmp = Absent
  /\ source = [t \in Added |-> "usable"]
  /\ held = [config |-> Absent, quant |-> Absent, map |-> Absent]
  /\ todo = <<>> /\ flags = [backup |-> TRUE, verify |-> TRUE]
  /\ outcome = "none" /\ unbacked = FALSE

MutationNext ==
  \/ \E fl \in [backup : BOOLEAN, verify : BOOLEAN] : Mutate(fl)
  \/ WriteRewrite \/ VerifyOutput \/ RewriteRaises
  \/ BackupMove \/ PlaceWeights \/ ReadSidecars \/ OpenForWriting \/ WriteText
  \/ Restore \/ RestoreOne
  \/ CommandDies
  \/ SourceChanges

-----------------------------------------------------------------------------
(* Properties.                                                             *)

\* "Atomic ... and reversible (retained *.s5-orig.bak)": whatever commands die
\* where, and whatever is run again after them, every original file is there,
\* in its place or as its backup, until a mutation is run without backups.
OriginalsSurvive ==
  ~unbacked => \A f \in Files : Original[f] \in {file[f], backup[f]}

\* A restore that says it is done has brought every file back.
RestoreUndoes == outcome = "restored" => file = Original

\* A verified mutation that reports success leaves a checkpoint that the
\* integrity probe accepts, and whose payloads are those of the original and
\* of the source.
MutationPassesProbe ==
  outcome = "mutated" /\ flags.verify =>
    /\ ProbeOk(file)
    /\ CheckByteIdentity(Hashes(OriginalWeights), Hashes(file.weights))
    /\ \A t \in Added : file.weights[t].data = "source"

=============================================================================
