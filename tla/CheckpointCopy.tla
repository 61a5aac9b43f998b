--------------------------- MODULE CheckpointCopy ---------------------------
(***************************************************************************)
(* Making a checkpoint self-contained (tools/checkpoint_prep/              *)
(* copy_shared.py): the entries that are symlinks into the BF16 base are   *)
(* replaced by copies, first those of a fixed inventory, then whatever     *)
(* else at the top level is still such a symlink; then the result is       *)
(* verified.  The command may die between any two file operations and be   *)
(* run again.                                                              *)
(***************************************************************************)
EXTENDS Naturals

CONSTANTS
  Inventory,  (* entries of the fixed inventory                            *)
  Others,     (* the other top-level symlinks of the checkpoint            *)
  Dirs        (* the entries that are directories                          *)

ASSUME CopyAssumption == Inventory \cap Others = {} /\ Dirs \subseteq Inventory \cup Others

Entries == Inventory \cup Others

VARIABLES
  entry,     (* each entry: symlink, gone, real with some of its content,  *)
             (* real with all of it                                        *)
  base,      (* the BF16 base has every file of the inventory              *)
  copying,   (* the pass of the running command over its entries, or "no"  *)
  left,      (* the entries this pass has not come to                      *)
  step,      (* what comes next, with the entry the pass is at             *)
  planned,   (* the entries this command replaces                          *)
  verifying, (* without --no-verify                                        *)
  report     (* the last command's report                                  *)

result   == <<planned, verifying, report>>
copyvars == <<entry, base, copying, left, step, result>>

-----------------------------------------------------------------------------
Becomes(x, to) == entry' = [entry EXCEPT ![x] = to]
At(do) == copying # "no" /\ step.do = do

NextEntry == [do |-> "next", entry |-> "none"]

\* execute_copy, a pass over the entries xs: the properties hold in any order.
ExecuteCopy(pass, xs) == copying' = pass /\ left' = xs /\ step' = NextEntry

\* What the process had in memory goes with it.
CommandEnds(how) ==
  /\ report' = how
  /\ copying' = "no" /\ left' = {} /\ step' = NextEntry /\ planned' = {}

\* make_self_contained: plan_copy fails closed when a source file is missing.
MakeSelfContained(verify) ==
  /\ copying = "no"
  /\ verifying' = verify
  /\ IF base
     THEN ExecuteCopy("inventory", Inventory) /\ planned' = Inventory /\ report' = "none"
     ELSE report' = "failed" /\ UNCHANGED <<copying, left, step, planned>>
  /\ UNCHANGED <<entry, base>>

\* For one entry: a symlink is unlinked, a directory is made, the bytes are
\* copied (each file to a temporary one, then renamed).
Unlink(x) ==
  /\ At("next") /\ x \in left
  /\ left' = left \ {x}
  /\ Becomes(x, IF entry[x] = "link" THEN "gone" ELSE entry[x])
  /\ step' = [do |-> IF x \in Dirs THEN "mkdir" ELSE "copy", entry |-> x]
  /\ UNCHANGED <<base, copying, result>>

MakeDir ==
  /\ At("mkdir")
  /\ LET x == step.entry IN Becomes(x, IF entry[x] = "gone" THEN "partial" ELSE entry[x])
  /\ step' = [step EXCEPT !.do = "copy"]
  /\ UNCHANGED <<base, copying, left, result>>

\* A copy that leaves an entry alone that is real already.
CopyMissingMutant ==
  /\ At("copy")
  /\ LET x == step.entry IN Becomes(x, IF entry[x] = "gone" THEN "real" ELSE entry[x])
  /\ step' = NextEntry
  /\ UNCHANGED <<base, copying, left, result>>

Copy ==
  /\ At("copy")
  /\ Becomes(step.entry, "real")
  /\ step' = NextEntry
  /\ UNCHANGED <<base, copying, left, result>>

PassEnds(pass) == copying = pass /\ step = NextEntry /\ left = {}

\* plan_symlink_sweep: the top-level entries that are still symlinks.
Sweep ==
  /\ PassEnds("inventory")
  /\ LET swept == {x \in Entries : entry[x] = "link"} IN
     planned' = planned \cup swept /\ ExecuteCopy("sweep", swept)
  /\ UNCHANGED <<entry, base, verifying, report>>

\* verify_copy: every planned entry is a true copy, and no symlink is left.
Verified(xs) ==
  /\ \A x \in xs : entry[x] = "real"
  /\ \A x \in Entries : entry[x] # "link"

Report ==
  /\ PassEnds("sweep")
  /\ CommandEnds(IF verifying /\ ~Verified(planned) THEN "problems" ELSE "ok")
  /\ UNCHANGED <<entry, base, verifying>>

\* The command is killed, or an operation raises.
CopyDies ==
  /\ copying # "no"
  /\ CommandEnds("failed")
  /\ UNCHANGED <<entry, base, verifying>>

BaseChanges ==
  /\ copying = "no"
  /\ base' = ~base
  /\ UNCHANGED <<entry, copying, left, step, result>>

CopyInit ==
  /\ entry = [x \in Entries |-> "link"]
  /\ base = TRUE
  /\ copying = "no" /\ left = {} /\ step = NextEntry
  /\ planned = {} /\ verifying = TRUE /\ report = "none"

CopyNext ==
  \/ \E v \in BOOLEAN : MakeSelfContained(v)
  \/ \E x \in Entries : Unlink(x)
  \/ MakeDir \/ Copy \/ Sweep \/ Report
  \/ CopyDies
  \/ BaseChanges

-----------------------------------------------------------------------------
(* Properties.                                                             *)

\* Running the copy again after it died anywhere completes the inventory: a
\* report without problems means that all of it is there and real.
InventoryIsComplete == report = "ok" => \A x \in Inventory : entry[x] = "real"

\* "Materialize every planned item as a real file/dir, atomically replacing
\* dangling symlinks.  Idempotent": a verified report without problems means
\* that everything that was a symlink is now a complete copy.
SelfContainedIsComplete ==
  report = "ok" /\ verifying => \A x \in Entries : entry[x] = "real"

=============================================================================
