--------------------------- MODULE CheckpointProofs ---------------------------
(***************************************************************************)
(* The theorems of CheckpointTool: whatever commands run and die where,    *)
(* the original survives, what a command says it did is done, and no       *)
(* engine serves what it should not.                                       *)
(***************************************************************************)
EXTENDS CheckpointTool, SequenceTheorems, FiniteSetTheorems, TLAPS

-------------------------------------------------------------------------------
(* The invariant of the commands that mutate and restore.                  *)

NewWeights == Rewritten(OriginalWeights)
NewConfig == [action_gen |-> TRUE]
NewSidecars == UpdatedSidecars(Original.quant, Original.map)

\* What a rewrite may have put on the disk.
Changed == {NewWeights} \cup {[NewWeights EXCEPT ![t].data = "damaged"] : t \in {"mlp", "action"}}

\* The backups that exist are those of the files in S.
BackedUp(S) == backup = [f \in Files |-> IF f \in S THEN Original[f] ELSE Absent]

FileTypeOK ==
  /\ file = [f \in Files |-> file[f]]
  /\ held = [f \in {"config", "quant", "map"} |-> held[f]]
  /\ flags \in [backup : BOOLEAN, verify : BOOLEAN]

\* The checkpoint as it was before any mutation.
Clean == file = Original /\ BackedUp({}) /\ ~unbacked

\* A checkpoint that a mutation has begun to change: it cannot be mutated, and it
\* can be restored if the mutation kept backups.
Halfway ==
  /\ file.weights \in Changed \cup {Absent}
  /\ \E S \in SUBSET Files : BackedUp(S)
  /\ ~unbacked => \A f \in Files : Original[f] \in {file[f], backup[f]}
  /\ unbacked => BackedUp({})

Cat(s, t) == s \o t
One(do, f) == <<Op(do, f)>>

\* The operations left, by the first of them.
FillMap     == Cat(One("fill", "map"), <<>>)
OpenMap     == Cat(One("open", "map"), FillMap)
FillQuant   == Cat(One("fill", "quant"), OpenMap)
OpenQuant   == Cat(One("open", "quant"), FillQuant)
ReadQuant   == Cat(One("read", "quant"), OpenQuant)
FillConfig  == Cat(One("fill", "config"), ReadQuant)
OpenConfig  == Cat(One("open", "config"), FillConfig)
MoveMap     == Cat(One("move", "map"), OpenConfig)
MoveQuant   == Cat(One("move", "quant"), MoveMap)
MoveConfig  == Cat(One("move", "config"), MoveQuant)
Place       == Cat(One("place", "weights"), (IF flags.backup THEN MoveConfig ELSE OpenConfig))
MoveWeights == IF flags.backup THEN Cat(One("move", "weights"), Place) ELSE Place
Verify      == IF flags.verify THEN Cat(One("verify", "weights"), MoveWeights) ELSE MoveWeights
Write       == Cat(One("write", "weights"), Verify)

\* The rewritten weights, which a verification has found good.
Good(w) == w \in Changed /\ (flags.verify => w = NewWeights)

\* Before the weights are moved or placed nothing has changed.
Preparing ==
  /\ Clean /\ held.config = NewConfig
  /\ \/ todo = Write
     \/ flags.verify /\ todo = Verify /\ tmp \in Changed
     \/ todo = MoveWeights /\ Good(tmp)

\* The new weights take the place of the old ones, whose backup is there.
Placing ==
  /\ todo = Place /\ flags.backup /\ Good(tmp) /\ held.config = NewConfig
  /\ file = [Original EXCEPT !.weights = Absent] /\ BackedUp({"weights"}) /\ ~unbacked

\* The sidecars go to their backups, one by one.
Moving ==
  /\ flags.backup /\ Good(file.weights) /\ held.config = NewConfig /\ ~unbacked
  /\ file.map = Original.map
  /\ \/ /\ todo = MoveConfig /\ BackedUp({"weights"})
        /\ file.config = Original.config /\ file.quant = Original.quant
     \/ todo = MoveQuant /\ BackedUp({"weights", "config"}) /\ file.quant = Original.quant
     \/ todo = MoveMap /\ BackedUp({"weights", "config", "quant"})

\* The sidecars are written, each after the originals have been read.
Filling ==
  /\ Good(file.weights) /\ held.config = NewConfig
  /\ IF flags.backup THEN BackedUp(Files) /\ ~unbacked ELSE BackedUp({}) /\ unbacked
  /\ \/ /\ todo \in {OpenConfig, FillConfig}
        /\ ~flags.backup => file.quant = Original.quant /\ file.map = Original.map
     \/ /\ todo = ReadQuant /\ file.config = NewConfig
        /\ ~flags.backup => file.quant = Original.quant /\ file.map = Original.map
     \/ /\ todo \in {OpenQuant, FillQuant} /\ file.config = NewConfig
        /\ held.quant = NewSidecars.quant /\ held.map = NewSidecars.map
     \/ /\ todo \in {OpenMap, FillMap} /\ file.config = NewConfig /\ file.quant = NewSidecars.quant
        /\ held.map = NewSidecars.map

Restoring == Halfway /\ todo = RestoreOps /\ todo # <<>>

Settled == todo = <<>> /\ (Clean \/ Halfway)

\* What a command that has ended said of its end.
MutatedAll ==
  /\ Good(file.weights) /\ file.config = NewConfig
  /\ file.quant = NewSidecars.quant /\ file.map = NewSidecars.map
OutcomeInv ==
  \/ outcome = "none" 
  \/ outcome = "failed" /\ todo = <<>>
  \/ outcome = "mutated" /\ todo = <<>> /\ MutatedAll
  \/ outcome = "restored" /\ todo = <<>> /\ file = Original

DiskInv == Settled \/ Preparing \/ Placing \/ Moving \/ Filling \/ Restoring

MutationInv == FileTypeOK /\ DiskInv /\ OutcomeInv

-------------------------------------------------------------------------------
(* Sequences of operations.                                                *)

Operations ==
  [do : {"fill", "open", "read", "move", "place", "verify", "write", "restore"}, file : Files]

\* s is the operation o, then t.
Is(s, o, t) ==
  /\ s \in Seq(Operations) /\ s # <<>> /\ (Len(s) = 1 <=> t = <<>>)
  /\ Head(s) = o /\ Tail(s) = t

\* The first operation and the others.
LEMMA Cons ==
  ASSUME NEW do \in {"fill", "open", "read", "move", "place", "verify", "write", "restore"},
         NEW f \in Files, NEW s \in Seq(Operations)
  PROVE  Is(Cat(One(do, f), s), Op(do, f), s)
<1> DEFINE o == Op(do, f)
           t == <<o>> \o s
<1>1. o \in Operations
  BY DEF Op, Operations
<1> HIDE DEF o
<1>2. <<o>> \in Seq(Operations) /\ Len(<<o>>) = 1 /\ <<o>>[1] = o
  BY <1>1
<1>3. t \in Seq(Operations) /\ Len(t) = 1 + Len(s) /\ Len(s) \in Nat
      /\ \A i \in 1..(1 + Len(s)) : t[i] = IF i <= 1 THEN <<o>>[i] ELSE s[i - 1]
  BY <1>2, ConcatProperties, LenProperties
<1> HIDE DEF t
<1>4. t # <<>> /\ Head(t) = t[1] /\ Tail(t) \in Seq(Operations) /\ Len(Tail(t)) = Len(t) - 1
      /\ \A i \in 1..Len(Tail(t)) : Tail(t)[i] = t[i + 1]
  BY <1>3, HeadTailProperties
<1>5. Head(t) = o
  BY <1>2, <1>3, <1>4
<1>6. Tail(t) = s
  <2>1. \A i \in 1..Len(Tail(t)) : Tail(t)[i] = s[i]
    BY <1>3, <1>4
  <2> QED BY <1>3, <1>4, <2>1, SeqEqual
<1>7. Len(t) = 1 <=> s = <<>>
  BY <1>3, EmptySeq
<1>8. t = Cat(One(do, f), s)
  BY DEF t, Cat, One, o
<1> QED BY <1>3, <1>4, <1>5, <1>6, <1>7, <1>8 DEF o, Is

\* Concatenation: what the proofs need of it.
LEMMA Assoc ==
  ASSUME NEW a \in Seq(Operations), NEW b \in Seq(Operations), NEW c \in Seq(Operations)
  PROVE  /\ Cat(Cat(a, b), c) = Cat(a, Cat(b, c))
         /\ Cat(a, b) \in Seq(Operations)
         /\ Cat(a, <<>>) = a /\ Cat(<<>>, a) = a
<1>1. (a \o b) \o c = a \o (b \o c)
  BY ConcatAssociative
<1>2. a \o b \in Seq(Operations)
  BY ConcatProperties
<1>3. a \o <<>> = a /\ <<>> \o a = a
  BY ConcatEmptySeq
<1> QED BY <1>1, <1>2, <1>3, Zenon DEF Cat

\* One operation, and two.
LEMMA Ones ==
  ASSUME NEW do \in {"fill", "open", "read", "move", "place", "verify", "write", "restore"}, NEW f \in Files,
         NEW e \in {"fill", "open", "read", "move", "place", "verify", "write", "restore"}, NEW g \in Files
  PROVE  One(do, f) \in Seq(Operations) /\ <<Op(do, f), Op(e, g)>> = Cat(One(do, f), One(e, g))
<1>1. Op(do, f) \in Operations /\ Op(e, g) \in Operations
  BY DEF Op, Operations
<1> DEFINE x == Op(do, f)
           y == Op(e, g)
<1> HIDE DEF x, y
<1>2. <<x>> \in Seq(Operations) /\ <<x, y>> = <<x>> \o <<y>>
  BY <1>1 DEF x, y
<1> QED BY <1>2 DEF x, y, One, Cat

\* The operations of a mutation are operations, one after the other.
LEMMA Stages ==
  /\ \A s \in {FillMap, OpenMap, FillQuant, OpenQuant, ReadQuant, FillConfig, OpenConfig,
               MoveMap, MoveQuant, MoveConfig, Place, Write} :
       s \in Seq(Operations) /\ s # <<>> /\ (Len(s) = 1 <=> Tail(s) = <<>>)
  /\ Head(FillMap) = Op("fill", "map") /\ Tail(FillMap) = <<>>
  /\ Head(OpenMap) = Op("open", "map") /\ Tail(OpenMap) = FillMap
  /\ Head(FillQuant) = Op("fill", "quant") /\ Tail(FillQuant) = OpenMap
  /\ Head(OpenQuant) = Op("open", "quant") /\ Tail(OpenQuant) = FillQuant
  /\ Head(ReadQuant) = Op("read", "quant") /\ Tail(ReadQuant) = OpenQuant
  /\ Head(FillConfig) = Op("fill", "config") /\ Tail(FillConfig) = ReadQuant
  /\ Head(OpenConfig) = Op("open", "config") /\ Tail(OpenConfig) = FillConfig
  /\ Head(MoveMap) = Op("move", "map") /\ Tail(MoveMap) = OpenConfig
  /\ Head(MoveQuant) = Op("move", "quant") /\ Tail(MoveQuant) = MoveMap
  /\ Head(MoveConfig) = Op("move", "config") /\ Tail(MoveConfig) = MoveQuant
  /\ Head(Place) = Op("place", "weights")
  /\ Tail(Place) = IF flags.backup THEN MoveConfig ELSE OpenConfig
  /\ IF flags.backup
     THEN Head(MoveWeights) = Op("move", "weights") /\ Tail(MoveWeights) = Place
          /\ MoveWeights # <<>> /\ Len(MoveWeights) # 1
     ELSE MoveWeights = Place
  /\ IF flags.verify
     THEN Head(Verify) = Op("verify", "weights") /\ Tail(Verify) = MoveWeights
          /\ Verify # <<>> /\ Len(Verify) # 1
     ELSE Verify = MoveWeights
  /\ Head(Write) = Op("write", "weights") /\ Tail(Write) = Verify
<1>1. ASSUME NEW do \in {"fill", "open", "read", "move", "place", "verify", "write", "restore"},
             NEW f \in Files, NEW t \in Seq(Operations)
      PROVE  Is(Cat(One(do, f), t), Op(do, f), t)
  BY <1>1, Cons
<1>f. /\ "map" \in Files /\ "quant" \in Files /\ "config" \in Files /\ "weights" \in Files
  BY DEF Files
<1>s. ASSUME NEW s, NEW o, NEW t, Is(s, o, t)
      PROVE  /\ s \in Seq(Operations) /\ s # <<>> /\ (Len(s) = 1 <=> Tail(s) = <<>>)
             /\ Head(s) = o /\ Tail(s) = t
  BY <1>s DEF Is
<1>4. Is(FillMap, Op("fill", "map"), <<>>)
  <2>1. <<>> \in Seq(Operations)
    BY EmptySeq
  <2> QED BY <1>1, <1>f, <2>1 DEF FillMap
<1>5. Is(OpenMap, Op("open", "map"), FillMap)
  BY <1>1, <1>f, <1>4, <1>s DEF OpenMap
<1>6. Is(FillQuant, Op("fill", "quant"), OpenMap)
  BY <1>1, <1>f, <1>5, <1>s DEF FillQuant
<1>7. Is(OpenQuant, Op("open", "quant"), FillQuant)
  BY <1>1, <1>f, <1>6, <1>s DEF OpenQuant
<1>8. Is(ReadQuant, Op("read", "quant"), OpenQuant)
  BY <1>1, <1>f, <1>7, <1>s DEF ReadQuant
<1>9. Is(FillConfig, Op("fill", "config"), ReadQuant)
  BY <1>1, <1>f, <1>8, <1>s DEF FillConfig
<1>10. Is(OpenConfig, Op("open", "config"), FillConfig)
  BY <1>1, <1>f, <1>9, <1>s DEF OpenConfig
<1>11. Is(MoveMap, Op("move", "map"), OpenConfig)
  BY <1>1, <1>f, <1>10, <1>s DEF MoveMap
<1>12. Is(MoveQuant, Op("move", "quant"), MoveMap)
  BY <1>1, <1>f, <1>11, <1>s DEF MoveQuant
<1>13. Is(MoveConfig, Op("move", "config"), MoveQuant)
  BY <1>1, <1>f, <1>12, <1>s DEF MoveConfig
<1>14. Is(Place, Op("place", "weights"), IF flags.backup THEN MoveConfig ELSE OpenConfig)
  <2>1. (IF flags.backup THEN MoveConfig ELSE OpenConfig) \in Seq(Operations)
    BY <1>10, <1>13, <1>s
  <2> QED BY <1>1, <1>f, <2>1 DEF Place
<1>15. IF flags.backup THEN Is(MoveWeights, Op("move", "weights"), Place) ELSE MoveWeights = Place
  <2>1. CASE flags.backup
    BY <2>1, <1>1, <1>f, <1>14, <1>s DEF MoveWeights
  <2>2. CASE ~flags.backup
    BY <2>2 DEF MoveWeights
  <2> QED BY <2>1, <2>2
<1>16. MoveWeights \in Seq(Operations) /\ MoveWeights # <<>>
  BY <1>14, <1>15, <1>s
<1>17. IF flags.verify THEN Is(Verify, Op("verify", "weights"), MoveWeights) ELSE Verify = MoveWeights
  <2>1. CASE flags.verify
    BY <2>1, <1>1, <1>f, <1>16 DEF Verify
  <2>2. CASE ~flags.verify
    BY <2>2 DEF Verify
  <2> QED BY <2>1, <2>2
<1>18. Verify \in Seq(Operations)
  BY <1>16, <1>17, <1>s
<1>19. Is(Write, Op("write", "weights"), Verify)
  BY <1>1, <1>f, <1>18 DEF Write
<1>20. \A s \in {FillMap, OpenMap, FillQuant, OpenQuant, ReadQuant, FillConfig, OpenConfig,
                 MoveMap, MoveQuant, MoveConfig, Place, Write} :
         s \in Seq(Operations) /\ s # <<>> /\ (Len(s) = 1 <=> Tail(s) = <<>>)
  <2> DEFINE Fine(s) == s \in Seq(Operations) /\ s # <<>> /\ (Len(s) = 1 <=> Tail(s) = <<>>)
  <2>1. ASSUME NEW s, NEW o, NEW t, Is(s, o, t) PROVE Fine(s)
    BY <2>1, <1>s
  <2> HIDE DEF Fine
  <2>2. Fine(FillMap) /\ Fine(OpenMap) /\ Fine(FillQuant) /\ Fine(OpenQuant) /\ Fine(ReadQuant)
        /\ Fine(FillConfig) /\ Fine(OpenConfig)
    BY <1>4, <1>5, <1>6, <1>7, <1>8, <1>9, <1>10, <2>1
  <2>3. Fine(MoveMap) /\ Fine(MoveQuant) /\ Fine(MoveConfig) /\ Fine(Place) /\ Fine(Write)
    BY <1>11, <1>12, <1>13, <1>14, <1>19, <2>1
  <2>4. \A s \in {FillMap, OpenMap, FillQuant, OpenQuant, ReadQuant, FillConfig, OpenConfig,
                 MoveMap, MoveQuant, MoveConfig, Place, Write} : Fine(s)
    BY <2>2, <2>3
  <2> QED BY <2>4 DEF Fine
<1>21. IF flags.backup
       THEN Head(MoveWeights) = Op("move", "weights") /\ Tail(MoveWeights) = Place
            /\ MoveWeights # <<>> /\ Len(MoveWeights) # 1
       ELSE MoveWeights = Place
  BY <1>14, <1>15, <1>s
<1>22. IF flags.verify
       THEN Head(Verify) = Op("verify", "weights") /\ Tail(Verify) = MoveWeights
            /\ Verify # <<>> /\ Len(Verify) # 1
       ELSE Verify = MoveWeights
  BY <1>16, <1>17, <1>s
<1>23. /\ Head(FillMap) = Op("fill", "map") /\ Tail(FillMap) = <<>>
       /\ Head(OpenMap) = Op("open", "map") /\ Tail(OpenMap) = FillMap
       /\ Head(FillQuant) = Op("fill", "quant") /\ Tail(FillQuant) = OpenMap
       /\ Head(OpenQuant) = Op("open", "quant") /\ Tail(OpenQuant) = FillQuant
       /\ Head(ReadQuant) = Op("read", "quant") /\ Tail(ReadQuant) = OpenQuant
       /\ Head(FillConfig) = Op("fill", "config") /\ Tail(FillConfig) = ReadQuant
       /\ Head(OpenConfig) = Op("open", "config") /\ Tail(OpenConfig) = FillConfig
  BY <1>4, <1>5, <1>6, <1>7, <1>8, <1>9, <1>10, <1>s
<1>24. /\ Head(MoveMap) = Op("move", "map") /\ Tail(MoveMap) = OpenConfig
       /\ Head(MoveQuant) = Op("move", "quant") /\ Tail(MoveQuant) = MoveMap
       /\ Head(MoveConfig) = Op("move", "config") /\ Tail(MoveConfig) = MoveQuant
       /\ Head(Place) = Op("place", "weights")
       /\ Tail(Place) = IF flags.backup THEN MoveConfig ELSE OpenConfig
       /\ Head(Write) = Op("write", "weights") /\ Tail(Write) = Verify
  BY <1>11, <1>12, <1>13, <1>14, <1>19, <1>s
<1> QED BY <1>20, <1>21, <1>22, <1>23, <1>24

\* A mutation begins with all of them.
LEMMA MutationIsWrite == MutationOps(flags) = Write
<1> DEFINE S == Seq(Operations)
           V == IF flags.verify THEN One("verify", "weights") ELSE <<>>
           M == IF flags.backup THEN One("move", "weights") ELSE <<>>
           B == IF flags.backup
                THEN Cat(One("move", "config"), Cat(One("move", "quant"), One("move", "map"))) ELSE <<>>
           W == One("write", "weights")
           P == One("place", "weights")
           C == Cat(One("open", "config"), One("fill", "config"))
           R == One("read", "quant")
           Q == Cat(One("open", "quant"), One("fill", "quant"))
           N == Cat(One("open", "map"), One("fill", "map"))
<1>f. /\ "map" \in Files /\ "quant" \in Files /\ "config" \in Files /\ "weights" \in Files
  BY DEF Files
<1>1. MutationOps(flags) = Cat(Cat(Cat(Cat(Cat(Cat(Cat(Cat(W, V), M), P), B), C), R), Q), N)
  <2>1. Ops("move", <<"weights">>) = One("move", "weights")
    BY DEF Ops, One
  <2>2. Ops("move", <<"config", "quant", "map">>)
        = Cat(One("move", "config"), Cat(One("move", "quant"), One("move", "map")))
    BY DEF Ops, Op, One, Cat
  <2>3. /\ <<Op("open", "config"), Op("fill", "config")>> = C
        /\ <<Op("open", "quant"), Op("fill", "quant")>> = Q
        /\ <<Op("open", "map"), Op("fill", "map")>> = N
    BY <1>f, Ones
  <2> HIDE DEF C, Q, N
  <2>4. /\ (IF flags.backup THEN Ops("move", <<"weights">>) ELSE <<>>) = M
        /\ (IF flags.backup THEN Ops("move", <<"config", "quant", "map">>) ELSE <<>>) = B
    BY <2>1, <2>2
  <2> DEFINE x == IF flags.backup THEN Ops("move", <<"weights">>) ELSE <<>>
             y == IF flags.backup THEN Ops("move", <<"config", "quant", "map">>) ELSE <<>>
  <2>5. MutationOps(flags) = W \o V \o x \o P \o y \o <<Op("open", "config"), Op("fill", "config")>> \o R
                             \o <<Op("open", "quant"), Op("fill", "quant")>>
                             \o <<Op("open", "map"), Op("fill", "map")>>
    BY DEF MutationOps, Written, One
  <2> HIDE DEF x, y, W, V, M, P, B, R
  <2>6. MutationOps(flags) = W \o V \o M \o P \o B \o C \o R \o Q \o N
    BY <2>3, <2>4, <2>5, Zenon DEF x, y
  <2> QED BY <2>6, Zenon DEF Cat
<1>2. W \in S /\ P \in S /\ R \in S /\ V \in S /\ M \in S
  <2>1. <<>> \in S
    BY EmptySeq
  <2> QED BY <1>f, <2>1, Ones
<1>3. B \in S /\ C \in S /\ Q \in S /\ N \in S
  <2>1. <<>> \in S
    BY EmptySeq
  <2>2. \A f \in Files : One("move", f) \in S /\ One("open", f) \in S /\ One("fill", f) \in S
    BY Ones
  <2>3. Cat(One("move", "quant"), One("move", "map")) \in S
    BY <1>f, <2>2, Assoc
  <2> QED BY <1>f, <2>1, <2>2, <2>3, Assoc
<1>s. /\ FillMap \in S /\ FillQuant \in S /\ ReadQuant \in S /\ FillConfig \in S /\ OpenConfig \in S
      /\ OpenMap \in S /\ OpenQuant \in S /\ MoveMap \in S /\ MoveQuant \in S /\ Place \in S
  BY Stages
<1>o. \A f \in Files : One("move", f) \in S /\ One("open", f) \in S /\ One("fill", f) \in S
  BY Ones
<1>4. N = OpenMap
  BY <1>f, <1>o, Assoc DEF OpenMap, FillMap
<1>5. Cat(Q, OpenMap) = OpenQuant
  <2>1. One("open", "quant") \in S /\ One("fill", "quant") \in S /\ OpenMap \in S
    BY <1>f, <1>o, <1>s
  <2> DEFINE a == One("open", "quant")
             b == One("fill", "quant")
  <2> HIDE DEF a, b
  <2>2. Cat(Cat(a, b), OpenMap) = Cat(a, Cat(b, OpenMap))
    BY <2>1, Assoc DEF a, b
  <2> QED BY <2>2, Zenon DEF OpenQuant, FillQuant, a, b
<1>6. Cat(C, ReadQuant) = OpenConfig
  <2>1. One("open", "config") \in S /\ One("fill", "config") \in S /\ ReadQuant \in S
    BY <1>f, <1>o, <1>s
  <2> DEFINE a == One("open", "config")
             b == One("fill", "config")
  <2>2. a \in S /\ b \in S
    BY <2>1
  <2> HIDE DEF a, b
  <2>3. Cat(Cat(a, b), ReadQuant) = Cat(a, Cat(b, ReadQuant))
    BY <2>1, <2>2, Assoc
  <2> QED BY <2>3, Zenon DEF OpenConfig, FillConfig, a, b
<1>7. Cat(P, Cat(B, OpenConfig)) = Place
  <2>1. CASE flags.backup
    <3>1. Cat(One("move", "quant"), One("move", "map")) \in S
      BY <1>f, <1>o, Assoc
    <3>2. Cat(B, OpenConfig) = Cat(One("move", "config"), Cat(Cat(One("move", "quant"), One("move", "map")), OpenConfig))
      <4>1. One("move", "config") \in S /\ OpenConfig \in S
        BY <1>f, <1>o, <1>s
      <4>2. B = Cat(One("move", "config"), Cat(One("move", "quant"), One("move", "map")))
        BY <2>1
      <4> DEFINE a == One("move", "config")
                 b == Cat(One("move", "quant"), One("move", "map"))
      <4> HIDE DEF a, b
      <4>3. Cat(Cat(a, b), OpenConfig) = Cat(a, Cat(b, OpenConfig))
        BY <3>1, <4>1, Assoc DEF a, b
      <4> QED BY <4>2, <4>3 DEF a, b
    <3>3. Cat(Cat(One("move", "quant"), One("move", "map")), OpenConfig) = MoveQuant
      <4>1. One("move", "quant") \in S /\ One("move", "map") \in S /\ OpenConfig \in S
        BY <1>f, <1>o, <1>s
      <4>2. Cat(Cat(One("move", "quant"), One("move", "map")), OpenConfig)
            = Cat(One("move", "quant"), Cat(One("move", "map"), OpenConfig))
        <5> DEFINE a == One("move", "quant")
                   b == One("move", "map")
        <5> HIDE DEF a, b
        <5>1. Cat(Cat(a, b), OpenConfig) = Cat(a, Cat(b, OpenConfig))
          BY <4>1, Assoc DEF a, b
        <5> QED BY <5>1 DEF a, b
      <4> QED BY <4>2, Zenon DEF MoveQuant, MoveMap
    <3> QED BY <2>1, <3>2, <3>3 DEF Place, MoveConfig
  <2>2. CASE ~flags.backup
    BY <2>2, <1>s, Assoc DEF Place
  <2> QED BY <2>1, <2>2
<1>8. Cat(M, Place) = MoveWeights
  <2>1. CASE flags.backup
    BY <2>1 DEF MoveWeights
  <2>2. CASE ~flags.backup
    BY <2>2, <1>s, Assoc DEF MoveWeights
  <2> QED BY <2>1, <2>2
<1>9. Cat(V, MoveWeights) = Verify
  <2>1. MoveWeights \in S
    BY <1>2, <1>8, <1>s, Assoc
  <2>2. CASE flags.verify
    BY <2>2 DEF Verify
  <2>3. CASE ~flags.verify
    BY <2>1, <2>3, Assoc DEF Verify
  <2> QED BY <2>2, <2>3
<1>10. Cat(W, Verify) = Write
  BY DEF Write
<1>11. ASSUME NEW x \in S PROVE Cat(Cat(Cat(Cat(x, C), R), Q), N) = Cat(x, OpenConfig)
  <2> HIDE DEF C, R, Q, N
  <2>1. Cat(x, C) \in S /\ Cat(Cat(x, C), R) \in S
    BY <1>2, <1>3, <1>11, Assoc
  <2>2. Cat(Cat(Cat(Cat(x, C), R), Q), N) = Cat(Cat(Cat(x, C), R), OpenQuant)
    BY <1>2, <1>3, <1>4, <1>5, <2>1, Assoc
  <2>3. Cat(Cat(Cat(x, C), R), OpenQuant) = Cat(Cat(x, C), ReadQuant)
    BY <1>2, <1>s, <2>1, Assoc DEF ReadQuant, R
  <2>4. Cat(Cat(x, C), ReadQuant) = Cat(x, OpenConfig)
    BY <1>3, <1>6, <1>11, <1>s, Assoc
  <2> QED BY <2>2, <2>3, <2>4
<1> HIDE DEF W, V, M, P, B, C, R, Q, N
<1>12. Cat(W, V) \in S /\ Cat(Cat(W, V), M) \in S /\ Cat(Cat(Cat(W, V), M), P) \in S
       /\ Cat(Cat(Cat(Cat(W, V), M), P), B) \in S
  BY <1>2, <1>3, Assoc
<1>13. Cat(Cat(Cat(Cat(Cat(W, V), M), P), B), OpenConfig) = Cat(Cat(Cat(W, V), M), Place)
  <2>1. Cat(B, OpenConfig) \in S
    BY <1>3, <1>s, Assoc
  <2>2. Cat(Cat(Cat(Cat(Cat(W, V), M), P), B), OpenConfig)
        = Cat(Cat(Cat(Cat(W, V), M), P), Cat(B, OpenConfig))
    BY <1>3, <1>12, <1>s, Assoc
  <2>3. Cat(Cat(Cat(Cat(W, V), M), P), Cat(B, OpenConfig)) = Cat(Cat(Cat(W, V), M), Cat(P, Cat(B, OpenConfig)))
    BY <1>2, <1>12, <2>1, Assoc
  <2> QED BY <2>2, <2>3, <1>7
<1>14. Cat(Cat(Cat(W, V), M), Place) = Cat(W, Verify)
  <2>1. Cat(Cat(Cat(W, V), M), Place) = Cat(Cat(W, V), MoveWeights)
    <3>1. Cat(W, V) \in S /\ M \in S /\ Place \in S
      BY <1>2, <1>12, <1>s
    <3>2. Cat(Cat(Cat(W, V), M), Place) = Cat(Cat(W, V), Cat(M, Place))
      BY <3>1, Assoc
    <3> QED BY <3>2, <1>8
  <2>2. MoveWeights \in S
    BY <1>2, <1>8, <1>s, Assoc
  <2>3. Cat(Cat(W, V), MoveWeights) = Cat(W, Cat(V, MoveWeights))
    BY <1>2, <2>2, Assoc
  <2> QED BY <2>1, <2>3, <1>9
<1>15. MutationOps(flags) = Cat(Cat(Cat(Cat(Cat(W, V), M), P), B), OpenConfig)
  BY <1>1, <1>11, <1>12
<1> QED BY <1>10, <1>13, <1>14, <1>15

\* The same in the next state.
LEMMA MutationIsWriteNext == MutationOps(flags') = Write'
<1>1. (MutationOps(flags) = Write)'
  BY MutationIsWrite, PTL
<1> QED BY <1>1 DEF MutationOps, Op, Ops, Written

-------------------------------------------------------------------------------
(* The tensors.                                                            *)

Names == {"mlp", "embed", "lm_head", "action"}
Payloads == [dtype : {"F8", "BF16", "F32"}, data : {"original", "source", "damaged"}]

\* The original weights.
LEMMA OriginalData ==
  /\ DOMAIN OriginalWeights = {"mlp", "embed", "lm_head", "lm_head_scale"}
  /\ OriginalWeights \in [{"mlp", "embed", "lm_head", "lm_head_scale"} -> Payloads]
  /\ OriginalWeights["mlp"] = Tensor("F8", "original")
  /\ OriginalWeights["embed"] = Tensor("BF16", "original")
  /\ OriginalWeights["lm_head"] = Tensor("F8", "original")
  /\ OriginalWeights["lm_head_scale"] = Tensor("F32", "original")
BY DEF OriginalWeights, Tensor, Payloads

\* The rewritten ones.
LEMMA NewData ==
  /\ NewWeights \in [Names -> Payloads]
  /\ NewWeights["mlp"] = Tensor("F8", "original")
  /\ NewWeights["embed"] = Tensor("BF16", "original")
  /\ NewWeights["lm_head"] = Tensor("BF16", "source")
  /\ NewWeights["action"] = Tensor("BF16", "source")
<1>1. (DOMAIN OriginalWeights \ DroppedLmHead) \cup Added = Names
  BY OriginalData DEF DroppedLmHead, Added, Names
<1>2. NewWeights = [t \in Names |-> IF t \in Added THEN Tensor("BF16", "source") ELSE OriginalWeights[t]]
  BY <1>1 DEF NewWeights, Rewritten
<1> QED BY <1>2, OriginalData DEF Names, Payloads, Tensor, Added

\* What a rewrite may leave: the new weights but for the data of one tensor.
LEMMA ChangedData ==
  ASSUME NEW w \in Changed
  PROVE  /\ w \in [Names -> Payloads]
         /\ \A t \in Names : w[t].dtype = NewWeights[t].dtype
         /\ \A t \in {"embed", "lm_head"} : w[t] = NewWeights[t]
         /\ w # NewWeights => w["mlp"].data = "damaged" \/ w["action"].data = "damaged"
<1>1. CASE w = NewWeights
  BY <1>1, NewData DEF Names
<1>2. CASE w # NewWeights
  <2>1. PICK t \in {"mlp", "action"} : w = [NewWeights EXCEPT ![t].data = "damaged"]
    BY <1>2 DEF Changed
  <2>2. DOMAIN NewWeights = Names /\ t \in Names /\ t \notin {"embed", "lm_head"}
    BY NewData DEF Names
  <2>3. w = [NewWeights EXCEPT ![t] = [NewWeights[t] EXCEPT !.data = "damaged"]]
    BY <2>1
  <2>4. NewWeights[t] \in Payloads
    BY <2>2, NewData
  <2> DEFINE p == [NewWeights[t] EXCEPT !.data = "damaged"]
  <2>5. p \in Payloads /\ p.data = "damaged" /\ p.dtype = NewWeights[t].dtype
    BY <2>4 DEF Payloads
  <2> HIDE DEF p
  <2>6. w = [NewWeights EXCEPT ![t] = p]
    BY <2>3 DEF p
  <2>7. w \in [Names -> Payloads] /\ w[t] = p /\ \A u \in Names \ {t} : w[u] = NewWeights[u]
    BY <2>2, <2>5, <2>6, NewData
  <2> QED BY <2>2, <2>5, <2>7 DEF Names
<1> QED BY <1>1, <1>2

\* A file of the original is there and readable.
LEMMA OriginalReadable == \A f \in Files : Original[f] # Absent /\ Original[f] # Torn
<1>1. OriginalWeights \in Contents
  <2> DEFINE T == {"mlp", "embed", "lm_head", "lm_head_scale"}
  <2>1. T \in SUBSET Tensors
    BY OriginalData DEF Tensors, Added
  <2>2. OriginalWeights \in [T -> Payloads]
    BY OriginalData
  <2> HIDE DEF T
  <2> QED BY <2>1, <2>2 DEF Contents, Payloads
<1>2. Original.config \in Contents /\ Original.quant \in Contents /\ Original.map \in Contents
  <2>1. Original.config = [action_gen |-> FALSE]
        /\ Original.quant = [quant_lmhead |-> TRUE, n_quantized |-> 2]
        /\ Original.map = [dropped_action_keys |-> TRUE, n_weight_quantized |-> 2]
    BY DEF Original
  <2>2. /\ [action_gen |-> FALSE] \in [action_gen : BOOLEAN]
        /\ [quant_lmhead |-> TRUE, n_quantized |-> 2] \in [quant_lmhead : BOOLEAN, n_quantized : Nat]
        /\ [dropped_action_keys |-> TRUE, n_weight_quantized |-> 2]
           \in [dropped_action_keys : BOOLEAN, n_weight_quantized : Nat]
    OBVIOUS
  <2> QED BY <2>1, <2>2, Zenon DEF Contents
<1>3. Original["weights"] = OriginalWeights
  BY DEF Original
<1> QED BY <1>1, <1>2, <1>3, MutationAssumption DEF Files

\* Nor is the rewritten file absent, and it is not taken for the original.
LEMMA ChangedReadable ==
  ASSUME NEW w \in Changed
  PROVE  w \notin {Absent, Torn} /\ w # OriginalWeights /\ AlreadyMutated(w)
<1>1. w \in Contents
  <2>1. Names \in SUBSET Tensors
    BY OriginalData DEF Tensors, Added, Names
  <2>2. w \in [Names -> Payloads]
    BY ChangedData
  <2> HIDE DEF Names
  <2> QED BY <2>1, <2>2 DEF Contents, Payloads
<1>2. DOMAIN w = Names /\ "action" \in Names /\ "action" \notin DOMAIN OriginalWeights
  BY ChangedData, OriginalData DEF Names
<1>3. w["lm_head"].dtype = "BF16"
  BY ChangedData, NewData DEF Names, Tensor
<1> QED BY <1>1, <1>2, <1>3, MutationAssumption DEF AlreadyMutated

\* The original is a function of the files, and has not been mutated.
LEMMA OriginalIs ==
  /\ Original = [f \in Files |-> Original[f]] /\ Original.weights = OriginalWeights
  /\ Original["weights"] = OriginalWeights
  /\ ~AlreadyMutated(OriginalWeights)
<1>1. Original = [f \in Files |-> Original[f]]
  BY DEF Original, Files
<1>2. ~AlreadyMutated(OriginalWeights)
  BY OriginalData DEF AlreadyMutated
<1> QED BY <1>1, <1>2 DEF Original

\* The files.
LEMMA FileNames ==
  /\ "map" \in Files /\ "quant" \in Files /\ "config" \in Files /\ "weights" \in Files
  /\ \A f \in Files : f \in {"quant", "map", "config", "weights"}
BY DEF Files

-------------------------------------------------------------------------------
(* The restore.                                                            *)

RestoreMap == Cat(Restored("map"), Cat(Restored("config"), Restored("weights")))
RestoreConfig == Cat(Restored("config"), Restored("weights"))
RestoreWeights == Restored("weights")

\* The operations of a restore, by the first file that has a backup.
RestoreOrder ==
  /\ IF backup["quant"] # Absent THEN Is(RestoreOps, Op("restore", "quant"), RestoreMap)
     ELSE RestoreOps = RestoreMap
  /\ IF backup["map"] # Absent THEN Is(RestoreMap, Op("restore", "map"), RestoreConfig)
     ELSE RestoreMap = RestoreConfig
  /\ IF backup["config"] # Absent THEN Is(RestoreConfig, Op("restore", "config"), RestoreWeights)
     ELSE RestoreConfig = RestoreWeights
  /\ IF backup["weights"] # Absent THEN Is(RestoreWeights, Op("restore", "weights"), <<>>)
     ELSE RestoreWeights = <<>>

\* The files that have a backup are restored in order.
LEMMA RestoreLevels == RestoreOrder
<1> DEFINE S == Seq(Operations)
<1>0. <<>> \in S
  BY EmptySeq
<1>1. ASSUME NEW f \in Files, NEW t \in S
      PROVE  /\ Cat(Restored(f), t) \in S
             /\ IF backup[f] # Absent THEN Is(Cat(Restored(f), t), Op("restore", f), t)
                ELSE Cat(Restored(f), t) = t
  <2>1. CASE backup[f] # Absent
    <3>1. Restored(f) = One("restore", f)
      BY <2>1 DEF Restored, One
    <3>2. Is(Cat(One("restore", f), t), Op("restore", f), t)
      BY <1>1, Cons
    <3> QED BY <2>1, <3>1, <3>2 DEF Is
  <2>2. CASE backup[f] = Absent
    <3>1. Restored(f) = <<>>
      BY <2>2 DEF Restored
    <3>2. Cat(<<>>, t) = t
      BY <1>0, <1>1, Assoc
    <3> QED BY <1>1, <2>2, <3>1, <3>2
  <2> QED BY <2>1, <2>2
<1>2. ASSUME NEW f \in Files
      PROVE  Restored(f) \in S /\ Cat(Restored(f), <<>>) = Restored(f)
  <2>1. One("restore", f) \in S
    BY Ones
  <2>2. Restored(f) \in S
    BY <1>0, <2>1 DEF Restored, One
  <2> QED BY <1>0, <2>2, Assoc
<1>f. /\ "map" \in Files /\ "quant" \in Files /\ "config" \in Files /\ "weights" \in Files
  BY DEF Files
<1> DEFINE q == Restored("quant")
           m == Restored("map")
           c == Restored("config")
           w == Restored("weights")
<1>3. q \in S /\ m \in S /\ c \in S /\ w \in S /\ Cat(w, <<>>) = w
  BY <1>f, <1>2
<1>4. RestoreOps = Cat(Cat(Cat(q, m), c), w)
  BY Zenon DEF RestoreOps, Cat
<1> HIDE DEF q, m, c, w
<1>5. RestoreOps = Cat(q, Cat(m, Cat(c, w)))
  <2>1. Cat(q, m) \in S /\ Cat(c, w) \in S
    BY <1>3, Assoc
  <2>2. Cat(Cat(Cat(q, m), c), w) = Cat(Cat(q, m), Cat(c, w))
    BY <1>3, <2>1, Assoc
  <2>3. Cat(Cat(q, m), Cat(c, w)) = Cat(q, Cat(m, Cat(c, w)))
    BY <1>3, <2>1, Assoc
  <2> QED BY <1>4, <2>2, <2>3
<1>6. RestoreWeights \in S /\ RestoreWeights = Cat(Restored("weights"), <<>>)
  BY <1>3 DEF RestoreWeights, w
<1>7. RestoreConfig \in S /\ RestoreConfig = Cat(Restored("config"), RestoreWeights)
  BY <1>f, <1>1, <1>6 DEF RestoreConfig, RestoreWeights
<1>8. RestoreMap \in S /\ RestoreMap = Cat(Restored("map"), RestoreConfig)
  BY <1>f, <1>1, <1>7 DEF RestoreConfig, RestoreMap
<1>9. RestoreOps = Cat(Restored("quant"), RestoreMap)
  BY <1>5 DEF RestoreMap, q, m, c, w
<1> QED BY <1>0, <1>f, <1>1, <1>6, <1>7, <1>8, <1>9 DEF RestoreOrder

\* The same in the next state.
LEMMA RestoreLevelsNext == RestoreOrder'
BY RestoreLevels, PTL

\* There is nothing to restore when there are no backups.
LEMMA RestoreNothing == RestoreOps = <<>> <=> \A f \in Files : backup[f] = Absent
<1>1. \A s, o, t : Is(s, o, t) => s # <<>>
  BY DEF Is
<1> QED BY <1>1, RestoreLevels DEF Files, RestoreOrder

\* The same in the next state.
LEMMA RestoreNothingNext == RestoreOps' = <<>> <=> \A f \in Files : backup'[f] = Absent
<1>1. (RestoreOps = <<>> <=> \A f \in Files : backup[f] = Absent)'
  BY RestoreNothing, PTL
<1> QED BY <1>1

\* A restore takes the first file that has a backup, the weights last, and then
\* restores the others.
LEMMA RestoreFirst ==
  ASSUME RestoreOps # <<>>
  PROVE  \E f \in Files :
           /\ backup[f] # Absent
           /\ RestoreOps # <<>> /\ Head(RestoreOps) = Op("restore", f)
           /\ Len(RestoreOps) = 1 <=> Tail(RestoreOps) = <<>>
           /\ f = "weights" => \A g \in Files \ {"weights"} : backup[g] = Absent
           /\ backup' = [backup EXCEPT ![f] = Absent] /\ DOMAIN backup = Files
              => Tail(RestoreOps) = RestoreOps'
<1> DEFINE First(f, t) ==
             /\ backup[f] # Absent
             /\ RestoreOps # <<>> /\ Head(RestoreOps) = Op("restore", f)
             /\ Len(RestoreOps) = 1 <=> Tail(RestoreOps) = <<>>
             /\ Tail(RestoreOps) = t
<1>1. ASSUME NEW f, NEW t, Is(RestoreOps, Op("restore", f), t), backup[f] # Absent PROVE First(f, t)
  BY <1>1 DEF Is
<1>l. /\ IF backup'["quant"] # Absent THEN Is(RestoreOps', Op("restore", "quant"), RestoreMap')
         ELSE RestoreOps' = RestoreMap'
      /\ IF backup'["map"] # Absent THEN Is(RestoreMap', Op("restore", "map"), RestoreConfig')
         ELSE RestoreMap' = RestoreConfig'
      /\ IF backup'["config"] # Absent THEN Is(RestoreConfig', Op("restore", "config"), RestoreWeights')
         ELSE RestoreConfig' = RestoreWeights'
      /\ IF backup'["weights"] # Absent THEN Is(RestoreWeights', Op("restore", "weights"), <<>>)
         ELSE RestoreWeights' = <<>>
  BY RestoreLevelsNext DEF RestoreOrder
<1>2. CASE backup["quant"] # Absent
  <2>1. First("quant", RestoreMap)
    BY <1>2, <1>1, RestoreLevels DEF RestoreOrder
  <2>2. ASSUME backup' = [backup EXCEPT !["quant"] = Absent], DOMAIN backup = Files
        PROVE  RestoreOps' = RestoreMap
    <3>1. backup'["quant"] = Absent /\ backup'["map"] = backup["map"]
          /\ backup'["config"] = backup["config"] /\ backup'["weights"] = backup["weights"]
      BY <2>2 DEF Files
    <3>2. RestoreMap' = RestoreMap
      BY <3>1 DEF RestoreMap, Restored
    <3> QED BY <1>l, <3>1, <3>2
  <2> QED BY <2>1, <2>2 DEF Files
<1>3. CASE backup["quant"] = Absent /\ backup["map"] # Absent
  <2>1. First("map", RestoreConfig)
    BY <1>3, <1>1, RestoreLevels DEF RestoreOrder
  <2>2. ASSUME backup' = [backup EXCEPT !["map"] = Absent], DOMAIN backup = Files
        PROVE  RestoreOps' = RestoreConfig
    <3>1. backup'["quant"] = Absent /\ backup'["map"] = Absent
          /\ backup'["config"] = backup["config"] /\ backup'["weights"] = backup["weights"]
      BY <1>3, <2>2 DEF Files
    <3>2. RestoreConfig' = RestoreConfig
      BY <3>1 DEF RestoreConfig, Restored
    <3> QED BY <1>l, <3>1, <3>2
  <2> QED BY <2>1, <2>2 DEF Files
<1>4. CASE backup["quant"] = Absent /\ backup["map"] = Absent /\ backup["config"] # Absent
  <2>1. First("config", RestoreWeights)
    BY <1>4, <1>1, RestoreLevels DEF RestoreOrder
  <2>2. ASSUME backup' = [backup EXCEPT !["config"] = Absent], DOMAIN backup = Files
        PROVE  RestoreOps' = RestoreWeights
    <3>1. backup'["quant"] = Absent /\ backup'["map"] = Absent
          /\ backup'["config"] = Absent /\ backup'["weights"] = backup["weights"]
      BY <1>4, <2>2 DEF Files
    <3>2. RestoreWeights' = RestoreWeights
      BY <3>1 DEF RestoreWeights, Restored
    <3> QED BY <1>l, <3>1, <3>2
  <2> QED BY <2>1, <2>2 DEF Files
<1>5. CASE /\ backup["quant"] = Absent /\ backup["map"] = Absent /\ backup["config"] = Absent
           /\ backup["weights"] # Absent
  <2>1. First("weights", <<>>)
    BY <1>5, <1>1, RestoreLevels DEF RestoreOrder
  <2>2. ASSUME backup' = [backup EXCEPT !["weights"] = Absent], DOMAIN backup = Files
        PROVE  RestoreOps' = <<>>
    <3>1. backup'["quant"] = Absent /\ backup'["map"] = Absent
          /\ backup'["config"] = Absent /\ backup'["weights"] = Absent
      BY <1>5, <2>2 DEF Files
    <3> QED BY <1>l, <3>1
  <2>3. \A g \in Files \ {"weights"} : backup[g] = Absent
    BY <1>5 DEF Files
  <2> QED BY <2>1, <2>2, <2>3 DEF Files
<1>6. \E f \in Files : backup[f] # Absent
  BY RestoreNothing
<1> QED BY <1>2, <1>3, <1>4, <1>5, <1>6 DEF Files

-------------------------------------------------------------------------------
(* The invariant of the commands is kept.                                  *)

\* The operations left depend on the flags only.
LEMMA StagesKept ==
  ASSUME flags' = flags
  PROVE  /\ Place' = Place /\ MoveWeights' = MoveWeights /\ Verify' = Verify /\ Write' = Write
         /\ FillMap' = FillMap /\ OpenMap' = OpenMap /\ FillQuant' = FillQuant
         /\ OpenQuant' = OpenQuant /\ ReadQuant' = ReadQuant /\ FillConfig' = FillConfig
         /\ OpenConfig' = OpenConfig /\ MoveMap' = MoveMap /\ MoveQuant' = MoveQuant
         /\ MoveConfig' = MoveConfig
<1>1. /\ FillMap' = FillMap /\ OpenMap' = OpenMap /\ FillQuant' = FillQuant
      /\ OpenQuant' = OpenQuant /\ ReadQuant' = ReadQuant /\ FillConfig' = FillConfig
      /\ OpenConfig' = OpenConfig /\ MoveMap' = MoveMap /\ MoveQuant' = MoveQuant
      /\ MoveConfig' = MoveConfig
  BY Zenon DEF FillMap, OpenMap, FillQuant, OpenQuant, ReadQuant, FillConfig, OpenConfig, MoveMap,
               MoveQuant, MoveConfig, Cat, One, Op
<1>2. Place' = Place
  BY <1>1, Zenon DEF Place, Cat, One, Op
<1>3. MoveWeights' = MoveWeights
  BY <1>2, Zenon DEF MoveWeights, Cat, One, Op
<1>4. Verify' = Verify
  BY <1>3, Zenon DEF Verify, Cat, One, Op
<1>5. Write' = Write
  BY <1>4, Zenon DEF Write, Cat, One, Op
<1> QED BY <1>1, <1>2, <1>3, <1>4, <1>5

\* Nothing ends before the last operation of a mutation.
LEMMA NotLast ==
  /\ \A s \in {OpenMap, FillQuant, OpenQuant, ReadQuant, FillConfig, OpenConfig, MoveMap,
               MoveQuant, MoveConfig, Place, MoveWeights, Verify, Write} : s # <<>> /\ Len(s) # 1
  /\ FillMap # <<>> /\ Len(FillMap) = 1
<1>1. OpenMap # <<>> /\ Len(OpenMap) # 1 /\ FillMap # <<>> /\ Len(FillMap) = 1
  BY Stages
<1>2. /\ FillQuant # <<>> /\ Len(FillQuant) # 1 /\ OpenQuant # <<>> /\ Len(OpenQuant) # 1
      /\ ReadQuant # <<>> /\ Len(ReadQuant) # 1 /\ FillConfig # <<>> /\ Len(FillConfig) # 1
  BY Stages
<1>3. /\ OpenConfig # <<>> /\ Len(OpenConfig) # 1 /\ MoveMap # <<>> /\ Len(MoveMap) # 1
      /\ MoveQuant # <<>> /\ Len(MoveQuant) # 1 /\ MoveConfig # <<>> /\ Len(MoveConfig) # 1
  BY Stages
<1>4. Place # <<>> /\ Len(Place) # 1
  BY <1>3, Stages
<1>5. MoveWeights # <<>> /\ Len(MoveWeights) # 1
  BY <1>4, Stages
<1>6. Verify # <<>> /\ Len(Verify) # 1
  BY <1>5, Stages
<1>7. Write # <<>> /\ Len(Write) # 1
  BY <1>6, Stages
<1> QED BY <1>1, <1>2, <1>3, <1>4, <1>5, <1>6, <1>7

\* The steps of writing the sidecars are different steps.
LEMMA Distinct ==
  /\ ReadQuant \notin {OpenConfig, FillConfig, OpenQuant, FillQuant, OpenMap, FillMap}
  /\ OpenConfig \notin {OpenQuant, FillQuant, OpenMap, FillMap}
  /\ FillConfig \notin {OpenQuant, FillQuant, OpenMap, FillMap}
  /\ OpenQuant \notin {OpenMap, FillMap} /\ FillQuant \notin {OpenMap, FillMap}
<1>1. /\ Head(FillMap) = Op("fill", "map") /\ Head(FillQuant) = Op("fill", "quant")
      /\ Head(FillConfig) = Op("fill", "config") /\ Head(OpenMap) = Op("open", "map")
      /\ Head(OpenQuant) = Op("open", "quant") /\ Head(OpenConfig) = Op("open", "config")
      /\ Head(ReadQuant) = Op("read", "quant")
  BY Stages
<1>2. \A do, e, f, g : Op(do, f) = Op(e, g) => do = e /\ f = g
  BY DEF Op
<1> QED BY <1>1, <1>2

\* What comes next says where the command is.
LEMMA Where ==
  ASSUME DiskInv
  PROVE  /\ todo = <<>> => Settled
         /\ Does("write") => Preparing /\ todo = Write
         /\ Does("verify") =>
              Clean /\ held.config = NewConfig /\ todo = Verify /\ flags.verify /\ tmp \in Changed
         /\ Does("move") =>
              \/ Clean /\ held.config = NewConfig /\ todo = MoveWeights /\ flags.backup /\ Good(tmp)
              \/ Moving
         /\ Does("place") =>
              \/ Placing
              \/ Clean /\ held.config = NewConfig /\ todo = Place /\ ~flags.backup /\ Good(tmp)
         /\ Does("read") => Filling /\ todo = ReadQuant
         /\ Does("open") => Filling /\ todo \in {OpenConfig, OpenQuant, OpenMap}
         /\ Does("fill") => Filling /\ todo \in {FillConfig, FillQuant, FillMap}
         /\ Does("restore") => Restoring
<1>o. /\ \A f \in Files : Op("fill", f).do = "fill" /\ Op("open", f).do = "open" /\ Op("move", f).do = "move"
      /\ Op("read", "quant").do = "read" /\ Op("place", "weights").do = "place"
      /\ Op("write", "weights").do = "write" /\ Op("verify", "weights").do = "verify"
  BY DEF Op
<1>k. /\ Head(FillMap).do = "fill" /\ Head(FillQuant).do = "fill" /\ Head(FillConfig).do = "fill"
      /\ Head(OpenMap).do = "open" /\ Head(OpenQuant).do = "open" /\ Head(OpenConfig).do = "open"
      /\ Head(ReadQuant).do = "read" /\ Head(Place).do = "place" /\ Head(Write).do = "write"
      /\ Head(MoveMap).do = "move" /\ Head(MoveQuant).do = "move" /\ Head(MoveConfig).do = "move"
  <2>1. /\ Head(FillMap) = Op("fill", "map") /\ Head(FillQuant) = Op("fill", "quant")
        /\ Head(FillConfig) = Op("fill", "config") /\ Head(OpenMap) = Op("open", "map")
        /\ Head(OpenQuant) = Op("open", "quant") /\ Head(OpenConfig) = Op("open", "config")
        /\ Head(ReadQuant) = Op("read", "quant") /\ Head(Place) = Op("place", "weights")
        /\ Head(Write) = Op("write", "weights") /\ Head(MoveMap) = Op("move", "map")
        /\ Head(MoveQuant) = Op("move", "quant") /\ Head(MoveConfig) = Op("move", "config")
    BY Stages
  <2> QED BY <1>o, <2>1, FileNames
<1>m. /\ flags.backup => Head(MoveWeights).do = "move"
      /\ ~flags.backup => MoveWeights = Place
      /\ flags.verify => Head(Verify).do = "verify"
  <2>1. /\ flags.backup => Head(MoveWeights) = Op("move", "weights")
        /\ ~flags.backup => MoveWeights = Place
        /\ flags.verify => Head(Verify) = Op("verify", "weights")
    BY Stages
  <2> QED BY <1>o, <2>1, FileNames
<1>1. CASE Settled
  BY <1>1 DEF Settled, Does
<1>2. CASE Preparing
  <2>1. CASE todo = Write
    BY <1>2, <1>k, <2>1, NotLast DEF Does
  <2>2. CASE flags.verify /\ todo = Verify /\ tmp \in Changed
    BY <1>2, <1>m, <2>2, NotLast DEF Does, Preparing
  <2>3. CASE todo = MoveWeights /\ Good(tmp)
    BY <1>2, <1>k, <1>m, <2>3, NotLast DEF Does, Preparing
  <2> QED BY <1>2, <2>1, <2>2, <2>3 DEF Preparing
<1>3. CASE Placing
  BY <1>3, <1>k, NotLast DEF Does, Placing
<1>4. CASE Moving
  <2>1. todo \in {MoveConfig, MoveQuant, MoveMap}
    BY <1>4 DEF Moving
  <2> QED BY <1>4, <1>k, <2>1, NotLast DEF Does
<1>5. CASE Filling
  <2>1. todo \in {OpenConfig, FillConfig, ReadQuant, OpenQuant, FillQuant, OpenMap, FillMap}
    BY <1>5 DEF Filling
  <2> QED BY <1>5, <1>k, <2>1, NotLast DEF Does
<1>6. CASE Restoring
  <2>1. Head(todo).do = "restore" /\ todo # <<>>
    BY <1>6, RestoreFirst DEF Restoring, Op
  <2> QED BY <1>6, <2>1 DEF Does
<1> QED BY <1>1, <1>2, <1>3, <1>4, <1>5, <1>6 DEF DiskInv

\* An operation that is not the last one leaves the outcome open.
LEMMA OutcomeOpen ==
  ASSUME OutcomeInv, todo # <<>>, Len(todo) # 1, NEW how, Proceed(how)
  PROVE  OutcomeInv' /\ todo' = Tail(todo) /\ flags' = flags
<1>1. outcome = "none"
  BY DEF OutcomeInv
<1>2. outcome' = "none"
  BY <1>1 DEF Proceed
<1> QED BY <1>2 DEF OutcomeInv, Proceed

\* A backup is there exactly for the files that have been moved.
LEMMA BackupOf ==
  ASSUME NEW S, BackedUp(S), NEW f \in Files
  PROVE  /\ backup[f] = IF f \in S THEN Original[f] ELSE Absent
         /\ f \notin S <=> backup[f] = Absent
         /\ DOMAIN backup = Files
BY OriginalReadable DEF BackedUp

\* A command may die anywhere: what it leaves can be mutated or restored.
LEMMA Recoverable ==
  ASSUME FileTypeOK, DiskInv
  PROVE  Clean \/ Halfway
<1>f. \A f \in Files : f \in {"quant", "map", "config", "weights"}
  BY FileNames
<1>1. CASE Settled
  BY <1>1 DEF Settled
<1>2. CASE Preparing
  BY <1>2 DEF Preparing
<1>3. CASE Placing
  <2>1. BackedUp({"weights"}) /\ {"weights"} \in SUBSET Files /\ ~unbacked
    BY <1>3, FileNames DEF Placing
  <2>2. \A f \in Files : file[f] = IF f = "weights" THEN Absent ELSE Original[f]
    BY <1>3, OriginalIs DEF Placing
  <2>3. backup["weights"] = Original["weights"] /\ file["weights"] = Absent
    BY <2>1, <2>2, BackupOf, FileNames
  <2>4. \A f \in Files : Original[f] \in {file[f], backup[f]}
    BY <2>2, <2>3
  <2> QED BY <2>1, <2>3, <2>4 DEF Halfway
<1>4. CASE Moving
  <2>1. file.weights \in Changed /\ ~unbacked /\ file.map = Original.map
    BY <1>4 DEF Moving, Good
  <2>2. CASE BackedUp({"weights"}) /\ file.config = Original.config /\ file.quant = Original.quant
    <3>1. backup["weights"] = Original["weights"]
      BY <2>2, BackupOf, FileNames
    <3>2. \A f \in Files : Original[f] \in {file[f], backup[f]}
      BY <1>f, <2>1, <2>2, <3>1
    <3> QED BY <2>1, <2>2, <3>2, FileNames DEF Halfway
  <2>3. CASE BackedUp({"weights", "config"}) /\ file.quant = Original.quant
    <3>1. backup["weights"] = Original["weights"] /\ backup["config"] = Original["config"]
      BY <2>3, BackupOf, FileNames
    <3>2. \A f \in Files : Original[f] \in {file[f], backup[f]}
      BY <1>f, <2>1, <2>3, <3>1
    <3> QED BY <2>1, <2>3, <3>2, FileNames DEF Halfway
  <2>4. CASE BackedUp({"weights", "config", "quant"})
    <3>1. backup["weights"] = Original["weights"] /\ backup["config"] = Original["config"]
          /\ backup["quant"] = Original["quant"]
      BY <2>4, BackupOf, FileNames
    <3>2. \A f \in Files : Original[f] \in {file[f], backup[f]}
      BY <1>f, <2>1, <3>1
    <3> QED BY <2>1, <2>4, <3>2, FileNames DEF Halfway
  <2> QED BY <1>4, <2>2, <2>3, <2>4 DEF Moving
<1>5. CASE Filling
  <2>1. file.weights \in Changed
    BY <1>5 DEF Filling, Good
  <2>2. CASE flags.backup
    <3>1. BackedUp(Files) /\ ~unbacked
      BY <1>5, <2>2 DEF Filling
    <3>2. \A f \in Files : backup[f] = Original[f]
      BY <3>1, BackupOf
    <3> QED BY <2>1, <3>1, <3>2 DEF Halfway
  <2>3. CASE ~flags.backup
    BY <1>5, <2>1, <2>3 DEF Filling, Halfway
  <2> QED BY <2>2, <2>3
<1>6. CASE Restoring
  BY <1>6 DEF Restoring
<1> QED BY <1>1, <1>2, <1>3, <1>4, <1>5, <1>6 DEF DiskInv

\* Both are about the files and their backups.
LEMMA Untouched ==
  ASSUME file' = file, backup' = backup, unbacked' = unbacked
  PROVE  (Clean => Clean') /\ (Halfway => Halfway')
<1>1. \A S : BackedUp(S) => BackedUp(S)'
  BY DEF BackedUp
<1> QED BY <1>1 DEF Clean, Halfway

\* A checkpoint that can be mutated is as it was.
LEMMA PlannableIsClean ==
  ASSUME FileTypeOK, todo = <<>>, DiskInv, file.weights # Absent, Plannable(file.weights)
  PROVE  Clean
<1>1. Settled
  BY Where
<1>2. ~AlreadyMutated(file.weights)
  BY DEF Plannable
<1>3. file.weights \notin Changed
  BY <1>2, ChangedReadable
<1> QED BY <1>1, <1>3 DEF Settled, Halfway

\* A mutation starts from the original, or fails.
LEMMA MutateKeeps ==
  ASSUME MutationInv, NEW fl \in [backup : BOOLEAN, verify : BOOLEAN], Mutate(fl)
  PROVE  MutationInv'
<1>0. todo = <<>> /\ flags' = fl /\ file' = file /\ backup' = backup /\ unbacked' = unbacked
  BY DEF Mutate
<1>1. FileTypeOK'
  <2>1. held' = held \/ held' = [held EXCEPT !.config = [action_gen |-> TRUE]]
    BY DEF Mutate
  <2>2. held' = [f \in {"config", "quant", "map"} |-> held'[f]]
    BY <2>1 DEF MutationInv, FileTypeOK
  <2> QED BY <1>0, <2>2 DEF MutationInv, FileTypeOK
<1>2. CASE file.weights # Absent /\ file.config \notin {Absent, Torn} /\ Plannable(file.weights)
  <2>1. Clean
    BY <1>0, <1>2, PlannableIsClean DEF MutationInv
  <2>2. Clean'
    BY <1>0, <2>1, Untouched
  <2>3. todo' = MutationOps(fl) /\ held' = [held EXCEPT !.config = [action_gen |-> TRUE]] /\ outcome' = "none"
    BY <1>2 DEF Mutate
  <2>4. held'.config = NewConfig
    BY <2>3 DEF NewConfig, MutationInv, FileTypeOK
  <2>5. todo' = Write'
    BY <1>0, <2>3, MutationIsWriteNext
  <2> QED BY <1>1, <2>2, <2>3, <2>4, <2>5 DEF MutationInv, DiskInv, Preparing, OutcomeInv
<1>3. CASE ~(file.weights # Absent /\ file.config \notin {Absent, Torn} /\ Plannable(file.weights))
  <2>1. todo' = todo /\ outcome' = "failed"
    BY <1>3 DEF Mutate
  <2>2. Settled
    BY <1>0, Where DEF MutationInv
  <2>3. Settled'
    BY <1>0, <2>1, <2>2, Untouched DEF Settled
  <2> QED BY <1>0, <1>1, <2>1, <2>3 DEF MutationInv, DiskInv, OutcomeInv
<1> QED BY <1>2, <1>3

\* The rewrite writes what was planned, or something else.
LEMMA WriteRewriteKeeps ==
  ASSUME MutationInv, WriteRewrite
  PROVE  MutationInv'
<1>0. Does("write") /\ Proceed("mutated") /\ file' = file /\ backup' = backup /\ held' = held
      /\ unbacked' = unbacked
  BY DEF WriteRewrite
<1>1. Preparing /\ todo = Write /\ Clean /\ held.config = NewConfig
  BY <1>0, Where DEF MutationInv, Preparing
<1>2. OutcomeInv' /\ todo' = Tail(todo) /\ flags' = flags
  BY <1>0, <1>1, NotLast, OutcomeOpen DEF MutationInv
<1>3. todo' = Verify'
  BY <1>1, <1>2, Stages, StagesKept
<1>4. tmp' \in Changed
  <2>1. file.weights = OriginalWeights
    BY <1>1, OriginalIs DEF Clean
  <2>2. Rewritten(file.weights) = NewWeights
    BY <2>1 DEF NewWeights
  <2> QED BY <2>2 DEF WriteRewrite, Changed
<1>5. Clean'
  BY <1>0, <1>1, Untouched
<1>6. Preparing'
  <2>1. CASE flags.verify
    BY <1>0, <1>1, <1>2, <1>3, <1>4, <1>5, <2>1 DEF Preparing
  <2>2. CASE ~flags.verify
    <3>1. Verify' = MoveWeights'
      BY <1>2, <2>2, Stages, StagesKept
    <3>2. Good(tmp)'
      BY <1>2, <1>4, <2>2 DEF Good
    <3> QED BY <1>0, <1>1, <1>3, <1>5, <3>1, <3>2 DEF Preparing
  <2> QED BY <2>1, <2>2
<1> QED BY <1>0, <1>2, <1>6 DEF MutationInv, FileTypeOK, DiskInv

\* What the verification lets pass is what was planned.
LEMMA VerifyOutputKeeps ==
  ASSUME MutationInv, VerifyOutput
  PROVE  MutationInv'
<1>0. Does("verify") /\ Proceed("mutated") /\ file' = file /\ backup' = backup /\ held' = held
      /\ unbacked' = unbacked /\ tmp' = tmp
  BY DEF VerifyOutput
<1>1. Clean /\ held.config = NewConfig /\ todo = Verify /\ flags.verify /\ tmp \in Changed
  BY <1>0, Where DEF MutationInv
<1>2. OutcomeInv' /\ todo' = Tail(todo) /\ flags' = flags
  BY <1>0, <1>1, NotLast, OutcomeOpen DEF MutationInv
<1>3. todo' = MoveWeights'
  BY <1>1, <1>2, Stages, StagesKept
<1>4. tmp = NewWeights
  <2>1. DOMAIN tmp = Names
    BY <1>1, ChangedData
  <2>2. tmp["mlp"].data = "original"
    <3>1. Hashes(OriginalWeights)["mlp"] = "original" /\ "mlp" \in DOMAIN Hashes(OriginalWeights)
      BY OriginalData DEF Hashes, Tensor
    <3>2. CheckByteIdentity(Hashes(OriginalWeights), Hashes(tmp))
      BY <1>1, OriginalIs DEF VerifyOutput, Clean
    <3>3. Hashes(tmp)["mlp"] = "original"
      BY <3>1, <3>2 DEF CheckByteIdentity, DroppedLmHead
    <3> QED BY <2>1, <3>3 DEF Hashes, Names
  <2>3. tmp["action"].data = "source"
    <3>1. CheckSourceIdentity(Hashes(tmp), SourceHashes)
      BY DEF VerifyOutput
    <3>2. Hashes(tmp)["action"] = "source"
      BY <3>1 DEF CheckSourceIdentity, SourceHashes, Added
    <3> QED BY <2>1, <3>2 DEF Hashes, Names
  <2> QED BY <1>1, <2>2, <2>3, ChangedData
<1>5. Good(tmp)'
  BY <1>0, <1>1, <1>4 DEF Good
<1>6. Clean'
  BY <1>0, <1>1, Untouched
<1> QED BY <1>0, <1>1, <1>2, <1>3, <1>5, <1>6 DEF MutationInv, FileTypeOK, DiskInv, Preparing

\* A command that dies leaves what it did.
LEMMA EndKeeps ==
  ASSUME MutationInv, file' = file, backup' = backup, held' = held, flags' = flags,
         unbacked' = unbacked, todo' = <<>>, outcome' = "failed"
  PROVE  MutationInv'
<1>1. Clean' \/ Halfway'
  BY Recoverable, Untouched DEF MutationInv
<1> QED BY <1>1 DEF MutationInv, FileTypeOK, DiskInv, Settled, OutcomeInv

\* A file that is still the original gets its backup.
LEMMA BackupGrows ==
  ASSUME NEW S, BackedUp(S), NEW f \in Files, file[f] = Original[f],
         backup' = [backup EXCEPT ![f] = file[f]]
  PROVE  BackedUp(S \cup {f})'
BY DEF BackedUp

\* What a move of f does.
LEMMA MoveOf ==
  ASSUME FileTypeOK, BackupMove, NEW f \in Files, Head(todo) = Op("move", f)
  PROVE  /\ backup' = [backup EXCEPT ![f] = file[f]]
         /\ file' = [file EXCEPT ![f] = Absent]
         /\ \A g \in Files : file'[g] = IF g = f THEN Absent ELSE file[g]
         /\ FileTypeOK' /\ held' = held /\ unbacked' = unbacked /\ tmp' = tmp /\ flags' = flags
<1>1. Head(todo).file = f
  BY DEF Op
<1>2. backup' = [backup EXCEPT ![f] = file[f]] /\ file' = [file EXCEPT ![f] = Absent]
  BY <1>1 DEF BackupMove
<1>3. held' = held /\ unbacked' = unbacked /\ tmp' = tmp /\ flags' = flags
  BY DEF BackupMove, Proceed
<1>4. file' = [g \in Files |-> file'[g]] /\ \A g \in Files : file'[g] = IF g = f THEN Absent ELSE file[g]
  BY <1>2 DEF FileTypeOK
<1> QED BY <1>2, <1>3, <1>4 DEF FileTypeOK

\* The originals go to their backups one after the other.
LEMMA BackupMoveKeeps ==
  ASSUME MutationInv, BackupMove
  PROVE  MutationInv'
<1>0. Does("move") /\ Proceed("mutated") /\ FileTypeOK /\ OutcomeInv /\ DiskInv
  BY DEF BackupMove, MutationInv
<1>f. /\ "map" \in Files /\ "quant" \in Files /\ "config" \in Files /\ "weights" \in Files
  BY FileNames
<1>1. CASE Clean /\ held.config = NewConfig /\ todo = MoveWeights /\ flags.backup /\ Good(tmp)
  <2>1. OutcomeInv' /\ todo' = Tail(todo) /\ flags' = flags
    BY <1>0, <1>1, NotLast, OutcomeOpen
  <2>2. todo' = Place' /\ Head(todo) = Op("move", "weights")
    BY <1>1, <2>1, Stages, StagesKept
  <2>3. /\ backup' = [backup EXCEPT !["weights"] = file["weights"]]
        /\ file' = [file EXCEPT !["weights"] = Absent]
        /\ FileTypeOK' /\ held' = held /\ unbacked' = unbacked /\ tmp' = tmp
    BY <1>0, <1>f, <2>2, MoveOf
  <2>4. BackedUp({"weights"})'
    <3>1. file["weights"] = Original["weights"] /\ BackedUp({})
      BY <1>1 DEF Clean
    <3>2. BackedUp({} \cup {"weights"})'
      BY <1>f, <2>3, <3>1, BackupGrows
    <3>3. {} \cup {"weights"} = {"weights"}
      OBVIOUS
    <3> QED BY <3>2, <3>3
  <2>5. Placing'
    BY <1>1, <2>1, <2>2, <2>3, <2>4 DEF Placing, Clean, Good
  <2> QED BY <2>1, <2>3, <2>5 DEF MutationInv, DiskInv
<1>2. CASE Moving
  <2>0. flags.backup /\ Good(file.weights) /\ held.config = NewConfig /\ ~unbacked
        /\ file.map = Original.map /\ todo \in {MoveConfig, MoveQuant, MoveMap}
    BY <1>2 DEF Moving
  <2>1. OutcomeInv' /\ todo' = Tail(todo) /\ flags' = flags
    BY <1>0, <2>0, NotLast, OutcomeOpen
  <2>2. CASE todo = MoveConfig /\ BackedUp({"weights"})
             /\ file.config = Original.config /\ file.quant = Original.quant
    <3>1. todo' = MoveQuant' /\ Head(todo) = Op("move", "config")
      BY <2>1, <2>2, Stages, StagesKept
    <3>2. /\ backup' = [backup EXCEPT !["config"] = file["config"]]
          /\ \A g \in Files : file'[g] = IF g = "config" THEN Absent ELSE file[g]
          /\ FileTypeOK' /\ held' = held /\ unbacked' = unbacked /\ tmp' = tmp
      BY <1>0, <1>f, <3>1, MoveOf
    <3>3. BackedUp({"weights", "config"})'
      <4>1. BackedUp({"weights"} \cup {"config"})'
        BY <1>f, <2>2, <3>2, BackupGrows
      <4>2. {"weights"} \cup {"config"} = {"weights", "config"}
        OBVIOUS
      <4> QED BY <4>1, <4>2
    <3>4. Good(file.weights)' /\ file'.quant = Original.quant /\ file'.map = Original.map
      BY <1>f, <2>0, <2>1, <2>2, <3>2 DEF Good
    <3>5. Moving'
      BY <2>0, <2>1, <3>1, <3>2, <3>3, <3>4 DEF Moving
    <3> QED BY <2>1, <3>2, <3>5 DEF MutationInv, DiskInv
  <2>3. CASE todo = MoveQuant /\ BackedUp({"weights", "config"}) /\ file.quant = Original.quant
    <3>1. todo' = MoveMap' /\ Head(todo) = Op("move", "quant")
      BY <2>1, <2>3, Stages, StagesKept
    <3>2. /\ backup' = [backup EXCEPT !["quant"] = file["quant"]]
          /\ \A g \in Files : file'[g] = IF g = "quant" THEN Absent ELSE file[g]
          /\ FileTypeOK' /\ held' = held /\ unbacked' = unbacked /\ tmp' = tmp
      BY <1>0, <1>f, <3>1, MoveOf
    <3>3. BackedUp({"weights", "config", "quant"})'
      <4>1. BackedUp({"weights", "config"} \cup {"quant"})'
        BY <1>f, <2>3, <3>2, BackupGrows
      <4>2. {"weights", "config"} \cup {"quant"} = {"weights", "config", "quant"}
        OBVIOUS
      <4> QED BY <4>1, <4>2
    <3>4. Good(file.weights)' /\ file'.map = Original.map
      BY <1>f, <2>0, <2>1, <2>3, <3>2 DEF Good
    <3>5. Moving'
      BY <2>0, <2>1, <3>1, <3>2, <3>3, <3>4 DEF Moving
    <3> QED BY <2>1, <3>2, <3>5 DEF MutationInv, DiskInv
  <2>4. CASE todo = MoveMap /\ BackedUp({"weights", "config", "quant"})
    <3>1. todo' = OpenConfig' /\ Head(todo) = Op("move", "map")
      BY <2>1, <2>4, Stages, StagesKept
    <3>2. /\ backup' = [backup EXCEPT !["map"] = file["map"]]
          /\ \A g \in Files : file'[g] = IF g = "map" THEN Absent ELSE file[g]
          /\ FileTypeOK' /\ held' = held /\ unbacked' = unbacked /\ tmp' = tmp
      BY <1>0, <1>f, <3>1, MoveOf
    <3>3. BackedUp(Files)'
      <4>1. BackedUp({"weights", "config", "quant"} \cup {"map"})'
        BY <1>f, <2>0, <2>4, <3>2, BackupGrows
      <4>2. {"weights", "config", "quant"} \cup {"map"} = Files
        BY DEF Files
      <4> QED BY <4>1, <4>2
    <3>4. Good(file.weights)'
      BY <1>f, <2>0, <2>1, <3>2 DEF Good
    <3>5. Filling'
      BY <2>0, <2>1, <3>1, <3>2, <3>3, <3>4 DEF Filling
    <3> QED BY <2>1, <3>2, <3>5 DEF MutationInv, DiskInv
  <2> QED BY <1>2, <2>2, <2>3, <2>4 DEF Moving
<1> QED BY <1>0, <1>1, <1>2, Where

\* The new weights take their place.
LEMMA PlaceWeightsKeeps ==
  ASSUME MutationInv, PlaceWeights
  PROVE  MutationInv'
<1>0. /\ Does("place") /\ Proceed("mutated") /\ FileTypeOK /\ OutcomeInv /\ DiskInv
      /\ file' = [file EXCEPT !.weights = tmp] /\ unbacked' = (unbacked \/ ~flags.backup)
      /\ backup' = backup /\ held' = held
  BY DEF PlaceWeights, MutationInv
<1>f. /\ "map" \in Files /\ "quant" \in Files /\ "config" \in Files /\ "weights" \in Files
  BY FileNames
<1>t. todo = Place /\ Good(tmp) /\ held.config = NewConfig /\ ~unbacked
  BY <1>0, Where DEF Placing, Clean
<1>1. OutcomeInv' /\ todo' = Tail(todo) /\ flags' = flags
  BY <1>0, <1>t, NotLast, OutcomeOpen
<1>2. \A g \in Files : file'[g] = IF g = "weights" THEN tmp ELSE file[g]
  BY <1>0 DEF FileTypeOK
<1>3. FileTypeOK'
  <2>1. file' = [g \in Files |-> file'[g]]
    BY <1>0 DEF FileTypeOK
  <2> QED BY <1>0, <1>1, <2>1 DEF FileTypeOK
<1>4. Good(file.weights)'
  BY <1>f, <1>1, <1>2, <1>t DEF Good
<1>5. CASE Placing
  <2>1. flags.backup /\ BackedUp({"weights"}) /\ file = [Original EXCEPT !.weights = Absent]
    BY <1>5 DEF Placing
  <2>2. todo' = MoveConfig'
    BY <1>1, <1>t, <2>1, Stages, StagesKept
  <2>3. file'.config = Original.config /\ file'.quant = Original.quant /\ file'.map = Original.map
    BY <1>2, <1>f, <2>1, OriginalIs
  <2>4. BackedUp({"weights"})'
    BY <1>0, <2>1 DEF BackedUp
  <2>5. Moving'
    BY <1>0, <1>1, <1>4, <1>t, <2>1, <2>2, <2>3, <2>4 DEF Moving
  <2> QED BY <1>1, <1>3, <2>5 DEF MutationInv, DiskInv
<1>6. CASE Clean /\ ~flags.backup
  <2>1. todo' = OpenConfig'
    BY <1>1, <1>6, <1>t, Stages, StagesKept
  <2>2. file'.quant = Original.quant /\ file'.map = Original.map
    BY <1>2, <1>f, <1>6 DEF Clean
  <2>3. BackedUp({})' /\ unbacked'
    BY <1>0, <1>6 DEF Clean, BackedUp
  <2>4. Filling'
    BY <1>0, <1>1, <1>4, <1>t, <1>6, <2>1, <2>2, <2>3 DEF Filling
  <2> QED BY <1>1, <1>3, <2>4 DEF MutationInv, DiskInv
<1> QED BY <1>0, <1>5, <1>6, Where

\* The new sidecars are made from the originals.
LEMMA ReadSidecarsKeeps ==
  ASSUME MutationInv, ReadSidecars
  PROVE  MutationInv'
<1> DEFINE from == IF flags.backup THEN backup ELSE file
           new == UpdatedSidecars(from.quant, from.map)
<1>0. /\ Does("read") /\ Proceed("mutated") /\ FileTypeOK /\ OutcomeInv /\ DiskInv
      /\ held' = [held EXCEPT !.quant = new.quant, !.map = new.map]
      /\ file' = file /\ backup' = backup /\ unbacked' = unbacked
  BY DEF ReadSidecars, MutationInv
<1>t. Filling /\ todo = ReadQuant
  BY <1>0, Where
<1>1. OutcomeInv' /\ todo' = Tail(todo) /\ flags' = flags
  BY <1>0, <1>t, NotLast, OutcomeOpen
<1>2. todo' = OpenQuant'
  BY <1>1, <1>t, Stages, StagesKept
<1>d. ReadQuant \notin {OpenConfig, FillConfig, OpenQuant, FillQuant, OpenMap, FillMap}
  BY Distinct
<1>3. file.config = NewConfig /\ (~flags.backup => file.quant = Original.quant /\ file.map = Original.map)
  BY <1>d, <1>t DEF Filling
<1>4. from.quant = Original.quant /\ from.map = Original.map
  <2>1. CASE flags.backup
    <3>1. BackedUp(Files)
      BY <1>t, <2>1 DEF Filling
    <3> QED BY <2>1, <3>1, BackupOf, FileNames
  <2>2. CASE ~flags.backup
    BY <1>3, <2>2
  <2> QED BY <2>1, <2>2
<1>5. new = NewSidecars
  BY <1>4 DEF NewSidecars
<1> HIDE DEF new
<1>6. /\ held'.config = held.config /\ held'.quant = NewSidecars.quant /\ held'.map = NewSidecars.map
      /\ held' = [f \in {"config", "quant", "map"} |-> held'[f]]
  BY <1>0, <1>5 DEF FileTypeOK
<1>7. Good(file.weights)'
  BY <1>0, <1>1, <1>t DEF Filling, Good
<1>8. IF flags'.backup THEN BackedUp(Files)' /\ ~unbacked' ELSE BackedUp({})' /\ unbacked'
  BY <1>0, <1>1, <1>t DEF Filling, BackedUp
<1>9. Filling'
  BY <1>0, <1>2, <1>3, <1>6, <1>7, <1>8, <1>t DEF Filling
<1> QED BY <1>0, <1>1, <1>6, <1>9 DEF MutationInv, FileTypeOK, DiskInv

\* What writing f does: another content for it, and nothing else.
LEMMA FillingKept ==
  ASSUME FileTypeOK, Filling, NEW f \in Files \ {"weights"}, NEW c,
         file' = [file EXCEPT ![f] = c], backup' = backup, held' = held, flags' = flags,
         unbacked' = unbacked
  PROVE  /\ \A g \in Files : file'[g] = IF g = f THEN c ELSE file[g]
         /\ FileTypeOK' /\ Good(file.weights)' /\ held'.config = NewConfig
         /\ IF flags'.backup THEN BackedUp(Files)' /\ ~unbacked' ELSE BackedUp({})' /\ unbacked'
<1>1. /\ \A g \in Files : file'[g] = IF g = f THEN c ELSE file[g]
      /\ file' = [g \in Files |-> file'[g]]
  BY DEF FileTypeOK
<1>2. Good(file.weights)'
  BY <1>1, FileNames DEF Filling, Good
<1>3. IF flags'.backup THEN BackedUp(Files)' /\ ~unbacked' ELSE BackedUp({})' /\ unbacked'
  BY DEF Filling, BackedUp
<1> QED BY <1>1, <1>2, <1>3 DEF FileTypeOK, Filling

\* A sidecar is truncated.
LEMMA OpenForWritingKeeps ==
  ASSUME MutationInv, OpenForWriting
  PROVE  MutationInv'
<1>0. /\ Does("open") /\ Proceed("mutated") /\ FileTypeOK /\ OutcomeInv /\ DiskInv
      /\ file' = [file EXCEPT ![Head(todo).file] = Torn]
      /\ held' = held /\ backup' = backup /\ unbacked' = unbacked
  BY DEF OpenForWriting, MutationInv
<1>t. Filling /\ todo \in {OpenConfig, OpenQuant, OpenMap}
  BY <1>0, Where
<1>1. OutcomeInv' /\ todo' = Tail(todo) /\ flags' = flags
  BY <1>0, <1>t, NotLast, OutcomeOpen
<1>f. "map" \in Files \ {"weights"} /\ "quant" \in Files \ {"weights"} /\ "config" \in Files \ {"weights"}
  BY DEF Files
<1>2. CASE todo = OpenConfig
  <2>1. todo' = FillConfig' /\ Head(todo) = Op("open", "config")
    BY <1>1, <1>2, Stages, StagesKept
  <2>2. file' = [file EXCEPT !["config"] = Torn]
    <3>1. Head(todo).file = "config"
      BY <2>1 DEF Op
    <3> QED BY <1>0, <3>1
  <2>3. /\ \A g \in Files : file'[g] = IF g = "config" THEN Torn ELSE file[g]
        /\ FileTypeOK' /\ Good(file.weights)' /\ held'.config = NewConfig
        /\ IF flags'.backup THEN BackedUp(Files)' /\ ~unbacked' ELSE BackedUp({})' /\ unbacked'
    BY <1>0, <1>1, <1>f, <1>t, <2>2, FillingKept
  <2>4. ~flags.backup => file.quant = Original.quant /\ file.map = Original.map
    BY <1>2, <1>t, Distinct DEF Filling
  <2>5. ~flags'.backup => file'.quant = Original.quant /\ file'.map = Original.map
    BY <1>1, <1>f, <2>3, <2>4
  <2>6. Filling'
    BY <2>1, <2>3, <2>5 DEF Filling
  <2> QED BY <1>1, <2>3, <2>6 DEF MutationInv, DiskInv
<1>3. CASE todo = OpenQuant
  <2>1. todo' = FillQuant' /\ Head(todo) = Op("open", "quant")
    BY <1>1, <1>3, Stages, StagesKept
  <2>2. file' = [file EXCEPT !["quant"] = Torn]
    <3>1. Head(todo).file = "quant"
      BY <2>1 DEF Op
    <3> QED BY <1>0, <3>1
  <2>3. /\ \A g \in Files : file'[g] = IF g = "quant" THEN Torn ELSE file[g]
        /\ FileTypeOK' /\ Good(file.weights)' /\ held'.config = NewConfig
        /\ IF flags'.backup THEN BackedUp(Files)' /\ ~unbacked' ELSE BackedUp({})' /\ unbacked'
    BY <1>0, <1>1, <1>f, <1>t, <2>2, FillingKept
  <2>4. /\ file.config = NewConfig /\ held.quant = NewSidecars.quant /\ held.map = NewSidecars.map
    BY <1>3, <1>t, Distinct DEF Filling
  <2>5. file'.config = NewConfig
    BY <1>f, <2>3, <2>4
  <2>6. Filling'
    BY <1>0, <2>1, <2>3, <2>4, <2>5 DEF Filling
  <2> QED BY <1>1, <2>3, <2>6 DEF MutationInv, DiskInv
<1>4. CASE todo = OpenMap
  <2>1. todo' = FillMap' /\ Head(todo) = Op("open", "map")
    BY <1>1, <1>4, Stages, StagesKept
  <2>2. file' = [file EXCEPT !["map"] = Torn]
    <3>1. Head(todo).file = "map"
      BY <2>1 DEF Op
    <3> QED BY <1>0, <3>1
  <2>3. /\ \A g \in Files : file'[g] = IF g = "map" THEN Torn ELSE file[g]
        /\ FileTypeOK' /\ Good(file.weights)' /\ held'.config = NewConfig
        /\ IF flags'.backup THEN BackedUp(Files)' /\ ~unbacked' ELSE BackedUp({})' /\ unbacked'
    BY <1>0, <1>1, <1>f, <1>t, <2>2, FillingKept
  <2>4. /\ file.config = NewConfig /\ file.quant = NewSidecars.quant /\ held.map = NewSidecars.map
    BY <1>4, <1>t, Distinct DEF Filling
  <2>5. file'.config = NewConfig /\ file'.quant = NewSidecars.quant
    BY <1>f, <2>3, <2>4
  <2>6. Filling'
    BY <1>0, <2>1, <2>3, <2>4, <2>5 DEF Filling
  <2> QED BY <1>1, <2>3, <2>6 DEF MutationInv, DiskInv
<1> QED BY <1>t, <1>2, <1>3, <1>4

\* A sidecar is written; after the last one the mutation is done.
LEMMA WriteTextKeeps ==
  ASSUME MutationInv, WriteText
  PROVE  MutationInv'
<1>0. /\ Does("fill") /\ Proceed("mutated") /\ FileTypeOK /\ OutcomeInv /\ DiskInv
      /\ file' = [file EXCEPT ![Head(todo).file] = held[Head(todo).file]]
      /\ held' = held /\ backup' = backup /\ unbacked' = unbacked
  BY DEF WriteText, MutationInv
<1>t. Filling /\ todo \in {FillConfig, FillQuant, FillMap}
  BY <1>0, Where
<1>1. todo' = Tail(todo) /\ flags' = flags
  BY <1>0 DEF Proceed
<1>f. "map" \in Files \ {"weights"} /\ "quant" \in Files \ {"weights"} /\ "config" \in Files \ {"weights"}
  BY DEF Files
<1>2. CASE todo = FillConfig
  <2>0. OutcomeInv'
    BY <1>0, <1>2, NotLast, OutcomeOpen
  <2>1. todo' = ReadQuant' /\ Head(todo) = Op("fill", "config")
    BY <1>1, <1>2, Stages, StagesKept
  <2>2. file' = [file EXCEPT !["config"] = NewConfig]
    <3>1. Head(todo).file = "config"
      BY <2>1 DEF Op
    <3> QED BY <1>0, <3>1, <1>t DEF Filling
  <2>3. /\ \A g \in Files : file'[g] = IF g = "config" THEN NewConfig ELSE file[g]
        /\ FileTypeOK' /\ Good(file.weights)' /\ held'.config = NewConfig
        /\ IF flags'.backup THEN BackedUp(Files)' /\ ~unbacked' ELSE BackedUp({})' /\ unbacked'
    BY <1>0, <1>1, <1>f, <1>t, <2>2, FillingKept
  <2>4. ~flags.backup => file.quant = Original.quant /\ file.map = Original.map
    BY <1>2, <1>t, Distinct DEF Filling
  <2>5. /\ file'.config = NewConfig
        /\ ~flags'.backup => file'.quant = Original.quant /\ file'.map = Original.map
    BY <1>1, <1>f, <2>3, <2>4
  <2>6. Filling'
    BY <2>1, <2>3, <2>5 DEF Filling
  <2> QED BY <2>0, <2>3, <2>6 DEF MutationInv, DiskInv
<1>3. CASE todo = FillQuant
  <2>0. OutcomeInv'
    BY <1>0, <1>3, NotLast, OutcomeOpen
  <2>1. todo' = OpenMap' /\ Head(todo) = Op("fill", "quant")
    BY <1>1, <1>3, Stages, StagesKept
  <2>4. /\ file.config = NewConfig /\ held.quant = NewSidecars.quant /\ held.map = NewSidecars.map
    BY <1>3, <1>t, Distinct DEF Filling
  <2>2. file' = [file EXCEPT !["quant"] = NewSidecars.quant]
    <3>1. Head(todo).file = "quant"
      BY <2>1 DEF Op
    <3> QED BY <1>0, <3>1, <2>4
  <2>3. /\ \A g \in Files : file'[g] = IF g = "quant" THEN NewSidecars.quant ELSE file[g]
        /\ FileTypeOK' /\ Good(file.weights)' /\ held'.config = NewConfig
        /\ IF flags'.backup THEN BackedUp(Files)' /\ ~unbacked' ELSE BackedUp({})' /\ unbacked'
    BY <1>0, <1>1, <1>f, <1>t, <2>2, FillingKept
  <2>5. file'.config = NewConfig /\ file'.quant = NewSidecars.quant
    BY <1>f, <2>3, <2>4
  <2>6. Filling'
    BY <1>0, <2>1, <2>3, <2>4, <2>5 DEF Filling
  <2> QED BY <2>0, <2>3, <2>6 DEF MutationInv, DiskInv
<1>4. CASE todo = FillMap
  <2>1. todo' = <<>> /\ Head(todo) = Op("fill", "map") /\ Len(todo) = 1
    BY <1>1, <1>4, Stages, NotLast
  <2>4. /\ file.config = NewConfig /\ file.quant = NewSidecars.quant /\ held.map = NewSidecars.map
    BY <1>4, <1>t, Distinct DEF Filling
  <2>2. file' = [file EXCEPT !["map"] = NewSidecars.map]
    <3>1. Head(todo).file = "map"
      BY <2>1 DEF Op
    <3> QED BY <1>0, <3>1, <2>4
  <2>3. /\ \A g \in Files : file'[g] = IF g = "map" THEN NewSidecars.map ELSE file[g]
        /\ FileTypeOK' /\ Good(file.weights)' /\ held'.config = NewConfig
        /\ IF flags'.backup THEN BackedUp(Files)' /\ ~unbacked' ELSE BackedUp({})' /\ unbacked'
    BY <1>0, <1>1, <1>f, <1>t, <2>2, FillingKept
  <2>5. MutatedAll'
    BY <1>f, <2>3, <2>4 DEF MutatedAll
  <2>6. outcome' = "mutated"
    BY <1>0, <2>1 DEF Proceed
  <2>7. Halfway'
    <3>1. file'.weights \in Changed
      BY <2>3 DEF Good
    <3>2. CASE flags'.backup
      <4>1. BackedUp(Files)' /\ ~unbacked'
        BY <2>3, <3>2
      <4>2. \A g \in Files : backup'[g] = Original[g]
        BY <4>1 DEF BackedUp
      <4>3. \E S \in SUBSET Files : BackedUp(S)'
        BY <4>1
      <4> QED BY <3>1, <4>1, <4>2, <4>3 DEF Halfway
    <3>3. CASE ~flags'.backup
      <4>1. BackedUp({})' /\ unbacked'
        BY <2>3, <3>3
      <4>2. \E S \in SUBSET Files : BackedUp(S)'
        BY <4>1
      <4> QED BY <3>1, <4>1, <4>2 DEF Halfway
    <3> QED BY <3>2, <3>3
  <2> QED BY <2>1, <2>3, <2>5, <2>6, <2>7 DEF MutationInv, DiskInv, Settled, OutcomeInv
<1> QED BY <1>t, <1>2, <1>3, <1>4

\* A restore has something to restore, or fails.
LEMMA RestoreKeeps ==
  ASSUME MutationInv, Restore
  PROVE  MutationInv'
<1>0. /\ todo = <<>> /\ FileTypeOK /\ DiskInv /\ todo' = RestoreOps
      /\ outcome' = IF RestoreOps = <<>> THEN "failed" ELSE "none"
      /\ file' = file /\ backup' = backup /\ held' = held /\ flags' = flags /\ unbacked' = unbacked
  BY DEF Restore, disk, MutationInv
<1>1. Settled
  BY <1>0, Where
<1>2. FileTypeOK'
  BY <1>0 DEF FileTypeOK
<1>3. CASE RestoreOps = <<>>
  <2>1. Settled'
    BY <1>0, <1>1, <1>3, Untouched DEF Settled
  <2> QED BY <1>0, <1>2, <1>3, <2>1 DEF MutationInv, DiskInv, OutcomeInv
<1>4. CASE RestoreOps # <<>>
  <2>1. ~Clean
    <3>1. SUFFICES ASSUME BackedUp({}) PROVE FALSE
      BY DEF Clean
    <3>2. \A f \in Files : backup[f] = Absent
      BY <3>1, BackupOf
    <3> QED BY <1>4, <3>2, RestoreNothing
  <2>2. Halfway'
    BY <1>0, <1>1, <2>1, Untouched DEF Settled
  <2>3. RestoreOps' = RestoreOps
    BY <1>0 DEF RestoreOps, Restored
  <2>4. Restoring'
    BY <1>0, <1>4, <2>2, <2>3 DEF Restoring
  <2> QED BY <1>0, <1>2, <1>4, <2>4 DEF MutationInv, DiskInv, OutcomeInv
<1> QED BY <1>3, <1>4

\* A file comes back; after the last one, the weights, all of them have.
LEMMA RestoreOneKeeps ==
  ASSUME MutationInv, RestoreOne
  PROVE  MutationInv'
<1>0. /\ Does("restore") /\ Proceed("restored") /\ FileTypeOK /\ OutcomeInv /\ DiskInv
      /\ file' = [file EXCEPT ![Head(todo).file] = backup[Head(todo).file]]
      /\ backup' = [backup EXCEPT ![Head(todo).file] = Absent]
      /\ held' = held /\ unbacked' = unbacked
  BY DEF RestoreOne, MutationInv
<1>1. Halfway /\ todo = RestoreOps /\ RestoreOps # <<>>
  BY <1>0, Where DEF Restoring
<1>2. todo' = Tail(todo) /\ flags' = flags /\ outcome' = IF Len(todo) = 1 THEN "restored" ELSE outcome
  BY <1>0 DEF Proceed
<1>o. outcome = "none"
  BY <1>0, <1>1 DEF OutcomeInv
<1>3. PICK f \in Files :
        /\ backup[f] # Absent
        /\ Head(RestoreOps) = Op("restore", f)
        /\ Len(RestoreOps) = 1 <=> Tail(RestoreOps) = <<>>
        /\ f = "weights" => \A g \in Files \ {"weights"} : backup[g] = Absent
        /\ backup' = [backup EXCEPT ![f] = Absent] /\ DOMAIN backup = Files
           => Tail(RestoreOps) = RestoreOps'
  BY <1>1, RestoreFirst
<1>4. PICK S \in SUBSET Files : BackedUp(S)
  BY <1>1 DEF Halfway
<1>5. Head(todo).file = f
  BY <1>1, <1>3 DEF Op
<1>6. /\ file' = [file EXCEPT ![f] = backup[f]] /\ backup' = [backup EXCEPT ![f] = Absent]
  BY <1>0, <1>5
<1>7. DOMAIN backup = Files /\ backup[f] = Original[f]
  BY <1>3, <1>4, BackupOf
<1>8. todo' = RestoreOps' /\ (Len(todo) = 1 <=> todo' = <<>>)
  BY <1>1, <1>2, <1>3, <1>6, <1>7
<1>9. /\ file' = [g \in Files |-> file'[g]]
      /\ \A g \in Files : file'[g] = IF g = f THEN Original[f] ELSE file[g]
  BY <1>6, <1>7, <1>0 DEF FileTypeOK
<1>10. FileTypeOK'
  BY <1>0, <1>2, <1>9 DEF FileTypeOK
<1>11. BackedUp(S \ {f})'
  BY <1>4, <1>6 DEF BackedUp
<1>12. ~unbacked
  <2>1. SUFFICES ASSUME BackedUp({}) PROVE FALSE
    BY <1>1 DEF Halfway
  <2> QED BY <1>3, <2>1, BackupOf
<1>13. \A g \in Files : Original[g] \in {file[g], backup[g]}
  BY <1>1, <1>12 DEF Halfway
<1>14. CASE f = "weights"
  <2>1. \A g \in Files \ {"weights"} : backup[g] = Absent
    BY <1>3, <1>14
  <2>2. \A g \in Files : file'[g] = Original[g]
    BY <1>9, <1>13, <1>14, <2>1, OriginalReadable
  <2>3. file' = Original
    BY <1>9, <2>2, OriginalIs
  <2>4. \A g \in Files : backup'[g] = Absent
    BY <1>6, <1>7, <1>14, <2>1
  <2>5. BackedUp({})'
    BY <1>6, <1>7, <2>4, <1>11 DEF BackedUp
  <2>6. todo' = <<>>
    BY <1>8, <2>4, RestoreNothingNext
  <2>7. outcome' = "restored"
    BY <1>2, <1>8, <2>6
  <2> QED BY <1>0, <1>10, <1>12, <2>3, <2>5, <2>6, <2>7
          DEF MutationInv, DiskInv, Settled, Clean, OutcomeInv
<1>15. CASE f # "weights"
  <2>1. file'.weights \in Changed \cup {Absent}
    BY <1>1, <1>9, <1>15, FileNames DEF Halfway
  <2>2. \A g \in Files : Original[g] \in {file'[g], backup'[g]}
    BY <1>6, <1>7, <1>9, <1>13
  <2>3. Halfway'
    <3>1. S \ {f} \in SUBSET Files /\ ~unbacked'
      BY <1>0, <1>12
    <3>2. \E R \in SUBSET Files : BackedUp(R)'
      BY <1>11, <3>1
    <3> QED BY <2>1, <2>2, <3>1, <3>2 DEF Halfway
  <2>4. todo' # <<>>
    <3>1. SUFFICES ASSUME todo' = <<>> PROVE FALSE
      OBVIOUS
    <3>2. backup'["weights"] = Absent
      BY <1>8, <3>1, RestoreNothingNext, FileNames
    <3>3. Original["weights"] = file'["weights"]
      BY <2>2, <3>2, OriginalReadable, FileNames
    <3>4. OriginalWeights \in Changed \cup {Absent}
      BY <2>1, <3>3, OriginalIs
    <3> QED BY <3>4, ChangedReadable, OriginalReadable, OriginalIs, FileNames
  <2>5. outcome' = "none"
    BY <1>2, <1>8, <1>o, <2>4
  <2> QED BY <1>8, <1>10, <2>3, <2>4, <2>5 DEF MutationInv, DiskInv, Restoring, OutcomeInv
<1> QED BY <1>14, <1>15

\* Whatever a mutation or a restore does, the invariant holds.
LEMMA MutationKeeps ==
  ASSUME MutationInv, MutationNext
  PROVE  MutationInv'
<1>1. ASSUME NEW fl \in [backup : BOOLEAN, verify : BOOLEAN], Mutate(fl) PROVE MutationInv'
  BY <1>1, MutateKeeps
<1>2. CASE WriteRewrite
  BY <1>2, WriteRewriteKeeps
<1>3. CASE VerifyOutput
  BY <1>3, VerifyOutputKeeps
<1>4. CASE RewriteRaises
  BY <1>4, EndKeeps DEF RewriteRaises
<1>5. CASE BackupMove
  BY <1>5, BackupMoveKeeps
<1>6. CASE PlaceWeights
  BY <1>6, PlaceWeightsKeeps
<1>7. CASE ReadSidecars
  BY <1>7, ReadSidecarsKeeps
<1>8. CASE OpenForWriting
  BY <1>8, OpenForWritingKeeps
<1>9. CASE WriteText
  BY <1>9, WriteTextKeeps
<1>10. CASE Restore
  BY <1>10, RestoreKeeps
<1>11. CASE RestoreOne
  BY <1>11, RestoreOneKeeps
<1>12. CASE CommandDies
  BY <1>12, EndKeeps DEF CommandDies, disk
<1>13. CASE SourceChanges
  <2>1. /\ todo = <<>> /\ todo' = todo /\ file' = file /\ backup' = backup /\ held' = held
        /\ flags' = flags /\ outcome' = outcome /\ unbacked' = unbacked
    BY <1>13 DEF SourceChanges, command
  <2>2. Settled
    BY <2>1, Where DEF MutationInv
  <2>3. Settled'
    BY <2>1, <2>2, Untouched DEF Settled
  <2>4. OutcomeInv'
    BY <2>1 DEF MutationInv, OutcomeInv, MutatedAll, Good
  <2> QED BY <2>1, <2>3, <2>4 DEF MutationInv, FileTypeOK, DiskInv
<1> QED BY <1>1, <1>2, <1>3, <1>4, <1>5, <1>6, <1>7, <1>8, <1>9, <1>10, <1>11, <1>12, <1>13
        DEF MutationNext

-------------------------------------------------------------------------------
(* The invariant of the copy.                                              *)

\* What the inventory's entries are short of, its pass over them will make; the
\* sweep does not come to them.
CopyInv ==
  /\ DOMAIN entry = Entries
  /\ step = [do |-> step.do, entry |-> step.entry]
  /\ copying # "no" => report = "none"
  /\ copying = "inventory" =>
       \A x \in Inventory : entry[x] = "real" \/ x \in left \/ (step.do # "next" /\ step.entry = x)
  /\ copying = "sweep" =>
       /\ \A x \in Inventory : entry[x] = "real" /\ x \notin left
       /\ step.do # "next" => step.entry \notin Inventory
  /\ InventoryIsComplete

\* A command that ends complete, or not as it should, leaves nothing in memory.
LEMMA EndedKeeps ==
  ASSUME CopyInv, NEW how, CommandEnds(how), entry' = entry,
         how = "ok" => \A x \in Inventory : entry[x] = "real"
  PROVE  CopyInv'
BY DEF CopyInv, CommandEnds, NextEntry, InventoryIsComplete

\* Whatever the copy does, the invariant holds.
LEMMA CopyKeeps ==
  ASSUME CopyInv, CopyNext
  PROVE  CopyInv'
<1>1. ASSUME NEW v \in BOOLEAN, MakeSelfContained(v) PROVE CopyInv'
  <2>1. CASE base
    BY <1>1, <2>1 DEF CopyInv, MakeSelfContained, ExecuteCopy, NextEntry, InventoryIsComplete
  <2>2. CASE ~base
    BY <1>1, <2>2 DEF CopyInv, MakeSelfContained, InventoryIsComplete
  <2> QED BY <2>1, <2>2
<1>2. ASSUME NEW x \in Entries, Unlink(x) PROVE CopyInv'
  <2>0. /\ copying # "no" /\ step.do = "next" /\ x \in left /\ left' = left \ {x}
        /\ entry' = [entry EXCEPT ![x] = IF entry[x] = "link" THEN "gone" ELSE entry[x]]
        /\ step' = [do |-> IF x \in Dirs THEN "mkdir" ELSE "copy", entry |-> x]
        /\ copying' = copying /\ report' = report
    BY <1>2 DEF Unlink, At, Becomes, result
  <2>1. DOMAIN entry' = Entries /\ \A y \in Entries : y # x => entry'[y] = entry[y]
    BY <2>0 DEF CopyInv
  <2>2. step'.do # "next" /\ step'.entry = x /\ step' = [do |-> step'.do, entry |-> step'.entry]
    BY <2>0
  <2>3. Inventory \subseteq Entries /\ report = "none"
    BY <2>0 DEF CopyInv, Entries
  <2> QED BY <2>0, <2>1, <2>2, <2>3 DEF CopyInv, InventoryIsComplete
<1>3. CASE MakeDir
  <2>0. /\ copying # "no" /\ step.do = "mkdir" /\ left' = left
        /\ entry' = [entry EXCEPT ![step.entry] = IF entry[step.entry] = "gone" THEN "partial" ELSE entry[step.entry]]
        /\ step' = [step EXCEPT !.do = "copy"] /\ copying' = copying /\ report' = report
    BY <1>3 DEF MakeDir, At, Becomes, result
  <2>1. DOMAIN entry' = Entries /\ \A y \in Entries : y # step.entry => entry'[y] = entry[y]
    BY <2>0 DEF CopyInv
  <2>2. step' = [do |-> "copy", entry |-> step.entry]
    BY <2>0 DEF CopyInv
  <2>3. Inventory \subseteq Entries /\ report = "none"
    BY <2>0 DEF CopyInv, Entries
  <2>4. step'.do # "next" /\ step'.entry = step.entry /\ step' = [do |-> step'.do, entry |-> step'.entry]
    BY <2>2
  <2> QED BY <2>0, <2>1, <2>3, <2>4 DEF CopyInv, InventoryIsComplete
<1>4. CASE Copy
  <2>0. /\ copying # "no" /\ step.do = "copy" /\ left' = left
        /\ entry' = [entry EXCEPT ![step.entry] = "real"]
        /\ step' = NextEntry /\ copying' = copying /\ report' = report
    BY <1>4 DEF Copy, At, Becomes, result
  <2>1. DOMAIN entry' = Entries
        /\ \A y \in Entries : entry'[y] = IF y = step.entry THEN "real" ELSE entry[y]
    BY <2>0 DEF CopyInv
  <2>2. step'.do = "next" /\ step' = [do |-> step'.do, entry |-> step'.entry]
    BY <2>0 DEF NextEntry
  <2>3. Inventory \subseteq Entries /\ report = "none"
    BY <2>0 DEF CopyInv, Entries
  <2> QED BY <2>0, <2>1, <2>2, <2>3 DEF CopyInv, InventoryIsComplete
<1>5. CASE Sweep
  <2>0. /\ copying = "inventory" /\ step.do = "next" /\ left = {} /\ entry' = entry
        /\ left' = {x \in Entries : entry[x] = "link"} /\ copying' = "sweep"
        /\ step' = NextEntry /\ report' = report
    BY <1>5 DEF Sweep, PassEnds, ExecuteCopy, NextEntry
  <2>1. \A x \in Inventory : entry[x] = "real"
    BY <2>0 DEF CopyInv
  <2>2. step'.do = "next" /\ step' = [do |-> step'.do, entry |-> step'.entry]
    BY <2>0 DEF NextEntry
  <2> QED BY <2>0, <2>1, <2>2 DEF CopyInv, InventoryIsComplete
<1>6. CASE Report
  <2>1. \A x \in Inventory : entry[x] = "real"
    BY <1>6 DEF CopyInv, Report, PassEnds
  <2> QED BY <1>6, <2>1, EndedKeeps DEF Report
<1>7. CASE CopyDies
  BY <1>7, EndedKeeps DEF CopyDies
<1>8. CASE BaseChanges
  BY <1>8 DEF BaseChanges, CopyInv, InventoryIsComplete, result
<1> QED BY <1>1, <1>2, <1>3, <1>4, <1>5, <1>6, <1>7, <1>8 DEF CopyNext

-------------------------------------------------------------------------------
(* What the engines load.                                                  *)

\* The weights of the checkpoint are the original ones, with everything else, or
\* rewritten ones, or absent.
LEMMA WeightsAre ==
  ASSUME MutationInv
  PROVE  \/ file = Original
         \/ file.weights \in Changed
         \/ file.weights = Absent
BY Recoverable DEF MutationInv, Clean, Halfway

\* What an engine has checked of the precision: the declaration says what the
\* scales show.
LEMMA PrecisionIsDeclared ==
  ASSUME NEW label, VerifyPrecision(file, label) = None, file = Original
  PROVE  label.layout = PrecisionFromQuantConfig(label.recipe)
<1> DEFINE declared == PrecisionFromQuantConfig(ReadQuantConfig(file, label))
           n == Cardinality({t \in DOMAIN file.weights : file.weights[t].dtype = "F8"})
           observed == [precision |-> label.layout, n_quantized |-> n]
           expected == [precision |-> declared, n_quantized |-> ExpectedQuantized]
<1>1. ReadQuantConfig(file, label) = label.recipe
  BY OriginalReadable, FileNames DEF ReadQuantConfig
<1>2. declared # "unknown" /\ observed = expected
  BY DEF VerifyPrecision, ObservePrecision, None
<1>3. observed.precision = label.layout /\ expected.precision = declared
  OBVIOUS
<1> QED BY <1>1, <1>2, <1>3

\* The diffusers engines refuse rewritten weights, and the original ones under
\* another precision or with their own adapters.
LEMMA OracleLoads ==
  ASSUME MutationInv, NEW label, BuildOracle(file, label) = None
  PROVE  file = Original /\ label.layout = PrecisionFromQuantConfig(label.recipe)
<1>1. /\ DiscoverTransformerDir(file) = None /\ LoadTransformer(file) = None
      /\ VerifyPrecision(file, label) = None
  BY DEF BuildOracle, Then
<1>2. file.weights # Absent
  BY <1>1 DEF DiscoverTransformerDir, None
<1>3. DOMAIN file.weights = DOMAIN OriginalWeights
  BY <1>1 DEF LoadTransformer, LoadStateDict, Skeleton, None
<1>4. file = Original
  <2>1. \A w \in Changed : DOMAIN w # DOMAIN OriginalWeights
    <3>1. \A w \in Changed : DOMAIN w = Names
      BY ChangedData
    <3> QED BY <3>1, OriginalData DEF Names
  <2> QED BY <1>2, <1>3, <2>1, WeightsAre
<1>5. label.layout = PrecisionFromQuantConfig(label.recipe)
  BY <1>1, <1>4, PrecisionIsDeclared
<1> QED BY <1>4, <1>5

\* The action engine, too.
LEMMA ActionLoads ==
  ASSUME MutationInv, NEW label, NEW dir \in ActionDirs, BuildActionEngine(file, dir, label) = None
  PROVE  file = Original /\ label.layout = PrecisionFromQuantConfig(label.recipe) /\ dir = "override"
<1> DEFINE adapters == ReadActionAdapterTensors(file, dir)
<1>1. /\ DiscoverTransformerDir(file) = None
      /\ MergeStateDicts(DOMAIN file.weights, adapters) = None
      /\ VerifyPrecision(file, label) = None
      /\ (IF dir = "override" /\ source["action"] = "wrong_shape" THEN "keys"
          ELSE LoadStateDict(file, DOMAIN file.weights \cup adapters, TRUE)) = None
  BY DEF BuildActionEngine, LoadActionTransformer, Then
<1>2. file.weights # Absent
  BY <1>1 DEF DiscoverTransformerDir, None
<1>3. adapters # {} /\ DOMAIN file.weights \cap adapters = {}
  BY <1>1 DEF MergeStateDicts, None
<1>4. dir = "override" /\ adapters = {"action"}
  BY <1>3 DEF ReadActionAdapterTensors, ActionDirs
<1>5. DOMAIN file.weights \cup {"action"} = DOMAIN OriginalWeights \cup {"action"}
  BY <1>1, <1>4 DEF LoadStateDict, Skeleton, None
<1>6. file = Original
  <2>1. \A w \in Changed : DOMAIN w \cup {"action"} # DOMAIN OriginalWeights \cup {"action"}
    <3>1. \A w \in Changed : DOMAIN w = Names
      BY ChangedData
    <3> QED BY <3>1, OriginalData DEF Names
  <2> QED BY <1>2, <1>5, <2>1, WeightsAre
<1>7. label.layout = PrecisionFromQuantConfig(label.recipe)
  BY <1>1, <1>6, PrecisionIsDeclared
<1> QED BY <1>4, <1>6, <1>7

\* The reasoner refuses whatever weights the checkpoint has.
LEMMA ReasonerLoads ==
  ASSUME MutationInv, NEW dir \in ReasonerDirs, NEW dtype, BuildReasoner(file, dir, dtype) = None
  PROVE  dir = "base"
<1>1. /\ ReadTransformerHeaders(file, dir) = None
      /\ ReasonerSourceVerdict(Headers(file, dir)) = None
      /\ VerifyReasonerInfo(dir, dtype) = None
  BY DEF BuildReasoner, AssertReasonerSource, Then
<1>2. dir # "other_model" /\ dir # "malformed"
  BY <1>1 DEF VerifyReasonerInfo, ReadTransformerHeaders, None
<1>3. SUFFICES ASSUME dir = "own" PROVE FALSE
  BY <1>2 DEF ReasonerDirs
<1>4. file.weights # Absent /\ ReasonerSourceVerdict(file.weights) = None
  BY <1>1, <1>3 DEF ReadTransformerHeaders, Headers, None
<1>5. CASE file = Original
  <2>1. "lm_head_scale" \in DOMAIN file.weights
    BY <1>5, OriginalData, OriginalIs
  <2> QED BY <1>4, <2>1 DEF ReasonerSourceVerdict, IsKept, IsDropped, None
<1>6. CASE file.weights \in Changed
  <2>1. "mlp" \in DOMAIN file.weights /\ file.weights["mlp"].dtype = "F8"
    BY <1>6, ChangedData, NewData DEF Names, Tensor
  <2> QED BY <1>4, <2>1 DEF ReasonerSourceVerdict, IsKept, IsDropped, None
<1> QED BY <1>4, <1>5, <1>6, WeightsAre

\* An engine that is not there serves nothing.
LEMMA IdleServesNothing == engine = Idle => EnginesServeTheOriginal /\ ReasonerServesBf16
<1>1. engine = Idle => engine.kind = None
  BY DEF Idle
<1> QED BY <1>1 DEF EnginesServeTheOriginal, ReasonerServesBf16, Serving, None

\* The same in the next state.
LEMMA IdleServesNothingNext == engine' = Idle => EnginesServeTheOriginal' /\ ReasonerServesBf16'
<1>1. (engine = Idle => EnginesServeTheOriginal /\ ReasonerServesBf16)'
  BY IdleServesNothing, PTL
<1>2. Idle' = Idle
  BY DEF Idle, None, NoLabel
<1> QED BY <1>1, <1>2

\* The invariant of the commands is about their variables.
LEMMA MutationUnchanged ==
  ASSUME MutationInv, UNCHANGED mutvars
  PROVE  MutationInv'
<1>0. /\ file' = file /\ backup' = backup /\ tmp' = tmp /\ held' = held /\ todo' = todo
      /\ flags' = flags /\ outcome' = outcome /\ unbacked' = unbacked
  BY DEF mutvars, disk, command
<1>1. RestoreOps' = RestoreOps
  BY <1>0 DEF RestoreOps, Restored
<1>2. \A S : BackedUp(S)' <=> BackedUp(S)
  BY <1>0 DEF BackedUp
<1>3. (Clean' <=> Clean) /\ (Halfway' <=> Halfway)
  BY <1>0, <1>2 DEF Clean, Halfway
<1>4. (\A w : Good(w)' <=> Good(w)) /\ (MutatedAll' <=> MutatedAll)
  BY <1>0 DEF Good, MutatedAll
<1>5. (Settled' <=> Settled) /\ (Restoring' <=> Restoring)
  BY <1>0, <1>1, <1>3 DEF Settled, Restoring
<1>6. Preparing' <=> Preparing
  BY <1>0, <1>3, <1>4, StagesKept DEF Preparing
<1>7. Placing' <=> Placing
  BY <1>0, <1>2, <1>4, StagesKept DEF Placing
<1>8. Moving' <=> Moving
  BY <1>0, <1>2, <1>4, StagesKept DEF Moving
<1>9. Filling' <=> Filling
  BY <1>0, <1>2, <1>4, StagesKept DEF Filling
<1>10. DiskInv'
  BY <1>5, <1>6, <1>7, <1>8, <1>9 DEF MutationInv, DiskInv
<1>11. OutcomeInv' /\ FileTypeOK'
  BY <1>0, <1>4 DEF MutationInv, OutcomeInv, FileTypeOK
<1> QED BY <1>10, <1>11 DEF MutationInv

\* The payloads of the rewritten weights are those of the original and of the
\* source.
LEMMA NewPayloads ==
  /\ CheckByteIdentity(Hashes(OriginalWeights), Hashes(NewWeights))
  /\ \A t \in Added : NewWeights[t].data = "source"
<1>1. /\ DOMAIN Hashes(OriginalWeights) = {"mlp", "embed", "lm_head", "lm_head_scale"}
      /\ DOMAIN Hashes(NewWeights) = Names
  BY OriginalData, NewData DEF Hashes
<1>2. /\ Hashes(OriginalWeights)["mlp"] = "original" /\ Hashes(OriginalWeights)["embed"] = "original"
      /\ Hashes(NewWeights)["mlp"] = "original" /\ Hashes(NewWeights)["embed"] = "original"
  BY OriginalData, NewData DEF Hashes, Names, Tensor
<1>3. CheckByteIdentity(Hashes(OriginalWeights), Hashes(NewWeights))
  BY <1>1, <1>2 DEF CheckByteIdentity, DroppedLmHead, Added, Names
<1> QED BY <1>3, NewData DEF Added, Tensor

\* The new checkpoint passes the probe.
LEMMA NewCheckpointPasses ==
  ASSUME file.weights = NewWeights, file.config = NewConfig,
         file.quant = NewSidecars.quant, file.map = NewSidecars.map
  PROVE  ProbeOk(file)
<1>s. /\ NewSidecars.quant = [quant_lmhead |-> FALSE, n_quantized |-> 1]
      /\ NewSidecars.map = [dropped_action_keys |-> FALSE, n_weight_quantized |-> 1]
  <2>1. /\ Original.quant = [quant_lmhead |-> TRUE, n_quantized |-> 2]
        /\ Original.map = [dropped_action_keys |-> TRUE, n_weight_quantized |-> 2]
    BY DEF Original
  <2> QED BY <2>1 DEF NewSidecars, UpdatedSidecars
<1>1. \A name \in Files : file[name] \notin {Absent, Torn}
  <2>1. NewWeights \notin {Absent, Torn}
    BY ChangedReadable DEF Changed
  <2>2. /\ [quant_lmhead |-> FALSE, n_quantized |-> 1] \in [quant_lmhead : BOOLEAN, n_quantized : Nat]
        /\ [dropped_action_keys |-> FALSE, n_weight_quantized |-> 1]
           \in [dropped_action_keys : BOOLEAN, n_weight_quantized : Nat]
        /\ [action_gen |-> TRUE] \in [action_gen : BOOLEAN]
    OBVIOUS
  <2>3. NewSidecars.quant \in Contents /\ NewSidecars.map \in Contents /\ NewConfig \in Contents
    BY <1>s, <2>2, Zenon DEF Contents, NewConfig
  <2> QED BY <2>1, <2>3, MutationAssumption DEF Files
<1>2. CheckActionSet(NewWeights)
  BY NewData DEF CheckActionSet, Names, Tensor
<1>3. CheckInv7Structure(NewWeights)
  BY NewData DEF CheckInv7Structure, Quantized, Names, Tensor
<1>4. CheckQuantizedCount(NewWeights, NewSidecars.quant)
  <2>1. {t \in DOMAIN NewWeights : NewWeights[t].dtype = "F8"} = {"mlp"}
    BY NewData DEF Names, Tensor
  <2>2. Cardinality({"mlp"}) = 1
    BY FS_Singleton
  <2>3. NewSidecars.quant.n_quantized = 1
    BY <1>s
  <2> QED BY <2>1, <2>2, <2>3 DEF CheckQuantizedCount
<1>5. CheckSidecars(NewConfig, NewSidecars.quant, NewSidecars.map)
  BY <1>s DEF CheckSidecars, NewConfig
<1> QED BY <1>1, <1>2, <1>3, <1>4, <1>5 DEF ProbeOk

-------------------------------------------------------------------------------
(* The theorems.                                                           *)

\* Nothing runs while an engine serves what is on the disk.
ToolInv ==
  /\ MutationInv /\ CopyInv
  /\ EnginesServeTheOriginal /\ ReasonerServesBf16

\* It holds at the start.
LEMMA ToolInitially == ToolInit => ToolInv
<1> SUFFICES ASSUME ToolInit PROVE ToolInv
  OBVIOUS
<1>1. MutationInv
  <2>1. FileTypeOK
    BY OriginalIs DEF ToolInit, MutationInit, FileTypeOK
  <2>2. Clean
    BY DEF ToolInit, MutationInit, Clean, BackedUp
  <2> QED BY <2>1, <2>2 DEF ToolInit, MutationInit, MutationInv, DiskInv, Settled, OutcomeInv
<1>2. CopyInv
  BY DEF ToolInit, CopyInit, CopyInv, NextEntry, InventoryIsComplete
<1>3. EnginesServeTheOriginal /\ ReasonerServesBf16
  BY IdleServesNothing DEF ToolInit, LoadInit
<1> QED BY <1>1, <1>2, <1>3 DEF ToolInv

\* And whatever runs, or is loaded, keeps it.
LEMMA ToolKeeps == ToolInv /\ [ToolNext]_toolvars => ToolInv'
<1> SUFFICES ASSUME ToolInv, [ToolNext]_toolvars PROVE ToolInv'
  OBVIOUS
<1>1. CASE RunsMutation
  <2>1. MutationInv' /\ engine' = Idle
    BY <1>1, MutationKeeps DEF ToolInv, RunsMutation
  <2>2. CopyInv'
    BY <1>1 DEF ToolInv, RunsMutation, copyvars, result, CopyInv, InventoryIsComplete
  <2> QED BY <2>1, <2>2, IdleServesNothingNext DEF ToolInv
<1>2. CASE RunsCopy
  <2>1. CopyInv' /\ engine' = Idle
    BY <1>2, CopyKeeps DEF ToolInv, RunsCopy
  <2>2. MutationInv'
    BY <1>2, MutationUnchanged DEF ToolInv, RunsCopy
  <2> QED BY <2>1, <2>2, IdleServesNothingNext DEF ToolInv
<1>3. CASE LoadNext \/ UNCHANGED toolvars
  <2>0. UNCHANGED <<mutvars, copyvars>>
    BY <1>3 DEF LoadNext, LoadsOracle, LoadsAction, LoadsReasoner, Loads, Unloads, toolvars
  <2>1. MutationInv' /\ CopyInv' /\ file' = file
    <3>1. MutationInv'
      BY <2>0, MutationUnchanged DEF ToolInv
    <3>2. CopyInv'
      BY <2>0 DEF ToolInv, copyvars, result, CopyInv, InventoryIsComplete
    <3> QED BY <2>0, <3>1, <3>2 DEF mutvars, disk
  <2>2. ASSUME NEW label \in Labels, LoadsOracle(label)
        PROVE  EnginesServeTheOriginal' /\ ReasonerServesBf16'
    <3>1. engine' = [kind |-> "oracle", from |-> "own", label |-> label,
                     refused |-> BuildOracle(file, label)]
      BY <2>2 DEF LoadsOracle, Loads
    <3>2. engine'.kind = "oracle" /\ engine'.label = label
          /\ engine'.refused = BuildOracle(file, label)
      BY <3>1
    <3>3. BuildOracle(file, label) = None =>
            file = Original /\ label.layout = PrecisionFromQuantConfig(label.recipe)
      BY OracleLoads DEF ToolInv
    <3> QED BY <2>1, <3>2, <3>3 DEF EnginesServeTheOriginal, ReasonerServesBf16, Serving
  <2>3. ASSUME NEW dir \in ActionDirs, NEW label \in Labels, LoadsAction(dir, label)
        PROVE  EnginesServeTheOriginal' /\ ReasonerServesBf16'
    <3>1. engine' = [kind |-> "action", from |-> dir, label |-> label,
                     refused |-> BuildActionEngine(file, dir, label)]
      BY <2>3 DEF LoadsAction, Loads
    <3>2. engine'.kind = "action" /\ engine'.label = label /\ engine'.from = dir
          /\ engine'.refused = BuildActionEngine(file, dir, label)
      BY <3>1
    <3>3. BuildActionEngine(file, dir, label) = None =>
            file = Original /\ label.layout = PrecisionFromQuantConfig(label.recipe) /\ dir = "override"
      BY ActionLoads DEF ToolInv
    <3> QED BY <2>1, <3>2, <3>3 DEF EnginesServeTheOriginal, ReasonerServesBf16, Serving
  <2>4. ASSUME NEW dir \in ReasonerDirs, NEW dtype \in {"bfloat16", "float16"},
               LoadsReasoner(dir, dtype)
        PROVE  EnginesServeTheOriginal' /\ ReasonerServesBf16'
    <3>1. engine' = [kind |-> "reasoner", from |-> dir, label |-> NoLabel,
                     refused |-> BuildReasoner(file, dir, dtype)]
      BY <2>4 DEF LoadsReasoner, Loads
    <3>2. engine'.kind = "reasoner" /\ engine'.from = dir
          /\ engine'.refused = BuildReasoner(file, dir, dtype)
      BY <3>1
    <3>3. BuildReasoner(file, dir, dtype) = None => dir = "base"
      BY ReasonerLoads DEF ToolInv
    <3> QED BY <3>2, <3>3 DEF EnginesServeTheOriginal, ReasonerServesBf16, Serving
  <2>5. CASE Unloads
    BY <2>1, <2>5, IdleServesNothingNext DEF Unloads, ToolInv
  <2>6. CASE UNCHANGED toolvars
    BY <2>1, <2>6 DEF ToolInv, toolvars, EnginesServeTheOriginal, ReasonerServesBf16, Serving
  <2> QED BY <1>3, <2>1, <2>2, <2>3, <2>4, <2>5, <2>6 DEF LoadNext, ToolInv
<1> QED BY <1>1, <1>2, <1>3 DEF ToolNext

\* What follows from it.
LEMMA ToolInvariant == ToolSpec => []ToolInv
BY ToolInitially, ToolKeeps, PTL DEF ToolSpec

\* Whatever commands die where and whatever is run after them, every original
\* file is there, in its place or as its backup, until a mutation without backups.
THEOREM OriginalsAlwaysSurvive == ToolSpec => []OriginalsSurvive
<1>1. ToolInv => OriginalsSurvive
  <2> SUFFICES ASSUME ToolInv, ~unbacked PROVE \A f \in Files : Original[f] \in {file[f], backup[f]}
    BY DEF OriginalsSurvive
  <2> QED BY Recoverable DEF ToolInv, MutationInv, Clean, Halfway
<1> QED BY <1>1, ToolInvariant, PTL

\* A restore that says it is done has brought every file back.
THEOREM RestoresUndo == ToolSpec => []RestoreUndoes
<1>1. ToolInv => RestoreUndoes
  BY DEF ToolInv, MutationInv, OutcomeInv, RestoreUndoes
<1> QED BY <1>1, ToolInvariant, PTL

\* A verified mutation that reports success passes the integrity probe.
THEOREM MutationsPassTheProbe == ToolSpec => []MutationPassesProbe
<1>1. ToolInv => MutationPassesProbe
  <2> SUFFICES ASSUME ToolInv, outcome = "mutated", flags.verify
               PROVE  /\ ProbeOk(file)
                      /\ CheckByteIdentity(Hashes(OriginalWeights), Hashes(file.weights))
                      /\ \A t \in Added : file.weights[t].data = "source"
    BY DEF MutationPassesProbe
  <2>1. /\ file.weights = NewWeights /\ file.config = NewConfig
        /\ file.quant = NewSidecars.quant /\ file.map = NewSidecars.map
    BY DEF ToolInv, MutationInv, OutcomeInv, MutatedAll, Good
  <2>2. ProbeOk(file)
    BY <2>1, NewCheckpointPasses
  <2> QED BY <2>1, <2>2, NewPayloads
<1> QED BY <1>1, ToolInvariant, PTL

\* A report without problems means that all of the inventory is there and real.
THEOREM InventoryCompletes == ToolSpec => []InventoryIsComplete
<1>1. ToolInv => InventoryIsComplete
  BY DEF ToolInv, CopyInv
<1> QED BY <1>1, ToolInvariant, PTL

\* The diffusers engines serve only the original checkpoint, under the precision
\* it declares, the action engine with adapters from elsewhere.
THEOREM OnlyTheOriginalIsServed == ToolSpec => []EnginesServeTheOriginal
<1>1. ToolInv => EnginesServeTheOriginal
  BY DEF ToolInv
<1> QED BY <1>1, ToolInvariant, PTL

\* The reasoner never serves this checkpoint.
THEOREM OnlyBf16Reasons == ToolSpec => []ReasonerServesBf16
<1>1. ToolInv => ReasonerServesBf16
  BY DEF ToolInv
<1> QED BY <1>1, ToolInvariant, PTL

===============================================================================
