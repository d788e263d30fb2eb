------------------------------ MODULE TensorIR ------------------------------
(***************************************************************************)
(* Tensor IR and the optimising half of compile(): a function is lowered   *)
(* op by op, then fusion, dead-code elimination and tiling rewrite it in   *)
(* place.  One action per op a pass visits, since every pass reads counts  *)
(* or positions that its own earlier rewrites have changed.                *)
(*                                                                         *)
(* An op is named by its pointer, a number that it keeps while its place   *)
(* in the list and its id change.  Scratchpad bytes are counted in tiles.  *)
(***************************************************************************)
EXTENDS Integers, FiniteSets, Sequences

CONSTANTS
  kTileDim,         \* the edge of a tile
  Kinds,            \* the source-level operations a program may use
  LoadShapes,       \* the shapes of its inputs and literals
  MaxOps,           \* the ops a program may be lowered to (bounds TLC)
  MaxPrints,        \* its print statements (bounds TLC)
  Configs,          \* the pass configurations, [fusion, tiling]
  ScratchpadTiles   \* scratchpadBytes / kTileBytes

LeafKinds   == {"Load", "Const"}
UnaryKinds  == {"Relu", "Transpose", "Softmax", "ScalarMul"}
BinaryKinds == {"Add", "Sub", "MatMul"}

ASSUME IRAssumption ==
  /\ kTileDim \in Nat \ {0}
  /\ Kinds \subseteq LeafKinds \cup UnaryKinds \cup BinaryKinds
  /\ LoadShapes \subseteq [batch: Nat \ {0}, rows: Nat \ {0}, cols: Nat \ {0}]
  /\ MaxOps \in Nat /\ MaxPrints \in Nat /\ ScratchpadTiles \in Nat
  /\ Configs \subseteq [fusion: BOOLEAN, tiling: BOOLEAN]

VARIABLES
  config,     \* PipelineOptions
  stage,      \* where compile() is
  heap,       \* the ops alive, by pointer
  ops,        \* TensorFunction::ops_
  cursor,     \* the position a sweep has reached
  uses,       \* runFusionPass's use counts
  live,       \* runDeadCodeElimination's live set
  consumers,  \* runTilingPass's snapshot, those still to visit
  owner,      \* the consumer being visited, or Nobody
  cands,      \* its candidates not yet tried
  used,       \* the scratchpad it has used so far
  staged,     \* TilingReport::staged, with the `owners` list beside it
  meaning     \* history: what the function printed when it was lowered

fn         == <<heap, ops>>
tilingVars == <<consumers, owner, cands, used, staged>>
vars       == <<config, stage, fn, cursor, uses, live, tilingVars, meaning>>

Nobody == 0

Stage == {"lower", "fuse", "mark", "tile", "done"}

-----------------------------------------------------------------------------
(* The op list.                                                            *)

\* f with the value v at x; and the elements of `list` in `set`, in their order.
put(f, x, v) == [y \in DOMAIN f \cup {x} |-> IF y = x THEN v ELSE f[y]]

keep(list, set) ==
  LET at == {k \in 1 .. Len(list) : list[k] \in set}
      place(k) == Cardinality({j \in at : j <= k})
  IN [n \in 1 .. Cardinality(at) |-> list[CHOOSE k \in at : place(k) = n]]

Ops == {ops[k] : k \in 1 .. Len(ops)}

\* A pointer no op alive has: those of erased ops are used again.
Fresh(taken) == CHOOSE p \in 1 .. 1 + Cardinality(taken) : p \notin taken
PositionOf(p) == CHOOSE k \in 1 .. Len(ops) : ops[k] = p

newOp(kind, shape, operands, id) ==
  [kind |-> kind, shape |-> shape, operands |-> operands, id |-> id,
   fusible |-> TRUE, scratchOffset |-> -1]

addOp(kind, shape, operands) ==
  LET p == Fresh(DOMAIN heap) IN
    /\ heap' = put(heap, p, newOp(kind, shape, operands, Len(ops)))
    /\ ops' = Append(ops, p)

\* h with the ids of the ops in `list` made their positions, from 0.
renumber(h, list) ==
  [p \in DOMAIN h |->
     IF \E k \in 1 .. Len(list) : list[k] = p
     THEN [h[p] EXCEPT !.id = (CHOOSE k \in 1 .. Len(list) : list[k] = p) - 1]
     ELSE h[p]]

useCount(p) ==
  Cardinality({use \in Ops \X (1 .. 3) :
                 /\ use[2] <= Len(heap[use[1]].operands)
                 /\ heap[use[1]].operands[use[2]] = p})

-----------------------------------------------------------------------------
(* What a function prints: interpret(), with values as terms.  A term is   *)
(* <<operator, leaf, arguments>>; the arguments of a sum have no order.    *)
(* Rounding is left out: FusedMatMulAcc adds the partial products onto the *)
(* bias, MatMul then Add adds it last, hence the tolerance of samePrints.  *)

Leaf(kind, p)     == <<kind, p, {}>>
Sum(a, b)         == <<"Add", 0, {<<0, a>>, <<0, b>>}>>
Apply(kind, args) == <<kind, 0, {<<i, args[i]>> : i \in 1 .. Len(args)}>>

isMatMulFamily(kind) ==
  kind \in {"MatMul", "TiledMatMul", "FusedMatMulRelu", "FusedMatMulAcc"}

\* A third operand is accumulated, whichever of the family the op is.
matMulValue(kind, args) ==
  LET product == Apply("MatMul", SubSeq(args, 1, 2))
      sum == IF Len(args) = 3 THEN Sum(product, args[3]) ELSE product
  IN IF kind = "FusedMatMulRelu" THEN Apply("Relu", <<sum>>) ELSE sum

valueOf(h, p, args) ==
  LET kind == h[p].kind IN
  CASE kind \in LeafKinds -> Leaf(kind, p)
    [] kind = "Add" -> Sum(args[1], args[2])
    [] isMatMulFamily(kind) -> matMulValue(kind, args)
    [] kind \in {"ScratchStore", "ScratchLoad", "Print"} -> args[1]
    [] kind = "ScalarMul" -> <<kind, p, {<<1, args[1]>>}>>
    [] OTHER -> Apply(kind, args)

\* The operands of p among the values so far; one without a value is Undefined.
Undefined == <<"Undefined", 0, {}>>

argsOf(h, p, before) ==
  [i \in 1 .. Len(h[p].operands) |->
     IF h[p].operands[i] \in DOMAIN before THEN before[h[p].operands[i]] ELSE Undefined]

\* The ops in the order of the list, each valued once.
valuesOf(list, h) ==
  LET values[n \in 0 .. Len(list)] ==
        IF n = 0 THEN << >>
        ELSE LET before == values[n - 1] IN
             put(before, list[n], valueOf(h, list[n], argsOf(h, list[n], before)))
  IN values[Len(list)]

printsOf(list, h) == keep(list, {p \in DOMAIN h : h[p].kind = "Print"})

interpretation(list, h) ==
  LET all == valuesOf(list, h)
      shown == printsOf(list, h)
  IN [k \in 1 .. Len(shown) |-> [shape |-> h[shown[k]].shape, value |-> all[shown[k]]]]

interpret == interpretation(ops, heap)

-----------------------------------------------------------------------------
(* Lowering.  A checked program is a sequence of ops over earlier values:  *)
(* names and nesting decide no more than which values are at hand.         *)

Init ==
  /\ config \in Configs
  /\ stage = "lower"
  /\ heap = << >> /\ ops = << >> /\ meaning = << >>
  /\ cursor = 0 /\ uses = << >> /\ live = {}
  /\ consumers = << >> /\ owner = Nobody /\ cands = {} /\ used = 0 /\ staged = << >>

isBatchCompatible(a, b) == a = b \/ a = 1 \/ b = 1
resolveBatch(a, b) == IF a = 1 THEN b ELSE a

\* The shapes a checked operation may have: one, or none if it is rejected.
binaryShapes(kind, s, t) ==
  {shape \in {[batch |-> resolveBatch(s.batch, t.batch), rows |-> s.rows, cols |-> t.cols]} :
     /\ isBatchCompatible(s.batch, t.batch)
     /\ IF kind = "MatMul" THEN s.cols = t.rows ELSE s.rows = t.rows /\ s.cols = t.cols}

unaryShape(kind, s) ==
  IF kind = "Transpose" THEN [s EXCEPT !.rows = s.cols, !.cols = s.rows] ELSE s

Results == {p \in Ops : heap[p].kind # "Print"}
Prints  == {p \in Ops : heap[p].kind = "Print"}

\* A factor of `*`, read at compile time: its Const op is left without a use.
constantScalar(c) ==
  heap[c].kind = "Const" /\ heap[c].shape = [batch |-> 1, rows |-> 1, cols |-> 1]

Lowering ==
  /\ stage = "lower"
  /\ UNCHANGED <<config, stage, cursor, uses, live, tilingVars, meaning>>

LowerLeaf ==
  /\ Lowering /\ Cardinality(Results) < MaxOps
  /\ \E kind \in Kinds \cap LeafKinds, shape \in LoadShapes : addOp(kind, shape, << >>)

LowerUnary ==
  /\ Lowering /\ Cardinality(Results) < MaxOps
  /\ \E kind \in Kinds \cap UnaryKinds, p \in Results :
       /\ kind = "ScalarMul" => \E c \in Results : constantScalar(c)
       /\ addOp(kind, unaryShape(kind, heap[p].shape), <<p>>)

LowerBinary ==
  /\ Lowering /\ Cardinality(Results) < MaxOps
  /\ \E kind \in Kinds \cap BinaryKinds, p, q \in Results :
       \E shape \in binaryShapes(kind, heap[p].shape, heap[q].shape) :
         addOp(kind, shape, <<p, q>>)

LowerPrint ==
  /\ Lowering /\ Cardinality(Prints) < MaxPrints
  /\ \E p \in Results : addOp("Print", heap[p].shape, <<p>>)

\* frontEnd() returns; compile() goes on with the first pass it is to run.
FinishLowering ==
  /\ stage = "lower"
  /\ meaning' = interpret
  /\ IF config.fusion
     THEN stage' = "fuse" /\ cursor' = 1 /\ uses' = [p \in DOMAIN heap |-> useCount(p)]
     ELSE stage' = "mark" /\ cursor' = Len(ops) /\ UNCHANGED uses
  /\ UNCHANGED <<config, fn, live, tilingVars>>

-----------------------------------------------------------------------------
(* runFusionPass: one action per op of the sweep.                          *)

Current == ops[cursor]
Operand(p, i) == heap[p].operands[i]

\* Mutant: adjacency is enough, whoever else uses the intermediate value.
AnyUse(p) == p \in DOMAIN uses

\* By the counts taken before the pass began.
SoleUse(p) == uses[p] = 1

\* op becomes the fused kind, and the op it absorbs dead code.
Absorb(op, kind, producer, operands) ==
  heap' = [heap EXCEPT ![op].kind = kind, ![op].operands = operands,
                       ![producer].fusible = FALSE]

Fusing ==
  /\ stage = "fuse" /\ cursor <= Len(ops)
  /\ cursor' = cursor + 1
  /\ UNCHANGED <<config, stage, ops, uses, live, tilingVars, meaning>>

ReluAbsorbs ==
  /\ heap[Current].kind = "Relu"
  /\ heap[Operand(Current, 1)].kind \in {"MatMul", "FusedMatMulAcc"}
  /\ SoleUse(Operand(Current, 1))

\* Mutant: the fused op takes over the factors and forgets the bias.
FuseReluDropsBias ==
  /\ Fusing /\ ReluAbsorbs
  /\ LET producer == Operand(Current, 1) IN
       Absorb(Current, "FusedMatMulRelu", producer, SubSeq(heap[producer].operands, 1, 2))

FuseRelu ==
  /\ Fusing /\ ReluAbsorbs
  /\ LET producer == Operand(Current, 1) IN
       Absorb(Current, "FusedMatMulRelu", producer, heap[producer].operands)

\* Mutant: only the left operand of a sum is tried.
LeftAddAbsorbs(side) ==
  /\ side = 1
  /\ heap[Current].kind = "Add"
  /\ heap[Operand(Current, 1)].kind = "MatMul"
  /\ SoleUse(Operand(Current, 1))

AddAbsorbs(side) ==
  /\ heap[Current].kind = "Add"
  /\ heap[Operand(Current, side)].kind = "MatMul"
  /\ SoleUse(Operand(Current, side))
  /\ Operand(Current, 3 - side) # Operand(Current, side)

\* The left operand is tried first.
FuseAcc ==
  /\ Fusing
  /\ \E side \in {1, 2} :
       /\ AddAbsorbs(side) /\ (side = 2 => ~AddAbsorbs(1))
       /\ LET producer == Operand(Current, side) IN
            Absorb(Current, "FusedMatMulAcc", producer,
                   heap[producer].operands \o <<Operand(Current, 3 - side)>>)

KeepOp ==
  /\ Fusing
  /\ ~ReluAbsorbs /\ ~AddAbsorbs(1) /\ ~AddAbsorbs(2)
  /\ UNCHANGED heap

FinishFusion ==
  /\ stage = "fuse" /\ cursor > Len(ops)
  /\ stage' = "mark" /\ cursor' = Len(ops)
  /\ UNCHANGED <<config, fn, uses, live, tilingVars, meaning>>

-----------------------------------------------------------------------------
(* runDeadCodeElimination: a reverse sweep that marks, then one erasure.   *)

OperandSet(p) == {Operand(p, i) : i \in 1 .. Len(heap[p].operands)}

\* Mutant: only what a Print reads directly is marked.
MarkPrintsOnly(p) ==
  IF heap[p].kind = "Print" THEN live \cup OperandSet(p) \cup {p} ELSE live

marked(p) ==
  IF heap[p].kind = "Print" THEN live \cup OperandSet(p) \cup {p}
  ELSE IF p \in live THEN live \cup OperandSet(p)
  ELSE live

Mark ==
  /\ stage = "mark" /\ cursor > 0
  /\ live' = marked(Current)
  /\ cursor' = cursor - 1
  /\ UNCHANGED <<config, stage, fn, uses, tilingVars, meaning>>

\* Mutant: eraseIf without renumber.
EraseKeepsIds(kept) == [p \in {kept[k] : k \in 1 .. Len(kept)} |-> heap[p]]

erased(kept) == renumber([p \in {kept[k] : k \in 1 .. Len(kept)} |-> heap[p]], kept)

\* eraseIf(not live), after which compile() tiles the function or is done.
Erase ==
  /\ stage = "mark" /\ cursor = 0
  /\ ops' = keep(ops, live)
  /\ heap' = erased(keep(ops, live))
  /\ IF config.tiling
     THEN stage' = "tile"
          /\ consumers' = keep(ops, {p \in live : isMatMulFamily(heap[p].kind)})
     ELSE stage' = "done" /\ UNCHANGED consumers
  /\ UNCHANGED <<config, cursor, uses, live, owner, cands, used, staged, meaning>>

-----------------------------------------------------------------------------
(* runTilingPass: each consumer in turn, its candidates best first.        *)

tilesOf(n) == (n + kTileDim - 1) \div kTileDim
tiles(shape) == shape.batch * tilesOf(shape.rows) * tilesOf(shape.cols)

\* Mutant: a broadcast operand is taken to be read once per block.
UsesWithoutBroadcast(p, i) ==
  IF i = 1 THEN tilesOf(heap[p].shape.cols) ELSE tilesOf(heap[p].shape.rows)

\* How often each tile of operand i is read: once per block of the result
\* across it, and once per batch when it is broadcast.
usesPerTile(p, i) ==
  LET out == heap[p].shape
      blocks == IF i = 1 THEN tilesOf(out.cols) ELSE tilesOf(out.rows)
  IN blocks * (IF heap[Operand(p, i)].shape.batch = 1 THEN out.batch ELSE 1)

\* The tiles of operand i: rows of blocks by depth, or depth by columns.
operandTiles(p, i) ==
  LET depth == tilesOf(heap[Operand(p, 1)].shape.cols)
      blocks == IF i = 1 THEN tilesOf(heap[p].shape.rows) ELSE tilesOf(heap[p].shape.cols)
  IN heap[Operand(p, i)].shape.batch * blocks * depth

candidate(p, i) ==
  [operandIndex |-> i, tiles |-> operandTiles(p, i), uses |-> usesPerTile(p, i)]

saved(c) == c.tiles * (c.uses - 1)

Tiling ==
  /\ stage = "tile"
  /\ UNCHANGED <<config, cursor, uses, live, meaning>>

isMultiTile(p) ==
  tilesOf(heap[p].shape.rows) * tilesOf(heap[p].shape.cols)
    * tilesOf(heap[Operand(p, 1)].shape.cols) > 1

VisitConsumer ==
  /\ Tiling /\ owner = Nobody /\ consumers # << >>
  /\ LET p == Head(consumers) IN
       /\ owner' = p /\ consumers' = Tail(consumers) /\ used' = 0
       /\ heap' = IF heap[p].kind = "MatMul" /\ isMultiTile(p)
                  THEN [heap EXCEPT ![p].kind = "TiledMatMul"] ELSE heap
       /\ cands' = {c \in {candidate(p, i) : i \in {1, 2}} : c.uses > 1}
  /\ UNCHANGED <<stage, ops, staged>>

\* The candidates std::sort may put first: equals have no order.
Best == {c \in cands : \A d \in cands : saved(d) <= saved(c)}

\* Mutant: operands are weighed one by one, not together.
FitsAlone(c) == c.tiles <= ScratchpadTiles

Fits(c) == used + c.tiles <= ScratchpadTiles

\* Mutant: every operand is staged at offset 0.
StageAtZero(c) == [newOp("ScratchStore", heap[Operand(owner, c.operandIndex)].shape,
                         <<Operand(owner, c.operandIndex)>>, 0) EXCEPT !.scratchOffset = 0]

\* The store that copies a candidate operand, after what is staged already.
storeFor(c) == [newOp("ScratchStore", heap[Operand(owner, c.operandIndex)].shape,
                      <<Operand(owner, c.operandIndex)>>, 0) EXCEPT !.scratchOffset = used]

\* Mutant: the load replaces the other operand of the consumer.
SwappedIndex(c) == 3 - c.operandIndex

ReplacedIndex(c) == c.operandIndex

\* Two insertOpBefore: the store, then the load that the consumer now reads.
StageOperand ==
  /\ Tiling /\ owner # Nobody
  /\ \E c \in Best :
       /\ Fits(c)
       /\ LET store == Fresh(DOMAIN heap)
              load == Fresh(DOMAIN heap \cup {store})
              at == PositionOf(owner)
              list == SubSeq(ops, 1, at - 1) \o <<store, load>> \o SubSeq(ops, at, Len(ops))
              loadOp == newOp("ScratchLoad", storeFor(c).shape, <<store>>, 0)
              read == [heap EXCEPT ![owner].operands[ReplacedIndex(c)] = load]
          IN /\ ops' = list
             /\ heap' = renumber(put(put(read, store, storeFor(c)), load, loadOp), list)
       /\ used' = used + c.tiles
       /\ cands' = cands \ {c}
       /\ staged' = Append(staged, [owner |-> owner, consumerId |-> -1, of |-> c])
  /\ UNCHANGED <<stage, consumers, owner>>

SkipOperand ==
  /\ Tiling /\ owner # Nobody
  /\ \E c \in Best : ~Fits(c) /\ cands' = cands \ {c}
  /\ UNCHANGED <<stage, fn, consumers, owner, used, staged>>

LeaveConsumer ==
  /\ Tiling /\ owner # Nobody /\ cands = {}
  /\ owner' = Nobody
  /\ UNCHANGED <<stage, fn, consumers, cands, used, staged>>

\* Mutant: the report names each consumer by its place before tiling.
IdsBeforeTiling(d) == heap[d.owner].id - 2 * Len(staged)

\* Ids are final only once nothing more is inserted.
finalId(d) == heap[d.owner].id

FinishTiling ==
  /\ Tiling /\ owner = Nobody /\ consumers = << >>
  /\ staged' = [k \in 1 .. Len(staged) |->
                  [staged[k] EXCEPT !.consumerId = finalId(staged[k])]]
  /\ stage' = "done"
  /\ UNCHANGED <<fn, consumers, owner, cands, used>>

-----------------------------------------------------------------------------
Lower == LowerLeaf \/ LowerUnary \/ LowerBinary \/ LowerPrint \/ FinishLowering
Fuse  == FuseRelu \/ FuseAcc \/ KeepOp \/ FinishFusion
Prune == Mark \/ Erase
Tile  == VisitConsumer \/ StageOperand \/ SkipOperand \/ LeaveConsumer \/ FinishTiling

\* compile() returned; the code generator reads the function.
Compiled == stage = "done" /\ UNCHANGED vars

Next == Lower \/ Fuse \/ Prune \/ Tile \/ Compiled

Spec == Init /\ [][Next]_vars

-----------------------------------------------------------------------------
(* Properties.                                                             *)

TensorShape == [batch: Nat \ {0}, rows: Nat \ {0}, cols: Nat \ {0}]
FusedKinds  == {"FusedMatMulRelu", "FusedMatMulAcc"}
OpKinds     == LeafKinds \cup UnaryKinds \cup BinaryKinds \cup FusedKinds
                 \cup {"Print", "TiledMatMul", "ScratchLoad", "ScratchStore"}

IRTypeOK ==
  /\ config \in Configs /\ stage \in Stage
  /\ \A p \in DOMAIN heap :
       /\ heap[p].kind \in OpKinds /\ heap[p].shape \in TensorShape
       /\ heap[p].id \in Nat /\ heap[p].fusible \in BOOLEAN
       /\ heap[p].scratchOffset \in -1 .. ScratchpadTiles - 1
  /\ Ops = DOMAIN heap /\ Len(ops) = Cardinality(Ops)
  /\ cursor \in 0 .. Len(ops) + 1
  /\ used \in 0 .. ScratchpadTiles
  /\ owner \in Ops \cup {Nobody}
  /\ \A k \in 1 .. Len(consumers) : consumers[k] \in Ops

(* Every op refers to earlier ops of the list only (TensorIR.h:180-184: "a  *)
(* standard SSA-like invariant, checked by tests rather than the type      *)
(* system"), and to none that eraseIf has freed, in every state of every   *)
(* pass: the passes rely on it to be right in one sweep.                   *)
SSAOrder ==
  \A k \in 1 .. Len(ops) :
    OperandSet(ops[k]) \subseteq {ops[j] : j \in 1 .. k - 1}

(* Ids are positions again after every erasure and insertion: the report   *)
(* of the tiling pass and the code generator's labels are built on them.   *)
IdsArePositions == \A k \in 1 .. Len(ops) : heap[ops[k]].id = k - 1

(* Fusion, elimination and tiling leave what the program prints alone, in  *)
(* value, shape and order, at every step: a fusion pass that over-fuses    *)
(* "silently changes what a program computes" (docs/tensor-ir.md:131-132). *)
PrintsPreserved == stage # "lower" => interpret = meaning

(* "The old MatMul op is dead code now" (FusionPass.cpp:45): an op that was *)
(* absorbed is never part of what is compiled, so no product is computed   *)
(* twice, although use counts are not updated as the sweep rewrites.       *)
AbsorbedOpsAreDead ==
  stage \in {"tile", "done"} => \A p \in Ops : heap[p].fusible

(* The sweep misses nothing (docs/tensor-ir.md:101-110): when it is over,  *)
(* no sum or relu reads a product that has no other use, unless that sum   *)
(* or relu was fused with the other of its operands.                       *)
FusionComplete ==
  stage = "mark" /\ config.fusion =>
    \A p \in Ops, i \in 1 .. 2 :
      heap[p].kind \in {"Relu", "Add"} /\ i <= Len(heap[p].operands) =>
        LET q == Operand(p, i) IN
          useCount(q) = 1 =>
            /\ heap[q].kind # "MatMul"
            /\ heap[p].kind = "Relu" => heap[q].kind # "FusedMatMulAcc"

\* The scratchpad tiles loadTile reads of what `store` staged.
Region(store) ==
  heap[store].scratchOffset .. heap[store].scratchOffset + tiles(heap[store].shape) - 1

(* What a consumer reads from the scratchpad is what was staged for it: it *)
(* lies inside the scratchpad, and no copy made between the staging and    *)
(* the consumer overwrites it, although every consumer packs its operands  *)
(* from offset 0 and copies are emitted at the place of their stores.      *)
StagingIntact ==
  \A p \in Ops, i \in 1 .. 3 :
    i <= Len(heap[p].operands) /\ heap[Operand(p, i)].kind = "ScratchLoad" =>
      LET store == Operand(Operand(p, i), 1) IN
        /\ Region(store) \subseteq 0 .. ScratchpadTiles - 1
        /\ \A k \in PositionOf(store) + 1 .. PositionOf(p) - 1 :
             heap[ops[k]].kind = "ScratchStore" =>
               Region(ops[k]) \cap Region(store) = {}

(* The report names, once tiling is over, the op that reads the staged     *)
(* operand, although every insertion renumbers the function.               *)
ReportNamesConsumer ==
  stage = "done" =>
    \A k \in 1 .. Len(staged) :
      LET p == ops[staged[k].consumerId + 1] IN
        /\ isMatMulFamily(heap[p].kind)
        /\ heap[Operand(p, staged[k].of.operandIndex)].kind = "ScratchLoad"

(* The report's counts are what the generated code does: its loop over     *)
(* batch, rows, columns and depth reads each operand once per iteration,   *)
(* and the tiles it copied are those of the staged value.                  *)
ReadsOf(p) ==
  heap[p].shape.batch * tilesOf(heap[p].shape.rows) * tilesOf(heap[p].shape.cols)
    * tilesOf(heap[Operand(p, 1)].shape.cols)

ReportCountsReads ==
  \A k \in 1 .. Len(staged) :
    LET d == staged[k] IN
      /\ d.of.tiles * d.of.uses = ReadsOf(d.owner)
      /\ d.of.tiles = tiles(heap[Operand(d.owner, d.of.operandIndex)].shape)
=============================================================================
