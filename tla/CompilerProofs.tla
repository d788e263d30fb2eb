---------------------------- MODULE CompilerProofs ----------------------------
(***************************************************************************)
(* Proofs about what compile() generates: which instructions, for every    *)
(* program, tile size and scratchpad.                                      *)
(*                                                                         *)
(*   IRLayers    the invariant of TensorIR, with a fifth layer: what an op *)
(*               reads, and in which shape;                                *)
(*   LoweringInv the ops built so far are a prefix of a checked program;   *)
(*   PhasesInv   what each phase of compile() leaves to the next;          *)
(*   LayoutInv   every buffer and constant tile lies in the data section,  *)
(*               no two of them overlap, and the words of a buffer outside *)
(*               its rows and columns are zero;                            *)
(*   TextInv     the text emitted so far follows the rules.                *)
(*                                                                         *)
(* The rules say what may be known before and after an instruction: which  *)
(* numbers are in the scalar registers, and which tiles, of the registers  *)
(* and of the scratchpad, are zero outside how many rows and columns.  The *)
(* code of every op is shown to follow them, tile by tile and loop by      *)
(* loop, and to leave to the next op what it was given.                    *)
(*                                                                         *)
(* The addresses of the data section are assumed to fit the immediate that *)
(* holds them (FitsInWords).                                               *)
(***************************************************************************)
EXTENDS Pipeline, TensorIRProofs

-----------------------------------------------------------------------------
(* The fifth layer of the invariant of TensorIR: which ops an op reads, and *)
(* in which shapes.                                                        *)

\* Operand i, of kind k and shape s, of an op of kind `kind` and shape `out`.
OperandAllowed(kind, out, i, k, s) ==
  /\ k # "Print"
  /\ k = "ScratchStore" <=> kind = "ScratchLoad"
  /\ kind = "Sub" \/ i = 3 =>
       s.rows = out.rows /\ s.cols = out.cols /\ Broadcasts(s, out)
  /\ kind \in {"ScalarMul", "Softmax", "Print", "ScratchStore", "ScratchLoad"} => s = out
  /\ kind = "Transpose" => s.batch = out.batch /\ s.rows = out.cols /\ s.cols = out.rows

OperandFits(h, p, i) ==
  OperandAllowed(h[p].kind, h[p].shape, i, h[h[p].operands[i]].kind, ShapeOf(h, p, i))

OperandsFit(h) == \A p \in DOMAIN h : \A i \in 1 .. Len(h[p].operands) : OperandFits(h, p, i)

OperandsInv == OperandsFit(heap)

\* What a checked program gives an operation.
LEMMA CheckedOperandsFit ==
  ASSUME NEW s \in TensorShape, NEW t \in TensorShape, NEW k, k # "Print", k # "ScratchStore"
  PROVE  /\ OperandAllowed("Print", s, 1, k, s)
         /\ \A kind \in UnaryKinds : OperandAllowed(kind, unaryShape(kind, s), 1, k, s)
         /\ \A kind \in BinaryKinds : \A out \in binaryShapes(kind, s, t) :
              OperandAllowed(kind, out, 1, k, s) /\ OperandAllowed(kind, out, 2, k, t)
<1>1. OperandAllowed("Print", s, 1, k, s)
  BY DEF OperandAllowed
<1>2. \A kind \in UnaryKinds : OperandAllowed(kind, unaryShape(kind, s), 1, k, s)
  <2>1. unaryShape("Transpose", s) = [s EXCEPT !.rows = s.cols, !.cols = s.rows]
    BY DEF unaryShape
  <2>2. /\ unaryShape("Transpose", s).batch = s.batch
        /\ unaryShape("Transpose", s).rows = s.cols /\ unaryShape("Transpose", s).cols = s.rows
    BY <2>1 DEF TensorShape
  <2> QED
    BY <2>2 DEF OperandAllowed, UnaryKinds, unaryShape
<1>3. ASSUME NEW kind \in BinaryKinds, NEW out \in binaryShapes(kind, s, t)
      PROVE  OperandAllowed(kind, out, 1, k, s) /\ OperandAllowed(kind, out, 2, k, t)
  <2>1. /\ out = [batch |-> resolveBatch(s.batch, t.batch), rows |-> s.rows, cols |-> t.cols]
        /\ isBatchCompatible(s.batch, t.batch)
        /\ IF kind = "MatMul" THEN s.cols = t.rows ELSE s.rows = t.rows /\ s.cols = t.cols
    BY DEF binaryShapes
  <2>2. out.rows = s.rows /\ out.cols = t.cols /\ out.batch = resolveBatch(s.batch, t.batch)
    BY <2>1
  <2>3. Broadcasts(s, out) /\ Broadcasts(t, out)
    BY <2>1, <2>2 DEF Broadcasts, resolveBatch, isBatchCompatible
  <2> QED
    BY <2>1, <2>2, <2>3 DEF OperandAllowed, BinaryKinds
<1> QED
  BY <1>1, <1>2, <1>3

\* An op's operand still fits if neither changes its shape or its sort.
LEMMA OperandCarriesOver ==
  ASSUME NEW h, NEW g, NEW p, NEW i, OperandFits(h, p, i),
         ShapeOf(g, p, i) = ShapeOf(h, p, i), g[p].shape = h[p].shape,
         \/ g[p].kind = h[p].kind
         \/ isMatMulFamily(g[p].kind) /\ isMatMulFamily(h[p].kind),
         \/ g[g[p].operands[i]].kind = h[h[p].operands[i]].kind
         \/ /\ h[h[p].operands[i]].kind \notin {"Print", "ScratchStore"}
            /\ g[g[p].operands[i]].kind \notin {"Print", "ScratchStore"}
  PROVE  OperandFits(g, p, i)
BY DEF OperandFits, OperandAllowed, isMatMulFamily

\* The op that fuses reads what the absorbed one read, and what it read itself.
LEMMA FuseKeepsOperands == IRInv /\ ShapesInv /\ OperandsInv /\ Fuse => OperandsInv'
<1> SUFFICES ASSUME IRInv, ShapesInv, OperandsInv, Fuse PROVE OperandsInv'
  OBVIOUS
<1>1. CASE KeepOp \/ FinishFusion
  BY <1>1 DEF KeepOp, FinishFusion, fn, OperandsInv
<1>2. CASE FuseRelu \/ FuseAcc
  <2>1. /\ stage = "fuse" /\ cursor <= Len(ops) /\ ops' = ops /\ FnInv
        /\ \A p \in DOMAIN heap : OpFits(heap, p)
        /\ \A p \in DOMAIN heap : \A i \in 1 .. Len(heap[p].operands) : OperandFits(heap, p, i)
    BY <1>2 DEF FuseRelu, FuseAcc, Fusing, IRInv, ShapesInv, ShapesFit, OperandsInv, OperandsFit
  <2>2. Current \in DOMAIN heap
    BY <1>2, <2>1, FusionShape
  <2>3. PICK producer \in DOMAIN heap :
          \/ /\ ReluAbsorbs /\ producer = Operand(Current, 1)
             /\ FusesTo(Current, "FusedMatMulRelu", producer, heap[producer].operands)
          \/ \E side \in {1, 2} :
               /\ AddAbsorbs(side) /\ producer = Operand(Current, side)
               /\ FusesTo(Current, "FusedMatMulAcc", producer,
                          heap[producer].operands \o <<Operand(Current, 3 - side)>>)
    BY <1>2, <2>1, FusionShape
  <2>4. PICK op \in DOMAIN heap : op = Current
    BY <2>2
  <2>5. /\ heap[producer].operands \in Seq(Pointer) /\ Len(heap[producer].operands) \in Nat
        /\ heap[producer].shape \in TensorShape /\ heap[op].shape \in TensorShape
        /\ \A p \in DOMAIN heap : \A i \in 1 .. Len(heap[p].operands) :
             heap[p].operands[i] \in DOMAIN heap
    <3>1. /\ heap[producer] \in OpRecord /\ heap[op].shape \in TensorShape
          /\ \A p \in DOMAIN heap : \A i \in 1 .. Len(heap[p].operands) :
               heap[p].operands[i] \in DOMAIN heap
      BY <2>1, FnFacts
    <3>2. heap[producer].operands \in Seq(Pointer) /\ heap[producer].shape \in TensorShape
      BY <3>1 DEF OpRecord
    <3> QED
      BY <3>1, <3>2
  <2>6. ASSUME NEW kind \in FusedKinds, NEW operands, FusesTo(op, kind, producer, operands),
               heap[op].kind \in {"Relu", "Add"},
               isMatMulFamily(heap[producer].kind),
               \A i \in 1 .. Len(operands) :
                 \/ /\ i \in {1, 2} /\ i \in 1 .. Len(heap[producer].operands)
                    /\ operands[i] = heap[producer].operands[i]
                 \/ /\ i = 3 /\ operands[i] \in DOMAIN heap
                    /\ heap[operands[i]].kind \notin {"Print", "ScratchStore"}
                    /\ heap[operands[i]].shape.rows = heap[op].shape.rows
                    /\ heap[operands[i]].shape.cols = heap[op].shape.cols
                    /\ Broadcasts(heap[operands[i]].shape, heap[op].shape)
        PROVE  OperandsInv'
    <3>1. /\ DOMAIN heap' = DOMAIN heap /\ \A p \in DOMAIN heap : heap'[p].shape = heap[p].shape
          /\ heap'[op].kind = kind /\ heap'[op].operands = operands
          /\ \A p \in DOMAIN heap : p # op =>
               heap'[p].kind = heap[p].kind /\ heap'[p].operands = heap[p].operands
      BY <2>6 DEF FusesTo
    <3>2. \A q \in DOMAIN heap : \/ heap'[q].kind = heap[q].kind
                                 \/ /\ heap[q].kind \notin {"Print", "ScratchStore"}
                                    /\ heap'[q].kind \notin {"Print", "ScratchStore"}
      BY <2>6, <3>1 DEF FusedKinds
    <3>3. ASSUME NEW p \in DOMAIN heap, p # op, NEW i \in 1 .. Len(heap[p].operands)
          PROVE  OperandFits(heap', p, i)
      <4>1. ShapeOf(heap', p, i) = ShapeOf(heap, p, i) /\ heap[p].operands[i] \in DOMAIN heap
        BY <2>5, <3>1, <3>3 DEF ShapeOf
      <4>2. OperandFits(heap, p, i)
        BY <2>1
      <4>3. /\ heap'[p].shape = heap[p].shape /\ heap'[p].kind = heap[p].kind
            /\ heap'[p].operands[i] = heap[p].operands[i]
        BY <3>1, <3>3
      <4> QED
        BY <3>2, <4>1, <4>2, <4>3, OperandCarriesOver
    <3>4. ASSUME NEW i \in 1 .. Len(operands)
          PROVE  OperandFits(heap', op, i)
      <4>1. kind \notin {"Sub", "ScratchLoad", "ScalarMul", "Softmax", "Print", "ScratchStore",
                         "Transpose"}
        BY DEF FusedKinds
      <4>2. CASE /\ i \in {1, 2} /\ i \in 1 .. Len(heap[producer].operands)
                 /\ operands[i] = heap[producer].operands[i]
        <5>1. OperandFits(heap, producer, i) /\ heap[producer].operands[i] \in DOMAIN heap
          BY <2>1, <2>5, <4>2
        <5>2. heap[operands[i]].kind \notin {"Print", "ScratchStore"} /\ operands[i] \in DOMAIN heap
          BY <2>6, <4>2, <5>1 DEF OperandFits, OperandAllowed, isMatMulFamily
        <5>3. heap'[operands[i]].kind \notin {"Print", "ScratchStore"} /\ i # 3
          BY <3>2, <4>2, <5>2
        <5> QED
          BY <3>1, <4>1, <5>3 DEF OperandFits, OperandAllowed
      <4>3. CASE /\ i = 3 /\ operands[i] \in DOMAIN heap
                 /\ heap[operands[i]].kind \notin {"Print", "ScratchStore"}
                 /\ heap[operands[i]].shape.rows = heap[op].shape.rows
                 /\ heap[operands[i]].shape.cols = heap[op].shape.cols
                 /\ Broadcasts(heap[operands[i]].shape, heap[op].shape)
        <5>1. heap'[operands[i]].kind \notin {"Print", "ScratchStore"}
          BY <3>2, <4>3
        <5>2. ShapeOf(heap', op, i) = heap[operands[i]].shape
          BY <3>1, <4>3 DEF ShapeOf
        <5> QED
          BY <3>1, <4>1, <4>3, <5>1, <5>2 DEF OperandFits, OperandAllowed
      <4> QED
        BY <2>6, <4>2, <4>3
    <3> QED
      BY <3>1, <3>3, <3>4 DEF OperandsInv, OperandsFit
  <2>7. CASE /\ ReluAbsorbs /\ producer = Operand(Current, 1)
             /\ FusesTo(Current, "FusedMatMulRelu", producer, heap[producer].operands)
    <3>1. heap[op].kind = "Relu" /\ heap[op].operands[1] = producer
      BY <2>4, <2>7 DEF ReluAbsorbs, Operand
    <3>2. heap[producer].shape = heap[op].shape
      BY <2>1, <3>1 DEF OpFits, ShapesAllowed, ShapeOf
    <3>3. isMatMulFamily(heap[producer].kind) /\ Len(heap[producer].operands) \in {2, 3}
      <4>1. isMatMulFamily(heap[producer].kind)
        BY <2>7 DEF ReluAbsorbs, isMatMulFamily
      <4> QED
        BY <2>1, <4>1, ArityOf
    <3>4. FusesTo(op, "FusedMatMulRelu", producer, heap[producer].operands)
      BY <2>4, <2>7
    <3>5. ASSUME NEW i \in 1 .. Len(heap[producer].operands), i = 3
          PROVE  LET q == heap[producer].operands[i] IN
                 /\ q \in DOMAIN heap /\ heap[q].kind \notin {"Print", "ScratchStore"}
                 /\ heap[q].shape.rows = heap[op].shape.rows
                 /\ heap[q].shape.cols = heap[op].shape.cols
                 /\ Broadcasts(heap[q].shape, heap[op].shape)
      <4>1. OperandFits(heap, producer, i) /\ heap[producer].operands[i] \in DOMAIN heap
        BY <2>1, <2>5
      <4> QED
        BY <3>2, <3>3, <3>5, <4>1 DEF OperandFits, OperandAllowed, isMatMulFamily, ShapeOf
    <3>6. \A i \in 1 .. Len(heap[producer].operands) : i \in {1, 2} \/ i = 3
      <4> DEFINE n == Len(heap[producer].operands)
      <4>1. n \in {2, 3}
        BY <3>3
      <4> HIDE DEF n
      <4>2. \A i \in 1 .. n : i \in {1, 2} \/ i = 3
        BY <4>1
      <4> QED
        BY <4>2 DEF n
    <3>7. "FusedMatMulRelu" \in FusedKinds
      BY DEF FusedKinds
    <3> QED
      BY <2>6, <3>1, <3>3, <3>4, <3>5, <3>6, <3>7
  <2>8. ASSUME NEW side \in {1, 2}, AddAbsorbs(side), producer = Operand(Current, side),
               FusesTo(Current, "FusedMatMulAcc", producer,
                       heap[producer].operands \o <<Operand(Current, 3 - side)>>)
        PROVE  OperandsInv'
    <3> DEFINE other == heap[op].operands[3 - side]
               operands == heap[producer].operands \o <<other>>
    <3>1. /\ heap[op].kind = "Add" /\ heap[op].operands[side] = producer
          /\ heap[producer].kind = "MatMul" /\ isMatMulFamily(heap[producer].kind)
      BY <2>4, <2>8 DEF AddAbsorbs, Operand, isMatMulFamily
    <3>2. Len(heap[op].operands) = 2 /\ Len(heap[producer].operands) = 2
      BY <2>1, <3>1, ArityOf
    <3>3. /\ other \in Pointer /\ other \in DOMAIN heap
          /\ heap[other].kind \notin {"Print", "ScratchStore"}
      <4>1. 3 - side \in 1 .. Len(heap[op].operands)
        BY <3>2
      <4>2. OperandFits(heap, op, 3 - side)
        BY <2>1, <4>1
      <4> QED
        BY <2>1, <2>5, <3>1, <4>1, <4>2, FnFacts DEF OperandFits, OperandAllowed
    <3>4. /\ heap[other].shape.rows = heap[op].shape.rows
          /\ heap[other].shape.cols = heap[op].shape.cols
          /\ Broadcasts(heap[other].shape, heap[op].shape)
      BY <2>1, <3>1 DEF OpFits, ShapesAllowed, ShapeOf
    <3>5. FusesTo(op, "FusedMatMulAcc", producer, operands)
      BY <2>4, <2>8 DEF Operand
    <3> HIDE DEF other
    <3>6. /\ operands[1] = heap[producer].operands[1] /\ operands[2] = heap[producer].operands[2]
          /\ operands[3] = other /\ Len(operands) = 3
      BY <2>5, <3>2, <3>3, FactorsAndBias
    <3> HIDE DEF operands
    <3>7. \A i \in 1 .. Len(operands) :
            \/ /\ i \in {1, 2} /\ i \in 1 .. Len(heap[producer].operands)
               /\ operands[i] = heap[producer].operands[i]
            \/ i = 3 /\ operands[i] = other
      BY <3>2, <3>6
    <3>8. "FusedMatMulAcc" \in FusedKinds
      BY DEF FusedKinds
    <3> QED
      BY <2>6, <3>1, <3>3, <3>4, <3>5, <3>7, <3>8
  <2> QED
    BY <2>3, <2>7, <2>8
<1> QED
  BY <1>1, <1>2 DEF Fuse

LEMMA PruneKeepsOperands == IRInv /\ OperandsInv /\ Prune => OperandsInv'
<1> SUFFICES ASSUME IRInv, OperandsInv, Prune PROVE OperandsInv'
  OBVIOUS
<1>1. CASE Mark
  BY <1>1 DEF Mark, fn, OperandsInv
<1>2. CASE Erase
  <2>1. /\ DOMAIN heap' = live /\ live \subseteq DOMAIN heap
        /\ \A p \in live : SameOp(heap'[p], heap[p])
        /\ \A p \in live : \A i \in 1 .. Len(heap[p].operands) : heap[p].operands[i] \in live
    BY <1>2, EraseEffect
  <2> SUFFICES ASSUME NEW p \in live, NEW i \in 1 .. Len(heap[p].operands)
               PROVE  OperandFits(heap', p, i)
    BY <2>1 DEF OperandsInv, OperandsFit, SameOp
  <2>2. OperandFits(heap, p, i) /\ heap[p].operands[i] \in live
    BY <2>1 DEF OperandsInv, OperandsFit
  <2>3. /\ heap'[p].kind = heap[p].kind /\ heap'[p].shape = heap[p].shape
        /\ heap'[p].operands = heap[p].operands
        /\ heap'[heap[p].operands[i]].kind = heap[heap[p].operands[i]].kind
        /\ ShapeOf(heap', p, i) = ShapeOf(heap, p, i)
    BY <2>1, <2>2 DEF SameOp, ShapeOf
  <2> QED
    BY <2>2, <2>3, OperandCarriesOver
<1> QED
  BY <1>1, <1>2 DEF Prune

LEMMA TileKeepsOperands == IRInv /\ OperandsInv /\ Tile => OperandsInv'
<1> SUFFICES ASSUME IRInv, OperandsInv, Tile PROVE OperandsInv'
  OBVIOUS
<1>1. /\ FnInv
      /\ \A p \in DOMAIN heap : \A i \in 1 .. Len(heap[p].operands) :
           heap[p].operands[i] \in DOMAIN heap /\ OperandFits(heap, p, i)
  BY FnFacts DEF IRInv, OperandsInv, OperandsFit
<1>2. CASE VisitConsumer
  <2>1. /\ DOMAIN heap' = DOMAIN heap
        /\ \A p \in DOMAIN heap :
             /\ heap'[p].shape = heap[p].shape /\ heap'[p].operands = heap[p].operands
             /\ \/ heap'[p].kind = heap[p].kind
                \/ heap[p].kind = "MatMul" /\ heap'[p].kind = "TiledMatMul"
    BY <1>2, VisitEffect
  <2> SUFFICES ASSUME NEW p \in DOMAIN heap, NEW i \in 1 .. Len(heap[p].operands)
               PROVE  OperandFits(heap', p, i)
    BY <2>1 DEF OperandsInv, OperandsFit
  <2>2. ShapeOf(heap', p, i) = ShapeOf(heap, p, i) /\ heap'[p].operands[i] = heap[p].operands[i]
    BY <1>1, <2>1 DEF ShapeOf
  <2>3. \A q \in DOMAIN heap : \/ heap'[q].kind = heap[q].kind
                               \/ /\ isMatMulFamily(heap'[q].kind) /\ isMatMulFamily(heap[q].kind)
                                  /\ heap[q].kind \notin {"Print", "ScratchStore"}
                                  /\ heap'[q].kind \notin {"Print", "ScratchStore"}
    BY <2>1 DEF isMatMulFamily
  <2>4. OperandFits(heap, p, i) /\ heap[p].operands[i] \in DOMAIN heap
    BY <1>1
  <2> QED
    BY <2>1, <2>2, <2>3, <2>4, OperandCarriesOver
<1>3. CASE StageOperand
  <2>1. PICK c \in cands, n \in 1 .. Len(ops), store, load \in Pointer : Stages(c, n, store, load)
    BY <1>3, StageEffect
  <2>2. owner \in DOMAIN heap /\ isMatMulFamily(heap[owner].kind)
    BY <1>3 DEF StageOperand, IRInv, ConsumersInv
  <2>3. \A p \in DOMAIN heap : \A i \in 1 .. Len(heap[p].operands) :
          ShapeOf(heap', p, i) = ShapeOf(heap, p, i)
    BY <1>1, <2>1, <2>2, StageKeepsShapeOf
  <2> DEFINE from == Operand(owner, c.operandIndex)
  <2>4. /\ DOMAIN heap' = DOMAIN heap \cup {store, load}
        /\ store \notin DOMAIN heap /\ load \notin DOMAIN heap /\ store # load
        /\ \A p \in DOMAIN heap : heap'[p].kind = heap[p].kind /\ heap'[p].shape = heap[p].shape
        /\ \A p \in DOMAIN heap : heap'[p].operands =
             IF p = owner THEN [heap[p].operands EXCEPT ![c.operandIndex] = load]
             ELSE heap[p].operands
    BY <2>1 DEF Stages
  <2>5. /\ heap'[store].kind = "ScratchStore" /\ heap'[store].operands = <<from>>
        /\ heap'[store].shape = heap[from].shape
        /\ heap'[load].kind = "ScratchLoad" /\ heap'[load].operands = <<store>>
        /\ heap'[load].shape = heap[from].shape
    BY <2>1 DEF Stages, SameOp, storeFor, newOp
  <2>6. /\ c.operandIndex \in 1 .. Len(heap[owner].operands) /\ from \in DOMAIN heap
        /\ OperandFits(heap, owner, c.operandIndex)
        /\ from = heap[owner].operands[c.operandIndex]
    BY <1>1, <2>1, <2>2 DEF Stages, Operand
  <2>7. heap[from].kind \notin {"Print", "ScratchStore"}
    BY <2>2, <2>6 DEF OperandFits, OperandAllowed, isMatMulFamily
  <2> HIDE DEF from
  <2>8. ASSUME NEW p \in DOMAIN heap, NEW i \in 1 .. Len(heap'[p].operands)
        PROVE  OperandFits(heap', p, i)
    <3>1. /\ heap[p].operands \in Seq(DOMAIN heap) /\ heap[owner].operands \in Seq(DOMAIN heap)
      BY <1>1, <2>2, FnFacts
    <3>2. CASE p = owner
      <4> DEFINE was == heap[owner].operands
                 now == heap'[owner].operands
                 place == c.operandIndex
      <4>1. now = [was EXCEPT ![place] = load] /\ was \in Seq(DOMAIN heap) /\ place \in 1 .. Len(was)
        BY <2>2, <2>4, <2>6, <3>1
      <4>2. i \in 1 .. Len(now)
        BY <2>8, <3>2
      <4> HIDE DEF was, now, place
      <4>3. i \in 1 .. Len(was) /\ now[i] = IF i = place THEN load ELSE was[i]
        BY <4>1, <4>2
      <4>4. was[i] \in DOMAIN heap /\ (i = place => was[i] = from)
        BY <2>6, <4>1, <4>3 DEF was, place
      <4>5. \/ heap'[now[i]].kind = heap[was[i]].kind
            \/ /\ heap[was[i]].kind \notin {"Print", "ScratchStore"}
               /\ heap'[now[i]].kind \notin {"Print", "ScratchStore"}
        BY <2>4, <2>5, <2>7, <4>3, <4>4
      <4> QED
        BY <1>1, <2>3, <2>4, <3>2, <4>3, <4>5, OperandCarriesOver DEF was, now
    <3>3. CASE p # owner
      <4>1. heap'[p].operands = heap[p].operands /\ i \in 1 .. Len(heap[p].operands)
        BY <2>4, <2>8, <3>3
      <4> QED
        BY <1>1, <2>3, <2>4, <4>1, OperandCarriesOver
    <3> QED
      BY <3>2, <3>3
  <2>9. \A i \in 1 .. Len(heap'[store].operands) : OperandFits(heap', store, i)
    <3>1. Len(heap'[store].operands) = 1 /\ heap'[store].operands[1] = from
      BY <2>5
    <3>2. ShapeOf(heap', store, 1) = heap'[store].shape /\ heap'[from].kind = heap[from].kind
      BY <2>4, <2>5, <2>6, <3>1 DEF ShapeOf
    <3>3. OperandFits(heap', store, 1)
      BY <2>5, <2>7, <3>1, <3>2 DEF OperandFits, OperandAllowed
    <3> QED
      BY <3>1, <3>3
  <2>10. \A i \in 1 .. Len(heap'[load].operands) : OperandFits(heap', load, i)
    <3>1. Len(heap'[load].operands) = 1 /\ heap'[load].operands[1] = store
      BY <2>5
    <3>2. ShapeOf(heap', load, 1) = heap'[load].shape
      BY <2>5, <3>1 DEF ShapeOf
    <3>3. OperandFits(heap', load, 1)
      BY <2>5, <3>1, <3>2 DEF OperandFits, OperandAllowed
    <3> QED
      BY <3>1, <3>3
  <2> QED
    BY <2>4, <2>8, <2>9, <2>10 DEF OperandsInv, OperandsFit
<1>4. CASE SkipOperand \/ LeaveConsumer \/ FinishTiling
  BY <1>4 DEF SkipOperand, LeaveConsumer, FinishTiling, fn, OperandsInv
<1> QED
  BY <1>2, <1>3, <1>4 DEF Tile

-----------------------------------------------------------------------------
(* The layers hold in every state of compile() and simulate().             *)

IRLayers == IRInv /\ FusionInv /\ ShapesInv /\ TilingInv /\ OperandsInv

\* While a program is lowered its first ops are the ops of the list.
Matches(prog) ==
  /\ Len(ops) + Len(todo) = Len(prog) /\ DOMAIN heap = 1 .. Len(ops)
  /\ \A k \in 1 .. Len(todo) : todo[k] = prog[Len(ops) + k]
  /\ \A k \in 1 .. Len(ops) : heap[k].kind = prog[k].kind /\ heap[k].shape = prog[k].shape

CheckedOps == [kind: STRING, shape: TensorShape, operands: Seq(Nat)]

LoweringInv ==
  stage = "lower" => todo \in Seq(CheckedOps) /\ \E prog \in Programs : Matches(prog)

\* The code generator begins once the passes are over, and the simulator
\* once it is done.
PhasesInv ==
  /\ section \in {"none", "data", "text"}
  /\ section # "none" => stage = "done"
  /\ phase # "idle" => Generated

LEMMA FreshOfFirst ==
  ASSUME NEW n \in Nat
  PROVE  Fresh(1 .. n) = n + 1
<1>1. Cardinality(1 .. n) = n
  BY FS_Interval, 1 \in Int
<1>2. \A p \in 1 .. 1 + n : p \notin 1 .. n <=> p = n + 1
  OBVIOUS
<1>3. n + 1 \in 1 .. 1 + n
  OBVIOUS
<1> QED
  BY <1>1, <1>2, <1>3 DEF Fresh

LEMMA AddOpKeepsFusionInv ==
  ASSUME IRInv, FusionInv, Lowering, NEW kind, NEW shape, NEW operands,
         addOp(kind, shape, operands)
  PROVE  FusionInv'
<1>1. (\A p \in DOMAIN heap : heap[p].fusible) /\ stage = "lower"
  BY DEF Lowering, FusionInv
<1>2. \A p \in DOMAIN heap' : heap'[p].fusible
  BY <1>1 DEF addOp, put, newOp
<1>3. stage' = "lower"
  BY <1>1 DEF Lowering
<1> QED
  BY <1>2, <1>3 DEF FusionInv, AbsorbedInv

LEMMA AddOpKeepsTilingInv ==
  ASSUME IRInv, IRInv', TilingInv, Lowering, NEW kind, NEW shape, NEW operands,
         addOp(kind, shape, operands), ~IsStaging(kind)
  PROVE  TilingInv'
<1>1. FnInv' /\ stage = "lower" /\ UNCHANGED tilingVars
  BY DEF IRInv, Lowering
<1>2. \A p \in DOMAIN heap : ~IsStaging(heap[p].kind)
  BY <1>1 DEF TilingInv
<1>3. \A p \in DOMAIN heap' : ~IsStaging(heap'[p].kind)
  BY <1>2 DEF addOp, put, newOp
<1>4. /\ consumers' = << >> /\ owner' = Nobody /\ cands' = {} /\ staged' = << >>
      /\ Len(consumers') = 0
  BY <1>1 DEF IRInv, tilingVars
<1> QED
  BY <1>1, <1>3, <1>4, NothingStaged

LEMMA AddOpKeepsOperands ==
  ASSUME FnInv, OperandsInv, NEW kind, NEW shape, NEW operands \in Seq(DOMAIN heap),
         addOp(kind, shape, operands),
         \A i \in 1 .. Len(operands) :
           OperandAllowed(kind, shape, i, heap[operands[i]].kind, heap[operands[i]].shape)
  PROVE  OperandsInv'
<1> DEFINE new == Fresh(DOMAIN heap)
           op == newOp(kind, shape, operands, Len(ops))
<1>1. heap' = put(heap, new, op) /\ new \notin DOMAIN heap
  BY FreshIsNew, FnFacts DEF addOp
<1> HIDE DEF new
<1>2. /\ DOMAIN heap' = DOMAIN heap \cup {new}
      /\ \A p \in DOMAIN heap : heap'[p] = heap[p]
      /\ heap'[new].kind = kind /\ heap'[new].shape = shape /\ heap'[new].operands = operands
  BY <1>1 DEF put, newOp
<1>3. ASSUME NEW p \in DOMAIN heap, NEW i \in 1 .. Len(heap[p].operands)
      PROVE  OperandFits(heap', p, i)
  <2>1. heap[p].operands[i] \in DOMAIN heap
    BY FnFacts
  <2>2. OperandFits(heap, p, i)
    BY DEF OperandsInv, OperandsFit
  <2> QED
    BY <1>2, <2>1, <2>2 DEF OperandFits, ShapeOf
<1>4. ASSUME NEW i \in 1 .. Len(operands)
      PROVE  OperandFits(heap', new, i)
  <2>1. operands[i] \in DOMAIN heap
    OBVIOUS
  <2> QED
    BY <1>2, <2>1 DEF OperandFits, ShapeOf
<1> QED
  BY <1>2, <1>3, <1>4 DEF OperandsInv, OperandsFit

\* Lowering a checked op.
LEMMA LowerKeepsLayers ==
  ASSUME IRLayers, LoweringInv, LowerNext
  PROVE  IRLayers' /\ LoweringInv'
<1> DEFINE s == Head(todo)
           n == Len(ops)
<1>1. /\ Lowering /\ stage = "lower" /\ stage' = "lower" /\ todo # << >>
      /\ addOp(s.kind, s.shape, s.operands) /\ todo' = Tail(todo)
  BY DEF LowerNext, Lowering
<1>2. FnInv /\ n \in Nat
  BY FnFacts DEF IRLayers, IRInv
<1>3. PICK prog \in Programs : Matches(prog)
  BY <1>1 DEF LoweringInv
<1>4. /\ todo \in Seq(CheckedOps) /\ Len(todo) \in Nat \ {0} /\ prog \in Seq(CheckedOps)
      /\ \A k \in 1 .. Len(prog) : CheckedOp(prog, k) /\ prog[k] \in CheckedOps
  <2>1. todo \in Seq(CheckedOps)
    BY <1>1 DEF LoweringInv
  <2>2. prog \in Seq(CheckedOps) /\ \A k \in 1 .. Len(prog) : CheckedOp(prog, k)
    BY PipelineAssumption DEF CheckedOps
  <2> QED
    BY <1>1, <2>1, <2>2
<1>5. /\ n + 1 \in 1 .. Len(prog) /\ s = prog[n + 1] /\ todo[1] = s
      /\ todo' \in Seq(CheckedOps) /\ Len(todo') = Len(todo) - 1
      /\ \A k \in 1 .. Len(todo') : todo'[k] = todo[k + 1]
  <2>1. s = todo[1] /\ 1 \in 1 .. Len(todo)
    BY <1>4
  <2>2. Len(todo') = Len(todo) - 1 /\ todo' \in Seq(CheckedOps)
        /\ \A k \in 1 .. Len(todo') : todo'[k] = todo[k + 1]
    BY <1>1, <1>4
  <2> QED
    BY <1>2, <1>3, <1>4, <2>1, <2>2 DEF Matches
<1>6. /\ DOMAIN heap = 1 .. n /\ s \in CheckedOps
      /\ \A k \in 1 .. n : heap[k].kind = prog[k].kind /\ heap[k].shape = prog[k].shape
  BY <1>3, <1>4, <1>5 DEF Matches
<1> DEFINE operands == s.operands
           shape(i) == heap[operands[i]].shape
<1>7. /\ operands \in Seq(DOMAIN heap) /\ s.shape \in TensorShape
      /\ \A i \in 1 .. Len(operands) :
           /\ operands[i] \in DOMAIN heap /\ shape(i) \in TensorShape
           /\ shape(i) = prog[operands[i]].shape
           /\ heap[operands[i]].kind = prog[operands[i]].kind
           /\ heap[operands[i]].kind \notin {"Print", "ScratchStore"}
  <2>1. operands \in Seq(1 .. n + 1 - 1)
    BY <1>4, <1>5 DEF CheckedOp
  <2>2. operands \in Seq(DOMAIN heap)
    BY <1>2, <1>6, <2>1
  <2>3. \A i \in 1 .. Len(operands) : operands[i] \in 1 .. n /\ prog[operands[i]].kind # "Print"
    <3>1. \A i \in 1 .. Len(operands) : operands[i] \in 1 .. n
      <4> HIDE DEF operands, n
      <4> QED
        BY <1>2, <2>1
    <3>2. CheckedOp(prog, n + 1) /\ operands = prog[n + 1].operands
      BY <1>4, <1>5
    <3> HIDE DEF operands, n, s
    <3>3. \A i \in 1 .. Len(operands) : prog[operands[i]].kind # "Print"
      BY <3>2 DEF CheckedOp
    <3> QED
      BY <3>1, <3>3
  <2>4. s.shape \in TensorShape
    BY <1>6 DEF CheckedOps
  <2>5. \A p \in DOMAIN heap : heap[p].shape \in TensorShape /\ heap[p].kind # "ScratchStore"
    BY <1>1, <1>2, FnFacts DEF IRLayers, TilingInv, IsStaging
  <2> QED
    BY <1>6, <2>2, <2>3, <2>4, <2>5
<1>8. \/ s.kind \in LeafKinds /\ operands = << >>
      \/ s.kind \in UnaryKinds /\ Len(operands) = 1 /\ s.shape = unaryShape(s.kind, shape(1))
      \/ /\ s.kind \in BinaryKinds /\ Len(operands) = 2
         /\ s.shape \in binaryShapes(s.kind, shape(1), shape(2))
      \/ s.kind = "Print" /\ Len(operands) = 1 /\ s.shape = shape(1)
  <2>1. CheckedOp(prog, n + 1) /\ s = prog[n + 1]
    BY <1>4, <1>5
  <2> DEFINE given(i) == prog[operands[i]].shape
  <2> HIDE DEF s, n
  <2>2. \/ s.kind \in LeafKinds /\ operands = << >>
        \/ s.kind \in UnaryKinds /\ Len(operands) = 1 /\ s.shape = unaryShape(s.kind, given(1))
        \/ /\ s.kind \in BinaryKinds /\ Len(operands) = 2
           /\ s.shape \in binaryShapes(s.kind, given(1), given(2))
        \/ s.kind = "Print" /\ Len(operands) = 1 /\ s.shape = given(1)
    BY <2>1 DEF CheckedOp
  <2>3. \A i \in 1 .. Len(operands) : given(i) = shape(i)
    BY <1>7
  <2> DEFINE L == Len(operands)
  <2> HIDE DEF given, shape, L, operands
  <2>4. /\ L = 1 => 1 \in 1 .. L
        /\ L = 2 => 1 \in 1 .. L /\ 2 \in 1 .. L
    OBVIOUS
  <2>5. \A i \in 1 .. L : given(i) = shape(i)
    BY <2>3 DEF L
  <2>6. (L = 1 => given(1) = shape(1)) /\ (L = 2 => given(1) = shape(1) /\ given(2) = shape(2))
    BY <2>4, <2>5
  <2> QED
    BY <2>2, <2>6 DEF L
<1>9. /\ s.kind \in OpKinds /\ Len(operands) \in arities(s.kind) /\ ~IsStaging(s.kind)
      /\ ShapesAllowed(s.kind, s.shape, shape(1), shape(2))
      /\ \A i \in 1 .. Len(operands) :
           OperandAllowed(s.kind, s.shape, i, heap[operands[i]].kind, shape(i))
  <2>0. Len(<< >>) = 0
    OBVIOUS
  <2>1. CASE s.kind \in LeafKinds /\ operands = << >>
    <3>1. s.kind \in OpKinds /\ arities(s.kind) = {0} /\ ~IsStaging(s.kind)
      BY <2>1 DEF OpKinds, arities, LeafKinds, IsStaging
    <3>2. Len(operands) = 0
      BY <2>0, <2>1
    <3>3. ShapesAllowed(s.kind, s.shape, shape(1), shape(2))
      <4> HIDE DEF shape, operands, s
      <4> QED
        BY <2>1 DEF ShapesAllowed, LeafKinds, isMatMulFamily
    <3> QED
      BY <3>1, <3>2, <3>3
  <2>2. CASE s.kind \in UnaryKinds /\ Len(operands) = 1 /\ s.shape = unaryShape(s.kind, shape(1))
    <3>1. s.kind \in OpKinds /\ arities(s.kind) = {1} /\ ~IsStaging(s.kind)
      BY <2>2 DEF OpKinds, arities, LeafKinds, BinaryKinds, UnaryKinds, IsStaging
    <3>2. 1 \in 1 .. Len(operands) /\ \A i \in 1 .. Len(operands) : i = 1
      <4> HIDE DEF operands
      <4> QED
        BY <2>2
    <3>3. shape(1) \in TensorShape /\ heap[operands[1]].kind \notin {"Print", "ScratchStore"}
      BY <1>7, <3>2
    <3>4. ShapesAllowed(s.kind, s.shape, shape(1), shape(2))
      BY <2>2, <3>3, CheckedShapesFit
    <3>5. OperandAllowed(s.kind, s.shape, 1, heap[operands[1]].kind, shape(1))
      BY <2>2, <3>3, CheckedOperandsFit
    <3> QED
      BY <2>2, <3>1, <3>2, <3>4, <3>5
  <2>3. CASE /\ s.kind \in BinaryKinds /\ Len(operands) = 2
             /\ s.shape \in binaryShapes(s.kind, shape(1), shape(2))
    <3>1. s.kind \in OpKinds /\ arities(s.kind) = {2} /\ ~IsStaging(s.kind)
      BY <2>3 DEF OpKinds, arities, LeafKinds, BinaryKinds, IsStaging
    <3>2. 1 \in 1 .. Len(operands) /\ 2 \in 1 .. Len(operands)
          /\ \A i \in 1 .. Len(operands) : i = 1 \/ i = 2
      <4> HIDE DEF operands
      <4> QED
        BY <2>3
    <3>3. /\ shape(1) \in TensorShape /\ heap[operands[1]].kind \notin {"Print", "ScratchStore"}
          /\ shape(2) \in TensorShape /\ heap[operands[2]].kind \notin {"Print", "ScratchStore"}
      BY <1>7, <3>2
    <3>4. ShapesAllowed(s.kind, s.shape, shape(1), shape(2))
      BY <2>3, <3>3, CheckedShapesFit
    <3>5. /\ OperandAllowed(s.kind, s.shape, 1, heap[operands[1]].kind, shape(1))
          /\ OperandAllowed(s.kind, s.shape, 2, heap[operands[2]].kind, shape(2))
      BY <2>3, <3>3, CheckedOperandsFit
    <3> QED
      BY <2>3, <3>1, <3>2, <3>4, <3>5, Zenon
  <2>4. CASE s.kind = "Print" /\ Len(operands) = 1 /\ s.shape = shape(1)
    <3>1. s.kind \in OpKinds /\ arities(s.kind) = {1} /\ ~IsStaging(s.kind)
      BY <2>4 DEF OpKinds, arities, LeafKinds, BinaryKinds, UnaryKinds, IsStaging
    <3>2. 1 \in 1 .. Len(operands) /\ \A i \in 1 .. Len(operands) : i = 1
      <4> HIDE DEF operands
      <4> QED
        BY <2>4
    <3>3. shape(1) \in TensorShape /\ heap[operands[1]].kind \notin {"Print", "ScratchStore"}
      BY <1>7, <3>2
    <3>4. ShapesAllowed(s.kind, s.shape, shape(1), shape(2))
      BY <2>4 DEF ShapesAllowed, isMatMulFamily
    <3>5. OperandAllowed(s.kind, s.shape, 1, heap[operands[1]].kind, shape(1))
      BY <2>4, <3>3, CheckedOperandsFit
    <3> QED
      BY <2>4, <3>1, <3>2, <3>4, <3>5, Zenon
  <2> QED
    BY <1>8, <2>1, <2>2, <2>3, <2>4, Zenon
<1>10. LoweringInv'
  <2>1. Fresh(DOMAIN heap) = n + 1
    BY <1>2, <1>6, FreshOfFirst
  <2>2. /\ ops' = Append(ops, n + 1)
        /\ heap' = put(heap, n + 1, newOp(s.kind, s.shape, operands, n))
    BY <1>1, <2>1 DEF addOp
  <2>3. Len(ops') = n + 1
    <3>1. ops \in Seq(DOMAIN heap)
      BY <1>2 DEF FnInv, IsFunction, Lists
    <3> QED
      BY <2>2, <3>1
  <2>4. DOMAIN heap' = 1 .. n + 1
    BY <1>2, <1>6, <2>2 DEF put
  <2>5. \A k \in 1 .. n + 1 : heap'[k].kind = prog[k].kind /\ heap'[k].shape = prog[k].shape
    BY <1>2, <1>5, <1>6, <2>2 DEF put, newOp
  <2>6. \A k \in 1 .. Len(todo') : todo'[k] = prog[n + 1 + k]
    <3> SUFFICES ASSUME NEW k \in 1 .. Len(todo') PROVE todo'[k] = prog[n + 1 + k]
      OBVIOUS
    <3>1. k + 1 \in 1 .. Len(todo) /\ todo'[k] = todo[k + 1]
      BY <1>4, <1>5
    <3>2. todo[k + 1] = prog[n + (k + 1)]
      BY <1>3, <3>1 DEF Matches
    <3>3. n + (k + 1) = n + 1 + k
      BY <1>2
    <3> QED
      BY <3>1, <3>2, <3>3
  <2>7. Len(ops') + Len(todo') = Len(prog)
    <3>1. n + Len(todo) = Len(prog)
      BY <1>3 DEF Matches
    <3>2. Len(todo) \in Nat /\ Len(todo') = Len(todo) - 1 /\ n \in Nat
      BY <1>2, <1>4, <1>5
    <3> HIDE DEF n
    <3> QED
      BY <2>3, <3>1, <3>2
  <2>8. Matches(prog)'
    BY <2>3, <2>4, <2>5, <2>6, <2>7 DEF Matches
  <2> QED
    BY <1>5, <2>8 DEF LoweringInv
<1>11. IRLayers'
  <2> HIDE DEF s
  <2>1. IRInv'
    BY <1>1, <1>7, <1>9, AddOpKeepsIRInv DEF IRLayers
  <2>2. FusionInv'
    BY <1>1, AddOpKeepsFusionInv DEF IRLayers
  <2>3. ShapesInv'
    BY <1>1, <1>2, <1>7, <1>9, AddOpKeepsShapes DEF IRLayers
  <2>4. TilingInv'
    BY <1>1, <1>9, <2>1, AddOpKeepsTilingInv DEF IRLayers
  <2>5. OperandsInv'
    BY <1>1, <1>2, <1>7, <1>9, AddOpKeepsOperands DEF IRLayers
  <2> QED
    BY <2>1, <2>2, <2>3, <2>4, <2>5 DEF IRLayers
<1> QED
  BY <1>10, <1>11

LEMMA InitLayers == PipelineInit => IRLayers /\ LoweringInv /\ PhasesInv
<1> SUFFICES ASSUME PipelineInit PROVE IRLayers /\ LoweringInv /\ PhasesInv
  OBVIOUS
<1>1. Init /\ GenInit /\ Sim!Init /\ todo \in Programs
  BY DEF PipelineInit
<1>2. DOMAIN heap = {} /\ ops = << >> /\ Len(ops) = 0
  BY <1>1 DEF Init
<1>3. OperandsInv
  BY <1>2 DEF OperandsInv, OperandsFit
<1>4. LoweringInv
  <2>0. Programs \subseteq Seq(CheckedOps)
    BY PipelineAssumption DEF CheckedOps
  <2>1. todo \in Seq(CheckedOps) /\ Len(todo) \in Nat
    BY <1>1, <2>0
  <2>2. Matches(todo)
    BY <1>2, <2>1 DEF Matches
  <2> QED
    BY <1>1, <2>1, <2>2 DEF LoweringInv
<1>5. PhasesInv
  BY <1>1 DEF PhasesInv, GenInit, Sim!Init, Sim!PerfInit
<1> QED
  BY <1>1, <1>3, <1>4, <1>5, InitIRInv, InitFusionInv, InitShapesInv, InitTilingInv DEF IRLayers

LEMMA OperandsInvStep == IRInv /\ ShapesInv /\ OperandsInv /\ (FinishLowering \/ Fuse \/ Prune \/ Tile
                            \/ UNCHANGED vars) => OperandsInv'
<1>1. OperandsInv /\ UNCHANGED vars => OperandsInv'
  BY DEF vars, fn, OperandsInv
<1>2. OperandsInv /\ FinishLowering => OperandsInv'
  BY DEF FinishLowering, fn, OperandsInv
<1> QED
  BY <1>1, <1>2, FuseKeepsOperands, PruneKeepsOperands, TileKeepsOperands

\* Every step of the pipeline lowers an op, is one of the passes', or leaves
\* the function alone.
LEMMA IRSteps ==
  ASSUME PhasesInv, [PipelineNext]_allVars
  PROVE  \/ LowerNext
         \/ /\ UNCHANGED todo
            /\ \/ UNCHANGED vars
               \/ /\ FinishLowering \/ Fuse \/ Prune \/ Tile
                  /\ stage' # "lower"
<1>1. CASE UNCHANGED allVars
  BY <1>1 DEF allVars
<1>2. CASE Accept
  BY <1>2 DEF Accept, FinishLowering
<1>3. CASE Optimise
  BY <1>3 DEF Optimise, Fuse, FuseRelu, FuseAcc, KeepOp, FinishFusion, Fusing, Prune, Mark, Erase,
     Tile, VisitConsumer, StageOperand, SkipOperand, LeaveConsumer, FinishTiling, Tiling
<1>4. CASE Generate
  BY <1>4 DEF Generate, GenNext, LayoutIdentities, LayoutOp, prologue, LowerNothing, LowerTiles,
     LowerSoftmax, LowerToPrint, LoweringOp, Generating
<1>5. CASE StartSimulation \/ Simulate
  BY <1>5 DEF StartSimulation, Simulate, CompilerIdle
<1>6. CASE Finished
  BY <1>1, <1>6 DEF Finished
<1> QED
  BY <1>1, <1>2, <1>3, <1>4, <1>5, <1>6 DEF PipelineNext

LEMMA LayersStep ==
  ASSUME IRLayers, LoweringInv, PhasesInv, [PipelineNext]_allVars
  PROVE  IRLayers' /\ LoweringInv'
<1>1. CASE LowerNext
  BY <1>1, LowerKeepsLayers
<1>2. CASE /\ UNCHANGED todo
           /\ \/ UNCHANGED vars
              \/ (FinishLowering \/ Fuse \/ Prune \/ Tile) /\ stage' # "lower"
  <2>1. [Next]_vars
    BY <1>2 DEF Next, Lower
  <2>2. IRInv' /\ FusionInv' /\ ShapesInv' /\ TilingInv'
    BY <2>1, IRInvStep, FusionInvStep, ShapesInvStep, TilingInvStep DEF IRLayers
  <2>3. OperandsInv'
    BY <1>2, OperandsInvStep DEF IRLayers
  <2>4. LoweringInv'
    BY <1>2 DEF LoweringInv, Matches, vars, fn
  <2> QED
    BY <2>2, <2>3, <2>4 DEF IRLayers
<1> QED
  BY <1>1, <1>2, IRSteps

\* Nothing is generated before the passes are over, nor run before the code
\* is whole; and the function and its code do not change once they are.
LEMMA PhasesStep ==
  ASSUME IRLayers, PhasesInv, [PipelineNext]_allVars
  PROVE  /\ PhasesInv'
         /\ phase # "idle" => UNCHANGED <<vars, genVars>>
         /\ section # "none" => UNCHANGED vars
         /\ section = "text" => UNCHANGED layoutVars
<1>1. CASE UNCHANGED allVars
  BY <1>1 DEF allVars, genVars, layoutVars, simVars, vars, PhasesInv, Generated, fn
<1>2. CASE LowerNext \/ Accept \/ Optimise
  <2>1. stage # "done" /\ UNCHANGED <<genVars, simVars>>
    BY <1>2 DEF LowerNext, Lowering, Accept, FinishLowering, Optimise,
       Fuse, FuseRelu, FuseAcc, KeepOp, FinishFusion, Fusing, Prune, Mark, Erase,
       Tile, VisitConsumer, StageOperand, SkipOperand, LeaveConsumer, FinishTiling, Tiling
  <2>2. section = "none" /\ phase = "idle" /\ section' = "none" /\ phase' = "idle"
    BY <2>1 DEF PhasesInv, Generated, genVars, simVars
  <2> QED
    BY <2>2 DEF PhasesInv
<1>3. CASE Generate
  <2>0. Len(ops) \in Nat
    BY FnFacts DEF IRLayers, IRInv
  <2>1. ~Generated /\ stage = "done" /\ UNCHANGED <<vars, simVars>>
    <3>1. stage = "done" /\ UNCHANGED <<vars, simVars>>
      BY <1>3 DEF Generate, GenNext, LayoutIdentities, LayoutOp, prologue, LowerNothing, LowerTiles,
       LowerSoftmax, LowerToPrint, LoweringOp, Generating
    <3>2. CASE LayoutIdentities \/ LayoutOp \/ prologue
      <4>1. section # "text"
        BY <3>2 DEF LayoutIdentities, LayoutOp, prologue, Generating
      <4> QED
        BY <3>1, <4>1 DEF Generated
    <3>3. CASE LowerNothing \/ LowerTiles \/ LowerSoftmax \/ LowerToPrint
      <4>1. position \in 1 .. Len(ops)
        BY <3>3 DEF LowerNothing, LowerTiles, LowerSoftmax, LowerToPrint, LoweringOp
      <4>2. position # Len(ops) + 1
        BY <2>0, <4>1
      <4> QED
        BY <3>1, <4>2 DEF Generated
    <3> QED
      BY <1>3, <3>2, <3>3 DEF Generate, GenNext
  <2>2. phase = "idle" /\ phase' = "idle" /\ stage' = "done"
    BY <2>1 DEF PhasesInv, simVars, vars
  <2>3. section' \in {"data", "text"}
    BY <1>3 DEF Generate, GenNext, LayoutIdentities, LayoutOp, prologue, LowerNothing, LowerTiles,
     LowerSoftmax, LowerToPrint, LoweringOp, Generating, Emitted
  <2>4. section = "text" => UNCHANGED layoutVars
    BY <1>3 DEF Generate, GenNext, LayoutIdentities, LayoutOp, prologue, LowerNothing, LowerTiles,
     LowerSoftmax, LowerToPrint, LoweringOp, Generating, Emitted
  <2> QED
    BY <2>1, <2>2, <2>3, <2>4 DEF PhasesInv
<1>4. CASE StartSimulation \/ Simulate
  <2>1. UNCHANGED <<vars, genVars>>
    BY <1>4 DEF StartSimulation, Simulate, CompilerIdle
  <2>2. Generated
    <3>1. CASE StartSimulation
      BY <3>1 DEF StartSimulation
    <3>2. CASE Simulate
      <4>1. phase # "idle"
        <5>1. CASE Sim!Step
          BY <5>1 DEF Sim!Step, Sim!Executing, Sim!Nop, Sim!Halt, Sim!ScalarArith, Sim!Vector,
             Sim!Matrix, Sim!Convert, Sim!VectorReduce, Sim!RowReduce, Sim!ExecLoad,
             Sim!ExecStore, Sim!Br, Sim!CondBranch, Sim!Jmp, Sim!Call, Sim!Ret,
             Sim!RuntimePrint, Sim!RuntimeSoftmax, Sim!UnknownRuntime
        <5>2. CASE Sim!Run /\ ~Sim!Step
          BY <5>2 DEF Sim!Run, Sim!StartRun, Sim!BeginRun, Sim!LimitReached, Sim!EndRun,
             Sim!LeaveLoop, Sim!Finalize, Sim!FinalizeIteration, Sim!ReturnFromRun,
             Sim!FinalizeEnd
        <5> QED
          BY <3>2, <5>1, <5>2 DEF Simulate
      <4> QED
        BY <4>1 DEF PhasesInv
    <3> QED
      BY <1>4, <3>1, <3>2
  <2>3. section = "text" /\ section' = "text" /\ UNCHANGED <<stage, layoutVars>>
    BY <2>1, <2>2 DEF Generated, genVars, layoutVars, vars
  <2>4. Generated'
    BY <2>1, <2>2 DEF Generated, genVars, vars, fn
  <2> QED
    BY <2>1, <2>3, <2>4 DEF PhasesInv
<1>5. CASE Finished
  BY <1>1, <1>5 DEF Finished
<1> QED
  BY <1>1, <1>2, <1>3, <1>4, <1>5 DEF PipelineNext

-----------------------------------------------------------------------------
(* What layout() has placed in the data section.                           *)

\* The words an image is made of; they are integers if LeafWord and Factor are.
DataWord ==
  Int \cup {LeafWord(p, k) : p \in Pointer, k \in Int} \cup {Factor(p) : p \in Pointer}

\* The m words from a, and the n words from b, have none in common.
Apart(a, m, b, n) == a + m <= b \/ b + n <= a

\* Word k of a padded tensor is padding.
DeadWord(s, k) ==
  LET w == k % batchWords(s) IN w \div pad(s.cols) >= s.rows \/ w % pad(s.cols) >= s.cols

OffDiagonal(c) == c \div kTileDim # c % kTileDim

\* Buffers, and tiles of constants, in a data section.
ConstantAt(d, t) ==
  /\ t \in Nat /\ t + kTileElems <= d.end
  /\ \A c \in 0 .. kTileElems - 1 : OffDiagonal(c) => d.words[t + c + 1] = 0

BufferAt(d, p, buf) ==
  /\ p \in DOMAIN heap /\ buf = bufferFor(p, buf.addr)
  /\ buf.addr \in Nat /\ buf.addr + bufferWords(heap[p].shape) <= d.end
  /\ \A k \in 0 .. bufferWords(heap[p].shape) - 1 :
       DeadWord(heap[p].shape, k) => d.words[buf.addr + k + 1] = 0

Layout(bufs, consts, d) ==
  /\ d.end \in Nat /\ d.words \in Seq(DataWord) /\ Len(d.words) = d.end
  /\ \A t \in consts : ConstantAt(d, t)
  /\ \A p \in DOMAIN bufs :
       /\ BufferAt(d, p, bufs[p])
       /\ \A t \in consts : Apart(t, kTileElems, bufs[p].addr, bufferWords(heap[p].shape))
       /\ \A q \in DOMAIN bufs : q # p =>
            Apart(bufs[p].addr, bufferWords(heap[p].shape),
                  bufs[q].addr, bufferWords(heap[q].shape))

Constants ==
  ({identity.plus, identity.minus} \ {-1}) \cup {scaleAddr[p] : p \in DOMAIN scaleAddr}

\* The ops up to position n have what they need.
Placed(n) ==
  \A k \in 1 .. n :
    /\ needsBuffer(heap[ops[k]].kind) => ops[k] \in DOMAIN buffers
    /\ heap[ops[k]].kind = "ScalarMul" => ops[k] \in DOMAIN scaleAddr

IdentityInv ==
  /\ identity.plus \in Nat \cup {-1} /\ identity.minus \in Nat \cup {-1}
  /\ \A p \in Ops : /\ heap[p].kind = "Add" => identity.plus # -1
                    /\ heap[p].kind = "Sub" => identity.minus # -1

LayoutInv ==
  /\ section = "none" => /\ buffers = << >> /\ scaleAddr = << >>
                         /\ data = [words |-> << >>, end |-> 0]
  /\ section # "none" => Layout(buffers, Constants, data) /\ IdentityInv
  /\ section = "data" => position \in 1 .. Len(ops) + 1 /\ Placed(position - 1)
  /\ section = "text" => position \in 1 .. Len(ops) + 1 /\ Placed(Len(ops))

\* What the tile dimension makes of a tensor.
LEMMA PadType ==
  ASSUME NEW n \in Nat \ {0}
  PROVE  /\ tilesOf(n) \in Nat \ {0} /\ pad(n) = tilesOf(n) * kTileDim
         /\ pad(n) \in Nat \ {0} /\ n <= pad(n) /\ kTileDim \in Nat \ {0}
<1>1. kTileDim \in Nat \ {0} /\ tilesOf(n) \in Nat \ {0}
  BY IRAssumption, TilesType
<1>2. pad(n) = tilesOf(n) * kTileDim /\ pad(n) \in Nat \ {0}
  BY <1>1, ProductType DEF pad
<1> DEFINE a == n + kTileDim - 1
           q == a \div kTileDim
<1>3. a \in Nat /\ q \in Int /\ a < kTileDim * (q + 1) /\ q = tilesOf(n)
  BY <1>1 DEF tilesOf
<1>4. n <= q * kTileDim
  <2> HIDE DEF q
  <2> QED
    BY <1>1, <1>3
<1> QED
  BY <1>1, <1>2, <1>3, <1>4

LEMMA WordsType ==
  ASSUME NEW s \in TensorShape
  PROVE  /\ s.batch \in Nat \ {0} /\ s.rows \in Nat \ {0} /\ s.cols \in Nat \ {0}
         /\ pad(s.rows) \in Nat \ {0} /\ pad(s.cols) \in Nat \ {0}
         /\ batchWords(s) \in Nat \ {0} /\ bufferWords(s) \in Nat \ {0}
         /\ kTileElems \in Nat \ {0} /\ kTileDim \in Nat \ {0}
<1>1. s.batch \in Nat \ {0} /\ s.rows \in Nat \ {0} /\ s.cols \in Nat \ {0}
  BY ShapeTypes
<1>2. pad(s.rows) \in Nat \ {0} /\ pad(s.cols) \in Nat \ {0} /\ kTileDim \in Nat \ {0}
  BY <1>1, PadType
<1>3. batchWords(s) \in Nat \ {0} /\ kTileElems \in Nat \ {0}
  BY <1>2, ProductType DEF batchWords, kTileElems
<1>4. bufferWords(s) \in Nat \ {0}
  BY <1>1, <1>3, ProductType DEF bufferWords
<1> QED
  BY <1>1, <1>2, <1>3, <1>4

LEMMA ConcatTwo ==
  ASSUME NEW S, NEW s \in Seq(S), NEW t \in Seq(S)
  PROVE  /\ s \o t \in Seq(S) /\ Len(s \o t) = Len(s) + Len(t)
         /\ Len(s) \in Nat /\ Len(t) \in Nat
         /\ \A k \in 1 .. Len(s) : (s \o t)[k] = s[k]
         /\ \A k \in 1 .. Len(t) : (s \o t)[Len(s) + k] = t[k]
<1>1. s \o t \in Seq(S) /\ Len(s \o t) = Len(s) + Len(t) /\ Len(s) \in Nat /\ Len(t) \in Nat
  OBVIOUS
<1>2. \A k \in 1 .. Len(s) + Len(t) : (s \o t)[k] = IF k <= Len(s) THEN s[k] ELSE t[k - Len(s)]
  OBVIOUS
<1>3. \A k \in 1 .. Len(s) : (s \o t)[k] = s[k]
  BY <1>1, <1>2
<1>4. ASSUME NEW k \in 1 .. Len(t)
      PROVE  (s \o t)[Len(s) + k] = t[k]
  <2> DEFINE m == Len(s)
             n == Len(t)
             j == m + k
  <2>1. j \in 1 .. m + n /\ ~(j <= m) /\ j - m = k
    BY <1>1
  <2>2. (s \o t)[j] = t[j - m]
    <3> HIDE DEF j
    <3> QED
      BY <1>2, <2>1
  <2> QED
    BY <2>1, <2>2
<1> QED
  BY <1>1, <1>3, <1>4

LEMMA AlignedType ==
  ASSUME NEW d, d.end \in Nat
  PROVE  aligned(d) \in Nat /\ aligned(d) >= d.end
<1>1. kTileElems \in Nat \ {0}
  BY IRAssumption, ProductType DEF kTileElems
<1> DEFINE e == d.end
           a == e + kTileElems - 1
           q == a \div kTileElems
<1>2. a \in Nat /\ q \in Nat /\ a < kTileElems * (q + 1) /\ aligned(d) = q * kTileElems
  BY <1>1 DEF aligned
<1>3. q * kTileElems \in Nat /\ q * kTileElems >= e
  <2> HIDE DEF q
  <2> QED
    BY <1>1, <1>2
<1> QED
  BY <1>2, <1>3

\* allocate() keeps what is there and appends the image.
LEMMA Allocates ==
  ASSUME NEW d, d.end \in Nat, d.words \in Seq(DataWord), Len(d.words) = d.end,
         NEW words \in Nat, NEW image \in Seq(DataWord), Len(image) = words
  PROVE  LET e == allocate(d, words, image) IN
         /\ aligned(d) \in Nat /\ aligned(d) >= d.end
         /\ e.end = aligned(d) + words /\ e.end \in Nat
         /\ e.words \in Seq(DataWord) /\ Len(e.words) = e.end
         /\ \A k \in 1 .. d.end : e.words[k] = d.words[k]
         /\ \A k \in 1 .. words : e.words[aligned(d) + k] = image[k]
<1> DEFINE gap == aligned(d) - d.end
           zeros == Zeros(gap)
           front == d.words \o zeros
<1>1. aligned(d) \in Nat /\ aligned(d) >= d.end /\ gap \in Nat
  BY AlignedType
<1>2. zeros \in Seq(DataWord) /\ Len(zeros) = gap
  <2> HIDE DEF gap
  <2>1. zeros \in [1 .. gap -> DataWord]
    BY <1>1 DEF Zeros, DataWord
  <2> QED
    BY <1>1, <2>1 DEF Zeros
<1> HIDE DEF zeros
<1>3. /\ front \in Seq(DataWord) /\ Len(front) = aligned(d)
      /\ \A k \in 1 .. d.end : front[k] = d.words[k]
  <2>1. /\ front \in Seq(DataWord) /\ Len(front) = Len(d.words) + Len(zeros)
        /\ \A k \in 1 .. Len(d.words) : front[k] = d.words[k]
    BY <1>2, ConcatTwo
  <2> HIDE DEF front
  <2>2. d.end + gap = aligned(d)
    BY <1>1
  <2> QED
    BY <1>2, <2>1, <2>2
<1>4. allocate(d, words, image) = [words |-> front \o image, end |-> aligned(d) + words]
  BY DEF allocate, zeros
<1> HIDE DEF front
<1>5. /\ front \o image \in Seq(DataWord) /\ Len(front \o image) = aligned(d) + words
      /\ \A k \in 1 .. aligned(d) : (front \o image)[k] = front[k]
      /\ \A k \in 1 .. words : (front \o image)[aligned(d) + k] = image[k]
  <2>1. front \o image \in Seq(DataWord) /\ Len(front \o image) = Len(front) + Len(image)
    BY <1>3, ConcatTwo
  <2>2. \A k \in 1 .. Len(front) : (front \o image)[k] = front[k]
    BY <1>3, ConcatTwo
  <2>3. \A k \in 1 .. Len(image) : (front \o image)[Len(front) + k] = image[k]
    BY <1>3, ConcatTwo
  <2> QED
    BY <1>3, <2>1, <2>2, <2>3
<1>6. \A k \in 1 .. d.end : (front \o image)[k] = d.words[k]
  BY <1>1, <1>3, <1>5
<1>7. aligned(d) + words \in Nat
  BY <1>1
<1> DEFINE whole == front \o image
<1> HIDE DEF whole, gap
<1>8. allocate(d, words, image).words = whole
      /\ allocate(d, words, image).end = aligned(d) + words
  BY <1>4 DEF whole
<1>9. /\ whole \in Seq(DataWord) /\ Len(whole) = aligned(d) + words
      /\ \A k \in 1 .. d.end : whole[k] = d.words[k]
      /\ \A k \in 1 .. words : whole[aligned(d) + k] = image[k]
  BY <1>5, <1>6 DEF whole
<1> QED
  BY <1>1, <1>7, <1>8, <1>9

LEMMA ConstantImage ==
  ASSUME NEW x \in DataWord
  PROVE  /\ constantTile(x) \in Seq(DataWord) /\ Len(constantTile(x)) = kTileElems
         /\ kTileElems \in Nat
         /\ \A c \in 0 .. kTileElems - 1 : OffDiagonal(c) => constantTile(x)[c + 1] = 0
<1>1. kTileElems \in Nat \ {0} /\ kTileDim \in Nat \ {0}
  BY IRAssumption, ProductType DEF kTileElems
<1>2. constantTile(x) \in [1 .. kTileElems -> DataWord]
  BY DEF constantTile, DataWord
<1>3. Len(constantTile(x)) = kTileElems
  BY <1>1 DEF constantTile
<1>4. ASSUME NEW c \in 0 .. kTileElems - 1, OffDiagonal(c)
      PROVE  constantTile(x)[c + 1] = 0
  <2>1. c + 1 \in 1 .. kTileElems /\ c + 1 - 1 = c
    BY <1>1
  <2> QED
    BY <1>4, <2>1 DEF constantTile, OffDiagonal
<1> QED
  BY <1>1, <1>2, <1>3, <1>4

LEMMA TensorImage ==
  ASSUME FnInv, NEW p \in DOMAIN heap
  PROVE  LET s == heap[p].shape IN
         /\ imageOf(p) \in Seq(DataWord) /\ Len(imageOf(p)) = bufferWords(s)
         /\ bufferWords(s) \in Nat
         /\ \A k \in 0 .. bufferWords(s) - 1 : DeadWord(s, k) => imageOf(p)[k + 1] = 0
<1> DEFINE s == heap[p].shape
           n == bufferWords(s)
           word(k) == IF (k % batchWords(s)) \div pad(s.cols) < s.rows /\ k % pad(s.cols) < s.cols
                      THEN LeafWord(p, ((k \div batchWords(s)) * s.rows
                                        + (k % batchWords(s)) \div pad(s.cols)) * s.cols
                                       + (k % pad(s.cols)))
                      ELSE 0
<1>1. s \in TensorShape /\ p \in Pointer
  BY FnFacts
<1>2. /\ s.rows \in Nat \ {0} /\ s.cols \in Nat \ {0} /\ pad(s.rows) \in Nat \ {0}
      /\ pad(s.cols) \in Nat \ {0} /\ batchWords(s) \in Nat \ {0} /\ n \in Nat \ {0}
      /\ batchWords(s) = pad(s.rows) * pad(s.cols)
  BY <1>1, WordsType DEF batchWords
<1>3. \A k \in Int : word(k) \in DataWord
  <2> SUFFICES ASSUME NEW k \in Int PROVE word(k) \in DataWord
    OBVIOUS
  <2>1. k \div batchWords(s) \in Int /\ k % batchWords(s) \in Int
        /\ k % pad(s.cols) \in Int
    BY <1>2
  <2>2. (k % batchWords(s)) \div pad(s.cols) \in Int
    BY <1>2, <2>1
  <2> DEFINE i == ((k \div batchWords(s)) * s.rows + (k % batchWords(s)) \div pad(s.cols)) * s.cols
                   + (k % pad(s.cols))
  <2>3. i \in Int
    BY <1>2, <2>1, <2>2
  <2> HIDE DEF i
  <2>4. LeafWord(p, i) \in DataWord /\ 0 \in DataWord
    BY <1>1, <2>3 DEF DataWord
  <2> QED
    BY <2>4 DEF i
<1>4. \A k \in 0 .. n - 1 : DeadWord(s, k) => word(k) = 0
  <2> SUFFICES ASSUME NEW k \in 0 .. n - 1, DeadWord(s, k) PROVE word(k) = 0
    OBVIOUS
  <2> DEFINE w == k % batchWords(s)
  <2>1. w \in Int /\ k \in Int /\ k % pad(s.cols) \in Int
    BY <1>2
  <2>2. w % pad(s.cols) = k % pad(s.cols)
    <3> DEFINE q == k \div batchWords(s)
               u == w \div pad(s.cols)
               v == w % pad(s.cols)
               P == pad(s.rows)
               C == pad(s.cols)
    <3>1. k = batchWords(s) * q + w /\ q \in Int
      <4> DEFINE B == batchWords(s)
      <4>1. B \in Nat \ {0} /\ k \in Int
        BY <1>2, <2>1
      <4> HIDE DEF B, n
      <4>2. k = B * (k \div B) + (k % B) /\ k \div B \in Int
        BY <4>1
      <4> QED
        BY <4>2 DEF B
    <3>2. w = C * u + v /\ u \in Int /\ v \in 0 .. C - 1
      <4>1. C \in Nat \ {0} /\ w \in Int
        BY <1>2, <2>1
      <4> HIDE DEF C, w, n
      <4>2. w = C * (w \div C) + (w % C) /\ w \div C \in Int /\ w % C \in 0 .. C - 1
        BY <4>1
      <4> QED
        BY <4>2 DEF C
    <3>3. k = (P * q + u) * C + v
      <4> HIDE DEF q, u, v, w, P, C
      <4> QED
        BY <1>2, <2>1, <3>1, <3>2 DEF P, C
    <3>4. P * q + u \in Int
      BY <1>2, <3>1, <3>2
    <3> HIDE DEF v, u, q, P
    <3>5. ((P * q + u) * C + v) % C = v
      BY <1>2, <3>2, <3>4, DivMod
    <3> QED
      BY <3>3, <3>5 DEF v
  <2>3. ~(w \div pad(s.cols) < s.rows /\ k % pad(s.cols) < s.cols)
    <3>1. w \div pad(s.cols) \in Int
      BY <1>2, <2>1
    <3> QED
      BY <1>2, <2>1, <2>2, <3>1 DEF DeadWord
  <2> QED
    BY <2>3
<1> DEFINE leaf == heap[p].kind \in LeafKinds
<1>5. imageOf(p) = IF leaf THEN [k \in 1 .. n |-> word(k - 1)] ELSE [k \in 1 .. n |-> 0]
  <2>1. n \in Nat
    BY <1>2
  <2> QED
    BY Zenon DEF imageOf, Zeros
<1> HIDE DEF word
<1>6. imageOf(p) \in [1 .. n -> DataWord] /\ Len(imageOf(p)) = n
  <2>1. \A k \in 1 .. n : word(k - 1) \in DataWord /\ 0 \in DataWord
    BY <1>2, <1>3 DEF DataWord
  <2> HIDE DEF n
  <2> QED
    BY <1>2, <1>5, <2>1
<1>7. ASSUME NEW k \in 0 .. n - 1, DeadWord(s, k)
      PROVE  imageOf(p)[k + 1] = 0
  <2>1. k + 1 \in 1 .. n /\ k + 1 - 1 = k
    BY <1>2
  <2> HIDE DEF n
  <2> QED
    BY <1>4, <1>5, <1>7, <2>1 DEF n
<1> QED
  BY <1>2, <1>6, <1>7

\* What was in the data section stays when it grows.
LEMMA StaysInData ==
  ASSUME NEW d, NEW e, d.end \in Nat, e.end \in Nat, d.end <= e.end,
         \A k \in 1 .. d.end : e.words[k] = d.words[k]
  PROVE  /\ \A t : ConstantAt(d, t) => ConstantAt(e, t)
         /\ FnInv => \A p, buf : BufferAt(d, p, buf) => BufferAt(e, p, buf)
<1>1. ASSUME NEW t, ConstantAt(d, t)
      PROVE  ConstantAt(e, t)
  <2>1. kTileElems \in Nat
    BY IRAssumption, ProductType DEF kTileElems
  <2>2. t \in Nat /\ t + kTileElems <= d.end
    BY <1>1 DEF ConstantAt
  <2>3. \A c \in 0 .. kTileElems - 1 : t + c + 1 \in 1 .. d.end
    BY <2>1, <2>2
  <2>4. t + kTileElems <= e.end
    BY <2>1, <2>2
  <2> QED
    BY <1>1, <2>2, <2>3, <2>4 DEF ConstantAt
<1>2. ASSUME FnInv, NEW p, NEW buf, BufferAt(d, p, buf)
      PROVE  BufferAt(e, p, buf)
  <2> DEFINE n == bufferWords(heap[p].shape)
             a == buf.addr
  <2>1. p \in DOMAIN heap /\ buf = bufferFor(p, a) /\ a \in Nat /\ a + n <= d.end
    BY <1>2 DEF BufferAt
  <2>2. n \in Nat
    BY <1>2, <2>1, FnFacts, WordsType
  <2>3. \A k \in 0 .. n - 1 : DeadWord(heap[p].shape, k) => d.words[a + k + 1] = 0
    BY <1>2 DEF BufferAt
  <2>4. \A k \in 0 .. n - 1 : a + k + 1 \in 1 .. d.end
    <3> HIDE DEF n, a
    <3> QED
      BY <2>1, <2>2
  <2>5. a + n <= e.end
    <3> HIDE DEF n, a
    <3> QED
      BY <2>1, <2>2
  <2>6. \A k \in 0 .. n - 1 : DeadWord(heap[p].shape, k) => e.words[a + k + 1] = 0
    BY <2>3, <2>4
  <2> QED
    BY <2>1, <2>5, <2>6 DEF BufferAt
<1> QED
  BY <1>1, <1>2

LEMMA EmptyLayout ==
  ASSUME NEW consts, consts = {}
  PROVE  Layout(<< >>, consts, [words |-> << >>, end |-> 0])
<1> DEFINE d == [words |-> << >>, end |-> 0]
<1>1. d.words = << >> /\ d.end = 0
  OBVIOUS
<1>2. d.words \in Seq(DataWord) /\ Len(d.words) = 0
  BY <1>1
<1> HIDE DEF d
<1>3. DOMAIN << >> = {}
  OBVIOUS
<1> QED
  BY <1>1, <1>2, <1>3 DEF Layout, d

LEMMA AddConstant ==
  ASSUME FnInv, NEW bufs, NEW consts, NEW d, Layout(bufs, consts, d), NEW x \in DataWord
  PROVE  Layout(bufs, consts \cup {aligned(d)}, allocate(d, kTileElems, constantTile(x)))
<1> DEFINE e == allocate(d, kTileElems, constantTile(x))
           a == aligned(d)
<1>1. d.end \in Nat /\ d.words \in Seq(DataWord) /\ Len(d.words) = d.end
  BY DEF Layout
<1>2. /\ constantTile(x) \in Seq(DataWord) /\ Len(constantTile(x)) = kTileElems
      /\ kTileElems \in Nat
      /\ \A c \in 0 .. kTileElems - 1 : OffDiagonal(c) => constantTile(x)[c + 1] = 0
  BY ConstantImage
<1>3. /\ a \in Nat /\ a >= d.end /\ e.end = a + kTileElems /\ e.end \in Nat
      /\ e.words \in Seq(DataWord) /\ Len(e.words) = e.end
      /\ \A k \in 1 .. d.end : e.words[k] = d.words[k]
      /\ \A k \in 1 .. kTileElems : e.words[a + k] = constantTile(x)[k]
  BY <1>1, <1>2, Allocates
<1> HIDE DEF e, a
<1>4. d.end <= e.end
  BY <1>1, <1>2, <1>3
<1>5. ConstantAt(e, a)
  <2>1. ASSUME NEW c \in 0 .. kTileElems - 1, OffDiagonal(c)
        PROVE  e.words[a + c + 1] = 0
    <3>1. c + 1 \in 1 .. kTileElems /\ a + c + 1 = a + (c + 1)
      BY <1>2, <1>3
    <3> QED
      BY <1>2, <1>3, <2>1, <3>1
  <2> QED
    BY <1>3, <2>1 DEF ConstantAt
<1>6. ASSUME NEW p \in DOMAIN bufs
      PROVE  /\ BufferAt(e, p, bufs[p])
             /\ Apart(a, kTileElems, bufs[p].addr, bufferWords(heap[p].shape))
  <2>1. BufferAt(d, p, bufs[p])
    BY DEF Layout
  <2>2. BufferAt(e, p, bufs[p])
    BY <1>1, <1>3, <1>4, <2>1, StaysInData
  <2>3. bufs[p].addr \in Nat /\ bufs[p].addr + bufferWords(heap[p].shape) <= d.end
        /\ p \in DOMAIN heap
    BY <2>1 DEF BufferAt
  <2>4. bufferWords(heap[p].shape) \in Nat
    BY <2>3, FnFacts, WordsType
  <2>5. bufs[p].addr + bufferWords(heap[p].shape) <= a
    BY <1>1, <1>3, <2>3, <2>4
  <2> QED
    BY <2>2, <2>5 DEF Apart
<1>7. \A t \in consts : ConstantAt(e, t)
  BY <1>1, <1>3, <1>4, StaysInData DEF Layout
<1>8. \A p \in DOMAIN bufs : \A t \in consts \cup {a} :
        Apart(t, kTileElems, bufs[p].addr, bufferWords(heap[p].shape))
  <2>1. \A p \in DOMAIN bufs :
          Apart(a, kTileElems, bufs[p].addr, bufferWords(heap[p].shape))
    BY <1>6
  <2>2. \A p \in DOMAIN bufs : \A t \in consts :
          Apart(t, kTileElems, bufs[p].addr, bufferWords(heap[p].shape))
    BY DEF Layout
  <2> QED
    BY <2>1, <2>2
<1>9. \A p \in DOMAIN bufs : \A q \in DOMAIN bufs : q # p =>
        Apart(bufs[p].addr, bufferWords(heap[p].shape), bufs[q].addr, bufferWords(heap[q].shape))
  BY DEF Layout
<1>10. \A p \in DOMAIN bufs : BufferAt(e, p, bufs[p])
  BY <1>6
<1>11. \A t \in consts \cup {a} : ConstantAt(e, t)
  BY <1>5, <1>7
<1> QED
  BY <1>3, <1>8, <1>9, <1>10, <1>11 DEF Layout, e, a

LEMMA AddBuffer ==
  ASSUME FnInv, NEW bufs, NEW consts, NEW d, Layout(bufs, consts, d), NEW p \in DOMAIN heap
  PROVE  Layout(put(bufs, p, bufferFor(p, aligned(d))), consts,
                allocate(d, bufferWords(heap[p].shape), imageOf(p)))
<1> DEFINE n == bufferWords(heap[p].shape)
           e == allocate(d, n, imageOf(p))
           a == aligned(d)
           new == put(bufs, p, bufferFor(p, a))
<1>1. d.end \in Nat /\ d.words \in Seq(DataWord) /\ Len(d.words) = d.end
  BY DEF Layout
<1>2. /\ imageOf(p) \in Seq(DataWord) /\ Len(imageOf(p)) = n /\ n \in Nat
      /\ \A k \in 0 .. n - 1 : DeadWord(heap[p].shape, k) => imageOf(p)[k + 1] = 0
  BY TensorImage
<1>3. /\ a \in Nat /\ a >= d.end /\ e.end = a + n /\ e.end \in Nat
      /\ e.words \in Seq(DataWord) /\ Len(e.words) = e.end
      /\ \A k \in 1 .. d.end : e.words[k] = d.words[k]
      /\ \A k \in 1 .. n : e.words[a + k] = imageOf(p)[k]
  <2> HIDE DEF n
  <2> QED
    BY <1>1, <1>2, Allocates
<1>4. /\ DOMAIN new = DOMAIN bufs \cup {p} /\ new[p] = bufferFor(p, a)
      /\ \A q \in DOMAIN bufs : q # p => new[q] = bufs[q]
  BY DEF put
<1>5. new[p].addr = a /\ new[p] = bufferFor(p, new[p].addr)
  BY <1>4 DEF bufferFor
<1>6. \A q \in DOMAIN bufs : /\ q \in DOMAIN heap /\ bufferWords(heap[q].shape) \in Nat
                             /\ bufs[q].addr \in Nat
                             /\ bufs[q].addr + bufferWords(heap[q].shape) <= d.end
  <2>1. \A q \in DOMAIN heap : bufferWords(heap[q].shape) \in Nat
    BY FnFacts, WordsType
  <2> QED
    BY <2>1 DEF Layout, BufferAt
<1> HIDE DEF e, a, new, n
<1>7. d.end <= e.end
  BY <1>1, <1>2, <1>3
<1>8. \A t \in consts : ConstantAt(e, t) /\ t \in Nat /\ t + kTileElems <= d.end
  <2>1. \A t \in consts : ConstantAt(d, t)
    BY DEF Layout
  <2>2. \A t : ConstantAt(d, t) => ConstantAt(e, t)
    BY <1>1, <1>3, <1>7, StaysInData
  <2>3. \A t \in consts : t \in Nat /\ t + kTileElems <= d.end
    BY <2>1 DEF ConstantAt
  <2> QED
    BY <2>1, <2>2, <2>3
<1>9. BufferAt(e, p, new[p])
  <2>1. ASSUME NEW k \in 0 .. n - 1, DeadWord(heap[p].shape, k)
        PROVE  e.words[a + k + 1] = 0
    <3>1. k + 1 \in 1 .. n /\ a + k + 1 = a + (k + 1)
      BY <1>2, <1>3
    <3> QED
      BY <1>2, <1>3, <2>1, <3>1
  <2> QED
    BY <1>3, <1>5, <2>1 DEF BufferAt, n
<1>10. \A q \in DOMAIN bufs : BufferAt(e, q, bufs[q])
  BY <1>1, <1>3, <1>7, StaysInData DEF Layout
<1>11. \A q \in DOMAIN new : BufferAt(e, q, new[q])
  BY <1>4, <1>9, <1>10
<1>12. kTileElems \in Nat
  BY IRAssumption, ProductType DEF kTileElems
<1>13. \A q \in DOMAIN new : \A t \in consts :
         Apart(t, kTileElems, new[q].addr, bufferWords(heap[q].shape))
  <2>1. \A t \in consts : Apart(t, kTileElems, new[p].addr, bufferWords(heap[p].shape))
    BY <1>1, <1>3, <1>5, <1>8, <1>12 DEF Apart
  <2>2. \A q \in DOMAIN bufs : \A t \in consts :
          Apart(t, kTileElems, bufs[q].addr, bufferWords(heap[q].shape))
    BY DEF Layout
  <2> QED
    BY <1>4, <2>1, <2>2
<1>14. ASSUME NEW q \in DOMAIN new, NEW r \in DOMAIN new, r # q
       PROVE  Apart(new[q].addr, bufferWords(heap[q].shape),
                    new[r].addr, bufferWords(heap[r].shape))
  <2>1. CASE q # p /\ r # p
    BY <1>4, <1>14, <2>1 DEF Layout
  <2>2. CASE q = p
    <3>1. r \in DOMAIN bufs /\ new[r] = bufs[r]
      BY <1>4, <1>14, <2>2
    <3>2. bufs[r].addr + bufferWords(heap[r].shape) <= a
      BY <1>1, <1>3, <1>6, <3>1
    <3> QED
      BY <1>5, <2>2, <3>1, <3>2 DEF Apart
  <2>3. CASE r = p
    <3>1. q \in DOMAIN bufs /\ new[q] = bufs[q]
      BY <1>4, <1>14, <2>3
    <3>2. bufs[q].addr + bufferWords(heap[q].shape) <= a
      BY <1>1, <1>3, <1>6, <3>1
    <3> QED
      BY <1>5, <2>3, <3>1, <3>2 DEF Apart
  <2> QED
    BY <2>1, <2>2, <2>3
<1>15. Layout(new, consts, e)
  BY <1>3, <1>8, <1>11, <1>13, <1>14 DEF Layout
<1> QED
  BY <1>15 DEF new, e, a, n

LEMMA FewerConstants ==
  ASSUME NEW bufs, NEW consts, NEW d, Layout(bufs, consts, d), NEW fewer \in SUBSET consts
  PROVE  Layout(bufs, fewer, d)
<1>1. \A t \in fewer : ConstantAt(d, t)
  BY DEF Layout
<1>2. \A p \in DOMAIN bufs : \A t \in fewer :
        Apart(t, kTileElems, bufs[p].addr, bufferWords(heap[p].shape))
  BY DEF Layout
<1> QED
  BY <1>1, <1>2 DEF Layout

LEMMA LayoutIdentitiesKeeps ==
  ASSUME IRLayers, LayoutInv, LayoutIdentities
  PROVE  LayoutInv'
<1>1. FnInv /\ Len(ops) \in Nat /\ Ops = DOMAIN heap
  BY FnFacts DEF IRLayers, IRInv
<1> DEFINE sub == \E p \in Ops : heap[p].kind = "Sub"
           add == sub \/ \E p \in Ops : heap[p].kind = "Add"
           one == IF add THEN allocate(data, kTileElems, constantTile(1)) ELSE data
           plus == IF add THEN aligned(data) ELSE -1
           minus == IF sub THEN aligned(one) ELSE -1
           two == IF sub THEN allocate(one, kTileElems, constantTile(-1)) ELSE one
<1>2. /\ section = "none" /\ section' = "data" /\ position' = 1
      /\ identity' = [plus |-> plus, minus |-> minus] /\ data' = two
      /\ UNCHANGED <<vars, buffers, scaleAddr>>
  BY DEF LayoutIdentities, Generating
<1>3. buffers = << >> /\ scaleAddr = << >> /\ data = [words |-> << >>, end |-> 0]
  BY <1>2 DEF LayoutInv
<1>4. Layout(buffers, {}, data)
  BY <1>3, EmptyLayout
<1>5. 1 \in DataWord /\ -1 \in DataWord
  BY DEF DataWord
<1>6. Layout(buffers, {plus} \ {-1}, one)
  <2>1. CASE add
    <3>1. Layout(buffers, {} \cup {aligned(data)}, allocate(data, kTileElems, constantTile(1)))
      BY <1>1, <1>4, <1>5, AddConstant
    <3>2. one = allocate(data, kTileElems, constantTile(1)) /\ plus = aligned(data)
      BY <2>1
    <3>3. {plus} \ {-1} \in SUBSET ({} \cup {aligned(data)})
      BY <3>2
    <3> QED
      BY <3>1, <3>2, <3>3, FewerConstants
  <2>2. CASE ~add
    <3>1. one = data /\ plus = -1
      BY <2>2
    <3>2. {plus} \ {-1} = {}
      BY <3>1
    <3> QED
      BY <1>4, <3>1, <3>2
  <2> QED
    BY <2>1, <2>2
<1>7. data.end \in Nat /\ one.end \in Nat
  BY <1>4, <1>6 DEF Layout
<1>8. plus \in Nat \cup {-1} /\ minus \in Nat \cup {-1}
      /\ (add => plus # -1) /\ (sub => minus # -1)
  <2>1. aligned(data) \in Nat /\ aligned(one) \in Nat
    BY <1>7, AlignedType
  <2> QED
    BY <2>1
<1> HIDE DEF one, plus
<1>9. Layout(buffers, {plus, minus} \ {-1}, two)
  <2>1. CASE sub
    <3>1. Layout(buffers, ({plus} \ {-1}) \cup {aligned(one)},
                 allocate(one, kTileElems, constantTile(-1)))
      BY <1>1, <1>5, <1>6, AddConstant
    <3>2. two = allocate(one, kTileElems, constantTile(-1)) /\ minus = aligned(one)
      BY <2>1
    <3>3. {plus, minus} \ {-1} \in SUBSET (({plus} \ {-1}) \cup {aligned(one)})
      BY <3>2
    <3> QED
      BY <3>1, <3>2, <3>3, FewerConstants
  <2>2. CASE ~sub
    <3>1. two = one /\ minus = -1
      BY <2>2
    <3>2. {plus, minus} \ {-1} = {plus} \ {-1}
      BY <3>1
    <3> QED
      BY <1>6, <3>1, <3>2
  <2> QED
    BY <2>1, <2>2
<1> HIDE DEF two, minus
<1>10. Constants' = {plus, minus} \ {-1}
  BY <1>2, <1>3 DEF Constants
<1>11. Layout(buffers, Constants, data)'
  <2>1. heap' = heap /\ buffers' = buffers /\ data' = two
    BY <1>2 DEF vars, fn
  <2> QED
    BY <1>9, <1>10, <2>1 DEF Layout, BufferAt, ConstantAt, bufferFor
<1>12. IdentityInv'
  <2>1. heap' = heap /\ Ops' = Ops
    BY <1>2 DEF vars, fn, Ops
  <2>2. identity'.plus = plus /\ identity'.minus = minus
    BY <1>2
  <2>3. \A p \in Ops : /\ heap[p].kind = "Add" => plus # -1
                       /\ heap[p].kind = "Sub" => minus # -1
    BY <1>8
  <2> QED
    BY <1>8, <2>1, <2>2, <2>3 DEF IdentityInv
<1>13. position' \in 1 .. Len(ops') + 1 /\ Placed(position - 1)'
  <2>1. Len(ops') = Len(ops)
    BY <1>2 DEF vars, fn
  <2> QED
    BY <1>1, <1>2, <2>1 DEF Placed
<1> QED
  BY <1>2, <1>11, <1>12, <1>13 DEF LayoutInv

LEMMA LayoutOpKeeps ==
  ASSUME IRLayers, LayoutInv, LayoutOp
  PROVE  LayoutInv'
<1>1. /\ FnInv /\ Len(ops) \in Nat /\ Ops = DOMAIN heap
      /\ \A k \in 1 .. Len(ops) : ops[k] \in DOMAIN heap
  BY FnFacts DEF IRLayers, IRInv
<1> DEFINE p == ops[position]
           isScale == heap[p].kind = "ScalarMul"
           needs == needsBuffer(heap[p].kind)
           scale == IF isScale THEN allocate(data, kTileElems, constantTile(Factor(p))) ELSE data
<1>2. /\ section = "data" /\ section' = "data" /\ position' = position + 1
      /\ position <= Len(ops) /\ UNCHANGED <<vars, identity>>
      /\ scaleAddr' = IF isScale THEN put(scaleAddr, p, aligned(data)) ELSE scaleAddr
      /\ data' = IF needs THEN allocate(scale, bufferWords(heap[p].shape), imageOf(p)) ELSE scale
      /\ buffers' = IF needs THEN put(buffers, p, bufferFor(p, aligned(scale))) ELSE buffers
  BY DEF LayoutOp, Generating
<1>3. /\ Layout(buffers, Constants, data) /\ IdentityInv
      /\ position \in 1 .. Len(ops) /\ Placed(position - 1)
  BY <1>1, <1>2 DEF LayoutInv
<1>4. p \in DOMAIN heap /\ p \in Pointer
  BY <1>1, <1>3, FnFacts
<1> HIDE DEF p
<1>5. Constants' \subseteq IF isScale THEN Constants \cup {aligned(data)} ELSE Constants
  <2>1. identity' = identity
    BY <1>2
  <2>2. CASE ~isScale
    BY <1>2, <2>1, <2>2 DEF Constants
  <2>3. CASE isScale
    <3>1. scaleAddr' = put(scaleAddr, p, aligned(data))
      BY <1>2, <2>3
    <3>2. \A q \in DOMAIN scaleAddr' :
            \/ scaleAddr'[q] = aligned(data)
            \/ q \in DOMAIN scaleAddr /\ scaleAddr'[q] = scaleAddr[q]
      BY <3>1 DEF put
    <3>3. \A t \in Constants' : t \in Constants \/ t = aligned(data)
      BY <2>1, <3>2 DEF Constants
    <3> QED
      BY <2>3, <3>3
  <2> QED
    BY <2>2, <2>3
<1>6. Layout(buffers, Constants', scale)
  <2>1. CASE isScale
    <3>1. Factor(p) \in DataWord
      BY <1>4 DEF DataWord
    <3>2. Layout(buffers, Constants \cup {aligned(data)},
                 allocate(data, kTileElems, constantTile(Factor(p))))
      BY <1>1, <1>3, <3>1, AddConstant
    <3>3. scale = allocate(data, kTileElems, constantTile(Factor(p)))
      BY <2>1
    <3> QED
      BY <1>5, <2>1, <3>2, <3>3, FewerConstants
  <2>2. CASE ~isScale
    <3>1. scale = data /\ Constants' \in SUBSET Constants
      BY <1>5, <2>2
    <3> QED
      BY <1>3, <3>1, FewerConstants
  <2> QED
    BY <2>1, <2>2
<1> HIDE DEF scale
<1>7. Layout(buffers', Constants', data')
  <2>1. CASE needs
    <3>1. Layout(put(buffers, p, bufferFor(p, aligned(scale))), Constants',
                 allocate(scale, bufferWords(heap[p].shape), imageOf(p)))
      BY <1>1, <1>4, <1>6, AddBuffer
    <3> QED
      BY <1>2, <2>1, <3>1
  <2>2. CASE ~needs
    BY <1>2, <1>6, <2>2
  <2> QED
    BY <2>1, <2>2
<1>8. heap' = heap /\ ops' = ops /\ Ops' = Ops
  BY <1>2 DEF vars, fn, Ops
<1>9. Layout(buffers, Constants, data)'
  BY <1>7, <1>8 DEF Layout, BufferAt, ConstantAt, bufferFor
<1>10. IdentityInv'
  BY <1>2, <1>3, <1>8 DEF IdentityInv
<1>11. position' \in 1 .. Len(ops') + 1 /\ Placed(position - 1)'
  <2>1. position' - 1 = position /\ position' \in 1 .. Len(ops') + 1
    BY <1>1, <1>2, <1>3, <1>8
  <2> SUFFICES ASSUME NEW k \in 1 .. position
               PROVE  /\ needsBuffer(heap[ops[k]].kind) => ops[k] \in DOMAIN buffers'
                      /\ heap[ops[k]].kind = "ScalarMul" => ops[k] \in DOMAIN scaleAddr'
    BY <1>8, <2>1 DEF Placed
  <2>2. DOMAIN buffers \subseteq DOMAIN buffers' /\ DOMAIN scaleAddr \subseteq DOMAIN scaleAddr'
        /\ (needs => p \in DOMAIN buffers') /\ (isScale => p \in DOMAIN scaleAddr')
    BY <1>2 DEF put
  <2>3. CASE k = position
    BY <2>2, <2>3 DEF p
  <2>4. CASE k # position
    <3>1. k \in 1 .. position - 1
      BY <1>3, <2>4
    <3> QED
      BY <1>3, <2>2, <3>1 DEF Placed
  <2> QED
    BY <2>3, <2>4
<1> QED
  BY <1>2, <1>9, <1>10, <1>11 DEF LayoutInv

LEMMA InitLayout == PipelineInit => LayoutInv
BY DEF PipelineInit, GenInit, LayoutInv

LEMMA SameLayout ==
  ASSUME LayoutInv, UNCHANGED <<fn, section, position, layoutVars>>
  PROVE  LayoutInv'
<1>1. /\ heap' = heap /\ ops' = ops /\ Ops' = Ops /\ section' = section /\ position' = position
      /\ buffers' = buffers /\ identity' = identity /\ scaleAddr' = scaleAddr /\ data' = data
  BY DEF fn, layoutVars, Ops
<1>2. Constants' = Constants
  BY <1>1 DEF Constants
<1>3. Layout(buffers, Constants, data) => Layout(buffers, Constants, data)'
  BY <1>1, <1>2 DEF Layout, BufferAt, ConstantAt, bufferFor
<1>4. \A n : Placed(n) => Placed(n)'
  BY <1>1 DEF Placed
<1>5. IdentityInv => IdentityInv'
  BY <1>1 DEF IdentityInv
<1>6. position' - 1 = position - 1 /\ Len(ops') = Len(ops)
  BY <1>1
<1> QED
  BY <1>1, <1>3, <1>4, <1>5, <1>6 DEF LayoutInv, Placed

LEMMA TextKeepsLayout ==
  ASSUME IRLayers, LayoutInv,
         prologue \/ LowerNothing \/ LowerTiles \/ LowerSoftmax \/ LowerToPrint
  PROVE  LayoutInv'
<1>1. FnInv /\ Len(ops) \in Nat
  BY FnFacts DEF IRLayers, IRInv
<1>2. UNCHANGED <<fn, layoutVars>> /\ section' = "text"
  BY DEF prologue, LowerNothing, LowerTiles, LowerSoftmax, LowerToPrint, LoweringOp, Emitted,
     Generating, vars
<1>3. section # "none" /\ Placed(Len(ops)) /\ position' \in 1 .. Len(ops) + 1
  <2>1. CASE prologue
    <3>1. section = "data" /\ position > Len(ops) /\ position' = 1
      BY <2>1 DEF prologue, Generating
    <3>2. position \in 1 .. Len(ops) + 1 /\ Placed(position - 1)
      BY <3>1 DEF LayoutInv
    <3>3. position - 1 = Len(ops)
      BY <1>1, <3>1, <3>2
    <3> QED
      BY <1>1, <3>1, <3>2, <3>3
  <2>2. CASE LowerNothing \/ LowerTiles \/ LowerSoftmax \/ LowerToPrint
    <3>1. section = "text" /\ position \in 1 .. Len(ops) /\ position' = position + 1
      BY <2>2 DEF LowerNothing, LowerTiles, LowerSoftmax, LowerToPrint, LoweringOp, Emitted,
         Generating
    <3> QED
      BY <1>1, <3>1 DEF LayoutInv
  <2> QED
    BY <2>1, <2>2
<1>4. /\ heap' = heap /\ ops' = ops /\ Ops' = Ops
      /\ buffers' = buffers /\ identity' = identity /\ scaleAddr' = scaleAddr /\ data' = data
  BY <1>2 DEF fn, layoutVars, Ops
<1>5. Constants' = Constants /\ Len(ops') = Len(ops)
  BY <1>4 DEF Constants
<1>6. Layout(buffers, Constants, data)'
  BY <1>3, <1>4, <1>5 DEF LayoutInv, Layout, BufferAt, ConstantAt, bufferFor
<1>7. Placed(Len(ops))' /\ IdentityInv'
  BY <1>3, <1>4, <1>5 DEF LayoutInv, Placed, IdentityInv
<1> QED
  BY <1>2, <1>3, <1>5, <1>6, <1>7 DEF LayoutInv

LEMMA LayoutStep ==
  ASSUME IRLayers, PhasesInv, LayoutInv, [PipelineNext]_allVars
  PROVE  LayoutInv'
<1>1. CASE UNCHANGED allVars
  BY <1>1, SameLayout DEF allVars, genVars, layoutVars, vars, fn
<1>2. CASE LowerNext \/ Accept \/ Optimise
  <2>1. stage # "done" /\ UNCHANGED genVars
    BY <1>2 DEF LowerNext, Lowering, Accept, FinishLowering, Optimise,
       Fuse, FuseRelu, FuseAcc, KeepOp, FinishFusion, Fusing, Prune, Mark, Erase,
       Tile, VisitConsumer, StageOperand, SkipOperand, LeaveConsumer, FinishTiling, Tiling
  <2>2. section = "none" /\ section' = "none" /\ UNCHANGED <<buffers, scaleAddr, data>>
    BY <2>1 DEF PhasesInv, genVars, layoutVars
  <2> QED
    BY <2>2 DEF LayoutInv
<1>3. CASE Generate
  BY <1>3, LayoutIdentitiesKeeps, LayoutOpKeeps, TextKeepsLayout DEF Generate, GenNext
<1>4. CASE StartSimulation \/ Simulate
  BY <1>4, SameLayout DEF StartSimulation, Simulate, CompilerIdle, genVars, vars
<1>5. CASE Finished
  BY <1>1, <1>5 DEF Finished
<1> QED
  BY <1>1, <1>2, <1>3, <1>4, <1>5 DEF PipelineNext

-----------------------------------------------------------------------------
(* What the code generator may count on between two instructions.          *)
(*                                                                         *)
(* A state of knowledge has four parts: <<r, n>> in reg says that scalar   *)
(* register r holds n; <<m, h, w>> in zero, that matrix register m is zero *)
(* outside its first h rows and w columns; m in diagonal, that it is zero  *)
(* off the diagonal; <<t, h, w>> in staged, that tile t of the scratchpad  *)
(* is zero outside h rows and w columns.                                   *)

\* A claims no more than B.
Below(A, B) ==
  /\ A.reg \subseteq B.reg /\ A.zero \subseteq B.zero
  /\ A.diagonal \subseteq B.diagonal /\ A.staged \subseteq B.staged

\* The knowledge L that is left of K when matrix register m changes.
TileChanges(K, L, m, zero, diagonal) ==
  /\ L.reg \subseteq K.reg /\ L.staged \subseteq K.staged
  /\ \A x, h, w : <<x, h, w>> \in L.zero =>
       IF x = m THEN <<h, w>> \in zero ELSE <<x, h, w>> \in K.zero
  /\ \A x \in L.diagonal : IF x = m THEN diagonal ELSE x \in K.diagonal

\* When scratchpad tile t, or scalar register r, does.
StagedChanges(K, L, t, h, w) ==
  /\ L.reg \subseteq K.reg /\ L.zero \subseteq K.zero /\ L.diagonal \subseteq K.diagonal
  /\ \A u, a, b : <<u, a, b>> \in L.staged =>
       IF u = t THEN a = h /\ b = w ELSE <<u, a, b>> \in K.staged

RegisterChanges(K, L, r, n) ==
  /\ L.zero \subseteq K.zero /\ L.diagonal \subseteq K.diagonal /\ L.staged \subseteq K.staged
  /\ \A x, v : <<x, v>> \in L.reg =>
       IF x = r THEN v = n /\ n \in Sim!Word ELSE <<x, v>> \in K.reg

\* Tile (ti, tj) of matrix b of a tensor, and what is live of n rows in tile t.
TileOf(s, b, ti, tj) ==
  /\ b \in 0 .. s.batch - 1
  /\ ti \in 0 .. tilesOf(s.rows) - 1 /\ tj \in 0 .. tilesOf(s.cols) - 1
liveOf(n, t) == n - t * kTileDim

BufferTile(op, m, r, q, b, ti, tj) ==
  Move(op, m, r, tileOffset(buffers[q], b, ti, tj), strideOf(buffers[q]), FALSE)

ScratchTile(op, m, t) == Move(op, m, 0, kTileElems * t, 0, TRUE)

\* The sorts of instruction, and the part of the program's state each needs.
LoadsConstant(i, K, L) ==
  \E m \in Sim!MatrixRegs, t \in Constants :
    /\ <<i>> = Move("LOAD", m, 0, t, 0, FALSE)
    /\ TileChanges(K, L, m, {}, TRUE)

LoadsTile(p, i, K, L) ==
  p \in DOMAIN heap /\ \E q \in OperandSet(p) \cap DOMAIN buffers, m \in Sim!MatrixRegs, r \in Sim!ScalarRegs :
    \E b, ti, tj \in Int :
      /\ TileOf(heap[q].shape, b, ti, tj) /\ <<r, buffers[q].addr>> \in K.reg
      /\ <<i>> = BufferTile("LOAD", m, r, q, b, ti, tj)
      /\ TileChanges(K, L, m, {<<liveOf(heap[q].shape.rows, ti), liveOf(heap[q].shape.cols, tj)>>},
                     FALSE)

LoadsStaged(p, i, K, L) ==
  \E q \in OperandSet(p), m \in Sim!MatrixRegs, t \in 0 .. ScratchpadTiles - 1 : \E h, w :
    /\ heap[q].kind = "ScratchLoad" /\ t \in Region(Operand(q, 1))
    /\ <<t, h, w>> \in K.staged
    /\ <<i>> = ScratchTile("LOAD", m, t)
    /\ TileChanges(K, L, m, {<<h, w>>}, FALSE)

StoresTile(p, i, K, L) ==
  /\ p \in DOMAIN buffers /\ Below(L, K)
  /\ \E m \in Sim!MatrixRegs, r \in Sim!ScalarRegs : \E b, ti, tj \in Int :
       /\ TileOf(heap[p].shape, b, ti, tj) /\ <<r, buffers[p].addr>> \in K.reg
       /\ <<m, liveOf(heap[p].shape.rows, ti), liveOf(heap[p].shape.cols, tj)>> \in K.zero
       /\ <<i>> = BufferTile("STORE", m, r, p, b, ti, tj)

StoresStaged(p, i, K, L) ==
  \E m \in Sim!MatrixRegs, t \in Int : \E h, w :
    /\ heap[p].kind = "ScratchStore" /\ t \in Region(p)
    /\ <<m, h, w>> \in K.zero
    /\ <<i>> = ScratchTile("STORE", m, t)
    /\ StagedChanges(K, L, t, h, w)

\* The product of tiles x and y is zero outside h rows and w columns.
ProductOutside(K, x, y, h, w) ==
  \/ \E v, u : <<x, h, v>> \in K.zero /\ <<y, u, w>> \in K.zero
  \/ <<x, h, w>> \in K.zero /\ y \in K.diagonal

Multiplies(i, K, L) ==
  \E op \in {"MATMUL", "MATMULRELU", "MATMULACC"}, d, x, y \in Sim!MatrixRegs : \E h, w :
    /\ <<i>> = Emit(op, Mat(d), Mat(x), Mat(y))
    /\ ProductOutside(K, x, y, h, w)
    /\ op = "MATMULACC" => <<d, h, w>> \in K.zero
    /\ TileChanges(K, L, d, {<<h, w>>}, FALSE)

Maps(i, K, L) ==
  \E op \in {"RELU", "TRANSPOSE"}, d, x \in Sim!MatrixRegs : \E h, w :
    /\ <<i>> = Emit(op, Mat(d), Mat(x), ISA!NoOperand)
    /\ IF op = "RELU" THEN <<x, h, w>> \in K.zero ELSE <<x, w, h>> \in K.zero
    /\ TileChanges(K, L, d, {<<h, w>>}, FALSE)

SetsRegister(i, K, L) ==
  \E r \in 1 .. 15 : \E n :
    /\ <<i>> = Emit("ADD", Reg(r), Reg(0), Num(n))
    /\ RegisterChanges(K, L, r, n)

ShowsTensor(i, K, L) ==
  /\ <<i>> = Emit("CALL", ISA!LabelOperand(-1), ISA!NoOperand, ISA!NoOperand)
  /\ Below(L, K)

Normalises(p, i, K, L) ==
  /\ <<i>> = Emit("CALL", ISA!LabelOperand(-2), ISA!NoOperand, ISA!NoOperand)
  /\ p \in DOMAIN buffers /\ Below(L, K)
  /\ <<2, buffers[p].addr>> \in K.reg /\ <<3, heap[p].shape.batch>> \in K.reg
  /\ <<4, heap[p].shape.rows>> \in K.reg /\ <<5, heap[p].shape.cols>> \in K.reg
  /\ <<6, buffers[p].cp>> \in K.reg

\* Instruction i of op p may be executed when K is known, and L is after it.
Follows(p, i, K, L) ==
  \/ LoadsConstant(i, K, L) \/ LoadsTile(p, i, K, L) \/ LoadsStaged(p, i, K, L)
  \/ StoresTile(p, i, K, L) \/ StoresStaged(p, i, K, L)
  \/ Multiplies(i, K, L) \/ Maps(i, K, L)
  \/ SetsRegister(i, K, L) \/ ShowsTensor(i, K, L) \/ Normalises(p, i, K, L)

IsList(s) == \E S : s \in Seq(S)

\* K annotates the instructions `list`, emitted for the ops `who`.
Annotates(who, list, K) ==
  \A k \in 1 .. Len(list) : Follows(who[k], list[k], K[k], K[k + 1])

\* They take what is known from A to B.
Runs(who, A, list, B) ==
  /\ IsList(who) /\ IsList(list) /\ Len(who) = Len(list)
  /\ \E K : /\ Annotates(who, list, K)
            /\ Below(K[1], A) /\ Below(B, K[Len(list) + 1])

Executes(p, A, list, B) == Runs([k \in 1 .. Len(list) |-> p], A, list, B)

LEMMA BelowTrans ==
  ASSUME NEW A, NEW B, NEW C, Below(A, B), Below(B, C)
  PROVE  Below(A, C)
BY DEF Below

LEMMA BelowSelf == \A A : Below(A, A)
BY DEF Below

\* Less is known after an instruction than may be.
LEMMA FollowsBelow ==
  ASSUME NEW p, NEW i, NEW K, NEW L, NEW N, Follows(p, i, K, L), Below(N, L)
  PROVE  Follows(p, i, K, N)
<1>1. \A m, zero, diagonal : TileChanges(K, L, m, zero, diagonal) =>
                             TileChanges(K, N, m, zero, diagonal)
  BY DEF TileChanges, Below
<1>2. Below(L, K) => Below(N, K)
  BY BelowTrans
<1>3. LoadsConstant(i, K, L) => LoadsConstant(i, K, N)
  BY <1>1 DEF LoadsConstant
<1>4. LoadsTile(p, i, K, L) => LoadsTile(p, i, K, N)
  <2> SUFFICES ASSUME LoadsTile(p, i, K, L)
               PROVE  LoadsTile(p, i, K, N)
    OBVIOUS
  <2>1. PICK q \in OperandSet(p) \cap DOMAIN buffers, m \in Sim!MatrixRegs,
             r \in Sim!ScalarRegs, b, ti, tj \in Int :
          /\ TileOf(heap[q].shape, b, ti, tj) /\ <<r, buffers[q].addr>> \in K.reg
          /\ <<i>> = BufferTile("LOAD", m, r, q, b, ti, tj)
          /\ TileChanges(K, L, m, {<<liveOf(heap[q].shape.rows, ti),
                                     liveOf(heap[q].shape.cols, tj)>>}, FALSE)
    BY DEF LoadsTile
  <2>2. TileChanges(K, N, m, {<<liveOf(heap[q].shape.rows, ti),
                               liveOf(heap[q].shape.cols, tj)>>}, FALSE)
    BY <1>1, <2>1
  <2>3. p \in DOMAIN heap
    BY DEF LoadsTile
  <2> QED
    BY <2>1, <2>2, <2>3 DEF LoadsTile
<1>5. LoadsStaged(p, i, K, L) => LoadsStaged(p, i, K, N)
  BY <1>1 DEF LoadsStaged
<1>6. StoresTile(p, i, K, L) => StoresTile(p, i, K, N)
  BY <1>2 DEF StoresTile
<1>7. StoresStaged(p, i, K, L) => StoresStaged(p, i, K, N)
  <2>1. \A t, h, w : StagedChanges(K, L, t, h, w) => StagedChanges(K, N, t, h, w)
    BY DEF StagedChanges, Below
  <2> QED
    BY <2>1 DEF StoresStaged
<1>8. Multiplies(i, K, L) => Multiplies(i, K, N)
  BY <1>1 DEF Multiplies
<1>9. Maps(i, K, L) => Maps(i, K, N)
  BY <1>1 DEF Maps
<1>10. SetsRegister(i, K, L) => SetsRegister(i, K, N)
  <2>1. \A r, n : RegisterChanges(K, L, r, n) => RegisterChanges(K, N, r, n)
    BY DEF RegisterChanges, Below
  <2> QED
    BY <2>1 DEF SetsRegister
<1>11. ShowsTensor(i, K, L) => ShowsTensor(i, K, N)
  BY <1>2 DEF ShowsTensor
<1>12. Normalises(p, i, K, L) => Normalises(p, i, K, N)
  BY <1>2 DEF Normalises
<1> QED
  BY <1>3, <1>4, <1>5, <1>6, <1>7, <1>8, <1>9, <1>10, <1>11, <1>12 DEF Follows

LEMMA ListsJoin ==
  ASSUME NEW s, NEW t, IsList(s), IsList(t)
  PROVE  /\ IsList(s \o t) /\ Len(s) \in Nat /\ Len(t) \in Nat
         /\ Len(s \o t) = Len(s) + Len(t)
         /\ \A k \in 1 .. Len(s) : (s \o t)[k] = s[k]
         /\ \A k \in 1 .. Len(t) : (s \o t)[Len(s) + k] = t[k]
<1>1. PICK S : s \in Seq(S)
  BY DEF IsList
<1>2. PICK T : t \in Seq(T)
  BY DEF IsList
<1>3. s \in Seq(S \cup T) /\ t \in Seq(S \cup T)
  BY <1>1, <1>2
<1>4. s \o t \in Seq(S \cup T) /\ Len(s \o t) = Len(s) + Len(t)
  BY <1>3, ConcatTwo
<1>5. \A k \in 1 .. Len(s) : (s \o t)[k] = s[k]
  BY <1>3, ConcatTwo
<1>6. \A k \in 1 .. Len(t) : (s \o t)[Len(s) + k] = t[k]
  BY <1>3, ConcatTwo
<1>7. IsList(s \o t)
  BY <1>4 DEF IsList
<1>8. Len(s) \in Nat /\ Len(t) \in Nat
  BY <1>1, <1>2
<1> QED
  BY <1>4, <1>5, <1>6, <1>7, <1>8

LEMMA RunsJoin ==
  ASSUME NEW v, NEW w, NEW A, NEW B, NEW C, NEW s, NEW t,
         Runs(v, A, s, B), Runs(w, B, t, C)
  PROVE  Runs(v \o w, A, s \o t, C)
<1>1. /\ IsList(v) /\ IsList(w) /\ IsList(s) /\ IsList(t)
      /\ Len(v) = Len(s) /\ Len(w) = Len(t)
  BY DEF Runs
<1> DEFINE n == Len(s)
           m == Len(t)
           who == v \o w
           list == s \o t
<1>2. /\ IsList(list) /\ n \in Nat /\ m \in Nat /\ Len(list) = n + m
      /\ \A k \in 1 .. n : list[k] = s[k]
      /\ \A k \in 1 .. m : list[n + k] = t[k]
  BY <1>1, ListsJoin
<1>3. /\ IsList(who) /\ Len(who) = n + m
      /\ \A k \in 1 .. n : who[k] = v[k]
      /\ \A k \in 1 .. m : who[n + k] = w[k]
  BY <1>1, ListsJoin
<1>4. PICK K : /\ Annotates(v, s, K) /\ Below(K[1], A) /\ Below(B, K[n + 1])
  BY DEF Runs
<1>5. PICK J : /\ Annotates(w, t, J) /\ Below(J[1], B) /\ Below(C, J[m + 1])
  BY DEF Runs
<1> DEFINE H == [k \in 1 .. n + m + 1 |-> IF k <= n THEN K[k] ELSE J[k - n]]
<1> HIDE DEF n, m, who, list
<1>6. /\ \A k \in 1 .. n : H[k] = K[k]
      /\ \A k \in 1 .. m + 1 : H[n + k] = J[k]
  <2>1. \A k \in 1 .. n : k \in 1 .. n + m + 1 /\ k <= n
    BY <1>2
  <2>3. \A k \in 1 .. n : H[k] = K[k]
    BY <2>1
  <2>2. ASSUME NEW k \in 1 .. m + 1
        PROVE  H[n + k] = J[k]
    <3> DEFINE j == n + k
    <3>1. j \in 1 .. n + m + 1 /\ ~(j <= n) /\ j - n = k
      BY <1>2
    <3> HIDE DEF j
    <3>2. H[j] = J[j - n]
      BY <3>1
    <3> QED
      BY <3>1, <3>2 DEF j
  <2> QED
    BY <2>2, <2>3
<1> HIDE DEF H
<1>7. Below(H[n + 1], K[n + 1]) /\ Below(H[1], A) /\ Below(C, H[n + m + 1])
  <2>1. H[n + 1] = J[1] /\ H[n + (m + 1)] = J[m + 1]
    BY <1>2, <1>6
  <2>2. Below(H[n + 1], B) /\ Below(H[n + 1], K[n + 1])
    BY <1>4, <1>5, <2>1, BelowTrans
  <2>3. Below(H[1], A)
    <3>1. CASE n = 0
      <4>1. n + 1 = 1
        BY <3>1
      <4> QED
        BY <1>4, <2>2, <4>1, BelowTrans
    <3>2. CASE n # 0
      BY <1>2, <1>4, <1>6, <3>2
    <3> QED
      BY <3>1, <3>2
  <2>4. n + (m + 1) = n + m + 1
    BY <1>2
  <2> QED
    BY <1>5, <2>1, <2>2, <2>3, <2>4
<1>8. ASSUME NEW k \in 1 .. n + m
      PROVE  Follows(who[k], list[k], H[k], H[k + 1])
  <2>1. CASE k < n
    <3>1. k \in 1 .. n /\ k + 1 \in 1 .. n
      BY <1>2, <2>1
    <3>2. Follows(v[k], s[k], K[k], K[k + 1])
      BY <1>4, <3>1 DEF Annotates, n
    <3> QED
      BY <1>2, <1>3, <1>6, <3>1, <3>2
  <2>2. CASE k = n
    <3>1. k \in 1 .. n
      BY <1>2, <2>2
    <3>2. Follows(v[k], s[k], K[k], K[k + 1])
      BY <1>4, <3>1 DEF Annotates, n
    <3>3. Follows(v[k], s[k], K[k], H[k + 1])
      BY <1>7, <2>2, <3>2, FollowsBelow
    <3> QED
      BY <1>2, <1>3, <1>6, <3>1, <3>3
  <2>3. CASE k > n
    <3> DEFINE j == k - n
    <3>1. j \in 1 .. m /\ n + j = k /\ j + 1 \in 1 .. m + 1 /\ n + (j + 1) = k + 1
          /\ j \in 1 .. m + 1
      BY <1>2, <2>3
    <3> HIDE DEF j
    <3>2. Follows(w[j], t[j], J[j], J[j + 1])
      BY <1>5, <3>1 DEF Annotates, m
    <3>3. list[k] = t[j] /\ who[k] = w[j] /\ H[k] = J[j] /\ H[k + 1] = J[j + 1]
      <4>1. list[n + j] = t[j] /\ who[n + j] = w[j]
        BY <1>2, <1>3, <3>1
      <4>2. H[n + j] = J[j] /\ H[n + (j + 1)] = J[j + 1]
        BY <1>6, <3>1
      <4> QED
        BY <3>1, <4>1, <4>2
    <3> QED
      BY <3>2, <3>3
  <2> QED
    BY <1>2, <2>1, <2>2, <2>3
<1>9. Annotates(who, list, H)
  BY <1>2, <1>8 DEF Annotates
<1> QED
  BY <1>2, <1>3, <1>7, <1>9 DEF Runs, who, list

LEMMA ExecutesNothing ==
  ASSUME NEW p, NEW A
  PROVE  Executes(p, A, << >>, A)
<1> DEFINE who == [k \in 1 .. Len(<< >>) |-> p]
           K == [k \in 1 .. 1 |-> A]
<1>1. Len(<< >>) = 0 /\ << >> \in Seq({}) /\ who = << >>
  OBVIOUS
<1>2. IsList(<< >>)
  BY <1>1 DEF IsList
<1>3. K[1] = A
  OBVIOUS
<1>4. Annotates(who, << >>, K)
  BY <1>1 DEF Annotates
<1> HIDE DEF K
<1>5. Below(K[1], A) /\ Below(A, K[Len(<< >>) + 1])
  <2>1. Len(<< >>) + 1 = 1
    BY <1>1
  <2> QED
    BY <1>3, <2>1, BelowSelf
<1> QED
  BY <1>1, <1>2, <1>4, <1>5 DEF Executes, Runs

LEMMA ExecutesOne ==
  ASSUME NEW p, NEW i, NEW A, NEW B, Follows(p, i, A, B)
  PROVE  Executes(p, A, <<i>>, B)
<1> DEFINE who == [k \in 1 .. Len(<<i>>) |-> p]
           K == [k \in 1 .. 2 |-> IF k = 1 THEN A ELSE B]
<1>1. Len(<<i>>) = 1 /\ <<i>> \in Seq({i}) /\ <<i>>[1] = i
  OBVIOUS
<1>2. who \in Seq({p}) /\ Len(who) = 1 /\ who[1] = p
  <2>1. who = [k \in 1 .. 1 |-> p]
    BY <1>1
  <2> HIDE DEF who
  <2>2. who[1] = p
    BY <2>1
  <2>3. who \in Seq({p})
    BY <2>1
  <2>4. Len(who) = 1
    BY <2>1
  <2> QED
    BY <2>2, <2>3, <2>4
<1>3. K[1] = A /\ K[2] = B
  OBVIOUS
<1> HIDE DEF who, K
<1>4. IsList(<<i>>) /\ IsList(who)
  BY <1>1, <1>2 DEF IsList
<1>5. Annotates(who, <<i>>, K)
  <2> SUFFICES ASSUME NEW k \in 1 .. 1 PROVE Follows(who[k], <<i>>[k], K[k], K[k + 1])
    BY <1>1 DEF Annotates
  <2>1. k = 1 /\ k + 1 = 2
    OBVIOUS
  <2> QED
    BY <1>1, <1>2, <1>3, <2>1
<1>6. Below(K[1], A) /\ Below(B, K[Len(<<i>>) + 1])
  <2>1. Len(<<i>>) + 1 = 2
    BY <1>1
  <2> QED
    BY <1>3, <2>1, BelowSelf
<1> QED
  BY <1>1, <1>2, <1>4, <1>5, <1>6 DEF Executes, Runs, who

LEMMA ExecutesThen ==
  ASSUME NEW p, NEW A, NEW B, NEW C, NEW s, NEW t,
         Executes(p, A, s, B), Executes(p, B, t, C)
  PROVE  Executes(p, A, s \o t, C)
<1> DEFINE v == [k \in 1 .. Len(s) |-> p]
           w == [k \in 1 .. Len(t) |-> p]
           u == [k \in 1 .. Len(s \o t) |-> p]
<1>1. Runs(v, A, s, B) /\ Runs(w, B, t, C)
  BY DEF Executes
<1>2. /\ IsList(s) /\ IsList(t) /\ IsList(v) /\ IsList(w) /\ Len(v) = Len(s) /\ Len(w) = Len(t)
  BY <1>1 DEF Runs
<1>3. Runs(v \o w, A, s \o t, C)
  BY <1>1, RunsJoin
<1>4. v \o w = u
  <2>1. Len(s) \in Nat /\ Len(t) \in Nat /\ Len(s \o t) = Len(s) + Len(t)
    BY <1>2, ListsJoin
  <2>2. v \in Seq({p}) /\ w \in Seq({p}) /\ u \in Seq({p})
    BY <2>1
  <2>3. v \o w \in Seq({p}) /\ Len(v \o w) = Len(s) + Len(t) /\ Len(u) = Len(s) + Len(t)
    BY <1>2, <2>1, <2>2
  <2> DEFINE x == v \o w
  <2> HIDE DEF u, v, w, x
  <2>4. \A k \in 1 .. Len(s) + Len(t) : x[k] = p /\ u[k] = p
    BY <2>2, <2>3 DEF x
  <2> QED
    BY <2>2, <2>3, <2>4 DEF x
<1> QED
  BY <1>3, <1>4 DEF Executes

LEMMA ExecutesBetween ==
  ASSUME NEW p, NEW A, NEW B, NEW C, NEW D, NEW s,
         Executes(p, B, s, C), Below(B, A), Below(D, C)
  PROVE  Executes(p, A, s, D)
<1> DEFINE who == [k \in 1 .. Len(s) |-> p]
<1>1. Runs(who, B, s, C)
  BY DEF Executes
<1>2. Runs(who, A, s, D)
  <2> HIDE DEF who
  <2>1. PICK K : /\ Annotates(who, s, K) /\ Below(K[1], B) /\ Below(C, K[Len(s) + 1])
    BY <1>1 DEF Runs
  <2>2. Below(K[1], A) /\ Below(D, K[Len(s) + 1])
    BY <2>1, BelowTrans
  <2> QED
    BY <1>1, <2>1, <2>2 DEF Runs
<1> QED
  BY <1>2 DEF Executes

\* The equations of the loop that flattens a list of lists.
Flattens(f, N, lists) ==
  f[1] = lists[1] /\ \A n \in 2 .. N : f[n] = f[n - 1] \o lists[n]

LEMMA FlattenEquations ==
  ASSUME NEW N \in Nat \ {0}, NEW S, NEW lists \in [1 .. N -> Seq(S)]
  PROVE  \E f : Seqs!FlattenSeq(lists) = f[N] /\ Flattens(f, N, lists)
<1> DEFINE f == CHOOSE e : e = [i \in 1 .. N |-> IF i = 1 THEN lists[i] ELSE e[i - 1] \o lists[i]]
<1>1. Len(lists) = N
  OBVIOUS
<1>2. Seqs!FlattenSeq(lists) = f[N]
  BY <1>1 DEF Seqs!FlattenSeq
<1>3. f = [i \in 1 .. N |-> IF i = 1 THEN lists[i] ELSE f[i - 1] \o lists[i]]
  BY LoopConcatenates, Zenon
<1> HIDE DEF f
<1>4. \A i \in 1 .. N : f[i] = IF i = 1 THEN lists[i] ELSE f[i - 1] \o lists[i]
  BY <1>3
<1>5. f[1] = lists[1]
  BY 1 \in 1 .. N, <1>4
<1>6. ASSUME NEW n \in 2 .. N
      PROVE  f[n] = f[n - 1] \o lists[n]
  <2>1. n \in 1 .. N /\ n # 1
    OBVIOUS
  <2> QED BY <1>4, <2>1
<1> QED BY <1>2, <1>5, <1>6 DEF Flattens

\* A loop executes, if what is known before each iteration is what its
\* predecessor leaves.
LEMMA LoopExecutes ==
  ASSUME NEW p, NEW N \in Nat \ {0}, NEW lists, DOMAIN lists = 1 .. N,
         lists = [n \in 1 .. N |-> lists[n]], NEW I,
         \A n \in 1 .. N : Executes(p, I[n - 1], lists[n], I[n])
  PROVE  Executes(p, I[0], Seqs!FlattenSeq(lists), I[N])
<1> DEFINE S == UNION {{lists[n][k] : k \in 1 .. Len(lists[n])} : n \in 1 .. N}
<1>1. ASSUME NEW n \in 1 .. N
      PROVE  lists[n] \in Seq(S)
  <2>1. IsList(lists[n])
    BY DEF Executes, Runs
  <2>2. PICK U : lists[n] \in Seq(U)
    BY <2>1 DEF IsList
  <2> DEFINE s == lists[n]
  <2>3. \A k \in 1 .. Len(s) : s[k] \in S
    OBVIOUS
  <2> HIDE DEF S, s
  <2>4. s \in [1 .. Len(s) -> U] /\ Len(s) \in Nat
    BY <2>2 DEF s
  <2>5. s \in [1 .. Len(s) -> S]
    BY <2>3, <2>4
  <2>6. s \in Seq(S)
    BY <2>4, <2>5
  <2> QED
    BY <2>6 DEF s
<1> HIDE DEF S
<1>2. lists \in [1 .. N -> Seq(S)]
  BY <1>1
<1>3. PICK f : /\ Seqs!FlattenSeq(lists) = f[N] /\ Flattens(f, N, lists)
  BY <1>2, FlattenEquations
<1> DEFINE T == {n \in Nat : n \in 1 .. N => Executes(p, I[0], f[n], I[n])}
<1>4. ASSUME NEW n \in Nat, 0 .. n - 1 \subseteq T
      PROVE  n \in T
  <2>1. CASE n = 1
    <3>1. Executes(p, I[1 - 1], lists[1], I[1])
      OBVIOUS
    <3>2. 1 - 1 = 0
      OBVIOUS
    <3> QED
      BY <1>3, <2>1, <3>1, <3>2 DEF Flattens
  <2>2. CASE n \in 2 .. N
    <3>1. n - 1 \in 0 .. n - 1 /\ n - 1 \in 1 .. N /\ n \in 1 .. N
      BY <2>2
    <3>2. n - 1 \in T
      BY <1>4, <3>1
    <3>3. Executes(p, I[0], f[n - 1], I[n - 1])
      BY <3>1, <3>2
    <3>4. Executes(p, I[n - 1], lists[n], I[n])
      BY <3>1
    <3>5. Executes(p, I[0], f[n - 1] \o lists[n], I[n])
      BY <3>3, <3>4, ExecutesThen
    <3> QED
      BY <1>3, <2>2, <3>5 DEF Flattens
  <2>3. CASE n \notin 1 .. N
    BY <2>3
  <2> QED
    BY <2>1, <2>2, <2>3
<1>5. Nat \subseteq T
  <2> HIDE DEF T
  <2> QED
    BY <1>4, Inherited
<1>6. N \in Nat /\ N \in 1 .. N
  OBVIOUS
<1>7. Executes(p, I[0], f[N], I[N])
  BY <1>5, <1>6
<1> QED
  BY <1>3, <1>7

\* The same, if every iteration leaves what it found.
LEMMA SteadyLoopExecutes ==
  ASSUME NEW p, NEW N \in Nat \ {0}, NEW lists, DOMAIN lists = 1 .. N,
         lists = [n \in 1 .. N |-> lists[n]], NEW A,
         \A n \in 1 .. N : Executes(p, A, lists[n], A)
  PROVE  Executes(p, A, Seqs!FlattenSeq(lists), A)
<1> DEFINE I == [n \in 0 .. N |-> A]
<1>1. I[0] = A /\ I[N] = A /\ \A n \in 1 .. N : I[n - 1] = A /\ I[n] = A
  OBVIOUS
<1> HIDE DEF I
<1>2. \A n \in 1 .. N : Executes(p, I[n - 1], lists[n], I[n])
  BY <1>1
<1>3. Executes(p, I[0], Seqs!FlattenSeq(lists), I[N])
  BY <1>2, LoopExecutes
<1> QED
  BY <1>1, <1>3

-----------------------------------------------------------------------------
(* The tiles of a tensor, counted as the loops of ForEachTile visit them.  *)

LEMMA QuotientIs ==
  ASSUME NEW k, NEW s \in Nat \ {0}, NEW q \in Int, NEW r \in 0 .. s - 1, k = q * s + r
  PROVE  k \div s = q /\ k % s = r
BY DivMod

rowOf(s, m) == (m % (tilesOf(s.rows) * tilesOf(s.cols))) \div tilesOf(s.cols)
colOf(s, m) == m % tilesOf(s.cols)
tileNumber(s, b, i, j) == (b * tilesOf(s.rows) + i) * tilesOf(s.cols) + j

LEMMA TileNumbered ==
  ASSUME NEW s \in TensorShape, NEW b, NEW i, NEW j, TileOf(s, b, i, j)
  PROVE  LET m == tileNumber(s, b, i, j) IN
         /\ m \in 0 .. tiles(s) - 1
         /\ rowOf(s, m) = i /\ colOf(s, m) = j
         /\ m \div (tilesOf(s.rows) * tilesOf(s.cols)) = b
<1> DEFINE tr == tilesOf(s.rows)
           tc == tilesOf(s.cols)
           n == tr * tc
           r == i * tc + j
           m == tileNumber(s, b, i, j)
<1>1. /\ s.batch \in Nat \ {0} /\ tr \in Nat \ {0} /\ tc \in Nat \ {0} /\ n \in Nat \ {0}
      /\ b \in 0 .. s.batch - 1 /\ i \in 0 .. tr - 1 /\ j \in 0 .. tc - 1
  BY ShapeTypes, TilesType, ProductType DEF TileOf
<1>2. tiles(s) = s.batch * tr * tc
  BY DEF tiles
<1>3. m = (b * tr + i) * tc + j
  BY DEF tileNumber
<1> HIDE DEF tr, tc, m
<1>4. r \in 0 .. n - 1
  <2>1. i * tc \in Nat /\ i * tc + tc <= tr * tc
    BY <1>1
  <2> QED
    BY <1>1, <2>1
<1>5. m = b * n + r
  BY <1>1, <1>3
<1>6. m \in 0 .. tiles(s) - 1
  <2>1. b * n \in Nat /\ b * n + n <= s.batch * n /\ s.batch * n = s.batch * tr * tc
    BY <1>1
  <2> HIDE DEF n, r
  <2> QED
    BY <1>1, <1>2, <1>4, <1>5, <2>1
<1>7. m \div n = b /\ m % n = r
  <2> HIDE DEF n, r
  <2>1. b \in Int
    BY <1>1
  <2> QED
    BY <1>1, <1>4, <1>5, <2>1, QuotientIs
<1>8. r \div tc = i
  <2>1. i \in Int /\ r = i * tc + j
    BY <1>1
  <2> HIDE DEF r
  <2> QED
    BY <1>1, <2>1, QuotientIs
<1>9. m % tc = j
  <2> DEFINE u == b * tr + i
  <2>1. u \in Int /\ m = u * tc + j
    BY <1>1, <1>3
  <2> HIDE DEF u
  <2> QED
    BY <1>1, <2>1, QuotientIs
<1> QED
  BY <1>6, <1>7, <1>8, <1>9 DEF rowOf, colOf, tr, tc, m

LEMMA TileCounted ==
  ASSUME NEW s \in TensorShape, NEW m \in 0 .. tiles(s) - 1
  PROVE  LET b == m \div (tilesOf(s.rows) * tilesOf(s.cols)) IN
         /\ TileOf(s, b, rowOf(s, m), colOf(s, m))
         /\ tileNumber(s, b, rowOf(s, m), colOf(s, m)) = m
<1> DEFINE tr == tilesOf(s.rows)
           tc == tilesOf(s.cols)
           n == tr * tc
           b == m \div n
           r == m % n
           i == r \div tc
           j == r % tc
<1>1. /\ s.batch \in Nat \ {0} /\ tr \in Nat \ {0} /\ tc \in Nat \ {0} /\ n \in Nat \ {0}
  BY ShapeTypes, TilesType, ProductType
<1>2. tiles(s) = s.batch * n
  <2>1. tiles(s) = s.batch * tr * tc
    BY DEF tiles
  <2> HIDE DEF tr, tc
  <2> QED
    BY <1>1, <2>1
<1>3. m \in Nat /\ m < s.batch * n
  <2>1. s.batch * n \in Nat
    BY <1>1, ProductType
  <2> QED
    BY <1>2, <2>1
<1> HIDE DEF tr, tc
<1>4. b \in Int /\ r \in 0 .. n - 1 /\ m = b * n + r
  <2> HIDE DEF n
  <2> QED
    BY <1>1, <1>3
<1>5. b \in 0 .. s.batch - 1
  <2> HIDE DEF n, b, r
  <2>1. ~(b < 0)
    <3> SUFFICES ASSUME b <= -1 PROVE FALSE
      BY <1>4
    <3>1. b * n <= -1 * n
      BY <1>1, <1>4
    <3> QED
      BY <1>1, <1>3, <1>4, <3>1
  <2>2. ~(b >= s.batch)
    <3> SUFFICES ASSUME b >= s.batch PROVE FALSE
      OBVIOUS
    <3>1. b * n >= s.batch * n
      BY <1>1, <1>4
    <3> QED
      BY <1>1, <1>3, <1>4, <3>1
  <2> QED
    BY <1>1, <1>4, <2>1, <2>2
<1>6. i \in Int /\ j \in 0 .. tc - 1 /\ r = i * tc + j
  <2> HIDE DEF r
  <2> QED
    BY <1>1, <1>4
<1>7. i \in 0 .. tr - 1
  <2> HIDE DEF b, r, i, j
  <2>1. ~(i < 0)
    <3> SUFFICES ASSUME i <= -1 PROVE FALSE
      BY <1>6
    <3>1. i * tc <= -1 * tc
      BY <1>1, <1>6
    <3> QED
      BY <1>1, <1>4, <1>6, <3>1
  <2>2. ~(i >= tr)
    <3> SUFFICES ASSUME i >= tr PROVE FALSE
      OBVIOUS
    <3>1. i * tc >= tr * tc
      BY <1>1, <1>6
    <3> QED
      BY <1>1, <1>4, <1>6, <3>1
  <2> QED
    BY <1>1, <1>6, <2>1, <2>2
<1>8. m = (b * tr + i) * tc + j
  <2> HIDE DEF b, r, i, j
  <2> QED
    BY <1>1, <1>4, <1>5, <1>6, <1>7
<1>9. m % tc = j
  <2> DEFINE u == b * tr + i
  <2> HIDE DEF b, i, j
  <2>1. u \in Int
    BY <1>1, <1>5, <1>7
  <2>2. m = u * tc + j
    BY <1>8
  <2> HIDE DEF u
  <2> QED
    BY <1>1, <1>6, <2>1, <2>2, QuotientIs
<1>10. b = m \div (tilesOf(s.rows) * tilesOf(s.cols)) /\ rowOf(s, m) = i /\ colOf(s, m) = j
  BY <1>9 DEF rowOf, colOf, tr, tc
<1> QED
  BY <1>5, <1>6, <1>7, <1>8, <1>10 DEF TileOf, tileNumber, tr, tc

-----------------------------------------------------------------------------
(* The instructions the code of an op is made of.                          *)

\* What the passes and layout() leave to lower().
Ready ==
  IRLayers /\ Layout(buffers, Constants, data) /\ IdentityInv /\ Placed(Len(ops))

\* Tile m of what store s stages, and what is live of it.
StagedTile(s, m) ==
  <<heap[s].scratchOffset + m, liveOf(heap[s].shape.rows, rowOf(heap[s].shape, m)),
    liveOf(heap[s].shape.cols, colOf(heap[s].shape, m))>>
StagedTiles(s) == {StagedTile(s, m) : m \in 0 .. tiles(heap[s].shape) - 1}

\* K, once matrix register m holds h live rows and w columns.
Holding(K, m, h, w) ==
  [reg |-> K.reg, zero |-> {x \in K.zero : x[1] # m} \cup {<<m, h, w>>},
   diagonal |-> K.diagonal \ {m}, staged |-> K.staged]

\* A says nothing of matrix register m.
Ignores(A, m) == m \notin A.diagonal /\ \A x \in A.zero : x[1] # m

\* K is enough to load a tile of operand i of p.
Loadable(K, bs, p, i) ==
  LET q == Operand(p, i) IN
    IF heap[q].kind = "ScratchLoad" THEN StagedTiles(Operand(q, 1)) \subseteq K.staged
    ELSE bs[q] \in Sim!ScalarRegs /\ <<bs[q], buffers[q].addr>> \in K.reg

LEMMA HoldingChanges ==
  ASSUME NEW K, NEW m, NEW h, NEW w
  PROVE  TileChanges(K, Holding(K, m, h, w), m, {<<h, w>>}, FALSE)
BY DEF TileChanges, Holding

LEMMA HoldingKeeps ==
  ASSUME NEW A, NEW K, NEW m, NEW h, NEW w, Below(A, K), Ignores(A, m)
  PROVE  Below(A, Holding(K, m, h, w))
BY DEF Below, Holding, Ignores

LEMMA OperandFacts ==
  ASSUME Ready, NEW p \in DOMAIN heap, NEW i \in 1 .. Len(heap[p].operands),
         heap[p].kind # "ScratchLoad"
  PROVE  LET q == Operand(p, i) IN
         /\ q \in DOMAIN heap /\ q \in OperandSet(p) /\ heap[q].shape \in TensorShape /\ q # p
         /\ heap[q].kind # "ScratchLoad" =>
              /\ q \in DOMAIN buffers /\ buffers[q] = bufferFor(q, buffers[q].addr)
              /\ buffers[q].addr \in Nat
              /\ buffers[q].addr + bufferWords(heap[q].shape) <= data.end
         /\ heap[q].kind = "ScratchLoad" =>
              /\ isMatMulFamily(heap[p].kind)
              /\ Operand(q, 1) \in DOMAIN heap /\ heap[Operand(q, 1)].shape = heap[q].shape
              /\ heap[Operand(q, 1)].kind = "ScratchStore"
              /\ Region(Operand(q, 1)) \subseteq 0 .. ScratchpadTiles - 1
              /\ heap[Operand(q, 1)].scratchOffset \in Int
              /\ StoreReaches(ops, heap, Operand(q, 1), p)
<1> DEFINE q == Operand(p, i)
<1>1. FnInv
  BY DEF Ready, IRLayers, IRInv
<1>2. q \in DOMAIN heap /\ q \in OperandSet(p) /\ heap[q].shape \in TensorShape
  BY <1>1, FnFacts DEF Operand, OperandSet
<1>3. q # p
  <2>1. PICK k \in 1 .. Len(ops) : ops[k] = p
    BY <1>1, FnFacts
  <2>2. PICK j \in 1 .. k - 1 : ops[j] = q
    BY <1>1, <2>1 DEF FnInv, IsFunction, Ordered, Operand
  <2>3. j \in 1 .. Len(ops) /\ j # k
    <3>1. Len(ops) \in Nat
      BY <1>1, FnFacts
    <3> QED
      BY <3>1
  <2>4. ops[j] # ops[k]
    BY <1>1, <2>3, FnFacts
  <2> QED
    BY <2>1, <2>2, <2>4
<1>4. OperandFits(heap, p, i)
  BY DEF Ready, IRLayers, OperandsInv, OperandsFit
<1>5. heap[q].kind \notin {"Print", "ScratchStore"}
  BY <1>4 DEF OperandFits, OperandAllowed, Operand
<1>6. ASSUME heap[q].kind # "ScratchLoad"
      PROVE  /\ q \in DOMAIN buffers /\ buffers[q] = bufferFor(q, buffers[q].addr)
             /\ buffers[q].addr \in Nat
             /\ buffers[q].addr + bufferWords(heap[q].shape) <= data.end
  <2>1. needsBuffer(heap[q].kind)
    BY <1>5, <1>6 DEF needsBuffer
  <2>2. PICK k \in 1 .. Len(ops) : ops[k] = q
    BY <1>1, <1>2, FnFacts
  <2>3. q \in DOMAIN buffers
    BY <2>1, <2>2 DEF Ready, Placed
  <2> QED
    BY <2>3 DEF Ready, Layout, BufferAt
<1>7. ASSUME heap[q].kind = "ScratchLoad"
      PROVE  /\ isMatMulFamily(heap[p].kind)
             /\ Operand(q, 1) \in DOMAIN heap /\ heap[Operand(q, 1)].shape = heap[q].shape
             /\ heap[Operand(q, 1)].kind = "ScratchStore"
             /\ Region(Operand(q, 1)) \subseteq 0 .. ScratchpadTiles - 1
             /\ heap[Operand(q, 1)].scratchOffset \in Int
             /\ StoreReaches(ops, heap, Operand(q, 1), p)
  <2>1. LoadReaches(ops, heap, p, i)
    BY <1>7 DEF Ready, IRLayers, TilingInv, LoadsInv, Loads, Operand
  <2>2. StoreOf(heap, p, i) = Operand(q, 1)
    BY DEF StoreOf, Operand
  <2>3. RegionIn(heap, Operand(q, 1)) = Region(Operand(q, 1))
    BY DEF RegionIn, Region
  <2>4. 1 \in 1 .. Len(heap[q].operands)
    <3>1. arities("ScratchLoad") = {1}
      BY DEF arities, LeafKinds, BinaryKinds
    <3>2. Len(heap[q].operands) \in arities(heap[q].kind)
      <4> HIDE DEF q
      <4> QED
        BY <1>1, <1>2, FnFacts
    <3> HIDE DEF q
    <3>3. Len(heap[q].operands) = 1
      BY <1>7, <3>1, <3>2
    <3> QED
      BY <3>3
  <2>5. OperandFits(heap, q, 1)
    BY <1>2, <2>4 DEF Ready, IRLayers, OperandsInv, OperandsFit
  <2>6. heap[Operand(q, 1)].shape = heap[q].shape /\ heap[Operand(q, 1)].kind = "ScratchStore"
    BY <1>7, <2>5 DEF OperandFits, OperandAllowed, Operand, ShapeOf
  <2>7. Operand(q, 1) \in DOMAIN heap
    BY <2>1, <2>2 DEF LoadReaches
  <2>8. heap[Operand(q, 1)].scratchOffset \in Int
    <3>1. heap[Operand(q, 1)].scratchOffset \in -1 .. ScratchpadTiles - 1
      BY <1>1, <2>7, FnFacts
    <3> QED
      BY <3>1
  <2> QED
    BY <2>1, <2>2, <2>3, <2>6, <2>7, <2>8 DEF LoadReaches
<1> QED
  BY <1>2, <1>3, <1>6, <1>7

\* The place of a tile in the scratchpad.
LEMMA ScratchTileNumber ==
  ASSUME NEW st \in DOMAIN heap, heap[st].shape \in TensorShape, heap[st].scratchOffset \in Int,
         NEW b, NEW i, NEW j, TileOf(heap[st].shape, broadcast(heap[st].shape, b), i, j)
  PROVE  LET s == heap[st].shape
             m == tileNumber(s, broadcast(s, b), i, j)
         IN /\ scratchTile(st, b, i, j) = kTileElems * (heap[st].scratchOffset + m)
            /\ m \in 0 .. tiles(s) - 1 /\ heap[st].scratchOffset + m \in Region(st)
            /\ StagedTile(st, m) = <<heap[st].scratchOffset + m, liveOf(s.rows, i),
                                     liveOf(s.cols, j)>>
<1> DEFINE s == heap[st].shape
           c == broadcast(s, b)
           o == heap[st].scratchOffset
           m == tileNumber(s, c, i, j)
           tr == tilesOf(s.rows)
           tc == tilesOf(s.cols)
<1>1. m \in 0 .. tiles(s) - 1 /\ rowOf(s, m) = i /\ colOf(s, m) = j
  BY TileNumbered
<1>2. tr \in Nat /\ tc \in Nat /\ tiles(s) \in Nat /\ c \in Int /\ i \in Int /\ j \in Int
  BY ShapeTypes DEF TileOf
<1>3. m = (c * tr + i) * tc + j
  BY DEF tileNumber
<1>4. scratchTile(st, b, i, j) = kTileElems * (o + (c * tr + i) * tc + j)
  BY DEF scratchTile
<1>5. o + (c * tr + i) * tc + j = o + m
  <2> DEFINE x == (c * tr + i) * tc
  <2>1. x \in Int
    BY <1>2
  <2> HIDE DEF x, m, o
  <2>2. o \in Int
    BY DEF o
  <2> QED
    BY <1>2, <1>3, <2>1, <2>2 DEF x
<1>6. o + m \in Region(st)
  <2>1. Region(st) = o .. o + tiles(s) - 1
    BY DEF Region
  <2> HIDE DEF m, s
  <2> QED
    BY <1>1, <1>2, <2>1
<1> HIDE DEF m
<1>7. StagedTile(st, m) = <<o + m, liveOf(s.rows, i), liveOf(s.cols, j)>>
  BY <1>1 DEF StagedTile
<1> QED
  BY <1>1, <1>4, <1>5, <1>6, <1>7 DEF m

\* loadTile() loads a tile of an operand.
LEMMA LoadsOperand ==
  ASSUME Ready, NEW p \in DOMAIN heap, NEW i \in 1 .. Len(heap[p].operands),
         heap[p].kind # "ScratchLoad", NEW bs, NEW K, Loadable(K, bs, p, i),
         NEW m \in Sim!MatrixRegs, NEW b, NEW ti, NEW tj,
         TileOf(heap[Operand(p, i)].shape, broadcast(heap[Operand(p, i)].shape, b), ti, tj)
  PROVE  LET s == heap[Operand(p, i)].shape IN
           Executes(p, K, loadTile(bs, Operand(p, i), b, ti, tj, m),
                    Holding(K, m, liveOf(s.rows, ti), liveOf(s.cols, tj)))
<1> DEFINE q == Operand(p, i)
           s == heap[q].shape
           h == liveOf(s.rows, ti)
           w == liveOf(s.cols, tj)
           c == broadcast(s, b)
           L == Holding(K, m, h, w)
<1>1. q \in DOMAIN heap /\ q \in OperandSet(p) /\ s \in TensorShape
  BY OperandFacts
<1>2. TileChanges(K, L, m, {<<h, w>>}, FALSE)
  BY HoldingChanges
<1>3. CASE heap[q].kind = "ScratchLoad"
  <2> DEFINE st == Operand(q, 1)
             n == tileNumber(s, c, ti, tj)
             t == heap[st].scratchOffset + n
             move == [op |-> "LOAD", dst |-> Mat(m),
                      src1 |-> ISA!MemOperand(0, kTileElems * t, 0, TRUE), src2 |-> ISA!NoOperand]
  <2>1. /\ st \in DOMAIN heap /\ heap[st].shape = s /\ heap[st].scratchOffset \in Int
        /\ Region(st) \subseteq 0 .. ScratchpadTiles - 1
    BY <1>3, OperandFacts
  <2>2. /\ scratchTile(st, b, ti, tj) = kTileElems * t
        /\ n \in 0 .. tiles(s) - 1 /\ t \in Region(st) /\ StagedTile(st, n) = <<t, h, w>>
    BY <1>1, <2>1, ScratchTileNumber
  <2>3. <<t, h, w>> \in K.staged
    <3>1. StagedTiles(st) \subseteq K.staged
      BY <1>3 DEF Loadable
    <3>2. StagedTile(st, n) \in StagedTiles(st)
      BY <2>1, <2>2 DEF StagedTiles
    <3> QED
      BY <2>2, <3>1, <3>2
  <2>4. loadTile(bs, q, b, ti, tj, m) = <<move>> /\ <<move>> = ScratchTile("LOAD", m, t)
    BY <1>3, <2>2 DEF loadTile, Move, Emit, ScratchTile
  <2> HIDE DEF h, w, L, move, t
  <2>5. LoadsStaged(p, move, K, L)
    BY <1>1, <1>2, <1>3, <2>1, <2>2, <2>3, <2>4 DEF LoadsStaged
  <2>6. Follows(p, move, K, L)
    BY <2>5 DEF Follows
  <2>7. Executes(p, K, <<move>>, L)
    BY <2>6, ExecutesOne
  <2> QED
    BY <2>4, <2>7 DEF L, h, w
<1>4. CASE heap[q].kind # "ScratchLoad"
  <2> DEFINE buf == buffers[q]
             move == [op |-> "LOAD", dst |-> Mat(m),
                      src1 |-> ISA!MemOperand(bs[q], tileOffset(buf, c, ti, tj),
                                              strideOf(buf), FALSE), src2 |-> ISA!NoOperand]
  <2>1. /\ q \in DOMAIN buffers /\ buf = bufferFor(q, buf.addr)
    BY <1>4, OperandFacts
  <2>2. buf.shape = s
    BY <2>1 DEF bufferFor
  <2>3. loadTile(bs, q, b, ti, tj, m) = <<move>>
        /\ <<move>> = BufferTile("LOAD", m, bs[q], q, c, ti, tj)
    BY <1>4, <2>2 DEF loadTile, Move, Emit, BufferTile
  <2>4. bs[q] \in Sim!ScalarRegs /\ <<bs[q], buf.addr>> \in K.reg
    BY <1>4 DEF Loadable
  <2>5. c \in Int /\ ti \in Int /\ tj \in Int
    BY DEF TileOf
  <2> HIDE DEF L, move
  <2>6. LoadsTile(p, move, K, L)
    BY <1>1, <1>2, <2>1, <2>3, <2>4, <2>5 DEF LoadsTile
  <2>7. Follows(p, move, K, L)
    BY <2>6 DEF Follows
  <2>8. Executes(p, K, <<move>>, L)
    BY <2>7, ExecutesOne
  <2> QED
    BY <2>3, <2>8 DEF L
<1> QED
  BY <1>3, <1>4

\* storeTile() stores a tile of the result.
LEMMA StoresResult ==
  ASSUME NEW p \in DOMAIN buffers, NEW bs, bs[p] \in Sim!ScalarRegs,
         NEW K, <<bs[p], buffers[p].addr>> \in K.reg,
         NEW m \in Sim!MatrixRegs, NEW b, NEW ti, NEW tj, TileOf(heap[p].shape, b, ti, tj),
         <<m, liveOf(heap[p].shape.rows, ti), liveOf(heap[p].shape.cols, tj)>> \in K.zero
  PROVE  Executes(p, K, storeTile(bs, p, b, ti, tj, m), K)
<1> DEFINE buf == buffers[p]
           move == [op |-> "STORE", dst |-> Mat(m),
                    src1 |-> ISA!MemOperand(bs[p], tileOffset(buf, b, ti, tj),
                                            strideOf(buf), FALSE), src2 |-> ISA!NoOperand]
<1>1. storeTile(bs, p, b, ti, tj, m) = <<move>>
      /\ <<move>> = BufferTile("STORE", m, bs[p], p, b, ti, tj)
  BY DEF storeTile, Move, Emit, BufferTile
<1>2. b \in Int /\ ti \in Int /\ tj \in Int /\ Below(K, K)
  BY BelowSelf DEF TileOf
<1> HIDE DEF move
<1>3. StoresTile(p, move, K, K)
  BY <1>1, <1>2 DEF StoresTile
<1>4. Follows(p, move, K, K)
  BY <1>3 DEF Follows
<1> QED
  BY <1>1, <1>4, ExecutesOne

\* A product, from the tiles in registers x and y to d.
LEMMA ExecutesProduct ==
  ASSUME NEW p, NEW op \in {"MATMUL", "MATMULRELU", "MATMULACC"},
         NEW d \in Sim!MatrixRegs, NEW x \in Sim!MatrixRegs, NEW y \in Sim!MatrixRegs,
         NEW h, NEW w, NEW K, ProductOutside(K, x, y, h, w),
         op = "MATMULACC" => <<d, h, w>> \in K.zero
  PROVE  Executes(p, K, Emit(op, Mat(d), Mat(x), Mat(y)), Holding(K, d, h, w))
<1> DEFINE i == [op |-> op, dst |-> Mat(d), src1 |-> Mat(x), src2 |-> Mat(y)]
           L == Holding(K, d, h, w)
<1>1. Emit(op, Mat(d), Mat(x), Mat(y)) = <<i>>
  BY DEF Emit
<1>2. TileChanges(K, L, d, {<<h, w>>}, FALSE)
  BY HoldingChanges
<1> HIDE DEF i, L
<1>3. Multiplies(i, K, L)
  BY <1>1, <1>2 DEF Multiplies
<1>4. Follows(p, i, K, L)
  BY <1>3 DEF Follows
<1> QED
  BY <1>1, <1>4, ExecutesOne DEF L

LEMMA ExecutesMap ==
  ASSUME NEW p, NEW op \in {"RELU", "TRANSPOSE"},
         NEW d \in Sim!MatrixRegs, NEW x \in Sim!MatrixRegs, NEW h, NEW w, NEW K,
         IF op = "RELU" THEN <<x, h, w>> \in K.zero ELSE <<x, w, h>> \in K.zero
  PROVE  Executes(p, K, Emit(op, Mat(d), Mat(x), ISA!NoOperand), Holding(K, d, h, w))
<1> DEFINE i == [op |-> op, dst |-> Mat(d), src1 |-> Mat(x), src2 |-> ISA!NoOperand]
           L == Holding(K, d, h, w)
<1>1. Emit(op, Mat(d), Mat(x), ISA!NoOperand) = <<i>>
  BY DEF Emit
<1>2. TileChanges(K, L, d, {<<h, w>>}, FALSE)
  BY HoldingChanges
<1> HIDE DEF i, L
<1>3. Maps(i, K, L)
  BY <1>1, <1>2 DEF Maps
<1>4. Follows(p, i, K, L)
  BY <1>3 DEF Follows
<1> QED
  BY <1>1, <1>4, ExecutesOne DEF L

-----------------------------------------------------------------------------
(* bindBases().                                                            *)

\* Every address of the data section is a word: the immediate that holds it
\* does not wrap.
FitsInWords == data.end < HalfWord

\* A, and the addresses in the registers of `bs`.
Based(A, bs) ==
  [reg |-> {<<bs[q], buffers[q].addr>> : q \in DOMAIN bs}, zero |-> A.zero,
   diagonal |-> A.diagonal, staged |-> A.staged]

\* The accumulator of bindBases() after n operands.
Binds(p, A, acc, n) ==
  /\ acc = [base |-> acc.base, reg |-> acc.reg, code |-> acc.code]
  /\ acc.reg \in 1 .. n + 1
  /\ \A q \in DOMAIN acc.base : acc.base[q] \in 1 .. acc.reg - 1
  /\ Executes(p, A, acc.code, Based(A, acc.base))

LEMMA BufferFacts ==
  ASSUME Ready, FitsInWords, NEW q \in DOMAIN buffers
  PROVE  /\ q \in DOMAIN heap /\ buffers[q] = bufferFor(q, buffers[q].addr)
         /\ heap[q].shape \in TensorShape /\ buffers[q].shape = heap[q].shape
         /\ buffers[q].cp = pad(heap[q].shape.cols)
         /\ buffers[q].addr \in Nat /\ buffers[q].addr \in Sim!Word
         /\ data.end \in Nat /\ buffers[q].addr + bufferWords(heap[q].shape) <= data.end
<1>1. BufferAt(data, q, buffers[q]) /\ data.end \in Nat
  BY DEF Ready, Layout
<1>2. /\ q \in DOMAIN heap /\ buffers[q] = bufferFor(q, buffers[q].addr)
      /\ buffers[q].addr \in Nat /\ buffers[q].addr + bufferWords(heap[q].shape) <= data.end
  BY <1>1 DEF BufferAt
<1>3. heap[q].shape \in TensorShape
  BY <1>2, FnFacts DEF Ready, IRLayers, IRInv
<1>4. bufferWords(heap[q].shape) \in Nat \ {0}
  BY <1>3, WordsType
<1>5. buffers[q].shape = heap[q].shape /\ buffers[q].cp = pad(heap[q].shape.cols)
  BY <1>2 DEF bufferFor
<1>6. buffers[q].addr \in Sim!Word
  <2> DEFINE a == buffers[q].addr
             w == bufferWords(heap[q].shape)
  <2> HIDE DEF a, w
  <2>1. a \in Nat /\ w \in Nat \ {0} /\ a + w <= data.end /\ data.end \in Nat
    BY <1>1, <1>2, <1>4 DEF a, w
  <2>2. HalfWord \in Nat /\ data.end < HalfWord
    BY PipelineAssumption DEF FitsInWords
  <2>3. a \in -HalfWord .. HalfWord - 1
    BY <2>1, <2>2
  <2> QED
    BY <2>3 DEF a, Sim!Word
<1> QED
  BY <1>1, <1>2, <1>3, <1>5, <1>6

LEMMA SetsBase ==
  ASSUME Ready, FitsInWords, NEW p, NEW A, NEW acc, NEW n \in Nat, Binds(p, A, acc, n),
         NEW q \in DOMAIN buffers, NEW r \in acc.reg .. 15
  PROVE  LET next == setBase(acc, q, r) IN
         /\ Binds(p, A, next, IF n < r THEN r ELSE n)
         /\ DOMAIN next.base = DOMAIN acc.base \cup {q}
         /\ next.reg \in {acc.reg, r + 1}
<1> DEFINE next == setBase(acc, q, r)
           m == IF n < r THEN r ELSE n
<1>0. acc.reg \in 1 .. n + 1 /\ r \in Int /\ r >= acc.reg /\ m \in Nat /\ m >= n /\ m >= r
  BY DEF Binds
<1>1. CASE q \in DOMAIN acc.base
  <2>1. next = acc /\ DOMAIN acc.base = DOMAIN acc.base \cup {q}
    BY <1>1 DEF setBase
  <2>2. acc.reg \in 1 .. m + 1
    <3> HIDE DEF m
    <3> QED
      BY <1>0
  <2> HIDE DEF next, m
  <2> QED
    BY <2>1, <2>2 DEF Binds, next, m
<1>2. CASE q \notin DOMAIN acc.base
  <2> DEFINE base2 == put(acc.base, q, r)
             addr == buffers[q].addr
             code2 == Emit("ADD", Reg(r), Reg(0), Num(addr))
             i == [op |-> "ADD", dst |-> Reg(r), src1 |-> Reg(0), src2 |-> Num(addr)]
             K == Based(A, acc.base)
             L == Based(A, base2)
  <2>1. /\ next = [base |-> base2, reg |-> r + 1, code |-> acc.code \o code2]
        /\ code2 = <<i>>
    BY <1>2 DEF setBase, Emit
  <2>2. /\ DOMAIN base2 = DOMAIN acc.base \cup {q} /\ base2[q] = r
        /\ \A x \in DOMAIN acc.base : base2[x] = acc.base[x]
    BY <1>2 DEF put
  <2>3. addr \in Sim!Word
    BY BufferFacts
  <2>4. \A x \in DOMAIN acc.base : acc.base[x] \in 1 .. r - 1 /\ acc.base[x] # r
    <3> SUFFICES ASSUME NEW x \in DOMAIN acc.base
                 PROVE  acc.base[x] \in 1 .. r - 1 /\ acc.base[x] # r
      OBVIOUS
    <3>1. acc.base[x] \in 1 .. acc.reg - 1
      BY DEF Binds
    <3> QED
      BY <1>0, <3>1
  <2> HIDE DEF base2, addr, i
  <2>5. RegisterChanges(K, L, r, addr)
    <3>1. \A y, v : <<y, v>> \in L.reg =>
            IF y = r THEN v = addr /\ addr \in Sim!Word ELSE <<y, v>> \in K.reg
      <4> SUFFICES ASSUME NEW y, NEW v, <<y, v>> \in L.reg
                   PROVE  IF y = r THEN v = addr /\ addr \in Sim!Word ELSE <<y, v>> \in K.reg
        OBVIOUS
      <4>1. PICK x \in DOMAIN base2 : y = base2[x] /\ v = buffers[x].addr
        BY DEF Based
      <4>2. CASE x = q
        BY <2>2, <2>3, <4>1, <4>2 DEF addr
      <4>3. CASE x # q
        <5>1. x \in DOMAIN acc.base /\ y = acc.base[x] /\ y # r
          BY <2>2, <2>4, <4>1, <4>3
        <5> QED
          BY <4>1, <5>1 DEF Based
      <4> QED
        BY <4>2, <4>3
    <3> QED
      BY <3>1 DEF RegisterChanges, Based
  <2>6. r \in 1 .. 15
    BY <1>0
  <2> HIDE DEF K, L
  <2>7. SetsRegister(i, K, L)
    BY <2>1, <2>5, <2>6 DEF SetsRegister
  <2>8. Follows(p, i, K, L)
    BY <2>7 DEF Follows
  <2>9. Executes(p, K, <<i>>, L)
    BY <2>8, ExecutesOne
  <2>10. Executes(p, A, acc.code, K)
    BY DEF Binds, K
  <2>11. Executes(p, A, acc.code \o <<i>>, L)
    BY <2>9, <2>10, ExecutesThen
  <2>12. /\ next.base = base2 /\ next.reg = r + 1 /\ next.code = acc.code \o <<i>>
         /\ next = [base |-> next.base, reg |-> next.reg, code |-> next.code]
    <3> HIDE DEF code2
    <3> QED
      BY <2>1
  <2> HIDE DEF next, m
  <2>13. next.reg \in 1 .. m + 1
    BY <1>0, <2>6, <2>12
  <2>14. ASSUME NEW x \in DOMAIN base2
         PROVE  base2[x] \in 1 .. r + 1 - 1
    <3>1. r \in 1 .. r + 1 - 1
      BY <2>6
    <3>2. 1 .. r - 1 \subseteq 1 .. r + 1 - 1
      BY <2>6
    <3> QED
      BY <2>2, <2>4, <3>1, <3>2
  <2>15. Binds(p, A, next, m)
    BY <2>11, <2>12, <2>13, <2>14 DEF Binds, L
  <2> QED
    BY <2>2, <2>12, <2>15 DEF next, m
<1> QED
  BY <1>1, <1>2

\* The equations of bindAll's loop over at most three operands.
bindNext(acc, q) == IF inDRAM(q) THEN setBase(acc, q, acc.reg) ELSE acc

LEMMA BindEquations ==
  ASSUME NEW list, Len(list) \in 0 .. 3
  PROVE  \E f : /\ bindAll(<< >>, list) = f[Len(list)]
                /\ f[0] = [base |-> << >>, reg |-> 1, code |-> << >>]
                /\ \A n \in 1 .. Len(list) : f[n] = bindNext(f[n - 1], list[n])
<1> DEFINE N == Len(list)
           start == [base |-> << >>, reg |-> 1, code |-> << >>]
           Equation(f) ==
             f = [n \in 0 .. N |->
                    IF n = 0 THEN start
                    ELSE LET acc == f[n - 1] IN
                         IF inDRAM(list[n]) THEN setBase(acc, list[n], acc.reg) ELSE acc]
           a == bindNext(start, list[1])
           b == bindNext(a, list[2])
           c == bindNext(b, list[3])
           g == [n \in 0 .. N |-> IF n = 0 THEN start ELSE IF n = 1 THEN a
                                  ELSE IF n = 2 THEN b ELSE c]
<1>1. N \in 0 .. 3
  OBVIOUS
<1>2. Equation(g)
  <2> HIDE DEF N, start, a, b
  <2> SUFFICES ASSUME NEW n \in 0 .. N
               PROVE  g[n] = IF n = 0 THEN start ELSE bindNext(g[n - 1], list[n])
    BY DEF bindNext
  <2>1. CASE n = 0
    BY <2>1
  <2>2. CASE n = 1
    <3>1. g[0] = start /\ g[1] = a /\ 1 - 1 = 0
      BY <1>1, <2>2
    <3> QED
      BY <2>2, <3>1 DEF a
  <2>3. CASE n = 2
    <3>1. g[1] = a /\ g[2] = b /\ 2 - 1 = 1
      BY <1>1, <2>3
    <3> QED
      BY <2>3, <3>1 DEF b
  <2>4. CASE n = 3
    <3>1. g[2] = b
      BY <1>1, <2>4
    <3>2. g[3] = c /\ 3 - 1 = 2
      BY <1>1, <2>4
    <3> QED
      BY <2>4, <3>1, <3>2 DEF c
  <2> QED
    BY <1>1, <2>1, <2>2, <2>3, <2>4
<1> DEFINE f == CHOOSE e : Equation(e)
<1>3. Equation(f)
  BY <1>2
<1>4. bindAll(<< >>, list) = f[N]
  BY DEF bindAll
<1> HIDE DEF f
<1>5. \A n \in 0 .. N : f[n] = IF n = 0 THEN start ELSE bindNext(f[n - 1], list[n])
  BY <1>3 DEF bindNext
<1> HIDE DEF N
<1>6. f[0] = start
  BY <1>1, <1>5
<1>7. ASSUME NEW n \in 1 .. N
      PROVE  f[n] = bindNext(f[n - 1], list[n])
  <2>1. n \in 0 .. N /\ n # 0
    BY <1>1
  <2> QED
    BY <1>5, <2>1
<1> QED
  BY <1>4, <1>6, <1>7 DEF N

LEMMA BindsOperand ==
  ASSUME Ready, FitsInWords, NEW p, NEW A, NEW acc, NEW n \in 0 .. 2, Binds(p, A, acc, n), NEW q
  PROVE  LET next == bindNext(acc, q) IN
         /\ Binds(p, A, next, n + 1)
         /\ DOMAIN acc.base \subseteq DOMAIN next.base
         /\ q \in DOMAIN buffers => q \in DOMAIN next.base
<1>1. acc.reg \in 1 .. n + 1
  BY DEF Binds
<1>2. CASE q \in DOMAIN buffers
  <2> DEFINE next == setBase(acc, q, acc.reg)
             r == acc.reg
             m == IF n < r THEN r ELSE n
  <2>1. bindNext(acc, q) = next
    BY <1>2 DEF bindNext, inDRAM
  <2>2. r \in r .. 15 /\ n \in Nat
    BY <1>1
  <2>3. /\ Binds(p, A, next, m) /\ DOMAIN next.base = DOMAIN acc.base \cup {q}
    BY <1>2, <2>2, SetsBase
  <2>4. m \in Nat /\ m <= n + 1
    BY <1>1
  <2> HIDE DEF next, m
  <2>5. next.reg \in 1 .. (n + 1) + 1
    <3>1. next.reg \in 1 .. m + 1
      BY <2>3 DEF Binds
    <3> QED
      BY <2>4, <3>1
  <2>6. Binds(p, A, next, n + 1)
    BY <2>3, <2>5 DEF Binds
  <2> QED
    BY <2>1, <2>3, <2>6
<1>3. CASE q \notin DOMAIN buffers
  <2>1. bindNext(acc, q) = acc
    BY <1>3 DEF bindNext, inDRAM
  <2>2. acc.reg \in 1 .. (n + 1) + 1
    BY <1>1
  <2>3. Binds(p, A, acc, n + 1)
    BY <2>2 DEF Binds
  <2> QED
    BY <1>3, <2>1, <2>3
<1> QED
  BY <1>2, <1>3

\* bindBases() leaves the address of every operand in DRAM in a register,
\* and that of the result.
LEMMA BindsAll ==
  ASSUME Ready, FitsInWords, NEW p, NEW A, A.reg = {},
         A = [reg |-> A.reg, zero |-> A.zero, diagonal |-> A.diagonal, staged |-> A.staged],
         NEW list, Len(list) \in 0 .. 3
  PROVE  LET acc == bindAll(<< >>, list) IN
         /\ Binds(p, A, acc, 3)
         /\ \A i \in 1 .. Len(list) : list[i] \in DOMAIN buffers => list[i] \in DOMAIN acc.base
<1> DEFINE N == Len(list)
<1>1. N \in 0 .. 3
  OBVIOUS
<1>2. PICK f : /\ bindAll(<< >>, list) = f[N]
               /\ f[0] = [base |-> << >>, reg |-> 1, code |-> << >>]
               /\ \A n \in 1 .. N : f[n] = bindNext(f[n - 1], list[n])
  BY BindEquations
<1> HIDE DEF N
<1> DEFINE Good(n) ==
             /\ Binds(p, A, f[n], n)
             /\ \A i \in 1 .. n : list[i] \in DOMAIN buffers => list[i] \in DOMAIN f[n].base
<1>3. Good(0)
  <2>1. f[0].base = << >> /\ f[0].reg = 1 /\ f[0].code = << >> /\ DOMAIN << >> = {}
    BY <1>2
  <2>2. Executes(p, A, << >>, Based(A, << >>))
    <3>1. Below(Based(A, << >>), A)
      BY <2>1 DEF Below, Based
    <3> QED
      BY <3>1, ExecutesNothing, ExecutesBetween, BelowSelf
  <2>3. f[0] = [base |-> f[0].base, reg |-> f[0].reg, code |-> f[0].code]
    BY <1>2, <2>1
  <2>4. Binds(p, A, f[0], 0)
    BY <2>1, <2>2, <2>3 DEF Binds
  <2> QED
    BY <2>4
<1>4. ASSUME NEW n \in 0 .. 2, n + 1 <= N, Good(n)
      PROVE  Good(n + 1)
  <2> DEFINE q == list[n + 1]
  <2>1. n + 1 \in 1 .. N /\ n + 1 - 1 = n
    BY <1>1, <1>4
  <2>2. f[n + 1] = bindNext(f[n], q)
    BY <1>2, <2>1
  <2>3. /\ Binds(p, A, f[n + 1], n + 1) /\ DOMAIN f[n].base \subseteq DOMAIN f[n + 1].base
        /\ q \in DOMAIN buffers => q \in DOMAIN f[n + 1].base
    BY <1>4, <2>2, BindsOperand
  <2>4. ASSUME NEW i \in 1 .. n + 1, list[i] \in DOMAIN buffers
        PROVE  list[i] \in DOMAIN f[n + 1].base
    <3>1. i = n + 1 \/ i \in 1 .. n
      OBVIOUS
    <3> QED
      BY <1>4, <2>3, <2>4, <3>1
  <2> QED
    BY <2>3, <2>4
<1> HIDE DEF Good
<1>5. Good(N)
  <2>1. (1 <= N => Good(1)) /\ (2 <= N => Good(2)) /\ (3 <= N => Good(3))
    <3>1. /\ 0 + 1 = 1 /\ 1 + 1 = 2 /\ 2 + 1 = 3
          /\ 0 \in 0 .. 2 /\ 1 \in 0 .. 2 /\ 2 \in 0 .. 2
      OBVIOUS
    <3>2. 1 <= N => Good(1)
      BY <1>3, <1>4, <3>1
    <3>3. 2 <= N => Good(2)
      <4>1. 2 <= N => 1 <= N
        BY <1>1
      <4> QED
        BY <1>4, <3>1, <3>2, <4>1
    <3>4. 3 <= N => Good(3)
      <4>1. 3 <= N => 2 <= N
        BY <1>1
      <4> QED
        BY <1>4, <3>1, <3>3, <4>1
    <3> QED
      BY <3>2, <3>3, <3>4
  <2>2. N = 0 \/ N = 1 \/ N = 2 \/ N = 3
    BY <1>1
  <2> QED
    BY <1>3, <2>1, <2>2
<1> DEFINE acc == f[N]
<1>6. Binds(p, A, acc, 3)
  <2>1. Binds(p, A, acc, N)
    BY <1>5 DEF Good
  <2>2. acc.reg \in 1 .. 3 + 1
    <3>1. acc.reg \in 1 .. N + 1
      BY <2>1 DEF Binds
    <3> QED
      BY <1>1, <3>1
  <2> QED
    BY <2>1, <2>2 DEF Binds
<1> QED
  BY <1>2, <1>5, <1>6 DEF Good, N

LEMMA BindsBases ==
  ASSUME Ready, FitsInWords, NEW p \in DOMAIN heap, heap[p].kind # "ScratchLoad", NEW A,
         A.reg = {},
         A = [reg |-> A.reg, zero |-> A.zero, diagonal |-> A.diagonal, staged |-> A.staged]
  PROVE  LET bound == bindBases(p) IN
         /\ Executes(p, A, bound.code, Based(A, bound.base))
         /\ \A i \in 1 .. Len(heap[p].operands) :
              LET q == Operand(p, i) IN
                heap[q].kind # "ScratchLoad" =>
                  bound.base[q] \in Sim!ScalarRegs /\ q \in DOMAIN bound.base
         /\ p \in DOMAIN buffers =>
              bound.base[p] \in Sim!ScalarRegs /\ p \in DOMAIN bound.base
<1> DEFINE list == heap[p].operands
           acc == bindAll(<< >>, list)
           rest == [q \in DOMAIN acc.base \ {p} |-> acc.base[q]]
           cleared == [base |-> rest, reg |-> acc.reg, code |-> acc.code]
           bound == bindBases(p)
<1>1. Len(list) \in 0 .. 3
  <2>1. Len(list) \in arities(heap[p].kind)
    BY FnFacts DEF Ready, IRLayers, IRInv
  <2>2. arities(heap[p].kind) \subseteq 0 .. 3
    BY DEF arities
  <2> QED
    BY <2>1, <2>2
<1>2. /\ Binds(p, A, acc, 3)
      /\ \A i \in 1 .. Len(list) : list[i] \in DOMAIN buffers => list[i] \in DOMAIN acc.base
  BY <1>1, BindsAll
<1>3. [acc EXCEPT !.base = [q \in DOMAIN @ \ {p} |-> @[q]]] = cleared
  <2>1. acc = [base |-> acc.base, reg |-> acc.reg, code |-> acc.code]
    BY <1>2 DEF Binds
  <2> HIDE DEF acc
  <2> QED
    BY <2>1
<1>4. bound = IF inDRAM(p) THEN setBase(cleared, p, 4) ELSE acc
  BY <1>3 DEF bindBases, boundFrom
<1> HIDE DEF acc, bound
<1>5. Binds(p, A, cleared, 3) /\ cleared.base = rest /\ cleared.reg = acc.reg
  <2>1. Below(Based(A, rest), Based(A, acc.base))
    BY DEF Below, Based
  <2>2. Executes(p, A, acc.code, Based(A, rest))
    BY <1>2, <2>1, ExecutesBetween, BelowSelf DEF Binds
  <2>3. \A q \in DOMAIN rest : rest[q] \in 1 .. acc.reg - 1
    BY <1>2 DEF Binds
  <2> HIDE DEF rest
  <2>4. cleared.base = rest /\ cleared.reg = acc.reg /\ cleared.code = acc.code
        /\ cleared = [base |-> cleared.base, reg |-> cleared.reg, code |-> cleared.code]
    OBVIOUS
  <2> HIDE DEF cleared
  <2> QED
    BY <1>2, <2>2, <2>3, <2>4 DEF Binds
<1>6. acc.reg \in 1 .. 4
  <2>1. acc.reg \in 1 .. 3 + 1
    BY <1>2 DEF Binds
  <2> QED
    BY <2>1
<1>7. ASSUME NEW i \in 1 .. Len(list), heap[Operand(p, i)].kind # "ScratchLoad"
      PROVE  Operand(p, i) \in DOMAIN acc.base /\ Operand(p, i) # p
  BY <1>2, <1>7, OperandFacts DEF Operand
<1>8. 1 .. 4 \subseteq Sim!ScalarRegs
  BY DEF Sim!ScalarRegs
<1>9. CASE p \in DOMAIN buffers
  <2>1. bound = setBase(cleared, p, 4)
    BY <1>4, <1>9 DEF inDRAM
  <2>2. 4 \in cleared.reg .. 15 /\ 3 \in Nat /\ (IF 3 < 4 THEN 4 ELSE 3) = 4
    BY <1>5, <1>6
  <2> HIDE DEF cleared
  <2>3. Binds(p, A, bound, 4) /\ DOMAIN bound.base = DOMAIN rest \cup {p}
    <3>1. Binds(p, A, bound, IF 3 < 4 THEN 4 ELSE 3)
      BY <1>5, <1>9, <2>1, <2>2, SetsBase
    <3>2. DOMAIN bound.base = DOMAIN rest \cup {p}
      BY <1>5, <1>9, <2>1, <2>2, SetsBase
    <3> QED
      BY <2>2, <3>1, <3>2
  <2>4. \A q \in DOMAIN bound.base : bound.base[q] \in Sim!ScalarRegs
    <3> SUFFICES ASSUME NEW q \in DOMAIN bound.base PROVE bound.base[q] \in 0 .. 15
      BY DEF Sim!ScalarRegs
    <3>1. bound.base[q] \in 1 .. bound.reg - 1 /\ bound.reg \in 1 .. 4 + 1
      BY <2>3 DEF Binds
    <3> QED
      BY <3>1
  <2>5. \A i \in 1 .. Len(list) : heap[Operand(p, i)].kind # "ScratchLoad" =>
          Operand(p, i) \in DOMAIN bound.base
    BY <1>7, <2>3
  <2>6. p \in DOMAIN bound.base
    BY <2>3
  <2> QED
    BY <2>3, <2>4, <2>5, <2>6 DEF Binds, bound
<1>10. CASE p \notin DOMAIN buffers
  <2>1. bound = acc
    BY <1>4, <1>10 DEF inDRAM
  <2>2. \A q \in DOMAIN acc.base : acc.base[q] \in Sim!ScalarRegs
    <3> SUFFICES ASSUME NEW q \in DOMAIN acc.base PROVE acc.base[q] \in 0 .. 15
      BY DEF Sim!ScalarRegs
    <3>1. acc.base[q] \in 1 .. acc.reg - 1
      BY <1>2 DEF Binds
    <3> QED
      BY <1>6, <3>1
  <2> QED
    BY <1>2, <1>7, <1>10, <2>1, <2>2 DEF Binds, bound
<1> QED
  BY <1>9, <1>10

-----------------------------------------------------------------------------
(* lower(), op by op: the code of an op leaves what is known as it was.    *)

\* K is enough for the code of p.
Prepared(p, K, bs) ==
  /\ K.zero = {} /\ K.diagonal \subseteq {5, 6, 7}
  /\ \A i \in 1 .. Len(heap[p].operands) : Loadable(K, bs, p, i)
  /\ p \in DOMAIN buffers => bs[p] \in Sim!ScalarRegs /\ <<bs[p], buffers[p].addr>> \in K.reg

LEMMA LoadableAbove ==
  ASSUME NEW A, NEW K, NEW bs, NEW p, NEW i, Loadable(A, bs, p, i), Below(A, K)
  PROVE  Loadable(K, bs, p, i)
BY DEF Loadable, Below

\* The registers the code computes in are free.
LEMMA PreparedIgnores ==
  ASSUME NEW p, NEW K, NEW bs, Prepared(p, K, bs), NEW m \in 0 .. 4
  PROVE  Ignores(K, m) /\ m \in Sim!MatrixRegs
BY DEF Prepared, Ignores, Sim!MatrixRegs

\* A broadcast operand has the tile the loop is at.
LEMMA BroadcastTile ==
  ASSUME NEW s \in TensorShape, NEW out \in TensorShape, Broadcasts(s, out),
         NEW b \in 0 .. out.batch - 1,
         NEW i \in 0 .. tilesOf(s.rows) - 1, NEW j \in 0 .. tilesOf(s.cols) - 1
  PROVE  TileOf(s, broadcast(s, b), i, j)
<1>1. s.batch \in Nat \ {0} /\ out.batch \in Nat \ {0}
  BY ShapeTypes
<1>2. broadcast(s, b) \in 0 .. s.batch - 1
  BY <1>1 DEF Broadcasts, broadcast
<1> QED
  BY <1>2 DEF TileOf

\* The loop of ForEachTile visits the tiles.
LEMMA VisitsTiles ==
  ASSUME NEW s \in TensorShape
  PROVE  LET nt == tilesOf(s.cols)
             n == tilesOf(s.rows) * nt
         IN /\ s.batch * n \in Nat \ {0} /\ s.batch * n = tiles(s)
            /\ \A k \in 1 .. s.batch * n :
                 /\ k - 1 \in 0 .. tiles(s) - 1
                 /\ TileOf(s, (k - 1) \div n, ((k - 1) % n) \div nt, (k - 1) % nt)
                 /\ tileNumber(s, (k - 1) \div n, ((k - 1) % n) \div nt, (k - 1) % nt) = k - 1
                 /\ ((k - 1) % n) \div nt = rowOf(s, k - 1) /\ (k - 1) % nt = colOf(s, k - 1)
<1> DEFINE nt == tilesOf(s.cols)
           n == tilesOf(s.rows) * nt
<1>1. s.batch * n = tiles(s) /\ tiles(s) \in Nat \ {0}
  <2>1. s.batch \in Nat /\ tilesOf(s.rows) \in Nat /\ nt \in Nat /\ tiles(s) \in Nat \ {0}
    BY ShapeTypes
  <2>2. tiles(s) = s.batch * tilesOf(s.rows) * nt
    BY DEF tiles
  <2> HIDE DEF nt
  <2> QED
    BY <2>1, <2>2
<1>2. ASSUME NEW k \in 1 .. tiles(s)
      PROVE  /\ k - 1 \in 0 .. tiles(s) - 1
             /\ TileOf(s, (k - 1) \div n, rowOf(s, k - 1), colOf(s, k - 1))
             /\ tileNumber(s, (k - 1) \div n, rowOf(s, k - 1), colOf(s, k - 1)) = k - 1
  <2>1. k - 1 \in 0 .. tiles(s) - 1
    BY <1>1
  <2> QED
    BY <2>1, TileCounted
<1>3. \A k : rowOf(s, k - 1) = ((k - 1) % n) \div nt /\ colOf(s, k - 1) = (k - 1) % nt
  BY DEF rowOf, colOf
<1> HIDE DEF n, nt
<1> QED
  BY <1>1, <1>2, <1>3 DEF n, nt

\* The loads, the products and the store of a tile of a sum or a difference.
LEMMA AddExecutes ==
  ASSUME Ready, NEW p \in DOMAIN heap, heap[p].kind \in {"Add", "Sub"},
         NEW K, NEW bs, Prepared(p, K, bs), p \in DOMAIN buffers,
         (IF heap[p].kind = "Add" THEN 7 ELSE 6) \in K.diagonal
  PROVE  Executes(p, K, addCode(p, bs), K)
<1> DEFINE unit == IF heap[p].kind = "Add" THEN 7 ELSE 6
           s == heap[p].shape
           nt == tilesOf(s.cols)
           per == tilesOf(s.rows) * nt
           N == s.batch * per
           body(b, i, j) ==
             loadTile(bs, Operand(p, 1), b, i, j, 0) \o loadTile(bs, Operand(p, 2), b, i, j, 1)
             \o Emit("MATMULACC", Mat(0), Mat(1), Mat(unit)) \o storeTile(bs, p, b, i, j, 0)
           lists == [n \in 1 .. N |->
                       body((n - 1) \div per, ((n - 1) % per) \div nt, (n - 1) % nt)]
<1>1. addCode(p, bs) = Seqs!FlattenSeq(lists)
  BY DEF addCode, ForEachTile
<1>2. s \in TensorShape /\ 1 \in 1 .. Len(heap[p].operands) /\ 2 \in 1 .. Len(heap[p].operands)
  <2>1. FnInv
    BY DEF Ready, IRLayers, IRInv
  <2>2. Len(heap[p].operands) \in arities(heap[p].kind) /\ s \in TensorShape
    BY <2>1, FnFacts
  <2>3. arities(heap[p].kind) = {2}
    BY DEF arities, LeafKinds, BinaryKinds
  <2>4. Len(heap[p].operands) = 2
    BY <2>2, <2>3
  <2> QED
    BY <2>2, <2>4
<1>3. /\ N \in Nat \ {0}
      /\ \A n \in 1 .. N : TileOf(s, (n - 1) \div per, ((n - 1) % per) \div nt, (n - 1) % nt)
  BY <1>2, VisitsTiles
<1>4. ASSUME NEW i \in {1, 2}
      PROVE  LET t == heap[Operand(p, i)].shape IN
             /\ t \in TensorShape /\ t.rows = s.rows /\ t.cols = s.cols /\ Broadcasts(t, s)
  <2>1. heap[Operand(p, i)].shape \in TensorShape
    BY <1>2, OperandFacts
  <2>2. CASE heap[p].kind = "Add"
    <3>1. OpFits(heap, p)
      BY DEF Ready, IRLayers, ShapesInv, ShapesFit
    <3> QED
      BY <2>1, <2>2, <3>1 DEF OpFits, ShapesAllowed, ShapeOf, Operand
  <2>3. CASE heap[p].kind = "Sub"
    <3>1. OperandFits(heap, p, i)
      BY <1>2 DEF Ready, IRLayers, OperandsInv, OperandsFit
    <3> QED
      BY <2>1, <2>3, <3>1 DEF OperandFits, OperandAllowed, ShapeOf, Operand
  <2> QED
    BY <2>2, <2>3
<1>5. ASSUME NEW b, NEW i, NEW j, TileOf(s, b, i, j)
      PROVE  Executes(p, K, body(b, i, j), K)
  <2> DEFINE h == liveOf(s.rows, i)
             w == liveOf(s.cols, j)
             K1 == Holding(K, 0, h, w)
             K2 == Holding(K1, 1, h, w)
             K3 == Holding(K2, 0, h, w)
  <2>1. ASSUME NEW o \in {1, 2}
        PROVE  TileOf(heap[Operand(p, o)].shape, broadcast(heap[Operand(p, o)].shape, b), i, j)
    <3>1. b \in 0 .. s.batch - 1 /\ i \in 0 .. tilesOf(s.rows) - 1 /\ j \in 0 .. tilesOf(s.cols) - 1
      BY <1>5 DEF TileOf
    <3> QED
      BY <1>2, <1>4, <3>1, BroadcastTile
  <2>2. 0 \in Sim!MatrixRegs /\ 1 \in Sim!MatrixRegs /\ unit \in Sim!MatrixRegs
        /\ heap[p].kind # "ScratchLoad"
    BY DEF Sim!MatrixRegs
  <2>3. Below(K, K1) /\ Below(K, K2) /\ Below(K, K3)
    <3>1. Ignores(K, 0) /\ Ignores(K, 1)
      BY PreparedIgnores, 0 \in 0 .. 4, 1 \in 0 .. 4
    <3> QED
      BY <3>1, BelowSelf, HoldingKeeps
  <2>4. Executes(p, K, loadTile(bs, Operand(p, 1), b, i, j, 0), K1)
    <3>1. Loadable(K, bs, p, 1)
      BY <1>2 DEF Prepared
    <3>2. Executes(p, K, loadTile(bs, Operand(p, 1), b, i, j, 0),
                   Holding(K, 0, liveOf(heap[Operand(p, 1)].shape.rows, i),
                           liveOf(heap[Operand(p, 1)].shape.cols, j)))
      BY <1>2, <2>1, <2>2, <3>1, LoadsOperand
    <3> QED
      BY <1>4, <3>2
  <2>5. Executes(p, K1, loadTile(bs, Operand(p, 2), b, i, j, 1), K2)
    <3>1. Loadable(K1, bs, p, 2)
      BY <1>2, <2>3, LoadableAbove DEF Prepared
    <3> HIDE DEF K1
    <3>2. Executes(p, K1, loadTile(bs, Operand(p, 2), b, i, j, 1),
                   Holding(K1, 1, liveOf(heap[Operand(p, 2)].shape.rows, i),
                           liveOf(heap[Operand(p, 2)].shape.cols, j)))
      BY <1>2, <2>1, <2>2, <3>1, LoadsOperand
    <3> QED
      BY <1>4, <3>2
  <2>6. Executes(p, K2, Emit("MATMULACC", Mat(0), Mat(1), Mat(unit)), K3)
    <3>1. <<1, h, w>> \in K2.zero /\ <<0, h, w>> \in K2.zero /\ unit \in K2.diagonal
      BY DEF Holding
    <3> HIDE DEF K2, unit, h, w
    <3>2. ProductOutside(K2, 1, unit, h, w)
      BY <3>1 DEF ProductOutside
    <3> QED
      BY <2>2, <3>1, <3>2, ExecutesProduct
  <2>7. Executes(p, K3, storeTile(bs, p, b, i, j, 0), K3)
    <3>1. <<0, h, w>> \in K3.zero /\ K3.reg = K.reg
      BY DEF Holding
    <3> HIDE DEF K3
    <3>2. bs[p] \in Sim!ScalarRegs /\ <<bs[p], buffers[p].addr>> \in K3.reg
      BY <3>1 DEF Prepared
    <3> QED
      BY <1>5, <2>2, <3>1, <3>2, StoresResult
  <2> HIDE DEF K1, K2, K3, unit
  <2>8. Executes(p, K, body(b, i, j), K3)
    BY <2>4, <2>5, <2>6, <2>7, ExecutesThen
  <2> HIDE DEF body
  <2> QED
    BY <2>3, <2>8, BelowSelf, ExecutesBetween
<1>6. ASSUME NEW n \in 1 .. N
      PROVE  Executes(p, K, lists[n], K)
  <2>1. TileOf(s, (n - 1) \div per, ((n - 1) % per) \div nt, (n - 1) % nt)
    BY <1>3
  <2>2. lists[n] = body((n - 1) \div per, ((n - 1) % per) \div nt, (n - 1) % nt)
    OBVIOUS
  <2> HIDE DEF lists, body, s, per, nt, N
  <2> QED
    BY <1>5, <2>1, <2>2
<1>7. DOMAIN lists = 1 .. N /\ lists = [n \in 1 .. N |-> lists[n]]
  BY Zenon
<1> HIDE DEF lists, N
<1> QED
  BY <1>1, <1>3, <1>6, <1>7, SteadyLoopExecutes

\* Loading, mapping and storing a tile of a transpose or a relu.
LEMMA MapExecutes ==
  ASSUME Ready, NEW p \in DOMAIN heap, heap[p].kind \in {"Transpose", "Relu"},
         NEW K, NEW bs, Prepared(p, K, bs), p \in DOMAIN buffers
  PROVE  Executes(p, K, transposeReluCode(p, bs), K)
<1> DEFINE tr == heap[p].kind = "Transpose"
           op == IF tr THEN "TRANSPOSE" ELSE "RELU"
           s == heap[p].shape
           t == heap[Operand(p, 1)].shape
           nt == tilesOf(s.cols)
           per == tilesOf(s.rows) * nt
           N == s.batch * per
           body(b, i, j) ==
             loadTile(bs, Operand(p, 1), b, IF tr THEN j ELSE i, IF tr THEN i ELSE j, 1)
             \o Emit(op, Mat(0), Mat(1), ISA!NoOperand) \o storeTile(bs, p, b, i, j, 0)
           lists == [n \in 1 .. N |->
                       body((n - 1) \div per, ((n - 1) % per) \div nt, (n - 1) % nt)]
<1>1. transposeReluCode(p, bs) = Seqs!FlattenSeq(lists)
  BY DEF transposeReluCode, ForEachTile
<1>2. s \in TensorShape /\ 1 \in 1 .. Len(heap[p].operands)
  <2>1. FnInv
    BY DEF Ready, IRLayers, IRInv
  <2>2. Len(heap[p].operands) \in arities(heap[p].kind) /\ s \in TensorShape
    BY <2>1, FnFacts
  <2>3. arities(heap[p].kind) = {1}
    BY DEF arities, LeafKinds, BinaryKinds
  <2>4. Len(heap[p].operands) = 1
    BY <2>2, <2>3
  <2> QED
    BY <2>2, <2>4
<1>3. /\ N \in Nat \ {0}
      /\ \A n \in 1 .. N : TileOf(s, (n - 1) \div per, ((n - 1) % per) \div nt, (n - 1) % nt)
  BY <1>2, VisitsTiles
<1>4. /\ t \in TensorShape /\ t.batch = s.batch
      /\ IF tr THEN t.rows = s.cols /\ t.cols = s.rows ELSE t.rows = s.rows /\ t.cols = s.cols
  <2>1. t \in TensorShape
    BY <1>2, OperandFacts
  <2>2. CASE heap[p].kind = "Relu"
    <3>1. OpFits(heap, p)
      BY DEF Ready, IRLayers, ShapesInv, ShapesFit
    <3> QED
      BY <2>1, <2>2, <3>1 DEF OpFits, ShapesAllowed, ShapeOf, Operand
  <2>3. CASE heap[p].kind = "Transpose"
    <3>1. OperandFits(heap, p, 1)
      BY <1>2 DEF Ready, IRLayers, OperandsInv, OperandsFit
    <3> QED
      BY <2>1, <2>3, <3>1 DEF OperandFits, OperandAllowed, ShapeOf, Operand
  <2> QED
    BY <2>2, <2>3
<1>5. ASSUME NEW b, NEW i, NEW j, TileOf(s, b, i, j)
      PROVE  Executes(p, K, body(b, i, j), K)
  <2> DEFINE h == liveOf(s.rows, i)
             w == liveOf(s.cols, j)
             x == IF tr THEN j ELSE i
             y == IF tr THEN i ELSE j
             K1 == Holding(K, 1, liveOf(t.rows, x), liveOf(t.cols, y))
             K2 == Holding(K1, 0, h, w)
  <2>1. TileOf(t, broadcast(t, b), x, y)
    <3>1. b \in 0 .. s.batch - 1 /\ i \in 0 .. tilesOf(s.rows) - 1 /\ j \in 0 .. tilesOf(s.cols) - 1
      BY <1>5 DEF TileOf
    <3>2. x \in 0 .. tilesOf(t.rows) - 1 /\ y \in 0 .. tilesOf(t.cols) - 1
      BY <1>4, <3>1
    <3>3. Broadcasts(t, s)
      BY <1>4 DEF Broadcasts
    <3> HIDE DEF x, y
    <3> QED
      BY <1>2, <1>4, <3>1, <3>2, <3>3, BroadcastTile
  <2>2. 0 \in Sim!MatrixRegs /\ 1 \in Sim!MatrixRegs /\ heap[p].kind # "ScratchLoad"
    BY DEF Sim!MatrixRegs
  <2>3. Below(K, K1) /\ Below(K, K2)
    <3>1. Ignores(K, 0) /\ Ignores(K, 1)
      BY PreparedIgnores, 0 \in 0 .. 4, 1 \in 0 .. 4
    <3> QED
      BY <3>1, BelowSelf, HoldingKeeps
  <2>4. Executes(p, K, loadTile(bs, Operand(p, 1), b, x, y, 1), K1)
    <3>1. Loadable(K, bs, p, 1)
      BY <1>2 DEF Prepared
    <3> HIDE DEF x, y
    <3> QED
      BY <1>2, <2>1, <2>2, <3>1, LoadsOperand
  <2>5. Executes(p, K1, Emit(op, Mat(0), Mat(1), ISA!NoOperand), K2)
    <3>1. IF op = "RELU" THEN <<1, h, w>> \in K1.zero ELSE <<1, w, h>> \in K1.zero
      BY <1>4 DEF Holding
    <3>2. op \in {"RELU", "TRANSPOSE"}
      OBVIOUS
    <3> HIDE DEF K1, h, w, op
    <3> QED
      BY <2>2, <3>1, <3>2, ExecutesMap
  <2>6. Executes(p, K2, storeTile(bs, p, b, i, j, 0), K2)
    <3>1. <<0, h, w>> \in K2.zero /\ K2.reg = K.reg
      BY DEF Holding
    <3> HIDE DEF K2
    <3>2. bs[p] \in Sim!ScalarRegs /\ <<bs[p], buffers[p].addr>> \in K2.reg
      BY <3>1 DEF Prepared
    <3> QED
      BY <1>5, <2>2, <3>1, <3>2, StoresResult
  <2>7. body(b, i, j) = loadTile(bs, Operand(p, 1), b, x, y, 1)
             \o Emit(op, Mat(0), Mat(1), ISA!NoOperand) \o storeTile(bs, p, b, i, j, 0)
    OBVIOUS
  <2> HIDE DEF K1, K2, op, x, y, body
  <2>8. Executes(p, K, body(b, i, j), K2)
    BY <2>4, <2>5, <2>6, <2>7, ExecutesThen
  <2> QED
    BY <2>3, <2>8, BelowSelf, ExecutesBetween
<1>6. ASSUME NEW n \in 1 .. N
      PROVE  Executes(p, K, lists[n], K)
  <2>1. TileOf(s, (n - 1) \div per, ((n - 1) % per) \div nt, (n - 1) % nt)
    BY <1>3
  <2>2. lists[n] = body((n - 1) \div per, ((n - 1) % per) \div nt, (n - 1) % nt)
    OBVIOUS
  <2> HIDE DEF lists, body, s, per, nt, N
  <2> QED
    BY <1>5, <2>1, <2>2
<1>7. DOMAIN lists = 1 .. N /\ lists = [n \in 1 .. N |-> lists[n]]
  BY Zenon
<1> HIDE DEF lists, N
<1> QED
  BY <1>1, <1>3, <1>6, <1>7, SteadyLoopExecutes

\* Register 5 is loaded with the factor, off whose diagonal there are zeros.
LEMMA ScaleExecutes ==
  ASSUME Ready, NEW p \in DOMAIN heap, heap[p].kind = "ScalarMul",
         NEW K, NEW bs, Prepared(p, K, bs), p \in DOMAIN buffers
  PROVE  Executes(p, K, scalarMulCode(p, bs), K)
<1> DEFINE s == heap[p].shape
           t == heap[Operand(p, 1)].shape
           nt == tilesOf(s.cols)
           per == tilesOf(s.rows) * nt
           N == s.batch * per
           body(b, i, j) ==
             loadTile(bs, Operand(p, 1), b, i, j, 1)
             \o Emit("MATMUL", Mat(0), Mat(1), Mat(5)) \o storeTile(bs, p, b, i, j, 0)
           lists == [n \in 1 .. N |->
                       body((n - 1) \div per, ((n - 1) % per) \div nt, (n - 1) % nt)]
           J == [reg |-> K.reg, zero |-> K.zero, diagonal |-> K.diagonal \cup {5},
                 staged |-> K.staged]
           first == Move("LOAD", 5, 0, scaleAddr[p], 0, FALSE)
<1>1. scalarMulCode(p, bs) = first \o Seqs!FlattenSeq(lists)
  BY DEF scalarMulCode, ForEachTile
<1>2. s \in TensorShape /\ 1 \in 1 .. Len(heap[p].operands) /\ p \in DOMAIN scaleAddr
  <2>1. FnInv
    BY DEF Ready, IRLayers, IRInv
  <2>2. Len(heap[p].operands) \in arities(heap[p].kind) /\ s \in TensorShape
    BY <2>1, FnFacts
  <2>3. arities(heap[p].kind) = {1}
    BY DEF arities, LeafKinds, BinaryKinds
  <2>4. Len(heap[p].operands) = 1
    BY <2>2, <2>3
  <2>5. PICK k \in 1 .. Len(ops) : ops[k] = p
    BY <2>1, FnFacts
  <2>6. p \in DOMAIN scaleAddr
    BY <2>5 DEF Ready, Placed
  <2> QED
    BY <2>2, <2>4, <2>6
<1>3. /\ N \in Nat \ {0}
      /\ \A n \in 1 .. N : TileOf(s, (n - 1) \div per, ((n - 1) % per) \div nt, (n - 1) % nt)
  BY <1>2, VisitsTiles
<1>4. t \in TensorShape /\ t = s
  <2>1. t \in TensorShape
    BY <1>2, OperandFacts
  <2>2. OperandFits(heap, p, 1)
    BY <1>2 DEF Ready, IRLayers, OperandsInv, OperandsFit
  <2> QED
    BY <2>1, <2>2 DEF OperandFits, OperandAllowed, ShapeOf, Operand
<1>5. Prepared(p, J, bs) /\ Below(K, J)
  <2>1. Below(K, J)
    BY DEF Below
  <2>2. \A i \in 1 .. Len(heap[p].operands) : Loadable(J, bs, p, i)
    BY <2>1, LoadableAbove DEF Prepared
  <2> QED
    BY <2>1, <2>2 DEF Prepared
<1>6. Executes(p, K, first, J)
  <2> DEFINE i == [op |-> "LOAD", dst |-> Mat(5),
                   src1 |-> ISA!MemOperand(0, scaleAddr[p], 0, FALSE), src2 |-> ISA!NoOperand]
  <2>1. first = <<i>>
    BY DEF Move, Emit
  <2>2. scaleAddr[p] \in Constants /\ 5 \in Sim!MatrixRegs
    BY <1>2 DEF Constants, Sim!MatrixRegs
  <2>3. TileChanges(K, J, 5, {}, TRUE)
    BY DEF TileChanges, Prepared
  <2> HIDE DEF i, J
  <2>4. LoadsConstant(i, K, J)
    BY <2>1, <2>2, <2>3 DEF LoadsConstant
  <2>5. Follows(p, i, K, J)
    BY <2>4 DEF Follows
  <2> HIDE DEF first
  <2> QED
    BY <2>1, <2>5, ExecutesOne
<1>7. 5 \in J.diagonal
  OBVIOUS
<1> HIDE DEF J
<1>8. ASSUME NEW b, NEW i, NEW j, TileOf(s, b, i, j)
      PROVE  Executes(p, J, body(b, i, j), J)
  <2> DEFINE h == liveOf(s.rows, i)
             w == liveOf(s.cols, j)
             K1 == Holding(J, 1, h, w)
             K2 == Holding(K1, 0, h, w)
  <2>1. TileOf(t, broadcast(t, b), i, j)
    <3>1. b \in 0 .. s.batch - 1 /\ i \in 0 .. tilesOf(s.rows) - 1 /\ j \in 0 .. tilesOf(s.cols) - 1
      BY <1>8 DEF TileOf
    <3>2. Broadcasts(t, s)
      BY <1>4 DEF Broadcasts
    <3> QED
      BY <1>2, <1>4, <3>1, <3>2, BroadcastTile
  <2>2. 0 \in Sim!MatrixRegs /\ 1 \in Sim!MatrixRegs /\ 5 \in Sim!MatrixRegs
        /\ heap[p].kind # "ScratchLoad"
    BY DEF Sim!MatrixRegs
  <2>3. Below(J, K1) /\ Below(J, K2)
    <3>1. Ignores(J, 0) /\ Ignores(J, 1)
      BY <1>5, PreparedIgnores, 0 \in 0 .. 4, 1 \in 0 .. 4
    <3> QED
      BY <3>1, BelowSelf, HoldingKeeps
  <2>4. Executes(p, J, loadTile(bs, Operand(p, 1), b, i, j, 1), K1)
    <3>1. Loadable(J, bs, p, 1)
      BY <1>2, <1>5 DEF Prepared
    <3>2. Executes(p, J, loadTile(bs, Operand(p, 1), b, i, j, 1),
                   Holding(J, 1, liveOf(t.rows, i), liveOf(t.cols, j)))
      BY <1>2, <2>1, <2>2, <3>1, LoadsOperand
    <3> QED
      BY <1>4, <3>2
  <2>5. Executes(p, K1, Emit("MATMUL", Mat(0), Mat(1), Mat(5)), K2)
    <3>1. <<1, h, w>> \in K1.zero /\ 5 \in K1.diagonal
      BY <1>7 DEF Holding
    <3> HIDE DEF K1, h, w
    <3>2. ProductOutside(K1, 1, 5, h, w)
      BY <3>1 DEF ProductOutside
    <3> QED
      BY <2>2, <3>2, ExecutesProduct
  <2>6. Executes(p, K2, storeTile(bs, p, b, i, j, 0), K2)
    <3>1. <<0, h, w>> \in K2.zero /\ K2.reg = J.reg
      BY DEF Holding
    <3> HIDE DEF K2
    <3>2. bs[p] \in Sim!ScalarRegs /\ <<bs[p], buffers[p].addr>> \in K2.reg
      BY <1>5, <3>1 DEF Prepared
    <3> QED
      BY <1>8, <2>2, <3>1, <3>2, StoresResult
  <2>7. body(b, i, j) = loadTile(bs, Operand(p, 1), b, i, j, 1)
             \o Emit("MATMUL", Mat(0), Mat(1), Mat(5)) \o storeTile(bs, p, b, i, j, 0)
    OBVIOUS
  <2> HIDE DEF K1, K2, body
  <2>8. Executes(p, J, body(b, i, j), K2)
    BY <2>4, <2>5, <2>6, <2>7, ExecutesThen
  <2> QED
    BY <2>3, <2>8, BelowSelf, ExecutesBetween
<1>9. ASSUME NEW n \in 1 .. N
      PROVE  Executes(p, J, lists[n], J)
  <2>1. TileOf(s, (n - 1) \div per, ((n - 1) % per) \div nt, (n - 1) % nt)
    BY <1>3
  <2>2. lists[n] = body((n - 1) \div per, ((n - 1) % per) \div nt, (n - 1) % nt)
    OBVIOUS
  <2> HIDE DEF lists, body, s, per, nt, N
  <2> QED
    BY <1>8, <2>1, <2>2
<1>10. DOMAIN lists = 1 .. N /\ lists = [n \in 1 .. N |-> lists[n]]
  BY Zenon
<1> HIDE DEF lists, N, first
<1>11. Executes(p, J, Seqs!FlattenSeq(lists), J)
  BY <1>3, <1>9, <1>10, SteadyLoopExecutes
<1>12. Executes(p, K, first \o Seqs!FlattenSeq(lists), J)
  BY <1>6, <1>11, ExecutesThen
<1> QED
  BY <1>1, <1>5, <1>12, BelowSelf, ExecutesBetween

\* The loop over k accumulates products of two operand tiles in register 0.
LEMMA MatMulExecutes ==
  ASSUME Ready, NEW p \in DOMAIN heap, isMatMulFamily(heap[p].kind),
         NEW K, NEW bs, Prepared(p, K, bs), p \in DOMAIN buffers
  PROVE  Executes(p, K, matMulCode(p, bs), K)
<1> DEFINE s == heap[p].shape
           sh(i) == heap[Operand(p, i)].shape
           kt == tilesOf(sh(1).cols)
           acc == Len(heap[p].operands) = 3
           fused == heap[p].kind = "FusedMatMulRelu"
           term(b, i, j, k) ==
             loadTile(bs, Operand(p, 1), b, i, k, 1) \o loadTile(bs, Operand(p, 2), b, k, j, 2)
             \o Emit(productOp(acc, fused, kt, k), Mat(0), Mat(1), Mat(2))
           first(b, i, j) == IF acc THEN loadTile(bs, Operand(p, 3), b, i, j, 0) ELSE << >>
           terms(b, i, j) == [k \in 1 .. kt |-> term(b, i, j, k - 1)]
           last == IF fused /\ (kt > 1 \/ acc) THEN Emit("RELU", Mat(0), Mat(0), ISA!NoOperand)
                   ELSE << >>
           body(b, i, j) == first(b, i, j) \o Seqs!FlattenSeq(terms(b, i, j)) \o last
                            \o storeTile(bs, p, b, i, j, 0)
           nt == tilesOf(s.cols)
           per == tilesOf(s.rows) * nt
           N == s.batch * per
           lists == [n \in 1 .. N |->
                       body((n - 1) \div per, ((n - 1) % per) \div nt, (n - 1) % nt)]
<1>1. matMulCode(p, bs) = Seqs!FlattenSeq(lists)
  BY DEF matMulCode, ForEachTile
<1>2. /\ s \in TensorShape /\ 1 \in 1 .. Len(heap[p].operands)
      /\ 2 \in 1 .. Len(heap[p].operands) /\ (acc => 3 \in 1 .. Len(heap[p].operands))
  <2>1. FnInv
    BY DEF Ready, IRLayers, IRInv
  <2>2. Len(heap[p].operands) \in arities(heap[p].kind) /\ s \in TensorShape
    BY <2>1, FnFacts
  <2>3. arities(heap[p].kind) \subseteq {2, 3}
    BY DEF arities, LeafKinds, BinaryKinds, isMatMulFamily
  <2>4. Len(heap[p].operands) \in {2, 3}
    BY <2>2, <2>3
  <2> DEFINE n == Len(heap[p].operands)
  <2>5. n = 2 \/ n = 3
    BY <2>4
  <2>6. n = 2 => 1 \in 1 .. n /\ 2 \in 1 .. n
    OBVIOUS
  <2>7. n = 3 => 1 \in 1 .. n /\ 2 \in 1 .. n /\ 3 \in 1 .. n
    OBVIOUS
  <2>8. acc <=> n = 3
    OBVIOUS
  <2> HIDE DEF n, acc
  <2> QED
    BY <2>2, <2>5, <2>6, <2>7, <2>8 DEF n
<1>3. /\ N \in Nat \ {0}
      /\ \A n \in 1 .. N : TileOf(s, (n - 1) \div per, ((n - 1) % per) \div nt, (n - 1) % nt)
  BY <1>2, VisitsTiles
<1>4. /\ sh(1) \in TensorShape /\ sh(2) \in TensorShape
      /\ sh(1).rows = s.rows /\ sh(2).cols = s.cols /\ sh(1).cols = sh(2).rows
      /\ Broadcasts(sh(1), s) /\ Broadcasts(sh(2), s)
      /\ heap[p].kind # "ScratchLoad"
  <2>1. heap[p].kind # "ScratchLoad"
    BY DEF isMatMulFamily
  <2>2. sh(1) \in TensorShape /\ sh(2) \in TensorShape
    BY <1>2, <2>1, OperandFacts
  <2>3. OpFits(heap, p)
    BY DEF Ready, IRLayers, ShapesInv, ShapesFit
  <2> QED
    BY <2>1, <2>2, <2>3 DEF OpFits, ShapesAllowed, ShapeOf, Operand
<1>5. acc => /\ sh(3) \in TensorShape /\ sh(3).rows = s.rows /\ sh(3).cols = s.cols
             /\ Broadcasts(sh(3), s)
  <2> SUFFICES ASSUME acc
               PROVE  /\ sh(3) \in TensorShape /\ sh(3).rows = s.rows /\ sh(3).cols = s.cols
                      /\ Broadcasts(sh(3), s)
    OBVIOUS
  <2>1. sh(3) \in TensorShape
    BY <1>2, <1>4, OperandFacts
  <2>2. OperandFits(heap, p, 3)
    BY <1>2 DEF Ready, IRLayers, OperandsInv, OperandsFit
  <2> QED
    BY <2>1, <2>2 DEF OperandFits, OperandAllowed, ShapeOf, Operand
<1>6. kt \in Nat \ {0}
  BY <1>4, ShapeTypes
<1>7. 0 \in Sim!MatrixRegs /\ 1 \in Sim!MatrixRegs /\ 2 \in Sim!MatrixRegs
  BY DEF Sim!MatrixRegs
<1>8. Ignores(K, 0) /\ Ignores(K, 1) /\ Ignores(K, 2)
  BY PreparedIgnores, 0 \in 0 .. 4, 1 \in 0 .. 4, 2 \in 0 .. 4
<1> HIDE DEF kt, acc, fused
<1>9. ASSUME NEW b, NEW i, NEW j, TileOf(s, b, i, j)
      PROVE  Executes(p, K, body(b, i, j), K)
  <2> DEFINE h == liveOf(s.rows, i)
             w == liveOf(s.cols, j)
             Z == Holding(K, 0, h, w)
             I == [n \in 0 .. kt |-> IF n = 0 /\ ~acc THEN K ELSE Z]
  <2>1. /\ b \in 0 .. s.batch - 1 /\ i \in 0 .. tilesOf(s.rows) - 1
        /\ j \in 0 .. tilesOf(s.cols) - 1
    BY <1>9 DEF TileOf
  <2>2. Below(K, Z) /\ <<0, h, w>> \in Z.zero /\ Ignores(Z, 1) /\ Ignores(Z, 2) /\ Z.reg = K.reg
    <3>1. Below(K, Z)
      BY <1>8, BelowSelf, HoldingKeeps
    <3> QED
      BY <1>8, <3>1 DEF Holding, Ignores
  <2> HIDE DEF h, w, Z
  <2>3. Executes(p, K, first(b, i, j), I[0])
    <3>1. CASE acc
      <4>1. TileOf(sh(3), broadcast(sh(3), b), i, j) /\ Loadable(K, bs, p, 3)
        <5>1. TileOf(sh(3), broadcast(sh(3), b), i, j)
          BY <1>2, <1>5, <2>1, <3>1, BroadcastTile
        <5> QED
          BY <1>2, <3>1, <5>1 DEF Prepared
      <4>2. Executes(p, K, loadTile(bs, Operand(p, 3), b, i, j, 0),
                     Holding(K, 0, liveOf(sh(3).rows, i), liveOf(sh(3).cols, j)))
        BY <1>2, <1>4, <1>7, <3>1, <4>1, LoadsOperand
      <4>3. I[0] = Z
        BY <1>6, <3>1
      <4> QED
        BY <1>5, <3>1, <4>2, <4>3 DEF Z, h, w
    <3>2. CASE ~acc
      <4>1. I[0] = K
        BY <1>6, <3>2
      <4> QED
        BY <3>2, <4>1, ExecutesNothing
    <3> QED
      BY <3>1, <3>2
  <2>4. ASSUME NEW n \in 1 .. kt
        PROVE  Executes(p, I[n - 1], term(b, i, j, n - 1), I[n])
    <3> DEFINE k == n - 1
               A == I[n - 1]
               v == liveOf(sh(1).cols, k)
               K1 == Holding(A, 1, h, v)
               K2 == Holding(K1, 2, v, w)
               op == productOp(acc, fused, kt, k)
               K3 == Holding(K2, 0, h, w)
    <3>1. k \in 0 .. kt - 1 /\ n \in 0 .. kt /\ n - 1 \in 0 .. kt /\ n # 0
      BY <1>6
    <3>2. I[n] = Z /\ A = IF k = 0 /\ ~acc THEN K ELSE Z
      BY <3>1
    <3> HIDE DEF I, A
    <3>3. Below(K, A) /\ Ignores(A, 1) /\ Ignores(A, 2)
      BY <1>8, <2>2, <3>2, BelowSelf
    <3>4. TileOf(sh(1), broadcast(sh(1), b), i, k) /\ TileOf(sh(2), broadcast(sh(2), b), k, j)
      BY <1>2, <1>4, <2>1, <3>1, BroadcastTile DEF kt
    <3>5. Below(K, K1) /\ Below(K, K2)
      BY <1>8, <3>3, HoldingKeeps
    <3>6. Executes(p, A, loadTile(bs, Operand(p, 1), b, i, k, 1), K1)
      <4>1. Loadable(A, bs, p, 1)
        BY <1>2, <3>3, LoadableAbove DEF Prepared
      <4>2. Executes(p, A, loadTile(bs, Operand(p, 1), b, i, k, 1),
                     Holding(A, 1, liveOf(sh(1).rows, i), liveOf(sh(1).cols, k)))
        <5> HIDE DEF k
        <5> QED
          BY <1>2, <1>4, <1>7, <3>4, <4>1, LoadsOperand
      <4> QED
        BY <1>4, <4>2 DEF h
    <3>7. Executes(p, K1, loadTile(bs, Operand(p, 2), b, k, j, 2), K2)
      <4>1. Loadable(K1, bs, p, 2)
        BY <1>2, <3>5, LoadableAbove DEF Prepared
      <4>2. Executes(p, K1, loadTile(bs, Operand(p, 2), b, k, j, 2),
                     Holding(K1, 2, liveOf(sh(2).rows, k), liveOf(sh(2).cols, j)))
        <5> HIDE DEF k, K1
        <5> QED
          BY <1>2, <1>4, <1>7, <3>4, <4>1, LoadsOperand
      <4> QED
        BY <1>4, <4>2 DEF w
    <3>8. op \in {"MATMUL", "MATMULRELU", "MATMULACC"} /\ (op = "MATMULACC" => A = Z)
      <4>1. op = "MATMULACC" => k # 0 \/ acc
        BY DEF productOp
      <4>2. op \in {"MATMUL", "MATMULRELU", "MATMULACC"}
        BY DEF productOp
      <4> HIDE DEF op, k
      <4> QED
        BY <3>2, <4>1, <4>2
    <3>9. Executes(p, K2, Emit(op, Mat(0), Mat(1), Mat(2)), K3)
      <4>1. <<1, h, v>> \in K2.zero /\ <<2, v, w>> \in K2.zero
            /\ (A = Z => <<0, h, w>> \in K2.zero)
        BY <2>2 DEF Holding
      <4> HIDE DEF K2, v, op
      <4>2. ProductOutside(K2, 1, 2, h, w)
        BY <4>1 DEF ProductOutside
      <4> QED
        BY <1>7, <3>8, <4>1, <4>2, ExecutesProduct
    <3>10. Below(Z, K3)
      BY <3>5 DEF Below, Z, Holding
    <3> HIDE DEF K1, K2, K3, op, k
    <3>11. Executes(p, A, term(b, i, j, k), K3)
      BY <3>6, <3>7, <3>9, ExecutesThen DEF op
    <3> HIDE DEF term
    <3> QED
      BY <3>2, <3>10, <3>11, BelowSelf, ExecutesBetween DEF A, k
  <2>5. I[kt] = Z
    BY <1>6
  <2> HIDE DEF I
  <2>6. Executes(p, I[0], Seqs!FlattenSeq(terms(b, i, j)), Z)
    <3> DEFINE l == terms(b, i, j)
    <3>1. DOMAIN l = 1 .. kt /\ l = [n \in 1 .. kt |-> l[n]]
      OBVIOUS
    <3>2. \A n \in 1 .. kt : Executes(p, I[n - 1], l[n], I[n])
      BY <2>4
    <3> HIDE DEF l
    <3>3. Executes(p, I[0], Seqs!FlattenSeq(l), I[kt])
      BY <1>6, <3>1, <3>2, LoopExecutes
    <3> QED
      BY <2>5, <3>3 DEF l
  <2>7. Executes(p, Z, last, Z)
    <3> DEFINE change == Emit("RELU", Mat(0), Mat(0), ISA!NoOperand)
    <3>1. Executes(p, Z, change, Holding(Z, 0, h, w))
      BY <1>7, <2>2, ExecutesMap
    <3>2. Below(Z, Holding(Z, 0, h, w))
      BY DEF Below, Holding, Z
    <3>3. Executes(p, Z, change, Z)
      BY <3>1, <3>2, BelowSelf, ExecutesBetween
    <3>4. Executes(p, Z, << >>, Z)
      BY ExecutesNothing
    <3> QED
      BY <3>3, <3>4
  <2>8. Executes(p, Z, storeTile(bs, p, b, i, j, 0), Z)
    <3>1. bs[p] \in Sim!ScalarRegs /\ <<bs[p], buffers[p].addr>> \in Z.reg
      BY <2>2 DEF Prepared
    <3> QED
      BY <1>7, <1>9, <2>2, <3>1, StoresResult DEF h, w
  <2> HIDE DEF first, terms, last
  <2>9. Executes(p, K, body(b, i, j), Z)
    BY <2>3, <2>6, <2>7, <2>8, ExecutesThen
  <2> HIDE DEF body
  <2> QED
    BY <2>2, <2>9, BelowSelf, ExecutesBetween
<1>10. ASSUME NEW n \in 1 .. N
      PROVE  Executes(p, K, lists[n], K)
  <2>1. TileOf(s, (n - 1) \div per, ((n - 1) % per) \div nt, (n - 1) % nt)
    BY <1>3
  <2>2. lists[n] = body((n - 1) \div per, ((n - 1) % per) \div nt, (n - 1) % nt)
    OBVIOUS
  <2> HIDE DEF lists, body, s, per, nt, N
  <2> QED
    BY <1>9, <2>1, <2>2
<1>11. DOMAIN lists = 1 .. N /\ lists = [n \in 1 .. N |-> lists[n]]
  BY Zenon
<1> HIDE DEF lists, N
<1> QED
  BY <1>1, <1>3, <1>10, <1>11, SteadyLoopExecutes

\* K with other contents of the scalar registers, or of the scratchpad.
WithRegisters(K, reg) ==
  [reg |-> reg, zero |-> K.zero, diagonal |-> K.diagonal, staged |-> K.staged]
WithStaged(K, staging) ==
  [reg |-> K.reg, zero |-> K.zero, diagonal |-> K.diagonal, staged |-> staging]

\* What a store leaves of the scratchpad, and puts there.
LEMMA StoreExecutes ==
  ASSUME Ready, NEW p \in DOMAIN heap, heap[p].kind = "ScratchStore",
         NEW K, NEW bs, Prepared(p, K, bs)
  PROVE  Executes(p, K, scratchStoreCode(p, bs),
                  WithStaged(K, {x \in K.staged : x[1] \notin Region(p)} \cup StagedTiles(p)))
<1> DEFINE s == heap[p].shape
           o == heap[p].scratchOffset
           t == heap[Operand(p, 1)].shape
           nt == tilesOf(s.cols)
           per == tilesOf(s.rows) * nt
           N == s.batch * per
           body(b, i, j) == loadTile(bs, Operand(p, 1), b, i, j, 3)
                            \o Move("STORE", 3, 0, scratchTile(p, b, i, j), 0, TRUE)
           lists == [n \in 1 .. N |->
                       body((n - 1) \div per, ((n - 1) % per) \div nt, (n - 1) % nt)]
           rest == {x \in K.staged : x[1] \notin Region(p)}
           upTo(n) == rest \cup {StagedTile(p, m) : m \in 0 .. n - 1}
           I == [n \in 0 .. N |-> WithStaged(K, upTo(n))]
<1>1. scratchStoreCode(p, bs) = Seqs!FlattenSeq(lists)
  BY DEF scratchStoreCode, ForEachTile
<1>2. s \in TensorShape /\ 1 \in 1 .. Len(heap[p].operands) /\ o \in Int
  <2>1. FnInv
    BY DEF Ready, IRLayers, IRInv
  <2>2. Len(heap[p].operands) \in arities(heap[p].kind) /\ s \in TensorShape
        /\ o \in -1 .. ScratchpadTiles - 1
    BY <2>1, FnFacts
  <2>3. arities(heap[p].kind) = {1}
    BY DEF arities, LeafKinds, BinaryKinds
  <2>4. Len(heap[p].operands) = 1
    BY <2>2, <2>3
  <2>5. o \in Int
    BY <2>2
  <2> QED
    BY <2>2, <2>4, <2>5
<1>3. /\ N \in Nat \ {0} /\ N = tiles(s)
      /\ \A n \in 1 .. N :
           LET b == (n - 1) \div per
               i == ((n - 1) % per) \div nt
               j == (n - 1) % nt
           IN TileOf(s, b, i, j) /\ tileNumber(s, b, i, j) = n - 1
  BY <1>2, VisitsTiles
<1>4. t \in TensorShape /\ t = s /\ heap[Operand(p, 1)].kind # "ScratchLoad"
  <2>1. t \in TensorShape /\ heap[Operand(p, 1)].kind # "ScratchLoad"
    BY <1>2, OperandFacts DEF isMatMulFamily
  <2>2. OperandFits(heap, p, 1)
    BY <1>2 DEF Ready, IRLayers, OperandsInv, OperandsFit
  <2> QED
    BY <2>1, <2>2 DEF OperandFits, OperandAllowed, ShapeOf, Operand
<1>5. ASSUME NEW n \in 1 .. N, NEW b, NEW i, NEW j, TileOf(s, b, i, j),
             tileNumber(s, b, i, j) = n - 1
      PROVE  Executes(p, I[n - 1], body(b, i, j), I[n])
  <2> DEFINE h == liveOf(s.rows, i)
             w == liveOf(s.cols, j)
             m == n - 1
             A == WithStaged(K, upTo(m))
             B == WithStaged(K, upTo(n))
             K1 == Holding(A, 3, h, w)
             K2 == WithStaged(K1, upTo(n))
             move == [op |-> "STORE", dst |-> Mat(3),
                      src1 |-> ISA!MemOperand(0, kTileElems * (o + m), 0, TRUE),
                      src2 |-> ISA!NoOperand]
  <2>1. I[n - 1] = A /\ I[n] = B /\ m \in 0 .. N - 1
    BY <1>3
  <2>2. b \in 0 .. s.batch - 1 /\ broadcast(s, b) = b
    BY <1>2, <1>5, ShapeTypes DEF TileOf, broadcast
  <2>3. /\ scratchTile(p, b, i, j) = kTileElems * (o + m) /\ o + m \in Region(p)
        /\ StagedTile(p, m) = <<o + m, h, w>>
    <3>1. tileNumber(s, broadcast(s, b), i, j) = m /\ TileOf(s, broadcast(s, b), i, j)
      BY <1>5, <2>2
    <3> HIDE DEF m, h, w
    <3> QED
      BY <1>2, <3>1, ScratchTileNumber DEF h, w
  <2>4. Executes(p, A, loadTile(bs, Operand(p, 1), b, i, j, 3), K1)
    <3>1. TileOf(t, broadcast(t, b), i, j)
      BY <1>4, <1>5, <2>2
    <3>2. Loadable(A, bs, p, 1)
      BY <1>2, <1>4 DEF Prepared, Loadable, WithStaged
    <3>3. 3 \in Sim!MatrixRegs /\ heap[p].kind # "ScratchLoad"
      BY DEF Sim!MatrixRegs
    <3> HIDE DEF A
    <3>4. Executes(p, A, loadTile(bs, Operand(p, 1), b, i, j, 3),
                   Holding(A, 3, liveOf(t.rows, i), liveOf(t.cols, j)))
      BY <1>2, <3>1, <3>2, <3>3, LoadsOperand
    <3> QED
      BY <1>4, <3>4
  <2>5. StagedChanges(K1, K2, o + m, h, w)
    <3>1. \A x \in upTo(n) : x \in upTo(m) \/ x = <<o + m, h, w>>
      <4>1. \A k \in 0 .. n - 1 : k \in 0 .. m - 1 \/ k = m
        BY <2>1
      <4> QED
        BY <2>3, <4>1
    <3>2. \A x \in upTo(m) : x[1] # o + m
      <4>1. \A x \in rest : x[1] # o + m
        BY <2>3
      <4>2. ASSUME NEW k \in 0 .. m - 1
            PROVE  StagedTile(p, k)[1] # o + m
        <5>1. StagedTile(p, k)[1] = o + k
          BY DEF StagedTile
        <5>2. k \in Int /\ k # m /\ m \in Int
          BY <2>1
        <5> HIDE DEF o, m
        <5> QED
          BY <1>2, <5>1, <5>2
      <4> QED
        BY <4>1, <4>2
    <3> HIDE DEF upTo, m
    <3>3. \A u, x, y : <<u, x, y>> \in upTo(n) =>
            IF u = o + m THEN x = h /\ y = w ELSE <<u, x, y>> \in upTo(m)
      BY <3>1, <3>2
    <3> QED
      BY <3>3 DEF StagedChanges, Holding, WithStaged
  <2>6. Executes(p, K1, Move("STORE", 3, 0, scratchTile(p, b, i, j), 0, TRUE), K2)
    <3>1. Move("STORE", 3, 0, scratchTile(p, b, i, j), 0, TRUE) = <<move>>
          /\ <<move>> = ScratchTile("STORE", 3, o + m)
      BY <2>3 DEF Move, Emit, ScratchTile
    <3>2. <<3, h, w>> \in K1.zero /\ 3 \in Sim!MatrixRegs /\ o + m \in Int
      BY <1>2, <2>1 DEF Holding, Sim!MatrixRegs
    <3> HIDE DEF move, K1, K2, h, w, m
    <3>3. StoresStaged(p, move, K1, K2)
      BY <2>3, <2>5, <3>1, <3>2 DEF StoresStaged
    <3>4. Follows(p, move, K1, K2)
      BY <3>3 DEF Follows
    <3> QED
      BY <3>1, <3>4, ExecutesOne
  <2>7. Below(B, K2)
    BY DEF Below, WithStaged, Holding, Prepared
  <2> HIDE DEF A, B, K1, K2, I
  <2>8. Executes(p, A, body(b, i, j), K2)
    BY <2>4, <2>6, ExecutesThen
  <2> HIDE DEF body
  <2> QED
    BY <2>1, <2>7, <2>8, BelowSelf, ExecutesBetween
<1>6. ASSUME NEW n \in 1 .. N
      PROVE  Executes(p, I[n - 1], lists[n], I[n])
  <2>1. lists[n] = body((n - 1) \div per, ((n - 1) % per) \div nt, (n - 1) % nt)
    OBVIOUS
  <2> HIDE DEF lists, body, I
  <2> QED
    BY <1>3, <1>5, <2>1
<1>7. DOMAIN lists = 1 .. N /\ lists = [n \in 1 .. N |-> lists[n]]
  BY Zenon
<1>8. I[0] = WithStaged(K, upTo(0)) /\ I[N] = WithStaged(K, upTo(N))
  BY <1>3
<1>9. upTo(0) = rest /\ upTo(N) = rest \cup StagedTiles(p)
  <2>1. 0 .. 0 - 1 = {}
    OBVIOUS
  <2>2. {StagedTile(p, m) : m \in 0 .. 0 - 1} = {}
    BY <2>1
  <2>3. StagedTiles(p) = {StagedTile(p, m) : m \in 0 .. N - 1}
    BY <1>3 DEF StagedTiles
  <2> QED
    BY <2>2, <2>3
<1> HIDE DEF lists, I, upTo
<1>10. Executes(p, I[0], Seqs!FlattenSeq(lists), I[N])
  BY <1>3, <1>6, <1>7, LoopExecutes
<1>11. Below(I[0], K)
  BY <1>8, <1>9 DEF Below, WithStaged
<1> HIDE DEF rest
<1>12. Executes(p, K, Seqs!FlattenSeq(lists), I[N])
  BY <1>10, <1>11, BelowSelf, ExecutesBetween
<1> QED
  BY <1>1, <1>8, <1>9, <1>12 DEF rest

\* The six arguments of a runtime call; those of W are to be counted on.
LEMMA ArgumentsExecute ==
  ASSUME NEW p, NEW K, K.reg = {}, NEW args, Len(args) = 6, NEW W \in SUBSET (1 .. 6),
         \A k \in W : args[k] \in Sim!Word
  PROVE  Executes(p, K, Seqs!FlattenSeq([k \in 1 .. Len(args) |->
                                           Emit("ADD", Reg(k), Reg(0), Num(args[k]))]),
                  WithRegisters(K, {<<k, args[k]>> : k \in W}))
<1> DEFINE lists == [k \in 1 .. 6 |-> Emit("ADD", Reg(k), Reg(0), Num(args[k]))]
           set(n) == {<<k, args[k]>> : k \in W \cap 1 .. n}
           I == [n \in 0 .. 6 |-> WithRegisters(K, set(n))]
<1>1. ASSUME NEW n \in 1 .. 6
      PROVE  Executes(p, I[n - 1], lists[n], I[n])
  <2> DEFINE i == [op |-> "ADD", dst |-> Reg(n), src1 |-> Reg(0), src2 |-> Num(args[n])]
             A == WithRegisters(K, set(n - 1))
             B == WithRegisters(K, set(n))
  <2>1. I[n - 1] = A /\ I[n] = B /\ lists[n] = <<i>> /\ n \in 1 .. 15
    BY DEF Emit
  <2>2. \A x, v : <<x, v>> \in set(n) =>
          IF x = n THEN v = args[n] /\ args[n] \in Sim!Word ELSE <<x, v>> \in set(n - 1)
    <3> SUFFICES ASSUME NEW k \in W \cap 1 .. n
                 PROVE  IF k = n THEN args[n] \in Sim!Word ELSE k \in W \cap 1 .. n - 1
      OBVIOUS
    <3> QED
      OBVIOUS
  <2> HIDE DEF set
  <2>3. RegisterChanges(A, B, n, args[n])
    BY <2>2 DEF RegisterChanges, WithRegisters
  <2>4. <<i>> = Emit("ADD", Reg(n), Reg(0), Num(args[n]))
    BY DEF Emit
  <2> HIDE DEF i, A, B, I, lists
  <2>5. SetsRegister(i, A, B)
    BY <2>1, <2>3, <2>4 DEF SetsRegister
  <2>6. Follows(p, i, A, B)
    BY <2>5 DEF Follows
  <2>7. Executes(p, A, <<i>>, B)
    BY <2>6, ExecutesOne
  <2> QED
    BY <2>1, <2>7
<1>2. DOMAIN lists = 1 .. 6 /\ lists = [n \in 1 .. 6 |-> lists[n]]
  OBVIOUS
<1>3. I[0] = WithRegisters(K, set(0)) /\ I[6] = WithRegisters(K, set(6))
  OBVIOUS
<1>4. set(0) = {} /\ set(6) = {<<k, args[k]>> : k \in W}
  <2>1. 1 .. 0 = {}
    OBVIOUS
  <2>2. W \cap (1 .. 0) = {}
    BY <2>1
  <2>3. W \cap (1 .. 6) = W
    OBVIOUS
  <2> QED
    BY <2>2, <2>3
<1>5. Seqs!FlattenSeq([k \in 1 .. Len(args) |-> Emit("ADD", Reg(k), Reg(0), Num(args[k]))])
      = Seqs!FlattenSeq(lists)
  OBVIOUS
<1> HIDE DEF lists, I, set
<1>6. Executes(p, I[0], Seqs!FlattenSeq(lists), I[6])
  <2> DEFINE N == 6
  <2>1. N \in Nat \ {0} /\ DOMAIN lists = 1 .. N /\ lists = [n \in 1 .. N |-> lists[n]]
        /\ \A n \in 1 .. N : Executes(p, I[n - 1], lists[n], I[n])
    BY <1>1, <1>2
  <2> HIDE DEF N
  <2>2. Executes(p, I[0], Seqs!FlattenSeq(lists), I[N])
    BY <2>1, LoopExecutes
  <2> QED
    BY <2>2 DEF N
<1>7. Below(I[0], K)
  BY <1>3, <1>4 DEF Below, WithRegisters
<1>8. Executes(p, K, Seqs!FlattenSeq(lists), I[6])
  BY <1>6, <1>7, BelowSelf, ExecutesBetween
<1> QED
  BY <1>3, <1>4, <1>5, <1>8

LEMMA PrintExecutes ==
  ASSUME NEW p, NEW K, K.reg = {}
  PROVE  Executes(p, K, printCode(p), K)
<1> DEFINE buf == buffers[originOf[Operand(p, 1)]]
           s == heap[p].shape
           args == <<buf.addr, s.batch, s.rows, s.cols, buf.cp, Len(printNames)>>
           set == Seqs!FlattenSeq([k \in 1 .. Len(args) |->
                                     Emit("ADD", Reg(k), Reg(0), Num(args[k]))])
           i == [op |-> "CALL", dst |-> ISA!LabelOperand(-1), src1 |-> ISA!NoOperand,
                 src2 |-> ISA!NoOperand]
<1>1. printCode(p) = set \o <<i>>
  <2>1. -1 - 0 = -1
    OBVIOUS
  <2> QED
    BY <2>1 DEF printCode, runtimeCall, Emit
<1>2. <<i>> = Emit("CALL", ISA!LabelOperand(-1), ISA!NoOperand, ISA!NoOperand)
  BY DEF Emit
<1>3. Executes(p, K, set, WithRegisters(K, {}))
  <2>1. Len(args) = 6
    OBVIOUS
  <2> HIDE DEF args
  <2>2. {<<k, args[k]>> : k \in {}} = {}
    OBVIOUS
  <2>3. Executes(p, K, set, WithRegisters(K, {<<k, args[k]>> : k \in {}}))
    BY <2>1, ArgumentsExecute
  <2> QED
    BY <2>2, <2>3
<1>4. Below(K, WithRegisters(K, {}))
  BY DEF Below, WithRegisters
<1> HIDE DEF set, i
<1>5. Executes(p, K, set, K)
  BY <1>3, <1>4, BelowSelf, ExecutesBetween
<1>6. Follows(p, i, K, K)
  BY <1>2, BelowSelf DEF Follows, ShowsTensor
<1>7. Executes(p, K, <<i>>, K)
  BY <1>6, ExecutesOne
<1> QED
  BY <1>1, <1>5, <1>7, ExecutesThen

LEMMA SoftmaxExecutes ==
  ASSUME Ready, FitsInWords, NEW p \in DOMAIN buffers, NEW K, K.reg = {}
  PROVE  Executes(p, K, softmaxCode(p), K)
<1> DEFINE s == heap[p].shape
           args == <<buffers[Operand(p, 1)].addr, buffers[p].addr,
                     s.batch, s.rows, s.cols, buffers[p].cp>>
           set == Seqs!FlattenSeq([k \in 1 .. Len(args) |->
                                     Emit("ADD", Reg(k), Reg(0), Num(args[k]))])
           i == [op |-> "CALL", dst |-> ISA!LabelOperand(-2), src1 |-> ISA!NoOperand,
                 src2 |-> ISA!NoOperand]
           W == 2 .. 6
           L == WithRegisters(K, {<<k, args[k]>> : k \in W})
<1>1. softmaxCode(p) = set \o <<i>>
  <2>1. -1 - 1 = -2
    OBVIOUS
  <2> QED
    BY <2>1 DEF softmaxCode, runtimeCall, Emit
<1>2. <<i>> = Emit("CALL", ISA!LabelOperand(-2), ISA!NoOperand, ISA!NoOperand)
  BY DEF Emit
<1>3. /\ buffers[p].addr \in Sim!Word /\ s.batch \in Sim!Word /\ s.rows \in Sim!Word
      /\ s.cols \in Sim!Word /\ buffers[p].cp \in Sim!Word
  <2>1. /\ buffers[p].addr \in Sim!Word /\ buffers[p].addr \in Nat /\ s \in TensorShape
        /\ buffers[p].cp = pad(s.cols)
        /\ data.end \in Nat /\ buffers[p].addr + bufferWords(s) <= data.end
    BY BufferFacts
  <2> DEFINE x == s.batch
             r == s.rows
             c == s.cols
             pr == pad(r)
             pc2 == pad(c)
             y == batchWords(s)
             z == bufferWords(s)
             a == buffers[p].addr
             e == data.end
  <2>2. /\ x \in Nat \ {0} /\ r \in Nat \ {0} /\ c \in Nat \ {0} /\ y \in Nat \ {0}
        /\ z \in Nat \ {0} /\ pr \in Nat \ {0} /\ pc2 \in Nat \ {0} /\ r <= pr /\ c <= pc2
        /\ y = pr * pc2 /\ z = x * y
    BY <2>1, WordsType, PadType DEF batchWords, bufferWords
  <2>3. HalfWord \in Nat /\ e < HalfWord /\ e \in Nat /\ a \in Nat /\ a + z <= e
    BY <2>1, PipelineAssumption DEF FitsInWords
  <2> HIDE DEF x, r, c, pr, pc2, y, z, a, e
  <2>4. pr <= y /\ pc2 <= y
    BY <2>2
  <2>5. x <= z /\ y <= z
    BY <2>2
  <2>6. x < HalfWord /\ r < HalfWord /\ c < HalfWord /\ pc2 < HalfWord
    BY <2>2, <2>3, <2>4, <2>5
  <2>7. \A n \in Nat : n < HalfWord => n \in -HalfWord .. HalfWord - 1
    BY <2>3
  <2> QED
    BY <2>1, <2>2, <2>6, <2>7 DEF Sim!Word, x, r, c, pc2
<1>4. Executes(p, K, set, L)
  <2>1. Len(args) = 6
    OBVIOUS
  <2>2. /\ args[2] = buffers[p].addr /\ args[3] = s.batch /\ args[4] = s.rows
        /\ args[5] = s.cols /\ args[6] = buffers[p].cp
    OBVIOUS
  <2>3. \A k \in W : args[k] \in Sim!Word
    <3>1. \A k \in W : k = 2 \/ k = 3 \/ k = 4 \/ k = 5 \/ k = 6
      OBVIOUS
    <3> HIDE DEF args, W
    <3> QED
      BY <1>3, <2>2, <3>1
  <2>4. W \in SUBSET (1 .. 6)
    OBVIOUS
  <2> HIDE DEF args, W
  <2> QED
    BY <2>1, <2>3, <2>4, ArgumentsExecute
<1>5. Normalises(p, i, L, K)
  <2>1. /\ <<2, buffers[p].addr>> \in L.reg /\ <<3, s.batch>> \in L.reg
        /\ <<4, s.rows>> \in L.reg /\ <<5, s.cols>> \in L.reg /\ <<6, buffers[p].cp>> \in L.reg
    <3>1. 2 \in W /\ 3 \in W /\ 4 \in W /\ 5 \in W /\ 6 \in W
      OBVIOUS
    <3>2. L.reg = {<<k, args[k]>> : k \in W}
      BY DEF WithRegisters
    <3>3. /\ args[2] = buffers[p].addr /\ args[3] = s.batch /\ args[4] = s.rows
          /\ args[5] = s.cols /\ args[6] = buffers[p].cp
      OBVIOUS
    <3> HIDE DEF W, args, L
    <3>4. \A k \in W : <<k, args[k]>> \in L.reg
      BY <3>2
    <3> QED
      BY <3>1, <3>3, <3>4
  <2>2. Below(K, L)
    BY DEF Below, WithRegisters
  <2> HIDE DEF i, L
  <2> QED
    BY <1>2, <2>1, <2>2 DEF Normalises
<1> HIDE DEF set, i, L
<1>6. Follows(p, i, L, K)
  BY <1>5 DEF Follows
<1>7. Executes(p, L, <<i>>, K)
  BY <1>6, ExecutesOne
<1> QED
  BY <1>1, <1>4, <1>7, ExecutesThen

-----------------------------------------------------------------------------
(* lower(), from op to op.                                                 *)

\* The stores before position n that no later one has overwritten.
StillStaged(n) ==
  {k \in 1 .. n - 1 :
     /\ heap[ops[k]].kind = "ScratchStore"
     /\ \A l \in k + 1 .. n - 1 : heap[ops[l]].kind = "ScratchStore" =>
          Region(ops[l]) \cap Region(ops[k]) = {}}

\* What is known before the code of op n.
Known(n) ==
  [reg |-> {}, zero |-> {},
   diagonal |-> (IF identity.plus # -1 THEN {7} ELSE {})
                \cup (IF identity.minus # -1 THEN {6} ELSE {}),
   staged |-> UNION {StagedTiles(ops[k]) : k \in StillStaged(n)}]

LEMMA StagedInRegion ==
  ASSUME Ready, NEW s \in DOMAIN heap, NEW x \in StagedTiles(s)
  PROVE  x[1] \in Region(s)
<1> DEFINE o == heap[s].scratchOffset
           t == tiles(heap[s].shape)
<1>1. o \in -1 .. ScratchpadTiles - 1 /\ heap[s].shape \in TensorShape
  BY FnFacts DEF Ready, IRLayers, IRInv
<1>2. o \in Int /\ t \in Nat
  BY <1>1, ShapeTypes
<1>3. PICK m \in 0 .. t - 1 : x = StagedTile(s, m)
  BY DEF StagedTiles
<1>4. x[1] = o + m
  BY <1>3 DEF StagedTile
<1>5. Region(s) = o .. o + t - 1
  BY DEF Region
<1> HIDE DEF o, t
<1>6. o + m \in o .. o + t - 1
  BY <1>2
<1> QED
  BY <1>4, <1>5, <1>6

\* Only a store changes what is staged.
LEMMA KnownNext ==
  ASSUME Ready, NEW n \in 1 .. Len(ops)
  PROVE  /\ heap[ops[n]].kind # "ScratchStore" => Below(Known(n + 1), Known(n))
         /\ heap[ops[n]].kind = "ScratchStore" =>
              Below(Known(n + 1),
                    WithStaged(Known(n), {x \in Known(n).staged : x[1] \notin Region(ops[n])}
                                         \cup StagedTiles(ops[n])))
<1>1. n \in Nat /\ n + 1 - 1 = n /\ \A k \in 1 .. n : ops[k] \in DOMAIN heap
  <2>1. Len(ops) \in Nat /\ \A k \in 1 .. Len(ops) : ops[k] \in DOMAIN heap
    BY FnFacts DEF Ready, IRLayers, IRInv
  <2>2. n \in Nat /\ n + 1 - 1 = n /\ \A k \in 1 .. n : k \in 1 .. Len(ops)
    BY <2>1
  <2> QED
    BY <2>1, <2>2
<1>2. ASSUME NEW k \in StillStaged(n + 1)
      PROVE  /\ k \in 1 .. n /\ heap[ops[k]].kind = "ScratchStore"
             /\ \A l \in k + 1 .. n : heap[ops[l]].kind = "ScratchStore" =>
                  Region(ops[l]) \cap Region(ops[k]) = {}
  BY <1>1 DEF StillStaged
<1>3. ASSUME NEW k \in StillStaged(n + 1), k # n
      PROVE  k \in StillStaged(n)
  <2>1. k \in 1 .. n - 1 /\ n \in k + 1 .. n
    BY <1>1, <1>2, <1>3
  <2>2. \A l \in k + 1 .. n - 1 : l \in k + 1 .. n
    BY <1>1, <1>2
  <2> QED
    BY <1>2, <2>1, <2>2 DEF StillStaged
<1>4. ASSUME NEW k \in StillStaged(n + 1), k # n
      PROVE  StagedTiles(ops[k]) \subseteq Known(n).staged
  BY <1>3, <1>4 DEF Known
<1>5. CASE heap[ops[n]].kind # "ScratchStore"
  <2>1. \A k \in StillStaged(n + 1) : StagedTiles(ops[k]) \subseteq Known(n).staged
    BY <1>2, <1>4, <1>5
  <2>2. Known(n + 1).staged \subseteq Known(n).staged
    BY <2>1 DEF Known
  <2> QED
    BY <1>5, <2>2 DEF Below, Known
<1>6. CASE heap[ops[n]].kind = "ScratchStore"
  <2> DEFINE left == {x \in Known(n).staged : x[1] \notin Region(ops[n])}
  <2>1. ASSUME NEW k \in StillStaged(n + 1), k # n, NEW x \in StagedTiles(ops[k])
        PROVE  x \in left
    <3>1. n \in k + 1 .. n /\ k \in 1 .. n
      BY <1>1, <1>2, <2>1
    <3>2. Region(ops[n]) \cap Region(ops[k]) = {}
      BY <1>2, <1>6, <3>1
    <3>3. x[1] \in Region(ops[k])
      BY <1>1, <3>1, StagedInRegion
    <3> QED
      BY <1>4, <2>1, <3>2, <3>3
  <2>2. \A k \in StillStaged(n + 1) : StagedTiles(ops[k]) \subseteq left \cup StagedTiles(ops[n])
    BY <2>1
  <2>3. Known(n + 1).staged \subseteq left \cup StagedTiles(ops[n])
    BY <2>2 DEF Known
  <2> HIDE DEF left
  <2>4. Below(Known(n + 1), WithStaged(Known(n), left \cup StagedTiles(ops[n])))
    BY <2>3 DEF Below, WithStaged, Known
  <2> QED
    BY <1>6, <2>4 DEF left
<1> QED
  BY <1>5, <1>6

\* What a ScratchLoad stands for is staged when it is used.
LEMMA StillThere ==
  ASSUME Ready, NEW n \in 1 .. Len(ops), heap[ops[n]].kind # "ScratchLoad",
         NEW i \in 1 .. Len(heap[ops[n]].operands),
         heap[Operand(ops[n], i)].kind = "ScratchLoad"
  PROVE  StagedTiles(Operand(Operand(ops[n], i), 1)) \subseteq Known(n).staged
<1> DEFINE p == ops[n]
           st == Operand(Operand(p, i), 1)
<1>1. /\ Len(ops) \in Nat /\ p \in DOMAIN heap
      /\ \A j, k \in 1 .. Len(ops) : ops[j] = ops[k] => j = k
  BY FnFacts DEF Ready, IRLayers, IRInv
<1>2. heap[st].kind = "ScratchStore" /\ StoreReaches(ops, heap, st, p)
  BY <1>1, OperandFacts
<1>3. PICK j, k \in 1 .. Len(ops) :
        /\ j < k /\ ops[j] = st /\ ops[k] = p
        /\ \A m \in j + 1 .. k - 1 : heap[ops[m]].kind = "ScratchStore" =>
             RegionIn(heap, ops[m]) \cap RegionIn(heap, st) = {}
  BY <1>2 DEF StoreReaches
<1>4. k = n
  BY <1>1, <1>3
<1>5. j \in 1 .. n - 1
  BY <1>1, <1>3, <1>4
<1>6. \A s : RegionIn(heap, s) = Region(s)
  BY DEF RegionIn, Region
<1>7. j \in StillStaged(n)
  BY <1>2, <1>3, <1>4, <1>5, <1>6 DEF StillStaged
<1> QED
  BY <1>3, <1>7 DEF Known

\* The bases bound for an op prepare for its code.
LEMMA BasesPrepare ==
  ASSUME Ready, FitsInWords, NEW n \in 1 .. Len(ops), heap[ops[n]].kind # "ScratchLoad"
  PROVE  LET bound == bindBases(ops[n]) IN
         /\ Executes(ops[n], Known(n), bound.code, Based(Known(n), bound.base))
         /\ Prepared(ops[n], Based(Known(n), bound.base), bound.base)
<1> DEFINE p == ops[n]
           bound == bindBases(p)
           K == Known(n)
           B == Based(K, bound.base)
<1>1. p \in DOMAIN heap
  BY FnFacts DEF Ready, IRLayers, IRInv
<1>2. /\ K = [reg |-> K.reg, zero |-> K.zero, diagonal |-> K.diagonal, staged |-> K.staged]
      /\ K.reg = {} /\ K.zero = {} /\ K.diagonal \subseteq {5, 6, 7}
  BY DEF Known
<1>3. ASSUME NEW i \in 1 .. Len(heap[p].operands), heap[Operand(p, i)].kind = "ScratchLoad"
      PROVE  StagedTiles(Operand(Operand(p, i), 1)) \subseteq K.staged
  BY <1>3, StillThere
<1> HIDE DEF K, p
<1>4. /\ Executes(p, K, bound.code, B)
      /\ \A i \in 1 .. Len(heap[p].operands) : heap[Operand(p, i)].kind # "ScratchLoad" =>
           bound.base[Operand(p, i)] \in Sim!ScalarRegs /\ Operand(p, i) \in DOMAIN bound.base
      /\ p \in DOMAIN buffers => bound.base[p] \in Sim!ScalarRegs /\ p \in DOMAIN bound.base
  BY <1>1, <1>2, BindsBases DEF p
<1> HIDE DEF bound
<1>5. B.zero = {} /\ B.diagonal \subseteq {5, 6, 7} /\ B.staged = K.staged
      /\ \A q \in DOMAIN bound.base : <<bound.base[q], buffers[q].addr>> \in B.reg
  BY <1>2 DEF Based
<1> HIDE DEF B
<1>6. \A i \in 1 .. Len(heap[p].operands) : Loadable(B, bound.base, p, i)
  BY <1>3, <1>4, <1>5 DEF Loadable
<1>7. Prepared(p, B, bound.base)
  BY <1>4, <1>5, <1>6 DEF Prepared
<1> QED
  BY <1>4, <1>7 DEF K, p, B, bound

\* The code of each op, whatever it is.
LEMMA TilesExecute ==
  ASSUME Ready, FitsInWords, NEW n \in 1 .. Len(ops),
         heap[ops[n]].kind \in OpKinds \ (LeafKinds \cup {"ScratchLoad", "Print", "Softmax"})
  PROVE  LET bound == bindBases(ops[n]) IN
           Executes(ops[n], Known(n), bound.code \o tileCode(ops[n], bound.base), Known(n + 1))
<1> DEFINE p == ops[n]
           bound == bindBases(p)
           bs == bound.base
           K == Known(n)
           B == Based(K, bs)
           left == {x \in K.staged : x[1] \notin Region(p)} \cup StagedTiles(p)
<1>1. p \in DOMAIN heap /\ heap[p].kind \in OpKinds
  BY FnFacts DEF Ready, IRLayers, IRInv
<1>2. Executes(p, K, bound.code, B) /\ Prepared(p, B, bs)
  BY BasesPrepare
<1>3. needsBuffer(heap[p].kind) => p \in DOMAIN buffers
  BY DEF Ready, Placed
<1>4. B.staged = K.staged /\ B.diagonal = K.diagonal
  BY DEF Based
<1>5. CASE heap[p].kind = "ScratchStore"
  <2>1. Executes(p, B, scratchStoreCode(p, bs), WithStaged(B, left))
    <3> HIDE DEF B, bs, K, p
    <3>1. Executes(p, B, scratchStoreCode(p, bs),
                   WithStaged(B, {x \in B.staged : x[1] \notin Region(p)} \cup StagedTiles(p)))
      BY <1>1, <1>2, <1>5, StoreExecutes
    <3> QED
      BY <1>4, <3>1
  <2>2. tileCode(p, bs) = scratchStoreCode(p, bs)
    BY <1>5 DEF tileCode, isMatMulFamily
  <2>3. Below(Known(n + 1), WithStaged(B, left))
    <3>1. Below(Known(n + 1), WithStaged(K, left))
      BY <1>5, KnownNext
    <3>2. Below(Known(n + 1), WithStaged(K, left)) => Below(Known(n + 1), WithStaged(B, left))
      BY DEF Below, WithStaged, Based, Known
    <3> QED
      BY <3>1, <3>2
  <2> HIDE DEF p, bs, B, K, left, bound
  <2>4. Executes(p, K, bound.code \o tileCode(p, bs), WithStaged(B, left))
    BY <1>2, <2>1, <2>2, ExecutesThen
  <2>5. Executes(p, K, bound.code \o tileCode(p, bs), Known(n + 1))
    BY <2>3, <2>4, BelowSelf, ExecutesBetween
  <2> QED
    BY <2>5 DEF p, bs, K, bound
<1>6. CASE heap[p].kind # "ScratchStore"
  <2>1. Executes(p, B, tileCode(p, bs), B)
    <3>1. p \in DOMAIN buffers
      BY <1>3, <1>6 DEF needsBuffer
    <3>2. /\ heap[p].kind = "Add" => 7 \in B.diagonal
          /\ heap[p].kind = "Sub" => 6 \in B.diagonal
      <4>1. p \in Ops
        BY <1>1, FnFacts DEF Ready, IRLayers, IRInv
      <4>2. /\ heap[p].kind = "Add" => identity.plus # -1
            /\ heap[p].kind = "Sub" => identity.minus # -1
        BY <4>1 DEF Ready, IdentityInv
      <4>3. /\ identity.plus # -1 => 7 \in K.diagonal
            /\ identity.minus # -1 => 6 \in K.diagonal
        BY DEF Known
      <4> QED
        BY <1>4, <4>2, <4>3
    <3>0. \/ isMatMulFamily(heap[p].kind)
          \/ heap[p].kind \in {"Add", "Sub"}
          \/ heap[p].kind = "ScalarMul"
          \/ heap[p].kind \in {"Transpose", "Relu"}
      BY <1>6 DEF OpKinds, LeafKinds, UnaryKinds, BinaryKinds, FusedKinds, isMatMulFamily
    <3> HIDE DEF p, bs, B, bound
    <3>3. CASE isMatMulFamily(heap[p].kind)
      <4>1. tileCode(p, bs) = matMulCode(p, bs)
        BY <3>3 DEF tileCode, isMatMulFamily
      <4> QED
        BY <1>1, <1>2, <3>1, <3>3, <4>1, MatMulExecutes
    <3>4. CASE heap[p].kind \in {"Add", "Sub"}
      <4>1. tileCode(p, bs) = addCode(p, bs)
        BY <3>4 DEF tileCode, isMatMulFamily
      <4>2. (IF heap[p].kind = "Add" THEN 7 ELSE 6) \in B.diagonal
        BY <3>2, <3>4
      <4> QED
        BY <1>1, <1>2, <3>1, <3>4, <4>1, <4>2, AddExecutes
    <3>5. CASE heap[p].kind = "ScalarMul"
      <4>1. tileCode(p, bs) = scalarMulCode(p, bs)
        BY <3>5 DEF tileCode, isMatMulFamily
      <4> QED
        BY <1>1, <1>2, <3>1, <3>5, <4>1, ScaleExecutes
    <3>6. CASE heap[p].kind \in {"Transpose", "Relu"}
      <4>1. tileCode(p, bs) = transposeReluCode(p, bs)
        BY <3>6 DEF tileCode, isMatMulFamily
      <4> QED
        BY <1>1, <1>2, <3>1, <3>6, <4>1, MapExecutes
    <3> QED
      BY <3>0, <3>3, <3>4, <3>5, <3>6
  <2>2. Below(Known(n + 1), B)
    <3>1. Below(Known(n + 1), K)
      BY <1>6, KnownNext
    <3>2. Below(Known(n + 1), K) => Below(Known(n + 1), B)
      BY DEF Below, Based, Known
    <3> QED
      BY <3>1, <3>2
  <2> HIDE DEF p, bs, B, K, bound
  <2>3. Executes(p, K, bound.code \o tileCode(p, bs), B)
    BY <1>2, <2>1, ExecutesThen
  <2>4. Executes(p, K, bound.code \o tileCode(p, bs), Known(n + 1))
    BY <2>2, <2>3, BelowSelf, ExecutesBetween
  <2> QED
    BY <2>4 DEF p, bs, K, bound
<1> QED
  BY <1>5, <1>6

-----------------------------------------------------------------------------
(* The text as a whole.                                                    *)

Nothing == [reg |-> {}, zero |-> {}, diagonal |-> {}, staged |-> {}]

\* What was emitted so far runs from the state load() leaves.
TextInv ==
  section = "text" /\ FitsInWords => Runs(emitter, Nothing, text, Known(position))

LEMMA FollowsKept ==
  ASSUME UNCHANGED <<heap, buffers, identity, scaleAddr>>, NEW p, NEW i, NEW K, NEW L
  PROVE  Follows(p, i, K, L)' <=> Follows(p, i, K, L)
<1>1. Constants' = Constants /\ OperandSet(p)' = OperandSet(p)
  <2>1. scaleAddr' = scaleAddr /\ identity' = identity /\ heap' = heap
    OBVIOUS
  <2>2. {scaleAddr'[q] : q \in DOMAIN scaleAddr'} = {scaleAddr[q] : q \in DOMAIN scaleAddr}
    BY <2>1
  <2>3. Constants' = Constants
    BY <2>1, <2>2 DEF Constants
  <2>4. OperandSet(p)' = OperandSet(p)
    BY <2>1 DEF OperandSet, Operand
  <2> QED
    BY <2>3, <2>4
<1>2. \A q : Region(q)' = Region(q) /\ \A k : Operand(q, k)' = Operand(q, k)
  BY DEF Region, Operand
<1>3. heap' = heap /\ buffers' = buffers
  OBVIOUS
<1>4. LoadsConstant(i, K, L)' <=> LoadsConstant(i, K, L)
  BY <1>1 DEF LoadsConstant
<1>5. LoadsTile(p, i, K, L)' <=> LoadsTile(p, i, K, L)
  BY <1>1, <1>3 DEF LoadsTile, BufferTile, tileOffset, strideOf
<1>6. LoadsStaged(p, i, K, L)' <=> LoadsStaged(p, i, K, L)
  BY <1>1, <1>2, <1>3 DEF LoadsStaged
<1>7. StoresTile(p, i, K, L)' <=> StoresTile(p, i, K, L)
  BY <1>3 DEF StoresTile, BufferTile, tileOffset, strideOf
<1>8. StoresStaged(p, i, K, L)' <=> StoresStaged(p, i, K, L)
  BY <1>2, <1>3 DEF StoresStaged
<1>9. Normalises(p, i, K, L)' <=> Normalises(p, i, K, L)
  BY <1>3 DEF Normalises
<1> QED
  BY <1>4, <1>5, <1>6, <1>7, <1>8, <1>9
     DEF Follows, Multiplies, Maps, SetsRegister, ShowsTensor

LEMMA RunsKept ==
  ASSUME UNCHANGED <<heap, buffers, identity, scaleAddr>>, NEW v, NEW A, NEW s, NEW B,
         Runs(v, A, s, B)
  PROVE  Runs(v, A, s, B)'
<1>1. PICK K : Annotates(v, s, K) /\ Below(K[1], A) /\ Below(B, K[Len(s) + 1])
  BY DEF Runs
<1>2. \A k \in 1 .. Len(s) : Follows(v[k], s[k], K[k], K[k + 1])'
  BY <1>1, FollowsKept DEF Annotates
<1>3. Annotates(v, s, K)'
  BY <1>2 DEF Annotates
<1> QED
  BY <1>1, <1>3 DEF Runs

LEMMA KnownKept ==
  ASSUME UNCHANGED <<heap, ops, identity>>, NEW n
  PROVE  Known(n)' = Known(n)
<1>1. \A s : StagedTiles(s)' = StagedTiles(s) /\ Region(s)' = Region(s)
  BY DEF StagedTiles, StagedTile, rowOf, colOf, Region
<1>2. StillStaged(n)' = StillStaged(n)
  BY <1>1 DEF StillStaged
<1> QED
  BY <1>1, <1>2 DEF Known

\* A tile of constants is loaded, if there is one.
LEMMA PrologueExecutes ==
  ASSUME Ready
  PROVE  Executes(Nobody, Nothing,
           (IF identity.plus >= 0 THEN Move("LOAD", 7, 0, identity.plus, 0, FALSE) ELSE << >>)
           \o (IF identity.minus >= 0 THEN Move("LOAD", 6, 0, identity.minus, 0, FALSE)
               ELSE << >>), Known(1))
<1> DEFINE one == IF identity.plus # -1 THEN {7} ELSE {}
           A == [reg |-> {}, zero |-> {}, diagonal |-> one, staged |-> {}]
           first == IF identity.plus >= 0 THEN Move("LOAD", 7, 0, identity.plus, 0, FALSE) ELSE << >>
           second == IF identity.minus >= 0 THEN Move("LOAD", 6, 0, identity.minus, 0, FALSE)
                     ELSE << >>
           move(m, t) == [op |-> "LOAD", dst |-> Mat(m),
                          src1 |-> ISA!MemOperand(0, t, 0, FALSE), src2 |-> ISA!NoOperand]
<1>1. /\ identity.plus >= 0 <=> identity.plus # -1
      /\ identity.minus >= 0 <=> identity.minus # -1
  BY DEF Ready, IdentityInv
<1>2. Known(1) = [reg |-> {}, zero |-> {}, diagonal |-> one \cup (IF identity.minus # -1 THEN {6}
                                                              ELSE {}), staged |-> {}]
  <2>1. 1 .. 1 - 1 = {}
    OBVIOUS
  <2>2. StillStaged(1) = {}
    BY <2>1 DEF StillStaged
  <2>3. UNION {StagedTiles(ops[k]) : k \in StillStaged(1)} = {}
    BY <2>2
  <2> QED
    BY <2>3 DEF Known
<1>3. ASSUME NEW m \in Sim!MatrixRegs, NEW t \in Constants, NEW K, NEW L,
             L.reg \subseteq K.reg, L.zero = {}, L.staged \subseteq K.staged,
             L.diagonal \subseteq K.diagonal \cup {m}
      PROVE  Executes(Nobody, K, Move("LOAD", m, 0, t, 0, FALSE), L)
  <2>1. TileChanges(K, L, m, {}, TRUE)
    BY <1>3 DEF TileChanges
  <2>2. <<move(m, t)>> = Move("LOAD", m, 0, t, 0, FALSE)
    BY DEF Move, Emit
  <2> HIDE DEF move
  <2>3. LoadsConstant(move(m, t), K, L)
    BY <2>1, <2>2 DEF LoadsConstant
  <2>4. Follows(Nobody, move(m, t), K, L)
    BY <2>3 DEF Follows
  <2> QED
    BY <2>2, <2>4, ExecutesOne
<1>4. Executes(Nobody, Nothing, first, A)
  <2>1. CASE identity.plus # -1
    <3>1. 7 \in Sim!MatrixRegs /\ identity.plus \in Constants
      BY <2>1 DEF Sim!MatrixRegs, Constants
    <3>2. A.reg \subseteq Nothing.reg /\ A.zero = {} /\ A.staged \subseteq Nothing.staged
          /\ A.diagonal \subseteq Nothing.diagonal \cup {7}
      BY <2>1 DEF Nothing
    <3>3. first = Move("LOAD", 7, 0, identity.plus, 0, FALSE)
      BY <1>1, <2>1
    <3> HIDE DEF A, first
    <3> QED
      BY <1>3, <3>1, <3>2, <3>3
  <2>2. CASE identity.plus = -1
    <3>1. first = << >> /\ A = Nothing
      BY <1>1, <2>2 DEF Nothing
    <3> HIDE DEF A, first
    <3> QED
      BY <3>1, ExecutesNothing
  <2> QED
    BY <2>1, <2>2
<1>5. Executes(Nobody, A, second, Known(1))
  <2>1. CASE identity.minus # -1
    <3>1. 6 \in Sim!MatrixRegs /\ identity.minus \in Constants
      BY <2>1 DEF Sim!MatrixRegs, Constants
    <3> DEFINE B == Known(1)
    <3>2. B.reg \subseteq A.reg /\ B.zero = {} /\ B.staged \subseteq A.staged
          /\ B.diagonal \subseteq A.diagonal \cup {6}
      BY <1>2, <2>1
    <3>3. second = Move("LOAD", 6, 0, identity.minus, 0, FALSE)
      BY <1>1, <2>1
    <3> HIDE DEF A, B, second
    <3>4. Executes(Nobody, A, second, B)
      BY <1>3, <3>1, <3>2, <3>3
    <3> QED
      BY <3>4 DEF B
  <2>2. CASE identity.minus = -1
    <3>1. second = << >> /\ A = Known(1)
      BY <1>1, <1>2, <2>2
    <3> HIDE DEF A, second
    <3> QED
      BY <3>1, ExecutesNothing
  <2> QED
    BY <2>1, <2>2
<1> HIDE DEF A, first, second
<1>6. Executes(Nobody, Nothing, first \o second, Known(1))
  BY <1>4, <1>5, ExecutesThen
<1> QED
  BY <1>6 DEF first, second

\* The code of the op that is lowered, appended.
LEMMA EmittedKeepsText ==
  ASSUME Ready, FitsInWords, TextInv, section = "text", section' = "text",
         position \in 1 .. Len(ops), UNCHANGED <<vars, layoutVars>>,
         NEW instructions, Emitted(NextOp, instructions),
         Executes(NextOp, Known(position), instructions, Known(position + 1))
  PROVE  TextInv'
<1>1. PICK n : n = position + 1
  OBVIOUS
<1>2. PICK p : p = NextOp
  OBVIOUS
<1> DEFINE v == [k \in 1 .. Len(instructions) |-> p]
<1>3. /\ text' = text \o instructions /\ emitter' = emitter \o v /\ position' = n
  BY <1>1, <1>2 DEF Emitted
<1>4. Runs(emitter, Nothing, text, Known(position))
  BY DEF TextInv
<1>5. Runs(v, Known(position), instructions, Known(n))
  BY <1>1, <1>2 DEF Executes
<1> HIDE DEF v
<1>6. Runs(emitter \o v, Nothing, text \o instructions, Known(n))
  BY <1>4, <1>5, RunsJoin
<1>7. PICK w, t, B : w = emitter \o v /\ t = text \o instructions /\ B = Known(n)
  OBVIOUS
<1>8. UNCHANGED <<heap, ops, buffers, identity, scaleAddr>>
  BY DEF vars, fn, layoutVars
<1>9. Known(n)' = B
  BY <1>7, <1>8, KnownKept
<1>10. Runs(w, Nothing, t, B)'
  <2>1. Runs(w, Nothing, t, B)
    BY <1>6, <1>7
  <2> QED
    BY <1>8, <2>1, RunsKept
<1>11. emitter' = w /\ text' = t /\ Known(position)' = B
  <2>1. Known(position)' = Known(n)'
    BY <1>3 DEF Known, StillStaged
  <2> QED
    BY <1>3, <1>7, <1>9, <2>1
<1>12. Runs(emitter, Nothing, text, Known(position))'
  BY <1>10, <1>11 DEF Runs
<1> QED
  BY <1>12 DEF TextInv

LEMMA TextStep ==
  ASSUME IRLayers, PhasesInv, LayoutInv, TextInv, [PipelineNext]_allVars
  PROVE  TextInv'
<1>1. CASE section = "text" /\ UNCHANGED genVars
  <2>1. UNCHANGED vars /\ UNCHANGED layoutVars
    BY <1>1, PhasesStep
  <2>2. UNCHANGED <<heap, ops, buffers, identity, scaleAddr, data>>
    BY <2>1 DEF vars, fn, layoutVars
  <2>3. section' = section /\ emitter' = emitter /\ text' = text /\ position' = position
    BY <1>1 DEF genVars
  <2>4. PICK w, t, n, B : w = emitter /\ t = text /\ n = position /\ B = Known(n)
    OBVIOUS
  <2>5. Known(n)' = B
    BY <2>2, <2>4, KnownKept
  <2>6. Known(position)' = Known(n)' /\ Known(position) = B
    BY <2>3, <2>4 DEF Known, StillStaged
  <2>7. ASSUME FitsInWords'
        PROVE  Runs(emitter, Nothing, text, Known(position))'
    <3>1. FitsInWords
      BY <2>2, <2>7 DEF FitsInWords
    <3>2. Runs(w, Nothing, t, B)
      BY <1>1, <2>4, <2>6, <3>1 DEF TextInv
    <3>3. Runs(w, Nothing, t, B)'
      BY <2>2, <3>2, RunsKept
    <3> QED
      BY <2>3, <2>4, <2>5, <2>6, <3>3 DEF Runs
  <2> QED
    BY <2>7 DEF TextInv
<1>2. CASE section # "text" /\ section' # "text"
  BY <1>2 DEF TextInv
<1>3. CASE Generate
  <2>1. UNCHANGED vars
    BY <1>3 DEF Generate, GenNext, LayoutIdentities, LayoutOp, prologue, LowerNothing, LowerTiles,
       LowerSoftmax, LowerToPrint, LoweringOp, Generating
  <2>2. CASE LayoutIdentities \/ LayoutOp
    BY <1>2, <2>2 DEF LayoutIdentities, LayoutOp, Generating
  <2>3. CASE prologue
    <3> DEFINE lines == (IF identity.plus >= 0 THEN Move("LOAD", 7, 0, identity.plus, 0, FALSE)
                        ELSE << >>)
                       \o (IF identity.minus >= 0
                           THEN Move("LOAD", 6, 0, identity.minus, 0, FALSE) ELSE << >>)
    <3>1. /\ text' = lines /\ emitter' = [k \in 1 .. Len(lines) |-> Nobody] /\ position' = 1
          /\ UNCHANGED layoutVars /\ section = "data" /\ position > Len(ops)
      BY <2>3 DEF prologue, Generating
    <3>2. Ready
      <4>1. Len(ops) \in Nat /\ position \in 1 .. Len(ops) + 1 /\ Placed(position - 1)
        BY <3>1, FnFacts DEF LayoutInv, IRLayers, IRInv
      <4>2. position - 1 = Len(ops)
        BY <3>1, <4>1
      <4> QED
        BY <3>1, <4>1, <4>2 DEF LayoutInv, Ready
    <3>3. Executes(Nobody, Nothing, lines, Known(1))
      BY <3>2, PrologueExecutes
    <3> HIDE DEF lines
    <3>4. PICK w, t, B : w = [k \in 1 .. Len(lines) |-> Nobody] /\ t = lines /\ B = Known(1)
      OBVIOUS
    <3>5. UNCHANGED <<heap, ops, buffers, identity, scaleAddr>>
      BY <2>1, <3>1 DEF vars, fn, layoutVars
    <3>6. Runs(w, Nothing, t, B)'
      <4>1. Runs(w, Nothing, t, B)
        BY <3>3, <3>4 DEF Executes
      <4> QED
        BY <3>5, <4>1, RunsKept
    <3>7. Known(1)' = B
      BY <3>4, <3>5, KnownKept
    <3>8. Known(position)' = Known(1)'
      BY <3>1 DEF Known, StillStaged
    <3>9. Runs(emitter, Nothing, text, Known(position))'
      BY <3>1, <3>4, <3>6, <3>7, <3>8 DEF Runs
    <3> QED
      BY <3>9 DEF TextInv
  <2>4. CASE LowerNothing \/ LowerTiles \/ LowerSoftmax \/ LowerToPrint
    <3>1. /\ section = "text" /\ position \in 1 .. Len(ops)
          /\ section' = "text" /\ UNCHANGED layoutVars
      BY <2>4 DEF LowerNothing, LowerTiles, LowerSoftmax, LowerToPrint, LoweringOp, Generating,
         Emitted
    <3>2. SUFFICES ASSUME FitsInWords' PROVE TextInv'
      BY DEF TextInv
    <3>3. FitsInWords /\ Ready
      BY <3>1, <3>2 DEF FitsInWords, layoutVars, Ready, LayoutInv
    <3>4. NextOp \in DOMAIN heap /\ NextOp = ops[position]
      BY <3>1, FnFacts DEF IRLayers, IRInv, NextOp
    <3>5. needsBuffer(heap[NextOp].kind) => NextOp \in DOMAIN buffers
      BY <3>1, <3>3, <3>4 DEF Ready, Placed
    <3>6. heap[NextOp].kind # "ScratchStore" => Below(Known(position + 1), Known(position))
      BY <3>1, <3>3, <3>4, KnownNext
    <3>7. ASSUME NEW lines, Emitted(NextOp, lines),
                 Executes(NextOp, Known(position), lines, Known(position + 1))
          PROVE  TextInv'
      BY <2>1, <3>1, <3>3, <3>7, EmittedKeepsText
    <3>8. ASSUME NEW lines, Emitted(NextOp, lines), heap[NextOp].kind # "ScratchStore",
                 Executes(NextOp, Known(position), lines, Known(position))
          PROVE  TextInv'
      BY <3>6, <3>7, <3>8, BelowSelf, ExecutesBetween
    <3>9. Known(position).reg = {}
      BY DEF Known
    <3>10. CASE LowerNothing
      <4>1. Emitted(NextOp, << >>) /\ heap[NextOp].kind # "ScratchStore"
        BY <3>10 DEF LowerNothing, LoweringOp, LeafKinds
      <4>2. Executes(NextOp, Known(position), << >>, Known(position))
        BY ExecutesNothing
      <4> QED
        BY <3>8, <4>1, <4>2
    <3>11. CASE LowerTiles
      <4> DEFINE bound == bindBases(NextOp)
                 lines == bound.code \o tileCode(NextOp, bound.base)
      <4>1. Emitted(NextOp, lines)
            /\ heap[NextOp].kind \in OpKinds \ (LeafKinds \cup {"ScratchLoad", "Print", "Softmax"})
        BY <3>11 DEF LowerTiles, LoweringOp
      <4>2. Executes(NextOp, Known(position), lines, Known(position + 1))
        BY <3>1, <3>3, <3>4, <4>1, TilesExecute
      <4> HIDE DEF lines
      <4> QED
        BY <3>7, <4>1, <4>2
    <3>12. CASE LowerSoftmax
      <4>1. Emitted(NextOp, softmaxCode(NextOp)) /\ heap[NextOp].kind = "Softmax"
        BY <3>12 DEF LowerSoftmax, LoweringOp
      <4>2. NextOp \in DOMAIN buffers
        BY <3>5, <4>1 DEF needsBuffer
      <4>3. Executes(NextOp, Known(position), softmaxCode(NextOp), Known(position))
        BY <3>3, <3>9, <4>2, SoftmaxExecutes
      <4> QED
        BY <3>8, <4>1, <4>3
    <3>13. CASE LowerToPrint
      <4>1. Emitted(NextOp, printCode(NextOp)) /\ heap[NextOp].kind = "Print"
        BY <3>13 DEF LowerToPrint, LoweringOp
      <4>2. Executes(NextOp, Known(position), printCode(NextOp), Known(position))
        BY <3>9, PrintExecutes
      <4> QED
        BY <3>8, <4>1, <4>2
    <3> QED
      BY <2>4, <3>10, <3>11, <3>12, <3>13
  <2> QED
    BY <1>3, <2>2, <2>3, <2>4 DEF Generate, GenNext
<1>4. CASE UNCHANGED genVars
  BY <1>1, <1>2, <1>4 DEF genVars
<1>5. \/ Generate \/ UNCHANGED genVars
  <2>1. CASE Optimise \/ LowerNext \/ Accept
    BY <2>1 DEF Optimise, LowerNext, Accept
  <2>2. CASE StartSimulation \/ Simulate \/ Finished \/ UNCHANGED allVars
    BY <2>2 DEF StartSimulation, Simulate, Finished, CompilerIdle, allVars
  <2> QED
    BY <2>1, <2>2 DEF PipelineNext
<1> QED
  BY <1>3, <1>4, <1>5

=============================================================================
