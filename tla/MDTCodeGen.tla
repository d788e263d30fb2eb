----------------------------- MODULE MDTCodeGen -----------------------------
(***************************************************************************)
(* The MDT code generator: CodeGen::run() over the function the passes     *)
(* left.  layout() places every tensor in the data section, its rows and   *)
(* columns padded to whole tiles, and lower() is called once per op.       *)
(*                                                                         *)
(* What is emitted is the decoded instruction the assembler makes of the   *)
(* line: LOADT is a LOAD with a stride, SCRATCHLOAD one of the scratchpad. *)
(* Addresses count words, so the alignment of 64 bytes is one tile.        *)
(***************************************************************************)
EXTENDS TensorIR

CONSTANTS
  LeafWord(_, _),   \* value k, from 0, of input or literal p
  Factor(_)         \* the constant a ScalarMul op multiplies by

ISA  == INSTANCE MDTIsa
Seqs == INSTANCE SequencesExt

VARIABLES
  section,    \* what run() is emitting: "none", "data" or "text"
  position,   \* the op its loop has reached
  buffers,    \* buffers_: address, shape and padded columns, by op
  identity,   \* identityAddr_ and negIdentityAddr_, -1 when there is none
  scaleAddr,  \* scaleAddr_, by op
  data,       \* data_, [words, end]: what is emitted so far and dataEnd_
  text,       \* text_
  base,       \* base_: the register that holds an operand's address, by op
  printNames, \* printNames_: the Print op of each id, from 0
  emitter     \* history: the op each instruction was emitted for

layoutVars == <<buffers, identity, scaleAddr, data>>
genVars    == <<section, position, layoutVars, text, base, printNames, emitter>>

GenInit ==
  /\ section = "none" /\ position = 0
  /\ buffers = << >> /\ identity = [plus |-> -1, minus |-> -1] /\ scaleAddr = << >>
  /\ data = [words |-> << >>, end |-> 0]
  /\ text = << >> /\ base = << >> /\ printNames = << >> /\ emitter = << >>

-----------------------------------------------------------------------------
(* The data section.                                                       *)

kTileElems == kTileDim * kTileDim
pad(n)     == tilesOf(n) * kTileDim
Zeros(n)   == [k \in 1 .. n |-> 0]

bufferFor(p, addr) == [addr |-> addr, shape |-> heap[p].shape, cp |-> pad(heap[p].shape.cols)]
batchWords(shape)  == pad(shape.rows) * pad(shape.cols)
bufferWords(shape) == shape.batch * batchWords(shape)

\* Where allocate() puts the next label.
aligned(d) == ((d.end + kTileElems - 1) \div kTileElems) * kTileElems

\* Mutant: dataEnd_ moves past one matrix of the batch.
AllocateOneMatrix(d, words, image) ==
  [words |-> d.words \o Zeros(aligned(d) - d.end) \o image, end |-> aligned(d) + kTileElems]

\* allocate(), and the directives emitted under its label.
allocate(d, words, image) ==
  [words |-> d.words \o Zeros(aligned(d) - d.end) \o image, end |-> aligned(d) + words]

constantTile(diagonal) ==
  [k \in 1 .. kTileElems |->
     IF (k - 1) \div kTileDim = (k - 1) % kTileDim THEN diagonal ELSE 0]

needsBuffer(kind) == kind \notin {"Print", "ScratchStore", "ScratchLoad"}

\* Mutant: the image is emitted without its padding columns and rows.
DenseImage(p) ==
  LET s == heap[p].shape
      dense == [k \in 1 .. s.batch * s.rows * s.cols |-> LeafWord(p, k - 1)]
  IN dense \o Zeros(bufferWords(s) - Len(dense))

\* The padded image of an input or a literal; other buffers start as zeros.
imageOf(p) ==
  LET s == heap[p].shape
      cp == pad(s.cols)
      word(k) == LET b == k \div batchWords(s)
                     i == (k % batchWords(s)) \div cp
                     j == k % cp
                 IN IF i < s.rows /\ j < s.cols THEN LeafWord(p, (b * s.rows + i) * s.cols + j)
                    ELSE 0
  IN IF heap[p].kind \in LeafKinds
     THEN [k \in 1 .. bufferWords(s) |-> word(k - 1)]
     ELSE Zeros(bufferWords(s))

Reg(i) == ISA!RegOperand("Scalar", i)
Mat(i) == ISA!RegOperand("Matrix", i)
Num(n) == ISA!ImmOperand(n)
Emit(op, dst, src1, src2) == <<[op |-> op, dst |-> dst, src1 |-> src1, src2 |-> src2]>>
Move(op, m, reg, off, stride, scratch) ==
  Emit(op, Mat(m), ISA!MemOperand(reg, off, stride, scratch), ISA!NoOperand)

Generating(part) ==
  /\ stage = "done" /\ section = part
  /\ UNCHANGED vars

\* layout(): the identity tiles that sums and differences are made with.
LayoutIdentities ==
  /\ Generating("none")
  /\ LET sub == \E p \in Ops : heap[p].kind = "Sub"
         add == sub \/ \E p \in Ops : heap[p].kind = "Add"
         one == IF add THEN allocate(data, kTileElems, constantTile(1)) ELSE data
     IN /\ identity' = [plus  |-> IF add THEN aligned(data) ELSE -1,
                        minus |-> IF sub THEN aligned(one) ELSE -1]
        /\ data' = IF sub THEN allocate(one, kTileElems, constantTile(-1)) ELSE one
  /\ section' = "data" /\ position' = 1
  /\ UNCHANGED <<buffers, scaleAddr, text, base, printNames, emitter>>

\* Its loop over the ops: the tile of a scalar factor, then the buffer.
LayoutOp ==
  /\ Generating("data") /\ position <= Len(ops)
  /\ LET p == ops[position]
         isScale == heap[p].kind = "ScalarMul"
         scale == IF isScale THEN allocate(data, kTileElems, constantTile(Factor(p))) ELSE data
     IN /\ scaleAddr' = IF isScale THEN put(scaleAddr, p, aligned(data)) ELSE scaleAddr
        /\ IF needsBuffer(heap[p].kind)
           THEN /\ data' = allocate(scale, bufferWords(heap[p].shape), imageOf(p))
                /\ buffers' = put(buffers, p, bufferFor(p, aligned(scale)))
           ELSE data' = scale /\ UNCHANGED buffers
  /\ position' = position + 1
  /\ UNCHANGED <<section, identity, text, base, printNames, emitter>>

prologue ==
  /\ Generating("data") /\ position > Len(ops)
  /\ text' = (IF identity.plus >= 0 THEN Move("LOAD", 7, 0, identity.plus, 0, FALSE) ELSE << >>)
             \o (IF identity.minus >= 0 THEN Move("LOAD", 6, 0, identity.minus, 0, FALSE)
                 ELSE << >>)
  /\ emitter' = [k \in 1 .. Len(text') |-> Nobody]
  /\ section' = "text" /\ position' = 1
  /\ UNCHANGED <<layoutVars, base, printNames>>

-----------------------------------------------------------------------------
(* Operands.  A tile is read from the buffer of its op, or from what the   *)
(* store behind a ScratchLoad has copied to the scratchpad.                *)

inDRAM(p) == p \in DOMAIN buffers

\* setBase(): the register is set unless the op has one already.
setBase(acc, p, reg) ==
  IF p \in DOMAIN acc.base THEN acc
  ELSE [base |-> put(acc.base, p, reg), reg |-> reg + 1,
        code |-> acc.code \o Emit("ADD", Reg(reg), Reg(0), Num(buffers[p].addr))]

bindAll(bs, list) ==
  LET bound[n \in 0 .. Len(list)] ==
        IF n = 0 THEN [base |-> bs, reg |-> 1, code |-> << >>]
        ELSE LET acc == bound[n - 1] IN
             IF inDRAM(list[n]) THEN setBase(acc, list[n], acc.reg) ELSE acc
  IN bound[Len(list)]

boundFrom(bs, p) ==
  LET operands == bindAll(bs, heap[p].operands)
      cleared == [operands EXCEPT !.base = [q \in DOMAIN @ \ {p} |-> @[q]]]
  IN IF inDRAM(p) THEN setBase(cleared, p, 4) ELSE operands

\* Mutant: base_ is not cleared between two operations.
BindKeepsBase(p) == boundFrom(base, p)

\* bindBases(): R1.. for the operands in DRAM, each once, R4 for the result.
bindBases(p) == boundFrom(<< >>, p)

tileOffset(buf, b, ti, tj) ==
  b * batchWords(buf.shape) + kTileDim * (ti * buf.cp + tj)

\* LOAD and STORE when a row is one tile wide, LOADT and STORET otherwise.
strideOf(buf) == IF buf.cp = kTileDim THEN 0 ELSE buf.cp

broadcast(shape, b) == IF shape.batch = 1 THEN 0 ELSE b

scratchTile(store, b, ti, tj) ==
  LET s == heap[store].shape IN
    kTileElems * (heap[store].scratchOffset
                    + (broadcast(s, b) * tilesOf(s.rows) + ti) * tilesOf(s.cols) + tj)

loadTile(bs, p, b, ti, tj, m) ==
  IF heap[p].kind = "ScratchLoad"
  THEN Move("LOAD", m, 0, scratchTile(Operand(p, 1), b, ti, tj), 0, TRUE)
  ELSE LET buf == buffers[p] IN
         Move("LOAD", m, bs[p], tileOffset(buf, broadcast(buf.shape, b), ti, tj),
              strideOf(buf), FALSE)

storeTile(bs, p, b, ti, tj, m) ==
  LET buf == buffers[p] IN
    Move("STORE", m, bs[p], tileOffset(buf, b, ti, tj), strideOf(buf), FALSE)

\* The loops over batch, tile rows and tile columns of a shape.
ForEachTile(s, Body(_, _, _)) ==
  LET nt == tilesOf(s.cols)
      perMatrix == tilesOf(s.rows) * nt
  IN Seqs!FlattenSeq([n \in 1 .. s.batch * perMatrix |->
       Body((n - 1) \div perMatrix, ((n - 1) % perMatrix) \div nt, (n - 1) % nt)])

-----------------------------------------------------------------------------
(* lower(): the instructions of one op, with its base registers bound.     *)

scratchStoreCode(p, bs) ==
  LET copy(b, i, j) == loadTile(bs, Operand(p, 1), b, i, j, 3)
                       \o Move("STORE", 3, 0, scratchTile(p, b, i, j), 0, TRUE)
  IN ForEachTile(heap[p].shape, copy)

\* Mutant: the loop over k starts a new product for every tile.
RestartEachTile(acc, relu, kt, k) ==
  IF relu /\ kt = 1 /\ ~acc THEN "MATMULRELU" ELSE "MATMUL"

productOp(acc, relu, kt, k) ==
  IF relu /\ kt = 1 /\ ~acc THEN "MATMULRELU"
  ELSE IF k = 0 /\ ~acc THEN "MATMUL"
  ELSE "MATMULACC"

matMulCode(p, bs) ==
  LET kt == tilesOf(heap[Operand(p, 1)].shape.cols)
      acc == Len(heap[p].operands) = 3
      relu == heap[p].kind = "FusedMatMulRelu"
      product(b, i, j, k) ==
        loadTile(bs, Operand(p, 1), b, i, k, 1) \o loadTile(bs, Operand(p, 2), b, k, j, 2)
        \o Emit(productOp(acc, relu, kt, k), Mat(0), Mat(1), Mat(2))
      tile(b, i, j) ==
        (IF acc THEN loadTile(bs, Operand(p, 3), b, i, j, 0) ELSE << >>)
        \o Seqs!FlattenSeq([k \in 1 .. kt |-> product(b, i, j, k - 1)])
        \o (IF relu /\ (kt > 1 \/ acc) THEN Emit("RELU", Mat(0), Mat(0), ISA!NoOperand)
            ELSE << >>)
        \o storeTile(bs, p, b, i, j, 0)
  IN ForEachTile(heap[p].shape, tile)

addCode(p, bs) ==
  LET unit == IF heap[p].kind = "Add" THEN 7 ELSE 6
      tile(b, i, j) ==
        loadTile(bs, Operand(p, 1), b, i, j, 0) \o loadTile(bs, Operand(p, 2), b, i, j, 1)
        \o Emit("MATMULACC", Mat(0), Mat(1), Mat(unit))
        \o storeTile(bs, p, b, i, j, 0)
  IN ForEachTile(heap[p].shape, tile)

scalarMulCode(p, bs) ==
  LET tile(b, i, j) ==
        loadTile(bs, Operand(p, 1), b, i, j, 1)
        \o Emit("MATMUL", Mat(0), Mat(1), Mat(5)) \o storeTile(bs, p, b, i, j, 0)
  IN Move("LOAD", 5, 0, scaleAddr[p], 0, FALSE) \o ForEachTile(heap[p].shape, tile)

transposeReluCode(p, bs) ==
  LET tr == heap[p].kind = "Transpose"
      tile(b, i, j) ==
        loadTile(bs, Operand(p, 1), b, IF tr THEN j ELSE i, IF tr THEN i ELSE j, 1)
        \o Emit(IF tr THEN "TRANSPOSE" ELSE "RELU", Mat(0), Mat(1), ISA!NoOperand)
        \o storeTile(bs, p, b, i, j, 0)
  IN ForEachTile(heap[p].shape, tile)

tileCode(p, bs) ==
  CASE heap[p].kind = "ScratchStore" -> scratchStoreCode(p, bs)
    [] isMatMulFamily(heap[p].kind) -> matMulCode(p, bs)
    [] heap[p].kind \in {"Add", "Sub"} -> addCode(p, bs)
    [] heap[p].kind = "ScalarMul" -> scalarMulCode(p, bs)
    [] heap[p].kind \in {"Transpose", "Relu"} -> transposeReluCode(p, bs)

\* CALL of the runtime function numbered `id`, its arguments in R1 ..
runtimeCall(id, args) ==
  Seqs!FlattenSeq([k \in 1 .. Len(args) |-> Emit("ADD", Reg(k), Reg(0), Num(args[k]))])
  \o Emit("CALL", ISA!LabelOperand(-1 - id), ISA!NoOperand, ISA!NoOperand)

\* A printed value may be a staged copy: the buffer is that of its origin.
originOf[p \in DOMAIN heap] ==
  IF heap[p].kind \in {"ScratchLoad", "ScratchStore"} THEN originOf[Operand(p, 1)] ELSE p

printCode(p) ==
  LET buf == buffers[originOf[Operand(p, 1)]]  s == heap[p].shape IN
    runtimeCall(0, <<buf.addr, s.batch, s.rows, s.cols, buf.cp, Len(printNames)>>)

softmaxCode(p) ==
  LET s == heap[p].shape IN
    runtimeCall(1, <<buffers[Operand(p, 1)].addr, buffers[p].addr,
                     s.batch, s.rows, s.cols, buffers[p].cp>>)

Emitted(p, instructions) ==
  /\ text' = text \o instructions
  /\ emitter' = emitter \o [k \in 1 .. Len(instructions) |-> p]
  /\ position' = position + 1
  /\ UNCHANGED <<section, layoutVars>>

NextOp == ops[position]

LoweringOp(kinds) ==
  /\ Generating("text")
  /\ position \in 1 .. Len(ops) /\ heap[NextOp].kind \in kinds

LowerNothing ==
  /\ LoweringOp(LeafKinds \cup {"ScratchLoad"})
  /\ Emitted(NextOp, << >>)
  /\ UNCHANGED <<base, printNames>>

LowerTiles ==
  /\ LoweringOp(OpKinds \ (LeafKinds \cup {"ScratchLoad", "Print", "Softmax"}))
  /\ LET bound == bindBases(NextOp) IN
       /\ base' = bound.base
       /\ Emitted(NextOp, bound.code \o tileCode(NextOp, bound.base))
  /\ UNCHANGED printNames

LowerSoftmax ==
  /\ LoweringOp({"Softmax"})
  /\ Emitted(NextOp, softmaxCode(NextOp))
  /\ UNCHANGED <<base, printNames>>

LowerToPrint ==
  /\ LoweringOp({"Print"})
  /\ Emitted(NextOp, printCode(NextOp))
  /\ printNames' = Append(printNames, NextOp)
  /\ UNCHANGED base

GenNext ==
  \/ LayoutIdentities \/ LayoutOp \/ prologue
  \/ LowerNothing \/ LowerTiles \/ LowerSoftmax \/ LowerToPrint

\* run() returned: the text ends with HALT.
Generated == section = "text" /\ position = Len(ops) + 1

assembly ==
  [code |-> text \o Emit("HALT", ISA!NoOperand, ISA!NoOperand, ISA!NoOperand),
   data |-> data.words]
=============================================================================
