------------------------------ MODULE Pipeline ------------------------------
(***************************************************************************)
(* compile() and simulate() of driver/Pipeline.cpp end to end: a checked   *)
(* program is lowered, fused, pruned and tiled (TensorIR), code is made    *)
(* of it (MDTCodeGen), and the simulator (MDTSimulator) runs that code.    *)
(* The reference is referenceOutput(): interpret() of the function as it   *)
(* was lowered, before any pass.                                           *)
(***************************************************************************)
EXTENDS MDTCodeGen

CONSTANTS
  Programs,   \* checked programs: ops [kind, shape, operands] over earlier ones
  HalfWord, BF16Unit, MemoryWords, HeadroomWords, ScratchpadWords, Wild,
  MaxInstructions, TransferBytes, RuntimeCosts

\* What lowering makes of a checked program: ops over values it has, printed
\* or not, in the shapes semantic analysis gives them.
CheckedOp(prog, k) ==
  LET op == prog[k]
      shape(i) == prog[op.operands[i]].shape
  IN /\ op.operands \in Seq(1 .. k - 1)
     /\ \A i \in 1 .. Len(op.operands) : prog[op.operands[i]].kind # "Print"
     /\ \/ op.kind \in LeafKinds /\ op.operands = << >>
        \/ /\ op.kind \in UnaryKinds /\ Len(op.operands) = 1
           /\ op.shape = unaryShape(op.kind, shape(1))
        \/ /\ op.kind \in BinaryKinds /\ Len(op.operands) = 2
           /\ op.shape \in binaryShapes(op.kind, shape(1), shape(2))
        \/ op.kind = "Print" /\ Len(op.operands) = 1 /\ op.shape = shape(1)

ASSUME PipelineAssumption ==
  /\ Programs \subseteq Seq([kind: STRING, shape: TensorShape, operands: Seq(Nat)])
  /\ \A prog \in Programs : \A k \in 1 .. Len(prog) : CheckedOp(prog, k)
  /\ HalfWord \in Nat \ {0, 1} /\ BF16Unit \in Nat \ {0}
  /\ MemoryWords \in Nat /\ HeadroomWords \in Nat
  /\ ScratchpadWords \in Nat /\ ScratchpadTiles * kTileElems <= ScratchpadWords
  /\ MaxInstructions \in Nat /\ Wild \subseteq Int

VARIABLES
  todo,       \* the ops of the program not yet lowered
  expected,   \* history: what referenceOutput() returns for it
  phase, result, instructionCount, bytesMovedDRAM, bytesMovedScratchpad,
  sequentialCycles, overlapAwareCycles, perfRuns, classCycles, finI, finTotal,
  code, R, V, M, memory, dramWords, scratchpad, pc, halted, errors, executed,
  prints, frames

Sim == INSTANCE MDTSimulator WITH Images <- {}, LoadPhases <- {"idle"}

simVars ==
  <<phase, result, instructionCount, bytesMovedDRAM, bytesMovedScratchpad,
    sequentialCycles, overlapAwareCycles, perfRuns, classCycles, finI, finTotal,
    code, R, V, M, memory, dramWords, scratchpad, pc, halted, errors, executed,
    prints, frames>>
allVars == <<vars, genVars, todo, expected, simVars>>

-----------------------------------------------------------------------------
(* referenceOutput(): the ops in order, over matrices of integers.  The    *)
(* simulator rounds as the interpreter does only within the tolerance of   *)
(* samePrints; integers small enough are exact in both.                    *)

at(t, b, i, j) == t.cell[<<IF t.shape.batch = 1 THEN 0 ELSE b, i, j>>]

Cells(s) == (0 .. s.batch - 1) \X (0 .. s.rows - 1) \X (0 .. s.cols - 1)
Tensor(s, F(_, _, _)) == [shape |-> s, cell |-> [c \in Cells(s) |-> F(c[1], c[2], c[3])]]

product(x, y, b, i, j) ==
  Seqs!FoldFunctionOnSet(+, 0, [k \in 0 .. x.shape.cols - 1 |-> at(x, b, i, k) * at(y, b, k, j)],
                    0 .. x.shape.cols - 1)

relu(x) == IF x > 0 THEN x ELSE 0

\* Softmax is what the simulator's mdt_softmax is abstracted to: a 1.
valueAt(p, args, b, i, j) ==
  LET kind == heap[p].kind
      x == args[1]
  IN CASE kind \in LeafKinds ->
            LeafWord(p, (b * heap[p].shape.rows + i) * heap[p].shape.cols + j)
       [] kind = "MatMul"    -> product(x, args[2], b, i, j)
       [] kind = "Add"       -> at(x, b, i, j) + at(args[2], b, i, j)
       [] kind = "Sub"       -> at(x, b, i, j) - at(args[2], b, i, j)
       [] kind = "ScalarMul" -> Factor(p) * at(x, b, i, j)
       [] kind = "Transpose" -> at(x, b, j, i)
       [] kind = "Relu"      -> relu(at(x, b, i, j))
       [] kind = "Softmax"   -> 1
       [] kind = "Print"     -> at(x, b, i, j)

referenceOutput ==
  LET tensor(before, p) ==
        LET args == [n \in 1 .. Len(heap[p].operands) |-> before[heap[p].operands[n]]]
        IN Tensor(heap[p].shape, LAMBDA b, i, j : valueAt(p, args, b, i, j))
      all == Seqs!FoldLeft(LAMBDA before, p : put(before, p, tensor(before, p)), << >>, ops)
      shown == SelectSeq(ops, LAMBDA p : heap[p].kind = "Print")
      record(id, t) ==
        [id |-> id, batch |-> t.shape.batch, rows |-> t.shape.rows, cols |-> t.shape.cols,
         values |-> [k \in 1 .. t.shape.batch * t.shape.rows * t.shape.cols |->
                       LET perMatrix == t.shape.rows * t.shape.cols IN
                         t.cell[<<(k - 1) \div perMatrix,
                                  ((k - 1) % perMatrix) \div t.shape.cols,
                                  (k - 1) % t.shape.cols>>]]]
  IN [n \in 1 .. Len(shown) |-> record(n - 1, all[shown[n]])]

-----------------------------------------------------------------------------
PipelineInit ==
  /\ Init /\ GenInit /\ Sim!Init
  /\ todo \in Programs /\ expected = << >>

CompilerIdle == UNCHANGED <<vars, genVars, todo, expected>>

LowerNext ==
  /\ Lowering /\ todo # << >>
  /\ LET s == Head(todo) IN addOp(s.kind, s.shape, s.operands)
  /\ todo' = Tail(todo)
  /\ UNCHANGED <<genVars, expected, simVars>>

Accept ==
  /\ FinishLowering /\ todo = << >>
  /\ expected' = referenceOutput
  /\ UNCHANGED <<genVars, todo, simVars>>

Optimise ==
  /\ Fuse \/ Prune \/ Tile
  /\ UNCHANGED <<genVars, todo, expected, simVars>>

Generate ==
  /\ GenNext
  /\ UNCHANGED <<todo, expected, simVars>>

\* The lines assembled again, then load().
StartSimulation ==
  /\ Generated
  /\ Sim!LoadImage(assembly)
  /\ CompilerIdle

Simulate == Sim!Run /\ CompilerIdle

Finished == phase = "done" /\ UNCHANGED allVars

PipelineNext ==
  \/ LowerNext \/ Accept \/ Optimise \/ Generate \/ StartSimulation \/ Simulate
  \/ Finished

\* Once a program is accepted, compile() and simulate() are plain calls.
PipelineSpec ==
  /\ PipelineInit /\ [][PipelineNext]_allVars
  /\ WF_allVars(Optimise \/ Generate \/ StartSimulation \/ Simulate)

-----------------------------------------------------------------------------
(* Properties.                                                             *)

Promise == INSTANCE PrintedProgram
             WITH accepted <- stage # "lower", program <- expected, printed <- prints

(* The compiled program prints what the source program means: whatever was *)
(* fused, staged and padded, the simulator prints the values of the        *)
(* interpreter, in order, each once, and all of them (Pipeline.h: the two  *)
(* outputs mtxverify compares).                                            *)
PrintsTheProgram == Promise!Spec

\* The data words of op p's buffer.
BufferOf(p) == buffers[p].addr .. buffers[p].addr + bufferWords(buffers[p].shape) - 1

IsPadding(p, a) ==
  LET s == buffers[p].shape
      k == (a - buffers[p].addr) % batchWords(s)
  IN k \div buffers[p].cp >= s.rows \/ k % buffers[p].cp >= s.cols

(* "Padding is always zero - inputs and constants are emitted that way and *)
(* every instruction sequence below preserves it" (MDTCodeGen.h:12-14), at *)
(* every instruction of every op, which ragged shapes need to be right.    *)
PaddingStaysZero ==
  phase # "idle" =>
    \A p \in DOMAIN buffers : \A a \in BufferOf(p) : IsPadding(p, a) => memory[a] = 0

Executing(op) == phase = "running" /\ pc < Len(text) /\ code[pc + 1].op = op

(* The code of an op writes to its own buffer, or to the scratchpad tiles  *)
(* of its own store, and to nothing else: no two buffers share a word, and *)
(* R4 holds the base of the op being computed.                             *)
OnlyTheResultChanges ==
  [][phase = "running" =>
       LET p == emitter[pc + 1] IN
         /\ \A a \in DOMAIN memory : memory'[a] # memory[a] =>
              \A q \in DOMAIN buffers : (a \in BufferOf(q)) <=> (q = p)
         /\ \A a \in DOMAIN scratchpad : scratchpad'[a] # scratchpad[a] =>
              /\ heap[p].kind = "ScratchStore"
              /\ a \div kTileElems \in Region(p)]_allVars

\* The words a tile instruction touches.
Touched == {Sim!CellAddr(code[pc + 1], c) : c \in 0 .. kTileElems - 1}

ConstantTiles ==
  {t .. t + kTileElems - 1 :
     t \in {identity.plus, identity.minus} \cup {scaleAddr[p] : p \in DOMAIN scaleAddr}}

(* Every tile an op loads is one of its operands', a constant, or was put  *)
(* in the scratchpad by the very store its operand stands for: base        *)
(* registers, bound afresh for each op, are never stale.                   *)
LoadsReadOperands ==
  Executing("LOAD") =>
    LET p == emitter[pc + 1] IN
      IF code[pc + 1].src1.scratchpad
      THEN \E q \in OperandSet(p) :
             /\ heap[q].kind = "ScratchLoad"
             /\ \A a \in Touched : a \div kTileElems \in Region(Operand(q, 1))
      ELSE \/ \E t \in ConstantTiles : Touched \subseteq t
           \/ p # Nobody /\ \E q \in OperandSet(p) \cap DOMAIN buffers :
                              Touched \subseteq BufferOf(q)
=============================================================================
