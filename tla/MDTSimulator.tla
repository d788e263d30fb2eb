---------------------------- MODULE MDTSimulator ----------------------------
(***************************************************************************)
(* The MDT simulator: load(), run() and one action per exec* handler of    *)
(* tools/mdtsim/MDTSim.cpp, composed with the performance model MDTPerf.   *)
(*                                                                         *)
(* Memory is counted in 4-byte words and every address is word-aligned.    *)
(* A Word is both the int32_t and the FP32 pattern in its four bytes:      *)
(* integer arithmetic wraps, float arithmetic saturates.                   *)
(***************************************************************************)
EXTENDS MDTPerf, SequencesExt

CONSTANTS
  kTileDim,         \* the edge of a tile, and the lanes of a vector
  HalfWord,         \* 2^(w-1) for w-bit words
  BF16Unit,         \* the value of the lowest bit a BF16 payload keeps
  MemoryWords,      \* SimulatorOptions::memoryBytes / 4
  HeadroomWords,    \* the stack headroom load() adds to a data section
  ScratchpadWords,  \* SimulatorOptions::scratchpadBytes / 4
  Images,           \* the assembled programs, [code, data]
  LoadPhases,       \* the phases callers call load() in
  Wild              \* what an access outside the arrays may read

Word == -HalfWord .. HalfWord - 1
Wrap(n) == ((n + HalfWord) % (2 * HalfWord)) - HalfWord
Saturate(x) == IF x \in Word THEN x ELSE IF x > 0 THEN HalfWord - 1 ELSE -HalfWord

ScalarRegs  == 0 .. 15
VectorRegs  == 0 .. 7
MatrixRegs  == 0 .. 7
kTileElems  == kTileDim * kTileDim
TileCells   == 0 .. kTileElems - 1
VectorCells == 0 .. kTileDim - 1
kWordBytes  == 4

\* Register indices the assembler's parseRegister lets through.
WellFormedOperand(o) ==
  /\ o \in Operand
  /\ o.cls = "Scalar" => o.idx \in ScalarRegs
  /\ o.cls = "Vector" => o.idx \in VectorRegs
  /\ o.cls = "Matrix" => o.idx \in MatrixRegs
  /\ o.kind = "Memory" => o.cls = "Scalar"

WellFormedInstruction(i) ==
  /\ i.op \in Opcode
  /\ WellFormedOperand(i.dst)
  /\ WellFormedOperand(i.src1)
  /\ WellFormedOperand(i.src2)

ASSUME SimAssumption ==
  /\ kTileDim \in Nat \ {0}
  /\ HalfWord \in Nat \ {0, 1}
  /\ BF16Unit \in Nat \ {0}
  /\ MemoryWords \in Nat /\ HeadroomWords \in Nat /\ ScratchpadWords \in Nat
  /\ Wild \subseteq Word /\ Wild # {}
  /\ LoadPhases \subseteq {"idle", "done"}

ASSUME ImageAssumption ==
  \A img \in Images :
    /\ img.data \in Seq(Word)
    /\ img.code \in Seq(Instruction)
    /\ \A i \in 1 .. Len(img.code) : WellFormedInstruction(img.code[i])

VARIABLES
  code, R, V, M, memory, dramWords, scratchpad, pc, halted,
  errors,      \* errors_: what stopped the run, and where
  executed,    \* executed_
  prints,      \* prints_
  frames       \* history: return indices of the calls not yet returned from

files   == <<R, V, M>>
spaces  == <<memory, scratchpad, dramWords>>
simVars == <<code, files, spaces, pc, halted, errors, executed, prints, frames>>
vars    == <<perfVars, simVars>>

ZeroTile == [i \in TileCells |-> 0]
PrintRecord == [id: Word, batch: Word, rows: Word, cols: Word, values: Seq(Word)]
RuntimeError == [pc: Nat, what: {"fault", "limit"}]

-----------------------------------------------------------------------------
(* load() and the frame of run().                                          *)

Init ==
  /\ PerfInit
  /\ code = <<>>
  /\ R = [r \in ScalarRegs |-> 0]
  /\ V = [r \in VectorRegs |-> [i \in VectorCells |-> 0]]
  /\ M = [r \in MatrixRegs |-> ZeroTile]
  /\ dramWords = MemoryWords
  /\ memory = [a \in 0 .. MemoryWords - 1 |-> 0]
  /\ scratchpad = [a \in 0 .. ScratchpadWords - 1 |-> 0]
  /\ pc = 0 /\ halted = FALSE /\ errors = <<>> /\ executed = 0
  /\ prints = <<>> /\ frames = <<>>

\* The words of DRAM once `data` is loaded; DRAM grows and never shrinks.
DramFor(data) == MaxOf(dramWords, Len(data) + HeadroomWords)

LoadImage(img) ==
  /\ phase \in LoadPhases
  /\ LET size == DramFor(img.data) IN
       /\ code' = img.code
       /\ dramWords' = size
       /\ memory' = [a \in 0 .. size - 1 |->
                       IF a < Len(img.data) THEN img.data[a + 1] ELSE 0]
       /\ R' = [r \in ScalarRegs |->
                  IF r \in {kRegSP, kRegFP} THEN Wrap(size) ELSE 0]
  /\ V' = [r \in VectorRegs |-> [i \in VectorCells |-> 0]]
  /\ M' = [r \in MatrixRegs |-> ZeroTile]
  /\ scratchpad' = [a \in 0 .. ScratchpadWords - 1 |-> 0]
  /\ pc' = 0 /\ halted' = FALSE /\ prints' = <<>> /\ frames' = <<>>
  /\ phase' = "loaded"
  /\ UNCHANGED <<errors, executed, result, counters, trace, pairing>>

Load == \E img \in Images : LoadImage(img)

\* Mutant: run() without errors_.clear().
StartRunKeepsErrors ==
  /\ BeginRun
  /\ executed' = 0
  /\ UNCHANGED <<code, files, spaces, pc, halted, errors, prints, frames>>

StartRun ==
  /\ BeginRun
  /\ errors' = <<>> /\ executed' = 0
  /\ UNCHANGED <<code, files, spaces, pc, halted, prints, frames>>

\* Mutant: run()'s loop without its check of halted.
LoopIgnoresHalt == pc < Len(code)

\* The condition of run()'s loop.
LoopContinues == ~halted /\ pc < Len(code)

\* Leave run() with a diagnostic, before finalizePerformanceModel.
Fail(what) ==
  /\ errors' = Append(errors, [pc |-> pc, what |-> what])
  /\ phase' = "done" /\ result' = FALSE
  /\ UNCHANGED <<counters, trace, pairing>>

LimitReached ==
  /\ phase = "running" /\ LoopContinues
  /\ executed >= MaxInstructions
  /\ Fail("limit")
  /\ UNCHANGED <<code, files, spaces, pc, halted, executed, prints, frames>>

EndRun ==
  /\ LeaveLoop /\ ~LoopContinues
  /\ UNCHANGED simVars

Finalize ==
  /\ FinalizeIteration
  /\ UNCHANGED simVars

ReturnFromRun ==
  /\ FinalizeEnd(errors = <<>>)
  /\ UNCHANGED simVars

-----------------------------------------------------------------------------
(* One step: a handler either retires its instruction or faults.           *)

Inst == code[pc + 1]

Executing(ops) ==
  /\ phase = "running" /\ LoopContinues
  /\ executed < MaxInstructions
  /\ Inst.op \in ops

isMemoryOp == Inst.op \in MemoryOps

\* step() after a handler returned true; `target` is where it left pc.
RetireAt(target, bytesMoved) ==
  /\ executed' = executed + 1
  /\ recordPerfInstruction(Inst.op, isMemoryOp /\ Inst.src1.scratchpad, bytesMoved)
  /\ pc' = target
  /\ UNCHANGED <<code, errors, phase, result, pairing>>

Retire == RetireAt(pc + 1, 0) /\ UNCHANGED halted

\* Mutant: run() breaks out of its loop on a fault instead of returning.
FaultThenFinalize ==
  /\ errors' = Append(errors, [pc |-> pc, what |-> "fault"])
  /\ phase' = "finalizing" /\ finI' = 1 /\ finTotal' = 0
  /\ executed' = executed + 1 /\ halted' = TRUE
  /\ UNCHANGED <<code, pc, result, counters, trace, overlapAwareCycles>>

\* runtimeError() and step() returning false to run().
Fault ==
  /\ Fail("fault")
  /\ executed' = executed + 1 /\ halted' = TRUE
  /\ UNCHANGED <<code, pc>>

\* checkRegister()
IsReg(o, cls) == o.kind = "Register" /\ o.cls = cls

-----------------------------------------------------------------------------
(* Handlers that touch registers only.                                     *)

Nop ==
  /\ Executing({"NOP"})
  /\ Retire
  /\ UNCHANGED <<files, spaces, prints, frames>>

\* HALT leaves step() before it is counted or recorded.
Halt ==
  /\ Executing({"HALT"})
  /\ halted' = TRUE
  /\ UNCHANGED <<perfVars, code, files, spaces, pc, errors, executed, prints, frames>>

arith(op, a, b) ==
  Wrap(CASE op = "ADD" -> a + b [] op = "SUB" -> a - b [] op = "MUL" -> a * b)

ScalarArith ==
  /\ Executing(ScalarArithOps)
  /\ LET d == Inst.dst  a == Inst.src1  b == Inst.src2
         legal == /\ IsReg(d, "Scalar") /\ IsReg(a, "Scalar")
                  /\ IsReg(b, "Scalar") \/ b.kind = "Immediate"
         rhs == IF b.kind = "Immediate" THEN Wrap(b.imm) ELSE R[b.idx]
     IN \/ /\ legal
           /\ R' = [R EXCEPT ![d.idx] = arith(Inst.op, R[a.idx], rhs)]
           /\ Retire
        \/ ~legal /\ Fault /\ UNCHANGED R
  /\ UNCHANGED <<V, M, spaces, prints, frames>>

Vector ==
  /\ Executing(VectorOps)
  /\ LET d == Inst.dst  a == Inst.src1  b == Inst.src2
         legal == IsReg(d, "Vector") /\ IsReg(a, "Vector") /\ IsReg(b, "Vector")
     IN \/ /\ legal
           /\ V' = [V EXCEPT ![d.idx] = [i \in VectorCells |->
                      Saturate(IF Inst.op = "VADD"
                               THEN V[a.idx][i] + V[b.idx][i]
                               ELSE V[a.idx][i] * V[b.idx][i])]]
           /\ Retire
        \/ ~legal /\ Fault /\ UNCHANGED V
  /\ UNCHANGED <<R, M, spaces, prints, frames>>

Row(i) == i \div kTileDim
Col(i) == i % kTileDim
Cell(row, col) == row * kTileDim + col

\* The accumulation over k for cell i of a product.
dot(a, b, i) ==
  LET sum[k \in 0 .. kTileDim] ==
        IF k = 0 THEN 0
        ELSE sum[k - 1] + a[Cell(Row(i), k - 1)] * b[Cell(k - 1, Col(i))]
  IN sum[kTileDim]

matmulProduct(a, b) == [i \in TileCells |-> Saturate(dot(a, b, i))]

relu(x) == IF x > 0 THEN x ELSE 0

\* What execMatrix leaves in the destination tile d, from sources a and b.
matrixResult(op, d, a, b) ==
  CASE op = "MATMUL"     -> matmulProduct(a, b)
    [] op = "MATMULACC"  -> [i \in TileCells |-> Saturate(d[i] + matmulProduct(a, b)[i])]
    [] op = "MATMULRELU" -> [i \in TileCells |-> relu(matmulProduct(a, b)[i])]
    [] op = "TRANSPOSE"  -> [i \in TileCells |-> a[Cell(Col(i), Row(i))]]
    [] op = "RELU"       -> [i \in TileCells |-> relu(a[i])]

Matrix ==
  /\ Executing(MatrixOps)
  /\ LET d == Inst.dst  a == Inst.src1
         binary == Inst.op \in MatMulFamily
         b == IF binary THEN Inst.src2 ELSE a
         legal == IsReg(d, "Matrix") /\ IsReg(a, "Matrix") /\ IsReg(b, "Matrix")
     IN \/ /\ legal
           /\ M' = [M EXCEPT ![d.idx] =
                      matrixResult(Inst.op, M[d.idx], M[a.idx], M[b.idx])]
           /\ Retire
        \/ ~legal /\ Fault /\ UNCHANGED M
  /\ UNCHANGED <<R, V, spaces, prints, frames>>

\* bits & 0xFFFF0000
roundToBF16(bits) == Wrap(bits - (bits % BF16Unit))

Convert ==
  /\ Executing(ConvertOps)
  /\ LET d == Inst.dst  a == Inst.src1
         legal == IsReg(d, "Scalar") /\ IsReg(a, "Scalar")
     IN \/ /\ legal
           /\ R' = [R EXCEPT ![d.idx] = IF Inst.op = "CVT_F32_BF16"
                                        THEN roundToBF16(R[a.idx])
                                        ELSE R[a.idx]]
           /\ Retire
        \/ ~legal /\ Fault /\ UNCHANGED R
  /\ UNCHANGED <<V, M, spaces, prints, frames>>

\* The float-to-int conversion of a sum out of range is undefined: x86
\* yields the least integer, other targets saturate.
TruncatedToInt(x) == IF x \in Word THEN {x} ELSE {Saturate(x), -HalfWord}

VectorReduce ==
  /\ Executing({"VREDSUM"})
  /\ LET d == Inst.dst  a == Inst.src1
         legal == IsReg(d, "Scalar") /\ IsReg(a, "Vector")
     IN \/ /\ legal
           /\ \E n \in TruncatedToInt(SumFunction(V[a.idx])) :
                R' = [R EXCEPT ![d.idx] = n]
           /\ Retire
        \/ ~legal /\ Fault /\ UNCHANGED R
  /\ UNCHANGED <<V, M, spaces, prints, frames>>

RowMax(tile, row) ==
  LET cells == {tile[Cell(row, col)] : col \in VectorCells}
  IN CHOOSE x \in cells : \A y \in cells : y <= x

RowReduce ==
  /\ Executing({"MROWMAX", "MROWSUM"})
  /\ LET d == Inst.dst  a == Inst.src1
         legal == IsReg(d, "Vector") /\ IsReg(a, "Matrix")
     IN \/ /\ legal
           /\ V' = [V EXCEPT ![d.idx] = [row \in VectorCells |->
                      Saturate(IF Inst.op = "MROWMAX"
                               THEN RowMax(M[a.idx], row)
                               ELSE SumFunction([k \in VectorCells |->
                                                  M[a.idx][Cell(row, k)]]))]]
           /\ Retire
        \/ ~legal /\ Fault /\ UNCHANGED V
  /\ UNCHANGED <<R, M, spaces, prints, frames>>

-----------------------------------------------------------------------------
(* Memory.  readWord, writeWord, readFloats and writeFloats move the cells *)
(* of a register as `rows` of RowLen cells, each row checked on its own.   *)

Array(scratch)  == IF scratch THEN scratchpad ELSE memory
SizeOf(scratch) == IF scratch THEN ScratchpadWords ELSE dramWords

\* address + n > size in size_t: an address below zero is a huge one, and
\* the sum wraps round to a small number again when n reaches zero.
Fits(address, n, size) == address + n \in 0 .. size

CellsOf(cls) == CASE cls = "Scalar" -> {0}
                  [] cls = "Vector" -> VectorCells
                  [] cls = "Matrix" -> TileCells

\* The shape of the transfer a LOAD or STORE instruction makes.
Address(i)  == R[i.src1.idx] + i.src1.imm
Strided(i)  == i.dst.cls = "Matrix" /\ i.src1.stride # 0
RowLen(i)   == CASE i.dst.cls = "Scalar" -> 1
                 [] i.dst.cls = "Vector" \/ Strided(i) -> kTileDim
                 [] OTHER -> kTileElems
RowsOf(i)   == IF Strided(i) THEN VectorCells ELSE {0}
RowAddr(i, row) == Address(i) + row * i.src1.stride
CellRow(i, c)   == c \div RowLen(i)
CellAddr(i, c)  == RowAddr(i, CellRow(i, c)) + (c % RowLen(i))

\* The rows transferred before the first one that fails its check.
RowsDone(i) ==
  {row \in RowsOf(i) :
     \A q \in 0 .. row : Fits(RowAddr(i, q), RowLen(i), SizeOf(i.src1.scratchpad))}

IsTransfer(i) == i.src1.kind = "Memory" /\ i.dst.cls # "None"

\* The register's cells after reading: old ones where no row was read.
CellsRead(i, old, wild) ==
  LET arr == Array(i.src1.scratchpad) IN
    [c \in CellsOf(i.dst.cls) |->
       IF CellRow(i, c) \notin RowsDone(i) THEN old[c]
       ELSE IF CellAddr(i, c) \in DOMAIN arr THEN arr[CellAddr(i, c)]
       ELSE wild[c]]

\* Mutant: writeFloats ignores the stride of a tile.
WritersContiguous(i, a) ==
  {c \in CellsOf(i.dst.cls) : CellRow(i, c) \in RowsDone(i) /\ Address(i) + c = a}

\* The array after writing: where rows overlap the later one wins.
Writers(i, a) ==
  {c \in CellsOf(i.dst.cls) : CellRow(i, c) \in RowsDone(i) /\ CellAddr(i, c) = a}
IsLast(c, S) == c \in S /\ \A d \in S : d <= c

ArrayWritten(i, cells) ==
  LET arr == Array(i.src1.scratchpad) IN
    [a \in DOMAIN arr |->
       IF \E c \in Writers(i, a) : IsLast(c, Writers(i, a))
       THEN cells[CHOOSE c \in Writers(i, a) : IsLast(c, Writers(i, a))]
       ELSE arr[a]]

RegisterCells(i) == CASE i.dst.cls = "Scalar" -> [c \in {0} |-> R[i.dst.idx]]
                      [] i.dst.cls = "Vector" -> V[i.dst.idx]
                      [] i.dst.cls = "Matrix" -> M[i.dst.idx]

TransferWidth(i) == kWordBytes * (CASE i.dst.cls = "Scalar" -> 1
                                    [] i.dst.cls = "Vector" -> kTileDim
                                    [] i.dst.cls = "Matrix" -> kTileElems)

\* A transfer some row of which fails its check has still moved the rows
\* before that one.
FinishTransfer ==
  \/ /\ RowsDone(Inst) = RowsOf(Inst)
     /\ RetireAt(pc + 1, TransferWidth(Inst)) /\ UNCHANGED halted
  \/ RowsDone(Inst) # RowsOf(Inst) /\ Fault

ExecLoad ==
  /\ Executing({"LOAD"})
  /\ \/ /\ IsTransfer(Inst)
        /\ \E wild \in [CellsOf(Inst.dst.cls) -> Wild] :
             LET cells == CellsRead(Inst, RegisterCells(Inst), wild) IN
               \/ /\ Inst.dst.cls = "Scalar"
                  /\ R' = [R EXCEPT ![Inst.dst.idx] = cells[0]]
                  /\ UNCHANGED <<V, M>>
               \/ /\ Inst.dst.cls = "Vector"
                  /\ V' = [V EXCEPT ![Inst.dst.idx] = cells]
                  /\ UNCHANGED <<R, M>>
               \/ /\ Inst.dst.cls = "Matrix"
                  /\ M' = [M EXCEPT ![Inst.dst.idx] = cells]
                  /\ UNCHANGED <<R, V>>
        /\ FinishTransfer
     \/ ~IsTransfer(Inst) /\ Fault /\ UNCHANGED files
  /\ UNCHANGED <<spaces, prints, frames>>

ExecStore ==
  /\ Executing({"STORE"})
  /\ \/ /\ IsTransfer(Inst)
        /\ LET written == ArrayWritten(Inst, RegisterCells(Inst)) IN
             \/ /\ Inst.src1.scratchpad
                /\ scratchpad' = written /\ UNCHANGED memory
             \/ /\ ~Inst.src1.scratchpad
                /\ memory' = written /\ UNCHANGED scratchpad
        /\ FinishTransfer
     \/ ~IsTransfer(Inst) /\ Fault /\ UNCHANGED <<memory, scratchpad>>
  /\ UNCHANGED <<files, dramWords, prints, frames>>

-----------------------------------------------------------------------------
(* Control flow.  A label is in imm whatever the operand's kind, which BR  *)
(* and CALL do not check.                                                  *)

\* Mutant: targets are only checked to be non-negative.
InCodeOrPast(n) == n >= 0

\* static_cast<size_t>(n) < code_.size()
InCode(n) == n \in 0 .. Len(code) - 1

Jump(target) == RetireAt(target, 0) /\ UNCHANGED halted

Br ==
  /\ Executing({"BR"})
  /\ \/ InCode(Inst.dst.imm) /\ Jump(Inst.dst.imm)
     \/ ~InCode(Inst.dst.imm) /\ Fault
  /\ UNCHANGED <<files, spaces, prints, frames>>

CondBranch ==
  /\ Executing({"BEQ", "BNE"})
  /\ LET a == Inst.dst  b == Inst.src1  target == Inst.src2.imm
         legal == IsReg(a, "Scalar") /\ IsReg(b, "Scalar")
         take == (Inst.op = "BEQ") <=> (R[a.idx] = R[b.idx])
     IN \/ legal /\ ~take /\ Retire
        \/ legal /\ take /\ InCode(target) /\ Jump(target)
        \/ (legal => take /\ ~InCode(target)) /\ Fault
  /\ UNCHANGED <<files, spaces, prints, frames>>

Jmp ==
  /\ Executing({"JMP"})
  /\ LET a == Inst.dst
         legal == IsReg(a, "Scalar") /\ InCode(R[a.idx])
     IN \/ legal /\ Jump(R[a.idx])
        \/ ~legal /\ Fault
  /\ UNCHANGED <<files, spaces, prints, frames>>

\* Mutant: CALL sets RA before it checks its target.
CallSavesFirst ==
  /\ Executing({"CALL"})
  /\ Inst.dst.imm >= 0
  /\ R' = [R EXCEPT ![kRegRA] = Wrap(pc + 1)]
  /\ \/ /\ InCode(Inst.dst.imm)
        /\ frames' = Append(frames, pc + 1)
        /\ Jump(Inst.dst.imm)
     \/ ~InCode(Inst.dst.imm) /\ Fault /\ UNCHANGED frames
  /\ UNCHANGED <<V, M, spaces, prints>>

\* Mutant: the return address is the CALL itself.
CallReturnsToItself ==
  /\ Executing({"CALL"})
  /\ Inst.dst.imm >= 0
  /\ InCode(Inst.dst.imm)
  /\ R' = [R EXCEPT ![kRegRA] = Wrap(pc)]
  /\ frames' = Append(frames, pc + 1)
  /\ Jump(Inst.dst.imm)
  /\ UNCHANGED <<V, M, spaces, prints>>

Call ==
  /\ Executing({"CALL"})
  /\ Inst.dst.imm >= 0
  /\ \/ /\ InCode(Inst.dst.imm)
        /\ R' = [R EXCEPT ![kRegRA] = Wrap(pc + 1)]
        /\ frames' = Append(frames, pc + 1)
        /\ Jump(Inst.dst.imm)
     \/ ~InCode(Inst.dst.imm) /\ Fault /\ UNCHANGED <<R, frames>>
  /\ UNCHANGED <<V, M, spaces, prints>>

\* A RET whose target is no instruction after the first halts the machine.
Ret ==
  /\ Executing({"RET"})
  /\ \/ /\ R[kRegRA] > 0 /\ InCode(R[kRegRA])
        /\ Jump(R[kRegRA])
     \/ /\ ~(R[kRegRA] > 0 /\ InCode(R[kRegRA]))
        /\ RetireAt(pc, 0) /\ halted' = TRUE
  /\ frames' = IF frames = <<>> THEN <<>> ELSE Front(frames)
  /\ UNCHANGED <<files, spaces, prints>>

-----------------------------------------------------------------------------
(* Runtime calls.  Arguments sit in R1..R6, strides count words, and a     *)
(* batch of matrices is stored with its rows padded to whole tiles.        *)

padded(n) == ((n + kTileDim - 1) \div kTileDim) * kTileDim

inBounds(addr, words) == addr >= 0 /\ words >= 0 /\ addr + words <= dramWords

RuntimeId(id) == Inst.dst.imm = -1 - id

RetireRuntime(cycles, dramBytes) ==
  /\ executed' = executed + 1
  /\ recordRuntimeCall(cycles, dramBytes)
  /\ pc' = pc + 1
  /\ UNCHANGED <<code, halted, errors, phase, result, pairing>>

PrintLegal ==
  /\ R[2] >= 1 /\ R[3] >= 1 /\ R[4] >= 1
  /\ inBounds(R[1], R[2] * padded(R[3]) * R[5])

\* Mutant: mdt_print steps over batches by their unpadded rows.
PrintAddrUnpadded(k) ==
  LET perMatrix == R[3] * R[4]
  IN R[1] + (k \div perMatrix) * R[3] * R[5]
          + ((k % perMatrix) \div R[4]) * R[5] + (k % R[4])

\* Where value k of a batch x rows x cols print lies.
PrintAddr(k) ==
  LET perMatrix == R[3] * R[4]
  IN R[1] + (k \div perMatrix) * padded(R[3]) * R[5]
          + ((k % perMatrix) \div R[4]) * R[5] + (k % R[4])

RuntimePrint ==
  /\ Executing({"CALL"}) /\ RuntimeId(0)
  /\ \/ /\ PrintLegal
        /\ \E wild \in Wild :
             prints' = Append(prints,
               [id |-> R[6], batch |-> R[2], rows |-> R[3], cols |-> R[4],
                values |-> [k \in 1 .. R[2] * R[3] * R[4] |->
                  IF PrintAddr(k - 1) \in DOMAIN memory
                  THEN memory[PrintAddr(k - 1)] ELSE wild]])
        /\ RetireRuntime(0, 0)
     \/ ~PrintLegal /\ Fault /\ UNCHANGED prints
  /\ UNCHANGED <<files, spaces, frames>>

SoftmaxWords == R[3] * padded(R[4]) * R[6]

SoftmaxLegal ==
  /\ R[3] >= 1 /\ R[4] >= 1 /\ R[5] >= 1 /\ R[6] >= R[5]
  /\ inBounds(R[1], SoftmaxWords) /\ inBounds(R[2], SoftmaxWords)

\* Mutant: mdt_softmax writes the padding rows like real ones.
SoftmaxLiveInAllRows(k) == k % R[6] < R[5]

\* Word k of the destination is live when it is in a real row and column;
\* exp(x)/sum is abstracted to 1, and everything else is written as zero.
SoftmaxLive(k) == (k \div R[6]) % padded(R[4]) < R[4] /\ k % R[6] < R[5]

RuntimeSoftmax ==
  /\ Executing({"CALL"}) /\ RuntimeId(1)
  /\ LET elems == R[3] * R[4] * R[5] IN
       \/ /\ SoftmaxLegal
          /\ memory' = [a \in DOMAIN memory |->
                          IF a - R[2] \in 0 .. SoftmaxWords - 1
                          THEN IF SoftmaxLive(a - R[2]) THEN 1 ELSE 0
                          ELSE memory[a]]
          /\ RetireRuntime(elems * kSoftmaxCyclesPerElement, elems * 8)
       \/ ~SoftmaxLegal /\ Fault /\ UNCHANGED memory
  /\ UNCHANGED <<files, scratchpad, dramWords, prints, frames>>

UnknownRuntime ==
  /\ Executing({"CALL"})
  /\ Inst.dst.imm < 0 /\ ~RuntimeId(0) /\ ~RuntimeId(1)
  /\ Fault
  /\ UNCHANGED <<files, spaces, prints, frames>>

-----------------------------------------------------------------------------
Step ==
  \/ Nop \/ Halt \/ ScalarArith \/ Vector \/ Matrix \/ Convert
  \/ VectorReduce \/ RowReduce \/ ExecLoad \/ ExecStore
  \/ Br \/ CondBranch \/ Jmp \/ Call \/ Ret
  \/ RuntimePrint \/ RuntimeSoftmax \/ UnknownRuntime

Run == StartRun \/ Step \/ LimitReached \/ EndRun \/ Finalize \/ ReturnFromRun

Next == Load \/ Run

Spec == Init /\ [][Next]_vars

\* run() is a plain loop: once entered nothing else runs until it returns,
\* and every caller that loads a program runs it.
FairSpec == Spec /\ WF_vars(Run)

-----------------------------------------------------------------------------
(* Properties.                                                             *)

SimTypeOK ==
  /\ PerfTypeOK
  /\ \A i \in 1 .. Len(code) : WellFormedInstruction(code[i])
  /\ code \in Seq(Instruction)
  /\ R \in [ScalarRegs -> Word]
  /\ V \in [VectorRegs -> [VectorCells -> Word]]
  /\ M \in [MatrixRegs -> [TileCells -> Word]]
  /\ dramWords \in Nat /\ memory \in [0 .. dramWords - 1 -> Word]
  /\ scratchpad \in [0 .. ScratchpadWords - 1 -> Word]
  /\ pc \in 0 .. Len(code) /\ halted \in BOOLEAN
  /\ errors \in Seq(RuntimeError) /\ executed \in Nat
  /\ prints \in Seq(PrintRecord) /\ frames \in Seq(Nat)

(* How run() can end.  Exactly one of: it succeeds, with no diagnostic and *)
(* every executed instruction in the performance model; an instruction     *)
(* faults, which stops the machine with one diagnostic at that instruction *)
(* and counts it as executed but not as performed; the limit is reached,   *)
(* with one diagnostic and the machine not halted.  run()'s result, errors_*)
(* pc, executed_, halted and perf_ are set in five different functions.    *)
RunOutcome ==
  /\ phase \in {"running", "finalizing"} =>
       errors = <<>> /\ executed = instructionCount /\ executed <= MaxInstructions
  /\ phase = "finalizing" => ~LoopContinues
  /\ phase = "done" =>
       \/ /\ result /\ errors = <<>>
          /\ ~LoopContinues /\ executed = instructionCount
       \/ /\ ~result /\ errors = <<[pc |-> pc, what |-> "fault"]>>
          /\ halted /\ executed = instructionCount + 1
       \/ /\ ~result /\ errors = <<[pc |-> pc, what |-> "limit"]>>
          /\ LoopContinues
          /\ executed = MaxInstructions /\ instructionCount = MaxInstructions

(* The performance model sees nothing of the machine but what it records:  *)
(* every behaviour of the simulator is one of MDTPerf's.                   *)
RecordsLikePerfModel == PerfSpec

(* An instruction that faults leaves no trace beyond its diagnostic: every *)
(* handler checks all its operands before it writes anything, and nothing  *)
(* is recorded for it.  The exception is a strided tile transfer, which    *)
(* has moved the rows before the failing one.                              *)
Faulting == phase = "running" /\ errors' # errors

FaultsLeaveNoTrace ==
  [][Faulting =>
       /\ UNCHANGED <<R, V, pc, prints, frames, counters, trace, overlapAwareCycles>>
       /\ M' # M => Inst.op = "LOAD" /\ Strided(Inst)
       /\ spaces' # spaces => Inst.op = "STORE" /\ Strided(Inst)]_vars

Retiring(op) == /\ phase = "running" /\ LoopContinues /\ Inst.op = op
                /\ executed' > executed /\ errors' = errors

(* What a STORE of any width wrote, a LOAD of the same operand reads back: *)
(* readWord/readFloats and writeWord/writeFloats agree on where each cell  *)
(* lives, and no row of a strided tile overwrites an earlier one.  Tiles   *)
(* whose stride is shorter than a row overlap by construction.             *)
RowsApart(i) == Strided(i) => i.src1.stride >= kTileDim \/ i.src1.stride <= -kTileDim

StoresAreReadBack ==
  [][Retiring("STORE") =>
       \A i \in {Inst} :
         RowsApart(i) =>
           CellsRead(i, RegisterCells(i), RegisterCells(i))' = RegisterCells(i)]_vars

(* In a program that saves RA around nested calls every RET goes back to   *)
(* the instruction after its own CALL, whatever was called in between, and *)
(* the RET of the top-level routine ends the program (MDTSim.cpp:346-347). *)
ReturnsMatchCalls ==
  [][Retiring("RET") =>
       IF frames = <<>> THEN halted'
       ELSE pc' = Last(frames) \/ (halted' /\ Last(frames) >= Len(code))]_vars

(* mdt_softmax zeroes the padding of its destination, rows and columns, in *)
(* every matrix of the batch: the invariant MDTCodeGen.h:10-14 relies on.  *)
SoftmaxRan == Retiring("CALL") /\ RuntimeId(1)

SoftmaxZeroesPadding ==
  [][SoftmaxRan =>
       \A b \in 0 .. R[3] - 1, i \in 0 .. padded(R[4]) - 1, j \in 0 .. R[6] - 1 :
         (i >= R[4] \/ j >= R[5]) =>
           memory'[R[2] + (b * padded(R[4]) + i) * R[6] + j] = 0]_vars

(* What mdt_softmax wrote, mdt_print of the same buffer and shape shows,   *)
(* cell for cell and without a word of padding: the two address            *)
(* computations of execRuntimeCall agree.  For programs whose every print  *)
(* is of a softmax result.                                                 *)
PrintsShowSoftmax ==
  \A n \in 1 .. Len(prints) :
    \A k \in 1 .. Len(prints[n].values) : prints[n].values[k] = 1

(* run() returns, whatever program was loaded: every step either counts    *)
(* towards the instruction limit or leaves the loop.                       *)
Termination == phase = "loaded" ~> phase = "done"

(* MDTSim.cpp:73-75: "Every access is bounds-checked.  An out-of-range     *)
(* access becomes a diagnostic rather than undefined behaviour".           *)
OutOfRange(i) ==
  \E c \in CellsOf(i.dst.cls) : CellAddr(i, c) \notin DOMAIN Array(i.src1.scratchpad)

OutOfRangeIsDiagnosed ==
  [][Retiring("LOAD") \/ Retiring("STORE") => ~OutOfRange(Inst)]_vars
=============================================================================
