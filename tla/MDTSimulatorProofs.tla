------------------------- MODULE MDTSimulatorProofs -------------------------
(* The simulator, for every program, memory size, word width, tile size    *)
(* and instruction limit: how run() ends, the types of its state, its      *)
(* refinement of the performance model, and what a step may and may not    *)
(* do: a fault leaves no trace, a load reads back what a store of the same *)
(* operand wrote, and mdt_softmax zeroes the padding of its destination.   *)
EXTENDS MDTSimulator, MDTPerfProofs

(* RunOutcome with the types its arithmetic needs.                         *)
OutcomeInv ==
  /\ executed \in Nat /\ instructionCount \in Nat
  /\ RunOutcome

-----------------------------------------------------------------------------
(* The three things a step does as far as the outcome of run() goes.       *)

Counts ==
  /\ phase = "running" /\ executed < MaxInstructions
  /\ executed' = executed + 1
  /\ instructionCount' = instructionCount + 1
  /\ UNCHANGED <<phase, result, errors>>

Faults == phase = "running" /\ executed < MaxInstructions /\ Fault

Halts == UNCHANGED <<perfVars, errors, executed, pc>> /\ phase = "running"

(* What the two ways of retiring and the runtime's own have in common.     *)
LEMMA RetireCounts ==
  ASSUME phase = "running", executed < MaxInstructions,
         \/ \E target, bytes : RetireAt(target, bytes)
         \/ Retire
         \/ \E target : Jump(target)
         \/ \E cycles, bytes : RetireRuntime(cycles, bytes)
  PROVE  Counts
BY DEF RetireAt, Retire, Jump, RetireRuntime, recordPerfInstruction,
       recordRuntimeCall, Counts

(* Every handler either counts its instruction, faults or halts.           *)
LEMMA StepShape ==
  ASSUME Step
  PROVE  Counts \/ Faults \/ Halts
<1>1. CASE Nop
  BY <1>1, RetireCounts DEF Nop, Executing
<1>2. CASE Halt
  BY <1>2 DEF Halt, Halts, Executing
<1>3. CASE ScalarArith
  BY <1>3, RetireCounts DEF ScalarArith, Executing, Faults
<1>4. CASE Vector
  BY <1>4, RetireCounts DEF Vector, Executing, Faults
<1>5. CASE Matrix
  BY <1>5, RetireCounts DEF Matrix, Executing, Faults
<1>6. CASE Convert
  BY <1>6, RetireCounts DEF Convert, Executing, Faults
<1>7. CASE VectorReduce
  BY <1>7, RetireCounts DEF VectorReduce, Executing, Faults
<1>8. CASE RowReduce
  BY <1>8, RetireCounts DEF RowReduce, Executing, Faults
<1>9. CASE ExecLoad
  BY <1>9, RetireCounts DEF ExecLoad, FinishTransfer, Executing, Faults
<1>10. CASE ExecStore
  BY <1>10, RetireCounts DEF ExecStore, FinishTransfer, Executing, Faults
<1>11. CASE Br
  BY <1>11, RetireCounts DEF Br, Executing, Faults
<1>12. CASE CondBranch
  BY <1>12, RetireCounts DEF CondBranch, Executing, Faults
<1>13. CASE Jmp
  BY <1>13, RetireCounts DEF Jmp, Executing, Faults
<1>14. CASE Call
  BY <1>14, RetireCounts DEF Call, Executing, Faults
<1>15. CASE Ret
  BY <1>15, RetireCounts DEF Ret, Executing, Faults
<1>16. CASE RuntimePrint
  BY <1>16, RetireCounts DEF RuntimePrint, Executing, Faults
<1>17. CASE RuntimeSoftmax
  BY <1>17, RetireCounts DEF RuntimeSoftmax, Executing, Faults
<1>18. CASE UnknownRuntime
  BY <1>18 DEF UnknownRuntime, Executing, Faults
<1> QED BY <1>1, <1>2, <1>3, <1>4, <1>5, <1>6, <1>7, <1>8, <1>9, <1>10, <1>11,
           <1>12, <1>13, <1>14, <1>15, <1>16, <1>17, <1>18 DEF Step

-----------------------------------------------------------------------------
(* The invariant holds initially.                                          *)
LEMMA OutcomeInit ==
  ASSUME Init
  PROVE  OutcomeInv
BY DEF Init, PerfInit, OutcomeInv, RunOutcome

(* Every step preserves it: an instruction through the three shapes above, *)
(* the frame of run() action by action.                                    *)
LEMMA OutcomeNext ==
  ASSUME OutcomeInv, [Next]_vars
  PROVE  OutcomeInv'
<1> USE PerfAssumption DEF PerfAssumption
<1>1. CASE Load
  BY <1>1 DEF Load, LoadImage, OutcomeInv, RunOutcome, counters
<1>2. CASE StartRun
  BY <1>2 DEF StartRun, BeginRun, clearPerf, OutcomeInv, RunOutcome
<1>3. CASE Step
  <2>1. CASE Counts
    BY <2>1 DEF Counts, OutcomeInv, RunOutcome
  <2>2. CASE Faults
    BY <2>2 DEF Faults, Fault, Fail, OutcomeInv, RunOutcome, counters
  <2>3. CASE Halts
    BY <2>3 DEF Halts, OutcomeInv, RunOutcome, perfVars, counters
  <2> QED BY <1>3, <2>1, <2>2, <2>3, StepShape
<1>4. CASE LimitReached
  BY <1>4 DEF LimitReached, Fail, OutcomeInv, RunOutcome, LoopContinues, counters
<1>5. CASE EndRun
  BY <1>5 DEF EndRun, LeaveLoop, OutcomeInv, RunOutcome, LoopContinues, counters, simVars
<1>6. CASE Finalize
  BY <1>6 DEF Finalize, FinalizeIteration, OutcomeInv, RunOutcome, LoopContinues,
     counters, simVars
<1>7. CASE ReturnFromRun
  BY <1>7 DEF ReturnFromRun, FinalizeEnd, OutcomeInv, RunOutcome, LoopContinues,
     counters, simVars
<1>8. CASE UNCHANGED vars
  BY <1>8 DEF vars, perfVars, simVars, counters, OutcomeInv, RunOutcome, LoopContinues
<1> QED BY <1>1, <1>2, <1>3, <1>4, <1>5, <1>6, <1>7, <1>8 DEF Next, Run

(* For every program, however it ends: run()'s result, its diagnostics, the *)
(* place it stopped at and its two instruction counts agree.               *)
THEOREM RunOutcomeHolds == Spec => []RunOutcome
<1>1. Init => OutcomeInv
  BY OutcomeInit
<1>2. OutcomeInv /\ [Next]_vars => OutcomeInv'
  BY OutcomeNext
<1>3. OutcomeInv => RunOutcome
  BY DEF OutcomeInv
<1> QED BY <1>1, <1>2, <1>3, PTL DEF Spec

-----------------------------------------------------------------------------
(* The types of the machine.                                               *)
FilesOK ==
  /\ R \in [ScalarRegs -> Word]
  /\ V \in [VectorRegs -> [VectorCells -> Word]]
  /\ M \in [MatrixRegs -> [TileCells -> Word]]

SpacesOK ==
  /\ dramWords \in Nat /\ memory \in [0 .. dramWords - 1 -> Word]
  /\ scratchpad \in [0 .. ScratchpadWords - 1 -> Word]

CodeOK ==
  /\ code \in Seq(Instruction)
  /\ \A i \in 1 .. Len(code) : WellFormedInstruction(code[i])

ControlOK ==
  /\ pc \in 0 .. Len(code) /\ halted \in BOOLEAN
  /\ errors \in Seq(RuntimeError) /\ executed \in Nat

HistoryOK == prints \in Seq(PrintRecord) /\ frames \in Seq(Nat)

MachineOK == FilesOK /\ SpacesOK /\ CodeOK /\ ControlOK /\ HistoryOK

-----------------------------------------------------------------------------
(* Arithmetic on words.                                                    *)

(* Wrapping lands in the word, whatever the integer.                       *)
LEMMA WrapType ==
  ASSUME NEW n \in Int
  PROVE  Wrap(n) \in Word
<1> DEFINE w == 2 * HalfWord
<1>1. HalfWord \in Nat \ {0} /\ w \in Nat \ {0}
  BY SimAssumption DEF SimAssumption
<1>2. (n + HalfWord) % w \in 0 .. w - 1
  <2> HIDE DEF w
  <2> QED BY <1>1
<1> QED BY <1>1, <1>2 DEF Wrap, Word

(* So does saturating, whatever is saturated.                              *)
LEMMA SaturateType ==
  ASSUME NEW x
  PROVE  Saturate(x) \in Word
<1>1. HalfWord \in Nat \ {0}
  BY SimAssumption DEF SimAssumption
<1> QED BY <1>1 DEF Saturate, Word

(* The pattern of zero is a word, and so is a rectified word.              *)
LEMMA ReluType ==
  /\ 0 \in Word
  /\ \A x \in Word : relu(x) \in Word
BY SimAssumption DEF SimAssumption, Word, relu

(* A float-to-int conversion yields a word on every target.                *)
LEMMA TruncatedType ==
  ASSUME NEW x
  PROVE  TruncatedToInt(x) \subseteq Word
<1>1. -HalfWord \in Word
  BY SimAssumption DEF SimAssumption, Word
<1> QED BY <1>1, SaturateType DEF TruncatedToInt

(* Keeping the upper part of a word gives a word.                          *)
LEMMA ConvertType ==
  ASSUME NEW x \in Word
  PROVE  roundToBF16(x) \in Word
<1>1. x \in Int /\ BF16Unit \in Nat \ {0}
  BY SimAssumption DEF SimAssumption, Word
<1>2. x - (x % BF16Unit) \in Int
  BY <1>1
<1> QED BY <1>2, WrapType DEF roundToBF16

(* Scalar arithmetic on words wraps into a word.                           *)
LEMMA ArithType ==
  ASSUME NEW op \in ScalarArithOps, NEW a \in Word, NEW b \in Word
  PROVE  arith(op, a, b) \in Word
<1>1. a \in Int /\ b \in Int
  BY SimAssumption DEF SimAssumption, Word
<1>2. a + b \in Int /\ a - b \in Int /\ a * b \in Int
  BY <1>1
<1>3. CASE op = "ADD"
  BY <1>2, <1>3, WrapType DEF arith
<1>4. CASE op = "SUB"
  BY <1>2, <1>4, WrapType DEF arith
<1>5. CASE op = "MUL"
  BY <1>2, <1>5, WrapType DEF arith
<1> QED BY <1>3, <1>4, <1>5 DEF ScalarArithOps

(* The cell of a tile that TRANSPOSE reads is a cell of the tile.          *)
LEMMA TransposedCell ==
  ASSUME NEW i \in TileCells
  PROVE  Cell(Col(i), Row(i)) \in TileCells
<1> DEFINE d == kTileDim
           q == i \div d
           t == i % d
<1>1. d \in Nat \ {0}
  BY SimAssumption DEF SimAssumption
<1>2. i \in Nat /\ i < d * d
  BY <1>1 DEF TileCells, kTileElems
<1>3. q \in Int /\ t \in 0 .. d - 1 /\ i = d * q + t
  <2> HIDE DEF d
  <2> QED BY <1>1, <1>2
<1> HIDE DEF d, q, t
<1>4. q >= 0
  BY <1>1, <1>2, <1>3
<1>5. q < d
  <2> SUFFICES ASSUME q >= d PROVE FALSE
    BY <1>1, <1>3
  <2>1. d * q >= d * d
    BY <1>1, <1>3
  <2> QED BY <1>1, <1>2, <1>3, <2>1
<1>6. t * d <= (d - 1) * d
  BY <1>1, <1>3
<1>7. t * d + q \in 0 .. d * d - 1
  BY <1>1, <1>3, <1>4, <1>5, <1>6
<1> QED BY <1>7 DEF d, q, t, Cell, Col, Row, TileCells, kTileElems
-----------------------------------------------------------------------------
(* Instructions and their outcomes.                                        *)

(* The instruction at pc is one the assembler can have produced.           *)
LEMMA InstOK ==
  ASSUME CodeOK, ControlOK, LoopContinues
  PROVE  Inst \in Instruction /\ WellFormedInstruction(Inst)
<1>1. pc + 1 \in 1 .. Len(code)
  BY DEF CodeOK, ControlOK, LoopContinues
<1> QED BY <1>1 DEF CodeOK, Inst

(* A register operand of a class names a register of that file.            *)
LEMMA RegisterIndex ==
  ASSUME NEW o, WellFormedOperand(o)
  PROVE  /\ IsReg(o, "Scalar") => o.idx \in ScalarRegs
         /\ IsReg(o, "Vector") => o.idx \in VectorRegs
         /\ IsReg(o, "Matrix") => o.idx \in MatrixRegs
BY DEF IsReg, WellFormedOperand

(* Every way an instruction ends leaves the control state typed.           *)
LEMMA OutcomeControl ==
  ASSUME CodeOK, ControlOK, LoopContinues,
         \/ \E bytes : RetireAt(pc + 1, bytes) /\ UNCHANGED halted
         \/ Retire
         \/ \E target : InCode(target) /\ Jump(target)
         \/ \E cycles, bytes : RetireRuntime(cycles, bytes)
         \/ RetireAt(pc, 0) /\ halted' = TRUE
         \/ Fault
  PROVE  CodeOK' /\ ControlOK'
<1>1. code' = code
  BY DEF RetireAt, Retire, Jump, RetireRuntime, Fault
<1>2. executed' = executed + 1
  BY DEF RetireAt, Retire, Jump, RetireRuntime, Fault
<1>3. pc' \in {pc, pc + 1} \/ InCode(pc')
  BY DEF RetireAt, Retire, Jump, RetireRuntime, Fault
<1>4. pc' \in 0 .. Len(code)
  BY <1>3 DEF CodeOK, ControlOK, LoopContinues, InCode
<1>5. halted' \in BOOLEAN
  BY DEF RetireAt, Retire, Jump, RetireRuntime, Fault, ControlOK
<1>6. errors' \in Seq(RuntimeError)
  <2>1. CASE Fault
    <3>1. [pc |-> pc, what |-> "fault"] \in RuntimeError
      BY DEF ControlOK, RuntimeError
    <3> QED BY <2>1, <3>1 DEF Fault, Fail, ControlOK
  <2>2. CASE ~Fault
    BY <2>2 DEF RetireAt, Retire, Jump, RetireRuntime, ControlOK
  <2> QED BY <2>1, <2>2
<1> QED BY <1>1, <1>2, <1>4, <1>5, <1>6 DEF CodeOK, ControlOK

-----------------------------------------------------------------------------
(* The handlers that touch registers only, group by group.                 *)

(* NOP and HALT.                                                           *)
LEMMA NopHaltTypes ==
  ASSUME MachineOK, Nop \/ Halt
  PROVE  MachineOK'
<1>1. UNCHANGED <<files, spaces, prints, frames>>
  BY DEF Nop, Halt
<1>2. FilesOK' /\ SpacesOK' /\ HistoryOK'
  BY <1>1 DEF MachineOK, FilesOK, SpacesOK, HistoryOK, files, spaces
<1>3. CodeOK' /\ ControlOK'
  <2>1. CASE Nop
    BY <2>1, OutcomeControl DEF Nop, Executing, MachineOK
  <2>2. CASE Halt
    BY <2>2 DEF Halt, MachineOK, CodeOK, ControlOK
  <2> QED BY <2>1, <2>2
<1> QED BY <1>2, <1>3 DEF MachineOK

(* Writing a word into a scalar register, as four handlers do.             *)
LEMMA ScalarWrite ==
  ASSUME FilesOK, NEW i \in ScalarRegs, NEW x \in Word,
         R' = [R EXCEPT ![i] = x], UNCHANGED <<V, M>>
  PROVE  FilesOK'
BY DEF FilesOK

(* ADD, SUB, MUL.                                                          *)
LEMMA ScalarArithTypes ==
  ASSUME MachineOK, ScalarArith
  PROVE  MachineOK'
<1> DEFINE d == Inst.dst
           a == Inst.src1
           b == Inst.src2
           rhs == IF b.kind = "Immediate" THEN Wrap(b.imm) ELSE R[b.idx]
           res == arith(Inst.op, R[a.idx], rhs)
           legal == /\ IsReg(d, "Scalar") /\ IsReg(a, "Scalar")
                    /\ IsReg(b, "Scalar") \/ b.kind = "Immediate"
<1>1. LoopContinues /\ Inst.op \in ScalarArithOps
  BY DEF ScalarArith, Executing
<1>2. Inst \in Instruction /\ WellFormedInstruction(Inst)
  BY <1>1, InstOK DEF MachineOK
<1>3. UNCHANGED <<V, M, spaces, prints, frames>>
  BY DEF ScalarArith
<1>4. \/ legal /\ R' = [R EXCEPT ![d.idx] = res] /\ Retire
      \/ Fault /\ UNCHANGED R
  BY DEF ScalarArith
<1>5. CodeOK' /\ ControlOK'
  BY <1>1, <1>4, OutcomeControl DEF MachineOK
<1>6. SpacesOK' /\ HistoryOK'
  BY <1>3 DEF MachineOK, SpacesOK, HistoryOK, spaces
<1>7. FilesOK'
  <2>1. CASE legal /\ R' = [R EXCEPT ![d.idx] = res]
    <3>1. d.idx \in ScalarRegs /\ a.idx \in ScalarRegs
      BY <1>2, <2>1, RegisterIndex DEF WellFormedInstruction
    <3>2. R[a.idx] \in Word
      BY <3>1 DEF MachineOK, FilesOK
    <3>3. rhs \in Word
      <4>1. CASE b.kind = "Immediate"
        <5>1. b.imm \in Int
          BY <1>2 DEF Instruction, Operand
        <5> QED BY <4>1, <5>1, WrapType
      <4>2. CASE b.kind # "Immediate"
        <5>1. b.idx \in ScalarRegs
          BY <1>2, <2>1, <4>2, RegisterIndex DEF WellFormedInstruction
        <5> QED BY <4>2, <5>1 DEF MachineOK, FilesOK
      <4> QED BY <4>1, <4>2
    <3> HIDE DEF rhs
    <3>4. res \in Word
      BY <1>1, <3>2, <3>3, ArithType
    <3> HIDE DEF res
    <3> QED BY <1>3, <2>1, <3>1, <3>4, ScalarWrite DEF MachineOK
  <2>2. CASE UNCHANGED R
    BY <1>3, <2>2 DEF MachineOK, FilesOK
  <2> QED BY <1>4, <2>1, <2>2
<1> QED BY <1>5, <1>6, <1>7 DEF MachineOK

(* CVT.F32.BF16 and CVT.BF16.F32.                                          *)
LEMMA ConvertTypes ==
  ASSUME MachineOK, Convert
  PROVE  MachineOK'
<1> DEFINE d == Inst.dst
           a == Inst.src1
           res == IF Inst.op = "CVT_F32_BF16" THEN roundToBF16(R[a.idx]) ELSE R[a.idx]
           legal == IsReg(d, "Scalar") /\ IsReg(a, "Scalar")
<1>1. LoopContinues
  BY DEF Convert, Executing
<1>2. WellFormedInstruction(Inst)
  BY <1>1, InstOK DEF MachineOK
<1>3. UNCHANGED <<V, M, spaces, prints, frames>>
  BY DEF Convert
<1>4. \/ legal /\ R' = [R EXCEPT ![d.idx] = res] /\ Retire
      \/ Fault /\ UNCHANGED R
  BY DEF Convert
<1>5. CodeOK' /\ ControlOK'
  BY <1>1, <1>4, OutcomeControl DEF MachineOK
<1>6. SpacesOK' /\ HistoryOK'
  BY <1>3 DEF MachineOK, SpacesOK, HistoryOK, spaces
<1>7. FilesOK'
  <2>1. CASE legal /\ R' = [R EXCEPT ![d.idx] = res]
    <3>1. d.idx \in ScalarRegs /\ a.idx \in ScalarRegs
      BY <1>2, <2>1, RegisterIndex DEF WellFormedInstruction
    <3>2. R[a.idx] \in Word
      BY <3>1 DEF MachineOK, FilesOK
    <3>3. res \in Word
      BY <3>2, ConvertType
    <3> HIDE DEF res
    <3> QED BY <1>3, <2>1, <3>1, <3>3, ScalarWrite DEF MachineOK
  <2>2. CASE UNCHANGED R
    BY <1>3, <2>2 DEF MachineOK, FilesOK
  <2> QED BY <1>4, <2>1, <2>2
<1> QED BY <1>5, <1>6, <1>7 DEF MachineOK

(* VREDSUM.                                                                *)
LEMMA VectorReduceTypes ==
  ASSUME MachineOK, VectorReduce
  PROVE  MachineOK'
<1> DEFINE d == Inst.dst
           sums == TruncatedToInt(SumFunction(V[Inst.src1.idx]))
<1>1. LoopContinues
  BY DEF VectorReduce, Executing
<1>2. WellFormedInstruction(Inst)
  BY <1>1, InstOK DEF MachineOK
<1>3. UNCHANGED <<V, M, spaces, prints, frames>>
  BY DEF VectorReduce
<1>4. \/ IsReg(d, "Scalar") /\ (\E n \in sums : R' = [R EXCEPT ![d.idx] = n]) /\ Retire
      \/ Fault /\ UNCHANGED R
  BY DEF VectorReduce
<1>5. CodeOK' /\ ControlOK'
  BY <1>1, <1>4, OutcomeControl DEF MachineOK
<1>6. SpacesOK' /\ HistoryOK'
  BY <1>3 DEF MachineOK, SpacesOK, HistoryOK, spaces
<1>7. FilesOK'
  <2>1. CASE IsReg(d, "Scalar") /\ \E n \in sums : R' = [R EXCEPT ![d.idx] = n]
    <3>1. d.idx \in ScalarRegs
      BY <1>2, <2>1, RegisterIndex DEF WellFormedInstruction
    <3>2. sums \subseteq Word
      BY TruncatedType
    <3> HIDE DEF sums
    <3>3. PICK n \in sums : R' = [R EXCEPT ![d.idx] = n]
      BY <2>1
    <3> QED BY <1>3, <3>1, <3>2, <3>3, ScalarWrite DEF MachineOK
  <2>2. CASE UNCHANGED R
    BY <1>3, <2>2 DEF MachineOK, FilesOK
  <2> QED BY <1>4, <2>1, <2>2
<1> QED BY <1>5, <1>6, <1>7 DEF MachineOK

(* VADD and VMUL.                                                          *)
LEMMA VectorTypes ==
  ASSUME MachineOK, Vector
  PROVE  MachineOK'
<1> DEFINE d == Inst.dst
           lane(i) == IF Inst.op = "VADD"
                      THEN V[Inst.src1.idx][i] + V[Inst.src2.idx][i]
                      ELSE V[Inst.src1.idx][i] * V[Inst.src2.idx][i]
           res == [i \in VectorCells |-> Saturate(lane(i))]
<1>1. LoopContinues
  BY DEF Vector, Executing
<1>2. WellFormedInstruction(Inst)
  BY <1>1, InstOK DEF MachineOK
<1>3. UNCHANGED <<R, M, spaces, prints, frames>>
  BY DEF Vector
<1>4. \/ IsReg(d, "Vector") /\ V' = [V EXCEPT ![d.idx] = res] /\ Retire
      \/ Fault /\ UNCHANGED V
  BY DEF Vector
<1>5. CodeOK' /\ ControlOK'
  BY <1>1, <1>4, OutcomeControl DEF MachineOK
<1>6. SpacesOK' /\ HistoryOK'
  BY <1>3 DEF MachineOK, SpacesOK, HistoryOK, spaces
<1>7. res \in [VectorCells -> Word]
  <2> HIDE DEF lane
  <2> QED BY SaturateType
<1> HIDE DEF res
<1>8. FilesOK'
  <2>1. CASE IsReg(d, "Vector") /\ V' = [V EXCEPT ![d.idx] = res]
    <3>1. d.idx \in VectorRegs
      BY <1>2, <2>1, RegisterIndex DEF WellFormedInstruction
    <3> QED BY <1>3, <1>7, <2>1, <3>1 DEF MachineOK, FilesOK
  <2>2. CASE UNCHANGED V
    BY <1>3, <2>2 DEF MachineOK, FilesOK
  <2> QED BY <1>4, <2>1, <2>2
<1> QED BY <1>5, <1>6, <1>8 DEF MachineOK

(* MROWMAX and MROWSUM.                                                    *)
LEMMA RowReduceTypes ==
  ASSUME MachineOK, RowReduce
  PROVE  MachineOK'
<1> DEFINE d == Inst.dst
           lane(row) == IF Inst.op = "MROWMAX"
                        THEN RowMax(M[Inst.src1.idx], row)
                        ELSE SumFunction([k \in VectorCells |->
                                           M[Inst.src1.idx][Cell(row, k)]])
           res == [row \in VectorCells |-> Saturate(lane(row))]
<1>1. LoopContinues
  BY DEF RowReduce, Executing
<1>2. WellFormedInstruction(Inst)
  BY <1>1, InstOK DEF MachineOK
<1>3. UNCHANGED <<R, M, spaces, prints, frames>>
  BY DEF RowReduce
<1>4. \/ IsReg(d, "Vector") /\ V' = [V EXCEPT ![d.idx] = res] /\ Retire
      \/ Fault /\ UNCHANGED V
  BY DEF RowReduce
<1>5. CodeOK' /\ ControlOK'
  BY <1>1, <1>4, OutcomeControl DEF MachineOK
<1>6. SpacesOK' /\ HistoryOK'
  BY <1>3 DEF MachineOK, SpacesOK, HistoryOK, spaces
<1>7. res \in [VectorCells -> Word]
  <2> HIDE DEF lane
  <2> QED BY SaturateType
<1> HIDE DEF res
<1>8. FilesOK'
  <2>1. CASE IsReg(d, "Vector") /\ V' = [V EXCEPT ![d.idx] = res]
    <3>1. d.idx \in VectorRegs
      BY <1>2, <2>1, RegisterIndex DEF WellFormedInstruction
    <3> QED BY <1>3, <1>7, <2>1, <3>1 DEF MachineOK, FilesOK
  <2>2. CASE UNCHANGED V
    BY <1>3, <2>2 DEF MachineOK, FilesOK
  <2> QED BY <1>4, <2>1, <2>2
<1> QED BY <1>5, <1>6, <1>8 DEF MachineOK

(* The tile a matrix instruction computes.                                 *)
LEMMA MatrixResultType ==
  ASSUME NEW op \in MatrixOps, NEW d \in [TileCells -> Word],
         NEW a \in [TileCells -> Word], NEW b \in [TileCells -> Word]
  PROVE  matrixResult(op, d, a, b) \in [TileCells -> Word]
<1>1. matmulProduct(a, b) \in [TileCells -> Word]
  BY SaturateType DEF matmulProduct
<1>2. CASE op = "MATMUL"
  BY <1>1, <1>2 DEF matrixResult
<1>3. CASE op = "MATMULACC"
  <2>1. matrixResult(op, d, a, b)
          = [i \in TileCells |-> Saturate(d[i] + matmulProduct(a, b)[i])]
    BY <1>3 DEF matrixResult
  <2> QED BY <2>1, SaturateType
<1>4. CASE op = "MATMULRELU"
  <2>1. matrixResult(op, d, a, b) = [i \in TileCells |-> relu(matmulProduct(a, b)[i])]
    BY <1>4 DEF matrixResult
  <2> QED BY <1>1, <2>1, ReluType
<1>5. CASE op = "TRANSPOSE"
  <2>1. matrixResult(op, d, a, b) = [i \in TileCells |-> a[Cell(Col(i), Row(i))]]
    BY <1>5 DEF matrixResult
  <2> QED BY <2>1, TransposedCell
<1>6. CASE op = "RELU"
  <2>1. matrixResult(op, d, a, b) = [i \in TileCells |-> relu(a[i])]
    BY <1>6 DEF matrixResult
  <2> QED BY <2>1, ReluType
<1> QED BY <1>2, <1>3, <1>4, <1>5, <1>6 DEF MatrixOps, MatMulFamily

(* MATMUL and its fused forms, TRANSPOSE and RELU.                         *)
LEMMA MatrixTypes ==
  ASSUME MachineOK, Matrix
  PROVE  MachineOK'
<1> DEFINE d == Inst.dst
           a == Inst.src1
           b == IF Inst.op \in MatMulFamily THEN Inst.src2 ELSE a
           res == matrixResult(Inst.op, M[d.idx], M[a.idx], M[b.idx])
           legal == IsReg(d, "Matrix") /\ IsReg(a, "Matrix") /\ IsReg(b, "Matrix")
<1>1. LoopContinues /\ Inst.op \in MatrixOps
  BY DEF Matrix, Executing
<1>2. WellFormedInstruction(Inst)
  BY <1>1, InstOK DEF MachineOK
<1>3. UNCHANGED <<R, V, spaces, prints, frames>>
  BY DEF Matrix
<1>4. \/ legal /\ M' = [M EXCEPT ![d.idx] = res] /\ Retire
      \/ Fault /\ UNCHANGED M
  BY DEF Matrix
<1>5. CodeOK' /\ ControlOK'
  BY <1>1, <1>4, OutcomeControl DEF MachineOK
<1>6. SpacesOK' /\ HistoryOK'
  BY <1>3 DEF MachineOK, SpacesOK, HistoryOK, spaces
<1>7. FilesOK'
  <2>1. CASE legal /\ M' = [M EXCEPT ![d.idx] = res]
    <3>1. d.idx \in MatrixRegs /\ a.idx \in MatrixRegs /\ b.idx \in MatrixRegs
      BY <1>2, <2>1, RegisterIndex DEF WellFormedInstruction
    <3> HIDE DEF b
    <3>2. /\ M[d.idx] \in [TileCells -> Word] /\ M[a.idx] \in [TileCells -> Word]
          /\ M[b.idx] \in [TileCells -> Word]
      BY <3>1 DEF MachineOK, FilesOK
    <3>3. res \in [TileCells -> Word]
      BY <1>1, <3>2, MatrixResultType
    <3> HIDE DEF res
    <3> QED BY <1>3, <2>1, <3>1, <3>3 DEF MachineOK, FilesOK
  <2>2. CASE UNCHANGED M
    BY <1>3, <2>2 DEF MachineOK, FilesOK
  <2> QED BY <1>4, <2>1, <2>2
<1> QED BY <1>5, <1>6, <1>7 DEF MachineOK

-----------------------------------------------------------------------------
(* Loads and stores.                                                       *)

(* The register a well-formed transfer names holds words, one per cell.    *)
LEMMA RegisterCellsType ==
  ASSUME FilesOK, NEW i, WellFormedInstruction(i), IsTransfer(i)
  PROVE  /\ i.dst.cls \in {"Scalar", "Vector", "Matrix"}
         /\ RegisterCells(i) \in [CellsOf(i.dst.cls) -> Word]
<1>1. i.dst.cls \in {"Scalar", "Vector", "Matrix"}
  BY DEF WellFormedInstruction, WellFormedOperand, Operand, RegClass, IsTransfer
<1>2. CASE i.dst.cls = "Scalar"
  <2>1. CellsOf(i.dst.cls) = {0} /\ RegisterCells(i) = [c \in {0} |-> R[i.dst.idx]]
    BY <1>2 DEF CellsOf, RegisterCells
  <2>2. R[i.dst.idx] \in Word
    BY <1>2 DEF WellFormedInstruction, WellFormedOperand, FilesOK
  <2> QED BY <1>1, <2>1, <2>2
<1>3. CASE i.dst.cls = "Vector"
  <2>1. CellsOf(i.dst.cls) = VectorCells /\ RegisterCells(i) = V[i.dst.idx]
    BY <1>3 DEF CellsOf, RegisterCells
  <2>2. V[i.dst.idx] \in [VectorCells -> Word]
    BY <1>3 DEF WellFormedInstruction, WellFormedOperand, FilesOK
  <2> QED BY <1>1, <2>1, <2>2
<1>4. CASE i.dst.cls = "Matrix"
  <2>1. CellsOf(i.dst.cls) = TileCells /\ RegisterCells(i) = M[i.dst.idx]
    BY <1>4 DEF CellsOf, RegisterCells
  <2>2. M[i.dst.idx] \in [TileCells -> Word]
    BY <1>4 DEF WellFormedInstruction, WellFormedOperand, FilesOK
  <2> QED BY <1>1, <2>1, <2>2
<1> QED BY <1>1, <1>2, <1>3, <1>4

(* Both memories are arrays of words.                                      *)
LEMMA ArrayType ==
  ASSUME SpacesOK, NEW scratch
  PROVE  \A a \in DOMAIN Array(scratch) : Array(scratch)[a] \in Word
<1>1. CASE scratch
  BY <1>1 DEF Array, SpacesOK
<1>2. CASE ~scratch
  BY <1>2 DEF Array, SpacesOK
<1> QED BY <1>1, <1>2

(* A read yields words: the array's, the register's old ones where no row  *)
(* was read, or whatever lies outside the array.                           *)
LEMMA CellsReadType ==
  ASSUME SpacesOK, NEW i, NEW old \in [CellsOf(i.dst.cls) -> Word],
         NEW wild \in [CellsOf(i.dst.cls) -> Wild]
  PROVE  CellsRead(i, old, wild) \in [CellsOf(i.dst.cls) -> Word]
<1> DEFINE arr == Array(i.src1.scratchpad)
           cell(c) == IF CellRow(i, c) \notin RowsDone(i) THEN old[c]
                      ELSE IF CellAddr(i, c) \in DOMAIN arr THEN arr[CellAddr(i, c)]
                      ELSE wild[c]
<1>1. CellsRead(i, old, wild) = [c \in CellsOf(i.dst.cls) |-> cell(c)]
  BY DEF CellsRead
<1>2. \A c \in CellsOf(i.dst.cls) : old[c] \in Word /\ wild[c] \in Word
  BY SimAssumption DEF SimAssumption
<1>3. \A a \in DOMAIN arr : arr[a] \in Word
  BY ArrayType
<1> HIDE DEF arr
<1>4. \A c \in CellsOf(i.dst.cls) : cell(c) \in Word
  BY <1>2, <1>3
<1> HIDE DEF cell
<1> QED BY <1>1, <1>4

(* A write leaves every word of the array a word.                          *)
LEMMA ArrayWrittenType ==
  ASSUME SpacesOK, NEW i, NEW cells \in [CellsOf(i.dst.cls) -> Word]
  PROVE  ArrayWritten(i, cells) \in [DOMAIN Array(i.src1.scratchpad) -> Word]
<1> DEFINE arr == Array(i.src1.scratchpad)
           last(a) == CHOOSE c \in Writers(i, a) : IsLast(c, Writers(i, a))
           isWritten(a) == \E c \in Writers(i, a) : IsLast(c, Writers(i, a))
           word(a) == IF isWritten(a) THEN cells[last(a)] ELSE arr[a]
<1>1. ArrayWritten(i, cells) = [a \in DOMAIN arr |-> word(a)]
  BY DEF ArrayWritten
<1>2. \A a \in DOMAIN arr : arr[a] \in Word
  BY ArrayType
<1>3. \A a : isWritten(a) => last(a) \in CellsOf(i.dst.cls)
  <2>1. \A a : isWritten(a) => last(a) \in Writers(i, a)
    OBVIOUS
  <2>2. \A a : Writers(i, a) \subseteq CellsOf(i.dst.cls)
    BY DEF Writers
  <2> HIDE DEF isWritten, last
  <2> QED BY <2>1, <2>2
<1> HIDE DEF arr, last, isWritten
<1>4. \A a \in DOMAIN arr : word(a) \in Word
  BY <1>2, <1>3
<1> HIDE DEF word
<1> QED BY <1>1, <1>4 DEF arr

(* LOAD in all its widths and modes.                                       *)
LEMMA LoadTypes ==
  ASSUME MachineOK, ExecLoad
  PROVE  MachineOK'
<1>1. LoopContinues
  BY DEF ExecLoad, Executing
<1>2. WellFormedInstruction(Inst)
  BY <1>1, InstOK DEF MachineOK
<1>3. UNCHANGED <<spaces, prints, frames>>
  BY DEF ExecLoad
<1>4. FinishTransfer \/ Fault
  BY DEF ExecLoad
<1>5. CodeOK' /\ ControlOK'
  BY <1>1, <1>4, OutcomeControl DEF FinishTransfer, MachineOK
<1>6. SpacesOK' /\ HistoryOK'
  BY <1>3 DEF MachineOK, SpacesOK, HistoryOK, spaces
<1>7. FilesOK'
  <2>1. CASE UNCHANGED files
    BY <2>1 DEF files, MachineOK, FilesOK
  <2>2. CASE ~UNCHANGED files
    <3>1. IsTransfer(Inst)
      BY <2>2 DEF ExecLoad
    <3>2. PICK wild \in [CellsOf(Inst.dst.cls) -> Wild] :
            LET cells == CellsRead(Inst, RegisterCells(Inst), wild) IN
              \/ /\ Inst.dst.cls = "Scalar"
                 /\ R' = [R EXCEPT ![Inst.dst.idx] = cells[0]]
                 /\ UNCHANGED <<V, M>>
              \/ /\ Inst.dst.cls = "Vector"
                 /\ V' = [V EXCEPT ![Inst.dst.idx] = cells]
                 /\ UNCHANGED <<R, M>>
              \/ /\ Inst.dst.cls = "Matrix"
                 /\ M' = [M EXCEPT ![Inst.dst.idx] = cells]
                 /\ UNCHANGED <<R, V>>
      BY <2>2 DEF ExecLoad
    <3> DEFINE cells == CellsRead(Inst, RegisterCells(Inst), wild)
    <3>3. cells \in [CellsOf(Inst.dst.cls) -> Word]
      BY <1>2, <3>1, RegisterCellsType, CellsReadType DEF MachineOK
    <3> HIDE DEF cells
    <3>4. CASE Inst.dst.cls = "Scalar"
      <4>1. cells[0] \in Word
        BY <3>3, <3>4 DEF CellsOf
      <4>2. Inst.dst.idx \in ScalarRegs
        BY <1>2, <3>4 DEF WellFormedInstruction, WellFormedOperand
      <4>3. R' = [R EXCEPT ![Inst.dst.idx] = cells[0]] /\ UNCHANGED <<V, M>>
        BY <3>2, <3>4 DEF cells
      <4> QED BY <4>1, <4>2, <4>3, ScalarWrite DEF MachineOK
    <3>5. CASE Inst.dst.cls = "Vector"
      <4>1. cells \in [VectorCells -> Word]
        BY <3>3, <3>5 DEF CellsOf
      <4>2. Inst.dst.idx \in VectorRegs
        BY <1>2, <3>5 DEF WellFormedInstruction, WellFormedOperand
      <4>3. V' = [V EXCEPT ![Inst.dst.idx] = cells] /\ UNCHANGED <<R, M>>
        BY <3>2, <3>5 DEF cells
      <4> QED BY <4>1, <4>2, <4>3 DEF MachineOK, FilesOK
    <3>6. CASE Inst.dst.cls = "Matrix"
      <4>1. cells \in [TileCells -> Word]
        BY <3>3, <3>6 DEF CellsOf
      <4>2. Inst.dst.idx \in MatrixRegs
        BY <1>2, <3>6 DEF WellFormedInstruction, WellFormedOperand
      <4>3. M' = [M EXCEPT ![Inst.dst.idx] = cells] /\ UNCHANGED <<R, V>>
        BY <3>2, <3>6 DEF cells
      <4> QED BY <4>1, <4>2, <4>3 DEF MachineOK, FilesOK
    <3> QED BY <1>2, <3>1, <3>4, <3>5, <3>6, RegisterCellsType DEF MachineOK
  <2> QED BY <2>1, <2>2
<1> QED BY <1>5, <1>6, <1>7 DEF MachineOK

(* STORE in all its widths and modes.                                      *)
LEMMA StoreTypes ==
  ASSUME MachineOK, ExecStore
  PROVE  MachineOK'
<1>1. LoopContinues
  BY DEF ExecStore, Executing
<1>2. WellFormedInstruction(Inst)
  BY <1>1, InstOK DEF MachineOK
<1>3. UNCHANGED <<files, dramWords, prints, frames>>
  BY DEF ExecStore
<1>4. FinishTransfer \/ Fault
  BY DEF ExecStore
<1>5. CodeOK' /\ ControlOK'
  BY <1>1, <1>4, OutcomeControl DEF FinishTransfer, MachineOK
<1>6. FilesOK' /\ HistoryOK'
  BY <1>3 DEF MachineOK, FilesOK, HistoryOK, files
<1>7. SpacesOK'
  <2>1. CASE UNCHANGED <<memory, scratchpad>>
    BY <1>3, <2>1 DEF MachineOK, SpacesOK
  <2>2. CASE ~UNCHANGED <<memory, scratchpad>>
    <3> DEFINE after == ArrayWritten(Inst, RegisterCells(Inst))
    <3>1. IsTransfer(Inst)
      BY <2>2 DEF ExecStore
    <3>2. \/ Inst.src1.scratchpad /\ scratchpad' = after /\ UNCHANGED memory
          \/ ~Inst.src1.scratchpad /\ memory' = after /\ UNCHANGED scratchpad
      BY <2>2 DEF ExecStore
    <3>3. after \in [DOMAIN Array(Inst.src1.scratchpad) -> Word]
      BY <1>2, <3>1, RegisterCellsType, ArrayWrittenType DEF MachineOK
    <3> HIDE DEF after
    <3> QED BY <1>3, <3>2, <3>3 DEF Array, MachineOK, SpacesOK
  <2> QED BY <2>1, <2>2
<1> QED BY <1>5, <1>6, <1>7 DEF MachineOK
-----------------------------------------------------------------------------
(* Control flow and runtime calls.                                         *)

(* BR, BEQ, BNE and JMP.                                                   *)
LEMMA BranchTypes ==
  ASSUME MachineOK, Br \/ CondBranch \/ Jmp
  PROVE  MachineOK'
<1>1. UNCHANGED <<files, spaces, prints, frames>>
  BY DEF Br, CondBranch, Jmp
<1>2. FilesOK' /\ SpacesOK' /\ HistoryOK'
  BY <1>1 DEF MachineOK, FilesOK, SpacesOK, HistoryOK, files, spaces
<1>3. LoopContinues
  BY DEF Br, CondBranch, Jmp, Executing
<1>4. Retire \/ Fault \/ \E target : InCode(target) /\ Jump(target)
  BY DEF Br, CondBranch, Jmp
<1>5. CodeOK' /\ ControlOK'
  BY <1>3, <1>4, OutcomeControl DEF MachineOK
<1> QED BY <1>2, <1>5 DEF MachineOK

(* CALL of a routine of the program: RA and one more frame.                *)
LEMMA CallTypes ==
  ASSUME MachineOK, Call
  PROVE  MachineOK'
<1>1. LoopContinues
  BY DEF Call, Executing
<1>2. UNCHANGED <<V, M, spaces, prints>>
  BY DEF Call
<1>3. \/ /\ R' = [R EXCEPT ![kRegRA] = Wrap(pc + 1)]
         /\ frames' = Append(frames, pc + 1)
         /\ InCode(Inst.dst.imm) /\ Jump(Inst.dst.imm)
      \/ Fault /\ UNCHANGED <<R, frames>>
  BY DEF Call
<1>4. CodeOK' /\ ControlOK'
  BY <1>1, <1>3, OutcomeControl DEF MachineOK
<1>5. SpacesOK'
  BY <1>2 DEF MachineOK, SpacesOK, spaces
<1>6. pc + 1 \in Nat /\ kRegRA \in ScalarRegs
  BY DEF MachineOK, ControlOK, CodeOK, kRegRA, ScalarRegs
<1>7. HistoryOK'
  BY <1>2, <1>3, <1>6 DEF MachineOK, HistoryOK
<1>8. FilesOK'
  <2>1. Wrap(pc + 1) \in Word
    BY <1>6, WrapType
  <2>2. CASE R' = [R EXCEPT ![kRegRA] = Wrap(pc + 1)]
    BY <1>2, <1>6, <2>1, <2>2, ScalarWrite DEF MachineOK
  <2>3. CASE UNCHANGED R
    BY <1>2, <2>3 DEF MachineOK, FilesOK
  <2> QED BY <1>3, <2>2, <2>3
<1> QED BY <1>4, <1>5, <1>7, <1>8 DEF MachineOK

(* RET, back to a caller or out of the program.                            *)
LEMMA RetTypes ==
  ASSUME MachineOK, Ret
  PROVE  MachineOK'
<1>1. LoopContinues
  BY DEF Ret, Executing
<1>2. UNCHANGED <<files, spaces, prints>>
  BY DEF Ret
<1>3. \/ \E target : InCode(target) /\ Jump(target)
      \/ RetireAt(pc, 0) /\ halted' = TRUE
  BY DEF Ret
<1>4. CodeOK' /\ ControlOK'
  BY <1>1, <1>3, OutcomeControl DEF MachineOK
<1>5. FilesOK' /\ SpacesOK'
  BY <1>2 DEF MachineOK, FilesOK, SpacesOK, files, spaces
<1>6. frames' \in Seq(Nat)
  <2>1. frames \in Seq(Nat)
    BY DEF MachineOK, HistoryOK
  <2>2. CASE frames = <<>>
    BY <2>2 DEF Ret
  <2>3. CASE frames # <<>>
    <3>1. frames' = SubSeq(frames, 1, Len(frames) - 1)
      BY <2>3 DEF Ret, Front
    <3>2. Len(frames) \in Nat \ {0}
      BY <2>1, <2>3
    <3>3. SubSeq(frames, 1, Len(frames) - 1) \in Seq(Nat)
      BY <2>1, <3>2
    <3> QED BY <3>1, <3>3
  <2> QED BY <2>2, <2>3
<1>7. HistoryOK'
  BY <1>2, <1>6 DEF MachineOK, HistoryOK
<1> QED BY <1>4, <1>5, <1>7 DEF MachineOK

(* mdt_print appends one record of words.                                  *)
LEMMA PrintTypes ==
  ASSUME MachineOK, RuntimePrint
  PROVE  MachineOK'
<1> DEFINE n == R[2] * R[3] * R[4]
           val(k, wild) == IF PrintAddr(k - 1) \in DOMAIN memory
                           THEN memory[PrintAddr(k - 1)] ELSE wild
           rec(wild) == [id |-> R[6], batch |-> R[2], rows |-> R[3], cols |-> R[4],
                         values |-> [k \in 1 .. n |-> val(k, wild)]]
<1>1. LoopContinues
  BY DEF RuntimePrint, Executing
<1>2. UNCHANGED <<files, spaces, frames>>
  BY DEF RuntimePrint
<1>3. \/ /\ PrintLegal
         /\ \E wild \in Wild : prints' = Append(prints, rec(wild))
         /\ RetireRuntime(0, 0)
      \/ Fault /\ UNCHANGED prints
  BY DEF RuntimePrint
<1>4. CodeOK' /\ ControlOK'
  BY <1>1, <1>3, OutcomeControl DEF MachineOK
<1>5. FilesOK' /\ SpacesOK'
  BY <1>2 DEF MachineOK, FilesOK, SpacesOK, files, spaces
<1>6. /\ R[2] \in Word /\ R[3] \in Word /\ R[4] \in Word /\ R[6] \in Word
      /\ R[2] \in Int /\ R[3] \in Int /\ R[4] \in Int
  BY SimAssumption DEF MachineOK, FilesOK, ScalarRegs, SimAssumption, Word
<1>7. PrintLegal => n \in Nat
  <2> SUFFICES ASSUME R[2] >= 1, R[3] >= 1, R[4] >= 1 PROVE n \in Nat
    BY DEF PrintLegal
  <2>1. R[2] * R[3] \in Nat
    BY <1>6
  <2> QED BY <1>6, <2>1
<1>8. \A k, wild : wild \in Wild => val(k, wild) \in Word
  BY SimAssumption DEF SimAssumption, MachineOK, SpacesOK
<1> HIDE DEF n, val
<1>9. \A wild \in Wild : PrintLegal => rec(wild) \in PrintRecord
  <2> SUFFICES ASSUME NEW wild \in Wild, PrintLegal PROVE rec(wild) \in PrintRecord
    OBVIOUS
  <2>1. [k \in 1 .. n |-> val(k, wild)] \in Seq(Word)
    BY <1>7, <1>8
  <2> QED BY <1>6, <2>1 DEF PrintRecord
<1> HIDE DEF rec
<1>10. HistoryOK'
  BY <1>2, <1>3, <1>9 DEF MachineOK, HistoryOK
<1> QED BY <1>4, <1>5, <1>10 DEF MachineOK

(* mdt_softmax writes ones and zeros into DRAM.                            *)
LEMMA SoftmaxTypes ==
  ASSUME MachineOK, RuntimeSoftmax
  PROVE  MachineOK'
<1> DEFINE word(a) == IF a - R[2] \in 0 .. SoftmaxWords - 1
                      THEN IF SoftmaxLive(a - R[2]) THEN 1 ELSE 0
                      ELSE memory[a]
<1>1. LoopContinues
  BY DEF RuntimeSoftmax, Executing
<1>2. UNCHANGED <<files, scratchpad, dramWords, prints, frames>>
  BY DEF RuntimeSoftmax
<1>3. \/ /\ memory' = [a \in DOMAIN memory |-> word(a)]
         /\ \E cycles, bytes : RetireRuntime(cycles, bytes)
      \/ Fault /\ UNCHANGED memory
  BY DEF RuntimeSoftmax
<1>4. CodeOK' /\ ControlOK'
  BY <1>1, <1>3, OutcomeControl DEF MachineOK
<1>5. FilesOK' /\ HistoryOK'
  BY <1>2 DEF MachineOK, FilesOK, HistoryOK, files
<1>6. 0 \in Word /\ 1 \in Word
  BY SimAssumption DEF SimAssumption, Word
<1>7. memory \in [0 .. dramWords - 1 -> Word]
  BY DEF MachineOK, SpacesOK
<1>8. \A a \in DOMAIN memory : word(a) \in Word
  BY <1>6, <1>7
<1> HIDE DEF word
<1>9. SpacesOK'
  BY <1>2, <1>3, <1>7, <1>8 DEF MachineOK, SpacesOK
<1> QED BY <1>4, <1>5, <1>9 DEF MachineOK

(* A CALL of an unknown runtime function.                                  *)
LEMMA UnknownTypes ==
  ASSUME MachineOK, UnknownRuntime
  PROVE  MachineOK'
<1>1. UNCHANGED <<files, spaces, prints, frames>>
  BY DEF UnknownRuntime
<1>2. FilesOK' /\ SpacesOK' /\ HistoryOK'
  BY <1>1 DEF MachineOK, FilesOK, SpacesOK, HistoryOK, files, spaces
<1>3. CodeOK' /\ ControlOK'
  BY OutcomeControl DEF UnknownRuntime, Executing, MachineOK
<1> QED BY <1>2, <1>3 DEF MachineOK

-----------------------------------------------------------------------------
(* load(), the frame of run(), and the whole step relation.                *)

(* A fresh simulator.                                                      *)
LEMMA MachineInit ==
  ASSUME Init
  PROVE  MachineOK
<1>1. 0 \in Word /\ MemoryWords \in Nat
  BY ReluType, SimAssumption DEF SimAssumption
<1>2. FilesOK
  BY <1>1 DEF Init, FilesOK, ZeroTile
<1>3. SpacesOK
  BY <1>1 DEF Init, SpacesOK
<1>4. /\ code = <<>> /\ errors = <<>> /\ prints = <<>> /\ frames = <<>>
      /\ pc = 0 /\ executed = 0
  BY DEF Init
<1>5. halted \in BOOLEAN
  BY Zenon DEF Init
<1>6. CodeOK /\ HistoryOK
  BY <1>4 DEF CodeOK, HistoryOK
<1>7. pc \in 0 .. Len(code) /\ errors \in Seq(RuntimeError) /\ executed \in Nat
  BY <1>4
<1>8. ControlOK
  BY <1>5, <1>7, Zenon DEF ControlOK
<1> QED BY <1>2, <1>3, <1>6, <1>8 DEF MachineOK

(* load() resets the machine and installs an image.                        *)
LEMMA MachineLoad ==
  ASSUME MachineOK, Load
  PROVE  MachineOK'
<1>1. PICK img \in Images :
        LET size == DramFor(img.data) IN
          /\ code' = img.code
          /\ dramWords' = size
          /\ memory' = [a \in 0 .. size - 1 |->
                          IF a < Len(img.data) THEN img.data[a + 1] ELSE 0]
          /\ R' = [r \in ScalarRegs |->
                     IF r \in {kRegSP, kRegFP} THEN Wrap(size) ELSE 0]
  BY DEF Load, LoadImage
<1> DEFINE size == DramFor(img.data)
           word(a) == IF a < Len(img.data) THEN img.data[a + 1] ELSE 0
<1>2. /\ img.data \in Seq(Word) /\ img.code \in Seq(Instruction)
      /\ \A i \in 1 .. Len(img.code) : WellFormedInstruction(img.code[i])
  BY ImageAssumption DEF ImageAssumption
<1>3. size \in Nat
  BY <1>2, SimAssumption DEF DramFor, MaxOf, SimAssumption, MachineOK, SpacesOK
<1>4. 0 \in Word
  BY ReluType
<1>5. \A a \in 0 .. size - 1 : word(a) \in Word
  BY <1>2, <1>3, <1>4
<1>6. /\ code' = img.code /\ dramWords' = size
      /\ memory' = [a \in 0 .. size - 1 |-> word(a)]
      /\ R' = [r \in ScalarRegs |-> IF r \in {kRegSP, kRegFP} THEN Wrap(size) ELSE 0]
  BY <1>1
<1> HIDE DEF size, word
<1>7. scratchpad' \in [0 .. ScratchpadWords - 1 -> Word]
  BY <1>4 DEF Load, LoadImage
<1>8. SpacesOK'
  BY <1>3, <1>5, <1>6, <1>7 DEF SpacesOK
<1>9. FilesOK'
  <2>1. Wrap(size) \in Word
    BY <1>3, WrapType
  <2>2. R' \in [ScalarRegs -> Word]
    BY <1>4, <1>6, <2>1
  <2>3. /\ V' \in [VectorRegs -> [VectorCells -> Word]]
        /\ M' \in [MatrixRegs -> [TileCells -> Word]]
    BY <1>4 DEF Load, LoadImage, ZeroTile
  <2> QED BY <2>2, <2>3 DEF FilesOK
<1>10. CodeOK'
  BY <1>2, <1>6 DEF CodeOK
<1>11. HistoryOK'
  BY DEF Load, LoadImage, HistoryOK
<1>12. ControlOK'
  <2>1. halted' \in BOOLEAN
    BY Zenon DEF Load, LoadImage
  <2>2. pc' = 0 /\ Len(code') \in Nat
    BY <1>2, <1>6 DEF Load, LoadImage
  <2>3. pc' \in 0 .. Len(code')
    BY <2>2
  <2>4. errors' \in Seq(RuntimeError) /\ executed' \in Nat
    BY DEF Load, LoadImage, MachineOK, ControlOK
  <2> QED BY <2>1, <2>3, <2>4, Zenon DEF ControlOK
<1> QED BY <1>8, <1>9, <1>10, <1>11, <1>12 DEF MachineOK

(* The frame of run(): entering, the limit, and the pairing loop.          *)
LEMMA MachineFrame ==
  ASSUME MachineOK, StartRun \/ LimitReached \/ EndRun \/ Finalize \/ ReturnFromRun
  PROVE  MachineOK'
<1>1. UNCHANGED <<code, files, spaces, pc, halted, prints, frames>>
  BY DEF StartRun, LimitReached, EndRun, Finalize, ReturnFromRun, simVars
<1>2. FilesOK' /\ SpacesOK' /\ HistoryOK' /\ CodeOK'
  BY <1>1 DEF MachineOK, FilesOK, SpacesOK, HistoryOK, CodeOK, files, spaces
<1>3. executed' \in {0, executed}
  BY DEF StartRun, LimitReached, EndRun, Finalize, ReturnFromRun, simVars
<1>4. errors' \in Seq(RuntimeError)
  <2>1. [pc |-> pc, what |-> "limit"] \in RuntimeError
    BY DEF MachineOK, ControlOK, CodeOK, RuntimeError
  <2>2. \/ errors' = <<>> \/ errors' = errors
        \/ errors' = Append(errors, [pc |-> pc, what |-> "limit"])
    BY DEF StartRun, LimitReached, Fail, EndRun, Finalize, ReturnFromRun, simVars
  <2>3. errors \in Seq(RuntimeError)
    BY DEF MachineOK, ControlOK
  <2>4. Append(errors, [pc |-> pc, what |-> "limit"]) \in Seq(RuntimeError)
    BY <2>1, <2>3
  <2>5. <<>> \in Seq(RuntimeError)
    OBVIOUS
  <2> QED BY <2>2, <2>3, <2>4, <2>5, Zenon
<1>5. ControlOK'
  BY <1>1, <1>3, <1>4 DEF MachineOK, ControlOK
<1> QED BY <1>2, <1>5 DEF MachineOK

(* Every step keeps the machine typed.                                     *)
LEMMA MachineNext ==
  ASSUME MachineOK, [Next]_vars
  PROVE  MachineOK'
<1>1. CASE Load
  BY <1>1, MachineLoad
<1>2. CASE Step
  BY <1>2, NopHaltTypes, ScalarArithTypes, VectorTypes, MatrixTypes, ConvertTypes,
     VectorReduceTypes, RowReduceTypes, LoadTypes, StoreTypes, BranchTypes,
     CallTypes, RetTypes, PrintTypes, SoftmaxTypes, UnknownTypes DEF Step
<1>3. CASE StartRun \/ LimitReached \/ EndRun \/ Finalize \/ ReturnFromRun
  BY <1>3, MachineFrame
<1>4. CASE UNCHANGED vars
  BY <1>4 DEF vars, simVars, files, spaces, MachineOK, FilesOK, SpacesOK, CodeOK,
     ControlOK, HistoryOK
<1> QED BY <1>1, <1>2, <1>3, <1>4 DEF Next, Run

-----------------------------------------------------------------------------
(* What a step does to the performance model.                              *)

\* The widths in bytes of a register transfer.
TransferWidths == {kWordBytes, kWordBytes * kTileDim, kWordBytes * kTileElems}

Records ==
  /\ phase = "running" /\ UNCHANGED <<phase, result, pairing>>
  /\ \/ \E op \in Opcode \ ({"HALT"} \cup MemoryOps) : recordPerfInstruction(op, FALSE, 0)
     \/ \E op \in MemoryOps, scratch \in BOOLEAN, bytes \in TransferWidths :
          recordPerfInstruction(op, scratch, bytes)
     \/ \E cycles \in Nat : recordRuntimeCall(cycles, 2 * cycles)

(* Retiring anything but a transfer is recorded as such an instruction.    *)
LEMMA RetireRecords ==
  ASSUME MachineOK, LoopContinues, phase = "running",
         Inst.op \notin {"HALT"} \cup MemoryOps,
         \E target : RetireAt(target, 0)
  PROVE  Records
<1>1. Inst.op \in Opcode
  BY InstOK DEF MachineOK, Instruction
<1>2. (isMemoryOp /\ Inst.src1.scratchpad) = FALSE
  BY DEF isMemoryOp
<1>3. /\ recordPerfInstruction(Inst.op, FALSE, 0)
      /\ UNCHANGED <<phase, result, pairing>>
  BY <1>2 DEF RetireAt
<1> QED BY <1>1, <1>3 DEF Records

(* Finishing a transfer is recorded with its width, or aborts the run.     *)
LEMMA TransferRecords ==
  ASSUME MachineOK, LoopContinues, phase = "running",
         Inst.op \in MemoryOps, IsTransfer(Inst), FinishTransfer
  PROVE  Records \/ AbortRun
<1>1. CASE RetireAt(pc + 1, TransferWidth(Inst))
  <2>1. Inst.dst.cls \in {"Scalar", "Vector", "Matrix"}
    <3>1. Inst.dst \in Operand
      BY InstOK DEF MachineOK, Instruction
    <3> QED BY <3>1 DEF IsTransfer, Operand, RegClass
  <2>2. TransferWidth(Inst) \in TransferWidths
    BY <2>1 DEF TransferWidth, TransferWidths, kWordBytes
  <2> DEFINE scratch == isMemoryOp /\ Inst.src1.scratchpad
  <2>3. scratch \in BOOLEAN
    BY Zenon
  <2>4. /\ recordPerfInstruction(Inst.op, scratch, TransferWidth(Inst))
        /\ UNCHANGED <<phase, result, pairing>>
    BY <1>1 DEF RetireAt
  <2> HIDE DEF scratch
  <2> QED BY <2>2, <2>3, <2>4 DEF Records
<1>2. CASE Fault
  BY <1>2 DEF Fault, Fail, AbortRun
<1> QED BY <1>1, <1>2 DEF FinishTransfer

(* A printing or softmax call is recorded with its cost, and so many bytes. *)
LEMMA RuntimeRecords ==
  ASSUME MachineOK, RuntimePrint \/ RuntimeSoftmax
  PROVE  Records \/ AbortRun
<1>1. phase = "running"
  BY DEF RuntimePrint, RuntimeSoftmax, Executing
<1>2. CASE RetireRuntime(0, 0)
  <2>1. recordRuntimeCall(0, 2 * 0) /\ UNCHANGED <<phase, result, pairing>>
    BY <1>2 DEF RetireRuntime
  <2> QED BY <1>1, <2>1 DEF Records
<1>3. CASE Fault
  BY <1>1, <1>3 DEF Fault, Fail, AbortRun
<1> DEFINE elems == R[3] * R[4] * R[5]
<1>4. CASE SoftmaxLegal /\ RetireRuntime(elems * kSoftmaxCyclesPerElement, elems * 8)
  <2>1. R[3] \in Int /\ R[4] \in Int /\ R[5] \in Int
    BY SimAssumption DEF MachineOK, FilesOK, ScalarRegs, SimAssumption, Word
  <2>2. elems \in Nat
    <3>1. R[3] >= 1 /\ R[4] >= 1 /\ R[5] >= 1
      BY <1>4 DEF SoftmaxLegal
    <3>2. R[3] * R[4] \in Nat
      BY <2>1, <3>1
    <3> QED BY <2>1, <3>1, <3>2
  <2> HIDE DEF elems
  <2>3. elems * 4 \in Nat /\ elems * 8 = 2 * (elems * 4)
    BY <2>2
  <2>4. recordRuntimeCall(elems * 4, 2 * (elems * 4)) /\ UNCHANGED <<phase, result, pairing>>
    BY <1>4, <2>3 DEF RetireRuntime, kSoftmaxCyclesPerElement
  <2> QED BY <1>1, <2>3, <2>4 DEF Records
<1> QED BY <1>2, <1>3, <1>4 DEF RuntimePrint, RuntimeSoftmax

(* Every handler records its instruction, aborts the run or leaves the     *)
(* model alone (HALT).                                                     *)
LEMMA StepRecords ==
  ASSUME MachineOK, Step
  PROVE  Records \/ AbortRun \/ UNCHANGED perfVars
<1>1. LoopContinues /\ phase = "running"
  BY DEF Step, Nop, Halt, ScalarArith, Vector, Matrix, Convert, VectorReduce,
     RowReduce, ExecLoad, ExecStore, Br, CondBranch, Jmp, Call, Ret, RuntimePrint,
     RuntimeSoftmax, UnknownRuntime, Executing
<1>2. CASE Fault
  BY <1>1, <1>2 DEF Fault, Fail, AbortRun
<1>3. CASE Inst.op \notin {"HALT"} \cup MemoryOps /\ \E target : RetireAt(target, 0)
  BY <1>1, <1>3, RetireRecords
<1>4. CASE Nop \/ Halt
  BY <1>3, <1>4 DEF Nop, Halt, Retire, Executing, MemoryOps
<1>5. CASE ScalarArith
  BY <1>2, <1>3, <1>5 DEF ScalarArith, Retire, Executing, ScalarArithOps, MemoryOps
<1>6. CASE Vector
  BY <1>2, <1>3, <1>6 DEF Vector, Retire, Executing, VectorOps, MemoryOps
<1>7. CASE Matrix
  BY <1>2, <1>3, <1>7 DEF Matrix, Retire, Executing, MatrixOps, MatMulFamily, MemoryOps
<1>8. CASE Convert
  BY <1>2, <1>3, <1>8 DEF Convert, Retire, Executing, ConvertOps, MemoryOps
<1>9. CASE VectorReduce
  BY <1>2, <1>3, <1>9 DEF VectorReduce, Retire, Executing, MemoryOps
<1>10. CASE RowReduce
  BY <1>2, <1>3, <1>10 DEF RowReduce, Retire, Executing, MemoryOps
<1>11. CASE ExecLoad \/ ExecStore
  <2>1. Inst.op \in MemoryOps
    BY <1>11 DEF ExecLoad, ExecStore, Executing, MemoryOps
  <2>2. (IsTransfer(Inst) /\ FinishTransfer) \/ Fault
    BY <1>11 DEF ExecLoad, ExecStore
  <2> QED BY <1>1, <1>2, <2>1, <2>2, TransferRecords
<1>12. CASE Br \/ Jmp
  BY <1>2, <1>3, <1>12 DEF Br, Jmp, Jump, Executing, MemoryOps
<1>13. CASE CondBranch
  BY <1>2, <1>3, <1>13 DEF CondBranch, Retire, Jump, Executing, MemoryOps
<1>14. CASE Call \/ Ret
  BY <1>2, <1>3, <1>14 DEF Call, Ret, Jump, Executing, MemoryOps
<1>15. CASE RuntimePrint \/ RuntimeSoftmax
  BY <1>15, RuntimeRecords
<1>16. CASE UnknownRuntime
  BY <1>2, <1>16 DEF UnknownRuntime
<1> QED BY <1>4, <1>5, <1>6, <1>7, <1>8, <1>9, <1>10, <1>11, <1>12, <1>13, <1>14,
           <1>15, <1>16 DEF Step

-----------------------------------------------------------------------------
(* The whole simulator.                                                    *)

SimInv == MachineOK /\ PerfInv

(* Every step also keeps the performance model's invariant.                *)
LEMMA SimPerfNext ==
  ASSUME MachineOK, PerfInv, [Next]_vars
  PROVE  PerfInv'
<1>1. CASE Records
  <2>1. phase = "running" /\ UNCHANGED <<phase, result, pairing>>
    BY <1>1 DEF Records
  <2>2. kWordBytes \in Nat /\ TransferWidths \subseteq Nat
    BY SimAssumption DEF SimAssumption, TransferWidths, kWordBytes, kTileElems
  <2>3. CASE \E op \in Opcode : recordPerfInstruction(op, FALSE, 0)
    BY <2>1, <2>3, InstructionPreserves
  <2>4. CASE \E op \in MemoryOps, scratch \in BOOLEAN, bytes \in TransferWidths :
               recordPerfInstruction(op, scratch, bytes)
    <3>1. MemoryOps \subseteq Opcode
      BY DEF Opcode
    <3> QED BY <2>1, <2>2, <2>4, <3>1, InstructionPreserves
  <2>5. CASE \E cycles \in Nat : recordRuntimeCall(cycles, 2 * cycles)
    <3>1. \A cycles \in Nat : 2 * cycles \in Nat
      OBVIOUS
    <3> QED BY <2>1, <2>5, <3>1, RuntimeCallPreserves
  <2> QED BY <1>1, <2>3, <2>4, <2>5 DEF Records
<1>2. CASE [Prepare \/ BeginRun \/ AbortRun \/ LeaveLoop \/ FinalizeIteration]_perfVars
  <2>1. [PerfNext]_perfVars
    BY <1>2 DEF PerfNext
  <2> QED BY <2>1, PerfNextInv
<1>3. CASE \E ok \in BOOLEAN : FinalizeEnd(ok)
  BY <1>3, FinalizeEndPreserves
<1>4. CASE Load
  <2>1. Prepare
    BY <1>4, SimAssumption DEF Load, LoadImage, Prepare, SimAssumption, pairing
  <2> QED BY <1>2, <2>1
<1>5. CASE StartRun \/ LimitReached \/ EndRun \/ Finalize
  BY <1>2, <1>5 DEF StartRun, LimitReached, Fail, AbortRun, EndRun, Finalize
<1>6. CASE ReturnFromRun
  <2>1. (errors = <<>>) \in BOOLEAN
    BY Zenon
  <2> QED BY <1>3, <1>6, <2>1 DEF ReturnFromRun
<1>7. CASE Step
  BY <1>1, <1>2, <1>7, StepRecords
<1>8. CASE UNCHANGED vars
  BY <1>2, <1>8 DEF vars
<1> QED BY <1>4, <1>5, <1>6, <1>7, <1>8 DEF Next, Run

(* The two halves of SimInv are inductive together.                        *)
THEOREM SimInvariant == Spec => []SimInv
<1>1. Init => SimInv
  <2>1. Init => PerfInit
    BY DEF Init
  <2> QED BY <2>1, MachineInit, PerfInitInv DEF SimInv
<1>2. SimInv /\ [Next]_vars => SimInv'
  BY MachineNext, SimPerfNext DEF SimInv
<1> QED BY <1>1, <1>2, PTL DEF Spec

(* In every run of every program, of any memory, tile and word size: the   *)
(* machine stays typed, and so do the counters it drives.                  *)
THEOREM SimTypes == Spec => []SimTypeOK
<1>1. SimInv => SimTypeOK
  BY DEF SimInv, PerfInv, MachineOK, FilesOK, SpacesOK, CodeOK, ControlOK, HistoryOK,
     SimTypeOK
<1> QED BY <1>1, SimInvariant, PTL

(* Whatever program ran, the trace tiles the sequential estimate and the   *)
(* overlap-aware estimate of a finished run lies within its bounds.        *)
THEOREM SimEstimates == Spec => [](RunsTileTheTrace /\ OverlapWithinBounds)
<1>1. SimInv => RunsTileTheTrace /\ OverlapWithinBounds
  BY DEF SimInv, PerfInv
<1> QED BY <1>1, SimInvariant, PTL

-----------------------------------------------------------------------------
(* The refinement of the performance model.                                *)

(* A step of a typed simulator whose two instruction counts agree is a     *)
(* step of the performance model, if that may report every cost the        *)
(* simulator's runtime calls have.                                         *)
LEMMA StepRefines ==
  ASSUME RuntimeCosts = Nat, TransferWidths \subseteq TransferBytes,
         MachineOK, OutcomeInv, [Next]_vars
  PROVE  [PerfNext]_perfVars
<1>1. CASE Load
  <2>1. Prepare
    BY <1>1, SimAssumption DEF Load, LoadImage, Prepare, SimAssumption, pairing
  <2> QED BY <2>1 DEF PerfNext
<1>2. CASE StartRun \/ LimitReached \/ EndRun \/ Finalize
  <2>1. BeginRun \/ AbortRun \/ LeaveLoop \/ FinalizeIteration
    BY <1>2 DEF StartRun, LimitReached, Fail, AbortRun, EndRun, Finalize
  <2> QED BY <2>1 DEF PerfNext
<1>3. CASE ReturnFromRun
  <2>1. phase = "finalizing" /\ errors = <<>>
    BY <1>3 DEF ReturnFromRun, FinalizeEnd, OutcomeInv, RunOutcome
  <2>2. FinalizeEnd(TRUE)
    BY <1>3, <2>1 DEF ReturnFromRun
  <2> QED BY <2>2 DEF PerfNext
<1>4. CASE Step
  <2>1. CASE Records
    <3>1. /\ phase = "running" /\ UNCHANGED <<phase, result, pairing>>
          /\ executed = instructionCount
      BY <2>1 DEF Records, OutcomeInv, RunOutcome
    <3>2. executed < MaxInstructions
      BY <1>4 DEF Step, Nop, Halt, ScalarArith, Vector, Matrix, Convert, VectorReduce,
         RowReduce, ExecLoad, ExecStore, Br, CondBranch, Jmp, Call, Ret, RuntimePrint,
         RuntimeSoftmax, UnknownRuntime, Executing
    <3>3. RecordInstruction \/ RecordTransfer \/ RecordRuntimeCall
      BY <2>1, <3>1, <3>2 DEF Records, RecordInstruction, RecordTransfer, RecordRuntimeCall
    <3> QED BY <3>3 DEF PerfNext
  <2>2. CASE AbortRun \/ UNCHANGED perfVars
    BY <2>2 DEF PerfNext
  <2> QED BY <1>4, <2>1, <2>2, StepRecords
<1>5. CASE UNCHANGED vars
  BY <1>5 DEF vars
<1> QED BY <1>1, <1>2, <1>3, <1>4, <1>5 DEF Next, Run

(* Every behaviour of the simulator, projected on the variables of the     *)
(* performance model, is a behaviour of that model: the estimates depend   *)
(* on the machine only through what its handlers record.                   *)
THEOREM RefinesPerfModel ==
  ASSUME RuntimeCosts = Nat, TransferWidths \subseteq TransferBytes
  PROVE  Spec => RecordsLikePerfModel
<1>1. Init => SimInv /\ OutcomeInv /\ PerfInit
  <2>1. Init => PerfInit
    BY DEF Init
  <2> QED BY <2>1, MachineInit, PerfInitInv, OutcomeInit DEF SimInv
<1>2. SimInv /\ OutcomeInv /\ [Next]_vars => SimInv' /\ OutcomeInv'
  BY MachineNext, SimPerfNext, OutcomeNext DEF SimInv
<1>3. SimInv /\ OutcomeInv /\ [Next]_vars => [PerfNext]_perfVars
  BY StepRefines DEF SimInv
<1> QED BY <1>1, <1>2, <1>3, PTL DEF Spec, PerfSpec, RecordsLikePerfModel

-----------------------------------------------------------------------------
(* Faults.                                                                 *)

\* What a faulting step must leave alone.
NoTrace ==
  /\ UNCHANGED <<R, V, pc, prints, frames, counters, trace, overlapAwareCycles>>
  /\ M' # M => Inst.op = "LOAD" /\ Strided(Inst)
  /\ spaces' # spaces => Inst.op = "STORE" /\ Strided(Inst)

(* A handler that retires its instruction adds no diagnostic, so a step    *)
(* that adds one took the faulting branch.                                 *)
LEMMA RetireIsNoFault ==
  ASSUME Faulting
  PROVE  /\ \A target, bytes : ~RetireAt(target, bytes)
         /\ ~Retire
         /\ \A target : ~Jump(target)
         /\ \A cycles, bytes : ~RetireRuntime(cycles, bytes)
BY DEF Faulting, RetireAt, Retire, Jump, RetireRuntime

(* A fault that leaves registers, memory and history alone has no trace.   *)
LEMMA CleanFault ==
  ASSUME Fault, UNCHANGED <<files, spaces, prints, frames>>
  PROVE  NoTrace
BY DEF Fault, Fail, NoTrace, files, pairing

(* A transfer of one row that fails its check has moved nothing.           *)
LEMMA NoRowDone ==
  ASSUME NEW i, ~Strided(i), RowsDone(i) # RowsOf(i)
  PROVE  RowsDone(i) = {}
<1>1. RowsOf(i) = {0} /\ RowsDone(i) \subseteq RowsOf(i)
  BY DEF RowsOf, RowsDone
<1> QED BY <1>1

(* Then a LOAD leaves its destination as it was ...                        *)
LEMMA NothingRead ==
  ASSUME FilesOK, NEW i, WellFormedInstruction(i), IsTransfer(i), NEW wild,
         RowsDone(i) = {}
  PROVE  CellsRead(i, RegisterCells(i), wild) = RegisterCells(i)
<1>1. RegisterCells(i) \in [CellsOf(i.dst.cls) -> Word]
  BY RegisterCellsType
<1>2. CellsRead(i, RegisterCells(i), wild) =
        [c \in CellsOf(i.dst.cls) |-> RegisterCells(i)[c]]
  BY DEF CellsRead
<1> QED BY <1>1, <1>2

(* ... and a STORE the array.                                              *)
LEMMA NothingWritten ==
  ASSUME SpacesOK, NEW i, NEW cells, RowsDone(i) = {}
  PROVE  ArrayWritten(i, cells) = Array(i.src1.scratchpad)
<1> DEFINE arr == Array(i.src1.scratchpad)
<1>1. \A a : Writers(i, a) = {}
  BY DEF Writers
<1>2. ArrayWritten(i, cells) = [a \in DOMAIN arr |-> arr[a]]
  BY <1>1 DEF ArrayWritten
<1>3. arr = [a \in DOMAIN arr |-> arr[a]]
  BY DEF Array, SpacesOK
<1> HIDE DEF arr
<1> QED BY <1>2, <1>3 DEF arr

(* A faulting LOAD.                                                        *)
LEMMA LoadFault ==
  ASSUME MachineOK, ExecLoad, Faulting
  PROVE  NoTrace
<1>1. CASE ~IsTransfer(Inst)
  BY <1>1, CleanFault DEF ExecLoad
<1>2. CASE IsTransfer(Inst)
  <2>1. PICK wild \in [CellsOf(Inst.dst.cls) -> Wild] :
          LET cells == CellsRead(Inst, RegisterCells(Inst), wild) IN
            \/ /\ Inst.dst.cls = "Scalar"
               /\ R' = [R EXCEPT ![Inst.dst.idx] = cells[0]]
               /\ UNCHANGED <<V, M>>
            \/ /\ Inst.dst.cls = "Vector"
               /\ V' = [V EXCEPT ![Inst.dst.idx] = cells]
               /\ UNCHANGED <<R, M>>
            \/ /\ Inst.dst.cls = "Matrix"
               /\ M' = [M EXCEPT ![Inst.dst.idx] = cells]
               /\ UNCHANGED <<R, V>>
    BY <1>2 DEF ExecLoad
  <2>2. Fault /\ RowsDone(Inst) # RowsOf(Inst) /\ UNCHANGED <<spaces, prints, frames>>
    BY <1>2, RetireIsNoFault DEF ExecLoad, FinishTransfer
  <2>3. Inst.op = "LOAD" /\ LoopContinues
    BY DEF ExecLoad, Executing
  <2>4. CASE Strided(Inst)
    <3>1. UNCHANGED <<R, V>>
      BY <2>1, <2>4 DEF Strided
    <3> QED BY <2>2, <2>3, <2>4, <3>1 DEF NoTrace, Fault, Fail, pairing
  <2>5. CASE ~Strided(Inst)
    <3> DEFINE cells == CellsRead(Inst, RegisterCells(Inst), wild)
    <3>1. WellFormedInstruction(Inst)
      BY <2>3, InstOK DEF MachineOK
    <3>2. cells = RegisterCells(Inst)
      BY <1>2, <2>2, <2>5, <3>1, NoRowDone, NothingRead DEF MachineOK
    <3> HIDE DEF cells
    <3>3. \/ R' = [R EXCEPT ![Inst.dst.idx] = cells[0]] /\ UNCHANGED <<V, M>>
             /\ Inst.dst.cls = "Scalar"
          \/ V' = [V EXCEPT ![Inst.dst.idx] = cells] /\ UNCHANGED <<R, M>>
             /\ Inst.dst.cls = "Vector"
          \/ M' = [M EXCEPT ![Inst.dst.idx] = cells] /\ UNCHANGED <<R, V>>
             /\ Inst.dst.cls = "Matrix"
      BY <2>1 DEF cells
    <3>4. UNCHANGED files
      <4>1. CASE Inst.dst.cls = "Scalar"
        <5>1. cells[0] = R[Inst.dst.idx]
          BY <3>2, <4>1 DEF RegisterCells
        <5>2. R' = R
          BY <3>3, <4>1, <5>1 DEF MachineOK, FilesOK
        <5> QED BY <3>3, <4>1, <5>2 DEF files
      <4>2. CASE Inst.dst.cls = "Vector"
        <5>1. cells = V[Inst.dst.idx]
          BY <3>2, <4>2 DEF RegisterCells
        <5>2. V' = V
          BY <3>3, <4>2, <5>1 DEF MachineOK, FilesOK
        <5> QED BY <3>3, <4>2, <5>2 DEF files
      <4>3. CASE Inst.dst.cls = "Matrix"
        <5>1. cells = M[Inst.dst.idx]
          BY <3>2, <4>3 DEF RegisterCells
        <5>2. M' = M
          BY <3>3, <4>3, <5>1 DEF MachineOK, FilesOK
        <5> QED BY <3>3, <4>3, <5>2 DEF files
      <4> QED BY <3>3, <4>1, <4>2, <4>3
    <3> QED BY <2>2, <3>4, CleanFault
  <2> QED BY <2>4, <2>5
<1> QED BY <1>1, <1>2

(* A faulting STORE.                                                       *)
LEMMA StoreFault ==
  ASSUME MachineOK, ExecStore, Faulting
  PROVE  NoTrace
<1>1. Fault /\ UNCHANGED <<files, dramWords, prints, frames>>
  BY RetireIsNoFault DEF ExecStore, FinishTransfer
<1>2. Inst.op = "STORE"
  BY DEF ExecStore, Executing
<1>3. CASE ~IsTransfer(Inst)
  <2>1. UNCHANGED spaces
    BY <1>1, <1>3 DEF ExecStore, spaces
  <2> QED BY <1>1, <2>1, CleanFault
<1>4. CASE Strided(Inst)
  BY <1>1, <1>2, <1>4 DEF NoTrace, Fault, Fail, files, pairing
<1>5. CASE IsTransfer(Inst) /\ ~Strided(Inst)
  <2> DEFINE after == ArrayWritten(Inst, RegisterCells(Inst))
  <2>1. \/ Inst.src1.scratchpad /\ scratchpad' = after /\ UNCHANGED memory
        \/ ~Inst.src1.scratchpad /\ memory' = after /\ UNCHANGED scratchpad
    BY <1>5 DEF ExecStore
  <2>2. RowsDone(Inst) # RowsOf(Inst)
    BY <1>5, RetireIsNoFault DEF ExecStore, FinishTransfer
  <2>3. after = Array(Inst.src1.scratchpad)
    BY <1>5, <2>2, NoRowDone, NothingWritten DEF MachineOK
  <2> HIDE DEF after
  <2>4. UNCHANGED spaces
    BY <1>1, <2>1, <2>3 DEF Array, spaces
  <2> QED BY <1>1, <2>4, CleanFault
<1> QED BY <1>3, <1>4, <1>5

(* Every other handler checks its operands before it writes anything.      *)
LEMMA StepFault ==
  ASSUME MachineOK, Step, Faulting
  PROVE  NoTrace
<1>1. CASE Nop \/ Halt
  BY <1>1, RetireIsNoFault DEF Nop, Halt, Faulting
<1>2. CASE ScalarArith
  BY <1>2, RetireIsNoFault, CleanFault DEF ScalarArith, files
<1>3. CASE Vector
  BY <1>3, RetireIsNoFault, CleanFault DEF Vector, files
<1>4. CASE Matrix
  BY <1>4, RetireIsNoFault, CleanFault DEF Matrix, files
<1>5. CASE Convert
  BY <1>5, RetireIsNoFault, CleanFault DEF Convert, files
<1>6. CASE VectorReduce
  BY <1>6, RetireIsNoFault, CleanFault DEF VectorReduce, files
<1>7. CASE RowReduce
  BY <1>7, RetireIsNoFault, CleanFault DEF RowReduce, files
<1>8. CASE ExecLoad
  BY <1>8, LoadFault
<1>9. CASE ExecStore
  BY <1>9, StoreFault
<1>10. CASE Br \/ CondBranch \/ Jmp
  BY <1>10, RetireIsNoFault, CleanFault DEF Br, CondBranch, Jmp
<1>11. CASE Call
  BY <1>11, RetireIsNoFault, CleanFault DEF Call, files
<1>12. CASE Ret
  BY <1>12, RetireIsNoFault DEF Ret
<1>13. CASE RuntimePrint
  BY <1>13, RetireIsNoFault, CleanFault DEF RuntimePrint
<1>14. CASE RuntimeSoftmax
  BY <1>14, RetireIsNoFault, CleanFault DEF RuntimeSoftmax, spaces
<1>15. CASE UnknownRuntime
  BY <1>15, CleanFault DEF UnknownRuntime
<1> QED BY <1>1, <1>2, <1>3, <1>4, <1>5, <1>6, <1>7, <1>8, <1>9, <1>10, <1>11,
           <1>12, <1>13, <1>14, <1>15 DEF Step

(* And the instruction limit, the only other diagnostic, changes nothing.  *)
LEMMA NextFault ==
  ASSUME MachineOK, [Next]_vars, Faulting
  PROVE  NoTrace
<1>1. CASE Step
  BY <1>1, StepFault
<1>2. CASE LimitReached
  BY <1>2 DEF LimitReached, Fail, NoTrace, files, pairing
<1>3. CASE Load \/ StartRun \/ EndRun \/ Finalize \/ ReturnFromRun
  BY <1>3 DEF Load, LoadImage, StartRun, BeginRun, EndRun, Finalize, FinalizeIteration,
     ReturnFromRun, FinalizeEnd, Faulting, simVars, SimAssumption
<1>4. CASE UNCHANGED vars
  BY <1>4 DEF vars, simVars, Faulting
<1> QED BY <1>1, <1>2, <1>3, <1>4 DEF Next, Run

(* Whatever the program, the step that adds a diagnostic leaves registers, *)
(* pc, output and performance model alone, and of a tile or an array       *)
(* changes at most the rows a strided transfer moved before the bad one.   *)
THEOREM FaultsAreClean == Spec => FaultsLeaveNoTrace
<1>1. MachineOK /\ [Next]_vars => (Faulting => NoTrace)
  BY NextFault
<1>2. SimInv => MachineOK
  BY DEF SimInv
<1>3. MachineOK /\ [Next]_vars =>
        [Faulting =>
           /\ UNCHANGED <<R, V, pc, prints, frames, counters, trace, overlapAwareCycles>>
           /\ M' # M => Inst.op = "LOAD" /\ Strided(Inst)
           /\ spaces' # spaces => Inst.op = "STORE" /\ Strided(Inst)]_vars
  BY <1>1 DEF NoTrace
<1> QED BY <1>2, <1>3, SimInvariant, PTL DEF Spec, FaultsLeaveNoTrace

-----------------------------------------------------------------------------
(* Stores and loads.                                                       *)

(* Two rows of a tile whose stride is at least a row have no word in       *)
(* common.                                                                 *)
LEMMA RowsDisjoint ==
  ASSUME NEW s \in Int, NEW n \in Nat \ {0}, s >= n \/ s <= -n,
         NEW p \in Int, NEW q \in Int, NEW r \in 0 .. n - 1, NEW t \in 0 .. n - 1,
         p * s + r = q * s + t
  PROVE  p = q /\ r = t
<1> DEFINE u == p - q
<1>1. u \in Int /\ u * s = t - r
  OBVIOUS
<1>2. t - r < n /\ r - t < n
  OBVIOUS
<1>3. u = 0 => p = q
  OBVIOUS
<1> HIDE DEF u
<1>4. u = 0
  <2>1. CASE u >= 1 /\ s >= n
    <3>1. u * s >= 1 * s
      BY <1>1, <2>1
    <3> QED BY <1>1, <1>2, <2>1, <3>1
  <2>2. CASE u >= 1 /\ s <= -n
    <3>1. u * (-s) >= 1 * (-s) /\ u * (-s) = -(u * s)
      BY <1>1, <2>2
    <3> QED BY <1>1, <1>2, <2>2, <3>1
  <2>3. CASE u <= -1 /\ s >= n
    <3>1. (-u) * s >= 1 * s /\ (-u) * s = -(u * s)
      BY <1>1, <2>3
    <3> QED BY <1>1, <1>2, <2>3, <3>1
  <2>4. CASE u <= -1 /\ s <= -n
    <3>1. (-u) * (-s) >= 1 * (-s) /\ (-u) * (-s) = u * s
      BY <1>1, <2>4
    <3> QED BY <1>1, <1>2, <2>4, <3>1
  <2> QED BY <1>1, <2>1, <2>2, <2>3, <2>4
<1>5. r = t
  BY <1>1, <1>4
<1> QED BY <1>3, <1>4, <1>5

(* So a transfer has every cell at a word of its own.                      *)
LEMMA CellsApart ==
  ASSUME FilesOK, NEW i, WellFormedInstruction(i), IsTransfer(i), RowsApart(i),
         NEW c \in CellsOf(i.dst.cls), NEW d \in CellsOf(i.dst.cls),
         CellAddr(i, c) = CellAddr(i, d)
  PROVE  c = d
<1> DEFINE n == RowLen(i)
           base == Address(i)
           s == i.src1.stride
<1>1. kTileDim \in Nat \ {0} /\ kTileElems \in Nat \ {0}
  <2>1. kTileDim \in Nat \ {0}
    BY SimAssumption DEF SimAssumption
  <2> QED BY <2>1 DEF kTileElems
<1>2. base \in Int /\ s \in Int
  <2>1. i.src1 \in Operand /\ i.src1.idx \in ScalarRegs
    BY DEF WellFormedInstruction, WellFormedOperand, IsTransfer
  <2>2. R[i.src1.idx] \in Int
    BY <2>1, SimAssumption DEF FilesOK, Word, SimAssumption
  <2> QED BY <2>1, <2>2 DEF Operand, Address
<1>3. i.dst.cls \in {"Scalar", "Vector", "Matrix"}
  BY RegisterCellsType
<1>4. CASE Strided(i)
  <2>1. n = kTileDim /\ (s >= n \/ s <= -n)
    BY <1>1, <1>4 DEF RowLen, Strided, RowsApart
  <2>2. c \in Nat /\ d \in Nat
    BY <1>1, <1>4 DEF CellsOf, Strided, TileCells
  <2> DEFINE p == c \div n
             q == d \div n
             r == c % n
             t == d % n
  <2>3. /\ p \in Int /\ q \in Int /\ r \in 0 .. n - 1 /\ t \in 0 .. n - 1
        /\ c = n * p + r /\ d = n * q + t
    <3>1. n \in Nat \ {0}
      BY <1>1, <2>1
    <3> HIDE DEF n
    <3> QED BY <2>2, <3>1
  <2>4. CellAddr(i, c) = base + p * s + r /\ CellAddr(i, d) = base + q * s + t
    BY DEF CellAddr, RowAddr, CellRow
  <2> HIDE DEF n, base, s, p, q, r, t
  <2>5. p * s \in Int /\ q * s \in Int
    BY <1>2, <2>3
  <2>6. p * s + r = q * s + t
    BY <1>2, <2>3, <2>4, <2>5
  <2>7. p = q /\ r = t
    BY <1>1, <1>2, <2>1, <2>3, <2>6, RowsDisjoint
  <2> QED BY <2>3, <2>7
<1>5. CASE ~Strided(i)
  <2>1. /\ n \in Nat \ {0}
        /\ c \in 0 .. n - 1 /\ d \in 0 .. n - 1
    BY <1>1, <1>3, <1>5 DEF RowLen, CellsOf, TileCells, VectorCells, Strided
  <2>2. \A e \in 0 .. n - 1 : e \div n = 0 /\ e % n = e
    <3> HIDE DEF n
    <3> QED BY <2>1
  <2>3. \A e \in {c, d} : CellRow(i, e) = 0 /\ e % n = e
    BY <2>1, <2>2 DEF CellRow
  <2>4. \A e \in {c, d} : CellAddr(i, e) = base + e
    <3>1. \A e \in {c, d} : CellAddr(i, e) = RowAddr(i, 0) + e
      BY <2>3 DEF CellAddr
    <3>2. RowAddr(i, 0) = base
      BY <1>2 DEF RowAddr
    <3> QED BY <3>1, <3>2
  <2> HIDE DEF n, base, s
  <2>5. c \in Int /\ d \in Int
    BY <2>1
  <2>6. CellAddr(i, c) = base + c /\ CellAddr(i, d) = base + d
    BY <2>4
  <2>7. base + c = base + d
    BY <2>6
  <2> QED BY <1>2, <2>5, <2>7
<1> QED BY <1>4, <1>5

(* What a store wrote is where a load of the same operand looks for it,    *)
(* and nothing else was written there.                                     *)
LEMMA ReadBack ==
  ASSUME FilesOK, NEW i, WellFormedInstruction(i), IsTransfer(i), RowsApart(i),
         Array(i.src1.scratchpad)' = ArrayWritten(i, RegisterCells(i)),
         UNCHANGED <<files, dramWords>>
  PROVE  CellsRead(i, RegisterCells(i), RegisterCells(i))' = RegisterCells(i)
<1> DEFINE cells == RegisterCells(i)
           arr == Array(i.src1.scratchpad)
           new == ArrayWritten(i, cells)
           read(c) == IF CellRow(i, c) \notin RowsDone(i) THEN cells[c]
                      ELSE IF CellAddr(i, c) \in DOMAIN new THEN new[CellAddr(i, c)]
                      ELSE cells[c]
<1>1. cells \in [CellsOf(i.dst.cls) -> Word]
  BY RegisterCellsType
<1>2. RegisterCells(i)' = cells
  BY DEF RegisterCells, files
<1>3. \A c : CellAddr(i, c)' = CellAddr(i, c)
  BY DEF CellAddr, RowAddr, Address, files
<1>4. RowsDone(i)' = RowsDone(i)
  <2>1. /\ \A row : RowAddr(i, row)' = RowAddr(i, row)
        /\ SizeOf(i.src1.scratchpad)' = SizeOf(i.src1.scratchpad)
    BY DEF RowAddr, Address, SizeOf, files
  <2> QED BY <2>1 DEF RowsDone
<1>5. CellsRead(i, RegisterCells(i), RegisterCells(i))'
        = [c \in CellsOf(i.dst.cls) |-> read(c)]
  <2>1. Array(i.src1.scratchpad)' = new
    OBVIOUS
  <2> HIDE DEF cells, new
  <2> QED BY <1>2, <1>3, <1>4, <2>1 DEF CellsRead
<1>6. ASSUME NEW c \in CellsOf(i.dst.cls) PROVE read(c) = cells[c]
  <2> SUFFICES ASSUME CellRow(i, c) \in RowsDone(i), CellAddr(i, c) \in DOMAIN new
               PROVE  new[CellAddr(i, c)] = cells[c]
    OBVIOUS
  <2> DEFINE a == CellAddr(i, c)
             W == Writers(i, a)
  <2>1. W = {c}
    BY CellsApart DEF Writers
  <2>2. c \in Int
    BY SimAssumption, RegisterCellsType
       DEF CellsOf, VectorCells, TileCells, kTileElems, SimAssumption
  <2>3. \A d : IsLast(d, W) <=> d = c
    BY <2>1, <2>2 DEF IsLast
  <2>4. new = [b \in DOMAIN arr |->
                 IF \E d \in Writers(i, b) : IsLast(d, Writers(i, b))
                 THEN cells[CHOOSE d \in Writers(i, b) : IsLast(d, Writers(i, b))]
                 ELSE arr[b]]
    BY DEF ArrayWritten
  <2>5. a \in DOMAIN new
    OBVIOUS
  <2> HIDE DEF cells, arr, new, a
  <2>6. new[a] = cells[CHOOSE d \in W : IsLast(d, W)]
    BY <2>1, <2>3, <2>4, <2>5
  <2> HIDE DEF W
  <2>7. (CHOOSE d \in W : IsLast(d, W)) = c
    BY <2>1, <2>3
  <2> QED BY <2>6, <2>7 DEF a, cells
<1> HIDE DEF cells, read
<1>7. [c \in CellsOf(i.dst.cls) |-> read(c)] = cells
  BY <1>1, <1>6
<1> QED BY <1>5, <1>7 DEF cells

(* A step that retires an instruction is that of its handler.              *)
LEMMA RetiringSteps ==
  ASSUME MachineOK, [Next]_vars, NEW op, Retiring(op)
  PROVE  Step /\ ~Fault
<1>1. ~Load /\ ~StartRun /\ ~EndRun /\ ~Finalize /\ ~ReturnFromRun /\ ~UNCHANGED vars
  BY SimAssumption DEF Retiring, Load, LoadImage, StartRun, BeginRun, EndRun, LeaveLoop,
     Finalize, FinalizeIteration, ReturnFromRun, FinalizeEnd, simVars, vars, SimAssumption,
     MachineOK, ControlOK
<1>2. \A what : ~Fail(what)
  BY DEF Fail, Retiring, MachineOK, ControlOK
<1> QED BY <1>1, <1>2 DEF Next, Run, LimitReached, Fault

LEMMA StoreReadBack ==
  ASSUME MachineOK, [Next]_vars, Retiring("STORE"), NEW i \in {Inst}, RowsApart(i)
  PROVE  CellsRead(i, RegisterCells(i), RegisterCells(i))' = RegisterCells(i)
<1>1. Step /\ ~Fault /\ Inst.op = "STORE" /\ LoopContinues
  BY RetiringSteps DEF Retiring
<1>2. ExecStore
  BY <1>1 DEF Step, Nop, Halt, ScalarArith, Vector, Matrix, Convert,
     VectorReduce, RowReduce, ExecLoad, Br, CondBranch, Jmp, Call, Ret, RuntimePrint,
     RuntimeSoftmax, UnknownRuntime, Executing, ScalarArithOps, VectorOps, MatrixOps,
     ConvertOps, MatMulFamily
<1>3. WellFormedInstruction(i) /\ FilesOK
  BY <1>1, InstOK DEF MachineOK
<1>4. IsTransfer(i) /\ UNCHANGED <<files, dramWords>>
  BY <1>1, <1>2 DEF ExecStore
<1>5. Array(i.src1.scratchpad)' = ArrayWritten(i, RegisterCells(i))
  BY <1>2, <1>4 DEF ExecStore, Array
<1> QED BY <1>3, <1>4, <1>5, ReadBack

(* What a STORE of any width and stride wrote, a LOAD of the same operand  *)
(* reads back, unless the rows of the tile overlap (MDTSim.cpp readFloats, *)
(* writeFloats): for every program, register content and memory size.      *)
THEOREM StoresReadBack == Spec => StoresAreReadBack
<1>1. SimInv => MachineOK
  BY DEF SimInv
<1>2. MachineOK /\ [Next]_vars =>
        [Retiring("STORE") =>
           \A i \in {Inst} :
             RowsApart(i) =>
               CellsRead(i, RegisterCells(i), RegisterCells(i))' = RegisterCells(i)]_vars
  BY StoreReadBack
<1> QED BY <1>1, <1>2, SimInvariant, PTL DEF Spec, StoresAreReadBack

-----------------------------------------------------------------------------
(* mdt_softmax.                                                            *)

(* Column j of row i of matrix b lies among the words of the batch.        *)
LEMMA WordOfBatch ==
  ASSUME NEW B \in Int, NEW P \in Int, NEW S \in Int,
         NEW b \in 0 .. B - 1, NEW i \in 0 .. P - 1, NEW j \in 0 .. S - 1
  PROVE  /\ b * P + i \in Nat
         /\ (b * P + i) * S + j \in 0 .. B * P * S - 1
<1>1. b * P \in Nat /\ B * P \in Nat /\ (b + 1) * P = b * P + P /\ (b + 1) * P <= B * P
  <2>1. b * P \in Nat /\ B * P \in Nat /\ (b + 1) * P = b * P + P
    OBVIOUS
  <2>2. (b + 1) * P <= B * P
    OBVIOUS
  <2> QED BY <2>1, <2>2
<1> DEFINE m == b * P + i
           n == B * P
<1>2. m \in Nat /\ n \in Nat /\ m + 1 <= n
  BY <1>1
<1> HIDE DEF m, n
<1>3. m * S \in Nat /\ (m + 1) * S = m * S + S /\ (m + 1) * S <= n * S /\ n * S \in Nat
  <2>1. m * S \in Nat /\ n * S \in Nat /\ (m + 1) * S = m * S + S
    BY <1>2
  <2>2. (m + 1) * S <= n * S
    BY <1>2
  <2> QED BY <2>1, <2>2
<1>4. m * S + j \in 0 .. n * S - 1
  BY <1>3
<1> QED BY <1>2, <1>4 DEF m, n

(* Rows are padded to whole tiles.                                         *)
LEMMA PaddedType ==
  ASSUME NEW n \in Nat
  PROVE  padded(n) \in Nat
<1> DEFINE d == kTileDim
           q == (n + d - 1) \div d
<1>1. d \in Nat \ {0}
  BY SimAssumption DEF SimAssumption
<1>2. q \in Nat
  <2> HIDE DEF d
  <2> QED BY <1>1
<1> HIDE DEF d, q
<1>3. q * d \in Nat
  BY <1>1, <1>2
<1> QED BY <1>3 DEF padded, q, d

(* Padding is not live.                                                    *)
LEMMA PaddingNotLive ==
  ASSUME MachineOK, SoftmaxLegal,
         NEW b \in 0 .. R[3] - 1, NEW i \in 0 .. padded(R[4]) - 1, NEW j \in 0 .. R[6] - 1,
         i >= R[4] \/ j >= R[5]
  PROVE  LET k == (b * padded(R[4]) + i) * R[6] + j
         IN k \in 0 .. SoftmaxWords - 1 /\ ~SoftmaxLive(k) /\ R[2] + k \in DOMAIN memory
<1> DEFINE P == padded(R[4])
           S == R[6]
           m == b * P + i
           k == m * S + j
<1>1. \A r \in {2, 3, 4, 5, 6} : R[r] \in Int
  BY SimAssumption DEF MachineOK, FilesOK, ScalarRegs, SimAssumption, Word
<1>2. P \in Nat \ {0} /\ S \in Nat \ {0}
  <2>1. padded(R[4]) \in Nat /\ R[6] \in Nat
    BY <1>1, PaddedType DEF SoftmaxLegal
  <2> QED BY <2>1
<1>3. m \in Nat /\ k \in 0 .. SoftmaxWords - 1
  BY <1>1, <1>2, WordOfBatch DEF SoftmaxWords
<1>4. k \div S = m /\ k % S = j
  <2>1. j \in 0 .. S - 1 /\ m \in Int /\ S \in Nat \ {0}
    BY <1>2, <1>3
  <2> HIDE DEF m, S
  <2> QED BY <2>1, DivMod
<1>5. m % P = i
  <2> HIDE DEF P
  <2> QED BY <1>2, DivMod DEF P
<1>6. ~SoftmaxLive(k)
  <2>1. SoftmaxLive(k) <=> (k \div S) % P < R[4] /\ k % S < R[5]
    BY DEF SoftmaxLive
  <2> HIDE DEF k, m, S, P
  <2>2. SoftmaxLive(k) <=> i < R[4] /\ j < R[5]
    BY <1>4, <1>5, <2>1
  <2> QED BY <1>1, <1>2, <2>2 DEF P, S
<1>7. R[2] + k \in DOMAIN memory
  <2> DEFINE base == R[2]
             w == SoftmaxWords
  <2>1. /\ base >= 0 /\ base + w <= dramWords /\ dramWords \in Nat
        /\ DOMAIN memory = 0 .. dramWords - 1
    BY DEF SoftmaxLegal, MachineOK, SpacesOK, inBounds
  <2>2. base \in Int /\ w \in Int /\ k \in 0 .. w - 1
    BY <1>1, <1>2, <1>3 DEF SoftmaxWords
  <2> HIDE DEF k, base, w
  <2>3. base + k \in 0 .. dramWords - 1
    BY <2>1, <2>2
  <2> QED BY <2>1, <2>3 DEF base
<1> HIDE DEF k
<1> QED BY <1>3, <1>6, <1>7 DEF k

LEMMA SoftmaxStep ==
  ASSUME MachineOK, [Next]_vars, SoftmaxRan,
         NEW b \in 0 .. R[3] - 1, NEW i \in 0 .. padded(R[4]) - 1, NEW j \in 0 .. R[6] - 1,
         i >= R[4] \/ j >= R[5]
  PROVE  memory'[R[2] + (b * padded(R[4]) + i) * R[6] + j] = 0
<1>1. Step /\ ~Fault /\ Inst.op = "CALL" /\ Inst.dst.imm = -2
  BY RetiringSteps DEF SoftmaxRan, Retiring, RuntimeId
<1>2. RuntimeSoftmax
  BY <1>1 DEF Step, Nop, Halt, ScalarArith, Vector, Matrix, Convert,
     VectorReduce, RowReduce, ExecLoad, ExecStore, Br, CondBranch, Jmp, Call, Ret,
     RuntimePrint, RuntimeId, UnknownRuntime, Executing, ScalarArithOps, VectorOps,
     MatrixOps, ConvertOps, MatMulFamily
<1>3. /\ SoftmaxLegal
      /\ memory' = [a \in DOMAIN memory |->
                      IF a - R[2] \in 0 .. SoftmaxWords - 1
                      THEN IF SoftmaxLive(a - R[2]) THEN 1 ELSE 0
                      ELSE memory[a]]
  BY <1>1, <1>2 DEF RuntimeSoftmax
<1> DEFINE k == (b * padded(R[4]) + i) * R[6] + j
<1>4. k \in 0 .. SoftmaxWords - 1 /\ ~SoftmaxLive(k) /\ R[2] + k \in DOMAIN memory
  BY <1>3, PaddingNotLive
<1>5. R[2] \in Int /\ k \in Int
  <2>1. R[2] \in Int
    BY SimAssumption DEF MachineOK, FilesOK, ScalarRegs, SimAssumption, Word
  <2> HIDE DEF k
  <2> QED BY <1>4, <2>1
<1>6. R[2] + (b * padded(R[4]) + i) * R[6] + j = R[2] + k
  <2>1. R[4] \in Nat /\ R[6] \in Int
    BY <1>3, SimAssumption
       DEF SoftmaxLegal, MachineOK, FilesOK, ScalarRegs, SimAssumption, Word
  <2>2. (b * padded(R[4]) + i) * R[6] \in Int
    BY <2>1, PaddedType
  <2> QED BY <1>5, <2>2
<1> HIDE DEF k
<1>7. (R[2] + k) - R[2] = k
  BY <1>5
<1>8. memory'[R[2] + k] = 0
  BY <1>3, <1>4, <1>7
<1> QED BY <1>6, <1>8

(* Whatever the shape, mdt_softmax leaves zeros in the padding rows and    *)
(* columns of every matrix of its destination, which is what code          *)
(* generation relies on (MDTCodeGen.h:10-14).                              *)
THEOREM SoftmaxPads == Spec => SoftmaxZeroesPadding
<1>1. SimInv => MachineOK
  BY DEF SimInv
<1>2. MachineOK /\ [Next]_vars =>
        [SoftmaxRan =>
           \A b \in 0 .. R[3] - 1, i \in 0 .. padded(R[4]) - 1, j \in 0 .. R[6] - 1 :
             (i >= R[4] \/ j >= R[5]) =>
               memory'[R[2] + (b * padded(R[4]) + i) * R[6] + j] = 0]_vars
  BY SoftmaxStep
<1> QED BY <1>1, <1>2, SimInvariant, PTL DEF Spec, SoftmaxZeroesPadding
=============================================================================
