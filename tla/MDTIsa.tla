------------------------------- MODULE MDTIsa -------------------------------
(***************************************************************************)
(* The MDT instruction set as the simulator sees it: opcodes grouped by    *)
(* the exec* handler that implements them, the decoded operand record, and *)
(* the two tables the performance model is built from.                     *)
(***************************************************************************)
EXTENDS Integers

kRegSP == 13
kRegFP == 14
kRegRA == 15

ScalarArithOps == {"ADD", "SUB", "MUL"}
MemoryOps      == {"LOAD", "STORE"}
BranchOps      == {"BR", "BEQ", "BNE", "JMP", "CALL", "RET"}
VectorOps      == {"VADD", "VMUL"}
MatMulFamily   == {"MATMUL", "MATMULACC", "MATMULRELU"}
MatrixOps      == MatMulFamily \cup {"TRANSPOSE", "RELU"}
ConvertOps     == {"CVT_F32_BF16", "CVT_BF16_F32"}
ReduceOps      == {"VREDSUM", "MROWMAX", "MROWSUM"}

Opcode == {"NOP", "HALT"} \cup ScalarArithOps \cup MemoryOps \cup BranchOps
            \cup VectorOps \cup MatrixOps \cup ConvertOps \cup ReduceOps

-----------------------------------------------------------------------------
(* Operands are the C++ struct, field by field.  A branch label has been   *)
(* resolved by the assembler to an instruction index, or to -1 - id for a  *)
(* runtime function, and sits in imm.  Offsets and strides count words.    *)

RegClass    == {"None", "Scalar", "Vector", "Matrix"}
OperandKind == {"None", "Register", "Immediate", "Label", "Memory"}

Operand == [kind: OperandKind, cls: RegClass, idx: Int, imm: Int,
            stride: Int, scratchpad: BOOLEAN]

Instruction == [op: Opcode, dst: Operand, src1: Operand, src2: Operand]

NoOperand == [kind |-> "None", cls |-> "None", idx |-> -1, imm |-> 0,
              stride |-> 0, scratchpad |-> FALSE]

\* What parseOperand builds for each spelling of an operand.
RegOperand(cls, i) ==
  [kind |-> "Register", cls |-> cls, idx |-> i, imm |-> 0, stride |-> 0, scratchpad |-> FALSE]
Value(kind, n) ==
  [kind |-> kind, cls |-> "None", idx |-> -1, imm |-> n, stride |-> 0, scratchpad |-> FALSE]
ImmOperand(n)   == Value("Immediate", n)
LabelOperand(n) == Value("Label", n)
MemOperand(base, off, stride, scratch) ==
  [kind |-> "Memory", cls |-> "Scalar", idx |-> base, imm |-> off,
   stride |-> stride, scratchpad |-> scratch]

-----------------------------------------------------------------------------
PerfClass == {"Transfer", "Compute", "Other"}

classifyForPerf(op) ==
  CASE op \in MemoryOps -> "Transfer"
    [] op \in BranchOps \cup {"NOP", "HALT"} -> "Other"
    [] OTHER -> "Compute"

instructionLatency(op, scratchpadAccess) ==
  CASE op \in MemoryOps -> IF scratchpadAccess THEN 1 ELSE 8
    [] op \in MatMulFamily -> 4
    [] op \in VectorOps \cup ReduceOps \cup {"TRANSPOSE", "RELU"} -> 2
    [] op \in {"NOP", "HALT"} -> 0
    [] OTHER -> 1

kSoftmaxCyclesPerElement == 4
=============================================================================
