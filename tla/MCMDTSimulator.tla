--------------------------- MODULE MCMDTSimulator ---------------------------
(* Small instances of MDTSimulator: 2x2 tiles, 6-bit words, and the        *)
(* programs each run loads.                                                *)
EXTENDS MDTSimulator

MCWild == {-32}
MCData == <<3, -2, 5, 1, 0, 7>>
Image(c) == [code |-> c, data |-> MCData]

r(i) == RegOperand("Scalar", i)
v(i) == RegOperand("Vector", i)
m(i) == RegOperand("Matrix", i)
n(i) == ImmOperand(i)
lab(i) == LabelOperand(i)
at(base, off) == MemOperand(base, off, 0, FALSE)
strided(base, off, s) == MemOperand(base, off, s, FALSE)
scratch(base, off) == MemOperand(base, off, 0, TRUE)
I(op, d, a, b) == [op |-> op, dst |-> d, src1 |-> a, src2 |-> b]
I2(op, d, a) == I(op, d, a, NoOperand)
I1(op, d) == I2(op, d, NoOperand)
I0(op) == I1(op, NoOperand)

-----------------------------------------------------------------------------
(* Every pair of the instructions below, after a prologue that fills M1    *)
(* and V1.  DRAM has 10 words (SP = 10), the scratchpad 5.                 *)
Arithmetic ==
  {I("ADD", r(1), r(13), n(25)), I("SUB", r(2), r(0), r(13)),
   I("MUL", r(1), r(13), r(13)), I("ADD", r(1), r(1), lab(0)),
   I("ADD", v(1), r(1), n(1)), I2("CVT_F32_BF16", r(1), r(13)),
   I2("CVT_BF16_F32", r(2), r(1)), I2("CVT_BF16_F32", v(1), r(1))}

Transfers ==
  {I2("LOAD", r(1), at(0, 0)), I2("LOAD", r(1), at(0, -1)),
   I2("LOAD", r(1), at(13, 0)), I2("LOAD", v(2), at(1, 1)),
   I2("LOAD", m(2), at(0, 4)), I2("LOAD", m(1), strided(0, 0, 3)),
   I2("LOAD", m(2), strided(13, -3, 5)), I2("LOAD", m(1), n(3)),
   I2("LOAD", n(1), at(0, 0)),
   I2("STORE", r(13), at(0, 2)), I2("STORE", v(1), at(13, -2)),
   I2("STORE", m(1), at(13, -3)), I2("STORE", m(1), strided(0, 1, 1)),
   I2("STORE", m(1), strided(13, -3, -4)), I2("STORE", m(1), strided(0, 7, 5)),
   I2("STORE", m(1), strided(0, 1, 3)), I2("STORE", r(1), r(2)),
   I2("STORE", v(1), scratch(0, 3)), I2("STORE", m(1), scratch(0, 2)),
   I2("LOAD", m(2), scratch(0, 1)), I2("LOAD", v(1), scratch(0, -1))}

ControlFlow ==
  {I0("NOP"), I0("HALT"), I1("BR", lab(2)), I1("BR", lab(9)),
   I("BEQ", r(0), r(13), lab(0)), I("BNE", r(0), r(13), lab(3)),
   I("BNE", r(0), r(13), lab(4)), I("BEQ", r(0), v(1), lab(0)),
   I1("JMP", r(1)), I1("JMP", v(1)), I1("CALL", lab(3)), I1("CALL", lab(2)),
   I1("CALL", lab(4)), I0("RET"), I1("CALL", lab(-1)), I1("CALL", lab(-2)),
   I1("CALL", lab(-3))}

VectorAndMatrix ==
  {I("VADD", v(1), v(1), v(1)), I("VMUL", v(2), v(1), v(1)),
   I("VADD", v(1), v(1), m(1)), I("MATMUL", m(1), m(1), m(1)),
   I("MATMULACC", m(1), m(1), m(1)), I("MATMULRELU", m(2), m(1), m(1)),
   I("MATMUL", m(1), m(1), v(1)), I2("TRANSPOSE", m(1), m(1)),
   I2("RELU", m(1), m(1)), I2("RELU", v(1), m(1)),
   I2("VREDSUM", r(1), v(1)), I2("VREDSUM", r(1), m(1)),
   I2("MROWMAX", v(1), m(1)), I2("MROWSUM", v(1), m(1)), I2("MROWSUM", r(1), m(1))}

Pool == Arithmetic \cup Transfers \cup ControlFlow \cup VectorAndMatrix
Prologue == <<I2("LOAD", m(1), at(0, 0)), I2("LOAD", v(1), at(0, 1))>>

MCPairs == {Image(Prologue \o <<i, j>>) : i, j \in Pool}

-----------------------------------------------------------------------------
(* Programs with calls: SP-relative saves of RA, a runtime call inside a   *)
(* callee, a call in tail position, a top-level RET.                       *)
Push == <<I("SUB", r(13), r(13), n(1)), I2("STORE", r(15), at(13, 0))>>
Pop  == <<I2("LOAD", r(15), at(13, 0)), I("ADD", r(13), r(13), n(1))>>
SetRegs(values) == [k \in 1 .. Len(values) |-> I("ADD", r(k), r(0), n(values[k]))]

\* main: CALL f; HALT.   f: ADD; RET.
LeafCall == <<I1("CALL", lab(2)), I0("HALT"), I("ADD", r(7), r(7), n(1)), I0("RET")>>

\* main: Push; CALL f; CALL f; Pop; RET.   f: Push; CALL g; Pop; RET.   g: RET.
NestedCalls ==
  Push \o <<I1("CALL", lab(7)), I1("CALL", lab(7))>> \o Pop \o <<I0("RET")>>
  \o Push \o <<I1("CALL", lab(13))>> \o Pop \o <<I0("RET")>>
  \o <<I0("RET")>>

\* main: CALL f; HALT.   f: mdt_softmax of one word; RET.
RuntimeInCallee ==
  <<I1("CALL", lab(2)), I0("HALT")>>
  \o SetRegs(<<0, 2, 1, 1, 1, 1>>) \o <<I1("CALL", lab(-2)), I0("RET")>>

\* main: BR past f; CALL f as the last instruction.   f: RET.
CallAtTheEnd == <<I1("BR", lab(2)), I0("RET"), I1("CALL", lab(1))>>

\* f calls itself, R7 times, with RA on the stack.
\* main: ADD R7,R0,2; CALL f; HALT.
\* f (3): BEQ R7,R0,out; SUB R7; Push; CALL f; Pop; out (10): RET.
Recursion ==
  <<I("ADD", r(7), r(0), n(2)), I1("CALL", lab(3)), I0("HALT"),
    I("BEQ", r(7), r(0), lab(10)), I("SUB", r(7), r(7), n(1))>>
  \o Push \o <<I1("CALL", lab(3))>> \o Pop
  \o <<I0("RET")>>

\* Never ends on its own.
Spin == <<I("ADD", r(7), r(7), n(1)), I1("BR", lab(0))>>

Calls == {LeafCall, NestedCalls, RuntimeInCallee, CallAtTheEnd, Recursion, Spin}

\* mdt_softmax of batch matrices from word 0 to word dst, then mdt_print of
\* the result; a shape that does not fit the 10 words of DRAM faults.
SoftmaxThenPrint(dst, batch, rows, cols, stride) ==
  SetRegs(<<0, dst, batch, rows, cols, stride>>) \o <<I1("CALL", lab(-2))>>
  \o SetRegs(<<dst, batch, rows, cols, stride, 9>>) \o <<I1("CALL", lab(-1))>>

RuntimeCalls ==
  {SoftmaxThenPrint(dst, batch, rows, cols, stride) :
     dst \in {0, 1, 4}, batch \in {1, 2}, rows \in 1 .. 3, cols \in 1 .. 2,
     stride \in 1 .. 3}

MCPrograms == {Image(c) : c \in Calls \cup RuntimeCalls}

\* A LOAD from the word before DRAM, and one past its end.
MCOutside == {Image(<<I2("LOAD", r(1), at(0, off))>>) : off \in {-1, 0, 10}}

-----------------------------------------------------------------------------
(* The phases callers load a program in: mdtsim and the compiler's         *)
(* simulate() use a Simulator once, the class lets it be used again.       *)
LoadOnce  == {"idle"}
LoadAgain == {"idle", "done"}
=============================================================================
