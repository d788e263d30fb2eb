---------------------------- MODULE PipelineProofs ----------------------------
(***************************************************************************)
(* Proofs about the pipeline, from the lowering of a program to the last   *)
(* instruction of its simulation: in every state                           *)
(*   - a LOAD in the code of an op reads the buffer of one of its operands *)
(*     or a constant tile, and from the scratchpad only the region of the  *)
(*     store its operand stands for (LoadsReadOperands);                   *)
(*   - the code of an op changes its own buffer, or its own region of the  *)
(*     scratchpad, and nothing else (OnlyTheResultChanges);                *)
(*   - the padding of every buffer is zero (PaddingStaysZero).             *)
(*                                                                         *)
(* None of the three is inductive: the machine sees instructions, and the  *)
(* properties speak of ops.  CompilerProofs annotates the text: before and *)
(* after each instruction it says what is known of the registers and of    *)
(* the tiles.  The machine is at an instruction of that text, and its      *)
(* registers hold what is known of them there (MachineInv); so do its      *)
(* tiles, and the data section has its padding (TilesInv).                 *)
(***************************************************************************)
EXTENDS CompilerProofs

-----------------------------------------------------------------------------
(* Where the cells of a tile lie.                                          *)

LEMMA EmitIs ==
  ASSUME NEW i, NEW op, NEW d, NEW x, NEW y, <<i>> = Emit(op, d, x, y)
  PROVE  i.op = op /\ i.dst = d /\ i.src1 = x /\ i.src2 = y
<1>1. i = [op |-> op, dst |-> d, src1 |-> x, src2 |-> y]
  BY DEF Emit
<1> QED
  BY <1>1

LEMMA MoveIs ==
  ASSUME NEW i, NEW op, NEW m, NEW r, NEW o, NEW stride, NEW scratch,
         <<i>> = Move(op, m, r, o, stride, scratch)
  PROVE  /\ i.op = op
         /\ i.dst.kind = "Register" /\ i.dst.cls = "Matrix" /\ i.dst.idx = m
         /\ i.src1.kind = "Memory" /\ i.src1.idx = r /\ i.src1.imm = o
         /\ i.src1.stride = stride /\ i.src1.scratchpad = scratch
<1>1. i.op = op /\ i.dst = Mat(m) /\ i.src1 = ISA!MemOperand(r, o, stride, scratch)
  BY EmitIs DEF Move
<1> QED
  BY <1>1 DEF Mat, ISA!RegOperand, ISA!MemOperand

\* A cell of a tile, by its row and its column.
LEMMA CellOf ==
  ASSUME NEW c \in 0 .. kTileElems - 1
  PROVE  /\ Sim!Row(c) \in 0 .. kTileDim - 1 /\ Sim!Col(c) \in 0 .. kTileDim - 1
         /\ c = Sim!Row(c) * kTileDim + Sim!Col(c)
<1> DEFINE d == kTileDim
           r == c \div d
           x == c % d
<1>1. d \in Nat \ {0} /\ c \in Nat /\ c < d * d
  <2>1. d \in Nat \ {0} /\ d * d \in Nat
    BY IRAssumption, ProductType
  <2> HIDE DEF d
  <2> QED
    BY <2>1 DEF kTileElems, d
<1> HIDE DEF d
<1>2. r \in Int /\ x \in 0 .. d - 1 /\ c = r * d + x
  BY <1>1
<1> HIDE DEF r, x
<1>3. ~(r < 0)
  <2> SUFFICES ASSUME r <= -1 PROVE FALSE
    BY <1>2
  <2>1. r * d <= -1 * d
    BY <1>1, <1>2
  <2> QED
    BY <1>1, <1>2, <2>1
<1>4. ~(r >= d)
  <2> SUFFICES ASSUME r >= d PROVE FALSE
    OBVIOUS
  <2>1. r * d >= d * d
    BY <1>1, <1>2
  <2> QED
    BY <1>1, <1>2, <2>1
<1>5. r \in 0 .. d - 1
  BY <1>1, <1>2, <1>3, <1>4
<1> QED
  BY <1>2, <1>5 DEF d, r, x, Sim!Row, Sim!Col

LEMMA ContiguousCell ==
  ASSUME NEW i, i.dst.cls = "Matrix", i.src1.stride = 0, Sim!Address(i) \in Int,
         NEW c \in 0 .. kTileElems - 1
  PROVE  Sim!CellAddr(i, c) = Sim!Address(i) + c
<1> DEFINE e == kTileElems
           x == Sim!Address(i)
<1>1. e \in Nat \ {0} /\ c \in 0 .. e - 1 /\ c \in Int
  BY IRAssumption, ProductType DEF kTileElems
<1>2. Sim!RowLen(i) = e /\ Sim!RowAddr(i, 0) = x + 0 * 0
  BY DEF Sim!RowLen, Sim!Strided, Sim!RowAddr, Sim!kTileElems, kTileElems
<1> HIDE DEF e, x
<1>3. c \div e = 0 /\ c % e = c
  BY <1>1, QuotientIs, c = 0 * e + c
<1>4. Sim!CellAddr(i, c) = Sim!RowAddr(i, 0) + c
  BY <1>2, <1>3 DEF Sim!CellAddr, Sim!CellRow
<1> QED
  BY <1>2, <1>4 DEF x

LEMMA StridedCell ==
  ASSUME NEW i, i.dst.cls = "Matrix", i.src1.stride # 0
  PROVE  \A c : Sim!CellAddr(i, c) =
                  Sim!Address(i) + Sim!Row(c) * i.src1.stride + Sim!Col(c)
<1>1. Sim!RowLen(i) = kTileDim
  BY DEF Sim!RowLen, Sim!Strided
<1> QED
  BY <1>1 DEF Sim!CellAddr, Sim!CellRow, Sim!RowAddr, Sim!Row, Sim!Col

\* The word of a buffer that cell c of its tile (b, ti, tj) is.
wordOf(s, b, ti, tj, c) ==
  b * batchWords(s) + (ti * kTileDim + Sim!Row(c)) * pad(s.cols)
  + (tj * kTileDim + Sim!Col(c))

\* It is padding when its row or its column is past what is live of the tile.
LEMMA WordOfTile ==
  ASSUME NEW s \in TensorShape, NEW b \in Int, NEW ti \in Int, NEW tj \in Int,
         TileOf(s, b, ti, tj), NEW c \in 0 .. kTileElems - 1
  PROVE  LET k == wordOf(s, b, ti, tj, c) IN
         /\ k \in 0 .. bufferWords(s) - 1
         /\ DeadWord(s, k) <=> \/ Sim!Row(c) >= liveOf(s.rows, ti)
                               \/ Sim!Col(c) >= liveOf(s.cols, tj)
<1> DEFINE d == kTileDim
           tr == tilesOf(s.rows)
           tc == tilesOf(s.cols)
           r == Sim!Row(c)
           l == Sim!Col(c)
           cp == pad(s.cols)
           pr == pad(s.rows)
           bw == batchWords(s)
           y == ti * d + r
           z == tj * d + l
           w == y * cp + z
           k == wordOf(s, b, ti, tj, c)
<1>1. /\ d \in Nat \ {0} /\ tr \in Nat \ {0} /\ tc \in Nat \ {0} /\ cp = tc * d /\ pr = tr * d
      /\ cp \in Nat \ {0} /\ pr \in Nat \ {0} /\ bw \in Nat \ {0} /\ bw = pr * cp
      /\ bufferWords(s) = s.batch * bw
      /\ s.batch \in Nat \ {0} /\ s.rows \in Nat \ {0} /\ s.cols \in Nat \ {0}
  BY WordsType, PadType DEF batchWords, bufferWords
<1>2. r \in 0 .. d - 1 /\ l \in 0 .. d - 1
  BY CellOf
<1>3. b \in 0 .. s.batch - 1 /\ ti \in 0 .. tr - 1 /\ tj \in 0 .. tc - 1
  BY DEF TileOf
<1>4. k = b * bw + w
  BY <1>1, <1>2, <1>3 DEF wordOf
<1> HIDE DEF d, tr, tc, r, l, cp, pr, bw, k
<1>5. y \in 0 .. pr - 1
  <2>1. ti * d \in Nat /\ ti * d + d <= tr * d
    BY <1>1, <1>3
  <2> QED
    BY <1>1, <1>2, <1>3, <2>1
<1>6. z \in 0 .. cp - 1
  <2>1. tj * d \in Nat /\ tj * d + d <= tc * d
    BY <1>1, <1>3
  <2> QED
    BY <1>1, <1>2, <1>3, <2>1
<1>7. w \in 0 .. bw - 1
  <2> HIDE DEF y, z
  <2>1. y * cp \in Nat /\ y * cp + cp <= pr * cp
    BY <1>1, <1>5
  <2> QED
    BY <1>1, <1>5, <1>6, <2>1
<1>8. k \in 0 .. s.batch * bw - 1
  <2> HIDE DEF w
  <2>1. b * bw \in Nat /\ b * bw + bw <= s.batch * bw
    BY <1>1, <1>3
  <2> QED
    BY <1>1, <1>3, <1>4, <1>7, <2>1
<1>9. k % bw = w
  <2> HIDE DEF w
  <2> QED
    BY <1>1, <1>4, <1>7, QuotientIs
<1>10. w \div cp = y /\ w % cp = z
  <2>1. y \in Int /\ w = y * cp + z
    BY <1>5
  <2> HIDE DEF w, y, z
  <2> QED
    BY <1>1, <1>6, <2>1, QuotientIs
<1>11. DeadWord(s, k) <=> y >= s.rows \/ z >= s.cols
  BY <1>9, <1>10 DEF DeadWord, bw, cp
<1>12. (y >= s.rows <=> r >= s.rows - ti * d) /\ (z >= s.cols <=> l >= s.cols - tj * d)
  BY <1>1, <1>2, <1>3
<1> QED
  BY <1>1, <1>8, <1>11, <1>12 DEF k, r, l, liveOf, d

\* The addresses of an instruction that moves a tile of a buffer.
LEMMA BufferCell ==
  ASSUME Ready, FitsInWords, NEW q \in DOMAIN buffers, NEW r, R[r] = buffers[q].addr,
         NEW b \in Int, NEW ti \in Int, NEW tj \in Int, TileOf(heap[q].shape, b, ti, tj),
         NEW op, NEW m, NEW i, <<i>> = BufferTile(op, m, r, q, b, ti, tj),
         NEW c \in 0 .. kTileElems - 1
  PROVE  Sim!CellAddr(i, c) = buffers[q].addr + wordOf(heap[q].shape, b, ti, tj, c)
<1> DEFINE s == heap[q].shape
           a == buffers[q].addr
           d == kTileDim
           bw == batchWords(s)
           cp == pad(s.cols)
           stride == IF cp = d THEN 0 ELSE cp
           x == Sim!Row(c)
           y == Sim!Col(c)
           o == b * bw + d * (ti * cp + tj)
<1>1. /\ s \in TensorShape /\ buffers[q].shape = s /\ buffers[q].cp = cp /\ a \in Nat
  BY BufferFacts
<1>2. d \in Nat \ {0} /\ bw \in Nat \ {0} /\ cp \in Nat \ {0}
  BY <1>1, WordsType
<1>3. x \in 0 .. d - 1 /\ y \in 0 .. d - 1 /\ c = x * d + y
  BY CellOf
<1>4. /\ i.dst.cls = "Matrix" /\ i.src1.idx = r /\ i.src1.imm = tileOffset(buffers[q], b, ti, tj)
      /\ i.src1.stride = strideOf(buffers[q])
  BY EmitIs DEF BufferTile, Move, Mat, ISA!RegOperand, ISA!MemOperand
<1>5. i.src1.imm = o /\ i.src1.stride = stride
  BY <1>1, <1>4 DEF tileOffset, strideOf
<1>6. Sim!Address(i) = a + o
  BY <1>4, <1>5 DEF Sim!Address
<1>7. a + wordOf(s, b, ti, tj, c) = a + (b * bw + (ti * d + x) * cp + (tj * d + y))
  BY DEF wordOf
<1> HIDE DEF d, bw, cp, x, y, a
<1>8. CASE cp = d
  <2>1. o \in Int
    BY <1>2
  <2>2. Sim!CellAddr(i, c) = a + o + c
    <3>1. a + o \in Int /\ i.src1.stride = 0
      BY <1>1, <1>5, <1>8, <2>1 DEF a
    <3> HIDE DEF o
    <3> QED
      BY <1>4, <1>6, <3>1, ContiguousCell
  <2>3. a + o + c = a + (b * bw + (ti * d + x) * cp + (tj * d + y))
    <3>1. d * (ti * d + tj) = ti * d * d + tj * d /\ (ti * d + x) * d = ti * d * d + x * d
      BY <1>2, <1>3
    <3> QED
      BY <1>1, <1>2, <1>3, <1>8, <3>1 DEF a
  <2> QED
    BY <1>7, <2>2, <2>3 DEF a
<1>9. CASE cp # d
  <2>1. Sim!CellAddr(i, c) = a + o + x * cp + y
    <3>1. i.src1.stride = cp /\ cp # 0
      BY <1>2, <1>5, <1>9
    <3> HIDE DEF o
    <3> QED
      BY <1>4, <1>6, <3>1, StridedCell DEF x, y
  <2>2. a + o + x * cp + y = a + (b * bw + (ti * d + x) * cp + (tj * d + y))
    <3>1. d * (ti * cp + tj) = ti * d * cp + tj * d /\ (ti * d + x) * cp = ti * d * cp + x * cp
      BY <1>2, <1>3
    <3> QED
      BY <1>1, <1>2, <1>3, <3>1 DEF a
  <2> QED
    BY <1>7, <2>1, <2>2 DEF a
<1> QED
  BY <1>8, <1>9

\* Of one that moves a tile of the scratchpad, or a tile of constants.
LEMMA ScratchCell ==
  ASSUME R[0] = 0, NEW t \in Int, NEW op, NEW m, NEW i, <<i>> = ScratchTile(op, m, t),
         NEW c \in 0 .. kTileElems - 1
  PROVE  /\ Sim!CellAddr(i, c) = kTileElems * t + c
         /\ Sim!CellAddr(i, c) \div kTileElems = t /\ Sim!CellAddr(i, c) % kTileElems = c
<1> DEFINE e == kTileElems
<1>1. e \in Nat \ {0} /\ c \in 0 .. e - 1
  BY IRAssumption, ProductType DEF kTileElems
<1>2. i.dst.cls = "Matrix" /\ i.src1.idx = 0 /\ i.src1.imm = e * t /\ i.src1.stride = 0
  BY EmitIs DEF ScratchTile, Move, Mat, ISA!RegOperand, ISA!MemOperand
<1> HIDE DEF e
<1>3. e * t \in Int /\ 0 + e * t = e * t
  BY <1>1
<1>4. Sim!Address(i) = e * t
  BY <1>2, <1>3 DEF Sim!Address
<1>5. Sim!CellAddr(i, c) = e * t + c
  BY <1>2, <1>3, <1>4, ContiguousCell
<1>6. e * t + c = t * e + c
  BY <1>1
<1>7. (e * t + c) \div e = t /\ (e * t + c) % e = c
  <2> DEFINE k == e * t + c
  <2>1. k = t * e + c
    BY <1>6
  <2> HIDE DEF k
  <2>2. k \div e = t /\ k % e = c
    BY <1>1, <2>1, QuotientIs
  <2> QED
    BY <2>2 DEF k
<1> QED
  BY <1>5, <1>7 DEF e

LEMMA ConstantCell ==
  ASSUME R[0] = 0, NEW t \in Int, NEW op, NEW m, NEW i, <<i>> = Move(op, m, 0, t, 0, FALSE),
         NEW c \in 0 .. kTileElems - 1
  PROVE  Sim!CellAddr(i, c) = t + c
<1>1. i.dst.cls = "Matrix" /\ i.src1.idx = 0 /\ i.src1.imm = t /\ i.src1.stride = 0
  BY EmitIs DEF Move, Mat, ISA!RegOperand, ISA!MemOperand
<1>2. Sim!Address(i) = t
  BY <1>1 DEF Sim!Address
<1> QED
  BY <1>1, <1>2, ContiguousCell

-----------------------------------------------------------------------------
(* What an instruction of the text does to the machine.                    *)

\* It retires and the next one follows, or it stops the machine.
Advances == pc' = pc + 1 /\ halted' = halted
Stops    == pc' = pc /\ halted' = TRUE

LEMMA RunCases ==
  ASSUME Sim!Run
  PROVE  /\ UNCHANGED code
         /\ \/ /\ UNCHANGED <<R, M, memory, scratchpad, dramWords, pc>> /\ (halted => halted')
               /\ phase' # "idle"
            \/ /\ phase = "running" /\ ~halted /\ pc < Len(code) /\ Sim!Step
<1>1. CASE Sim!StartRun \/ Sim!LimitReached \/ Sim!EndRun \/ Sim!Finalize \/ Sim!ReturnFromRun
  BY <1>1 DEF Sim!StartRun, Sim!LimitReached, Sim!EndRun, Sim!Finalize, Sim!ReturnFromRun,
     Sim!BeginRun, Sim!LeaveLoop, Sim!FinalizeIteration, Sim!FinalizeEnd, Sim!Fail,
     Sim!simVars, Sim!files, Sim!spaces
<1>2. CASE Sim!Step
  <2>1. UNCHANGED code /\ phase = "running" /\ ~halted /\ pc < Len(code)
    BY <1>2, Zenon DEF Sim!Step, Sim!Executing, Sim!LoopContinues, Sim!Nop, Sim!Halt, Sim!ScalarArith,
       Sim!Vector, Sim!Matrix, Sim!Convert, Sim!VectorReduce, Sim!RowReduce, Sim!ExecLoad,
       Sim!ExecStore, Sim!Br, Sim!CondBranch, Sim!Jmp, Sim!Call, Sim!Ret, Sim!RuntimePrint,
       Sim!RuntimeSoftmax, Sim!UnknownRuntime, Sim!Retire, Sim!RetireAt, Sim!Fault,
       Sim!FinishTransfer, Sim!Jump, Sim!RetireRuntime
  <2> QED
    BY <1>2, <2>1, Zenon
<1> QED
  BY <1>1, <1>2 DEF Sim!Run

\* The handler of an instruction of the text.
LEMMA Handled ==
  ASSUME Sim!Step
  PROVE  /\ Sim!Inst.op = "HALT" => Sim!Halt
         /\ Sim!Inst.op = "ADD" => Sim!ScalarArith
         /\ Sim!Inst.op = "LOAD" => Sim!ExecLoad
         /\ Sim!Inst.op = "STORE" => Sim!ExecStore
         /\ Sim!Inst.op \in {"MATMUL", "MATMULACC", "MATMULRELU", "RELU", "TRANSPOSE"} => Sim!Matrix
         /\ Sim!Inst.op = "CALL" /\ Sim!Inst.dst.imm = -1 => Sim!RuntimePrint
         /\ Sim!Inst.op = "CALL" /\ Sim!Inst.dst.imm = -2 => Sim!RuntimeSoftmax
<1> DEFINE op == Sim!Inst.op
<1>1. /\ Sim!Nop => op = "NOP"
      /\ Sim!Halt => op = "HALT"
      /\ Sim!ScalarArith => op \in {"ADD", "SUB", "MUL"}
      /\ Sim!Vector => op \in {"VADD", "VMUL"}
      /\ Sim!Matrix => op \in {"MATMUL", "MATMULACC", "MATMULRELU", "RELU", "TRANSPOSE"}
      /\ Sim!Convert => op \in {"CVT_F32_BF16", "CVT_BF16_F32"}
      /\ Sim!VectorReduce => op = "VREDSUM"
      /\ Sim!RowReduce => op \in {"MROWMAX", "MROWSUM"}
      /\ Sim!ExecLoad => op = "LOAD"
      /\ Sim!ExecStore => op = "STORE"
      /\ Sim!Br => op = "BR"
      /\ Sim!CondBranch => op \in {"BEQ", "BNE"}
      /\ Sim!Jmp => op = "JMP"
      /\ Sim!Ret => op = "RET"
  BY DEF Sim!Executing, Sim!Nop, Sim!Halt, Sim!ScalarArith,
     Sim!Vector, Sim!Matrix, Sim!Convert, Sim!VectorReduce, Sim!RowReduce, Sim!ExecLoad,
     Sim!ExecStore, Sim!Br, Sim!CondBranch, Sim!Jmp, Sim!Ret, Sim!ScalarArithOps, Sim!VectorOps,
     Sim!MatrixOps, Sim!MatMulFamily, Sim!ConvertOps
<1>2. /\ Sim!Call => op = "CALL" /\ Sim!Inst.dst.imm >= 0
      /\ Sim!RuntimePrint => op = "CALL" /\ Sim!Inst.dst.imm = -1 - 0
      /\ Sim!RuntimeSoftmax => op = "CALL" /\ Sim!Inst.dst.imm = -1 - 1
      /\ Sim!UnknownRuntime => op = "CALL" /\ Sim!Inst.dst.imm # -1 - 0 /\ Sim!Inst.dst.imm # -1 - 1
  BY DEF Sim!Executing, Sim!Call, Sim!RuntimePrint, Sim!RuntimeSoftmax, Sim!UnknownRuntime,
     Sim!RuntimeId
<1>3. -1 - 0 = -1 /\ -1 - 1 = -2 /\ ~(-1 >= 0) /\ ~(-2 >= 0) /\ -1 # -2
  OBVIOUS
<1> QED
  BY <1>1, <1>2, <1>3 DEF Sim!Step

LEMMA RetiresOrStops ==
  /\ \A n : Sim!RetireAt(pc + 1, n) /\ UNCHANGED halted => Advances
  /\ Sim!Fault => Stops
  /\ \A n, m : Sim!RetireRuntime(n, m) => Advances
BY DEF Sim!RetireAt, Sim!Fault, Sim!RetireRuntime, Advances, Stops

LEMMA LoadEffect ==
  ASSUME Sim!ExecLoad, Sim!Inst.dst.cls = "Matrix", Sim!Inst.src1.kind = "Memory"
  PROVE  /\ UNCHANGED <<R, memory, scratchpad, dramWords>>
         /\ \E wild \in [0 .. kTileElems - 1 -> Wild] :
              M' = [M EXCEPT ![Sim!Inst.dst.idx] =
                      Sim!CellsRead(Sim!Inst, M[Sim!Inst.dst.idx], wild)]
         /\ \/ Advances /\ Sim!RowsDone(Sim!Inst) = Sim!RowsOf(Sim!Inst)
            \/ Stops
<1>1. Sim!IsTransfer(Sim!Inst) /\ Sim!CellsOf(Sim!Inst.dst.cls) = 0 .. kTileElems - 1
      /\ Sim!RegisterCells(Sim!Inst) = M[Sim!Inst.dst.idx]
  BY DEF Sim!IsTransfer, Sim!CellsOf, Sim!TileCells, Sim!kTileElems, kTileElems, Sim!RegisterCells
<1>2. PICK wild \in [0 .. kTileElems - 1 -> Wild] :
        /\ UNCHANGED R
        /\ M' = [M EXCEPT ![Sim!Inst.dst.idx] =
                   Sim!CellsRead(Sim!Inst, M[Sim!Inst.dst.idx], wild)]
  BY <1>1 DEF Sim!ExecLoad
<1>3. Sim!FinishTransfer /\ UNCHANGED <<memory, scratchpad, dramWords>>
  BY <1>1 DEF Sim!ExecLoad, Sim!spaces
<1>4. \/ Advances /\ Sim!RowsDone(Sim!Inst) = Sim!RowsOf(Sim!Inst)
      \/ Stops
  BY <1>3, RetiresOrStops DEF Sim!FinishTransfer
<1> QED
  BY <1>2, <1>3, <1>4

LEMMA StoreEffect ==
  ASSUME Sim!ExecStore, Sim!Inst.dst.cls = "Matrix", Sim!Inst.src1.kind = "Memory"
  PROVE  /\ UNCHANGED <<R, M, dramWords>>
         /\ Sim!Inst.src1.scratchpad =>
              /\ UNCHANGED memory
              /\ scratchpad' = Sim!ArrayWritten(Sim!Inst, M[Sim!Inst.dst.idx])
         /\ ~Sim!Inst.src1.scratchpad =>
              /\ UNCHANGED scratchpad
              /\ memory' = Sim!ArrayWritten(Sim!Inst, M[Sim!Inst.dst.idx])
         /\ \/ Advances /\ Sim!RowsDone(Sim!Inst) = Sim!RowsOf(Sim!Inst)
            \/ Stops
<1>1. Sim!IsTransfer(Sim!Inst) /\ Sim!RegisterCells(Sim!Inst) = M[Sim!Inst.dst.idx]
  BY DEF Sim!IsTransfer, Sim!RegisterCells
<1>2. /\ Sim!Inst.src1.scratchpad =>
           /\ UNCHANGED memory
           /\ scratchpad' = Sim!ArrayWritten(Sim!Inst, M[Sim!Inst.dst.idx])
      /\ ~Sim!Inst.src1.scratchpad =>
           /\ UNCHANGED scratchpad
           /\ memory' = Sim!ArrayWritten(Sim!Inst, M[Sim!Inst.dst.idx])
  BY <1>1 DEF Sim!ExecStore
<1>3. Sim!FinishTransfer /\ UNCHANGED <<R, M, dramWords>>
  BY <1>1 DEF Sim!ExecStore, Sim!files
<1>4. \/ Advances /\ Sim!RowsDone(Sim!Inst) = Sim!RowsOf(Sim!Inst)
      \/ Stops
  BY <1>3, RetiresOrStops DEF Sim!FinishTransfer
<1> QED
  BY <1>2, <1>3, <1>4

LEMMA MatrixEffect ==
  ASSUME Sim!Matrix
  PROVE  /\ UNCHANGED <<R, memory, scratchpad, dramWords>>
         /\ \/ /\ Advances
               /\ M' = [M EXCEPT ![Sim!Inst.dst.idx] =
                          Sim!matrixResult(Sim!Inst.op, M[Sim!Inst.dst.idx], M[Sim!Inst.src1.idx],
                            M[(IF Sim!Inst.op \in {"MATMUL", "MATMULACC", "MATMULRELU"}
                               THEN Sim!Inst.src2 ELSE Sim!Inst.src1).idx])]
            \/ Stops /\ UNCHANGED M
<1>1. UNCHANGED <<R, memory, scratchpad, dramWords>>
  BY DEF Sim!Matrix, Sim!spaces
<1> QED
  BY <1>1, RetiresOrStops DEF Sim!Matrix, Sim!Retire, Sim!MatMulFamily

LEMMA AddEffect ==
  ASSUME Sim!ScalarArith, NEW r, NEW n, <<Sim!Inst>> = Emit("ADD", Reg(r), Reg(0), Num(n))
  PROVE  /\ UNCHANGED <<M, memory, scratchpad, dramWords>> /\ Advances
         /\ R' = [R EXCEPT ![r] = Sim!Wrap(R[0] + Sim!Wrap(n))]
<1>1. /\ Sim!Inst.op = "ADD"
      /\ Sim!Inst.dst.kind = "Register" /\ Sim!Inst.dst.cls = "Scalar" /\ Sim!Inst.dst.idx = r
      /\ Sim!Inst.src1.kind = "Register" /\ Sim!Inst.src1.cls = "Scalar" /\ Sim!Inst.src1.idx = 0
      /\ Sim!Inst.src2.kind = "Immediate" /\ Sim!Inst.src2.imm = n
  BY EmitIs DEF Reg, Num, ISA!RegOperand, ISA!ImmOperand, ISA!Value
<1>2. UNCHANGED <<M, memory, scratchpad, dramWords>>
  BY DEF Sim!ScalarArith, Sim!spaces
<1>3. R' = [R EXCEPT ![r] = Sim!arith("ADD", R[0], Sim!Wrap(n))] /\ Advances
  BY <1>1, RetiresOrStops DEF Sim!ScalarArith, Sim!IsReg, Sim!Retire
<1>4. Sim!arith("ADD", R[0], Sim!Wrap(n)) = Sim!Wrap(R[0] + Sim!Wrap(n))
  BY DEF Sim!arith
<1> QED
  BY <1>2, <1>3, <1>4

LEMMA CallEffect ==
  /\ Sim!RuntimePrint => UNCHANGED <<R, M, memory, scratchpad, dramWords>> /\ (Advances \/ Stops)
  /\ Sim!RuntimeSoftmax =>
       /\ UNCHANGED <<R, M, scratchpad, dramWords>>
       /\ \/ /\ Advances
             /\ memory' = [a \in DOMAIN memory |->
                             IF a - R[2] \in 0 .. Sim!SoftmaxWords - 1
                             THEN IF Sim!SoftmaxLive(a - R[2]) THEN 1 ELSE 0
                             ELSE memory[a]]
          \/ Stops /\ UNCHANGED memory
BY RetiresOrStops DEF Sim!RuntimePrint, Sim!RuntimeSoftmax, Sim!files, Sim!spaces

-----------------------------------------------------------------------------
(* The machine runs the text from one end to the other, and its registers  *)
(* hold what the text was generated to put there.                          *)

RegistersHold(K) == \A r, n : <<r, n>> \in K.reg => R[r] = n

\* Memory holds the data section, and more.
Spaces ==
  /\ dramWords \in Nat /\ DOMAIN memory = 0 .. dramWords - 1
  /\ DOMAIN scratchpad = 0 .. ScratchpadWords - 1
  /\ phase # "idle" => data.end <= dramWords

MachineInv ==
  phase # "idle" /\ FitsInWords =>
    /\ code = assembly.code /\ pc \in 0 .. Len(text)
    /\ DOMAIN R = Sim!ScalarRegs /\ R[0] = 0
    /\ \E K : Annotates(emitter, text, K) /\ RegistersHold(K[pc + 1])

\* The handlers of the sorts of instruction.
LEMMA SortsHandled ==
  ASSUME Sim!Step, NEW p, NEW K, NEW L
  PROVE  /\ LoadsConstant(Sim!Inst, K, L) \/ LoadsTile(p, Sim!Inst, K, L)
              \/ LoadsStaged(p, Sim!Inst, K, L) =>
            /\ Sim!ExecLoad /\ L.reg \subseteq K.reg
            /\ Sim!Inst.dst.cls = "Matrix" /\ Sim!Inst.src1.kind = "Memory"
         /\ StoresTile(p, Sim!Inst, K, L) \/ StoresStaged(p, Sim!Inst, K, L) =>
            /\ Sim!ExecStore /\ L.reg \subseteq K.reg
            /\ Sim!Inst.dst.cls = "Matrix" /\ Sim!Inst.src1.kind = "Memory"
         /\ Multiplies(Sim!Inst, K, L) \/ Maps(Sim!Inst, K, L) =>
              Sim!Matrix /\ L.reg \subseteq K.reg
         /\ SetsRegister(Sim!Inst, K, L) => Sim!ScalarArith
         /\ ShowsTensor(Sim!Inst, K, L) => Sim!RuntimePrint /\ L.reg \subseteq K.reg
         /\ Normalises(p, Sim!Inst, K, L) => Sim!RuntimeSoftmax /\ L.reg \subseteq K.reg
<1>1. PICK i : i = Sim!Inst
  OBVIOUS
<1>2. \A m, zero, diagonal : TileChanges(K, L, m, zero, diagonal) => L.reg \subseteq K.reg
  BY DEF TileChanges
<1>3. ASSUME LoadsConstant(i, K, L) \/ LoadsTile(p, i, K, L) \/ LoadsStaged(p, i, K, L)
      PROVE  /\ i.op = "LOAD" /\ L.reg \subseteq K.reg
             /\ i.dst.cls = "Matrix" /\ i.src1.kind = "Memory"
  <2>1. PICK m, r, o, stride, scratch : <<i>> = Move("LOAD", m, r, o, stride, scratch)
    BY <1>3 DEF LoadsConstant, LoadsTile, LoadsStaged, BufferTile, ScratchTile
  <2>2. i.op = "LOAD" /\ i.dst.cls = "Matrix" /\ i.src1.kind = "Memory"
    BY <2>1, MoveIs
  <2>3. L.reg \subseteq K.reg
    BY <1>2, <1>3 DEF LoadsConstant, LoadsTile, LoadsStaged
  <2> QED
    BY <2>2, <2>3
<1>4. ASSUME StoresTile(p, i, K, L) \/ StoresStaged(p, i, K, L)
      PROVE  /\ i.op = "STORE" /\ L.reg \subseteq K.reg
             /\ i.dst.cls = "Matrix" /\ i.src1.kind = "Memory"
  <2>1. PICK m, r, o, stride, scratch : <<i>> = Move("STORE", m, r, o, stride, scratch)
    BY <1>4 DEF StoresTile, StoresStaged, BufferTile, ScratchTile
  <2>2. i.op = "STORE" /\ i.dst.cls = "Matrix" /\ i.src1.kind = "Memory"
    BY <2>1, MoveIs
  <2>3. L.reg \subseteq K.reg
    BY <1>4 DEF StoresTile, StoresStaged, StagedChanges, Below
  <2> QED
    BY <2>2, <2>3
<1>5. ASSUME Multiplies(i, K, L) \/ Maps(i, K, L)
      PROVE  /\ i.op \in {"MATMUL", "MATMULACC", "MATMULRELU", "RELU", "TRANSPOSE"}
             /\ L.reg \subseteq K.reg
  <2>1. PICK op \in {"MATMUL", "MATMULACC", "MATMULRELU", "RELU", "TRANSPOSE"} :
          \E d, x, y : <<i>> = Emit(op, d, x, y)
    BY <1>5 DEF Multiplies, Maps
  <2>2. i.op = op
    BY <2>1, EmitIs
  <2>3. L.reg \subseteq K.reg
    BY <1>2, <1>5 DEF Multiplies, Maps
  <2> QED
    BY <2>1, <2>2, <2>3
<1>6. ASSUME SetsRegister(i, K, L)
      PROVE  i.op = "ADD"
  <2>1. PICK d, x, y : <<i>> = Emit("ADD", d, x, y)
    BY <1>6 DEF SetsRegister
  <2> QED
    BY <2>1, EmitIs
<1>7. ASSUME NEW n, <<i>> = Emit("CALL", ISA!LabelOperand(n), ISA!NoOperand, ISA!NoOperand)
      PROVE  i.op = "CALL" /\ i.dst.imm = n
  <2>1. i.op = "CALL" /\ i.dst = ISA!LabelOperand(n)
    BY <1>7, EmitIs
  <2> QED
    BY <2>1 DEF ISA!LabelOperand, ISA!Value
<1>8. ASSUME ShowsTensor(i, K, L)
      PROVE  i.op = "CALL" /\ i.dst.imm = -1 /\ L.reg \subseteq K.reg
  BY <1>7, <1>8 DEF ShowsTensor, Below
<1>9. ASSUME Normalises(p, i, K, L)
      PROVE  i.op = "CALL" /\ i.dst.imm = -2 /\ L.reg \subseteq K.reg
  BY <1>7, <1>9 DEF Normalises, Below
<1> QED
  BY <1>1, <1>3, <1>4, <1>5, <1>6, <1>8, <1>9, Handled

LEMMA WrapsNothing ==
  ASSUME NEW n \in Sim!Word
  PROVE  Sim!Wrap(0 + Sim!Wrap(n)) = n
<1> DEFINE h == HalfWord
<1>1. h \in Nat \ {0} /\ n \in -h .. h - 1
  BY PipelineAssumption DEF Sim!Word
<1> HIDE DEF h
<1>2. (n + h) % (2 * h) = n + h
  <2>1. 2 * h \in Nat \ {0} /\ n + h \in 0 .. 2 * h - 1 /\ n + h = 0 * (2 * h) + (n + h)
    BY <1>1
  <2> QED
    BY <2>1, QuotientIs
<1>3. Sim!Wrap(n) = n
  BY <1>1, <1>2 DEF Sim!Wrap, h
<1>4. 0 + n = n
  BY <1>1
<1> QED
  BY <1>3, <1>4

LEMMA RegistersStep ==
  ASSUME Sim!Step, NEW p, NEW K, NEW L, Follows(p, Sim!Inst, K, L), RegistersHold(K),
         DOMAIN R = Sim!ScalarRegs, R[0] = 0
  PROVE  /\ DOMAIN R' = Sim!ScalarRegs /\ R'[0] = 0
         /\ \/ Advances /\ RegistersHold(L)'
            \/ Stops /\ UNCHANGED R
<1>1. CASE SetsRegister(Sim!Inst, K, L)
  <2>1. PICK r \in 1 .. 15 : \E n : <<Sim!Inst>> = Emit("ADD", Reg(r), Reg(0), Num(n))
                                      /\ RegisterChanges(K, L, r, n)
    BY <1>1 DEF SetsRegister
  <2>2. PICK n : <<Sim!Inst>> = Emit("ADD", Reg(r), Reg(0), Num(n))
                   /\ RegisterChanges(K, L, r, n)
    BY <2>1
  <2>3. R' = [R EXCEPT ![r] = Sim!Wrap(0 + Sim!Wrap(n))] /\ Advances
    BY <1>1, <2>2, AddEffect, SortsHandled
  <2>4. r \in Sim!ScalarRegs /\ r # 0 /\ 0 \in Sim!ScalarRegs
    BY DEF Sim!ScalarRegs
  <2>5. DOMAIN R' = Sim!ScalarRegs /\ R'[0] = 0 /\ R'[r] = Sim!Wrap(0 + Sim!Wrap(n))
        /\ \A x \in Sim!ScalarRegs : x # r => R'[x] = R[x]
    BY <2>3, <2>4
  <2>6. ASSUME NEW x, NEW v, <<x, v>> \in L.reg
        PROVE  R'[x] = v
    <3>1. CASE x = r
      <4>1. v = n /\ n \in Sim!Word
        BY <2>2, <2>6, <3>1 DEF RegisterChanges
      <4> QED
        BY <2>5, <3>1, <4>1, WrapsNothing
    <3>2. CASE x # r
      <4>1. R[x] = v
        BY <2>2, <2>6, <3>2 DEF RegisterChanges, RegistersHold
      <4>2. R'[x] = R[x]
        BY <2>3, <3>2
      <4> QED
        BY <4>1, <4>2
    <3> QED
      BY <3>1, <3>2
  <2>7. RegistersHold(L)'
    BY <2>6 DEF RegistersHold
  <2> QED
    BY <2>3, <2>5, <2>7
<1>2. CASE L.reg \subseteq K.reg /\ UNCHANGED R /\ (Advances \/ Stops)
  <2>1. RegistersHold(L)'
    BY <1>2 DEF RegistersHold
  <2> QED
    BY <1>2, <2>1
<1>3. CASE ~SetsRegister(Sim!Inst, K, L)
  <2>1. CASE LoadsConstant(Sim!Inst, K, L) \/ LoadsTile(p, Sim!Inst, K, L)
             \/ LoadsStaged(p, Sim!Inst, K, L)
    BY <1>2, <2>1, SortsHandled, LoadEffect
  <2>2. CASE StoresTile(p, Sim!Inst, K, L) \/ StoresStaged(p, Sim!Inst, K, L)
    BY <1>2, <2>2, SortsHandled, StoreEffect
  <2>3. CASE Multiplies(Sim!Inst, K, L) \/ Maps(Sim!Inst, K, L)
    BY <1>2, <2>3, SortsHandled, MatrixEffect
  <2>4. CASE ShowsTensor(Sim!Inst, K, L) \/ Normalises(p, Sim!Inst, K, L)
    BY <1>2, <2>4, SortsHandled, CallEffect
  <2> QED
    BY <1>3, <2>1, <2>2, <2>3, <2>4 DEF Follows
<1> QED
  BY <1>1, <1>3

\* The text, and the HALT after it.
LEMMA AssemblyIs ==
  ASSUME IsList(text)
  PROVE  /\ Len(text) \in Nat /\ Len(assembly.code) = Len(text) + 1
         /\ \A k \in 1 .. Len(text) : assembly.code[k] = text[k]
         /\ assembly.code[Len(text) + 1].op = "HALT"
<1> DEFINE i == [op |-> "HALT", dst |-> ISA!NoOperand, src1 |-> ISA!NoOperand,
                 src2 |-> ISA!NoOperand]
<1>1. assembly.code = text \o <<i>>
  BY DEF assembly, Emit
<1>2. IsList(<<i>>) /\ Len(<<i>>) = 1 /\ <<i>>[1] = i /\ 1 \in 1 .. 1 /\ i.op = "HALT"
  <2>1. <<i>> \in Seq({i}) /\ i.op = "HALT"
    OBVIOUS
  <2> HIDE DEF i
  <2>2. IsList(<<i>>)
    BY <2>1 DEF IsList
  <2>3. Len(<<i>>) = 1 /\ <<i>>[1] = i
    OBVIOUS
  <2> QED
    BY <2>1, <2>2, <2>3
<1> HIDE DEF i
<1> DEFINE one == <<i>>
<1> HIDE DEF one
<1>3. IsList(one) /\ Len(one) = 1 /\ one[1] = i /\ 1 \in 1 .. Len(one)
  BY <1>2 DEF one
<1>4. /\ Len(text) \in Nat /\ Len(text \o one) = Len(text) + Len(one)
      /\ \A k \in 1 .. Len(text) : (text \o one)[k] = text[k]
      /\ \A k \in 1 .. Len(one) : (text \o one)[Len(text) + k] = one[k]
  <2>1. Len(text) \in Nat /\ Len(text \o one) = Len(text) + Len(one)
    BY <1>3, ListsJoin
  <2>2. \A k \in 1 .. Len(text) : (text \o one)[k] = text[k]
    BY <1>3, ListsJoin
  <2>3. \A k \in 1 .. Len(one) : (text \o one)[Len(text) + k] = one[k]
    BY <1>3, ListsJoin
  <2> QED
    BY <2>1, <2>2, <2>3
<1>5. assembly.code = text \o one
  BY <1>1 DEF one
<1>6. assembly.code[Len(text) + 1] = i
  <2>1. (text \o one)[Len(text) + 1] = one[1]
    BY <1>3, <1>4
  <2> QED
    BY <1>3, <1>5, <2>1
<1> QED
  BY <1>2, <1>3, <1>4, <1>5, <1>6

\* The simulator runs once a program is loaded, and then nothing else does.
LEMMA RunsLoaded == Simulate => phase # "idle"
BY DEF Simulate, Sim!Run, Sim!StartRun, Sim!BeginRun, Sim!Step, Sim!LimitReached, Sim!EndRun,
   Sim!LeaveLoop, Sim!Finalize, Sim!FinalizeIteration, Sim!ReturnFromRun, Sim!FinalizeEnd,
   Sim!Executing, Sim!Nop, Sim!Halt, Sim!ScalarArith, Sim!Vector, Sim!Matrix, Sim!Convert,
   Sim!VectorReduce, Sim!RowReduce, Sim!ExecLoad, Sim!ExecStore, Sim!Br, Sim!CondBranch,
   Sim!Jmp, Sim!Call, Sim!Ret, Sim!RuntimePrint, Sim!RuntimeSoftmax, Sim!UnknownRuntime

LEMMA IdleStays ==
  ASSUME [PipelineNext]_allVars, phase = "idle", ~StartSimulation
  PROVE  UNCHANGED phase
<1>1. ~Simulate /\ ~Finished
  BY RunsLoaded DEF Finished
<1> QED
  BY <1>1 DEF PipelineNext, LowerNext, Accept, Optimise, Generate, allVars, simVars

LEMMA RunsOrStays ==
  ASSUME [PipelineNext]_allVars, phase # "idle"
  PROVE  Sim!Run \/ UNCHANGED simVars
<1>1. ~StartSimulation
  BY DEF StartSimulation, Sim!LoadImage
<1> QED
  BY <1>1 DEF PipelineNext, LowerNext, Accept, Optimise, Generate, Simulate, Finished, allVars

LEMMA SpacesStep ==
  ASSUME IRLayers, PhasesInv, LayoutInv, Spaces, [PipelineNext]_allVars
  PROVE  Spaces'
<1>1. CASE StartSimulation
  <2> DEFINE n == Len(data.words)
             h == HeadroomWords
             size == Sim!DramFor(data.words)
  <2>1. /\ dramWords' = size /\ DOMAIN memory' = 0 .. size - 1
        /\ DOMAIN scratchpad' = 0 .. ScratchpadWords - 1 /\ data' = data
        /\ Layout(buffers, Constants, data)
    BY <1>1 DEF StartSimulation, CompilerIdle, Sim!LoadImage, assembly, genVars, layoutVars,
       Generated, LayoutInv
  <2>2. n = data.end /\ n \in Nat /\ h \in Nat /\ dramWords \in Nat
    BY <2>1, PipelineAssumption DEF Layout, Spaces
  <2>3. size = IF dramWords > n + h THEN dramWords ELSE n + h
    BY DEF Sim!DramFor, Sim!MaxOf
  <2>4. size \in Nat /\ n <= size
    <3> HIDE DEF n, h, size
    <3> QED
      BY <2>2, <2>3
  <2> QED
    BY <2>1, <2>2, <2>4 DEF Spaces
<1>2. CASE Simulate
  <2>1. UNCHANGED <<genVars>> /\ phase # "idle"
    <3>1. phase # "idle"
      BY <1>2, RunsLoaded
    <3> QED
      BY <1>2, <3>1 DEF Simulate, CompilerIdle
  <2>2. /\ dramWords' = dramWords /\ DOMAIN memory' = DOMAIN memory
        /\ DOMAIN scratchpad' = DOMAIN scratchpad
    <3>1. CASE UNCHANGED <<memory, scratchpad, dramWords>>
      BY <3>1
    <3>2. CASE Sim!Step
      <4>1. CASE Sim!ExecStore
        <5>1. \A cells : DOMAIN Sim!ArrayWritten(Sim!Inst, cells)
                         = DOMAIN Sim!Array(Sim!Inst.src1.scratchpad)
          BY DEF Sim!ArrayWritten
        <5> QED
          BY <4>1, <5>1 DEF Sim!ExecStore, Sim!Array
      <4>2. CASE Sim!RuntimeSoftmax
        BY <4>2, CallEffect
      <4>3. CASE ~Sim!ExecStore /\ ~Sim!RuntimeSoftmax
        BY <3>1, <3>2, <4>3 DEF Sim!Step, Sim!Nop, Sim!Halt, Sim!ScalarArith, Sim!Vector,
           Sim!Matrix, Sim!Convert, Sim!VectorReduce, Sim!RowReduce, Sim!ExecLoad,
           Sim!Br, Sim!CondBranch, Sim!Jmp, Sim!Call, Sim!Ret,
           Sim!RuntimePrint, Sim!UnknownRuntime, Sim!spaces
      <4> QED
        BY <4>1, <4>2, <4>3
    <3> QED
      BY <1>2, <3>1, <3>2, RunCases DEF Simulate
  <2>3. data' = data
    BY <2>1 DEF genVars, layoutVars
  <2> QED
    BY <2>1, <2>2, <2>3 DEF Spaces
<1>3. CASE ~StartSimulation /\ ~Simulate
  <2>1. UNCHANGED simVars
    BY <1>3 DEF PipelineNext, LowerNext, Accept, Optimise, Generate, Finished, allVars
  <2>2. phase # "idle" => data' = data
    BY PhasesStep DEF genVars, layoutVars
  <2> QED
    BY <2>1, <2>2 DEF Spaces, simVars
<1> QED
  BY <1>1, <1>2, <1>3

LEMMA MachineStep ==
  ASSUME IRLayers, PhasesInv, LayoutInv, TextInv, MachineInv, [PipelineNext]_allVars
  PROVE  MachineInv'
<1> SUFFICES ASSUME phase' # "idle", FitsInWords'
             PROVE  MachineInv'
  BY DEF MachineInv
<1>1. CASE StartSimulation
  <2>1. /\ Generated /\ Sim!LoadImage(assembly) /\ UNCHANGED <<vars, genVars>>
    BY <1>1 DEF StartSimulation, CompilerIdle
  <2>2. FitsInWords /\ section = "text"
    BY <2>1 DEF FitsInWords, genVars, layoutVars, Generated
  <2>3. Runs(emitter, Nothing, text, Known(position))
    BY <2>2 DEF TextInv
  <2>4. PICK K : Annotates(emitter, text, K) /\ Below(K[1], Nothing)
    BY <2>3 DEF Runs
  <2>5. /\ code' = assembly.code /\ pc' = 0
        /\ DOMAIN R' = Sim!ScalarRegs /\ R'[0] = 0
    BY <2>1 DEF Sim!LoadImage, Sim!ScalarRegs, Sim!kRegSP, Sim!kRegFP
  <2>6. UNCHANGED <<heap, buffers, identity, scaleAddr, text, emitter>>
    BY <2>1 DEF vars, fn, genVars, layoutVars
  <2>7. Annotates(emitter, text, K)'
    <3>1. \A k \in 1 .. Len(text) : Follows(emitter[k], text[k], K[k], K[k + 1])'
      BY <2>4, <2>6, FollowsKept DEF Annotates
    <3> QED
      BY <2>6, <3>1 DEF Annotates
  <2>8. K[1].reg = {}
    BY <2>4 DEF Below, Nothing
  <2>9. RegistersHold(K[pc + 1])'
    BY <2>5, <2>8 DEF RegistersHold
  <2>10. pc' \in 0 .. Len(text')
    <3>1. Len(text) \in Nat
      BY <2>3, AssemblyIs DEF Runs
    <3> QED
      BY <2>5, <2>6, <3>1
  <2>11. assembly' = assembly
    BY <2>1 DEF assembly, genVars, layoutVars
  <2> QED
    BY <2>5, <2>7, <2>9, <2>10, <2>11 DEF MachineInv
<1>2. CASE phase # "idle"
  <2>1. UNCHANGED <<vars, genVars>> /\ section = "text" /\ FitsInWords
    BY <1>2, PhasesStep DEF PhasesInv, Generated, FitsInWords, genVars, layoutVars
  <2>2. UNCHANGED <<heap, buffers, identity, scaleAddr, text, emitter, assembly>>
    BY <2>1 DEF vars, fn, genVars, layoutVars, assembly
  <2>3. /\ code = assembly.code /\ pc \in 0 .. Len(text)
        /\ DOMAIN R = Sim!ScalarRegs /\ R[0] = 0
    BY <1>2, <2>1 DEF MachineInv
  <2>4. PICK K : Annotates(emitter, text, K) /\ RegistersHold(K[pc + 1])
    BY <1>2, <2>1 DEF MachineInv
  <2>5. Annotates(emitter, text, K)'
    <3>1. \A k \in 1 .. Len(text) : Follows(emitter[k], text[k], K[k], K[k + 1])'
      BY <2>2, <2>4, FollowsKept DEF Annotates
    <3> QED
      BY <2>2, <3>1 DEF Annotates
  <2>6. IsList(text)
    BY <2>1 DEF TextInv, Runs
  <2>7. CASE UNCHANGED <<R, pc, code>>
    <3>1. RegistersHold(K[pc + 1])'
      BY <2>4, <2>7 DEF RegistersHold
    <3> QED
      BY <2>2, <2>3, <2>5, <2>7, <3>1 DEF MachineInv
  <2>8. CASE Sim!Run
    <3>1. CASE Sim!Step /\ UNCHANGED code /\ pc < Len(code)
      <4>1. CASE pc = Len(text)
        <5>1. Sim!Inst.op = "HALT"
          BY <2>3, <2>6, <4>1, AssemblyIs DEF Sim!Inst
        <5>2. UNCHANGED <<R, pc, code>>
          BY <3>1, <5>1, Handled DEF Sim!Halt, Sim!files
        <5> QED
          BY <2>7, <5>2
      <4>2. CASE pc # Len(text)
        <5>1. Len(text) \in Nat /\ pc + 1 \in 1 .. Len(text) /\ pc + 1 \in 0 .. Len(text)
          BY <2>3, <2>6, <4>2, AssemblyIs
        <5>2. Sim!Inst = text[pc + 1]
          BY <2>3, <2>6, <5>1, AssemblyIs DEF Sim!Inst
        <5>3. Follows(emitter[pc + 1], Sim!Inst, K[pc + 1], K[(pc + 1) + 1])
          BY <2>4, <5>1, <5>2 DEF Annotates
        <5>4. PICK A, B, p : A = K[pc + 1] /\ B = K[(pc + 1) + 1] /\ p = emitter[pc + 1]
          OBVIOUS
        <5>5. /\ DOMAIN R' = Sim!ScalarRegs /\ R'[0] = 0
              /\ \/ Advances /\ RegistersHold(B)'
                 \/ Stops /\ UNCHANGED R
          BY <2>3, <2>4, <3>1, <5>3, <5>4, RegistersStep
        <5>6. CASE Stops /\ UNCHANGED R
          BY <2>7, <3>1, <5>6 DEF Stops
        <5>7. CASE Advances /\ RegistersHold(B)'
          <6>1. pc' = pc + 1
            BY <5>7 DEF Advances
          <6>2. K[pc' + 1] = B
            BY <5>4, <6>1
          <6>3. RegistersHold(K[pc + 1])'
            BY <5>7, <6>2 DEF RegistersHold
          <6> QED
            BY <2>2, <2>3, <2>5, <3>1, <5>1, <5>5, <6>1, <6>3 DEF MachineInv
        <5> QED
          BY <5>5, <5>6, <5>7
      <4> QED
        BY <4>1, <4>2
    <3> QED
      BY <2>7, <2>8, <3>1, RunCases
  <2>9. Sim!Run \/ UNCHANGED <<R, pc, code>>
    BY <1>2, RunsOrStays DEF simVars
  <2> QED
    BY <2>7, <2>8, <2>9
<1>3. CASE phase = "idle" /\ ~StartSimulation
  BY <1>3, IdleStays
<1> QED
  BY <1>1, <1>2, <1>3

-----------------------------------------------------------------------------
(* What the text reads and writes.                                         *)

LEMMA ReadyToRun ==
  ASSUME IRLayers, PhasesInv, LayoutInv, phase # "idle"
  PROVE  Ready /\ section = "text"
BY DEF PhasesInv, Generated, LayoutInv, Ready

\* The instruction that is executed next, and the rule it follows.
LEMMA NextFollows ==
  ASSUME TextInv, PhasesInv, MachineInv, phase # "idle", FitsInWords, pc < Len(text)
  PROVE  \E K, L : Follows(emitter[pc + 1], code[pc + 1], K, L) /\ RegistersHold(K)
<1>1. IsList(text)
  BY DEF PhasesInv, Generated, TextInv, Runs
<1>2. /\ code = assembly.code /\ pc \in 0 .. Len(text)
  BY DEF MachineInv
<1>3. PICK K : Annotates(emitter, text, K) /\ RegistersHold(K[pc + 1])
  BY DEF MachineInv
<1>4. pc + 1 \in 1 .. Len(text)
  BY <1>1, <1>2, AssemblyIs
<1>5. code[pc + 1] = text[pc + 1]
  BY <1>1, <1>2, <1>4, AssemblyIs
<1>6. Follows(emitter[pc + 1], code[pc + 1], K[pc + 1], K[(pc + 1) + 1])
  BY <1>3, <1>4, <1>5 DEF Annotates
<1> QED
  BY <1>3, <1>6

\* A tile of a buffer lies in the buffer.
LEMMA TileInBuffer ==
  ASSUME Ready, FitsInWords, NEW q \in DOMAIN buffers, NEW r, R[r] = buffers[q].addr,
         NEW b \in Int, NEW ti \in Int, NEW tj \in Int, TileOf(heap[q].shape, b, ti, tj),
         NEW op, NEW m, NEW i, <<i>> = BufferTile(op, m, r, q, b, ti, tj),
         NEW c \in 0 .. kTileElems - 1
  PROVE  Sim!CellAddr(i, c) \in BufferOf(q)
<1> DEFINE s == heap[q].shape
           k == wordOf(s, b, ti, tj, c)
           a == buffers[q].addr
           n == bufferWords(s)
<1>1. s \in TensorShape /\ buffers[q].shape = s /\ a \in Nat
  BY BufferFacts
<1>2. k \in 0 .. n - 1 /\ n \in Nat
  BY <1>1, WordOfTile, WordsType
<1>3. Sim!CellAddr(i, c) = a + k
  BY BufferCell
<1>4. BufferOf(q) = a .. a + n - 1
  BY <1>1 DEF BufferOf
<1> HIDE DEF a, k, n
<1>5. a + k \in a .. a + n - 1
  BY <1>1, <1>2 DEF a
<1> QED
  BY <1>3, <1>4, <1>5

\* A word of a buffer is of no other buffer, and of no tile of constants.
LEMMA BuffersApart ==
  ASSUME Ready, FitsInWords, NEW p \in DOMAIN buffers, NEW a \in BufferOf(p)
  PROVE  /\ \A q \in DOMAIN buffers : a \in BufferOf(q) => q = p
         /\ \A t \in Constants : \A c \in 0 .. kTileElems - 1 : a # t + c
<1> DEFINE x == buffers[p].addr
           m == bufferWords(heap[p].shape)
<1>1. x \in Nat /\ m \in Nat /\ a \in x .. x + m - 1
  BY BufferFacts, WordsType DEF BufferOf
<1>2. ASSUME NEW q \in DOMAIN buffers, q # p, a \in BufferOf(q)
      PROVE  FALSE
  <2> DEFINE y == buffers[q].addr
             n == bufferWords(heap[q].shape)
  <2>1. y \in Nat /\ n \in Nat /\ a \in y .. y + n - 1
    BY <1>2, BufferFacts, WordsType DEF BufferOf
  <2>2. Apart(x, m, y, n)
    BY <1>2 DEF Ready, Layout
  <2> HIDE DEF x, m, y, n
  <2> QED
    BY <1>1, <2>1, <2>2 DEF Apart
<1>3. ASSUME NEW t \in Constants, NEW c \in 0 .. kTileElems - 1
      PROVE  a # t + c
  <2> DEFINE e == kTileElems
  <2>1. t \in Nat /\ Apart(t, e, x, m)
    BY DEF Ready, Layout, ConstantAt
  <2>2. e \in Nat /\ c \in 0 .. e - 1
    BY IRAssumption, ProductType DEF kTileElems
  <2> HIDE DEF e, x, m
  <2> QED
    BY <1>1, <2>1, <2>2 DEF Apart
<1> QED
  BY <1>2, <1>3

LEMMA ReadsOperands ==
  ASSUME IRLayers, PhasesInv, LayoutInv, TextInv, MachineInv, FitsInWords
  PROVE  LoadsReadOperands
<1> SUFFICES ASSUME Executing("LOAD")
             PROVE  LET p == emitter[pc + 1] IN
                      IF code[pc + 1].src1.scratchpad
                      THEN \E q \in OperandSet(p) :
                             /\ heap[q].kind = "ScratchLoad"
                             /\ \A a \in Touched : a \div kTileElems \in Region(Operand(q, 1))
                      ELSE \/ \E t \in ConstantTiles : Touched \subseteq t
                           \/ p # Nobody /\ \E q \in OperandSet(p) \cap DOMAIN buffers :
                                              Touched \subseteq BufferOf(q)
  BY DEF LoadsReadOperands
<1>1. phase # "idle" /\ pc < Len(text) /\ Ready /\ R[0] = 0
  BY ReadyToRun DEF Executing, MachineInv
<1>2. PICK i, p : i = code[pc + 1] /\ p = emitter[pc + 1]
  OBVIOUS
<1>3. PICK K, L : Follows(p, i, K, L) /\ RegistersHold(K)
  BY <1>1, <1>2, NextFollows
<1>4. i.op = "LOAD" /\ Touched = {Sim!CellAddr(i, c) : c \in 0 .. kTileElems - 1}
  BY <1>2 DEF Executing, Touched
<1>5. CASE LoadsConstant(i, K, L)
  <2>1. PICK m \in Sim!MatrixRegs, t \in Constants : <<i>> = Move("LOAD", m, 0, t, 0, FALSE)
    BY <1>5 DEF LoadsConstant
  <2>2. ~i.src1.scratchpad
    BY <2>1, EmitIs DEF Move, ISA!MemOperand
  <2>3. t \in Nat /\ kTileElems \in Nat
    BY <1>1, IRAssumption, ProductType DEF Ready, Layout, ConstantAt, kTileElems
  <2>4. \A c \in 0 .. kTileElems - 1 : Sim!CellAddr(i, c) = t + c
    <3> SUFFICES ASSUME NEW c \in 0 .. kTileElems - 1
                 PROVE  Sim!CellAddr(i, c) = t + c
      OBVIOUS
    <3>1. i.dst.cls = "Matrix" /\ i.src1.idx = 0 /\ i.src1.imm = t /\ i.src1.stride = 0
      BY <2>1, EmitIs DEF Move, Mat, ISA!RegOperand, ISA!MemOperand
    <3>2. Sim!Address(i) = t /\ t \in Int
      BY <1>1, <2>3, <3>1 DEF Sim!Address
    <3> QED
      BY <3>1, <3>2, ContiguousCell
  <2>5. \A c \in 0 .. kTileElems - 1 : t + c \in t .. t + kTileElems - 1
    BY <2>3
  <2>6. Touched \subseteq t .. t + kTileElems - 1
    BY <1>4, <2>4, <2>5
  <2>7. t .. t + kTileElems - 1 \in ConstantTiles
    BY DEF Constants, ConstantTiles
  <2> QED
    BY <1>2, <2>2, <2>6, <2>7
<1>6. CASE LoadsTile(p, i, K, L)
  <2>1. PICK q \in OperandSet(p) \cap DOMAIN buffers, m \in Sim!MatrixRegs, r \in Sim!ScalarRegs :
          \E b, ti, tj \in Int :
            /\ TileOf(heap[q].shape, b, ti, tj) /\ <<r, buffers[q].addr>> \in K.reg
            /\ <<i>> = BufferTile("LOAD", m, r, q, b, ti, tj)
    BY <1>6 DEF LoadsTile
  <2>2. PICK b, ti, tj \in Int :
          /\ TileOf(heap[q].shape, b, ti, tj) /\ <<r, buffers[q].addr>> \in K.reg
          /\ <<i>> = BufferTile("LOAD", m, r, q, b, ti, tj)
    BY <2>1
  <2>3. ~i.src1.scratchpad
    BY <2>2, EmitIs DEF BufferTile, Move, ISA!MemOperand
  <2>4. R[r] = buffers[q].addr
    BY <1>3, <2>2 DEF RegistersHold
  <2>5. \A c \in 0 .. kTileElems - 1 : Sim!CellAddr(i, c) \in BufferOf(q)
    BY <1>1, <2>2, <2>4, TileInBuffer
  <2>6. p # Nobody
    <3>1. p \in DOMAIN heap /\ FnInv
      BY <1>6 DEF LoadsTile, IRLayers, IRInv
    <3>2. p \in Pointer
      BY <3>1, FnFacts
    <3> QED
      BY <3>2 DEF Pointer, Nobody
  <2> QED
    BY <1>2, <1>4, <2>3, <2>5, <2>6
<1>7. CASE LoadsStaged(p, i, K, L)
  <2>1. PICK q \in OperandSet(p), m \in Sim!MatrixRegs, t \in 0 .. ScratchpadTiles - 1 :
          /\ heap[q].kind = "ScratchLoad" /\ t \in Region(Operand(q, 1))
          /\ <<i>> = ScratchTile("LOAD", m, t)
    BY <1>7 DEF LoadsStaged
  <2>2. i.src1.scratchpad
    BY <2>1, EmitIs DEF ScratchTile, Move, ISA!MemOperand
  <2>3. t \in Int
    BY <2>1
  <2>4. \A c \in 0 .. kTileElems - 1 : Sim!CellAddr(i, c) \div kTileElems = t
    BY <1>1, <2>1, <2>3, ScratchCell
  <2> QED
    BY <1>2, <1>4, <2>1, <2>2, <2>4
<1>8. ~(\/ StoresTile(p, i, K, L) \/ StoresStaged(p, i, K, L) \/ Multiplies(i, K, L)
        \/ Maps(i, K, L) \/ SetsRegister(i, K, L) \/ ShowsTensor(i, K, L)
        \/ Normalises(p, i, K, L))
  <2>1. \A op, d, x, y : <<i>> = Emit(op, d, x, y) => op = "LOAD"
    BY <1>4, EmitIs
  <2> QED
    BY <2>1 DEF StoresTile, StoresStaged, Multiplies, Maps, SetsRegister, ShowsTensor, Normalises,
       BufferTile, ScratchTile, Move
<1> QED
  BY <1>3, <1>5, <1>6, <1>7, <1>8 DEF Follows

-----------------------------------------------------------------------------
(* What the text writes.                                                   *)

\* What OnlyTheResultChanges says of the code of op p.
WritesOwn(p) ==
  /\ \A a \in DOMAIN memory : memory'[a] # memory[a] =>
       \A q \in DOMAIN buffers : (a \in BufferOf(q)) <=> (q = p)
  /\ \A a \in DOMAIN scratchpad : scratchpad'[a] # scratchpad[a] =>
       /\ heap[p].kind = "ScratchStore"
       /\ a \div kTileElems \in Region(p)

\* A word that a store changes is one of the instruction's cells.
LEMMA WrittenIsCell ==
  ASSUME NEW i, NEW cells, i.dst.cls = "Matrix",
         NEW a \in DOMAIN Sim!Array(i.src1.scratchpad),
         Sim!ArrayWritten(i, cells)[a] # Sim!Array(i.src1.scratchpad)[a]
  PROVE  \E c \in 0 .. kTileElems - 1 : Sim!CellAddr(i, c) = a
<1>1. Sim!CellsOf(i.dst.cls) = 0 .. kTileElems - 1
  BY DEF Sim!CellsOf, Sim!TileCells, Sim!kTileElems, kTileElems
<1>2. \E c \in Sim!Writers(i, a) : TRUE
  BY DEF Sim!ArrayWritten
<1> QED
  BY <1>1, <1>2 DEF Sim!Writers

\* A word of the buffer of p is of no other buffer.
LEMMA OwnWord ==
  ASSUME Ready, FitsInWords, NEW p \in DOMAIN buffers, NEW a \in BufferOf(p)
  PROVE  \A q \in DOMAIN buffers : (a \in BufferOf(q)) <=> (q = p)
BY BuffersApart

LEMMA PaddedIs ==
  ASSUME NEW n
  PROVE  Sim!padded(n) = pad(n)
BY DEF Sim!padded, pad, tilesOf

\* The words mdt_softmax writes are those of the buffer of its result.
LEMMA SoftmaxWrites ==
  ASSUME Ready, FitsInWords, NEW p, NEW K, NEW L, NEW i, RegistersHold(K),
         Normalises(p, i, K, L)
  PROVE  /\ p \in DOMAIN buffers /\ R[2] = buffers[p].addr
         /\ Sim!SoftmaxWords = bufferWords(heap[p].shape)
         /\ R[4] = heap[p].shape.rows /\ R[5] = heap[p].shape.cols
         /\ R[6] = pad(heap[p].shape.cols)
<1> DEFINE s == heap[p].shape
           x == s.batch
           y == pad(s.rows)
           z == pad(s.cols)
<1>1. p \in DOMAIN buffers /\ R[2] = buffers[p].addr /\ R[3] = x /\ R[4] = s.rows
      /\ R[5] = s.cols /\ R[6] = buffers[p].cp
  BY DEF Normalises, RegistersHold
<1>2. buffers[p].cp = z /\ s \in TensorShape
  BY <1>1, BufferFacts
<1>3. x \in Nat /\ y \in Nat /\ z \in Nat
  BY <1>2, WordsType
<1>4. Sim!SoftmaxWords = (x * y) * z
  BY <1>1, <1>2, PaddedIs DEF Sim!SoftmaxWords
<1>5. bufferWords(s) = x * (y * z)
  BY DEF bufferWords, batchWords
<1>6. (x * y) * z = x * (y * z)
  <2> HIDE DEF x, y, z
  <2> QED
    BY <1>3
<1> QED
  BY <1>1, <1>2, <1>4, <1>5, <1>6

LEMMA StepWrites ==
  ASSUME Ready, FitsInWords, Spaces, R[0] = 0, Sim!Step,
         NEW p, NEW K, NEW L, Follows(p, Sim!Inst, K, L), RegistersHold(K)
  PROVE  WritesOwn(p)
<1>1. CASE UNCHANGED <<memory, scratchpad>>
  BY <1>1 DEF WritesOwn
<1>2. CASE StoresTile(p, Sim!Inst, K, L)
  <2>1. PICK i : i = Sim!Inst
    OBVIOUS
  <2>2. p \in DOMAIN buffers /\ Sim!ExecStore /\ i.dst.cls = "Matrix" /\ i.src1.kind = "Memory"
    BY <1>2, <2>1, SortsHandled DEF StoresTile
  <2>3. PICK m \in Sim!MatrixRegs, r \in Sim!ScalarRegs :
          \E b, ti, tj \in Int :
            /\ TileOf(heap[p].shape, b, ti, tj) /\ <<r, buffers[p].addr>> \in K.reg
            /\ <<i>> = BufferTile("STORE", m, r, p, b, ti, tj)
    BY <1>2, <2>1 DEF StoresTile
  <2>4. PICK b, ti, tj \in Int :
          /\ TileOf(heap[p].shape, b, ti, tj) /\ <<r, buffers[p].addr>> \in K.reg
          /\ <<i>> = BufferTile("STORE", m, r, p, b, ti, tj)
    BY <2>3
  <2>5. ~i.src1.scratchpad
    BY <2>4, EmitIs DEF BufferTile, Move, ISA!MemOperand
  <2>6. R[r] = buffers[p].addr
    BY <2>4 DEF RegistersHold
  <2>7. \A c \in 0 .. kTileElems - 1 : Sim!CellAddr(i, c) \in BufferOf(p)
    BY <2>2, <2>4, <2>6, TileInBuffer
  <2>8. UNCHANGED scratchpad /\ memory' = Sim!ArrayWritten(i, M[i.dst.idx])
    BY <2>1, <2>2, <2>5, StoreEffect
  <2>9. ASSUME NEW a \in DOMAIN memory, memory'[a] # memory[a]
        PROVE  a \in BufferOf(p)
    <3>1. Sim!Array(i.src1.scratchpad) = memory
      BY <2>5 DEF Sim!Array
    <3>2. \E c \in 0 .. kTileElems - 1 : Sim!CellAddr(i, c) = a
      BY <2>2, <2>8, <2>9, <3>1, WrittenIsCell
    <3> QED
      BY <2>7, <3>2
  <2> QED
    BY <2>2, <2>8, <2>9, OwnWord DEF WritesOwn
<1>3. CASE StoresStaged(p, Sim!Inst, K, L)
  <2>1. PICK i : i = Sim!Inst
    OBVIOUS
  <2>2. Sim!ExecStore /\ i.dst.cls = "Matrix" /\ i.src1.kind = "Memory"
    BY <1>3, <2>1, SortsHandled
  <2>3. PICK m \in Sim!MatrixRegs, t \in Int :
          /\ heap[p].kind = "ScratchStore" /\ t \in Region(p)
          /\ <<i>> = ScratchTile("STORE", m, t)
    BY <1>3, <2>1 DEF StoresStaged
  <2>4. i.src1.scratchpad
    BY <2>3, EmitIs DEF ScratchTile, Move, ISA!MemOperand
  <2>5. \A c \in 0 .. kTileElems - 1 : Sim!CellAddr(i, c) \div kTileElems = t
    BY <2>3, ScratchCell
  <2>6. UNCHANGED memory /\ scratchpad' = Sim!ArrayWritten(i, M[i.dst.idx])
    BY <2>1, <2>2, <2>4, StoreEffect
  <2>7. ASSUME NEW a \in DOMAIN scratchpad, scratchpad'[a] # scratchpad[a]
        PROVE  a \div kTileElems = t
    <3>1. Sim!Array(i.src1.scratchpad) = scratchpad
      BY <2>4 DEF Sim!Array
    <3>2. \E c \in 0 .. kTileElems - 1 : Sim!CellAddr(i, c) = a
      BY <2>2, <2>6, <2>7, <3>1, WrittenIsCell
    <3> QED
      BY <2>5, <3>2
  <2> QED
    BY <2>3, <2>6, <2>7 DEF WritesOwn
<1>4. CASE Normalises(p, Sim!Inst, K, L)
  <2>1. Sim!RuntimeSoftmax
    BY <1>4, SortsHandled
  <2> DEFINE n == bufferWords(heap[p].shape)
             x == buffers[p].addr
  <2>2. p \in DOMAIN buffers /\ R[2] = x /\ Sim!SoftmaxWords = n
    BY <1>4, SoftmaxWrites
  <2>3. BufferOf(p) = x .. x + n - 1 /\ x \in Int /\ n \in Int
    BY <2>2, BufferFacts, WordsType DEF BufferOf
  <2>4. CASE UNCHANGED memory
    BY <1>1, <2>1, <2>4, CallEffect
  <2>5. CASE memory' = [a \in DOMAIN memory |->
                          IF a - R[2] \in 0 .. Sim!SoftmaxWords - 1
                          THEN IF Sim!SoftmaxLive(a - R[2]) THEN 1 ELSE 0
                          ELSE memory[a]]
    <3>1. ASSUME NEW a \in DOMAIN memory, memory'[a] # memory[a]
          PROVE  a \in BufferOf(p)
      <4>1. a - x \in 0 .. n - 1
        BY <2>2, <2>5, <3>1
      <4>2. a \in Int
        BY DEF Spaces
      <4> HIDE DEF n, x
      <4> QED
        BY <2>3, <4>1, <4>2
    <3>2. UNCHANGED scratchpad
      BY <2>1, CallEffect
    <3> QED
      BY <2>2, <3>1, <3>2, OwnWord DEF WritesOwn
  <2> QED
    BY <2>1, <2>4, <2>5, CallEffect
<1>5. CASE ~(StoresTile(p, Sim!Inst, K, L) \/ StoresStaged(p, Sim!Inst, K, L)
             \/ Normalises(p, Sim!Inst, K, L))
  <2>1. CASE SetsRegister(Sim!Inst, K, L)
    <3>1. Sim!ScalarArith
      BY <2>1, SortsHandled
    <3> QED
      BY <1>1, <3>1 DEF Sim!ScalarArith, Sim!spaces
  <2>2. CASE LoadsConstant(Sim!Inst, K, L) \/ LoadsTile(p, Sim!Inst, K, L)
             \/ LoadsStaged(p, Sim!Inst, K, L)
    BY <1>1, <2>2, SortsHandled, LoadEffect
  <2>3. CASE Multiplies(Sim!Inst, K, L) \/ Maps(Sim!Inst, K, L)
    BY <1>1, <2>3, SortsHandled, MatrixEffect
  <2>4. CASE ShowsTensor(Sim!Inst, K, L)
    BY <1>1, <2>4, SortsHandled, CallEffect
  <2> QED
    BY <1>5, <2>1, <2>2, <2>3, <2>4 DEF Follows
<1> QED
  BY <1>2, <1>3, <1>4, <1>5

LEMMA WritesResult ==
  ASSUME IRLayers, PhasesInv, LayoutInv, TextInv, Spaces, MachineInv, FitsInWords,
         [PipelineNext]_allVars, phase = "running"
  PROVE  WritesOwn(emitter[pc + 1])
<1>1. CASE UNCHANGED <<memory, scratchpad>>
  BY <1>1 DEF WritesOwn
<1>2. CASE Sim!Run
  <2>1. CASE UNCHANGED <<memory, scratchpad>>
    BY <1>1, <2>1
  <2>2. CASE /\ pc < Len(code) /\ Sim!Step
    <3>1. Ready /\ R[0] = 0 /\ code = assembly.code /\ pc \in 0 .. Len(text)
      BY ReadyToRun DEF MachineInv
    <3>2. CASE pc < Len(text)
      <4>1. PICK p : p = emitter[pc + 1]
        OBVIOUS
      <4>2. PICK K, L : Follows(p, code[pc + 1], K, L) /\ RegistersHold(K)
        BY <3>2, <4>1, NextFollows
      <4>3. Follows(p, Sim!Inst, K, L)
        BY <4>2 DEF Sim!Inst
      <4>4. WritesOwn(p)
        BY <2>2, <3>1, <4>2, <4>3, StepWrites
      <4> QED
        BY <4>1, <4>4
    <3>3. CASE ~(pc < Len(text))
      <4>1. IsList(text)
        BY DEF PhasesInv, Generated, TextInv, Runs
      <4>2. Len(text) \in Nat /\ assembly.code[Len(text) + 1].op = "HALT"
        BY <4>1, AssemblyIs
      <4>3. pc = Len(text)
        BY <3>1, <3>3, <4>2
      <4>4. Sim!Inst.op = "HALT"
        BY <3>1, <4>2, <4>3 DEF Sim!Inst
      <4>5. Sim!Halt
        BY <2>2, <4>4, Handled
      <4> QED
        BY <1>1, <4>5 DEF Sim!Halt, Sim!spaces
    <3> QED
      BY <3>2, <3>3
  <2> QED
    BY <1>2, <2>1, <2>2, RunCases
<1>3. CASE UNCHANGED simVars
  BY <1>1, <1>3 DEF simVars
<1> QED
  BY <1>2, <1>3, RunsOrStays

-----------------------------------------------------------------------------
(* What is known of the tiles holds of the machine.                        *)

\* Cell c lies outside the first h rows and w columns of a tile.
Outside(c, h, w) == Sim!Row(c) >= h \/ Sim!Col(c) >= w

TilesHold(K) ==
  /\ \A m \in Sim!MatrixRegs : \A h, w : <<m, h, w>> \in K.zero =>
       \A c \in 0 .. kTileElems - 1 : Outside(c, h, w) => M[m][c] = 0
  /\ \A m \in Sim!MatrixRegs : m \in K.diagonal =>
       \A c \in 0 .. kTileElems - 1 : OffDiagonal(c) => M[m][c] = 0
  /\ \A t \in 0 .. ScratchpadTiles - 1 : \A h, w : <<t, h, w>> \in K.staged =>
       \A c \in 0 .. kTileElems - 1 : Outside(c, h, w) => scratchpad[kTileElems * t + c] = 0

HoldsIntegers ==
  /\ DOMAIN M = Sim!MatrixRegs
  /\ \A m \in Sim!MatrixRegs : \A c \in 0 .. kTileElems - 1 : M[m][c] \in Int
  /\ \A a \in DOMAIN memory : memory[a] \in Int
  /\ \A a \in DOMAIN scratchpad : scratchpad[a] \in Int

\* The padding of the buffers, and all but the diagonal of the constants.
DataHolds ==
  /\ \A p \in DOMAIN buffers : \A k \in 0 .. bufferWords(heap[p].shape) - 1 :
       DeadWord(heap[p].shape, k) => memory[buffers[p].addr + k] = 0
  /\ \A t \in Constants : \A c \in 0 .. kTileElems - 1 :
       OffDiagonal(c) => memory[t + c] = 0

TilesInv ==
  phase # "idle" /\ FitsInWords =>
    /\ HoldsIntegers /\ DataHolds
    /\ \E K : /\ Annotates(emitter, text, K) /\ RegistersHold(K[pc + 1])
              /\ halted \/ TilesHold(K[pc + 1])

\* A matrix register is set to a tile, or to a diagonal.
LEMMA TileSet ==
  ASSUME NEW K, NEW L, NEW m \in Sim!MatrixRegs, NEW h, NEW w,
         TileChanges(K, L, m, {<<h, w>>}, FALSE), TilesHold(K), UNCHANGED scratchpad,
         \A x \in Sim!MatrixRegs : x # m => M'[x] = M[x],
         \A c \in 0 .. kTileElems - 1 : Outside(c, h, w) => M'[m][c] = 0
  PROVE  TilesHold(L)'
<1>1. ASSUME NEW x \in Sim!MatrixRegs, NEW a, NEW b, <<x, a, b>> \in L.zero,
             NEW c \in 0 .. kTileElems - 1, Outside(c, a, b)
      PROVE  M'[x][c] = 0
  <2>1. CASE x = m
    <3>1. <<a, b>> \in {<<h, w>>}
      BY <1>1, <2>1 DEF TileChanges
    <3>2. a = h /\ b = w
      BY <3>1
    <3> QED
      BY <1>1, <2>1, <3>2
  <2>2. CASE x # m
    <3>1. <<x, a, b>> \in K.zero
      BY <1>1, <2>2 DEF TileChanges
    <3> QED
      BY <1>1, <2>2, <3>1 DEF TilesHold
  <2> QED
    BY <2>1, <2>2
<1>2. ASSUME NEW x \in Sim!MatrixRegs, x \in L.diagonal,
             NEW c \in 0 .. kTileElems - 1, OffDiagonal(c)
      PROVE  M'[x][c] = 0
  <2>1. x # m /\ x \in K.diagonal
    BY <1>2 DEF TileChanges
  <2> QED
    BY <1>2, <2>1 DEF TilesHold
<1>3. L.staged \subseteq K.staged
  BY DEF TileChanges
<1> QED
  BY <1>1, <1>2, <1>3 DEF TilesHold, Outside

LEMMA DiagonalSet ==
  ASSUME NEW K, NEW L, NEW m \in Sim!MatrixRegs,
         TileChanges(K, L, m, {}, TRUE), TilesHold(K), UNCHANGED scratchpad,
         \A x \in Sim!MatrixRegs : x # m => M'[x] = M[x],
         \A c \in 0 .. kTileElems - 1 : OffDiagonal(c) => M'[m][c] = 0
  PROVE  TilesHold(L)'
<1>1. ASSUME NEW x \in Sim!MatrixRegs, NEW a, NEW b, <<x, a, b>> \in L.zero,
             NEW c \in 0 .. kTileElems - 1, Outside(c, a, b)
      PROVE  M'[x][c] = 0
  <2>1. x # m /\ <<x, a, b>> \in K.zero
    BY <1>1 DEF TileChanges
  <2> QED
    BY <1>1, <2>1 DEF TilesHold
<1>2. ASSUME NEW x \in Sim!MatrixRegs, x \in L.diagonal,
             NEW c \in 0 .. kTileElems - 1, OffDiagonal(c)
      PROVE  M'[x][c] = 0
  <2>1. CASE x = m
    BY <1>2, <2>1
  <2>2. CASE x # m
    <3>1. x \in K.diagonal
      BY <1>2, <2>2 DEF TileChanges
    <3> QED
      BY <1>2, <2>2, <3>1 DEF TilesHold
  <2> QED
    BY <2>1, <2>2
<1>3. L.staged \subseteq K.staged
  BY DEF TileChanges
<1> QED
  BY <1>1, <1>2, <1>3 DEF TilesHold, Outside

\* Less is known of the same registers and scratchpad.
LEMMA TilesKept ==
  ASSUME NEW K, NEW L, TilesHold(K), UNCHANGED <<M, scratchpad>>,
         L.zero \subseteq K.zero, L.diagonal \subseteq K.diagonal, L.staged \subseteq K.staged
  PROVE  TilesHold(L)'
BY DEF TilesHold, Outside

\* Every cell of a tile is in a row of its transfer.
LEMMA CellInRows ==
  ASSUME NEW i, i.dst.cls = "Matrix", NEW c \in 0 .. kTileElems - 1
  PROVE  Sim!CellRow(i, c) \in Sim!RowsOf(i)
<1>1. CASE i.src1.stride # 0
  <2>1. Sim!RowLen(i) = kTileDim /\ Sim!RowsOf(i) = 0 .. kTileDim - 1
    BY <1>1 DEF Sim!RowLen, Sim!Strided, Sim!RowsOf, Sim!VectorCells
  <2> QED
    BY <2>1, CellOf DEF Sim!CellRow, Sim!Row
<1>2. CASE i.src1.stride = 0
  <2> DEFINE e == kTileElems
  <2>1. Sim!RowLen(i) = e /\ Sim!RowsOf(i) = {0}
    BY <1>2 DEF Sim!RowLen, Sim!Strided, Sim!RowsOf, Sim!kTileElems, kTileElems
  <2>2. e \in Nat \ {0} /\ c \in 0 .. e - 1
    BY IRAssumption, ProductType DEF kTileElems
  <2> HIDE DEF e
  <2>3. c \div e = 0
    BY <2>2, QuotientIs, c = 0 * e + c
  <2> QED
    BY <2>1, <2>3 DEF Sim!CellRow
<1> QED
  BY <1>1, <1>2

\* A LOAD of a tile, when every row passes its check and when one does not.
LEMMA LoadsCells ==
  ASSUME Sim!ExecLoad, NEW i, i = Sim!Inst, i.dst.cls = "Matrix", i.src1.kind = "Memory",
         NEW m \in Sim!MatrixRegs, i.dst.idx = m, HoldsIntegers
  PROVE  /\ HoldsIntegers' /\ UNCHANGED <<memory, scratchpad>>
         /\ \A x \in Sim!MatrixRegs : x # m => M'[x] = M[x]
         /\ \/ Stops
            \/ \A c \in 0 .. kTileElems - 1 :
                 Sim!CellAddr(i, c) \in DOMAIN Sim!Array(i.src1.scratchpad) =>
                   M'[m][c] = Sim!Array(i.src1.scratchpad)[Sim!CellAddr(i, c)]
<1> DEFINE arr == Sim!Array(i.src1.scratchpad)
<1>1. UNCHANGED <<memory, scratchpad>>
  BY LoadEffect
<1>2. PICK wild \in [0 .. kTileElems - 1 -> Wild] :
        M' = [M EXCEPT ![m] = Sim!CellsRead(i, M[m], wild)]
  BY LoadEffect
<1>3. /\ DOMAIN M' = Sim!MatrixRegs /\ M'[m] = Sim!CellsRead(i, M[m], wild)
      /\ \A x \in Sim!MatrixRegs : x # m => M'[x] = M[x]
  BY <1>2 DEF HoldsIntegers
<1>4. \A c \in 0 .. kTileElems - 1 :
        M'[m][c] = IF Sim!CellRow(i, c) \notin Sim!RowsDone(i) THEN M[m][c]
                   ELSE IF Sim!CellAddr(i, c) \in DOMAIN arr THEN arr[Sim!CellAddr(i, c)]
                   ELSE wild[c]
  BY <1>3 DEF Sim!CellsRead, Sim!CellsOf, Sim!TileCells, Sim!kTileElems, kTileElems
<1>5. \A a \in DOMAIN arr : arr[a] \in Int
  BY DEF Sim!Array, HoldsIntegers
<1>6. \A c \in 0 .. kTileElems - 1 : wild[c] \in Int /\ M[m][c] \in Int
  BY PipelineAssumption DEF HoldsIntegers
<1> HIDE DEF arr
<1>7. \A c \in 0 .. kTileElems - 1 : M'[m][c] \in Int
  BY <1>4, <1>5, <1>6
<1>8. HoldsIntegers'
  BY <1>1, <1>3, <1>7 DEF HoldsIntegers
<1>9. Stops \/ Sim!RowsDone(i) = Sim!RowsOf(i)
  BY LoadEffect
<1>10. Stops \/ \A c \in 0 .. kTileElems - 1 :
                  Sim!CellAddr(i, c) \in DOMAIN arr => M'[m][c] = arr[Sim!CellAddr(i, c)]
  BY <1>4, <1>9, CellInRows
<1> QED
  BY <1>1, <1>3, <1>8, <1>10 DEF arr

-----------------------------------------------------------------------------
(* What a LOAD puts in a tile.                                             *)

LEMMA ConstantInMemory ==
  ASSUME Ready, Spaces, data.end <= dramWords, NEW t \in Constants,
         NEW c \in 0 .. kTileElems - 1
  PROVE  t \in Nat /\ t + c \in DOMAIN memory
<1> DEFINE e == kTileElems
           n == data.end
<1>1. t \in Nat /\ t + e <= n /\ n \in Nat /\ e \in Nat /\ c \in 0 .. e - 1
  BY IRAssumption, ProductType DEF Ready, Layout, ConstantAt, kTileElems
<1>2. dramWords \in Nat /\ DOMAIN memory = 0 .. dramWords - 1 /\ n <= dramWords
  BY DEF Spaces
<1> HIDE DEF e, n
<1> QED
  BY <1>1, <1>2

LEMMA ConstantLoaded ==
  ASSUME Ready, Spaces, data.end <= dramWords, R[0] = 0, HoldsIntegers, DataHolds, Sim!Step,
         NEW p, NEW K, NEW L, LoadsConstant(Sim!Inst, K, L), TilesHold(K)
  PROVE  /\ HoldsIntegers' /\ UNCHANGED <<memory, scratchpad>>
         /\ Stops \/ TilesHold(L)'
<1>1. PICK i : i = Sim!Inst
  OBVIOUS
<1>2. Sim!ExecLoad /\ i.dst.cls = "Matrix" /\ i.src1.kind = "Memory"
  BY <1>1, SortsHandled
<1>3. PICK m \in Sim!MatrixRegs, t \in Constants :
        /\ <<i>> = Move("LOAD", m, 0, t, 0, FALSE) /\ TileChanges(K, L, m, {}, TRUE)
  BY <1>1 DEF LoadsConstant
<1>4. i.dst.idx = m /\ i.src1.idx = 0 /\ i.src1.imm = t /\ i.src1.stride = 0
      /\ ~i.src1.scratchpad
  BY <1>3, EmitIs DEF Move, Mat, ISA!RegOperand, ISA!MemOperand
<1>6. Sim!Address(i) = t /\ t \in Int
  BY <1>4 DEF Sim!Address, Ready, Layout, ConstantAt
<1>7. \A c \in 0 .. kTileElems - 1 : Sim!CellAddr(i, c) = t + c
  BY <1>2, <1>4, <1>6, ContiguousCell
<1>8. \A c \in 0 .. kTileElems - 1 : t + c \in DOMAIN memory
  BY ConstantInMemory
<1>9. Sim!Array(i.src1.scratchpad) = memory
  BY <1>4 DEF Sim!Array
<1>10. /\ HoldsIntegers' /\ UNCHANGED <<memory, scratchpad>>
       /\ \A x \in Sim!MatrixRegs : x # m => M'[x] = M[x]
       /\ Stops \/ \A c \in 0 .. kTileElems - 1 :
                     Sim!CellAddr(i, c) \in DOMAIN memory => M'[m][c] = memory[Sim!CellAddr(i, c)]
  BY <1>1, <1>2, <1>4, <1>9, LoadsCells
<1>11. ASSUME ~Stops
       PROVE  TilesHold(L)'
  <2>1. \A c \in 0 .. kTileElems - 1 : M'[m][c] = memory[t + c]
    BY <1>7, <1>8, <1>10, <1>11
  <2>2. \A c \in 0 .. kTileElems - 1 : OffDiagonal(c) => M'[m][c] = 0
    BY <2>1 DEF DataHolds
  <2> QED
    BY <1>3, <1>10, <2>2, DiagonalSet
<1> QED
  BY <1>10, <1>11

\* The words of a tile of a buffer are words of memory.
LEMMA TileInMemory ==
  ASSUME Ready, FitsInWords, Spaces, data.end <= dramWords, NEW q \in DOMAIN buffers,
         NEW k \in 0 .. bufferWords(heap[q].shape) - 1
  PROVE  buffers[q].addr + k \in DOMAIN memory
<1> DEFINE x == buffers[q].addr
           n == bufferWords(heap[q].shape)
           e == data.end
<1>1. x \in Nat /\ n \in Nat /\ e \in Nat /\ x + n <= e
  BY BufferFacts, WordsType
<1>2. dramWords \in Nat /\ DOMAIN memory = 0 .. dramWords - 1 /\ e <= dramWords /\ k \in 0 .. n - 1
  BY DEF Spaces
<1> HIDE DEF x, n, e
<1> QED
  BY <1>1, <1>2 DEF x

LEMMA TileLoaded ==
  ASSUME Ready, FitsInWords, Spaces, data.end <= dramWords, HoldsIntegers, DataHolds, Sim!Step,
         NEW p, NEW K, NEW L, LoadsTile(p, Sim!Inst, K, L), TilesHold(K), RegistersHold(K)
  PROVE  /\ HoldsIntegers' /\ UNCHANGED <<memory, scratchpad>>
         /\ Stops \/ TilesHold(L)'
<1>1. PICK i : i = Sim!Inst
  OBVIOUS
<1>2. Sim!ExecLoad /\ i.dst.cls = "Matrix" /\ i.src1.kind = "Memory"
  BY <1>1, SortsHandled
<1>3. PICK q \in OperandSet(p) \cap DOMAIN buffers, m \in Sim!MatrixRegs, r \in Sim!ScalarRegs :
        \E b, ti, tj \in Int :
          /\ TileOf(heap[q].shape, b, ti, tj) /\ <<r, buffers[q].addr>> \in K.reg
          /\ <<i>> = BufferTile("LOAD", m, r, q, b, ti, tj)
          /\ TileChanges(K, L, m, {<<liveOf(heap[q].shape.rows, ti),
                                     liveOf(heap[q].shape.cols, tj)>>}, FALSE)
  <2>1. LoadsTile(p, i, K, L)
    BY <1>1
  <2> QED
    BY <2>1, Zenon DEF LoadsTile
<1>4. PICK b, ti, tj \in Int :
        /\ TileOf(heap[q].shape, b, ti, tj) /\ <<r, buffers[q].addr>> \in K.reg
        /\ <<i>> = BufferTile("LOAD", m, r, q, b, ti, tj)
        /\ TileChanges(K, L, m, {<<liveOf(heap[q].shape.rows, ti),
                                   liveOf(heap[q].shape.cols, tj)>>}, FALSE)
  BY <1>3
<1> DEFINE s == heap[q].shape
           x == buffers[q].addr
<1>5. ~i.src1.scratchpad /\ i.dst.idx = m
  BY <1>4, EmitIs DEF BufferTile, Move, Mat, ISA!RegOperand, ISA!MemOperand
<1>6. R[r] = x /\ s \in TensorShape
  BY <1>4, BufferFacts DEF RegistersHold
<1>7. \A c \in 0 .. kTileElems - 1 : Sim!CellAddr(i, c) = x + wordOf(s, b, ti, tj, c)
  BY <1>4, <1>6, BufferCell
<1>8. Sim!Array(i.src1.scratchpad) = memory
  BY <1>5 DEF Sim!Array
<1>9. /\ HoldsIntegers' /\ UNCHANGED <<memory, scratchpad>>
      /\ \A y \in Sim!MatrixRegs : y # m => M'[y] = M[y]
      /\ Stops \/ \A c \in 0 .. kTileElems - 1 :
                    Sim!CellAddr(i, c) \in DOMAIN memory => M'[m][c] = memory[Sim!CellAddr(i, c)]
  BY <1>1, <1>2, <1>5, <1>8, LoadsCells
<1>10. ASSUME ~Stops
       PROVE  TilesHold(L)'
  <2> DEFINE h == liveOf(s.rows, ti)
             w == liveOf(s.cols, tj)
  <2>1. ASSUME NEW c \in 0 .. kTileElems - 1, Outside(c, h, w)
        PROVE  M'[m][c] = 0
    <3>1. PICK k : k = wordOf(s, b, ti, tj, c)
      OBVIOUS
    <3>2. k \in 0 .. bufferWords(s) - 1 /\ DeadWord(s, k)
      BY <1>4, <1>6, <2>1, <3>1, WordOfTile DEF Outside
    <3>3. memory[x + k] = 0 /\ x + k \in DOMAIN memory
      BY <3>2, TileInMemory DEF DataHolds
    <3>4. Sim!CellAddr(i, c) = x + k
      BY <1>7, <3>1
    <3> QED
      BY <1>9, <1>10, <3>3, <3>4
  <2>2. TileChanges(K, L, m, {<<h, w>>}, FALSE)
    BY <1>4
  <2> HIDE DEF h, w
  <2> QED
    BY <1>9, <2>1, <2>2, TileSet
<1> QED
  BY <1>9, <1>10

LEMMA StagedInScratchpad ==
  ASSUME Spaces, NEW t \in 0 .. ScratchpadTiles - 1, NEW c \in 0 .. kTileElems - 1
  PROVE  kTileElems * t + c \in DOMAIN scratchpad
<1> DEFINE e == kTileElems
           n == ScratchpadTiles
<1>1. e \in Nat /\ n \in Nat /\ n * e <= ScratchpadWords /\ ScratchpadWords \in Nat
  BY IRAssumption, PipelineAssumption, ProductType DEF kTileElems
<1>2. DOMAIN scratchpad = 0 .. ScratchpadWords - 1 /\ t \in 0 .. n - 1 /\ c \in 0 .. e - 1
  BY DEF Spaces
<1> HIDE DEF e, n
<1>3. e * t \in Nat /\ e * t + e <= n * e
  <2>1. t + 1 <= n /\ t + 1 \in Nat /\ t \in Nat
    BY <1>1, <1>2
  <2>2. (t + 1) * e <= n * e
    BY <1>1, <2>1
  <2>3. (t + 1) * e = e * t + e /\ e * t \in Nat
    BY <1>1, <2>1
  <2> QED
    BY <2>2, <2>3
<1>4. n * e \in Nat
  BY <1>1
<1> DEFINE f == e * t
           g == n * e
<1> HIDE DEF f, g
<1>5. f + c \in 0 .. ScratchpadWords - 1
  BY <1>1, <1>2, <1>3, <1>4 DEF f, g
<1> QED
  BY <1>2, <1>5 DEF e, f

LEMMA StagedLoaded ==
  ASSUME Spaces, R[0] = 0, HoldsIntegers, Sim!Step,
         NEW p, NEW K, NEW L, LoadsStaged(p, Sim!Inst, K, L), TilesHold(K)
  PROVE  /\ HoldsIntegers' /\ UNCHANGED <<memory, scratchpad>>
         /\ Stops \/ TilesHold(L)'
<1>1. PICK i : i = Sim!Inst
  OBVIOUS
<1>2. Sim!ExecLoad /\ i.dst.cls = "Matrix" /\ i.src1.kind = "Memory"
  BY <1>1, SortsHandled
<1>3. PICK m \in Sim!MatrixRegs, t \in 0 .. ScratchpadTiles - 1 : \E h, w :
        /\ <<t, h, w>> \in K.staged /\ <<i>> = ScratchTile("LOAD", m, t)
        /\ TileChanges(K, L, m, {<<h, w>>}, FALSE)
  BY <1>1 DEF LoadsStaged
<1>4. PICK h, w : /\ <<t, h, w>> \in K.staged /\ <<i>> = ScratchTile("LOAD", m, t)
                  /\ TileChanges(K, L, m, {<<h, w>>}, FALSE)
  BY <1>3
<1>5. i.src1.scratchpad /\ i.dst.idx = m
  BY <1>4, EmitIs DEF ScratchTile, Move, Mat, ISA!RegOperand, ISA!MemOperand
<1>6. t \in Int
  BY <1>3
<1>7. \A c \in 0 .. kTileElems - 1 : Sim!CellAddr(i, c) = kTileElems * t + c
  BY <1>4, <1>6, ScratchCell
<1>8. \A c \in 0 .. kTileElems - 1 : kTileElems * t + c \in DOMAIN scratchpad
  BY StagedInScratchpad
<1>9. Sim!Array(i.src1.scratchpad) = scratchpad
  BY <1>5 DEF Sim!Array
<1>10. /\ HoldsIntegers' /\ UNCHANGED <<memory, scratchpad>>
       /\ \A y \in Sim!MatrixRegs : y # m => M'[y] = M[y]
       /\ Stops \/ \A c \in 0 .. kTileElems - 1 :
                     Sim!CellAddr(i, c) \in DOMAIN scratchpad =>
                       M'[m][c] = scratchpad[Sim!CellAddr(i, c)]
  <2>1. /\ HoldsIntegers' /\ UNCHANGED <<memory, scratchpad>>
        /\ \A y \in Sim!MatrixRegs : y # m => M'[y] = M[y]
        /\ \/ Stops
           \/ \A c \in 0 .. kTileElems - 1 :
                Sim!CellAddr(i, c) \in DOMAIN Sim!Array(i.src1.scratchpad) =>
                  M'[m][c] = Sim!Array(i.src1.scratchpad)[Sim!CellAddr(i, c)]
    BY <1>1, <1>2, <1>5, LoadsCells
  <2> QED
    BY <1>9, <2>1, Zenon
<1>11. ASSUME ~Stops
       PROVE  TilesHold(L)'
  <2>1. \A c \in 0 .. kTileElems - 1 : M'[m][c] = scratchpad[kTileElems * t + c]
    BY <1>7, <1>8, <1>10, <1>11
  <2>2. \A c \in 0 .. kTileElems - 1 : Outside(c, h, w) => M'[m][c] = 0
    BY <1>4, <2>1 DEF TilesHold
  <2> QED
    BY <1>4, <1>10, <2>2, TileSet
<1> QED
  BY <1>10, <1>11

-----------------------------------------------------------------------------
(* What a STORE leaves in memory and in the scratchpad.                    *)

\* A word of the array keeps its value, or has that of a cell at its address.
LEMMA Written ==
  ASSUME NEW i, NEW cells, i.dst.cls = "Matrix",
         NEW a \in DOMAIN Sim!Array(i.src1.scratchpad)
  PROVE  \/ Sim!ArrayWritten(i, cells)[a] = Sim!Array(i.src1.scratchpad)[a]
         \/ \E c \in 0 .. kTileElems - 1 :
              Sim!CellAddr(i, c) = a /\ Sim!ArrayWritten(i, cells)[a] = cells[c]
<1>1. Sim!CellsOf(i.dst.cls) = 0 .. kTileElems - 1
  BY DEF Sim!CellsOf, Sim!TileCells, Sim!kTileElems, kTileElems
<1> DEFINE last == CHOOSE c \in Sim!Writers(i, a) : Sim!IsLast(c, Sim!Writers(i, a))
<1>2. CASE \E c \in Sim!Writers(i, a) : Sim!IsLast(c, Sim!Writers(i, a))
  <2>1. last \in Sim!Writers(i, a)
    BY <1>2
  <2>2. Sim!ArrayWritten(i, cells)[a] = cells[last]
    BY <1>2 DEF Sim!ArrayWritten
  <2> HIDE DEF last
  <2> QED
    BY <1>1, <2>1, <2>2 DEF Sim!Writers
<1>3. CASE ~\E c \in Sim!Writers(i, a) : Sim!IsLast(c, Sim!Writers(i, a))
  BY <1>3 DEF Sim!ArrayWritten
<1> QED
  BY <1>2, <1>3

LEMMA SameTerms ==
  ASSUME UNCHANGED <<heap, buffers, identity, scaleAddr>>
  PROVE  /\ Constants' = Constants
         /\ \A q : bufferWords(heap[q].shape)' = bufferWords(heap[q].shape)
         /\ \A q, k : DeadWord(heap[q].shape, k)' <=> DeadWord(heap[q].shape, k)
<1>1. Constants' = Constants
  BY DEF Constants
<1>2. \A q : bufferWords(heap[q].shape)' = bufferWords(heap[q].shape)
  BY DEF bufferWords, batchWords, pad, tilesOf
<1>3. \A q, k : DeadWord(heap[q].shape, k)' <=> DeadWord(heap[q].shape, k)
  BY DEF DeadWord, batchWords, pad, tilesOf
<1> QED
  BY <1>1, <1>2, <1>3

LEMMA SameData ==
  ASSUME DataHolds, UNCHANGED <<heap, buffers, identity, scaleAddr, memory>>
  PROVE  DataHolds'
BY SameTerms DEF DataHolds, OffDiagonal, kTileElems

\* The padding, and the constants, survive a change of p's own words.
LEMMA DataKept ==
  ASSUME Ready, FitsInWords, Spaces, data.end <= dramWords, DataHolds,
         UNCHANGED <<heap, buffers, identity, scaleAddr>>, NEW p \in DOMAIN buffers,
         \A a \in DOMAIN memory : memory'[a] # memory[a] =>
           /\ a \in BufferOf(p)
           /\ \A k \in Int : a = buffers[p].addr + k /\ DeadWord(heap[p].shape, k) => memory'[a] = 0
  PROVE  DataHolds'
<1>1. ASSUME NEW q \in DOMAIN buffers, NEW k \in 0 .. bufferWords(heap[q].shape) - 1,
             DeadWord(heap[q].shape, k)
      PROVE  memory'[buffers[q].addr + k] = 0
  <2> DEFINE y == buffers[q].addr
             n == bufferWords(heap[q].shape)
  <2>1. memory[y + k] = 0
    BY <1>1 DEF DataHolds
  <2>2. CASE y + k \in DOMAIN memory /\ memory'[y + k] # memory[y + k]
    <3>1. y + k \in BufferOf(q)
      <4>1. y \in Nat /\ n \in Nat /\ BufferOf(q) = y .. y + n - 1 /\ k \in 0 .. n - 1
        BY BufferFacts, WordsType DEF BufferOf
      <4> HIDE DEF y, n
      <4> QED
        BY <4>1
    <3>2. y + k \in BufferOf(p)
      BY <2>2
    <3>3. q = p
      BY <3>1, <3>2, OwnWord
    <3>4. k \in Int /\ y + k = buffers[p].addr + k
      BY <3>3
    <3> QED
      BY <1>1, <2>2, <3>3, <3>4
  <2>3. y + k \in DOMAIN memory
    BY TileInMemory
  <2> QED
    BY <2>1, <2>2, <2>3
<1>2. ASSUME NEW t \in Constants, NEW c \in 0 .. kTileElems - 1, OffDiagonal(c)
      PROVE  memory'[t + c] = 0
  <2>1. memory[t + c] = 0 /\ t + c \in DOMAIN memory
    BY <1>2, ConstantInMemory DEF DataHolds
  <2>2. t + c \notin BufferOf(p)
    BY BuffersApart
  <2> QED
    BY <2>1, <2>2
<1> QED
  BY <1>1, <1>2, SameTerms DEF DataHolds, OffDiagonal, kTileElems

LEMMA TileStored ==
  ASSUME Ready, FitsInWords, Spaces, data.end <= dramWords, HoldsIntegers, DataHolds, Sim!Step,
         NEW p, NEW K, NEW L, StoresTile(p, Sim!Inst, K, L), TilesHold(K), RegistersHold(K),
         UNCHANGED <<heap, buffers, identity, scaleAddr>>
  PROVE  HoldsIntegers' /\ DataHolds' /\ UNCHANGED <<M, scratchpad>>
<1>1. PICK i : i = Sim!Inst
  OBVIOUS
<1>2. Sim!ExecStore /\ i.dst.cls = "Matrix" /\ i.src1.kind = "Memory" /\ p \in DOMAIN buffers
  BY <1>1, SortsHandled DEF StoresTile
<1>3. PICK m \in Sim!MatrixRegs, r \in Sim!ScalarRegs :
        \E b, ti, tj \in Int :
          /\ TileOf(heap[p].shape, b, ti, tj) /\ <<r, buffers[p].addr>> \in K.reg
          /\ <<m, liveOf(heap[p].shape.rows, ti), liveOf(heap[p].shape.cols, tj)>> \in K.zero
          /\ <<i>> = BufferTile("STORE", m, r, p, b, ti, tj)
  BY <1>1 DEF StoresTile
<1>4. PICK b, ti, tj \in Int :
        /\ TileOf(heap[p].shape, b, ti, tj) /\ <<r, buffers[p].addr>> \in K.reg
        /\ <<m, liveOf(heap[p].shape.rows, ti), liveOf(heap[p].shape.cols, tj)>> \in K.zero
        /\ <<i>> = BufferTile("STORE", m, r, p, b, ti, tj)
  BY <1>3
<1> DEFINE s == heap[p].shape
           x == buffers[p].addr
<1>5. ~i.src1.scratchpad /\ i.dst.idx = m
  BY <1>4, EmitIs DEF BufferTile, Move, Mat, ISA!RegOperand, ISA!MemOperand
<1>6. R[r] = x /\ s \in TensorShape /\ x \in Int
  BY <1>2, <1>4, BufferFacts DEF RegistersHold
<1>7. \A c \in 0 .. kTileElems - 1 : Sim!CellAddr(i, c) = x + wordOf(s, b, ti, tj, c)
  BY <1>2, <1>4, <1>6, BufferCell
<1>8. Sim!Array(i.src1.scratchpad) = memory
  BY <1>5 DEF Sim!Array
<1>9. UNCHANGED <<M, scratchpad>> /\ memory' = Sim!ArrayWritten(i, M[m])
  BY <1>1, <1>2, <1>5, StoreEffect
<1>10. DOMAIN memory' = DOMAIN memory
  BY <1>8, <1>9 DEF Sim!ArrayWritten
<1>11. \A a \in DOMAIN memory :
         \/ memory'[a] = memory[a]
         \/ \E c \in 0 .. kTileElems - 1 : Sim!CellAddr(i, c) = a /\ memory'[a] = M[m][c]
  BY <1>2, <1>8, <1>9, Written
<1>12. HoldsIntegers'
  <2>1. \A a \in DOMAIN memory' : memory'[a] \in Int
    BY <1>10, <1>11 DEF HoldsIntegers
  <2> QED
    BY <1>9, <2>1 DEF HoldsIntegers
<1>13. ASSUME NEW a \in DOMAIN memory, memory'[a] # memory[a]
       PROVE  /\ a \in BufferOf(p)
              /\ \A k \in Int : a = x + k /\ DeadWord(s, k) => memory'[a] = 0
  <2>1. PICK c \in 0 .. kTileElems - 1 : Sim!CellAddr(i, c) = a /\ memory'[a] = M[m][c]
    BY <1>11, <1>13
  <2>2. a \in BufferOf(p)
    BY <1>2, <1>4, <1>6, <2>1, TileInBuffer
  <2>3. PICK j : j = wordOf(s, b, ti, tj, c)
    OBVIOUS
  <2>4. /\ j \in 0 .. bufferWords(s) - 1
        /\ DeadWord(s, j) => Outside(c, liveOf(s.rows, ti), liveOf(s.cols, tj))
    BY <1>4, <1>6, <2>3, WordOfTile DEF Outside
  <2>5. DeadWord(s, j) => memory'[a] = 0
    BY <1>4, <2>1, <2>4 DEF TilesHold
  <2>6. a = x + j
    BY <1>7, <2>1, <2>3
  <2>7. ASSUME NEW k \in Int, a = x + k
        PROVE  k = j
    <3>1. j \in Int
      BY <2>4
    <3> HIDE DEF x
    <3> QED
      BY <1>6, <2>6, <2>7, <3>1
  <2> QED
    BY <2>2, <2>5, <2>7
<1>14. DataHolds'
  BY <1>2, <1>13, DataKept
<1> QED
  BY <1>9, <1>12, <1>14

LEMMA TileStaged ==
  ASSUME Spaces, R[0] = 0, HoldsIntegers, Sim!Step,
         NEW p, NEW K, NEW L, StoresStaged(p, Sim!Inst, K, L), TilesHold(K)
  PROVE  /\ HoldsIntegers' /\ UNCHANGED <<M, memory>>
         /\ Stops \/ TilesHold(L)'
<1>1. PICK i : i = Sim!Inst
  OBVIOUS
<1>2. Sim!ExecStore /\ i.dst.cls = "Matrix" /\ i.src1.kind = "Memory"
  BY <1>1, SortsHandled
<1>3. PICK m \in Sim!MatrixRegs, t \in Int : \E h, w :
        /\ <<m, h, w>> \in K.zero /\ <<i>> = ScratchTile("STORE", m, t)
        /\ StagedChanges(K, L, t, h, w)
  BY <1>1 DEF StoresStaged
<1>4. PICK h, w : /\ <<m, h, w>> \in K.zero /\ <<i>> = ScratchTile("STORE", m, t)
                  /\ StagedChanges(K, L, t, h, w)
  BY <1>3
<1>5. i.src1.scratchpad /\ i.dst.idx = m /\ i.src1.stride = 0
  BY <1>4, EmitIs DEF ScratchTile, Move, Mat, ISA!RegOperand, ISA!MemOperand
<1>6. \A c \in 0 .. kTileElems - 1 :
        /\ Sim!CellAddr(i, c) = kTileElems * t + c
        /\ Sim!CellAddr(i, c) \div kTileElems = t /\ Sim!CellAddr(i, c) % kTileElems = c
  BY <1>4, ScratchCell
<1>7. Sim!Array(i.src1.scratchpad) = scratchpad
  BY <1>5 DEF Sim!Array
<1>8. /\ UNCHANGED <<M, memory>> /\ scratchpad' = Sim!ArrayWritten(i, M[m])
      /\ Stops \/ Sim!RowsDone(i) = Sim!RowsOf(i)
  BY <1>1, <1>2, <1>5, StoreEffect
<1>9. DOMAIN scratchpad' = DOMAIN scratchpad
  BY <1>7, <1>8 DEF Sim!ArrayWritten
<1>10. \A a \in DOMAIN scratchpad :
         \/ scratchpad'[a] = scratchpad[a]
         \/ \E c \in 0 .. kTileElems - 1 : Sim!CellAddr(i, c) = a /\ scratchpad'[a] = M[m][c]
  BY <1>2, <1>7, <1>8, Written
<1>11. HoldsIntegers'
  <2>1. \A a \in DOMAIN scratchpad' : scratchpad'[a] \in Int
    BY <1>9, <1>10 DEF HoldsIntegers
  <2> QED
    BY <1>8, <2>1 DEF HoldsIntegers
<1>12. ASSUME ~Stops, NEW c \in 0 .. kTileElems - 1, kTileElems * t + c \in DOMAIN scratchpad
       PROVE  scratchpad'[kTileElems * t + c] = M[m][c]
  <2>1. PICK a : a = kTileElems * t + c
    OBVIOUS
  <2>2. Sim!Writers(i, a) = {c}
    <3>1. Sim!CellsOf(i.dst.cls) = 0 .. kTileElems - 1
      BY <1>2 DEF Sim!CellsOf, Sim!TileCells, Sim!kTileElems, kTileElems
    <3>2. \A d \in 0 .. kTileElems - 1 : Sim!CellAddr(i, d) = a => d = c
      BY <1>6, <2>1
    <3>3. Sim!CellAddr(i, c) = a /\ Sim!CellRow(i, c) \in Sim!RowsDone(i)
      BY <1>2, <1>6, <1>8, <1>12, <2>1, CellInRows
    <3> QED
      BY <3>1, <3>2, <3>3 DEF Sim!Writers
  <2>3. \A d \in {c} : Sim!IsLast(d, {c}) <=> d = c
    BY DEF Sim!IsLast
  <2>4. Sim!IsLast(c, Sim!Writers(i, a))
        /\ (CHOOSE d \in Sim!Writers(i, a) : Sim!IsLast(d, Sim!Writers(i, a))) = c
    BY <2>2, <2>3
  <2> QED
    BY <1>7, <1>8, <1>12, <2>1, <2>2, <2>4 DEF Sim!ArrayWritten
<1>13. ASSUME NEW u \in 0 .. ScratchpadTiles - 1, u # t, NEW c \in 0 .. kTileElems - 1,
              kTileElems * u + c \in DOMAIN scratchpad
       PROVE  scratchpad'[kTileElems * u + c] = scratchpad[kTileElems * u + c]
  <2>1. PICK a : a = kTileElems * u + c
    OBVIOUS
  <2>2. a \div kTileElems = u
    <3> DEFINE e == kTileElems
    <3>1. e \in Nat \ {0} /\ c \in 0 .. e - 1 /\ u \in Int
      BY IRAssumption, ProductType DEF kTileElems
    <3> HIDE DEF e
    <3>2. e * u + c = u * e + c
      BY <3>1
    <3>3. (u * e + c) \div e = u
      BY <3>1, DivMod
    <3> QED
      BY <2>1, <3>2, <3>3 DEF e
  <2>3. ~\E d \in 0 .. kTileElems - 1 : Sim!CellAddr(i, d) = a
    BY <1>6, <1>13, <2>2
  <2> QED
    BY <1>10, <1>13, <2>1, <2>3
<1>14. ASSUME ~Stops
       PROVE  TilesHold(L)'
  <2>1. ASSUME NEW u \in 0 .. ScratchpadTiles - 1, NEW a, NEW b, <<u, a, b>> \in L.staged,
               NEW c \in 0 .. kTileElems - 1, Outside(c, a, b)
        PROVE  scratchpad'[kTileElems * u + c] = 0
    <3>1. kTileElems * u + c \in DOMAIN scratchpad
      BY StagedInScratchpad
    <3>2. CASE u = t
      <4>1. a = h /\ b = w
        BY <1>4, <2>1, <3>2 DEF StagedChanges
      <4>2. M[m][c] = 0
        BY <1>4, <2>1, <4>1 DEF TilesHold
      <4>3. scratchpad'[kTileElems * t + c] = M[m][c]
        BY <1>12, <1>14, <3>1, <3>2
      <4> QED
        BY <3>2, <4>2, <4>3
    <3>3. CASE u # t
      <4>1. <<u, a, b>> \in K.staged
        BY <1>4, <2>1, <3>3 DEF StagedChanges
      <4>2. scratchpad[kTileElems * u + c] = 0
        BY <2>1, <4>1 DEF TilesHold
      <4> QED
        BY <1>13, <3>1, <3>3, <4>2
    <3> QED
      BY <3>2, <3>3
  <2>2. L.zero \subseteq K.zero /\ L.diagonal \subseteq K.diagonal
    BY <1>4 DEF StagedChanges
  <2> QED
    BY <1>8, <2>1, <2>2 DEF TilesHold, Outside
<1> QED
  BY <1>8, <1>11, <1>14

-----------------------------------------------------------------------------
(* mdt_softmax writes zeros on the padding of its result.                  *)

\* The row and column of word k of a matrix of P rows of C words.
LEMMA RowOfWord ==
  ASSUME NEW P \in Nat \ {0}, NEW C \in Nat \ {0}, NEW k \in Int
  PROVE  /\ (k \div C) % P = (k % (P * C)) \div C
         /\ k % C = (k % (P * C)) % C
<1> DEFINE u == k \div C
           v == k % C
           q == u \div P
           x == u % P
<1>1. u \in Int /\ v \in 0 .. C - 1 /\ k = C * u + v
  OBVIOUS
<1>2. q \in Int /\ x \in 0 .. P - 1 /\ u = P * q + x
  BY <1>1
<1> HIDE DEF u, v, q, x
<1>3. x * C + v \in 0 .. P * C - 1 /\ P * C \in Nat \ {0}
  <2>1. x * C <= (P - 1) * C /\ x * C >= 0 /\ x * C \in Int
    BY <1>2
  <2>2. (P - 1) * C = P * C - C /\ P * C \in Nat /\ P * C >= C
    OBVIOUS
  <2> QED
    BY <1>1, <2>1, <2>2
<1>4. k = q * (P * C) + (x * C + v)
  <2>1. C * (P * q + x) + v = q * (P * C) + (x * C + v)
    BY <1>1, <1>2
  <2> QED
    BY <1>1, <1>2, <2>1
<1>5. k % (P * C) = x * C + v
  BY <1>2, <1>3, <1>4, QuotientIs
<1>6. (x * C + v) \div C = x /\ (x * C + v) % C = v
  BY <1>1, <1>2, DivMod
<1> QED
  BY <1>5, <1>6 DEF u, v, x

-----------------------------------------------------------------------------
(* What a matrix instruction leaves in a tile.                             *)

\* The product that the accumulation for cell c adds at k, from 1.
factorAt(x, y, c, k) == x[Sim!Cell(Sim!Row(c), k - 1)] * y[Sim!Cell(k - 1, Sim!Col(c))]

LEMMA DotIs ==
  ASSUME NEW x, NEW y, NEW c, \A k \in 1 .. kTileDim : factorAt(x, y, c, k) \in Int
  PROVE  /\ Sim!dot(x, y, c) \in Int
         /\ (\A k \in 1 .. kTileDim : factorAt(x, y, c, k) = 0) => Sim!dot(x, y, c) = 0
<1> DEFINE d == kTileDim
           P(k) == factorAt(x, y, c, k)
           Sums(f) == f = [k \in 0 .. d |-> IF k = 0 THEN 0 ELSE f[k - 1] + P(k)]
           sum == CHOOSE f : Sums(f)
           g == [k \in 1 .. d |-> [n \in Int |-> n + P(k)]]
<1>1. d \in Nat
  BY IRAssumption
<1>2. g \in [1 .. d -> [Int -> Int]]
  OBVIOUS
<1>3. PICK f : Iterates(f, d, Int, 0, g)
  <2>1. PICK D, z, h : D = Int /\ z = 0 /\ h = g
    OBVIOUS
  <2>2. z \in D /\ h \in [1 .. d -> [D -> D]]
    BY <1>2, <2>1
  <2> HIDE DEF g, d
  <2>3. \E f : Iterates(f, d, D, z, h)
    BY <1>1, <2>2, Recursion
  <2> QED
    BY <2>1, <2>3
<1>4. Sums(f)
  <2>1. f \in [0 .. d -> Int] /\ f[0] = 0
    BY <1>3 DEF Iterates
  <2>2. ASSUME NEW k \in 1 .. d
        PROVE  f[k] = f[k - 1] + P(k)
    <3>1. k - 1 \in 0 .. d
      BY <1>1
    <3>2. f[k] = g[k][f[k - 1]] /\ f[k - 1] \in Int
      BY <1>3, <2>1, <3>1 DEF Iterates
    <3> QED
      BY <3>2
  <2>3. \A k \in 0 .. d : k # 0 => k \in 1 .. d
    BY <1>1
  <2> HIDE DEF P
  <2>4. \A k \in 0 .. d : f[k] = IF k = 0 THEN 0 ELSE f[k - 1] + P(k)
    BY <2>1, <2>2, <2>3
  <2> QED
    BY <2>1, <2>4
<1>5. Sums(sum)
  <2> HIDE DEF Sums
  <2> QED
    BY <1>4
<1>6. Sim!dot(x, y, c) = sum[d]
  BY DEF Sim!dot, factorAt
<1> HIDE DEF sum
<1>7. sum[0] = 0 /\ \A k \in 1 .. d : sum[k] = sum[k - 1] + P(k)
  <2>1. 0 \in 0 .. d /\ \A k \in 1 .. d : k \in 0 .. d /\ k # 0
    BY <1>1
  <2> HIDE DEF P
  <2> QED
    BY <1>5, <2>1
<1> DEFINE zero == \A k \in 1 .. d : P(k) = 0
           T == {n \in Nat : n <= d => sum[n] \in Int /\ (zero => sum[n] = 0)}
<1>8. ASSUME NEW n \in Nat, 0 .. n - 1 \subseteq T
      PROVE  n \in T
  <2>1. CASE n = 0
    BY <1>7, <2>1
  <2>2. CASE n # 0 /\ n <= d
    <3>1. n - 1 \in 0 .. n - 1 /\ n - 1 <= d /\ n \in 1 .. d
      BY <1>1, <2>2
    <3>2. sum[n - 1] \in Int /\ (zero => sum[n - 1] = 0)
      BY <1>8, <3>1
    <3>3. sum[n] = sum[n - 1] + P(n) /\ P(n) \in Int /\ (zero => P(n) = 0)
      BY <1>7, <3>1
    <3> HIDE DEF zero, P
    <3> QED
      BY <3>2, <3>3
  <2> QED
    BY <2>1, <2>2
<1>9. d \in T
  <2> HIDE DEF T
  <2> QED
    BY <1>1, <1>8, Inherited
<1> QED
  BY <1>6, <1>9

\* A row, or a column, of cells of a tile.
LEMMA CellAt ==
  ASSUME NEW r \in 0 .. kTileDim - 1, NEW l \in 0 .. kTileDim - 1
  PROVE  /\ Sim!Cell(r, l) \in 0 .. kTileElems - 1
         /\ Sim!Row(Sim!Cell(r, l)) = r /\ Sim!Col(Sim!Cell(r, l)) = l
<1> DEFINE d == kTileDim
<1>1. d \in Nat \ {0} /\ r \in 0 .. d - 1 /\ l \in 0 .. d - 1
  BY IRAssumption
<1> HIDE DEF d
<1>2. (r * d + l) \div d = r /\ (r * d + l) % d = l
  BY <1>1, DivMod
<1>3. r * d + l \in 0 .. d * d - 1
  <2>1. r * d <= (d - 1) * d /\ r * d >= 0 /\ r * d \in Int
    BY <1>1
  <2>2. (d - 1) * d = d * d - d /\ d * d \in Int
    BY <1>1
  <2> QED
    BY <1>1, <2>1, <2>2
<1> QED
  BY <1>2, <1>3 DEF Sim!Cell, Sim!Row, Sim!Col, kTileElems, d

LEMMA SaturateType ==
  /\ \A n \in Int : Sim!Saturate(n) \in Int
  /\ Sim!Saturate(0) = 0
BY PipelineAssumption DEF Sim!Saturate, Sim!Word

\* The product of tiles of integers is one, with zeros where ProductOutside
\* says.
LEMMA ProductIs ==
  ASSUME NEW x, NEW y,
         \A c \in 0 .. kTileElems - 1 : x[c] \in Int /\ y[c] \in Int,
         NEW c \in 0 .. kTileElems - 1
  PROVE  /\ Sim!matmulProduct(x, y)[c] \in Int
         /\ (\A k \in 1 .. kTileDim : \/ x[Sim!Cell(Sim!Row(c), k - 1)] = 0
                                      \/ y[Sim!Cell(k - 1, Sim!Col(c))] = 0)
              => Sim!matmulProduct(x, y)[c] = 0
<1>1. Sim!Row(c) \in 0 .. kTileDim - 1 /\ Sim!Col(c) \in 0 .. kTileDim - 1
  BY CellOf
<1>2. ASSUME NEW k \in 1 .. kTileDim
      PROVE  x[Sim!Cell(Sim!Row(c), k - 1)] \in Int /\ y[Sim!Cell(k - 1, Sim!Col(c))] \in Int
  <2>1. k - 1 \in 0 .. kTileDim - 1
    BY IRAssumption
  <2> QED
    BY <1>1, <2>1, CellAt
<1>3. \A k \in 1 .. kTileDim : factorAt(x, y, c, k) \in Int
  BY <1>2 DEF factorAt
<1>4. Sim!matmulProduct(x, y)[c] = Sim!Saturate(Sim!dot(x, y, c))
  BY DEF Sim!matmulProduct, Sim!TileCells, Sim!kTileElems, kTileElems
<1>5. Sim!matmulProduct(x, y)[c] \in Int
  BY <1>3, <1>4, DotIs, SaturateType
<1>6. ASSUME \A k \in 1 .. kTileDim : \/ x[Sim!Cell(Sim!Row(c), k - 1)] = 0
                                      \/ y[Sim!Cell(k - 1, Sim!Col(c))] = 0
      PROVE  Sim!matmulProduct(x, y)[c] = 0
  <2>1. \A u, v \in Int : u = 0 \/ v = 0 => u * v = 0
    OBVIOUS
  <2>2. \A k \in 1 .. kTileDim : factorAt(x, y, c, k) = 0
    BY <1>2, <1>6, <2>1 DEF factorAt
  <2>3. Sim!dot(x, y, c) = 0
    BY <1>3, <2>2, DotIs
  <2> QED
    BY <1>4, <2>3, SaturateType
<1> QED
  BY <1>5, <1>6

LEMMA TileComputed ==
  ASSUME HoldsIntegers, UNCHANGED <<memory, scratchpad>>, NEW m \in Sim!MatrixRegs, NEW t,
         M' = [M EXCEPT ![m] = t], \A c \in 0 .. kTileElems - 1 : t[c] \in Int
  PROVE  /\ HoldsIntegers' /\ M'[m] = t
         /\ \A x \in Sim!MatrixRegs : x # m => M'[x] = M[x]
<1>1. /\ DOMAIN M' = Sim!MatrixRegs /\ M'[m] = t
      /\ \A x \in Sim!MatrixRegs : x # m => M'[x] = M[x]
  BY DEF HoldsIntegers
<1>2. \A x \in Sim!MatrixRegs : \A c \in 0 .. kTileElems - 1 : M'[x][c] \in Int
  BY <1>1 DEF HoldsIntegers
<1> QED
  BY <1>1, <1>2 DEF HoldsIntegers

\* A cell outside of a product is a sum of products with a zero.
LEMMA OutsideProduct ==
  ASSUME NEW K, TilesHold(K), NEW x \in Sim!MatrixRegs, NEW y \in Sim!MatrixRegs,
         NEW h, NEW w, ProductOutside(K, x, y, h, w),
         NEW c \in 0 .. kTileElems - 1, Outside(c, h, w), NEW k \in 1 .. kTileDim
  PROVE  \/ M[x][Sim!Cell(Sim!Row(c), k - 1)] = 0
         \/ M[y][Sim!Cell(k - 1, Sim!Col(c))] = 0
<1> DEFINE r == Sim!Row(c)
           l == Sim!Col(c)
           left == Sim!Cell(r, k - 1)
           right == Sim!Cell(k - 1, l)
<1>1. r \in 0 .. kTileDim - 1 /\ l \in 0 .. kTileDim - 1 /\ k - 1 \in 0 .. kTileDim - 1
      /\ c = r * kTileDim + l
  BY IRAssumption, CellOf
<1>2. /\ left \in 0 .. kTileElems - 1 /\ Sim!Row(left) = r
      /\ right \in 0 .. kTileElems - 1 /\ Sim!Row(right) = k - 1 /\ Sim!Col(right) = l
  BY <1>1, CellAt
<1> HIDE DEF left, right
<1>3. CASE \E v, u : <<x, h, v>> \in K.zero /\ <<y, u, w>> \in K.zero
  <2>1. PICK v, u : <<x, h, v>> \in K.zero /\ <<y, u, w>> \in K.zero
    BY <1>3
  <2>2. CASE Sim!Row(c) >= h
    <3>1. Outside(left, h, v)
      BY <1>2, <2>2 DEF Outside
    <3>2. M[x][left] = 0
      BY <1>2, <2>1, <3>1 DEF TilesHold
    <3> QED
      BY <3>2 DEF left
  <2>3. CASE Sim!Col(c) >= w
    <3>1. Outside(right, u, w)
      BY <1>2, <2>3 DEF Outside
    <3>2. M[y][right] = 0
      BY <1>2, <2>1, <3>1 DEF TilesHold
    <3> QED
      BY <3>2 DEF right
  <2> QED
    BY <2>2, <2>3 DEF Outside
<1>4. CASE <<x, h, w>> \in K.zero /\ y \in K.diagonal
  <2>1. CASE k - 1 = l
    <3>1. left = c
      BY <1>1, <2>1 DEF Sim!Cell, left
    <3>2. M[x][c] = 0
      BY <1>4 DEF TilesHold
    <3> QED
      BY <3>1, <3>2 DEF left
  <2>2. CASE k - 1 # l
    <3>1. OffDiagonal(right)
      BY <1>2, <2>2 DEF OffDiagonal, Sim!Row, Sim!Col
    <3>2. M[y][right] = 0
      BY <1>2, <1>4, <3>1 DEF TilesHold
    <3> QED
      BY <3>2 DEF right
  <2> QED
    BY <2>1, <2>2
<1> QED
  BY <1>3, <1>4 DEF ProductOutside

LEMMA TileMultiplied ==
  ASSUME HoldsIntegers, Sim!Step, NEW p, NEW K, NEW L, Multiplies(Sim!Inst, K, L), TilesHold(K)
  PROVE  /\ HoldsIntegers' /\ UNCHANGED <<memory, scratchpad>>
         /\ Stops \/ TilesHold(L)'
<1>1. PICK i : i = Sim!Inst
  OBVIOUS
<1>2. Sim!Matrix
  BY <1>1, SortsHandled
<1>3. PICK op \in {"MATMUL", "MATMULRELU", "MATMULACC"}, d, x, y \in Sim!MatrixRegs : \E h, w :
        /\ <<i>> = Emit(op, Mat(d), Mat(x), Mat(y)) /\ ProductOutside(K, x, y, h, w)
        /\ op = "MATMULACC" => <<d, h, w>> \in K.zero
        /\ TileChanges(K, L, d, {<<h, w>>}, FALSE)
  <2>1. Multiplies(i, K, L)
    BY <1>1
  <2> QED
    BY <2>1, Zenon DEF Multiplies
<1>4. PICK h, w : /\ <<i>> = Emit(op, Mat(d), Mat(x), Mat(y)) /\ ProductOutside(K, x, y, h, w)
                  /\ op = "MATMULACC" => <<d, h, w>> \in K.zero
                  /\ TileChanges(K, L, d, {<<h, w>>}, FALSE)
  BY <1>3
<1>5. i.op = op /\ i.dst.idx = d /\ i.src1.idx = x /\ i.src2.idx = y
  BY <1>4, EmitIs DEF Mat, ISA!RegOperand
<1> DEFINE t == Sim!matrixResult(op, M[d], M[x], M[y])
<1>6. /\ UNCHANGED <<memory, scratchpad>>
      /\ \/ M' = [M EXCEPT ![d] = t]
         \/ Stops /\ UNCHANGED M
  BY <1>1, <1>2, <1>5, MatrixEffect
<1>7. CASE UNCHANGED M /\ Stops
  BY <1>6, <1>7 DEF HoldsIntegers
<1>8. CASE M' = [M EXCEPT ![d] = t]
  <2> DEFINE z == Sim!matmulProduct(M[x], M[y])
  <2>1. ASSUME NEW c \in 0 .. kTileElems - 1
        PROVE  z[c] \in Int /\ (Outside(c, h, w) => z[c] = 0)
    <3>1. \A e \in 0 .. kTileElems - 1 : M[x][e] \in Int /\ M[y][e] \in Int
      BY DEF HoldsIntegers
    <3>2. z[c] \in Int
      BY <3>1, ProductIs
    <3>3. ASSUME Outside(c, h, w)
          PROVE  z[c] = 0
      <4>1. \A k \in 1 .. kTileDim : \/ M[x][Sim!Cell(Sim!Row(c), k - 1)] = 0
                                     \/ M[y][Sim!Cell(k - 1, Sim!Col(c))] = 0
        BY <1>4, <3>3, OutsideProduct
      <4> QED
        BY <3>1, <4>1, ProductIs
    <3> QED
      BY <3>2, <3>3
  <2>2. ASSUME NEW c \in 0 .. kTileElems - 1
        PROVE  t[c] = CASE op = "MATMUL" -> z[c]
                        [] op = "MATMULACC" -> Sim!Saturate(M[d][c] + z[c])
                        [] op = "MATMULRELU" -> Sim!relu(z[c])
    <3>1. c \in Sim!TileCells
      BY DEF Sim!TileCells, Sim!kTileElems, kTileElems
    <3>2. CASE op = "MATMUL"
      BY <3>1, <3>2 DEF Sim!matrixResult
    <3>3. CASE op = "MATMULACC"
      BY <3>1, <3>3 DEF Sim!matrixResult
    <3>4. CASE op = "MATMULRELU"
      BY <3>1, <3>4 DEF Sim!matrixResult
    <3> QED
      BY <3>2, <3>3, <3>4
  <2> HIDE DEF z, t
  <2>3. ASSUME NEW c \in 0 .. kTileElems - 1
        PROVE  t[c] \in Int /\ (Outside(c, h, w) => t[c] = 0)
    <3>1. z[c] \in Int /\ (Outside(c, h, w) => z[c] = 0)
      BY <2>1
    <3>2. CASE op = "MATMUL"
      BY <2>2, <3>1, <3>2
    <3>3. CASE op = "MATMULACC"
      <4>1. M[d][c] \in Int /\ (Outside(c, h, w) => M[d][c] = 0)
        BY <1>4, <3>3 DEF TilesHold, HoldsIntegers
      <4>2. t[c] = Sim!Saturate(M[d][c] + z[c])
        BY <2>2, <3>3
      <4>3. M[d][c] + z[c] \in Int /\ (Outside(c, h, w) => M[d][c] + z[c] = 0)
        BY <3>1, <4>1
      <4> QED
        BY <4>2, <4>3, SaturateType
    <3>4. CASE op = "MATMULRELU"
      <4>1. t[c] = Sim!relu(z[c])
        BY <2>2, <3>4
      <4> QED
        BY <3>1, <4>1 DEF Sim!relu
    <3> QED
      BY <3>2, <3>3, <3>4
  <2>4. /\ HoldsIntegers' /\ M'[d] = t
        /\ \A e \in Sim!MatrixRegs : e # d => M'[e] = M[e]
    BY <1>6, <1>8, <2>3, TileComputed
  <2>5. TilesHold(L)'
    BY <1>4, <1>6, <2>3, <2>4, TileSet
  <2> QED
    BY <1>6, <2>4, <2>5
<1> QED
  BY <1>6, <1>7, <1>8

LEMMA TileMapped ==
  ASSUME HoldsIntegers, Sim!Step, NEW p, NEW K, NEW L, Maps(Sim!Inst, K, L), TilesHold(K)
  PROVE  /\ HoldsIntegers' /\ UNCHANGED <<memory, scratchpad>>
         /\ Stops \/ TilesHold(L)'
<1>1. PICK i : i = Sim!Inst
  OBVIOUS
<1>2. Sim!Matrix
  BY <1>1, SortsHandled
<1>3. PICK op \in {"RELU", "TRANSPOSE"}, d, x \in Sim!MatrixRegs : \E h, w :
        /\ <<i>> = Emit(op, Mat(d), Mat(x), ISA!NoOperand)
        /\ IF op = "RELU" THEN <<x, h, w>> \in K.zero ELSE <<x, w, h>> \in K.zero
        /\ TileChanges(K, L, d, {<<h, w>>}, FALSE)
  BY <1>1 DEF Maps
<1>4. PICK h, w : /\ <<i>> = Emit(op, Mat(d), Mat(x), ISA!NoOperand)
                  /\ IF op = "RELU" THEN <<x, h, w>> \in K.zero ELSE <<x, w, h>> \in K.zero
                  /\ TileChanges(K, L, d, {<<h, w>>}, FALSE)
  BY <1>3
<1>5. i.op = op /\ i.dst.idx = d /\ i.src1.idx = x
  BY <1>4, EmitIs DEF Mat, ISA!RegOperand
<1>6. PICK y : /\ UNCHANGED <<memory, scratchpad>>
               /\ \/ M' = [M EXCEPT ![d] = Sim!matrixResult(op, M[d], M[x], y)]
                  \/ Stops /\ UNCHANGED M
  BY <1>1, <1>2, <1>5, MatrixEffect
<1> DEFINE t == Sim!matrixResult(op, M[d], M[x], y)
<1>7. CASE UNCHANGED M /\ Stops
  BY <1>6, <1>7 DEF HoldsIntegers
<1>8. CASE M' = [M EXCEPT ![d] = t]
  <2>1. ASSUME NEW c \in 0 .. kTileElems - 1
        PROVE  /\ op = "RELU" => t[c] = Sim!relu(M[x][c])
               /\ op = "TRANSPOSE" => t[c] = M[x][Sim!Cell(Sim!Col(c), Sim!Row(c))]
    <3>1. c \in Sim!TileCells
      BY DEF Sim!TileCells, Sim!kTileElems, kTileElems
    <3> QED
      BY <3>1 DEF Sim!matrixResult
  <2> HIDE DEF t
  <2>2. ASSUME NEW c \in 0 .. kTileElems - 1
        PROVE  t[c] \in Int /\ (Outside(c, h, w) => t[c] = 0)
    <3>1. CASE op = "RELU"
      <4>1. M[x][c] \in Int /\ (Outside(c, h, w) => M[x][c] = 0)
        BY <1>4, <3>1 DEF TilesHold, HoldsIntegers
      <4> QED
        BY <2>1, <3>1, <4>1 DEF Sim!relu
    <3>2. CASE op = "TRANSPOSE"
      <4> DEFINE e == Sim!Cell(Sim!Col(c), Sim!Row(c))
      <4>1. e \in 0 .. kTileElems - 1 /\ Sim!Row(e) = Sim!Col(c) /\ Sim!Col(e) = Sim!Row(c)
        BY CellOf, CellAt
      <4> HIDE DEF e
      <4>2. Outside(c, h, w) => Outside(e, w, h)
        BY <4>1 DEF Outside
      <4>3. M[x][e] \in Int /\ (Outside(c, h, w) => M[x][e] = 0)
        BY <1>4, <3>2, <4>1, <4>2 DEF TilesHold, HoldsIntegers
      <4>4. t[c] = M[x][e]
        BY <2>1, <3>2 DEF e
      <4> QED
        BY <4>3, <4>4
    <3> QED
      BY <3>1, <3>2
  <2>3. /\ HoldsIntegers' /\ M'[d] = t
        /\ \A e \in Sim!MatrixRegs : e # d => M'[e] = M[e]
    BY <1>6, <1>8, <2>2, TileComputed
  <2>4. TilesHold(L)'
    BY <1>4, <1>6, <2>2, <2>3, TileSet
  <2> QED
    BY <1>6, <2>3, <2>4
<1> QED
  BY <1>6, <1>7, <1>8

LEMMA SoftmaxPads ==
  ASSUME Ready, FitsInWords, Spaces, data.end <= dramWords, HoldsIntegers, DataHolds, Sim!Step,
         NEW p, NEW K, NEW L, Normalises(p, Sim!Inst, K, L), RegistersHold(K),
         UNCHANGED <<heap, buffers, identity, scaleAddr>>
  PROVE  HoldsIntegers' /\ DataHolds' /\ UNCHANGED <<M, scratchpad>>
<1>1. Sim!RuntimeSoftmax
  BY SortsHandled
<1> DEFINE s == heap[p].shape
           x == buffers[p].addr
           n == bufferWords(s)
<1>2. /\ p \in DOMAIN buffers /\ R[2] = x /\ Sim!SoftmaxWords = n
      /\ R[4] = s.rows /\ R[5] = s.cols /\ R[6] = pad(s.cols)
  BY SoftmaxWrites
<1>3. /\ s \in TensorShape /\ x \in Int /\ n \in Int /\ BufferOf(p) = x .. x + n - 1
  <2>1. s \in TensorShape /\ x \in Nat /\ buffers[p].shape = s
    BY <1>2, BufferFacts
  <2>2. n \in Nat
    BY <2>1, WordsType
  <2>3. BufferOf(p) = x .. x + n - 1
    BY <2>1 DEF BufferOf
  <2> QED
    BY <2>1, <2>2, <2>3
<1>4. UNCHANGED <<M, scratchpad>>
  BY <1>1, CallEffect
<1>5. ASSUME UNCHANGED memory
      PROVE  HoldsIntegers' /\ DataHolds'
  <2>1. HoldsIntegers'
    BY <1>4, <1>5 DEF HoldsIntegers
  <2>2. DataHolds'
    BY <1>5, SameData
  <2> QED
    BY <2>1, <2>2
<1>6. ASSUME memory' = [a \in DOMAIN memory |->
                          IF a - R[2] \in 0 .. Sim!SoftmaxWords - 1
                          THEN IF Sim!SoftmaxLive(a - R[2]) THEN 1 ELSE 0
                          ELSE memory[a]]
      PROVE  HoldsIntegers' /\ DataHolds'
  <2>1. \A a \in DOMAIN memory :
          memory'[a] = IF a - x \in 0 .. n - 1
                       THEN IF Sim!SoftmaxLive(a - x) THEN 1 ELSE 0
                       ELSE memory[a]
    BY <1>2, <1>6
  <2>2. DOMAIN memory' = DOMAIN memory
    BY <1>6
  <2> HIDE DEF x, n
  <2>3. HoldsIntegers'
    <3>1. \A a \in DOMAIN memory' : memory'[a] \in Int
      BY <2>1, <2>2 DEF HoldsIntegers
    <3> QED
      BY <1>4, <3>1 DEF HoldsIntegers
  <2>4. \A k \in Int : DeadWord(s, k) => ~Sim!SoftmaxLive(k)
    <3> SUFFICES ASSUME NEW k \in Int, DeadWord(s, k), Sim!SoftmaxLive(k)
                 PROVE  FALSE
      OBVIOUS
    <3> DEFINE rp == pad(s.rows)
               cp == pad(s.cols)
    <3>1. rp \in Nat \ {0} /\ cp \in Nat \ {0} /\ s.rows \in Nat /\ s.cols \in Nat
          /\ batchWords(s) = rp * cp
      BY <1>3, WordsType DEF batchWords
    <3>2. (k \div cp) % rp < s.rows /\ k % cp < s.cols
      BY <1>2, PaddedIs DEF Sim!SoftmaxLive
    <3>3. (k % (rp * cp)) \div cp >= s.rows \/ (k % (rp * cp)) % cp >= s.cols
      BY <3>1 DEF DeadWord
    <3>4. (k \div cp) % rp = (k % (rp * cp)) \div cp /\ k % cp = (k % (rp * cp)) % cp
      BY <3>1, RowOfWord
    <3> HIDE DEF rp, cp
    <3>5. (k \div cp) % rp \in Int /\ k % cp \in Int
      BY <3>1
    <3> QED
      BY <3>1, <3>2, <3>3, <3>4, <3>5
  <2>5. ASSUME NEW a \in DOMAIN memory, memory'[a] # memory[a]
        PROVE  /\ a \in BufferOf(p)
               /\ \A k \in Int : a = x + k /\ DeadWord(s, k) => memory'[a] = 0
    <3>1. a - x \in 0 .. n - 1 /\ a \in Int
      BY <2>1, <2>5 DEF Spaces
    <3>2. a \in BufferOf(p)
      BY <1>3, <3>1
    <3>3. ASSUME NEW k \in Int, a = x + k, DeadWord(s, k)
          PROVE  memory'[a] = 0
      <4>1. a - x = k
        BY <1>3, <3>1, <3>3
      <4>2. ~Sim!SoftmaxLive(a - x)
        BY <2>4, <3>3, <4>1
      <4> QED
        BY <2>1, <3>1, <4>2
    <3> QED
      BY <3>2, <3>3
  <2>6. DataHolds'
    BY <1>2, <2>5, DataKept DEF x
  <2> QED
    BY <2>3, <2>6
<1> QED
  BY <1>1, <1>4, <1>5, <1>6, CallEffect

-----------------------------------------------------------------------------
(* An instruction of the text.                                             *)

LEMMA TilesFollow ==
  ASSUME Ready, FitsInWords, Spaces, data.end <= dramWords, R[0] = 0,
         HoldsIntegers, DataHolds, Sim!Step,
         NEW p, NEW K, NEW L, Follows(p, Sim!Inst, K, L), TilesHold(K), RegistersHold(K),
         UNCHANGED <<heap, buffers, identity, scaleAddr>>
  PROVE  /\ HoldsIntegers' /\ DataHolds'
         /\ Stops \/ TilesHold(L)'
<1>1. ASSUME UNCHANGED memory
      PROVE  DataHolds'
  BY <1>1, SameData
<1>2. CASE LoadsConstant(Sim!Inst, K, L)
  BY <1>1, <1>2, ConstantLoaded
<1>3. CASE LoadsTile(p, Sim!Inst, K, L)
  BY <1>1, <1>3, TileLoaded
<1>4. CASE LoadsStaged(p, Sim!Inst, K, L)
  BY <1>1, <1>4, StagedLoaded
<1>5. CASE StoresTile(p, Sim!Inst, K, L)
  <2>1. HoldsIntegers' /\ DataHolds' /\ UNCHANGED <<M, scratchpad>>
    BY <1>5, TileStored
  <2>2. TilesHold(L)'
    BY <1>5, <2>1, TilesKept DEF StoresTile, Below
  <2> QED
    BY <2>1, <2>2
<1>6. CASE StoresStaged(p, Sim!Inst, K, L)
  BY <1>1, <1>6, TileStaged
<1>7. CASE Multiplies(Sim!Inst, K, L)
  BY <1>1, <1>7, TileMultiplied
<1>8. CASE Maps(Sim!Inst, K, L)
  BY <1>1, <1>8, TileMapped
<1>9. ASSUME UNCHANGED <<M, memory, scratchpad>>,
             L.zero \subseteq K.zero, L.diagonal \subseteq K.diagonal, L.staged \subseteq K.staged
      PROVE  HoldsIntegers' /\ DataHolds' /\ TilesHold(L)'
  <2>1. HoldsIntegers'
    BY <1>9 DEF HoldsIntegers
  <2> QED
    BY <1>1, <1>9, <2>1, TilesKept
<1>10. CASE SetsRegister(Sim!Inst, K, L)
  <2>1. PICK r \in 1 .. 15 : \E n : <<Sim!Inst>> = Emit("ADD", Reg(r), Reg(0), Num(n))
                                      /\ RegisterChanges(K, L, r, n)
    BY <1>10 DEF SetsRegister
  <2>2. PICK n : <<Sim!Inst>> = Emit("ADD", Reg(r), Reg(0), Num(n)) /\ RegisterChanges(K, L, r, n)
    BY <2>1
  <2>3. UNCHANGED <<M, memory, scratchpad>>
    BY <1>10, <2>2, AddEffect, SortsHandled
  <2> QED
    BY <1>9, <2>2, <2>3 DEF RegisterChanges
<1>11. CASE ShowsTensor(Sim!Inst, K, L)
  <2>1. UNCHANGED <<M, memory, scratchpad>>
    BY <1>11, SortsHandled, CallEffect
  <2> QED
    BY <1>9, <1>11, <2>1 DEF ShowsTensor, Below
<1>12. CASE Normalises(p, Sim!Inst, K, L)
  <2>1. HoldsIntegers' /\ DataHolds' /\ UNCHANGED <<M, scratchpad>>
    BY <1>12, SoftmaxPads
  <2>2. TilesHold(L)'
    BY <1>12, <2>1, TilesKept DEF Normalises, Below
  <2> QED
    BY <2>1, <2>2
<1> QED
  BY <1>2, <1>3, <1>4, <1>5, <1>6, <1>7, <1>8, <1>10, <1>11, <1>12 DEF Follows

\* The program just loaded.
LEMMA TilesLoaded ==
  ASSUME Ready, section = "text", Spaces', TextInv, DataWord \subseteq Int, FitsInWords,
         StartSimulation
  PROVE  TilesInv'
<1>1. /\ Sim!LoadImage(assembly) /\ UNCHANGED <<vars, genVars>>
  BY DEF StartSimulation, CompilerIdle
<1>2. UNCHANGED <<heap, buffers, identity, scaleAddr, data, text, emitter>>
  BY <1>1 DEF vars, fn, genVars, layoutVars
<1> DEFINE size == Sim!DramFor(assembly.data)
           n == Len(data.words)
<1>3. /\ pc' = 0 /\ M' = [r \in Sim!MatrixRegs |-> Sim!ZeroTile]
      /\ memory' = [a \in 0 .. size - 1 |->
                      IF a < Len(assembly.data) THEN assembly.data[a + 1] ELSE 0]
      /\ scratchpad' = [a \in 0 .. ScratchpadWords - 1 |-> 0] /\ phase' = "loaded"
  BY <1>1 DEF Sim!LoadImage
<1>4. n = data.end /\ n \in Nat /\ data.words \in Seq(DataWord) /\ assembly.data = data.words
  BY DEF Ready, Layout, assembly
<1>5. DOMAIN memory' = 0 .. dramWords' - 1 /\ n <= dramWords' /\ dramWords' \in Nat
  BY <1>2, <1>3, <1>4 DEF Spaces
<1>6. \A a \in DOMAIN memory' : memory'[a] = IF a < n THEN data.words[a + 1] ELSE 0
  BY <1>3, <1>4
<1> HIDE DEF size
<1>7. \A k \in 1 .. n : data.words[k] \in Int
  <2>1. PICK w : w = data.words
    OBVIOUS
  <2>2. \A k \in 1 .. Len(w) : w[k] \in DataWord
    BY <1>4, <2>1
  <2> QED
    BY <2>1, <2>2
<1> HIDE DEF n
<1>8. HoldsIntegers'
  <2>1. ASSUME NEW a \in DOMAIN memory'
        PROVE  memory'[a] \in Int
    <3>1. a \in Int /\ a >= 0
      BY <1>5, <2>1
    <3>2. a < n => a + 1 \in 1 .. n
      BY <1>4, <3>1
    <3> QED
      BY <1>6, <1>7, <3>2
  <2>2. DOMAIN M' = Sim!MatrixRegs /\ \A m \in Sim!MatrixRegs :
          \A c \in 0 .. kTileElems - 1 : M'[m][c] \in Int
    BY <1>3 DEF Sim!ZeroTile, Sim!TileCells, Sim!kTileElems, kTileElems
  <2>3. \A a \in DOMAIN scratchpad' : scratchpad'[a] \in Int
    BY <1>3
  <2> QED
    BY <2>1, <2>2, <2>3 DEF HoldsIntegers, kTileElems
<1>9. ASSUME NEW a \in 0 .. n - 1
      PROVE  memory'[a] = data.words[a + 1]
  <2>0. n \in Nat
    BY <1>4
  <2>1. a \in DOMAIN memory' /\ a < n
    <3>1. a \in Int /\ a >= 0 /\ a < n
      BY <2>0
    <3>2. PICK d \in Nat : DOMAIN memory' = 0 .. d - 1 /\ n <= d
      BY <1>5
    <3>3. a \in 0 .. d - 1
      BY <2>0, <3>1, <3>2
    <3> QED
      BY <3>1, <3>2, <3>3
  <2> QED
    BY <1>6, <2>1
<1>10. ASSUME NEW q \in DOMAIN buffers, NEW k \in 0 .. bufferWords(heap[q].shape) - 1,
              DeadWord(heap[q].shape, k)
       PROVE  memory'[buffers[q].addr + k] = 0
  <2> DEFINE x == buffers[q].addr
             m == bufferWords(heap[q].shape)
  <2>1. BufferAt(data, q, buffers[q])
    BY DEF Ready, Layout
  <2>2. x \in Nat /\ m \in Nat /\ x + m <= n /\ k \in 0 .. m - 1
    BY <1>4, <2>1, BufferFacts, WordsType DEF BufferAt
  <2>3. data.words[x + k + 1] = 0
    BY <1>10, <2>1 DEF BufferAt
  <2> HIDE DEF x, m, n
  <2>4. x + k \in 0 .. n - 1
    BY <1>4, <2>2
  <2> QED
    BY <1>9, <2>3, <2>4 DEF x
<1>11. ASSUME NEW t \in Constants, NEW c \in 0 .. kTileElems - 1, OffDiagonal(c)
       PROVE  memory'[t + c] = 0
  <2> DEFINE e == kTileElems
  <2>1. t \in Nat /\ t + e <= n /\ e \in Nat /\ data.words[t + c + 1] = 0 /\ c \in 0 .. e - 1
    BY <1>4, <1>11, IRAssumption, ProductType DEF Ready, Layout, ConstantAt, kTileElems
  <2> HIDE DEF e, n
  <2>2. t + c \in 0 .. n - 1
    BY <1>4, <2>1
  <2> QED
    BY <1>9, <2>1, <2>2
<1>12. DataHolds'
  BY <1>2, <1>10, <1>11, SameTerms DEF DataHolds, OffDiagonal, kTileElems
<1>13. PICK K : Annotates(emitter, text, K) /\ Below(K[1], Nothing)
  BY DEF TextInv, Runs
<1>14. Annotates(emitter, text, K)'
  <2>1. \A k \in 1 .. Len(text) : Follows(emitter[k], text[k], K[k], K[k + 1])'
    BY <1>2, <1>13, FollowsKept DEF Annotates
  <2> QED
    BY <1>2, <2>1 DEF Annotates
<1>15. K[1].reg = {} /\ K[1].zero = {} /\ K[1].diagonal = {} /\ K[1].staged = {}
  BY <1>13 DEF Below, Nothing
<1>16. RegistersHold(K[pc + 1])' /\ TilesHold(K[pc + 1])'
  BY <1>3, <1>15 DEF RegistersHold, TilesHold
<1> QED
  BY <1>8, <1>12, <1>14, <1>16 DEF TilesInv

LEMMA TilesStep ==
  ASSUME IRLayers, PhasesInv, LayoutInv, TextInv, Spaces, MachineInv, TilesInv,
         DataWord \subseteq Int, [PipelineNext]_allVars
  PROVE  TilesInv'
<1> SUFFICES ASSUME phase' # "idle", FitsInWords'
             PROVE  TilesInv'
  BY DEF TilesInv
<1>1. CASE StartSimulation
  <2>1. UNCHANGED <<vars, genVars>> /\ Generated
    BY <1>1 DEF StartSimulation, CompilerIdle
  <2>2. FitsInWords /\ section = "text" /\ Ready
    BY <2>1 DEF FitsInWords, genVars, layoutVars, Generated, Ready, LayoutInv
  <2>3. Spaces'
    BY SpacesStep
  <2> QED
    BY <1>1, <2>2, <2>3, TilesLoaded
<1>2. CASE phase # "idle"
  <2>1. UNCHANGED <<vars, genVars>> /\ section = "text" /\ FitsInWords
    BY <1>2, PhasesStep DEF PhasesInv, Generated, FitsInWords, genVars, layoutVars
  <2>2. UNCHANGED <<heap, buffers, identity, scaleAddr, text, emitter, assembly>>
    BY <2>1 DEF vars, fn, genVars, layoutVars, assembly
  <2>3. /\ code = assembly.code /\ pc \in 0 .. Len(text)
        /\ DOMAIN R = Sim!ScalarRegs /\ R[0] = 0
    BY <1>2, <2>1 DEF MachineInv
  <2>4. PICK K : /\ Annotates(emitter, text, K) /\ RegistersHold(K[pc + 1])
                 /\ halted \/ TilesHold(K[pc + 1])
    BY <1>2, <2>1 DEF TilesInv
  <2>5. HoldsIntegers /\ DataHolds /\ Ready /\ data.end <= dramWords
    BY <1>2, <2>1, ReadyToRun DEF TilesInv, Spaces
  <2>6. Annotates(emitter, text, K)'
    <3>1. \A k \in 1 .. Len(text) : Follows(emitter[k], text[k], K[k], K[k + 1])'
      BY <2>2, <2>4, FollowsKept DEF Annotates
    <3> QED
      BY <2>2, <3>1 DEF Annotates
  <2>7. IsList(text)
    BY <2>1 DEF TextInv, Runs
  <2>8. ASSUME UNCHANGED <<R, M, memory, scratchpad, pc>>, halted => halted'
        PROVE  TilesInv'
    <3>1. RegistersHold(K[pc + 1])' /\ (halted' \/ TilesHold(K[pc + 1])')
      <4>1. TilesHold(K[pc + 1]) => TilesHold(K[pc + 1])'
        BY <2>8 DEF TilesHold, Outside
      <4> QED
        BY <2>4, <2>8, <4>1 DEF RegistersHold
    <3>2. HoldsIntegers' /\ DataHolds'
      <4>1. DataHolds'
        BY <2>2, <2>5, <2>8, SameData
      <4> QED
        BY <2>5, <2>8, <4>1 DEF HoldsIntegers
    <3> QED
      BY <2>6, <3>1, <3>2 DEF TilesInv
  <2>9. CASE Sim!Run
    <3>1. CASE Sim!Step /\ ~halted /\ pc < Len(code)
      <4>1. CASE pc = Len(text)
        <5>1. Sim!Inst.op = "HALT"
          BY <2>3, <2>7, <4>1, AssemblyIs DEF Sim!Inst
        <5>2. UNCHANGED <<R, M, memory, scratchpad, pc>>
          BY <3>1, <5>1, Handled DEF Sim!Halt, Sim!files, Sim!spaces
        <5> QED
          BY <2>8, <3>1, <5>2
      <4>2. CASE pc # Len(text)
        <5>1. Len(text) \in Nat /\ pc + 1 \in 1 .. Len(text)
          BY <2>3, <2>7, <4>2, AssemblyIs
        <5>2. Sim!Inst = text[pc + 1]
          BY <2>3, <2>7, <5>1, AssemblyIs DEF Sim!Inst
        <5>3. PICK p, A, B : p = emitter[pc + 1] /\ A = K[pc + 1] /\ B = K[(pc + 1) + 1]
          OBVIOUS
        <5>4. Follows(p, Sim!Inst, A, B)
          BY <2>4, <5>1, <5>2, <5>3 DEF Annotates
        <5>5. RegistersHold(A) /\ TilesHold(A)
          BY <2>4, <3>1, <5>3
        <5>6. \/ Advances /\ RegistersHold(B)'
              \/ Stops /\ UNCHANGED R
          BY <2>3, <3>1, <5>4, <5>5, RegistersStep
        <5>7. HoldsIntegers' /\ DataHolds' /\ (Stops \/ TilesHold(B)')
          BY <2>1, <2>2, <2>3, <2>5, <3>1, <5>4, <5>5, TilesFollow
        <5>8. CASE Advances /\ RegistersHold(B)' /\ TilesHold(B)'
          <6>1. RegistersHold(K[pc + 1])' /\ TilesHold(K[pc + 1])'
            BY <5>3, <5>8 DEF Advances, RegistersHold, TilesHold
          <6> QED
            BY <2>6, <5>7, <6>1 DEF TilesInv
        <5>9. CASE Stops /\ UNCHANGED R
          <6>1. RegistersHold(K[pc + 1])' /\ halted'
            BY <2>4, <5>9 DEF Stops, RegistersHold
          <6> QED
            BY <2>6, <5>7, <6>1 DEF TilesInv
        <5>10. ~(Advances /\ Stops)
          BY <2>3 DEF Advances, Stops
        <5> QED
          BY <5>6, <5>7, <5>8, <5>9, <5>10
      <4> QED
        BY <4>1, <4>2
    <3>2. CASE UNCHANGED <<R, M, memory, scratchpad, dramWords, pc>> /\ (halted => halted')
      BY <2>8, <3>2
    <3> QED
      BY <2>9, <3>1, <3>2, RunCases
  <2>10. CASE UNCHANGED simVars
    BY <2>8, <2>10 DEF simVars
  <2> QED
    BY <1>2, <2>9, <2>10, RunsOrStays
<1>3. CASE phase = "idle" /\ ~StartSimulation
  BY <1>3, IdleStays
<1> QED
  BY <1>1, <1>2, <1>3

-----------------------------------------------------------------------------
(* The theorems.                                                           *)

PipelineInv ==
  /\ IRLayers /\ LoweringInv /\ PhasesInv
  /\ LayoutInv /\ TextInv /\ Spaces /\ MachineInv

LEMMA PipelineStarts == PipelineInit => PipelineInv /\ TilesInv
<1> SUFFICES ASSUME PipelineInit PROVE PipelineInv /\ TilesInv
  OBVIOUS
<1>1. section = "none" /\ phase = "idle"
  BY DEF PipelineInit, GenInit, Sim!Init, Sim!PerfInit
<1>2. TextInv /\ MachineInv /\ TilesInv
  BY <1>1 DEF TextInv, MachineInv, TilesInv
<1>3. Spaces
  BY <1>1, PipelineAssumption DEF Spaces, PipelineInit, Sim!Init
<1> QED
  BY <1>2, <1>3, InitLayers, InitLayout DEF PipelineInv

LEMMA PipelineSteps == PipelineInv /\ [PipelineNext]_allVars => PipelineInv'
<1> SUFFICES ASSUME PipelineInv, [PipelineNext]_allVars PROVE PipelineInv'
  OBVIOUS
<1>1. IRLayers' /\ LoweringInv' /\ PhasesInv'
  BY LayersStep, PhasesStep DEF PipelineInv
<1>2. LayoutInv' /\ TextInv'
  BY LayoutStep, TextStep DEF PipelineInv
<1>3. Spaces' /\ MachineInv'
  BY SpacesStep, MachineStep DEF PipelineInv
<1> QED
  BY <1>1, <1>2, <1>3 DEF PipelineInv

(* compile() and simulate() keep the invariant of the whole pipeline: what *)
(* the passes leave of the function, where layout() puts every tensor, the *)
(* annotation that the text has, and that the machine is at the place in   *)
(* the text, and holds in its registers, what the annotation says there.   *)
THEOREM PipelineInvariant == PipelineSpec => []PipelineInv
<1>1. PipelineInit => PipelineInv
  BY PipelineStarts
<1>2. PipelineInv /\ [PipelineNext]_allVars => PipelineInv'
  BY PipelineSteps
<1> QED
  BY <1>1, <1>2, PTL DEF PipelineSpec

(* Every tile that the code of an op loads is of an operand, a constant or *)
(* staged by the store of an operand: the base registers that bindBases()  *)
(* sets for each op hold its operands' addresses when they are used.       *)
THEOREM LoadsReadOperandsHolds == PipelineSpec => [](FitsInWords => LoadsReadOperands)
<1>1. PipelineInv => (FitsInWords => LoadsReadOperands)
  BY ReadsOperands DEF PipelineInv
<1> QED
  BY <1>1, PipelineInvariant, PTL

(* The code of an op changes no word but of its own buffer, or of its own  *)
(* region of the scratchpad: layout() has no two buffers overlap, and what *)
(* tileOffset() adds to the base stays in the buffer.                      *)
THEOREM OnlyTheResultChangesHolds == PipelineSpec /\ []FitsInWords => OnlyTheResultChanges
<1>1. PipelineInv /\ FitsInWords /\ [PipelineNext]_allVars =>
        [phase = "running" =>
           LET p == emitter[pc + 1] IN
             /\ \A a \in DOMAIN memory : memory'[a] # memory[a] =>
                  \A q \in DOMAIN buffers : (a \in BufferOf(q)) <=> (q = p)
             /\ \A a \in DOMAIN scratchpad : scratchpad'[a] # scratchpad[a] =>
                  /\ heap[p].kind = "ScratchStore"
                  /\ a \div kTileElems \in Region(p)]_allVars
  BY WritesResult DEF PipelineInv, WritesOwn
<1> QED
  BY <1>1, PipelineInvariant, PTL DEF PipelineSpec, OnlyTheResultChanges

(* "Padding is always zero": at every instruction of every op, the words   *)
(* of a buffer outside its rows and columns are zero, whatever the values  *)
(* of the inputs and literals, as long as they are numbers.                *)
THEOREM PaddingStaysZeroHolds ==
  ASSUME \A p \in Pointer : Factor(p) \in Int /\ \A k \in Int : LeafWord(p, k) \in Int
  PROVE  PipelineSpec => [](FitsInWords => PaddingStaysZero)
<1>1. DataWord \subseteq Int
  BY DEF DataWord
<1>2. PipelineInv /\ TilesInv /\ [PipelineNext]_allVars => TilesInv'
  BY <1>1, TilesStep DEF PipelineInv
<1>3. PipelineInit => TilesInv
  BY PipelineStarts
<1>4. PipelineInv /\ TilesInv => (FitsInWords => PaddingStaysZero)
  <2> SUFFICES ASSUME PipelineInv, TilesInv, FitsInWords, phase # "idle",
                      NEW p \in DOMAIN buffers, NEW a \in BufferOf(p), IsPadding(p, a)
               PROVE  memory[a] = 0
    BY DEF PaddingStaysZero
  <2>1. Ready
    BY ReadyToRun DEF PipelineInv
  <2> DEFINE s == heap[p].shape
             x == buffers[p].addr
             n == bufferWords(s)
             k == a - x
  <2>2. x \in Nat /\ n \in Nat /\ buffers[p].shape = s /\ buffers[p].cp = pad(s.cols)
    BY <2>1, BufferFacts, WordsType
  <2>3. a \in x .. x + n - 1
    BY <2>2 DEF BufferOf
  <2>4. DeadWord(s, k)
    BY <2>2 DEF IsPadding, DeadWord
  <2>5. k \in 0 .. n - 1 /\ x + k = a
    <3> HIDE DEF x, n
    <3> QED
      BY <2>2, <2>3
  <2>6. memory[x + k] = 0
    BY <2>4, <2>5 DEF TilesInv, DataHolds
  <2> QED
    BY <2>5, <2>6
<1> QED
  BY <1>2, <1>3, <1>4, PipelineInvariant, PTL DEF PipelineSpec

=============================================================================
