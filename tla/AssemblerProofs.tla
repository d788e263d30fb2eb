--------------------------- MODULE AssemblerProofs ---------------------------
(* The assembler, for any programs, assembled in any order.                *)
EXTENDS Assembler, Induction, FiniteSetTheorems, TLAPS

LineRecord ==
  [label: STRING, first: First, kept: BOOLEAN, head: STRING, args: Seq(Text)]

Program == Seq(LineRecord)

\* The operands the simulator may be given, and what is in code_.
Operands == {o \in Operand : OperandExists(o)}

Instructions == [op: Opcode, dst: Operands, src1: Operands, src2: Operands]

Entry == [inst: Instructions, names: [1 .. 3 -> STRING \cup {NoLabel}], line: Nat]

Bytes == {0} \cup {byte(v, k) : v \in Int, k \in Int}

TypeOK ==
  /\ stage \in Stage /\ section \in {"text", "data"}
  /\ source \in Program /\ at \in Nat /\ count \in Nat
  /\ stage # "fresh" => at >= 1
  /\ code \in Seq(Entry) /\ data \in Seq(Bytes) /\ errors \in Seq(Nat)
  /\ \A n \in DOMAIN labels : labels[n] \in Nat
  /\ \A n \in DOMAIN dataLabels : dataLabels[n] \in Nat

-----------------------------------------------------------------------------
(* What a line decodes to.                                                 *)

(* An operand that is not there is no register.                           *)
LEMMA NoOperandExists ==
  NoOperand \in Operands /\ NoOperand.cls = "None" /\ NoOperand.kind = "None"
<1>1. NoOperand.cls = "None" /\ NoOperand.kind = "None"
  BY DEF NoOperand
<1>2. NoOperand \in Operand
  BY DEF NoOperand, Operand, OperandKind, RegClass
<1>3. OperandExists(NoOperand)
  BY <1>1, <1>2 DEF OperandExists
<1> QED BY <1>1, <1>2, <1>3 DEF Operands

(* An argument that parses is an operand that exists.                      *)
LEMMA OperandOf ==
  ASSUME NEW t \in Text, parses(t)
  PROVE  parseOperand(t) \in Operands
<1>1. \A o \in Operand : OperandExists(o) => o \in Operands
  BY DEF Operands
<1>2. CASE t.form = "memory"
  <2>1. t.idx \in 0 .. 15
    BY <1>2 DEF parses, baseIsLegal, RegisterLimit, Text
  <2>2. MemOperand(t.idx, t.imm, t.stride, FALSE) \in Operand
    BY DEF MemOperand, Operand, Text, OperandKind, RegClass
  <2>3. OperandExists(MemOperand(t.idx, t.imm, t.stride, FALSE))
    BY <2>1, <2>2 DEF OperandExists, MemOperand
  <2> QED BY <1>1, <1>2, <2>2, <2>3 DEF parseOperand, parseRegister
<1>3. CASE t.form # "memory" /\ parseRegister(t)
  <2>1. t.idx \in Nat /\ t.idx < RegisterLimit(t.cls) /\ t.cls \in RegClass
    BY <1>3 DEF parseRegister, Text
  <2>2. RegOperand(t.cls, t.idx) \in Operand
    <3>1. \A c \in RegClass, i \in Int : RegOperand(c, i) \in Operand
      BY NoOperandExists DEF RegOperand, Operands, Operand, OperandKind
    <3> QED BY <2>1, <3>1
  <2>3. /\ RegOperand(t.cls, t.idx).cls = t.cls /\ RegOperand(t.cls, t.idx).idx = t.idx
        /\ RegOperand(t.cls, t.idx).kind = "Register"
    BY NoOperandExists DEF RegOperand, Operands, Operand
  <2>4. OperandExists(RegOperand(t.cls, t.idx))
    BY <2>1, <2>2, <2>3 DEF OperandExists, RegisterLimit
  <2> QED BY <1>1, <1>3, <2>2, <2>4 DEF parseOperand, parseRegister
<1>4. \A n \in Int : ImmOperand(n) \in Operands /\ LabelOperand(n) \in Operands
  <2> SUFFICES ASSUME NEW n \in Int PROVE ImmOperand(n) \in Operands /\ LabelOperand(n) \in Operands
    OBVIOUS
  <2>1. ImmOperand(n) \in Operand /\ LabelOperand(n) \in Operand
    BY NoOperandExists DEF ImmOperand, LabelOperand, Value, Operands, Operand, OperandKind
  <2>2. /\ ImmOperand(n).cls = "None" /\ ImmOperand(n).kind = "Immediate"
        /\ LabelOperand(n).cls = "None" /\ LabelOperand(n).kind = "Label"
    BY NoOperandExists DEF ImmOperand, LabelOperand, Value, Operands, Operand
  <2>3. OperandExists(ImmOperand(n)) /\ OperandExists(LabelOperand(n))
    BY <2>1, <2>2 DEF OperandExists
  <2> QED BY <1>1, <2>1, <2>3
<1>5. CASE t.form # "memory" /\ ~parseRegister(t)
  BY <1>4, <1>5 DEF parseOperand, Text
<1> QED BY <1>2, <1>3, <1>5

(* Strides, scratchpad and label values do not touch a register.           *)
LEMMA OperandChanges ==
  ASSUME NEW o \in Operands, NEW n \in Int, NEW b \in BOOLEAN
  PROVE  /\ [o EXCEPT !.imm = n] \in Operands
         /\ [o EXCEPT !.stride = n, !.scratchpad = b] \in Operands
<1>1. o \in Operand /\ OperandExists(o)
  BY DEF Operands
<1>2. [o EXCEPT !.imm = n] \in Operand
  BY <1>1 DEF Operand
<1>3. [o EXCEPT !.stride = n, !.scratchpad = b] \in Operand
  BY <1>1 DEF Operand
<1>4. OperandExists([o EXCEPT !.imm = n])
  BY <1>1, <1>2 DEF OperandExists, Operand
<1>5. OperandExists([o EXCEPT !.stride = n, !.scratchpad = b])
  BY <1>1, <1>3 DEF OperandExists, Operand
<1> QED BY <1>2, <1>3, <1>4, <1>5 DEF Operands

(* What decodeInstruction accepts has a known opcode and operands.         *)
LEMMA DecodedIsWellFormed ==
  ASSUME NEW head \in STRING, NEW args \in Seq(Text), decodes(head, args)
  PROVE  decodeInstruction(head, args) \in Instructions
<1> DEFINE slot(i) == IF i <= Len(args) THEN parseOperand(args[i]) ELSE NoOperand
           stride == IF head \in Strided THEN args[3].imm ELSE slot(2).stride
           src1 == [slot(2) EXCEPT !.stride = stride, !.scratchpad = head \in Scratch]
<1>0. \A i \in 1 .. Len(args) : args[i] \in Text
  OBVIOUS
<1>1. \A i \in {1, 2, 3} : slot(i) \in Operands
  BY OperandOf, NoOperandExists DEF decodes
<1>2. stride \in Int
  <2>1. CASE head \in Strided
    <3>1. Len(args) = 3
      BY <2>1 DEF decodes, arity, Strided, MemoryOps, Scratch, ConvertOps, ReduceOps
    <3>2. args[3] \in Text
      BY <1>0, <3>1
    <3> QED BY <2>1, <3>2 DEF Text
  <2>2. CASE head \notin Strided
    BY <1>1, <2>2 DEF Operands, Operand
  <2> QED BY <2>1, <2>2
<1>3. src1 \in Operands
  <2>1. slot(2) \in Operands /\ (head \in Scratch) \in BOOLEAN
    BY <1>1
  <2> HIDE DEF slot, stride
  <2> QED BY <1>2, <2>1, OperandChanges
<1>4. parseOpcode(head) \in Opcode
  BY DEF decodes, isMnemonic, parseOpcode, Strided, Scratch, Opcode, MemoryOps
<1>5. decodeInstruction(head, args) =
        [op |-> parseOpcode(head), dst |-> slot(1), src1 |-> src1, src2 |-> slot(3)]
  BY DEF decodeInstruction
<1> HIDE DEF slot, src1
<1> QED BY <1>1, <1>3, <1>4, <1>5 DEF Instructions
-----------------------------------------------------------------------------
(* Where a line is, and how many instructions are before it.               *)

\* The lines before line k that are instructions.
Counted(s, k) == {j \in 1 .. k - 1 : LabelSection(s, j) = "text" /\ counts(s[j])}

(* The last of a set of lines is the one that is added last.               *)
LEMMA LatestIsLast ==
  ASSUME NEW k \in Nat, NEW S \in SUBSET (1 .. k - 1)
  PROVE  Latest(S \cup {k}) = k
<1>1. \A j \in S \cup {k} : j \in Int /\ j <= k
  OBVIOUS
<1>2. \A x \in S \cup {k} : (\A y \in S \cup {k} : y <= x) => x = k
  BY <1>1
<1> QED BY <1>1, <1>2 DEF Latest

\* The section after a head.
Then(head, section_) ==
  CASE head = ".data" -> "data" [] head = ".text" -> "text" [] OTHER -> section_

(* The section changes at .data and .text only.                            *)
LEMMA HeadStep ==
  ASSUME NEW N \in Nat, NEW heads, DOMAIN heads = 1 .. N
  PROVE  /\ SectionOf(heads, 1) = "text"
         /\ \A k : SectionOf(heads, k) \in {"text", "data"}
         /\ \A k \in 1 .. N : SectionOf(heads, k + 1) = Then(heads[k], SectionOf(heads, k))
<1> DEFINE before(k) == {j \in DOMAIN heads : j < k /\ heads[j] \in {".data", ".text"}}
<1>1. \A k : SectionOf(heads, k) =
               IF before(k) = {} \/ heads[Latest(before(k))] = ".text" THEN "text" ELSE "data"
  BY DEF SectionOf
<1>2. before(1) = {}
  OBVIOUS
<1>3. ASSUME NEW k \in 1 .. N, heads[k] \notin {".data", ".text"}
      PROVE  before(k + 1) = before(k)
  BY <1>3
<1>4. ASSUME NEW k \in 1 .. N, heads[k] \in {".data", ".text"}
      PROVE  before(k + 1) # {} /\ Latest(before(k + 1)) = k
  <2>1. before(k + 1) = before(k) \cup {k} /\ k \in Nat
    BY <1>4
  <2>2. before(k) \in SUBSET (1 .. k - 1)
    OBVIOUS
  <2> HIDE DEF before
  <2>3. Latest(before(k) \cup {k}) = k
    BY <2>1, <2>2, LatestIsLast
  <2> QED BY <2>1, <2>3
<1> HIDE DEF before
<1>5. \A k : SectionOf(heads, k) \in {"text", "data"}
  BY <1>1
<1>6. SectionOf(heads, 1) = "text"
  BY <1>1, <1>2
<1> QED BY <1>1, <1>3, <1>4, <1>5, <1>6 DEF Then

(* In either pass.                                                         *)
LEMMA SectionStep ==
  ASSUME NEW s \in Program
  PROVE  /\ LabelSection(s, 1) = "text" /\ SectionAt(s, 1) = "text"
         /\ \A k : LabelSection(s, k) \in {"text", "data"}
         /\ \A k : SectionAt(s, k) \in {"text", "data"}
         /\ \A k \in 1 .. Len(s) :
              /\ LabelSection(s, k + 1) = Then(s[k].first, LabelSection(s, k))
              /\ SectionAt(s, k + 1) = Then(s[k].head, SectionAt(s, k))
<1> DEFINE firsts == [j \in DOMAIN s |-> s[j].first]
           heads == [j \in DOMAIN s |-> s[j].head]
<1>1. /\ Len(s) \in Nat /\ DOMAIN s = 1 .. Len(s)
      /\ DOMAIN firsts = 1 .. Len(s) /\ DOMAIN heads = 1 .. Len(s)
  BY DEF Program
<1>2. \A k \in 1 .. Len(s) : firsts[k] = s[k].first /\ heads[k] = s[k].head
  BY <1>1
<1>3. \A k : LabelSection(s, k) = SectionOf(firsts, k) /\ SectionAt(s, k) = SectionOf(heads, k)
  BY DEF LabelSection, SectionAt
<1> HIDE DEF firsts, heads
<1>4. /\ SectionOf(firsts, 1) = "text"
      /\ \A k : SectionOf(firsts, k) \in {"text", "data"}
      /\ \A k \in 1 .. Len(s) :
           SectionOf(firsts, k + 1) = Then(firsts[k], SectionOf(firsts, k))
  BY <1>1, HeadStep
<1>5. /\ SectionOf(heads, 1) = "text"
      /\ \A k : SectionOf(heads, k) \in {"text", "data"}
      /\ \A k \in 1 .. Len(s) : SectionOf(heads, k + 1) = Then(heads[k], SectionOf(heads, k))
  BY <1>1, HeadStep
<1> QED BY <1>2, <1>3, <1>4, <1>5

(* One more line is one more instruction, or none.                         *)
LEMMA CountedStep ==
  ASSUME NEW s \in Program
  PROVE  /\ \A k \in 1 .. Len(s) + 1 : Cardinality(Counted(s, k)) \in Nat
         /\ Cardinality(Counted(s, 1)) = 0
         /\ \A k \in 1 .. Len(s) :
              Cardinality(Counted(s, k + 1)) =
                IF LabelSection(s, k) = "text" /\ counts(s[k])
                THEN Cardinality(Counted(s, k)) + 1 ELSE Cardinality(Counted(s, k))
<1>1. Len(s) \in Nat
  BY DEF Program
<1>2. \A k \in 1 .. Len(s) + 1 : IsFiniteSet(Counted(s, k)) /\ Cardinality(Counted(s, k)) \in Nat
  <2> SUFFICES ASSUME NEW k \in 1 .. Len(s) + 1
               PROVE  IsFiniteSet(Counted(s, k)) /\ Cardinality(Counted(s, k)) \in Nat
    OBVIOUS
  <2>1. IsFiniteSet(1 .. k - 1)
    BY <1>1, FS_Interval
  <2>2. Counted(s, k) \subseteq 1 .. k - 1
    BY DEF Counted
  <2> QED BY <2>1, <2>2, FS_Subset, FS_CardinalityType
<1>3. Counted(s, 1) = {}
  BY DEF Counted
<1>4. ASSUME NEW k \in 1 .. Len(s)
      PROVE  Cardinality(Counted(s, k + 1)) =
               IF LabelSection(s, k) = "text" /\ counts(s[k])
               THEN Cardinality(Counted(s, k)) + 1 ELSE Cardinality(Counted(s, k))
  <2>1. Counted(s, k + 1) = IF LabelSection(s, k) = "text" /\ counts(s[k])
                            THEN Counted(s, k) \cup {k} ELSE Counted(s, k)
    BY <1>1 DEF Counted
  <2>2. k \notin Counted(s, k) /\ IsFiniteSet(Counted(s, k))
    BY <1>1, <1>2 DEF Counted
  <2> QED BY <2>1, <2>2, FS_AddElement
<1> QED BY <1>2, <1>3, <1>4, FS_EmptySet

\* The instructions decoded from lines before line k.
Before(c, k) == {j \in 1 .. Len(c) : c[j].line < k}

(* Decoding one more line.                                                 *)
LEMMA BeforeStep ==
  ASSUME NEW c \in Seq(Entry), NEW n \in Nat, \A j \in 1 .. Len(c) : c[j].line < n
  PROVE  /\ Cardinality(Before(c, n + 1)) = Cardinality(Before(c, n))
         /\ \A e \in Entry : e.line = n =>
              /\ \A k \in 1 .. n : Before(Append(c, e), k) = Before(c, k)
              /\ Cardinality(Before(Append(c, e), n + 1)) = Cardinality(Before(c, n)) + 1
              /\ \A j \in 1 .. Len(Append(c, e)) : Append(c, e)[j].line < n + 1
<1>1. \A j \in 1 .. Len(c) : c[j].line \in Nat
  <2>1. \A j \in 1 .. Len(c) : c[j] \in Entry
    OBVIOUS
  <2> QED BY <2>1 DEF Entry
<1>2. Before(c, n) = 1 .. Len(c) /\ Before(c, n + 1) = 1 .. Len(c)
  BY <1>1 DEF Before
<1>3. ASSUME NEW e \in Entry, e.line = n
      PROVE  /\ \A k \in 1 .. n : Before(Append(c, e), k) = Before(c, k)
             /\ Cardinality(Before(Append(c, e), n + 1)) = Cardinality(Before(c, n)) + 1
             /\ \A j \in 1 .. Len(Append(c, e)) : Append(c, e)[j].line < n + 1
  <2> DEFINE d == Append(c, e)
  <2>1. /\ Len(d) = Len(c) + 1 /\ d[Len(c) + 1] = e /\ Len(c) \in Nat
        /\ \A j \in 1 .. Len(c) : d[j] = c[j]
    OBVIOUS
  <2> HIDE DEF d
  <2>2. \A j \in 1 .. Len(d) :
          \/ j \in 1 .. Len(c) /\ d[j] = c[j]
          \/ j = Len(c) + 1 /\ d[j].line = n
    BY <1>3, <2>1
  <2>3. \A k \in 1 .. n : Before(d, k) = Before(c, k)
    BY <1>1, <2>1, <2>2 DEF Before
  <2>4. \A j \in 1 .. Len(d) : d[j].line < n + 1
    BY <1>1, <2>2
  <2>5. Before(d, n + 1) = 1 .. Len(c) + 1
    BY <2>1, <2>4 DEF Before
  <2>6. Cardinality(1 .. Len(c)) = Len(c) /\ Cardinality(1 .. Len(c) + 1) = Len(c) + 1
    BY <2>1, FS_Interval
  <2> QED BY <1>2, <2>3, <2>4, <2>5, <2>6 DEF d
<1> QED BY <1>2, <1>3
-----------------------------------------------------------------------------
(* Types.                                                                  *)

(* A directive emits bytes.                                                *)
LEMMA EmittedAreBytes ==
  ASSUME NEW line \in LineRecord
  PROVE  emittedBytes(line) \in Seq(Bytes)
<1> DEFINE args == line.args
<1>1. /\ Len(args) \in Nat
      /\ \A i \in 1 .. Len(args) : args[i].imm \in Int /\ args[i].ato \in Int
  <2>1. args \in Seq(Text)
    BY DEF LineRecord
  <2> HIDE DEF args
  <2>2. \A i \in 1 .. Len(args) : args[i] \in Text
    BY <2>1
  <2> QED BY <2>1, <2>2 DEF Text
<1>2. \A values \in Seq(Int) : wordBytes(values) \in Seq(Bytes)
  <2> SUFFICES ASSUME NEW values \in Seq(Int) PROVE wordBytes(values) \in Seq(Bytes)
    OBVIOUS
  <2>1. \A k \in 1 .. 4 * Len(values) :
          (k + 3) \div 4 \in 1 .. Len(values) /\ (k - 1) % 4 \in Int
    OBVIOUS
  <2>2. \A k \in 1 .. 4 * Len(values) : byte(values[(k + 3) \div 4], (k - 1) % 4) \in Bytes
    BY <2>1 DEF Bytes
  <2> QED BY <2>2 DEF wordBytes
<1> HIDE DEF args
<1>3. leading(args) \in 0 .. Len(args)
  <2> DEFINE lead == {n \in 1 .. Len(args) : \A i \in 1 .. n : args[i].form = "number"}
  <2>1. IsFiniteSet(1 .. Len(args)) /\ Cardinality(1 .. Len(args)) = Len(args)
    <3>1. Len(args) \in Nat
      BY <1>1
    <3> QED BY <3>1, 1 \in Int, FS_Interval
  <2>2. lead \subseteq 1 .. Len(args)
    OBVIOUS
  <2>3. Cardinality(lead) \in Nat /\ Cardinality(lead) <= Len(args)
    <3> HIDE DEF lead
    <3> QED BY <2>1, <2>2, FS_Subset, FS_CardinalityType
  <2> QED BY <1>1, <2>3 DEF leading
<1>4. CASE line.head = ".word"
  <2>1. [i \in 1 .. leading(args) |-> args[i].imm] \in Seq(Int)
    BY <1>1, <1>3
  <2> QED BY <1>2, <1>4, <2>1 DEF emittedBytes, args
<1>5. CASE line.head = ".float"
  <2>1. [i \in 1 .. Len(args) |-> args[i].ato] \in Seq(Int)
    BY <1>1
  <2> QED BY <1>2, <1>5, <2>1 DEF emittedBytes, args
<1>6. CASE line.head = ".space" /\ directiveIsLegal(line)
  <2>1. Len(args) >= 1 /\ args[1].imm >= 0
    BY <1>6 DEF directiveIsLegal, args
  <2>2. args[1].imm \in Nat
    BY <1>1, <2>1
  <2>3. [k \in 1 .. args[1].imm |-> 0] \in Seq(Bytes)
    BY <2>2 DEF Bytes
  <2> QED BY <1>6, <2>3 DEF emittedBytes, args
<1>7. CASE line.head # ".word" /\ line.head # ".float"
             /\ ~(line.head = ".space" /\ directiveIsLegal(line))
  BY <1>7 DEF emittedBytes
<1> QED BY <1>4, <1>5, <1>6, <1>7

(* Resolving a label changes the value of an operand only.                 *)
LEMMA ResolvedIsOperand ==
  ASSUME TypeOK, NEW o \in Operands, NEW name, NEW op
  PROVE  withLabel(o, name, op) \in Operands
<1>1. ASSUME resolvable(name, op) PROVE resolved(name) \in Int
  <2>1. CASE name \in DOMAIN labels
    BY <2>1 DEF TypeOK, resolved
  <2>2. CASE name \notin DOMAIN labels /\ name \in DOMAIN dataLabels
    BY <2>2 DEF TypeOK, resolved
  <2>3. CASE name \notin DOMAIN labels /\ name \notin DOMAIN dataLabels
    <3>1. \E i \in 1 .. 2 : RuntimeFunctions[i] = name
      BY <1>1, <2>3 DEF resolvable, IsRuntime
    <3> DEFINE id == CHOOSE i \in 1 .. 2 : RuntimeFunctions[i] = name
    <3>2. id \in 1 .. 2
      BY <3>1
    <3>3. resolved(name) = -id
      BY <2>3 DEF resolved
    <3> HIDE DEF id
    <3> QED BY <3>2, <3>3
  <2> QED BY <2>1, <2>2, <2>3
<1>2. CASE name # NoLabel /\ resolvable(name, op)
  BY <1>1, <1>2, OperandChanges DEF withLabel
<1>3. CASE ~(name # NoLabel /\ resolvable(name, op))
  BY <1>3 DEF withLabel
<1> QED BY <1>2, <1>3

(* An entry whose labels are resolved is one of the same line, and every   *)
(* name that is not resolved is an error.                                  *)
LEMMA ResolveKeepsLines ==
  ASSUME TypeOK, ResolveInstruction
  PROVE  /\ code' \in Seq(Entry) /\ Len(code') = Len(code)
         /\ \A j \in 1 .. Len(code) : code'[j].line = code[j].line
         /\ errors' \in Seq(Nat)
         /\ errors' = << >> => errors = << >>
<1> DEFINE i == code[at].inst
           names == code[at].names
           bad == {k \in 1 .. 3 : names[k] # NoLabel /\ ~resolvable(names[k], i.op)}
           new == [i EXCEPT !.dst  = withLabel(@, names[1], i.op),
                            !.src1 = withLabel(@, names[2], i.op),
                            !.src2 = withLabel(@, names[3], i.op)]
<1>1. /\ code' = [code EXCEPT ![at] = [code[at] EXCEPT !.inst = new]]
      /\ errors' = errors \o [k \in 1 .. Cardinality(bad) |-> code[at].line]
  BY DEF ResolveInstruction
<1>2. at \in 1 .. Len(code)
  BY DEF TypeOK, ResolveInstruction
<1>3. code[at] \in Entry
  BY <1>2 DEF TypeOK
<1>4. i \in Instructions /\ code[at].line \in Nat
  BY <1>3 DEF Entry
<1>5. new \in Instructions
  <2>1. i.dst \in Operands /\ i.src1 \in Operands /\ i.src2 \in Operands
    BY <1>4 DEF Instructions
  <2>2. /\ withLabel(i.dst, names[1], i.op) \in Operands
        /\ withLabel(i.src1, names[2], i.op) \in Operands
        /\ withLabel(i.src2, names[3], i.op) \in Operands
    BY <2>1, ResolvedIsOperand
  <2> HIDE DEF i, names
  <2> QED BY <1>4, <2>2 DEF Instructions
<1>6. Cardinality(bad) \in Nat
  <2>1. IsFiniteSet(1 .. 3)
    BY 1 \in Int, 3 \in Int, FS_Interval
  <2>2. bad \subseteq 1 .. 3
    OBVIOUS
  <2> HIDE DEF bad
  <2> QED BY <2>1, <2>2, FS_Subset, FS_CardinalityType
<1> HIDE DEF i, names, bad, new
<1>7. /\ [code[at] EXCEPT !.inst = new] \in Entry
      /\ [code[at] EXCEPT !.inst = new].line = code[at].line
  BY <1>3, <1>5 DEF Entry
<1>8. /\ code' \in Seq(Entry) /\ Len(code') = Len(code)
      /\ \A j \in 1 .. Len(code) : code'[j].line = code[j].line
  BY <1>1, <1>2, <1>7 DEF TypeOK
<1>9. errors' \in Seq(Nat) /\ (errors' = << >> => errors = << >>)
  <2> DEFINE unresolved == [k \in 1 .. Cardinality(bad) |-> code[at].line]
  <2>1. unresolved \in Seq(Nat)
    BY <1>4, <1>6
  <2> HIDE DEF unresolved
  <2>2. errors \in Seq(Nat) /\ errors' = errors \o unresolved
    BY <1>1 DEF TypeOK, unresolved
  <2>3. Len(errors') = Len(errors) + Len(unresolved) /\ errors' \in Seq(Nat)
    BY <2>1, <2>2
  <2>4. ASSUME errors' = << >> PROVE errors = << >>
    <3>1. Len(errors) = 0
      BY <2>1, <2>2, <2>3, <2>4
    <3> QED BY <2>2, <3>1
  <2> QED BY <2>3, <2>4
<1> QED BY <1>8, <1>9
(* The line that is read.                                                  *)
LEMMA LineIsRecord ==
  ASSUME TypeOK, stage # "fresh", at <= Len(source)
  PROVE  /\ at \in 1 .. Len(source) /\ Line \in LineRecord
         /\ Line.head \in STRING /\ Line.args \in Seq(Text)
         /\ emittedBytes(Line) \in Seq(Bytes)
<1>1. at \in 1 .. Len(source) /\ source[at] \in LineRecord
  BY DEF TypeOK, Program
<1>2. source[at].head \in STRING /\ source[at].args \in Seq(Text)
  BY <1>1 DEF LineRecord
<1> QED BY <1>1, <1>2, EmittedAreBytes DEF Line

(* What the second pass adds to code_.                                     *)
LEMMA DecodedEntry ==
  ASSUME TypeOK, stage # "fresh", at <= Len(source), decodes(Line.head, Line.args)
  PROVE  [inst |-> decodeInstruction(Line.head, Line.args),
          names |-> labelsOf(Line.args), line |-> at] \in Entry
<1>1. decodeInstruction(Line.head, Line.args) \in Instructions
  BY LineIsRecord, DecodedIsWellFormed
<1>2. labelsOf(Line.args) \in [1 .. 3 -> STRING \cup {NoLabel}]
  <2>1. \A i \in 1 .. Len(Line.args) : Line.args[i] \in Text
    BY LineIsRecord
  <2>2. \A i \in 1 .. Len(Line.args) : Line.args[i].name \in STRING
    BY <2>1 DEF Text
  <2>3. Len(Line.args) \in Nat
    BY LineIsRecord
  <2> QED BY <2>2, <2>3 DEF labelsOf
<1>3. at \in Nat
  BY DEF TypeOK
<1> QED BY <1>1, <1>2, <1>3 DEF Entry

(* The texts are lines of text.                                            *)
LEMMA SourcesArePrograms == Sources \subseteq Program
<1>1. SourceLine \subseteq LineRecord
  BY Zenon DEF SourceLine, LineRecord
<1>2. Seq(SourceLine) \subseteq Program
  <2> SUFFICES ASSUME NEW s \in Seq(SourceLine) PROVE s \in Seq(LineRecord)
    BY DEF Program
  <2> QED BY <1>1
<1> QED BY <1>2, AssemblerAssumption

(* A line of the second pass is one of the text.                           *)
LEMMA SecondPassLine ==
  ASSUME TypeOK, SecondPassDirective \/ SecondPassInstruction \/ SecondPassNothing
  PROVE  /\ stage = "second" /\ at \in 1 .. Len(source) /\ source' = source
         /\ source \in Program /\ Len(source) \in Nat
<1>1. stage = "second" /\ at <= Len(source) /\ source' = source
  <2>1. CASE SecondPassDirective
    BY <2>1 DEF SecondPassDirective
  <2>2. CASE SecondPassInstruction
    BY <2>2 DEF SecondPassInstruction, Reading
  <2>3. CASE SecondPassNothing
    BY <2>3 DEF SecondPassNothing, Reading
  <2> QED BY <2>1, <2>2, <2>3
<1>2. source \in Program /\ Len(source) \in Nat
  BY DEF TypeOK, Program
<1> QED BY <1>1, <1>2, LineIsRecord

(* The tables, the code and where assemble() is have their types after any *)
(* step, for every sequence of programs.                                   *)
THEOREM AssemblerTypes == Spec => []TypeOK
<1>1. Init => TypeOK
  BY DEF Init, TypeOK, Stage, NoLabels, Program
<1>2. TypeOK /\ [Next]_vars => TypeOK'
  <2> SUFFICES ASSUME TypeOK, [Next]_vars PROVE TypeOK'
    OBVIOUS
  <2> USE DEF Stage
  <2>1. CASE Assemble
    <3>1. source' \in Program
      BY <2>1, SourcesArePrograms, AssemblerAssumption DEF Assemble, Starting
    <3> QED BY <2>1, <3>1 DEF Assemble, Starting, TypeOK, NoLabels
  <2>2. CASE FirstPassLine
    <3>1. section' \in {"text", "data"}
      BY <2>2 DEF FirstPassLine, SectionAfter, TypeOK
    <3>2. \A n \in DOMAIN labels' : labels'[n] \in Nat
      BY <2>2 DEF FirstPassLine, TypeOK
    <3>3. \A n \in DOMAIN dataLabels' : dataLabels'[n] \in Nat
      BY <2>2 DEF FirstPassLine, TypeOK
    <3>4. count' \in Nat
      BY <2>2 DEF FirstPassLine, TypeOK
    <3> QED BY <2>2, <3>1, <3>2, <3>3, <3>4 DEF FirstPassLine, Reading, TypeOK
  <2>3. CASE FirstPassEnds
    BY <2>3 DEF FirstPassEnds, outputs, TypeOK
  <2> DEFINE DataLabelOK == \A n \in DOMAIN dataLabels' : dataLabels'[n] \in Nat
  <2>4. DataLabel => DataLabelOK
    <3>1. Len(data) \in Nat
      BY DEF TypeOK
    <3> QED BY <3>1 DEF DataLabel, TypeOK
  <2>5. CASE SecondPassDirective
    <3>1. stage # "fresh" /\ at <= Len(source) /\ DataLabelOK
      BY <2>4, <2>5 DEF SecondPassDirective
    <3>2. data' \in Seq(Bytes)
      BY <2>5, <3>1, LineIsRecord DEF SecondPassDirective, TypeOK
    <3>3. at \in Nat /\ Append(errors, at) \in Seq(Nat)
      BY DEF TypeOK
    <3>4. stage' \in Stage /\ stage' # "fresh" /\ at' \in Nat /\ at' >= 1
      BY <2>5, <3>1 DEF SecondPassDirective, TypeOK
    <3>5. section' \in {"text", "data"}
      BY <2>5 DEF SecondPassDirective, SectionAfter, TypeOK
    <3>6. errors' \in Seq(Nat)
      BY <2>5, <3>3 DEF SecondPassDirective, TypeOK
    <3> QED BY <2>5, <3>1, <3>2, <3>4, <3>5, <3>6 DEF SecondPassDirective, TypeOK
  <2>6. CASE SecondPassInstruction
    <3>1. stage # "fresh" /\ at <= Len(source)
      BY <2>6 DEF SecondPassInstruction, Reading
    <3> DEFINE entry == [inst |-> decodeInstruction(Line.head, Line.args),
                         names |-> labelsOf(Line.args), line |-> at]
    <3>2. \/ decodes(Line.head, Line.args) /\ code' = Append(code, entry) /\ errors' = errors
          \/ code' = code /\ errors' = Append(errors, at)
      BY <2>6 DEF SecondPassInstruction
    <3>3. decodes(Line.head, Line.args) => entry \in Entry
      BY <3>1, DecodedEntry
    <3> HIDE DEF entry
    <3>4. code \in Seq(Entry) /\ errors \in Seq(Nat) /\ at \in Nat
      BY DEF TypeOK
    <3>5. Append(errors, at) \in Seq(Nat)
      BY <3>4
    <3>6. decodes(Line.head, Line.args) => Append(code, entry) \in Seq(Entry)
      BY <3>3, <3>4
    <3>7. code' \in Seq(Entry) /\ errors' \in Seq(Nat)
      BY <3>2, <3>4, <3>5, <3>6
    <3> QED BY <2>6, <3>7 DEF SecondPassInstruction, Reading, TypeOK
  <2>7. CASE SecondPassNothing
    <3>1. DataLabelOK /\ at' = at + 1 /\ UNCHANGED <<stage, source>>
      BY <2>4, <2>7 DEF SecondPassNothing, Reading
    <3>2. UNCHANGED <<section, count, labels, code, data, errors>>
      BY <2>7 DEF SecondPassNothing
    <3> QED BY <3>1, <3>2 DEF TypeOK
  <2>8. CASE SecondPassEnds
    BY <2>8 DEF SecondPassEnds, outputs, TypeOK
  <2>9. CASE ResolveInstruction
    BY <2>9, ResolveKeepsLines DEF ResolveInstruction, TypeOK
  <2>10. CASE Return
    BY <2>10 DEF Return, outputs, TypeOK
  <2>11. CASE UNCHANGED vars
    BY <2>11 DEF vars, outputs, TypeOK
  <2> QED BY <2>1, <2>2, <2>3, <2>5, <2>6, <2>7, <2>8, <2>9, <2>10, <2>11 DEF Next
<1> QED BY <1>1, <1>2, PTL DEF Spec

(* Whatever the text, what assembles has known opcodes and only operands   *)
(* that exist: the simulator indexes its registers without a check.        *)
THEOREM CodeIsWellFormed == Spec => []AssembledIsWellFormed
<1>1. TypeOK => AssembledIsWellFormed
  <2> SUFFICES ASSUME TypeOK, NEW k \in 1 .. Len(code)
               PROVE  LET i == code[k].inst IN
                        i.op \in Opcode /\ \A o \in {i.dst, i.src1, i.src2} : OperandExists(o)
    BY DEF AssembledIsWellFormed
  <2>1. code[k] \in Entry
    BY DEF TypeOK
  <2>2. code[k].inst \in Instructions
    BY <2>1 DEF Entry
  <2> QED BY <2>2 DEF Instructions, Operands
<1> QED BY <1>1, AssemblerTypes, PTL
-----------------------------------------------------------------------------
(* The two passes number instructions alike.                               *)

Alike == \A k \in 1 .. Len(source) : ~ReadUnlike(source[k])

\* As many instructions are decoded before line k as are counted.
Agree(k) == Cardinality(Before(code, k)) = Cardinality(Counted(source, k))

LabelsOK ==
  \A n \in DOMAIN labels :
    \E k \in 1 .. Len(source) :
      source[k].label = n /\ labels[n] = Cardinality(Counted(source, k))

FirstOK ==
  stage = "first" =>
    /\ at \in 1 .. Len(source) + 1 /\ code = << >>
    /\ section = LabelSection(source, at) /\ count = Cardinality(Counted(source, at))

\* What a line of the second pass has to find and leave.
Reached(line) ==
  /\ line \in 1 .. Len(source) + 1 /\ section = LabelSection(source, line)
  /\ \A j \in 1 .. Len(code) : code[j].line < line
  /\ \A k \in 1 .. line : Agree(k)

SecondOK == stage = "second" /\ errors = << >> /\ Alike => Reached(at)

ResolveOK ==
  stage \in {"resolve", "done"} /\ errors = << >> /\ Alike =>
    \A k \in 1 .. Len(source) : Agree(k)

NumberInv == TypeOK /\ LabelsOK /\ FirstOK /\ SecondOK /\ ResolveOK

LEMMA AppendedError ==
  ASSUME TypeOK
  PROVE  Append(errors, at) # << >>
<1>1. errors \in Seq(Nat) /\ at \in Nat
  BY DEF TypeOK
<1>2. Len(Append(errors, at)) = Len(errors) + 1 /\ Len(errors) \in Nat
  BY <1>1
<1> QED BY <1>2

(* A line of the first pass.                                               *)
LEMMA FirstPassKeeps ==
  ASSUME NumberInv, FirstPassLine
  PROVE  LabelsOK' /\ FirstOK'
<1>1. /\ stage = "first" /\ at \in 1 .. Len(source) /\ source \in Program /\ Len(source) \in Nat
      /\ section = LabelSection(source, at) /\ count = Cardinality(Counted(source, at))
      /\ code = << >>
  BY DEF NumberInv, TypeOK, FirstOK, FirstPassLine, Reading, Program
<1>2. at' = at + 1 /\ stage' = stage /\ source' = source /\ code' = code
  BY DEF FirstPassLine, Reading
<1>3. section' = LabelSection(source, at + 1)
  BY <1>1, SectionStep DEF FirstPassLine, SectionAfter, Then, Line
<1>4. count' = Cardinality(Counted(source, at + 1))
  BY <1>1, CountedStep DEF FirstPassLine, counted, Line
<1>5. ASSUME NEW n \in DOMAIN labels'
      PROVE  \E k \in 1 .. Len(source) :
               source[k].label = n /\ labels'[n] = Cardinality(Counted(source, k))
  <2>1. CASE n \in DOMAIN labels /\ labels'[n] = labels[n]
    BY <2>1 DEF NumberInv, LabelsOK
  <2>2. CASE n = source[at].label /\ labels'[n] = count
    BY <1>1, <2>2
  <2>3. \/ n \in DOMAIN labels /\ labels'[n] = labels[n]
        \/ n = source[at].label /\ labels'[n] = count
    BY DEF FirstPassLine, Line
  <2> QED BY <2>1, <2>2, <2>3
<1>6. LabelsOK'
  BY <1>2, <1>5 DEF LabelsOK
<1>7. FirstOK'
  BY <1>1, <1>2, <1>3, <1>4 DEF FirstOK
<1> QED BY <1>6, <1>7

(* A line that decodes to nothing is not counted either.                   *)
LEMMA PassedOver ==
  ASSUME TypeOK, Reached(at), at \in 1 .. Len(source), at' = at + 1, UNCHANGED <<code, source>>,
         ~(section = "text" /\ counts(source[at])),
         section' = LabelSection(source, at + 1)
  PROVE  Reached(at)'
<1>1. source \in Program /\ code \in Seq(Entry) /\ at \in Nat
  BY DEF TypeOK
<1>2. Cardinality(Counted(source, at + 1)) = Cardinality(Counted(source, at))
  BY <1>1, CountedStep DEF Reached
<1>3. Cardinality(Before(code, at + 1)) = Cardinality(Before(code, at))
  BY <1>1, BeforeStep DEF Reached
<1>4. \A k \in 1 .. at + 1 : Cardinality(Before(code, k)) = Cardinality(Counted(source, k))
  <2> SUFFICES ASSUME NEW k \in 1 .. at + 1
               PROVE  Cardinality(Before(code, k)) = Cardinality(Counted(source, k))
    OBVIOUS
  <2>1. CASE k = at + 1
    BY <1>1, <1>2, <1>3, <2>1 DEF Reached, Agree
  <2>2. CASE k \in 1 .. at
    BY <2>2 DEF Reached, Agree
  <2> QED BY <1>1, <2>1, <2>2
<1>5. \A j \in 1 .. Len(code) : code[j].line < at + 1
  <2>1. \A j \in 1 .. Len(code) : code[j] \in Entry
    BY <1>1
  <2>2. \A j \in 1 .. Len(code) : code[j].line \in Nat
    BY <2>1 DEF Entry
  <2> QED BY <1>1, <2>2 DEF Reached
<1>6. at + 1 \in 1 .. Len(source) + 1
  BY <1>1 DEF Program
<1> QED BY <1>4, <1>5, <1>6 DEF Reached, Agree

(* One that is decoded is counted.                                         *)
LEMMA DecodedLine ==
  ASSUME TypeOK, Reached(at), at \in 1 .. Len(source), at' = at + 1, UNCHANGED source,
         NEW e \in Entry, e.line = at, code' = Append(code, e),
         section = "text", counts(source[at]), section' = LabelSection(source, at + 1)
  PROVE  Reached(at)'
<1>1. source \in Program /\ code \in Seq(Entry) /\ at \in Nat
  BY DEF TypeOK
<1>2. Cardinality(Counted(source, at + 1)) = Cardinality(Counted(source, at)) + 1
  BY <1>1, CountedStep DEF Reached
<1>3. /\ \A k \in 1 .. at : Before(code', k) = Before(code, k)
      /\ Cardinality(Before(code', at + 1)) = Cardinality(Before(code, at)) + 1
      /\ \A j \in 1 .. Len(code') : code'[j].line < at + 1
  BY <1>1, BeforeStep DEF Reached
<1>4. \A k \in 1 .. at + 1 : Cardinality(Before(code', k)) = Cardinality(Counted(source, k))
  <2> SUFFICES ASSUME NEW k \in 1 .. at + 1
               PROVE  Cardinality(Before(code', k)) = Cardinality(Counted(source, k))
    OBVIOUS
  <2>1. CASE k = at + 1
    BY <1>1, <1>2, <1>3, <2>1 DEF Reached, Agree
  <2>2. CASE k \in 1 .. at
    BY <1>3, <2>2 DEF Reached, Agree
  <2> QED BY <1>1, <2>1, <2>2
<1>5. at + 1 \in 1 .. Len(source) + 1
  BY <1>1 DEF Program
<1> QED BY <1>3, <1>4, <1>5 DEF Reached, Agree

(* A line of the second pass: what it decodes is what the first pass       *)
(* counted, unless the two read it differently.                            *)
LEMMA SecondPassKeeps ==
  ASSUME NumberInv, SecondPassDirective \/ SecondPassInstruction \/ SecondPassNothing,
         stage' = "second", errors' = << >>, Alike
  PROVE  Reached(at)'
<1>1. /\ TypeOK /\ stage = "second" /\ at <= Len(source) /\ source' = source
      /\ source \in Program
  BY DEF NumberInv, TypeOK, SecondPassDirective, SecondPassInstruction, SecondPassNothing, Reading
<1>2. errors = << >> /\ at' = at + 1
  BY <1>1, AppendedError
    DEF SecondPassDirective, SecondPassInstruction, SecondPassNothing, Reading
<1>3. /\ Reached(at) /\ section = LabelSection(source, at) /\ at \in 1 .. Len(source)
      /\ ~ReadUnlike(source[at])
  <2>1. Reached(at)
    BY <1>1, <1>2 DEF NumberInv, SecondOK
  <2>2. at \in 1 .. Len(source)
    BY <1>1, LineIsRecord
  <2> QED BY <2>1, <2>2 DEF Reached, Alike
<1>4. LabelSection(source, at + 1) = SectionAfter(Line.head)
  <2>1. LabelSection(source, at + 1) = Then(Line.first, section)
    BY <1>1, <1>3, SectionStep DEF Line
  <2>2. SwitchOf(Line.first) = SwitchOf(Line.head)
    BY <1>3 DEF ReadUnlike, Line
  <2> QED BY <2>1, <2>2 DEF SwitchOf, SectionAfter, Then
<1>5. CASE SecondPassDirective
  <2>1. code' = code /\ IsDirective(Line.head) /\ section' = SectionAfter(Line.head)
    BY <1>1, <1>2, <1>5, AppendedError DEF SecondPassDirective
  <2>2. ~counts(source[at])
    BY <1>3, <2>1 DEF ReadUnlike, isCode, Line
  <2> QED BY <1>1, <1>2, <1>3, <1>4, <2>1, <2>2, PassedOver
<1>6. CASE SecondPassInstruction
  <2> DEFINE e == [inst |-> decodeInstruction(Line.head, Line.args),
                   names |-> labelsOf(Line.args), line |-> at]
  <2>1. /\ section' = section /\ section = "text" /\ isCode(Line) /\ code' = Append(code, e)
        /\ decodes(Line.head, Line.args)
    BY <1>1, <1>2, <1>6, AppendedError DEF SecondPassInstruction
  <2>2. counts(source[at])
    BY <1>3, <2>1 DEF ReadUnlike, Line
  <2>3. SectionAfter(Line.head) = section
    BY <2>1 DEF SectionAfter, isCode, IsDirective, Directives
  <2>4. e \in Entry /\ e.line = at
    BY <1>1, <2>1, DecodedEntry
  <2> HIDE DEF e
  <2> QED BY <1>1, <1>2, <1>3, <1>4, <2>1, <2>2, <2>3, <2>4, DecodedLine
<1>7. CASE SecondPassNothing
  <2>1. /\ code' = code /\ section' = section
        /\ Line.head = "" \/ (isCode(Line) /\ section = "data")
    BY <1>7 DEF SecondPassNothing
  <2>2. ~(section = "text" /\ counts(source[at]))
    BY <1>3, <2>1 DEF ReadUnlike, isCode, Line
  <2>3. SectionAfter(Line.head) = section
    BY <2>1 DEF SectionAfter, isCode, IsDirective, Directives
  <2> QED BY <1>1, <1>2, <1>3, <1>4, <2>1, <2>2, <2>3, PassedOver
<1> QED BY <1>5, <1>6, <1>7

(* The inductive invariant: both passes are in the same section at every   *)
(* line and have counted, or decoded, as many instructions before it.      *)
THEOREM NumberInvariant == Spec => []NumberInv
<1>1. Init => LabelsOK /\ FirstOK /\ SecondOK /\ ResolveOK
  BY DEF Init, LabelsOK, FirstOK, SecondOK, ResolveOK, NoLabels
<1>2. NumberInv /\ [Next]_vars => LabelsOK' /\ FirstOK' /\ SecondOK' /\ ResolveOK'
  <2> SUFFICES ASSUME NumberInv, [Next]_vars
               PROVE  LabelsOK' /\ FirstOK' /\ SecondOK' /\ ResolveOK'
    OBVIOUS
  <2>1. TypeOK /\ source \in Program /\ Len(source) \in Nat
    BY DEF NumberInv, TypeOK, Program
  <2>2. CASE Assemble
    <3>1. /\ source' \in Program /\ stage' = "first" /\ at' = 1 /\ section' = "text"
          /\ count' = 0 /\ code' = << >> /\ labels' = NoLabels
      BY <2>2, SourcesArePrograms, AssemblerAssumption DEF Assemble, Starting
    <3>2. Len(source') \in Nat
      BY <3>1 DEF Program
    <3>3. FirstOK'
      BY <3>1, <3>2, SectionStep, CountedStep DEF FirstOK
    <3> QED BY <3>1, <3>3 DEF LabelsOK, SecondOK, ResolveOK, NoLabels
  <2>3. CASE FirstPassLine
    <3>1. stage' = "first"
      BY <2>3 DEF FirstPassLine, Reading
    <3> QED BY <2>3, <3>1, FirstPassKeeps DEF SecondOK, ResolveOK
  <2>4. CASE FirstPassEnds
    <3>1. /\ stage' = "second" /\ at' = 1 /\ section' = "text" /\ source' = source
          /\ code' = << >> /\ labels' = labels
      BY <2>4 DEF FirstPassEnds, outputs, NumberInv, FirstOK
    <3>2. Cardinality(Before(<< >>, 1)) = Cardinality(Counted(source, 1))
      <4>1. Before(<< >>, 1) = {}
        BY DEF Before
      <4> QED BY <2>1, <4>1, CountedStep, FS_EmptySet
    <3>3. Reached(at)'
      BY <2>1, <3>1, <3>2, SectionStep DEF Reached, Agree
    <3> QED BY <3>1, <3>3 DEF NumberInv, LabelsOK, FirstOK, SecondOK, ResolveOK
  <2>5. CASE SecondPassDirective \/ SecondPassInstruction \/ SecondPassNothing
    <3>1. /\ source' = source /\ labels' = labels /\ stage' \in {"second", "done"}
          /\ stage' = "done" => errors' = Append(errors, at)
      BY <2>5 DEF SecondPassDirective, SecondPassInstruction, SecondPassNothing, Reading
    <3>2. SecondOK'
      BY <2>5, <3>1, SecondPassKeeps DEF SecondOK, Alike
    <3>3. ResolveOK'
      BY <2>1, <3>1, AppendedError DEF ResolveOK
    <3> QED BY <3>1, <3>2, <3>3 DEF NumberInv, LabelsOK, FirstOK
  <2>6. CASE SecondPassEnds
    <3>1. stage = "second" /\ at > Len(source) /\ stage' = "resolve" /\ UNCHANGED <<source, outputs>>
      BY <2>6 DEF SecondPassEnds
    <3>2. errors = << >> /\ Alike => \A k \in 1 .. Len(source) : Agree(k)
      BY <2>1, <3>1 DEF NumberInv, SecondOK, Reached
    <3> QED BY <3>1, <3>2 DEF NumberInv, LabelsOK, FirstOK, SecondOK, ResolveOK, Agree, Alike, outputs
  <2>7. CASE ResolveInstruction
    <3>1. stage = "resolve" /\ stage' = stage /\ source' = source /\ labels' = labels
      BY <2>7 DEF ResolveInstruction
    <3>2. \A k \in 1 .. Len(source) : Before(code', k) = Before(code, k)
      BY <2>1, <2>7, ResolveKeepsLines DEF Before
    <3>3. errors' = << >> => errors = << >>
      BY <2>1, <2>7, ResolveKeepsLines
    <3>4. ResolveOK'
      BY <3>1, <3>2, <3>3 DEF NumberInv, ResolveOK, Agree, Alike
    <3> QED BY <3>1, <3>4 DEF NumberInv, LabelsOK, FirstOK, SecondOK
  <2>8. CASE Return
    <3>1. stage = "resolve" /\ stage' = "done" /\ UNCHANGED <<source, outputs>>
      BY <2>8 DEF Return
    <3> QED BY <3>1 DEF NumberInv, LabelsOK, FirstOK, SecondOK, ResolveOK, Agree, Alike, outputs
  <2>9. CASE UNCHANGED vars
    BY <2>9 DEF vars, outputs, NumberInv, LabelsOK, FirstOK, SecondOK, ResolveOK, Reached, Agree,
                Alike
  <2> QED BY <2>2, <2>3, <2>4, <2>5, <2>6, <2>7, <2>8, <2>9 DEF Next
<1> QED BY <1>1, <1>2, AssemblerTypes, PTL DEF Spec, NumberInv

(* For every program that assembles, after any others: each code label     *)
(* names the first instruction after it.                                   *)
THEOREM LabelsAgree == Spec => []LabelsNameInstructions
<1>1. NumberInv => LabelsNameInstructions
  <2> SUFFICES ASSUME NumberInv, Assembled, Alike, NEW name \in DOMAIN labels
               PROVE  LabelIsIndex(name)
    BY DEF LabelsNameInstructions, Alike
  <2>1. PICK k \in 1 .. Len(source) :
          source[k].label = name /\ labels[name] = Cardinality(Counted(source, k))
    BY DEF NumberInv, LabelsOK
  <2>2. Agree(k)
    BY DEF NumberInv, ResolveOK, Assembled
  <2> QED BY <2>1, <2>2 DEF Agree, Before, LabelIsIndex
<1> QED BY <1>1, NumberInvariant, PTL
-----------------------------------------------------------------------------
(* The bytes of a text.                                                    *)

(* The bytes of a text are those of its lines one after the other: the     *)
(* equations of the loop that puts them together.                          *)
Concatenates(f, N, lists) ==
  f[1] = lists[1] /\ \A n \in 2 .. N : f[n] = f[n - 1] \o lists[n]

LEMMA ConcatenationEquations ==
  ASSUME NEW N \in Nat \ {0}, NEW S, NEW lists \in [1 .. N -> Seq(S)]
  PROVE  \E f : FlattenSeq(lists) = f[N] /\ Concatenates(f, N, lists)
<1> DEFINE f == CHOOSE e : e = [i \in 1 .. N |-> IF i = 1 THEN lists[i] ELSE e[i - 1] \o lists[i]]
<1>1. Len(lists) = N
  OBVIOUS
<1>2. FlattenSeq(lists) = f[N]
  BY <1>1 DEF FlattenSeq
<1>3. f = [i \in 1 .. N |-> IF i = 1 THEN lists[i] ELSE f[i - 1] \o lists[i]]
  BY LoopConcatenates, Zenon
<1> HIDE DEF f
<1>4. \A i \in 1 .. N : f[i] = IF i = 1 THEN lists[i] ELSE f[i - 1] \o lists[i]
  BY <1>3
<1>5. f[1] = lists[1]
  BY 1 \in 1 .. N, <1>4
<1>6. ASSUME NEW n \in 2 .. N
      PROVE  f[n] = f[n - 1] \o lists[n]
  <2>1. n \in 1 .. N /\ n # 1
    OBVIOUS
  <2> QED BY <1>4, <2>1
<1> QED BY <1>2, <1>5, <1>6 DEF Concatenates

(* One more list comes after those before it.                              *)
LEMMA ConcatenationStep ==
  ASSUME NEW N \in Nat, NEW S, NEW lists \in [1 .. N + 1 -> Seq(S)]
  PROVE  FlattenSeq(lists) = FlattenSeq([j \in 1 .. N |-> lists[j]]) \o lists[N + 1]
<1> DEFINE first == [j \in 1 .. N |-> lists[j]]
<1>1. PICK f : FlattenSeq(lists) = f[N + 1] /\ Concatenates(f, N + 1, lists)
  BY N + 1 \in Nat \ {0}, ConcatenationEquations
<1>2. CASE N = 0
  <2>1. first = << >> /\ Len(first) = 0
    BY <1>2
  <2>2. FlattenSeq(first) = << >>
    <3> HIDE DEF first
    <3> QED BY <2>1 DEF FlattenSeq
  <2>3. f[N + 1] = lists[N + 1] /\ lists[N + 1] \in Seq(S)
    BY <1>1, <1>2 DEF Concatenates
  <2> HIDE DEF first
  <2>4. << >> \o lists[N + 1] = lists[N + 1]
    BY <2>3
  <2>5. FlattenSeq(lists) = FlattenSeq(first) \o lists[N + 1]
    BY <1>1, <2>2, <2>3, <2>4
  <2> QED BY <2>5 DEF first
<1>3. CASE N # 0
  <2>1. first \in [1 .. N -> Seq(S)] /\ \A j \in 1 .. N : first[j] = lists[j]
    OBVIOUS
  <2> HIDE DEF first
  <2>2. PICK g : FlattenSeq(first) = g[N] /\ Concatenates(g, N, first)
    BY <1>3, <2>1, ConcatenationEquations
  <2> DEFINE T == {m \in Nat : m + 1 <= N => f[m + 1] = g[m + 1]}
  <2>3. ASSUME NEW m \in Nat, 0 .. m - 1 \subseteq T
        PROVE  m \in T
    <3>1. CASE m = 0
      <4>1. f[1] = lists[1] /\ g[1] = first[1] /\ first[1] = lists[1]
        BY <1>1, <1>3, <2>1, <2>2 DEF Concatenates
      <4> QED BY <3>1, <4>1
    <3>2. CASE m # 0 /\ m + 1 <= N
      <4>1. (m - 1) + 1 = m /\ m <= N /\ m - 1 \in 0 .. m - 1
        BY <3>2
      <4>2. f[m] = g[m]
        <5>1. m - 1 \in T
          BY <2>3, <4>1
        <5> QED BY <4>1, <5>1
      <4>3. m + 1 \in 2 .. N /\ m + 1 \in 2 .. N + 1 /\ m + 1 \in 1 .. N /\ (m + 1) - 1 = m
        BY <3>2
      <4>4. f[m + 1] = f[m] \o lists[m + 1] /\ g[m + 1] = g[m] \o first[m + 1]
        BY <1>1, <2>2, <4>3 DEF Concatenates
      <4>5. first[m + 1] = lists[m + 1]
        BY <2>1, <4>3
      <4> QED BY <4>2, <4>4, <4>5
    <3> QED BY <3>1, <3>2
  <2>4. Nat \subseteq T
    <3> HIDE DEF T
    <3> QED BY <2>3, Inherited
  <2>5. f[N] = g[N]
    <3>1. N - 1 \in Nat /\ (N - 1) + 1 = N /\ (N - 1) + 1 <= N
      BY <1>3
    <3>2. N - 1 \in T
      BY <2>4, <3>1
    <3> QED BY <3>1, <3>2
  <2>6. N + 1 \in 2 .. N + 1 /\ (N + 1) - 1 = N
    BY <1>3
  <2>7. f[N + 1] = f[N] \o lists[N + 1]
    BY <1>1, <2>6 DEF Concatenates
  <2>8. FlattenSeq(lists) = FlattenSeq(first) \o lists[N + 1]
    BY <1>1, <2>2, <2>5, <2>7
  <2> QED BY <2>8 DEF first
<1> QED BY <1>2, <1>3

(* The bytes before a line, and one line later.                            *)
LEMMA BytesStep ==
  ASSUME NEW s \in Program
  PROVE  /\ BytesBefore(s, 1) = << >>
         /\ \A k \in 1 .. Len(s) :
              BytesBefore(s, k + 1) =
                BytesBefore(s, k) \o emittedBytes(s[k])
<1> DEFINE of(j) == emittedBytes(s[j])
           lists(k) == [j \in 1 .. k - 1 |-> of(j)]
<1>1. BytesBefore(s, 1) = << >>
  <2>1. lists(1) = << >> /\ Len(lists(1)) = 0
    OBVIOUS
  <2>2. BytesBefore(s, 1) = FlattenSeq(lists(1))
    BY DEF BytesBefore
  <2> HIDE DEF lists
  <2> QED BY <2>1, <2>2 DEF FlattenSeq
<1>2. ASSUME NEW k \in 1 .. Len(s)
      PROVE  BytesBefore(s, k + 1) = BytesBefore(s, k) \o of(k)
  <2>1. Len(s) \in Nat /\ \A j \in 1 .. Len(s) : s[j] \in LineRecord
    BY DEF Program
  <2>2. \A j \in 1 .. Len(s) : of(j) \in Seq(Bytes)
    BY <2>1, EmittedAreBytes
  <2> DEFINE N == k - 1
  <2>3. N \in Nat /\ N + 1 = k /\ N + 1 = (k + 1) - 1 /\ k \in 1 .. N + 1
    BY <2>1
  <2> HIDE DEF of
  <2>4. lists(k + 1) \in [1 .. N + 1 -> Seq(Bytes)]
    BY <2>1, <2>2, <2>3
  <2>5. lists(k) = [j \in 1 .. N |-> lists(k + 1)[j]] /\ lists(k + 1)[N + 1] = of(k)
    BY <2>1
  <2>6. BytesBefore(s, k) = FlattenSeq(lists(k))
        /\ BytesBefore(s, k + 1) = FlattenSeq(lists(k + 1))
    BY DEF BytesBefore, of
  <2> HIDE DEF lists, N
  <2>7. FlattenSeq(lists(k + 1))
        = FlattenSeq([j \in 1 .. N |-> lists(k + 1)[j]]) \o lists(k + 1)[N + 1]
    BY <2>3, <2>4, ConcatenationStep
  <2> QED BY <2>5, <2>6, <2>7
<1> QED BY <1>1, <1>2
-----------------------------------------------------------------------------
(* The label tables.                                                       *)

\* The lines before line k that define a name, and those that define it in
\* the second pass as well.
Defined(n, part, k) == {j \in 1 .. k - 1 : source[j].label = n /\ LabelSection(source, j) = part}
Seen(n, k) ==
  {j \in 1 .. k - 1 : source[j].label = n /\ ~source[j].kept /\ SectionAt(source, j) = "data"}

BytesAt(n, k) == IF Seen(n, k) = {} THEN 0 ELSE Len(BytesBefore(source, Latest(Seen(n, k))))

\* labels_ once the first pass is at line k.
CodeTable(k) ==
  \A n : /\ n \in DOMAIN labels <=> n # NoLabel /\ Defined(n, "text", k) # {}
         /\ n \in DOMAIN labels =>
              labels[n] = Cardinality(Counted(source, Latest(Defined(n, "text", k))))

\* dataLabels_ once the first pass is at line f and the second at line k.
DataTable(f, k) ==
  \A n : /\ n \in DOMAIN dataLabels <=>
              n # NoLabel /\ (Defined(n, "data", f) # {} \/ Seen(n, k) # {})
         /\ n \in DOMAIN dataLabels => dataLabels[n] = BytesAt(n, k)

(* One more line defines one more place of its label, or none.             *)
LEMMA DefinedStep ==
  ASSUME source \in Program, NEW k \in 1 .. Len(source), NEW n
  PROVE  /\ \A part : Defined(n, part, 1) = {}
         /\ Seen(n, 1) = {}
         /\ \A part :
              IF source[k].label = n /\ LabelSection(source, k) = part
              THEN Defined(n, part, k + 1) # {} /\ Latest(Defined(n, part, k + 1)) = k
              ELSE Defined(n, part, k + 1) = Defined(n, part, k)
         /\ IF source[k].label = n /\ ~source[k].kept /\ SectionAt(source, k) = "data"
            THEN Seen(n, k + 1) # {} /\ Latest(Seen(n, k + 1)) = k
            ELSE Seen(n, k + 1) = Seen(n, k)
<1>1. k \in Nat
  OBVIOUS
<1>2. (\A part : Defined(n, part, 1) = {}) /\ Seen(n, 1) = {}
  BY DEF Defined, Seen
<1>3. ASSUME NEW part
      PROVE  IF source[k].label = n /\ LabelSection(source, k) = part
             THEN Defined(n, part, k + 1) # {} /\ Latest(Defined(n, part, k + 1)) = k
             ELSE Defined(n, part, k + 1) = Defined(n, part, k)
  <2>1. Defined(n, part, k) \in SUBSET (1 .. k - 1)
    BY DEF Defined
  <2>2. CASE source[k].label = n /\ LabelSection(source, k) = part
    <3>1. Defined(n, part, k + 1) = Defined(n, part, k) \cup {k}
      BY <1>1, <2>2 DEF Defined
    <3> QED BY <1>1, <2>1, <2>2, <3>1, LatestIsLast
  <2>3. CASE ~(source[k].label = n /\ LabelSection(source, k) = part)
    <3>1. Defined(n, part, k + 1) = Defined(n, part, k)
      BY <1>1, <2>3 DEF Defined
    <3> QED BY <2>3, <3>1
  <2> QED BY <2>2, <2>3
<1>4. IF source[k].label = n /\ ~source[k].kept /\ SectionAt(source, k) = "data"
      THEN Seen(n, k + 1) # {} /\ Latest(Seen(n, k + 1)) = k
      ELSE Seen(n, k + 1) = Seen(n, k)
  <2>1. Seen(n, k) \in SUBSET (1 .. k - 1)
    BY DEF Seen
  <2> DEFINE now == source[k].label = n /\ ~source[k].kept /\ SectionAt(source, k) = "data"
  <2>2. CASE now
    <3>1. Seen(n, k + 1) = Seen(n, k) \cup {k}
      BY <1>1, <2>2 DEF Seen
    <3> QED BY <1>1, <2>1, <2>2, <3>1, LatestIsLast
  <2>3. CASE ~now
    <3>1. Seen(n, k + 1) = Seen(n, k)
      BY <1>1, <2>3 DEF Seen
    <3> QED BY <2>3, <3>1
  <2> QED BY <2>2, <2>3
<1> QED BY <1>2, <1>3, <1>4

(* A line of the first pass leaves the tables of one more line.            *)
LEMMA FirstPassTables ==
  ASSUME NumberInv, FirstPassLine, CodeTable(at), DataTable(at, 1)
  PROVE  CodeTable(at)' /\ DataTable(at, 1)'
<1>1. /\ at \in 1 .. Len(source) /\ source \in Program /\ Len(source) \in Nat
      /\ section = LabelSection(source, at) /\ section \in {"text", "data"}
      /\ count = Cardinality(Counted(source, at))
  BY DEF NumberInv, TypeOK, FirstOK, FirstPassLine, Reading, Program
<1>2. at' = at + 1 /\ source' = source
  BY DEF FirstPassLine, Reading
<1> DEFINE name == source[at].label
<1>3. ASSUME NEW n
      PROVE  /\ n \in DOMAIN labels' <=> n # NoLabel /\ Defined(n, "text", at + 1) # {}
             /\ n \in DOMAIN labels' =>
                  labels'[n] = Cardinality(Counted(source, Latest(Defined(n, "text", at + 1))))
  <2>1. CASE name = n /\ section = "text" /\ n # NoLabel
    <3>1. n \in DOMAIN labels' /\ labels'[n] = count
      BY <2>1 DEF FirstPassLine, Line
    <3>2. Defined(n, "text", at + 1) # {} /\ Latest(Defined(n, "text", at + 1)) = at
      BY <1>1, <2>1, DefinedStep
    <3> QED BY <1>1, <2>1, <3>1, <3>2
  <2>2. CASE ~(name = n /\ section = "text" /\ n # NoLabel)
    <3>1. /\ n \in DOMAIN labels' <=> n \in DOMAIN labels
          /\ n \in DOMAIN labels => labels'[n] = labels[n]
      <4>1. CASE labels' = labels
        BY <4>1
      <4>2. CASE name # n /\ labels' = [m \in DOMAIN labels \cup {name} |->
                                          IF m = name THEN count ELSE labels[m]]
        BY <4>2
      <4>3. CASE name = n /\ labels' # labels
        BY <2>2, <4>3 DEF FirstPassLine, Line, TypeOK, NumberInv
      <4> QED BY <4>1, <4>2, <4>3 DEF FirstPassLine, Line
    <3>2. CASE n = NoLabel
      BY <3>1, <3>2 DEF CodeTable
    <3>3. CASE n # NoLabel
      <4>1. Defined(n, "text", at + 1) = Defined(n, "text", at)
        BY <1>1, <2>2, <3>3, DefinedStep
      <4> QED BY <3>1, <3>3, <4>1 DEF CodeTable
    <3> QED BY <3>2, <3>3
  <2> QED BY <2>1, <2>2
<1>4. ASSUME NEW n
      PROVE  /\ n \in DOMAIN dataLabels' <=>
                  n # NoLabel /\ (Defined(n, "data", at + 1) # {} \/ Seen(n, 1) # {})
             /\ n \in DOMAIN dataLabels' => dataLabels'[n] = BytesAt(n, 1)
  <2>0. Seen(n, 1) = {} /\ BytesAt(n, 1) = 0
    BY <1>1, DefinedStep DEF BytesAt
  <2>1. CASE name = n /\ section = "data" /\ n # NoLabel
    <3>1. n \in DOMAIN dataLabels' /\ dataLabels'[n] = 0
      BY <2>1 DEF FirstPassLine, Line
    <3>2. Defined(n, "data", at + 1) # {}
      BY <1>1, <2>1, DefinedStep
    <3> QED BY <2>0, <2>1, <3>1, <3>2
  <2>2. CASE ~(name = n /\ section = "data" /\ n # NoLabel)
    <3>1. /\ n \in DOMAIN dataLabels' <=> n \in DOMAIN dataLabels
          /\ n \in DOMAIN dataLabels => dataLabels'[n] = dataLabels[n]
      <4>1. CASE dataLabels' = dataLabels
        BY <4>1
      <4>2. CASE name # n /\ dataLabels' = [m \in DOMAIN dataLabels \cup {name} |->
                                              IF m = name THEN 0 ELSE dataLabels[m]]
        BY <4>2
      <4>3. CASE name = n /\ dataLabels' # dataLabels
        BY <2>2, <4>3 DEF FirstPassLine, Line, TypeOK, NumberInv
      <4> QED BY <4>1, <4>2, <4>3 DEF FirstPassLine, Line
    <3>2. CASE n = NoLabel
      BY <3>1, <3>2 DEF DataTable
    <3>3. CASE n # NoLabel
      <4>1. Defined(n, "data", at + 1) = Defined(n, "data", at)
        BY <1>1, <2>2, <3>3, DefinedStep
      <4> QED BY <3>1, <3>3, <4>1 DEF DataTable
    <3> QED BY <3>2, <3>3
  <2> QED BY <2>1, <2>2
<1>5. CodeTable(at)'
  <2>1. \A n : Defined(n, "text", at)' = Defined(n, "text", at + 1)
    BY <1>2 DEF Defined
  <2> QED BY <1>2, <1>3, <2>1 DEF CodeTable
<1>6. DataTable(at, 1)'
  BY <1>2, <1>4 DEF DataTable, Defined, Seen, BytesAt
<1> QED BY <1>5, <1>6
-----------------------------------------------------------------------------
(* The names of print ids.                                                 *)

\* The names with one more, or another for the same id.
Named(names, id, name) ==
  [n \in DOMAIN names \cup {id} |-> IF n = id THEN name ELSE names[n]]

(* The names before a line, and one line later.                            *)
LEMMA NamesStep ==
  ASSUME NEW s \in Program
  PROVE  /\ NamesBefore(s, 1) = NoLabels
         /\ \A k \in 1 .. Len(s) :
              NamesBefore(s, k + 1) =
                IF s[k].head = ".printname" /\ directiveIsLegal(s[k])
                THEN Named(NamesBefore(s, k), s[k].args[1].ato, s[k].args[2].name)
                ELSE NamesBefore(s, k)
<1> DEFINE of(k, id) == {j \in Naming(s, k) : s[j].args[1].ato = id}
           ids(k) == {s[j].args[1].ato : j \in Naming(s, k)}
<1>1. \A k : NamesBefore(s, k) = [id \in ids(k) |-> s[Latest(of(k, id))].args[2].name]
  BY DEF NamesBefore
<1>2. NamesBefore(s, 1) = NoLabels
  <2>1. Naming(s, 1) = {}
    BY DEF Naming
  <2> QED BY <2>1 DEF NamesBefore, NoLabels
<1>3. ASSUME NEW k \in 1 .. Len(s)
      PROVE  NamesBefore(s, k + 1) =
               IF s[k].head = ".printname" /\ directiveIsLegal(s[k])
               THEN Named(NamesBefore(s, k), s[k].args[1].ato, s[k].args[2].name)
               ELSE NamesBefore(s, k)
  <2>1. k \in Nat /\ Naming(s, k) \in SUBSET (1 .. k - 1)
    BY DEF Naming
  <2>2. CASE s[k].head = ".printname" /\ directiveIsLegal(s[k])
    <3> DEFINE now == s[k].args[1].ato
    <3>1. Naming(s, k + 1) = Naming(s, k) \cup {k}
      BY <2>1, <2>2 DEF Naming
    <3>2. ids(k + 1) = ids(k) \cup {now}
      BY <3>1
    <3>3. Latest(of(k + 1, now)) = k
      <4>1. of(k + 1, now) = of(k, now) \cup {k} /\ of(k, now) \in SUBSET (1 .. k - 1)
        BY <2>1, <3>1
      <4> HIDE DEF of
      <4> QED BY <2>1, <4>1, LatestIsLast
    <3>4. \A id : id # now => of(k + 1, id) = of(k, id)
      BY <3>1
    <3> HIDE DEF of, ids
    <3>5. NamesBefore(s, k + 1) = [id \in ids(k) \cup {now} |->
                                     s[Latest(of(k + 1, id))].args[2].name]
      BY <1>1, <3>2
    <3>6. NamesBefore(s, k + 1) = [id \in ids(k) \cup {now} |->
                                     IF id = now THEN s[k].args[2].name
                                     ELSE s[Latest(of(k, id))].args[2].name]
      BY <3>3, <3>4, <3>5
    <3>7. DOMAIN NamesBefore(s, k) = ids(k)
      BY <1>1
    <3>8. \A id \in ids(k) : NamesBefore(s, k)[id] = s[Latest(of(k, id))].args[2].name
      BY <1>1
    <3>9. Named(NamesBefore(s, k), now, s[k].args[2].name)
          = [id \in ids(k) \cup {now} |->
               IF id = now THEN s[k].args[2].name ELSE s[Latest(of(k, id))].args[2].name]
      BY <3>7, <3>8 DEF Named
    <3> QED BY <2>2, <3>6, <3>9
  <2>3. CASE ~(s[k].head = ".printname" /\ directiveIsLegal(s[k]))
    <3>1. Naming(s, k + 1) = Naming(s, k)
      BY <2>1, <2>3 DEF Naming
    <3> QED BY <2>3, <3>1 DEF NamesBefore
  <2> QED BY <2>2, <2>3
<1> QED BY <1>2, <1>3
-----------------------------------------------------------------------------
(* What the second pass makes of the lines it has read.                    *)

\* What of a line's legality does not depend on labels.
Readable(k) ==
  /\ IsDirective(source[k].head) => directiveIsLegal(source[k])
  /\ k \in InstructionLines(source) => decodes(source[k].head, source[k].args)

Illegal == \E k \in 1 .. Len(source) : ~LineIsLegal(source, k)

Lines(k) == {j \in InstructionLines(source) : j < k}
Rank(k)  == Cardinality({j \in InstructionLines(source) : j <= k})

\* code_[n] comes from the n-th instruction line.
Entered(n) ==
  /\ code[n].line \in InstructionLines(source) /\ Rank(code[n].line) = n
  /\ code[n].names = labelsOf(source[code[n].line].args)

\* What line k decodes to before its labels are resolved.
Unresolved(k) == decodeInstruction(source[k].head, source[k].args)

\* Every line before line k is read, and all there is in code_.
Decoded(k) ==
  /\ Len(code) = Cardinality(Lines(k))
  /\ \A n \in 1 .. Len(code) : Entered(n) /\ code[n].inst = Unresolved(code[n].line)
  /\ \A j \in 1 .. k - 1 : Readable(j)

(* One more line is one more instruction line, or none.                    *)
LEMMA LinesStep ==
  ASSUME source \in Program, NEW k \in 1 .. Len(source)
  PROVE  /\ Lines(1) = {} /\ Lines(Len(source) + 1) = InstructionLines(source)
         /\ Cardinality(Lines(k)) \in Nat
         /\ Rank(k) = Cardinality(Lines(k + 1))
         /\ Cardinality(Lines(k + 1)) =
              IF k \in InstructionLines(source) THEN Cardinality(Lines(k)) + 1
              ELSE Cardinality(Lines(k))
<1>1. Len(source) \in Nat /\ k \in Nat
  BY DEF Program
<1>2. InstructionLines(source) \subseteq 1 .. Len(source)
  BY DEF InstructionLines
<1>3. Lines(1) = {} /\ Lines(Len(source) + 1) = InstructionLines(source)
  BY <1>1, <1>2 DEF Lines
<1>4. IsFiniteSet(Lines(k)) /\ Cardinality(Lines(k)) \in Nat
  <2>1. Lines(k) \subseteq 1 .. Len(source) /\ IsFiniteSet(1 .. Len(source))
    BY <1>1, <1>2, FS_Interval DEF Lines
  <2> QED BY <2>1, FS_Subset, FS_CardinalityType
<1>5. Rank(k) = Cardinality(Lines(k + 1))
  <2>1. {j \in InstructionLines(source) : j <= k} = Lines(k + 1)
    BY <1>1, <1>2 DEF Lines
  <2> QED BY <2>1 DEF Rank
<1>6. Lines(k + 1) = IF k \in InstructionLines(source) THEN Lines(k) \cup {k} ELSE Lines(k)
  BY <1>1, <1>2 DEF Lines
<1>7. k \notin Lines(k)
  BY <1>1 DEF Lines
<1>8. Cardinality(Lines(k) \cup {k}) = Cardinality(Lines(k)) + 1
  BY <1>4, <1>7, FS_AddElement
<1> QED BY <1>3, <1>4, <1>5, <1>6, <1>8

(* A data label is where it is seen last.                                  *)
LEMMA DataLabelKeeps ==
  ASSUME source \in Program, at \in 1 .. Len(source), DataTable(Len(source) + 1, at),
         section = SectionAt(source, at), data = BytesBefore(source, at),
         DataLabel, source' = source, at' = at + 1
  PROVE  DataTable(Len(source) + 1, at)'
<1> DEFINE name == source[at].label
           end == Len(source) + 1
<1>1. ASSUME NEW n
      PROVE  /\ n \in DOMAIN dataLabels' <=>
                  n # NoLabel /\ (Defined(n, "data", end) # {} \/ Seen(n, at + 1) # {})
             /\ n \in DOMAIN dataLabels' => dataLabels'[n] = BytesAt(n, at + 1)
  <2>1. CASE name = n /\ n # NoLabel /\ ~Line.kept /\ section = "data"
    <3>1. n \in DOMAIN dataLabels' /\ dataLabels'[n] = Len(data)
      BY <2>1 DEF DataLabel, Line
    <3>2. Seen(n, at + 1) # {} /\ Latest(Seen(n, at + 1)) = at
      BY <2>1, DefinedStep DEF Line
    <3>3. BytesAt(n, at + 1) = Len(BytesBefore(source, at))
      BY <3>2 DEF BytesAt
    <3> QED BY <2>1, <3>1, <3>2, <3>3
  <2>2. CASE ~(name = n /\ n # NoLabel /\ ~Line.kept /\ section = "data")
    <3>1. /\ n \in DOMAIN dataLabels' <=> n \in DOMAIN dataLabels
          /\ n \in DOMAIN dataLabels => dataLabels'[n] = dataLabels[n]
      <4>1. CASE dataLabels' = dataLabels
        BY <4>1
      <4>2. CASE name # n /\ dataLabels' = [m \in DOMAIN dataLabels \cup {name} |->
                                              IF m = name THEN Len(data) ELSE dataLabels[m]]
        BY <4>2
      <4>3. CASE name = n /\ dataLabels' # dataLabels
        BY <2>2, <4>3 DEF DataLabel, Line
      <4> QED BY <4>1, <4>2, <4>3 DEF DataLabel, Line
    <3>2. CASE n = NoLabel
      BY <3>1, <3>2 DEF DataTable
    <3>3. CASE n # NoLabel
      <4>1. Seen(n, at + 1) = Seen(n, at)
        BY <2>2, <3>3, DefinedStep DEF Line
      <4>2. BytesAt(n, at + 1) = BytesAt(n, at)
        BY <4>1 DEF BytesAt
      <4> QED BY <3>1, <3>3, <4>1, <4>2 DEF DataTable
    <3> QED BY <3>2, <3>3
  <2> QED BY <2>1, <2>2
<1> HIDE DEF name
<1>2. \A n : /\ Defined(n, "data", end)' = Defined(n, "data", end)
             /\ Seen(n, at)' = Seen(n, at + 1) /\ BytesAt(n, at)' = BytesAt(n, at + 1)
  BY DEF Defined, Seen, BytesAt
<1>3. end' = end
  OBVIOUS
<1> HIDE DEF end
<1>4. DataTable(end, at)'
  BY <1>1, <1>2 DEF DataTable
<1> QED BY <1>4 DEF end

(* Whatever a line of the second pass is, unless it ends the pass: the     *)
(* section, bytes, names and data labels are those of the text so far.     *)
LEMMA SecondPassData ==
  ASSUME TypeOK, at \in 1 .. Len(source), DataTable(Len(source) + 1, at),
         section = SectionAt(source, at), data = BytesBefore(source, at),
         printNames = NamesBefore(source, at),
         SecondPassDirective \/ SecondPassInstruction \/ SecondPassNothing,
         stage' = "second"
  PROVE  /\ source' = source /\ labels' = labels /\ at' = at + 1
         /\ section' = SectionAt(source, at + 1) /\ data' = BytesBefore(source, at + 1)
         /\ printNames' = NamesBefore(source, at + 1)
         /\ DataTable(Len(source) + 1, at)'
<1>1. source \in Program /\ data \in Seq(Bytes)
  BY DEF TypeOK
<1>2. source' = source /\ labels' = labels /\ at' = at + 1
  BY DEF SecondPassDirective, SecondPassInstruction, SecondPassNothing, Reading
<1>3. DataLabel
  <2>1. CASE SecondPassInstruction
    BY <2>1 DEF SecondPassInstruction, DataLabel
  <2> QED BY <2>1 DEF SecondPassDirective, SecondPassNothing
<1>4. CASE SecondPassDirective
  <2>1. /\ section' = SectionAfter(source[at].head)
        /\ data' = data \o emittedBytes(source[at])
    BY <1>4 DEF SecondPassDirective, Line
  <2>2. section' = SectionAt(source, at + 1)
    BY <1>1, <2>1, SectionStep DEF SectionAfter, Then
  <2>3. data' = BytesBefore(source, at + 1)
    BY <1>1, <2>1, BytesStep
  <2>4. printNames' = NamesBefore(source, at + 1)
    <3>1. CASE source[at].head = ".printname"
      <4>1. directiveIsLegal(source[at])
        BY <1>4 DEF SecondPassDirective, Line
      <4> QED BY <1>1, <1>4, <3>1, <4>1, NamesStep
            DEF SecondPassDirective, SetName, Named, Line
    <3>2. CASE source[at].head # ".printname"
      BY <1>1, <1>4, <3>2, NamesStep DEF SecondPassDirective, Line
    <3> QED BY <3>1, <3>2
  <2> QED BY <1>1, <1>2, <1>3, <2>2, <2>3, <2>4, DataLabelKeeps
<1>5. CASE SecondPassInstruction \/ SecondPassNothing
  <2>1. /\ section' = section /\ data' = data /\ printNames' = printNames
        /\ ~IsDirective(source[at].head)
    BY <1>5 DEF SecondPassInstruction, SecondPassNothing, isCode, IsDirective, Directives, Line
  <2>2. section' = SectionAt(source, at + 1)
    BY <1>1, <2>1, SectionStep DEF Then, IsDirective, Directives
  <2>3. emittedBytes(source[at]) = << >> /\ source[at].head # ".printname"
    BY <2>1 DEF emittedBytes, IsDirective, Directives
  <2>4. data \o << >> = data
    BY <1>1
  <2>5. data' = BytesBefore(source, at + 1)
    BY <1>1, <2>1, <2>3, <2>4, BytesStep
  <2>6. printNames' = NamesBefore(source, at + 1)
    BY <1>1, <2>1, <2>3, NamesStep
  <2> QED BY <1>1, <1>2, <1>3, <2>2, <2>5, <2>6, DataLabelKeeps
<1> QED BY <1>4, <1>5

(* A line that is read leaves what it decodes to in code_; one that is not *)
(* is an error, and illegal.                                               *)
LEMMA SecondPassCode ==
  ASSUME TypeOK, stage = "second", at \in 1 .. Len(source), section = SectionAt(source, at),
         errors = << >> => Decoded(at), errors # << >> => Illegal,
         SecondPassDirective \/ SecondPassInstruction \/ SecondPassNothing
  PROVE  /\ errors' # << >> => Illegal'
         /\ stage' = "second" /\ errors' = << >> => Decoded(at)'
<1>1. source \in Program /\ code \in Seq(Entry) /\ Len(source) \in Nat /\ source' = source
  BY SecondPassLine DEF TypeOK
<1> DEFINE read == section = "text" /\ isCode(Line)
<1>2. at \in InstructionLines(source) <=> read
  BY DEF InstructionLines, Line
<1>3. read => ~IsDirective(Line.head)
  BY DEF isCode
<1>4. ASSUME errors' # << >>
      PROVE  Illegal'
  <2>1. Illegal' <=> Illegal
    BY <1>1 DEF Illegal
  <2>2. CASE errors # << >>
    BY <2>1, <2>2
  <2>3. CASE SecondPassDirective /\ errors = << >>
    <3>1. IsDirective(source[at].head) /\ ~directiveIsLegal(source[at])
      BY <1>4, <2>3 DEF SecondPassDirective, Line
    <3>2. ~LineIsLegal(source, at)
      BY <3>1 DEF LineIsLegal
    <3> QED BY <2>1, <3>2 DEF Illegal
  <2>4. CASE SecondPassInstruction /\ errors = << >>
    <3>1. read /\ ~decodes(source[at].head, source[at].args)
      BY <1>4, <2>4 DEF SecondPassInstruction, Line
    <3>2. ~LineIsLegal(source, at)
      BY <1>2, <3>1 DEF LineIsLegal
    <3> QED BY <2>1, <3>2 DEF Illegal
  <2>5. CASE SecondPassNothing /\ errors = << >>
    BY <1>4, <2>5 DEF SecondPassNothing
  <2> QED BY <2>2, <2>3, <2>4, <2>5
<1>5. ASSUME stage' = "second", errors' = << >>
      PROVE  Decoded(at)'
  <2>1. errors = << >> /\ at' = at + 1
    BY <1>5, AppendedError
      DEF SecondPassDirective, SecondPassInstruction, SecondPassNothing, Reading
  <2>2. Decoded(at)
    BY <2>1
  <2>3. Readable(at)
    <3>1. CASE SecondPassDirective
      <4>1. directiveIsLegal(source[at]) /\ ~read
        BY <1>3, <1>5, <2>1, <3>1, AppendedError DEF SecondPassDirective, Line
      <4> QED BY <1>2, <4>1 DEF Readable
    <3>2. CASE SecondPassInstruction
      <4>1. decodes(source[at].head, source[at].args) /\ ~IsDirective(source[at].head)
        BY <1>5, <2>1, <3>2, AppendedError DEF SecondPassInstruction, isCode, Line
      <4> QED BY <4>1 DEF Readable
    <3>3. CASE SecondPassNothing
      <4>1. ~read /\ ~IsDirective(source[at].head)
        BY <3>3 DEF SecondPassNothing, isCode, IsDirective, Directives, Line
      <4> QED BY <1>2, <4>1 DEF Readable
    <3> QED BY <3>1, <3>2, <3>3
  <2>4. \A j \in 1 .. (at + 1) - 1 : Readable(j)
    BY <2>2, <2>3 DEF Decoded
  <2>5. /\ \A j : Readable(j)' <=> Readable(j)
        /\ \A k : Lines(k)' = Lines(k) /\ Rank(k)' = Rank(k) /\ Unresolved(k)' = Unresolved(k)
    BY <1>1 DEF Readable, Lines, Rank, Unresolved
  <2>6. CASE code' = code /\ ~read
    <3>1. Len(code) = Cardinality(Lines(at + 1))
      BY <1>1, <1>2, <2>2, <2>6, LinesStep DEF Decoded
    <3>2. \A n \in 1 .. Len(code) : Entered(n)' /\ code'[n].inst = Unresolved(code'[n].line)
      <4>1. \A n : Entered(n)' <=> Entered(n)
        BY <1>1, <2>5, <2>6 DEF Entered
      <4> QED BY <2>2, <2>6, <4>1 DEF Decoded
    <3> QED BY <2>1, <2>4, <2>5, <2>6, <3>1, <3>2 DEF Decoded
  <2>7. CASE SecondPassInstruction
    <3> DEFINE e == [inst |-> decodeInstruction(Line.head, Line.args),
                     names |-> labelsOf(Line.args), line |-> at]
    <3>1. code' = Append(code, e) /\ read /\ decodes(Line.head, Line.args)
      BY <1>5, <2>1, <2>7, AppendedError DEF SecondPassInstruction
    <3>2. /\ e.line = at /\ e.inst = Unresolved(at) /\ e.names = labelsOf(source[at].args)
      BY DEF Unresolved, Line
    <3> HIDE DEF e
    <3>3. /\ Len(code') = Len(code) + 1 /\ code'[Len(code) + 1] = e
          /\ \A n \in 1 .. Len(code) : code'[n] = code[n]
          /\ Len(code) \in Nat
      BY <1>1, <3>1
    <3>4. /\ Len(code) = Cardinality(Lines(at))
          /\ Len(code) + 1 = Cardinality(Lines(at + 1)) /\ Rank(at) = Len(code) + 1
      BY <1>1, <1>2, <2>2, <3>1, LinesStep DEF Decoded
    <3>5. \A n \in 1 .. Len(code) : Entered(n)' /\ code'[n].inst = Unresolved(code'[n].line)
      <4>1. \A n \in 1 .. Len(code) : Entered(n)' <=> Entered(n)
        BY <1>1, <2>5, <3>3 DEF Entered
      <4> QED BY <2>2, <3>3, <4>1 DEF Decoded
    <3>6. ASSUME NEW n, n = Len(code) + 1
          PROVE  Entered(n)' /\ code'[n].inst = Unresolved(code'[n].line)
      <4>1. code'[n] = e
        BY <3>3, <3>6
      <4>2. Entered(n)' <=> /\ e.line \in InstructionLines(source) /\ Rank(e.line) = n
                            /\ e.names = labelsOf(source[e.line].args)
        BY <1>1, <2>5, <4>1 DEF Entered
      <4> QED BY <1>2, <3>1, <3>2, <3>4, <3>6, <4>1, <4>2
    <3>7. \A n \in 1 .. Len(code') : Entered(n)' /\ code'[n].inst = Unresolved(code'[n].line)
      <4> SUFFICES ASSUME NEW n \in 1 .. Len(code')
                   PROVE  Entered(n)' /\ code'[n].inst = Unresolved(code'[n].line)
        OBVIOUS
      <4>1. CASE n \in 1 .. Len(code)
        BY <3>5, <4>1
      <4>2. CASE n = Len(code) + 1
        BY <3>6, <4>2
      <4> QED BY <3>3, <4>1, <4>2
    <3> QED BY <2>1, <2>4, <2>5, <3>3, <3>4, <3>7 DEF Decoded
  <2>8. CASE SecondPassDirective \/ SecondPassNothing
    <3>1. code' = code /\ ~read
      BY <2>8 DEF SecondPassDirective, SecondPassNothing, isCode, IsDirective, Directives
    <3> QED BY <2>6, <3>1
  <2> QED BY <2>7, <2>8
<1> QED BY <1>4, <1>5
-----------------------------------------------------------------------------
(* What label resolution makes of it.                                      *)

\* The names line k uses mean something.
Meant(k) ==
  \A i \in 1 .. Len(source[k].args) :
    IsLabel(source[k].args[i]) =>
      Means(source, source[k].args[i].name, parseOpcode(source[k].head))

\* All lines are read and the instructions before the m-th are resolved.
Resolved(m) ==
  /\ Len(code) = Cardinality(InstructionLines(source))
  /\ \A j \in 1 .. Len(source) : Readable(j)
  /\ \A n \in 1 .. Len(code) :
       /\ Entered(n)
       /\ n < m  => /\ Meant(code[n].line)
                    /\ code[n].inst = InstructionAt(source, code[n].line)
       /\ n >= m => code[n].inst = Unresolved(code[n].line)

\* The tables hold the places of all names.
Tabled == CodeTable(Len(source) + 1) /\ DataTable(Len(source) + 1, Len(source) + 1)

(* A name resolves exactly if it means something, and to its place.        *)
LEMMA NamesResolve ==
  ASSUME TypeOK, Tabled, NEW n, n # NoLabel, NEW op
  PROVE  /\ resolvable(n, op) <=> Means(source, n, op)
         /\ resolved(n) = Place(source, n)
<1>1. Len(source) \in Nat /\ 1 .. (Len(source) + 1) - 1 = 1 .. Len(source)
  BY DEF TypeOK, Program
<1>2. \A part : Defined(n, part, Len(source) + 1) = Defines(source, n, part)
  BY <1>1 DEF Defined, Defines
<1>3. BytesAt(n, Len(source) + 1) = DataPlace(source, n)
  BY <1>1 DEF BytesAt, Seen, DataPlace
<1>4. /\ n \in DOMAIN labels <=> Defines(source, n, "text") # {}
      /\ n \in DOMAIN labels => labels[n] = CodePlace(source, n)
  BY <1>2 DEF Tabled, CodeTable, CodePlace, Counted
<1>5. /\ n \in DOMAIN dataLabels <=>
           Defines(source, n, "data") # {} \/ Seen(n, Len(source) + 1) # {}
      /\ n \in DOMAIN dataLabels => dataLabels[n] = DataPlace(source, n)
  BY <1>2, <1>3 DEF Tabled, DataTable
<1>6. ASSUME Seen(n, Len(source) + 1) # {}
      PROVE  Defines(source, n, "text") # {} \/ Defines(source, n, "data") # {}
  <2>1. PICK k \in 1 .. Len(source) : source[k].label = n
    BY <1>1, <1>6 DEF Seen
  <2>2. LabelSection(source, k) \in {"text", "data"}
    BY SectionStep DEF TypeOK
  <2> QED BY <2>1, <2>2 DEF Defines
<1>7. resolvable(n, op) <=> Means(source, n, op)
  BY <1>4, <1>5, <1>6 DEF resolvable, Means
<1>8. resolved(n) = Place(source, n)
  <2>1. CASE n \in DOMAIN labels
    BY <1>4, <2>1 DEF resolved, Place
  <2>2. CASE n \notin DOMAIN labels /\ n \in DOMAIN dataLabels
    BY <1>4, <1>5, <1>6, <2>2 DEF resolved, Place
  <2>3. CASE n \notin DOMAIN labels /\ n \notin DOMAIN dataLabels
    BY <1>4, <1>5, <2>3 DEF resolved, Place
  <2> QED BY <2>1, <2>2, <2>3
<1> QED BY <1>7, <1>8

\* An instruction with its labels resolved, and those that cannot be.
Labelled(i, names) ==
  [i EXCEPT !.dst  = withLabel(@, names[1], i.op),
            !.src1 = withLabel(@, names[2], i.op),
            !.src2 = withLabel(@, names[3], i.op)]
Dangling(i, names) == {j \in 1 .. 3 : names[j] # NoLabel /\ ~resolvable(names[j], i.op)}

(* Resolving one instruction: it is what its line means, or an error names *)
(* its line.                                                               *)
LEMMA ResolvedEntry ==
  ASSUME TypeOK, Tabled, NEW k \in 1 .. Len(source),
         decodes(source[k].head, source[k].args), NEW names, names = labelsOf(source[k].args),
         NEW i, i = Unresolved(k)
  PROVE  /\ Dangling(i, names) = {} =>
              Meant(k) /\ InstructionAt(source, k) = Labelled(i, names)
         /\ Dangling(i, names) # {} => ~Meant(k)
<1> DEFINE head == source[k].head
           args == source[k].args
           uses(j) == j <= Len(args) /\ IsLabel(args[j])
           bad == Dangling(i, names)
<1>1. /\ source[k] \in LineRecord /\ head \in STRING /\ Len(args) \in Nat
      /\ \A j \in 1 .. Len(args) : args[j] \in Text
  <2>1. source[k] \in LineRecord
    BY DEF TypeOK, Program
  <2>2. args \in Seq(Text) /\ head \in STRING
    BY <2>1 DEF LineRecord
  <2> HIDE DEF args
  <2> QED BY <2>1, <2>2
<1>2. Len(args) <= 3
  BY <1>1 DEF decodes, arity
<1>3. i.op = parseOpcode(head)
  BY DEF Unresolved, decodeInstruction
<1>4. \A j \in 1 .. 3 : names[j] = IF uses(j) THEN args[j].name ELSE NoLabel
  BY DEF labelsOf
<1>5. \A j \in 1 .. 3 : uses(j) => args[j].name # NoLabel
  <2> SUFFICES ASSUME NEW j \in 1 .. 3, uses(j) PROVE args[j].name # NoLabel
    OBVIOUS
  <2>1. args[j] \in Text /\ args[j].form \in {"register", "name"}
    BY <1>1 DEF IsLabel
  <2> QED BY <2>1 DEF Text
<1> HIDE DEF args, head
<1>6. \A j \in 1 .. 3 : j \in bad <=> uses(j) /\ ~Means(source, args[j].name, parseOpcode(head))
  BY <1>3, <1>4, <1>5, NamesResolve DEF Dangling
<1>7. Meant(k) <=> \A j \in 1 .. 3 : uses(j) => Means(source, args[j].name, parseOpcode(head))
  <2>1. Meant(k) <=> \A j \in 1 .. Len(args) :
                       IsLabel(args[j]) => Means(source, args[j].name, parseOpcode(head))
    BY DEF Meant, args, head
  <2>2. \A j : j \in 1 .. Len(args) <=> j \in 1 .. 3 /\ j <= Len(args)
    BY <1>1, <1>2
  <2> QED BY <2>1, <2>2
<1>8. ASSUME bad = {}
      PROVE  \A j \in 1 .. 3 : \A o : withLabel(o, names[j], i.op) =
               IF uses(j) THEN [o EXCEPT !.imm = Place(source, args[j].name)] ELSE o
  <2> SUFFICES ASSUME NEW j \in 1 .. 3, NEW o
               PROVE  withLabel(o, names[j], i.op) =
                        IF uses(j) THEN [o EXCEPT !.imm = Place(source, args[j].name)] ELSE o
    OBVIOUS
  <2>1. CASE uses(j)
    <3>1. names[j] = args[j].name /\ names[j] # NoLabel
      BY <1>4, <1>5, <2>1
    <3>2. resolvable(names[j], i.op)
      BY <1>8, <3>1 DEF Dangling
    <3>3. resolved(names[j]) = Place(source, args[j].name)
      BY <3>1, NamesResolve
    <3> QED BY <2>1, <3>1, <3>2, <3>3 DEF withLabel
  <2>2. CASE ~uses(j)
    <3>1. names[j] = NoLabel
      BY <1>4, <2>2
    <3> QED BY <2>2, <3>1 DEF withLabel
  <2> QED BY <2>1, <2>2
<1>9. ASSUME bad = {}
      PROVE  InstructionAt(source, k) = Labelled(i, names)
  <2> DEFINE placed(o, j) == IF j <= Len(args) /\ IsLabel(args[j])
                             THEN [o EXCEPT !.imm = Place(source, args[j].name)] ELSE o
  <2>1. InstructionAt(source, k) = [i EXCEPT !.dst  = placed(@, 1),
                                             !.src1 = placed(@, 2),
                                             !.src2 = placed(@, 3)]
    BY DEF InstructionAt, Unresolved, args
  <2>2. \A o : /\ withLabel(o, names[1], i.op) = placed(o, 1)
               /\ withLabel(o, names[2], i.op) = placed(o, 2)
               /\ withLabel(o, names[3], i.op) = placed(o, 3)
    BY <1>8, <1>9
  <2> HIDE DEF placed
  <2> QED BY <2>1, <2>2 DEF Labelled
<1>10. bad = {} => Meant(k)
  BY <1>6, <1>7
<1>11. bad # {} => ~Meant(k)
  BY <1>6, <1>7 DEF Dangling
<1> QED BY <1>9, <1>10, <1>11

(* A step of label resolution.                                             *)
LEMMA ResolveKeeps ==
  ASSUME TypeOK, Tabled, ResolveInstruction,
         errors = << >> => Resolved(at), errors # << >> => Illegal
  PROVE  /\ errors' = << >> => Resolved(at)'
         /\ errors' # << >> => Illegal'
<1> DEFINE k == code[at].line
           i == code[at].inst
           names == code[at].names
           bad == Dangling(i, names)
<1>1. /\ at \in 1 .. Len(code) /\ source' = source /\ at' = at + 1
      /\ code' = [code EXCEPT ![at].inst = Labelled(i, names)]
      /\ errors' = errors \o [j \in 1 .. Cardinality(bad) |-> code[at].line]
      /\ code \in Seq(Entry) /\ Len(code) \in Nat /\ at \in Nat
  BY DEF ResolveInstruction, TypeOK, Labelled, Dangling
<1>2. Len(code') = Len(code) /\ (errors' = << >> => errors = << >>)
  BY ResolveKeepsLines
<1>3. Illegal' <=> Illegal
  BY <1>1 DEF Illegal
<1>4. IsFiniteSet(bad)
  <2>1. IsFiniteSet(1 .. 3)
    BY 1 \in Int, 3 \in Int, FS_Interval
  <2>2. bad \subseteq 1 .. 3
    BY DEF Dangling
  <2> HIDE DEF bad
  <2> QED BY <2>1, <2>2, FS_Subset
<1>5. bad = {} <=> Cardinality(bad) = 0
  <2> HIDE DEF bad
  <2> QED BY <1>4, FS_EmptySet
<1>6. ASSUME errors = << >>
      PROVE  /\ k \in 1 .. Len(source) /\ k \in InstructionLines(source)
             /\ bad = {} => Meant(k) /\ InstructionAt(source, k) = Labelled(i, names)
             /\ bad # {} => ~Meant(k)
  <2>1. Resolved(at) /\ Entered(at) /\ i = Unresolved(k)
    BY <1>1, <1>6 DEF Resolved
  <2>2. /\ k \in InstructionLines(source) /\ k \in 1 .. Len(source)
        /\ names = labelsOf(source[k].args)
    BY <2>1 DEF Entered, InstructionLines
  <2>3. decodes(source[k].head, source[k].args)
    BY <2>1, <2>2 DEF Resolved, Readable
  <2> HIDE DEF k, i, names
  <2> QED BY <2>1, <2>2, <2>3, ResolvedEntry
<1>7. ASSUME errors' # << >>
      PROVE  Illegal
  <2>1. CASE errors = << >>
    <3>1. bad # {}
      <4> SUFFICES ASSUME bad = {} PROVE FALSE
        OBVIOUS
      <4>1. Cardinality(bad) = 0
        BY <1>5
      <4>2. errors' = << >> \o << >>
        <5> HIDE DEF bad
        <5> QED BY <1>1, <2>1, <4>1
      <4> QED BY <1>7, <4>2
    <3>2. ~LineIsLegal(source, k)
      <4>1. ~Meant(k) /\ k \in InstructionLines(source)
        BY <1>6, <2>1, <3>1
      <4> HIDE DEF k
      <4> QED BY <4>1 DEF LineIsLegal, Meant
    <3> QED BY <1>6, <2>1, <3>2 DEF Illegal
  <2> QED BY <2>1
<1>8. ASSUME errors' = << >>
      PROVE  Resolved(at)'
  <2>1. errors = << >> /\ Resolved(at)
    BY <1>2, <1>8
  <2>2. bad = {}
    <3>1. Cardinality(bad) \in Nat
      <4> HIDE DEF bad
      <4> QED BY <1>4, FS_CardinalityType
    <3>2. [j \in 1 .. Cardinality(bad) |-> k] \in Seq({k})
      <4> HIDE DEF bad, k
      <4> QED BY <3>1
    <3>3. Len([j \in 1 .. Cardinality(bad) |-> k]) = Cardinality(bad)
      <4> HIDE DEF bad, k
      <4> QED BY <3>1
    <3> DEFINE extra == [j \in 1 .. Cardinality(bad) |-> k]
    <3>4. errors' = << >> \o extra
      BY <1>1, <2>1
    <3> HIDE DEF extra
    <3>5. extra = << >>
      BY <1>8, <3>2, <3>4 DEF extra
    <3>6. Cardinality(bad) = 0
      BY <3>3, <3>5 DEF extra
    <3> QED BY <1>5, <3>6
  <2> DEFINE new == Labelled(i, names)
  <2>3. Meant(k) /\ InstructionAt(source, k) = new /\ Entered(at)
    BY <1>1, <1>6, <2>1, <2>2 DEF Resolved
  <2> HIDE DEF bad, new
  <2>4. /\ \A n \in 1 .. Len(code) : n # at => code'[n] = code[n]
        /\ code'[at].inst = new /\ code'[at].line = k /\ code'[at].names = names
    <3>1. code[at] \in Entry
      BY <1>1
    <3> DEFINE entry == [code[at] EXCEPT !.inst = new]
    <3>2. code' = [code EXCEPT ![at] = entry]
      BY <1>1 DEF new
    <3>3. entry.inst = new /\ entry.line = k /\ entry.names = names
      BY <3>1 DEF Entry
    <3> HIDE DEF entry, k, names
    <3>4. code'[at] = entry /\ \A n \in 1 .. Len(code) : n # at => code'[n] = code[n]
      BY <1>1, <3>2
    <3> QED BY <3>3, <3>4
  <2>5. /\ \A j : (Readable(j)' <=> Readable(j)) /\ (Meant(j)' <=> Meant(j))
        /\ \A j : Rank(j)' = Rank(j) /\ Unresolved(j)' = Unresolved(j)
    BY <1>1 DEF Readable, Meant, Rank, Unresolved
  <2> DEFINE P(n) == /\ Entered(n)'
                     /\ n < at + 1  => /\ Meant(code'[n].line)
                                       /\ code'[n].inst = InstructionAt(source, code'[n].line)
                     /\ n >= at + 1 => code'[n].inst = Unresolved(code'[n].line)
  <2>6. ASSUME NEW n \in 1 .. Len(code)
        PROVE  P(n)
    <3>1. code'[n].line = code[n].line /\ code'[n].names = code[n].names
      BY <2>4
    <3>2. Entered(n)' <=> Entered(n)
      BY <1>1, <2>5, <3>1 DEF Entered
    <3>3. CASE n = at
      BY <1>1, <2>3, <2>4, <3>2, <3>3
    <3>4. CASE n # at
      <4>1. code'[n] = code[n] /\ (n < at + 1 <=> n < at) /\ (n >= at + 1 => n >= at)
        BY <1>1, <2>4, <3>4
      <4> QED BY <2>1, <3>2, <4>1 DEF Resolved
    <3> QED BY <3>3, <3>4
  <2> QED BY <1>1, <1>2, <2>1, <2>5, <2>6 DEF Resolved
<1> QED BY <1>3, <1>7, <1>8

(* Each instruction line is one entry of code_, in order.                  *)
LEMMA EntriesAreLines ==
  ASSUME source \in Program, code \in Seq(Entry),
         Len(code) = Cardinality(InstructionLines(source)),
         \A n \in 1 .. Len(code) : Entered(n)
  PROVE  /\ \A n \in 1 .. Len(code) : code[n].line = Nth(InstructionLines(source), n)
         /\ \A k \in InstructionLines(source) : \E n \in 1 .. Len(code) : code[n].line = k
<1> DEFINE L == InstructionLines(source)
           upTo(k) == {j \in L : j <= k}
<1>1. IsFiniteSet(L) /\ Cardinality(L) \in Nat /\ L \subseteq Nat
  <2>0. Len(source) \in Nat
    BY DEF Program
  <2>1. L \subseteq 1 .. Len(source)
    BY DEF InstructionLines
  <2>2. IsFiniteSet(1 .. Len(source))
    BY <2>0, FS_Interval
  <2> HIDE DEF L
  <2>3. L \subseteq Nat
    BY <2>0, <2>1
  <2> QED BY <2>1, <2>2, <2>3, FS_Subset, FS_CardinalityType
<1>2. \A k : Rank(k) = Cardinality(upTo(k))
  BY DEF Rank
<1>3. Len(code) = Cardinality(L) /\ \A n \in 1 .. Len(code) : code[n].line \in L /\ Rank(code[n].line) = n
  BY DEF Entered
<1>4. \A n : Nth(L, n) = CHOOSE k \in L : Rank(k) = n
  BY <1>2 DEF Nth
<1> HIDE DEF L
<1>5. \A k \in L : IsFiniteSet(upTo(k)) /\ Rank(k) \in 1 .. Cardinality(L)
  <2> SUFFICES ASSUME NEW k \in L
               PROVE  IsFiniteSet(upTo(k)) /\ Rank(k) \in 1 .. Cardinality(L)
    OBVIOUS
  <2>1. upTo(k) \in SUBSET L /\ k \in upTo(k)
    BY <1>1
  <2> HIDE DEF upTo
  <2>2. /\ IsFiniteSet(upTo(k)) /\ Cardinality(upTo(k)) <= Cardinality(L)
        /\ Cardinality(upTo(k)) \in Nat
    BY <1>1, <2>1, FS_Subset, FS_CardinalityType
  <2>3. Cardinality(upTo(k)) # 0
    BY <2>1, <2>2, FS_EmptySet
  <2> QED BY <1>1, <1>2, <2>2, <2>3
<1>6. ASSUME NEW j \in L, NEW k \in L, Rank(j) = Rank(k), j < k
      PROVE  FALSE
  <2>1. upTo(j) \in SUBSET upTo(k) /\ k \in upTo(k) /\ k \notin upTo(j)
    <3>1. j \in Nat /\ k \in Nat
      BY <1>1
    <3>2. \A x \in L : x \in Nat
      BY <1>1
    <3>3. \A x \in upTo(j) : x \in upTo(k)
      BY <1>6, <3>1, <3>2
    <3>4. k \in upTo(k) /\ k \notin upTo(j)
      BY <1>6, <3>1
    <3> HIDE DEF upTo
    <3> QED BY <3>3, <3>4
  <2> HIDE DEF upTo
  <2>2. upTo(k) = upTo(j)
    BY <1>2, <1>5, <1>6, <2>1, FS_Subset
  <2> QED BY <2>1, <2>2
<1>7. \A j, k \in L : Rank(j) = Rank(k) => j = k
  BY <1>1, <1>6
<1> HIDE DEF upTo
<1>8. ASSUME NEW n \in 1 .. Len(code)
      PROVE  code[n].line = Nth(L, n)
  <2>1. Nth(L, n) \in L /\ Rank(Nth(L, n)) = n
    BY <1>3, <1>4
  <2> QED BY <1>3, <1>7, <2>1
<1>9. ASSUME NEW k \in L
      PROVE  \E n \in 1 .. Len(code) : code[n].line = k
  <2>1. Rank(k) \in 1 .. Len(code)
    BY <1>3, <1>5
  <2>2. code[Rank(k)].line \in L /\ Rank(code[Rank(k)].line) = Rank(k)
    BY <1>3, <2>1
  <2>3. code[Rank(k)].line = k
    BY <1>7, <2>2
  <2> QED BY <2>1, <2>3
<1> QED BY <1>8, <1>9 DEF L

(* What has been resolved is what the text means.                          *)
LEMMA ResolvedIsTranslated ==
  ASSUME TypeOK, Resolved(at), at > Len(code), data = BytesBefore(source, Len(source) + 1),
         printNames = NamesBefore(source, Len(source) + 1)
  PROVE  Translate(source) = [ok |-> TRUE, code |-> [k \in 1 .. Len(code) |-> code[k].inst],
                              data |-> data, names |-> printNames]
<1> DEFINE L == InstructionLines(source)
<1>1. /\ source \in Program /\ code \in Seq(Entry) /\ at \in Nat /\ Len(code) \in Nat
      /\ Len(code) = Cardinality(L)
      /\ \A n \in 1 .. Len(code) : Entered(n) /\ n < at
  BY DEF TypeOK, Resolved
<1>2. /\ \A n \in 1 .. Len(code) : code[n].line = Nth(L, n)
      /\ \A k \in L : \E n \in 1 .. Len(code) : code[n].line = k
  BY <1>1, EntriesAreLines
<1>3. /\ \A n \in 1 .. Len(code) : Meant(code[n].line)
      /\ \A n \in 1 .. Len(code) : code[n].inst = InstructionAt(source, code[n].line)
  BY <1>1 DEF Resolved
<1>4. \A k \in L : Meant(k)
  BY <1>2, <1>3
<1>5. \A k \in 1 .. Len(source) : LineIsLegal(source, k)
  <2> SUFFICES ASSUME NEW k \in 1 .. Len(source) PROVE LineIsLegal(source, k)
    OBVIOUS
  <2>1. Readable(k)
    BY DEF Resolved
  <2> QED BY <1>4, <2>1 DEF Readable, LineIsLegal, Meant
<1>6. Translate(source) = [ok |-> TRUE, data |-> BytesBefore(source, Len(source) + 1),
                           names |-> NamesBefore(source, Len(source) + 1),
                           code |-> [n \in 1 .. Cardinality(L) |-> InstructionAt(source, Nth(L, n))]]
  BY <1>5 DEF Translate
<1>7. [n \in 1 .. Cardinality(L) |-> InstructionAt(source, Nth(L, n))]
      = [k \in 1 .. Len(code) |-> code[k].inst]
  <2>1. \A n \in 1 .. Len(code) : InstructionAt(source, Nth(L, n)) = code[n].inst
    BY <1>2, <1>3
  <2> HIDE DEF L
  <2> QED BY <1>1, <2>1
<1> HIDE DEF L
<1> QED BY <1>6, <1>7
-----------------------------------------------------------------------------
(* assemble() is a function of its source.                                 *)

FirstMeans ==
  stage = "first" =>
    /\ CodeTable(at) /\ DataTable(at, 1)
    /\ data = << >> /\ printNames = NoLabels /\ errors = << >>

SecondMeans ==
  stage = "second" =>
    /\ at \in 1 .. Len(source) + 1 /\ section = SectionAt(source, at)
    /\ CodeTable(Len(source) + 1) /\ DataTable(Len(source) + 1, at)
    /\ data = BytesBefore(source, at) /\ printNames = NamesBefore(source, at)
    /\ errors = << >> => Decoded(at)
    /\ errors # << >> => Illegal

ResolveMeans ==
  stage = "resolve" =>
    /\ Tabled /\ data = BytesBefore(source, Len(source) + 1)
    /\ printNames = NamesBefore(source, Len(source) + 1)
    /\ errors = << >> => Resolved(at)
    /\ errors # << >> => Illegal

MeaningInv == NumberInv /\ FirstMeans /\ SecondMeans /\ ResolveMeans

(* What is said of labels_ stays true as long as text and labels are the   *)
(* same.                                                                   *)
LEMMA SameCodeTable ==
  ASSUME UNCHANGED <<source, labels>>
  PROVE  CodeTable(Len(source) + 1)' <=> CodeTable(Len(source) + 1)
<1>1. \A n : Defined(n, "text", Len(source) + 1)' = Defined(n, "text", Len(source) + 1)
  BY DEF Defined
<1> QED BY <1>1 DEF CodeTable

(* So do both tables.                                                      *)
LEMMA SameTables ==
  ASSUME UNCHANGED <<source, labels, dataLabels>>
  PROVE  Tabled' <=> Tabled
<1> DEFINE end == Len(source) + 1
<1>1. \A n : /\ Defined(n, "data", end)' = Defined(n, "data", end)
             /\ Seen(n, end)' = Seen(n, end) /\ BytesAt(n, end)' = BytesAt(n, end)
  BY DEF Defined, Seen, BytesAt
<1>2. DataTable(end, end)' <=> DataTable(end, end)
  BY <1>1 DEF DataTable
<1> QED BY <1>2, SameCodeTable DEF Tabled

(* And what is said of lines and code.                                     *)
LEMMA SameCode ==
  ASSUME UNCHANGED <<source, code>>
  PROVE  /\ Illegal' <=> Illegal
         /\ \A k : /\ Lines(k)' = Lines(k) /\ Unresolved(k)' = Unresolved(k)
                   /\ Readable(k)' <=> Readable(k)
                   /\ Meant(k)' <=> Meant(k)
                   /\ Entered(k)' <=> Entered(k)
BY DEF Illegal, Lines, Unresolved, Readable, Meant, Entered, Rank

(* A step that changes nothing.                                            *)
LEMMA Stuttering ==
  ASSUME MeaningInv, UNCHANGED vars
  PROVE  FirstMeans' /\ SecondMeans' /\ ResolveMeans'
<1>1. UNCHANGED <<stage, source, at, section, labels, dataLabels, code, data, printNames, errors>>
  BY DEF vars, outputs
<1>2. FirstMeans'
  <2>1. \A n : /\ Defined(n, "text", at)' = Defined(n, "text", at)
               /\ Defined(n, "data", at)' = Defined(n, "data", at)
               /\ Seen(n, 1)' = Seen(n, 1) /\ BytesAt(n, 1)' = BytesAt(n, 1)
    BY <1>1 DEF Defined, Seen, BytesAt
  <2>2. (CodeTable(at)' <=> CodeTable(at)) /\ (DataTable(at, 1)' <=> DataTable(at, 1))
    BY <1>1, <2>1 DEF CodeTable, DataTable
  <2> QED BY <1>1, <2>2 DEF MeaningInv, FirstMeans
<1>3. SecondMeans'
  <2>1. \A n : /\ Defined(n, "data", Len(source) + 1)' = Defined(n, "data", Len(source) + 1)
               /\ Seen(n, at)' = Seen(n, at) /\ BytesAt(n, at)' = BytesAt(n, at)
    BY <1>1 DEF Defined, Seen, BytesAt
  <2>2. DataTable(Len(source) + 1, at)' <=> DataTable(Len(source) + 1, at)
    BY <1>1, <2>1 DEF DataTable
  <2>3. Lines(at)' = Lines(at)
    BY <1>1 DEF Lines
  <2>4. Decoded(at)' <=> Decoded(at)
    BY <1>1, <2>3, SameCode DEF Decoded
  <2> QED BY <1>1, <2>2, <2>4, SameCodeTable, SameCode DEF MeaningInv, SecondMeans
<1>4. ResolveMeans'
  <2>1. Resolved(at)' <=> Resolved(at)
    BY <1>1, SameCode DEF Resolved
  <2> QED BY <1>1, <2>1, SameTables, SameCode DEF MeaningInv, ResolveMeans
<1> QED BY <1>2, <1>3, <1>4

(* Instruction lines are lines.                                            *)
LEMMA LinesInText ==
  ASSUME source \in Program
  PROVE  /\ Lines(1) = {} /\ Lines(Len(source) + 1) = InstructionLines(source)
<1>1. \A j \in InstructionLines(source) : j \in 1 .. Len(source)
  BY DEF InstructionLines
<1>2. Len(source) \in Nat
  BY DEF Program
<1>3. \A j \in InstructionLines(source) : ~(j < 1) /\ j < Len(source) + 1
  BY <1>1, <1>2
<1> QED BY <1>3 DEF Lines

(* A line of the second pass.                                              *)
LEMMA SecondPassMeans ==
  ASSUME MeaningInv, SecondPassDirective \/ SecondPassInstruction \/ SecondPassNothing
  PROVE  SecondMeans' /\ (errors' # << >> => Illegal')
<1>1. /\ TypeOK /\ stage = "second" /\ at \in 1 .. Len(source) /\ Len(source) \in Nat
      /\ section = SectionAt(source, at)
      /\ CodeTable(Len(source) + 1) /\ DataTable(Len(source) + 1, at)
      /\ data = BytesBefore(source, at) /\ printNames = NamesBefore(source, at)
      /\ errors = << >> => Decoded(at)
      /\ errors # << >> => Illegal
  BY SecondPassLine DEF MeaningInv, NumberInv, SecondMeans
<1>2. (errors' # << >> => Illegal') /\ (stage' = "second" /\ errors' = << >> => Decoded(at)')
  BY <1>1, SecondPassCode
<1>3. ASSUME stage' = "second"
      PROVE  SecondMeans'
  <2>1. /\ source' = source /\ labels' = labels /\ at' = at + 1
        /\ section' = SectionAt(source, at + 1) /\ data' = BytesBefore(source, at + 1)
        /\ printNames' = NamesBefore(source, at + 1)
        /\ DataTable(Len(source) + 1, at)'
    BY <1>1, <1>3, SecondPassData
  <2>2. at' \in 1 .. Len(source') + 1
    BY <1>1, <2>1
  <2>3. CodeTable(Len(source) + 1)'
    BY <1>1, <2>1, SameCodeTable
  <2> QED BY <1>2, <2>1, <2>2, <2>3 DEF SecondMeans
<1> QED BY <1>2, <1>3 DEF SecondMeans

(* The inductive invariant: at every line, the tables are the places of    *)
(* the names so far, data_ the bytes, code_ the instructions, each line    *)
(* once and in order, and an error means that some line means nothing.     *)
THEOREM MeaningInvariant == Spec => []MeaningInv
<1>1. Init => FirstMeans /\ SecondMeans /\ ResolveMeans
  BY DEF Init, FirstMeans, SecondMeans, ResolveMeans
<1>2. MeaningInv /\ [Next]_vars => FirstMeans' /\ SecondMeans' /\ ResolveMeans'
  <2> SUFFICES ASSUME MeaningInv, [Next]_vars
               PROVE  FirstMeans' /\ SecondMeans' /\ ResolveMeans'
    OBVIOUS
  <2>1. NumberInv /\ TypeOK /\ source \in Program /\ Len(source) \in Nat
    BY DEF MeaningInv, NumberInv, TypeOK, Program
  <2>2. CASE Assemble
    <3>1. /\ stage' = "first" /\ at' = 1 /\ labels' = NoLabels /\ dataLabels' = NoLabels
          /\ data' = << >> /\ printNames' = NoLabels /\ errors' = << >>
      BY <2>2 DEF Assemble, Starting
    <3>2. \A n : Defined(n, "text", at)' = {} /\ Defined(n, "data", at)' = {} /\ Seen(n, 1)' = {}
      BY <3>1 DEF Defined, Seen
    <3>3. CodeTable(at)' /\ DataTable(at, 1)'
      BY <3>1, <3>2 DEF CodeTable, DataTable, NoLabels
    <3> QED BY <3>1, <3>3 DEF FirstMeans, SecondMeans, ResolveMeans
  <2>3. CASE FirstPassLine
    <3>1. /\ stage = "first" /\ stage' = stage /\ UNCHANGED <<data, printNames, errors>>
      BY <2>3 DEF FirstPassLine, Reading
    <3>2. CodeTable(at)' /\ DataTable(at, 1)'
      BY <2>1, <2>3, <3>1, FirstPassTables DEF MeaningInv, FirstMeans
    <3> QED BY <3>1, <3>2 DEF MeaningInv, FirstMeans, SecondMeans, ResolveMeans
  <2>4. CASE FirstPassEnds
    <3>1. /\ stage = "first" /\ at > Len(source) /\ stage' = "second" /\ at' = 1
          /\ section' = "text" /\ UNCHANGED <<source, labels, dataLabels, code, data, printNames, errors>>
      BY <2>4 DEF FirstPassEnds, outputs
    <3>2. at = Len(source) + 1 /\ code = << >>
      BY <2>1, <3>1 DEF NumberInv, FirstOK
    <3>3. /\ CodeTable(Len(source) + 1) /\ DataTable(Len(source) + 1, 1)
          /\ data = << >> /\ printNames = NoLabels /\ errors = << >>
      BY <3>1, <3>2 DEF MeaningInv, FirstMeans
    <3>4. CodeTable(Len(source) + 1)' /\ DataTable(Len(source) + 1, at)'
      BY <3>1, <3>3 DEF CodeTable, DataTable, Defined, Seen, BytesAt
    <3>5. /\ data' = BytesBefore(source', at') /\ section' = SectionAt(source', at')
          /\ printNames' = NamesBefore(source', at')
      BY <2>1, <3>1, <3>3, BytesStep, SectionStep, NamesStep
    <3>6. Decoded(at)'
      <4>1. Lines(at)' = {} /\ 1 .. at' - 1 = {}
        BY <2>1, <3>1, LinesInText DEF Lines
      <4>2. code' = << >> /\ Len(code') = 0
        BY <3>1, <3>2
      <4>3. Len(code') = Cardinality(Lines(at)')
        BY <4>1, <4>2, FS_EmptySet
      <4> QED BY <4>1, <4>2, <4>3 DEF Decoded
    <3>7. at' \in 1 .. Len(source') + 1
      BY <2>1, <3>1
    <3> QED BY <3>1, <3>3, <3>4, <3>5, <3>6, <3>7 DEF FirstMeans, SecondMeans, ResolveMeans
  <2>5. CASE SecondPassDirective \/ SecondPassInstruction \/ SecondPassNothing
    <3>1. stage' \in {"second", "done"}
      BY <2>5 DEF SecondPassDirective, SecondPassInstruction, SecondPassNothing, Reading
    <3>2. SecondMeans'
      BY <2>5, SecondPassMeans
    <3> QED BY <3>1, <3>2 DEF FirstMeans, ResolveMeans
  <2>6. CASE SecondPassEnds
    <3>1. /\ stage = "second" /\ at > Len(source) /\ stage' = "resolve" /\ at' = 1
          /\ UNCHANGED <<source, labels, dataLabels, code, data, printNames, errors>>
      BY <2>6 DEF SecondPassEnds, outputs
    <3>2. at = Len(source) + 1
      BY <2>1, <3>1 DEF MeaningInv, SecondMeans
    <3>3. /\ Tabled /\ data = BytesBefore(source, Len(source) + 1)
          /\ printNames = NamesBefore(source, Len(source) + 1)
          /\ errors = << >> => Decoded(Len(source) + 1)
          /\ errors # << >> => Illegal
      BY <3>1, <3>2 DEF MeaningInv, SecondMeans, Tabled
    <3>4. Tabled' /\ (Illegal' <=> Illegal)
      BY <3>1, <3>3, SameTables DEF Illegal
    <3>5. ASSUME errors = << >>
          PROVE  Resolved(at)'
      <4>1. Decoded(Len(source) + 1)
        BY <3>3, <3>5
      <4>2. Lines(Len(source) + 1) = InstructionLines(source)
        BY <2>1, LinesInText
      <4>3. 1 .. (Len(source) + 1) - 1 = 1 .. Len(source)
        BY <2>1
      <4>4. \A n \in 1 .. Len(code) : ~(n < 1) /\ n >= 1
        OBVIOUS
      <4>5. /\ \A n : Entered(n)' <=> Entered(n)
            /\ \A k : (Readable(k)' <=> Readable(k)) /\ Unresolved(k)' = Unresolved(k)
        BY <3>1, SameCode
      <4> QED BY <3>1, <4>1, <4>2, <4>3, <4>4, <4>5 DEF Decoded, Resolved
    <3> QED BY <3>1, <3>3, <3>4, <3>5 DEF FirstMeans, SecondMeans, ResolveMeans
  <2>7. CASE ResolveInstruction
    <3>1. /\ stage = "resolve" /\ stage' = stage
          /\ UNCHANGED <<source, labels, dataLabels, data, printNames>>
      BY <2>7 DEF ResolveInstruction
    <3>2. /\ Tabled /\ data = BytesBefore(source, Len(source) + 1)
          /\ printNames = NamesBefore(source, Len(source) + 1)
          /\ errors = << >> => Resolved(at)
          /\ errors # << >> => Illegal
      BY <3>1 DEF MeaningInv, ResolveMeans
    <3>3. Tabled'
      BY <3>1, <3>2, SameTables
    <3>4. (errors' = << >> => Resolved(at)') /\ (errors' # << >> => Illegal')
      BY <2>1, <2>7, <3>2, ResolveKeeps
    <3> QED BY <3>1, <3>2, <3>3, <3>4 DEF FirstMeans, SecondMeans, ResolveMeans
  <2>8. CASE Return
    <3>1. stage' = "done"
      BY <2>8 DEF Return
    <3> QED BY <3>1 DEF FirstMeans, SecondMeans, ResolveMeans
  <2>9. CASE UNCHANGED vars
    BY <2>9, Stuttering
  <2> QED BY <2>2, <2>3, <2>4, <2>5, <2>6, <2>7, <2>8, <2>9 DEF Next
<1> QED BY <1>1, <1>2, NumberInvariant, PTL DEF Spec, MeaningInv

(* For every sequence of programs, whatever was assembled before: when     *)
(* assemble() returns, what it leaves is what the lines of its source mean *)
(* on their own, and it fails exactly when some line means nothing.        *)
THEOREM AssembleIsFunctional == Spec => AssembleIsAFunction
<1> DEFINE busy == stage \notin {"fresh", "done"}
           result == [ok |-> TRUE, code |-> [k \in 1 .. Len(code) |-> code[k].inst],
                      data |-> data, names |-> printNames]
           out == IF stage = "done" /\ errors = << >> THEN result ELSE Nothing
<1>1. Init => Interface!Init
  BY DEF Init, Interface!Init
<1>2. MeaningInv /\ [Next]_vars => [Interface!Next]_(Interface!vars)
  <2> SUFFICES ASSUME MeaningInv, [Next]_vars
               PROVE  [Interface!Next]_(Interface!vars)
    OBVIOUS
  <2>1. TypeOK /\ source \in Program /\ Len(source) \in Nat
    BY DEF MeaningInv, NumberInv, TypeOK, Program
  <2>2. busy /\ busy' /\ source' = source => UNCHANGED Interface!vars
    BY DEF Interface!vars
  <2>3. busy /\ ~busy' /\ source' = source /\ out' = Translate(source) => Interface!Finish
    BY DEF Interface!Finish
  <2>4. Illegal => Translate(source) = Nothing
    BY DEF Illegal, Translate
  <2> HIDE DEF result
  <2>5. CASE Assemble
    <3>1. ~busy /\ busy' /\ source' \in Sources /\ stage' = "first"
      BY <2>5, AssemblerAssumption DEF Assemble, Starting
    <3> QED BY <3>1 DEF Interface!Next, Interface!Begin
  <2>6. CASE FirstPassLine \/ FirstPassEnds \/ SecondPassEnds \/ ResolveInstruction
    <3>1. busy /\ busy' /\ source' = source
      BY <2>6 DEF FirstPassLine, FirstPassEnds, SecondPassEnds, ResolveInstruction, Reading
    <3> QED BY <2>2, <3>1
  <2>7. CASE SecondPassDirective \/ SecondPassInstruction \/ SecondPassNothing
    <3>1. busy /\ source' = source /\ (stage' = "second" \/ stage' = "done")
      BY <2>7 DEF SecondPassDirective, SecondPassInstruction, SecondPassNothing, Reading
    <3>2. CASE stage' = "done"
      <4>1. errors' = Append(errors, at)
        BY <2>7, <3>2
          DEF SecondPassDirective, SecondPassInstruction, SecondPassNothing, Reading
      <4>2. errors' # << >> /\ Illegal'
        BY <2>1, <2>7, <4>1, AppendedError, SecondPassMeans
      <4>3. Illegal
        BY <3>1, <4>2 DEF Illegal
      <4> QED BY <2>3, <2>4, <3>1, <3>2, <4>2, <4>3 DEF Interface!Next
    <3>3. CASE stage' = "second"
      BY <2>2, <3>1, <3>3
    <3> QED BY <3>1, <3>2, <3>3
  <2>8. CASE Return
    <3>1. /\ stage = "resolve" /\ stage' = "done" /\ at > Len(code)
          /\ UNCHANGED <<source, code, data, printNames, errors>>
      BY <2>8 DEF Return, outputs
    <3>2. CASE errors = << >>
      <4>1. /\ Resolved(at) /\ data = BytesBefore(source, Len(source) + 1)
            /\ printNames = NamesBefore(source, Len(source) + 1)
        BY <3>1, <3>2 DEF MeaningInv, ResolveMeans
      <4>2. Translate(source) = result
        BY <2>1, <3>1, <4>1, ResolvedIsTranslated DEF result
      <4>3. result' = result
        BY <3>1 DEF result
      <4> QED BY <2>3, <3>1, <3>2, <4>2, <4>3 DEF Interface!Next
    <3>3. CASE errors # << >>
      <4>1. Illegal
        BY <3>1, <3>3 DEF MeaningInv, ResolveMeans
      <4> QED BY <2>3, <2>4, <3>1, <3>3, <4>1 DEF Interface!Next
    <3> QED BY <3>2, <3>3
  <2>9. CASE UNCHANGED vars
    BY <2>9 DEF vars, outputs, Interface!vars
  <2> QED BY <2>5, <2>6, <2>7, <2>8, <2>9 DEF Next
<1> QED BY <1>1, <1>2, MeaningInvariant, PTL DEF Spec, AssembleIsAFunction, Interface!Translates
=============================================================================
