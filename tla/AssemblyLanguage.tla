-------------------------- MODULE AssemblyLanguage --------------------------
(***************************************************************************)
(* The lines of MDT assembly and what one line alone means: the operands,  *)
(* instructions and bytes that parseOperand, decodeInstruction and         *)
(* handleDirective of tools/mdtsim/Assembler.cpp make of its tokens.       *)
(*                                                                         *)
(* A line is what each pass reads of it once comments are stripped. The    *)
(* first takes whatever is before a colon for a label and looks at the     *)
(* first character of the rest; the second leaves the label of a line that *)
(* holds a bracket where it is and splits what it has into tokens, which   *)
(* drops leading commas.  The two do not always read the same.             *)
(***************************************************************************)
EXTENDS MDTIsa, SequencesExt

NoLabel == ""

\* A text with a colon in it; no label has one.
Colon == ":"

\* What the first pass finds of anything that does not begin with a dot.
Code == "code"

Directives == {".data", ".text", ".global", ".globl", ".word", ".float",
               ".space", ".printname"}

\* An argument as it is spelled: `imm` is the number or the offset it is,
\* `ato` what std::atoi, or the bits of what std::atof, makes of any text,
\* `name` its text, which is not empty: empty ones are dropped.
Text == {t \in [form: {"register", "number", "memory", "name"}, cls: RegClass, idx: Nat,
                imm: Int, stride: Int, ato: Int, name: STRING] :
           t.form \in {"register", "name"} => t.name # NoLabel}

IsDirective(head) == head \in Directives \cup {".bad"}

\* What the first pass may find.
First == {"", Code, ".bad"} \cup Directives

\* firstPass counts a line; secondPass decodes one.
counts(line) == line.first = Code
isCode(line) == line.head # "" /\ ~IsDirective(line.head)

-----------------------------------------------------------------------------
(* Operands.                                                               *)

RegisterLimit(cls) == IF cls = "Scalar" THEN 16 ELSE 8

\* Mutant: the limit itself is taken for a register.
ParseRegisterToLimit(t) == t.form = "register" /\ t.idx <= RegisterLimit(t.cls)

parseRegister(t) == t.form = "register" /\ t.idx < RegisterLimit(t.cls)

\* A memory operand's base is a scalar register in range, or it is rejected.
baseIsLegal(t) == t.cls = "Scalar" /\ t.idx < RegisterLimit("Scalar")
parses(t) == t.form = "memory" => baseIsLegal(t)

\* What is neither a register nor a number is taken for a label.
parseOperand(t) ==
  CASE t.form = "memory" -> MemOperand(t.idx, t.imm, t.stride, FALSE)
    [] parseRegister(t) -> RegOperand(t.cls, t.idx)
    [] t.form = "number" -> ImmOperand(t.imm)
    [] OTHER -> LabelOperand(0)

IsLabel(t) == t.form = "name" \/ (t.form = "register" /\ ~parseRegister(t))

-----------------------------------------------------------------------------
(* Instructions.                                                           *)

Strided == {"LOADT", "STORET"}
Scratch == {"SCRATCHLOAD", "SCRATCHSTORE"}

parseOpcode(mnemonic) ==
  CASE mnemonic \in {"LOADT", "SCRATCHLOAD"} -> "LOAD"
    [] mnemonic \in {"STORET", "SCRATCHSTORE"} -> "STORE"
    [] OTHER -> mnemonic

isMnemonic(head) == head \in Opcode \cup Strided \cup Scratch

arity(mnemonic) ==
  CASE mnemonic \in Strided -> 3
    [] mnemonic \in {"NOP", "RET", "HALT"} -> 0
    [] mnemonic \in {"BR", "JMP", "CALL"} -> 1
    [] mnemonic \in MemoryOps \cup Scratch \cup ConvertOps \cup ReduceOps
                      \cup {"TRANSPOSE", "RELU"} -> 2
    [] OTHER -> 3

\* decodeInstruction() returns true.
decodes(head, args) ==
  /\ isMnemonic(head) /\ Len(args) = arity(head)
  /\ \A i \in 1 .. Len(args) : parses(args[i])
  /\ head \in Strided \cup Scratch => args[2].form = "memory"
  /\ head \in Strided => parseOperand(args[3]).kind = "Immediate"

decodeInstruction(head, args) ==
  LET slot(i) == IF i <= Len(args) THEN parseOperand(args[i]) ELSE NoOperand
      src1 == [slot(2) EXCEPT
                 !.stride = IF head \in Strided THEN args[3].imm ELSE @,
                 !.scratchpad = head \in Scratch]
  IN [op |-> parseOpcode(head), dst |-> slot(1), src1 |-> src1, src2 |-> slot(3)]

\* The names its operands refer to, NoLabel where there is none.
labelsOf(args) ==
  [i \in 1 .. 3 |-> IF i <= Len(args) /\ IsLabel(args[i]) THEN args[i].name ELSE NoLabel]

-----------------------------------------------------------------------------
(* Directives.                                                             *)

byte(value, k) == (value \div 256^k) % 256

\* Every value as four bytes, the least significant first.
wordBytes(values) ==
  [k \in 1 .. 4 * Len(values) |-> byte(values[(k + 3) \div 4], (k - 1) % 4)]

\* handleDirective() returns true.
directiveIsLegal(line) ==
  LET numbers == \A i \in 1 .. Len(line.args) : line.args[i].form = "number" IN
  CASE line.head = ".printname" -> Len(line.args) >= 2
    [] line.head = ".word"  -> numbers
    [] line.head = ".space" -> /\ Len(line.args) >= 1 /\ line.args[1].form = "number"
                               /\ line.args[1].imm >= 0
    [] OTHER -> line.head \in Directives

\* A .word stops at its first illegal value, having emitted those before.
leading(args) ==
  Cardinality({n \in 1 .. Len(args) : \A i \in 1 .. n : args[i].form = "number"})

emittedBytes(line) ==
  CASE line.head = ".word"  -> wordBytes([i \in 1 .. leading(line.args) |-> line.args[i].imm])
    [] line.head = ".float" ->
         wordBytes([i \in 1 .. Len(line.args) |-> line.args[i].ato])
    [] line.head = ".space" /\ directiveIsLegal(line) -> [k \in 1 .. line.args[1].imm |-> 0]
    [] OTHER -> << >>

RuntimeFunctions == <<"mdt_print", "mdt_softmax">>

IsRuntime(name, op) == op = "CALL" /\ \E i \in 1 .. 2 : RuntimeFunctions[i] = name

-----------------------------------------------------------------------------
(* Lines.                                                                  *)

\* A token of the line has the colon in it: a number may, as `0x4:`, and so
\* may the offset of a memory operand; no opcode, directive or register has.
holdsColon(line) ==
  \/ ~isMnemonic(line.head) /\ line.head \notin Directives
  \/ \E i \in 1 .. Len(line.args) :
       line.args[i].form \in {"number", "memory"} \/ line.args[i].name = Colon

\* The lines there are.  label: the text before the first colon, if any;
\* first: what follows it; kept: there is a colon and a bracket, so that the
\* second pass reads the whole line; head and args: its tokens.
SourceLine ==
  {line \in [label: STRING, first: First, kept: BOOLEAN, head: STRING, args: Seq(Text)] :
     /\ line.label # Colon
     /\ line.head = "" => line.args = << >>
     /\ IF line.kept THEN line.head # "" /\ holdsColon(line)
        ELSE /\ line.first = "" => line.head = ""
             /\ IsDirective(line.first) => line.head = line.first
             /\ line.label # NoLabel =>
                  \A i \in 1 .. Len(line.args) : line.args[i].form # "memory"}
=============================================================================
