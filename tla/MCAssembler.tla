---------------------------- MODULE MCAssembler ----------------------------
(* Small instances of Assembler: programs of two to four lines.             *)
EXTENDS Assembler

T(form, cls, idx, imm, stride, name) ==
  [form |-> form, cls |-> cls, idx |-> idx, imm |-> imm, stride |-> stride, ato |-> imm,
   name |-> name]
R(i) == T("register", "Scalar", i, 0, 0, "Rn")
M(i) == T("register", "Matrix", i, 0, 0, "Mn")
N(n) == T("number", "None", 0, n, 0, ToString(n))
L(name) == T("name", "None", 0, 0, 0, name)
A(cls, i) == T("memory", cls, i, 4, 0, "[Rn+4]")

Row(label, first, kept, head, args) ==
  [label |-> label, first |-> first, kept |-> kept, head |-> head, args |-> args]

\* Lines both passes read alike: what follows the colon is the head.
FirstOf(head) == IF head \in {"", ".bad"} \cup Directives THEN head ELSE Code
Bare(head, args)           == Row("", FirstOf(head), FALSE, head, args)
Labelled(name, head, args) == Row(name, FirstOf(head), FALSE, head, args)

\* After a comma, which the second pass drops; and with a colon and a bracket.
Comma(head, args)             == Row("", Code, FALSE, head, args)
Whole(name, first, head, args) == Row(name, first, TRUE, head, args)

CodeLines ==
  {Bare("HALT", << >>), Bare("BR", <<L("x")>>), Bare("CALL", <<L("mdt_softmax")>>),
   Bare("ADD", <<R(1), R(15), L("y")>>), Labelled("x", "", << >>),
   Labelled("y", "BR", <<L("y")>>), Labelled("x", "HALT", << >>)}

OddLines ==
  {Bare("ADD", <<R(16), R(1), N(1)>>), Bare("RELU", <<M(8), M(1)>>),
   Bare("HALT", <<N(1)>>), Bare("FOO", << >>), Bare("LOAD", <<R(1), A("Matrix", 1)>>),
   Bare("LOADT", <<M(1), A("Scalar", 2), L("x")>>), Bare("SCRATCHLOAD", <<M(1), M(2)>>)}

MoreLines ==
  {Bare("LOADT", <<M(1), A("Scalar", 2), N(8)>>), Bare("SCRATCHSTORE", <<M(7), A("Scalar", 0)>>),
   Bare("STORE", <<R(1), A("Scalar", 13)>>), Bare("LOAD", <<R(1), A("Scalar", 16)>>)}

Sections ==
  {Bare(".data", << >>), Bare(".text", << >>), Bare(".global", <<L("x")>>),
   Labelled("y", ".word", <<N(5), N(-2)>>), Bare(".word", <<N(1), L("z")>>),
   Bare(".float", <<L("z")>>), Bare(".space", <<N(3)>>), Bare(".bad", << >>),
   Bare(".printname", <<N(2), L("z")>>), Bare(".printname", <<N(2), N(7)>>),
   Bare(".printname", <<N(2)>>)}

\* `,` and `, .word 5`, `, HALT`, `, .data`.
CommaLines ==
  {Comma("", << >>), Comma(".word", <<N(5)>>), Comma("HALT", << >>), Comma(".data", << >>)}

\* `x: LOAD R1, [R2+4]`, `x: .text [`, `.global a:[`, `.global a[:`,
\* `ADD R1, R2, 0x4:.text [`, `ADD R1, R2, 0x4[:` and `LOAD R1, [R2+0x4:]`.
WholeLines ==
  {Whole("x", Code, "x:", <<L("LOAD R1"), A("Scalar", 2)>>), Whole("x", ".text", "x:", <<L(".text [")>>),
   Whole(".global a", Code, ".global", <<L(Colon)>>),
   Whole(".global a[", "", ".global", <<L(Colon)>>),
   Whole("ADD R1, R2, 0x4", ".text", "ADD", <<R(1), R(2), N(4)>>),
   Whole("ADD R1, R2, 0x4[", "", "ADD", <<R(1), R(2), N(4)>>),
   Whole("LOAD R1, [R2+0x4", Code, "LOAD", <<R(1), A("Scalar", 2)>>)}

Pool == CodeLines \cup OddLines \cup MoreLines \cup Sections \cup CommaLines \cup WholeLines

Tuples(S, n) == [1 .. n -> S]

\* Two lines of any kind; three around a label that is used, moved or hidden,
\* or a line the passes read unlike; four that are code, data or commas only.
Context == {Bare(".data", << >>), Bare(".text", << >>), Labelled("y", ".word", <<N(5), N(-2)>>),
            Whole("ADD R1, R2, 0x4", ".text", "ADD", <<R(1), R(2), N(4)>>),
            Whole("ADD R1, R2, 0x4[", "", "ADD", <<R(1), R(2), N(4)>>)} \cup CommaLines
Short   == {Bare("HALT", << >>), Bare("BR", <<L("x")>>), Labelled("x", "", << >>),
            Comma("", << >>), Bare(".data", << >>)}

MCSources ==
  Tuples(Pool, 2) \cup Tuples(CodeLines \cup Context, 3) \cup Tuples(Short, 4)

MCAgain == {<<Bare("BR", <<L("y")>>), Bare(".data", << >>)>>,
            <<Bare("BR", <<L("x")>>), Bare("HALT", << >>), Labelled("x", "HALT", << >>)>>}
MCAll == MCSources \cup MCAgain
=============================================================================
