-------------------------- MODULE AssemblyMeaning --------------------------
(***************************************************************************)
(* What a text of MDT assembly means, without passes or tables: each line  *)
(* means an instruction, bytes of data, or nothing, and a name means the   *)
(* place of its last definition.                                           *)
(***************************************************************************)
EXTENDS AssemblyLanguage

Nothing == [ok |-> FALSE, code |-> << >>, data |-> << >>, names |-> << >>]

Latest(S) == CHOOSE x \in S : \A y \in S : y <= x

SectionOf(heads, k) ==
  LET before == {j \in DOMAIN heads : j < k /\ heads[j] \in {".data", ".text"}} IN
    IF before = {} \/ heads[Latest(before)] = ".text" THEN "text" ELSE "data"

\* The section of the labels, and that of code and data.
LabelSection(s, k) == SectionOf([j \in DOMAIN s |-> s[j].first], k)
SectionAt(s, k)    == SectionOf([j \in DOMAIN s |-> s[j].head], k)

Defines(s, name, part) ==
  {k \in 1 .. Len(s) : s[k].label = name /\ LabelSection(s, k) = part}

InstructionLines(s) == {k \in 1 .. Len(s) : SectionAt(s, k) = "text" /\ isCode(s[k])}

\* A label counts what looks like an instruction, which may not be one.
CodePlace(s, name) ==
  Cardinality({j \in 1 .. Latest(Defines(s, name, "text")) - 1 :
                 LabelSection(s, j) = "text" /\ counts(s[j])})

BytesBefore(s, k) == FlattenSeq([j \in 1 .. k - 1 |-> emittedBytes(s[j])])

\* A label on a line with a bracket is not seen again once it is declared.
DataPlace(s, name) ==
  LET seen == {k \in 1 .. Len(s) : s[k].label = name /\ ~s[k].kept /\ SectionAt(s, k) = "data"}
  IN
    IF seen = {} THEN 0 ELSE Len(BytesBefore(s, Latest(seen)))

Means(s, name, op) ==
  Defines(s, name, "text") # {} \/ Defines(s, name, "data") # {} \/ IsRuntime(name, op)

Place(s, name) ==
  IF Defines(s, name, "text") # {} THEN CodePlace(s, name)
  ELSE IF Defines(s, name, "data") # {} THEN DataPlace(s, name)
  ELSE -(CHOOSE i \in 1 .. 2 : RuntimeFunctions[i] = name)

LineIsLegal(s, k) ==
  LET line == s[k] IN
    /\ IsDirective(line.head) => directiveIsLegal(line)
    /\ k \in InstructionLines(s) =>
         /\ decodes(line.head, line.args)
         /\ \A i \in 1 .. Len(line.args) :
              IsLabel(line.args[i]) => Means(s, line.args[i].name, parseOpcode(line.head))

InstructionAt(s, k) ==
  LET i == decodeInstruction(s[k].head, s[k].args)
      placed(o, n) == IF n <= Len(s[k].args) /\ IsLabel(s[k].args[n])
                      THEN [o EXCEPT !.imm = Place(s, s[k].args[n].name)] ELSE o
  IN [i EXCEPT !.dst = placed(@, 1), !.src1 = placed(@, 2), !.src2 = placed(@, 3)]

\* The names of print ids that the lines before line k give.
Naming(s, k) == {j \in 1 .. k - 1 : s[j].head = ".printname" /\ directiveIsLegal(s[j])}

NamesBefore(s, k) ==
  [id \in {s[j].args[1].ato : j \in Naming(s, k)} |->
     s[Latest({j \in Naming(s, k) : s[j].args[1].ato = id})].args[2].name]

\* The n-th of a set of lines, in the order of the text.
Nth(S, n) == CHOOSE k \in S : Cardinality({j \in S : j <= k}) = n

Translate(s) ==
  IF \E k \in 1 .. Len(s) : ~LineIsLegal(s, k) THEN Nothing
  ELSE [ok |-> TRUE, data |-> BytesBefore(s, Len(s) + 1),
        names |-> NamesBefore(s, Len(s) + 1),
        code |-> LET lines == InstructionLines(s)
                 IN [n \in 1 .. Cardinality(lines) |-> InstructionAt(s, Nth(lines, n))]]
=============================================================================
