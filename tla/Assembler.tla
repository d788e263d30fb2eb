------------------------------ MODULE Assembler ------------------------------
(***************************************************************************)
(* The MDT assembler: assemble() and its two passes over the same text,    *)
(* one action per line and one per instruction whose labels are resolved.  *)
(***************************************************************************)
EXTENDS AssemblyMeaning

CONSTANTS
  Sources,   \* the programs a fresh assembler is given
  Again      \* those it is given afterwards

ASSUME AssemblerAssumption ==
  /\ Sources \subseteq Seq(SourceLine)
  /\ Again \subseteq Sources

VARIABLES
  stage,       \* where assemble() is
  source,
  at,          \* the line, or the instruction, it has reached
  section,     \* firstPass's dataSection and secondPass's inDataSection_
  count,       \* firstPass's instructionIndex
  labels,      \* labels_
  dataLabels,  \* dataLabels_
  code,        \* code_, every instruction with its source line
  data,        \* data_
  printNames,  \* printNames_
  errors       \* errors_, as the lines they name

outputs == <<labels, dataLabels, code, data, printNames, errors>>
vars    == <<stage, source, at, section, count, outputs>>

Stage == {"fresh", "first", "second", "resolve", "done"}

NoLabels == [name \in {} |-> 0]

-----------------------------------------------------------------------------
(* assemble() and the first pass.                                          *)

Init ==
  /\ stage = "fresh" /\ source = << >> /\ at = 0 /\ section = "text" /\ count = 0
  /\ labels = NoLabels /\ dataLabels = NoLabels
  /\ code = << >> /\ data = << >> /\ printNames = NoLabels /\ errors = << >>

Starting ==
  /\ stage \in {"fresh", "done"}
  /\ source' \in IF stage = "fresh" THEN Sources ELSE Again
  /\ stage' = "first" /\ at' = 1 /\ section' = "text" /\ count' = 0

\* Mutant: the data labels of the program before are kept.
AssembleKeepsDataLabels ==
  /\ Starting
  /\ labels' = NoLabels /\ printNames' = NoLabels
  /\ code' = << >> /\ data' = << >> /\ errors' = << >>
  /\ UNCHANGED dataLabels

Assemble ==
  /\ Starting
  /\ labels' = NoLabels /\ dataLabels' = NoLabels /\ printNames' = NoLabels
  /\ code' = << >> /\ data' = << >> /\ errors' = << >>

Line == source[at]

Reading(pass) ==
  /\ stage = pass /\ at <= Len(source)
  /\ at' = at + 1
  /\ UNCHANGED <<stage, source>>

SectionAfter(head) ==
  CASE head = ".data" -> "data" [] head = ".text" -> "text" [] OTHER -> section

\* Mutant: a line with a label and nothing else counts.
CountsLabels(line) == ~IsDirective(line.first)

counted(line) == counts(line)

FirstPassLine ==
  /\ Reading("first")
  /\ section' = SectionAfter(Line.first)
  /\ IF Line.label = NoLabel THEN UNCHANGED <<labels, dataLabels>>
     ELSE IF section = "data"
     THEN dataLabels' = [n \in DOMAIN dataLabels \cup {Line.label} |->
                           IF n = Line.label THEN 0 ELSE dataLabels[n]]
          /\ UNCHANGED labels
     ELSE labels' = [n \in DOMAIN labels \cup {Line.label} |->
                       IF n = Line.label THEN count ELSE labels[n]]
          /\ UNCHANGED dataLabels
  /\ count' = IF section = "text" /\ counted(Line) THEN count + 1 ELSE count
  /\ UNCHANGED <<code, data, printNames, errors>>

FirstPassEnds ==
  /\ stage = "first" /\ at > Len(source)
  /\ stage' = "second" /\ at' = 1 /\ section' = "text"
  /\ UNCHANGED <<source, count, outputs>>

-----------------------------------------------------------------------------
(* The second pass.                                                        *)

SetName(id, name) ==
  printNames' = [n \in DOMAIN printNames \cup {id} |-> IF n = id THEN name ELSE printNames[n]]

\* A data label is the number of bytes before it, from the second pass on.
DataLabel ==
  dataLabels' =
    IF Line.label # NoLabel /\ ~Line.kept /\ section = "data"
    THEN [n \in DOMAIN dataLabels \cup {Line.label} |->
            IF n = Line.label THEN Len(data) ELSE dataLabels[n]]
    ELSE dataLabels

SecondPassDirective ==
  /\ stage = "second" /\ at <= Len(source) /\ IsDirective(Line.head)
  /\ DataLabel
  /\ data' = data \o emittedBytes(Line)
  /\ IF directiveIsLegal(Line)
     THEN stage' = stage /\ at' = at + 1 /\ section' = SectionAfter(Line.head)
            /\ UNCHANGED errors
     ELSE stage' = "done" /\ errors' = Append(errors, at) /\ UNCHANGED <<at, section>>
  /\ IF Line.head = ".printname" /\ directiveIsLegal(Line)
     THEN SetName(Line.args[1].ato, Line.args[2].name) ELSE UNCHANGED printNames
  /\ UNCHANGED <<source, count, labels, code>>

SecondPassInstruction ==
  /\ Reading("second") /\ section = "text" /\ isCode(Line)
  /\ IF decodes(Line.head, Line.args)
     THEN /\ code' = Append(code, [inst |-> decodeInstruction(Line.head, Line.args),
                                   names |-> labelsOf(Line.args), line |-> at])
          /\ UNCHANGED errors
     ELSE errors' = Append(errors, at) /\ UNCHANGED code
  /\ UNCHANGED <<section, count, labels, dataLabels, data, printNames>>

\* Data sections ignore instructions; empty lines leave a label at most.
SecondPassNothing ==
  /\ Reading("second") /\ (Line.head = "" \/ (isCode(Line) /\ section = "data"))
  /\ DataLabel
  /\ UNCHANGED <<section, count, labels, code, data, printNames, errors>>

SecondPassEnds ==
  /\ stage = "second" /\ at > Len(source)
  /\ stage' = "resolve" /\ at' = 1
  /\ UNCHANGED <<source, section, count, outputs>>

-----------------------------------------------------------------------------
(* Label references.                                                       *)

resolvable(name, op) ==
  name \in DOMAIN labels \cup DOMAIN dataLabels \/ IsRuntime(name, op)

\* Code labels hide data labels, and these the runtime functions.
resolved(name) ==
  IF name \in DOMAIN labels THEN labels[name]
  ELSE IF name \in DOMAIN dataLabels THEN dataLabels[name]
  ELSE -(CHOOSE i \in 1 .. 2 : RuntimeFunctions[i] = name)

withLabel(o, name, op) ==
  IF name # NoLabel /\ resolvable(name, op) THEN [o EXCEPT !.imm = resolved(name)] ELSE o

ResolveInstruction ==
  /\ stage = "resolve" /\ at <= Len(code)
  /\ LET i == code[at].inst  names == code[at].names
         bad == {k \in 1 .. 3 : names[k] # NoLabel /\ ~resolvable(names[k], i.op)}
     IN /\ code' = [code EXCEPT ![at].inst =
                      [i EXCEPT !.dst  = withLabel(@, names[1], i.op),
                                !.src1 = withLabel(@, names[2], i.op),
                                !.src2 = withLabel(@, names[3], i.op)]]
        /\ errors' = errors \o [k \in 1 .. Cardinality(bad) |-> code[at].line]
  /\ at' = at + 1
  /\ UNCHANGED <<stage, source, section, count, labels, dataLabels, data, printNames>>

Return ==
  /\ stage = "resolve" /\ at > Len(code)
  /\ stage' = "done"
  /\ UNCHANGED <<source, at, section, count, outputs>>

Next ==
  \/ Assemble \/ FirstPassLine \/ FirstPassEnds
  \/ SecondPassDirective \/ SecondPassInstruction \/ SecondPassNothing \/ SecondPassEnds
  \/ ResolveInstruction \/ Return

Spec == Init /\ [][Next]_vars

-----------------------------------------------------------------------------
(* Properties.                                                             *)

Assembled == stage = "done" /\ errors = << >>

SwitchOf(head) == IF head \in {".data", ".text"} THEN head ELSE ""

\* The lines that the two passes take for different things: what is counted
\* and then skipped or obeyed as a directive (`,` and `, .word 5`); what is
\* decoded and was not counted; what switches the section of one pass.
ReadUnlike(line) ==
  \/ counts(line) /\ ~isCode(line)
  \/ ~counts(line) /\ decodes(line.head, line.args)
  \/ SwitchOf(line.first) # SwitchOf(line.head)

LabelIsIndex(name) ==
  \E k \in 1 .. Len(source) :
    /\ source[k].label = name
    /\ labels[name] = Cardinality({j \in 1 .. Len(code) : code[j].line < k})

(* A program that assembles has each of its code labels at the first       *)
(* instruction written after it, or at the end: firstPass counts the       *)
(* instructions that secondPass decodes, by rules of its own.  Not so if   *)
(* a line is one thing for one pass and another for the other, although    *)
(* MDTSim.h:190 says "label -> instruction index" of every text.           *)
LabelsNameInstructions ==
  Assembled /\ (\A k \in 1 .. Len(source) : ~ReadUnlike(source[k])) =>
    \A name \in DOMAIN labels : LabelIsIndex(name)

(* What assembles satisfies all the simulator assumes of its program: the  *)
(* register indices of every operand exist, memory operands are based on   *)
(* scalar registers, and no label is left unresolved.                      *)
OperandExists(o) ==
  /\ o \in Operand
  /\ o.cls = "Scalar" => o.idx \in 0 .. 15
  /\ o.cls \in {"Vector", "Matrix"} => o.idx \in 0 .. 7
  /\ o.kind = "Memory" => o.cls = "Scalar"

AssembledIsWellFormed ==
  Assembled =>
    \A k \in 1 .. Len(code) :
      LET i == code[k].inst IN
        /\ i.op \in Opcode
        /\ \A o \in {i.dst, i.src1, i.src2} : OperandExists(o)

Interface ==
  INSTANCE AssemblerInterface
    WITH given <- source,
         busy  <- stage \notin {"fresh", "done"},
         out   <- IF stage = "done" /\ errors = << >>
                  THEN [ok |-> TRUE, code |-> [k \in 1 .. Len(code) |-> code[k].inst],
                        data |-> data, names |-> printNames]
                  ELSE Nothing

(* assemble() is a function of its source: whatever the object assembled   *)
(* before, two passes make of a program what its lines mean on their own   *)
(* (Translate), names of print ids included, and fail exactly when some    *)
(* line means nothing.                                                     *)
AssembleIsAFunction == Interface!Translates
=============================================================================
