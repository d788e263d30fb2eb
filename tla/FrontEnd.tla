------------------------------- MODULE FrontEnd -------------------------------
(***************************************************************************)
(* frontEnd() of driver/Pipeline.cpp: the tokens of a source are parsed,   *)
(* the program analysed and then lowered, each stage only when the one     *)
(* before it found no error.                                               *)
(***************************************************************************)
EXTENDS Lowering, FiniteSets

CONSTANTS
  Sources   \* [program, edit, tokens]: statements, as token sequences, what
            \* was done to one token of theirs, and the tokens after that

VARIABLES
  source,       \* one of Sources
  stage,        \* where frontEnd() is
  ok,           \* what it returns
  errorCount, warningCount

vars == <<parserVars, semaVars, loweringVars, source, stage, ok, errorCount, warningCount>>

Stages == {"lex", "parse", "analyze", "lower", "returned"}

Init ==
  /\ source \in Sources /\ tokens = << >>
  /\ ParserInit /\ SemaInit /\ LoweringInit
  /\ stage = "lex" /\ ok = FALSE /\ errorCount = 0 /\ warningCount = 0

\* The stage ends: the next one begins if there was no error.
Proceed(errors, next) ==
  /\ stage' = IF errors = 0 THEN next ELSE "returned"
  /\ errorCount' = errorCount + errors
  /\ UNCHANGED <<source, ok>>

\* A character that starts no token is an INVALID token and an error.
Tokenize ==
  /\ stage = "lex"
  /\ tokens' = source.tokens
  /\ Proceed(Cardinality({k \in DOMAIN tokens' : tokens'[k].type = "INVALID"}), "parse")
  /\ UNCHANGED <<pos, statements, parseErrors, semaVars, loweringVars, warningCount>>

Parse ==
  /\ stage = "parse" /\ ParseStatement
  /\ UNCHANGED <<semaVars, loweringVars, source, stage, ok, errorCount, warningCount>>

EndOfParse ==
  /\ stage = "parse" /\ Parsed
  /\ Proceed(Len(parseErrors), "analyze")
  /\ UNCHANGED <<parserVars, semaVars, loweringVars, warningCount>>

Analyze ==
  /\ stage = "analyze" /\ (AnalyzeStatement \/ WarnUnused)
  /\ UNCHANGED <<loweringVars, source, stage, ok, errorCount, warningCount>>

countOf(severity) ==
  Cardinality({k \in DOMAIN analysis.diagnostics :
                 analysis.diagnostics[k].severity = severity})

EndOfAnalysis ==
  /\ stage = "analyze" /\ Analyzed
  /\ Proceed(countOf("Error"), "lower")
  /\ warningCount' = warningCount + countOf("Warning")
  /\ UNCHANGED <<parserVars, semaVars, loweringVars>>

Lower ==
  /\ stage = "lower" /\ LowerStatement
  /\ UNCHANGED <<source, stage, ok, errorCount, warningCount>>

Return ==
  /\ stage = "lower" /\ Lowered
  /\ stage' = "returned"
  /\ ok' = (lowering.errors = << >>)
  /\ errorCount' = errorCount + Len(lowering.errors)
  /\ UNCHANGED <<parserVars, semaVars, loweringVars, source, warningCount>>

Returned == stage = "returned" /\ UNCHANGED vars

Next ==
  \/ Tokenize \/ Parse \/ EndOfParse \/ Analyze \/ EndOfAnalysis \/ Lower \/ Return
  \/ Returned

Spec == Init /\ [][Next]_vars

-----------------------------------------------------------------------------
(* The parser.                                                             *)

(* A turn of the statement loop leaves fewer tokens to read, whatever the  *)
(* tokens are: the loop ends ("so the loop makes forward progress",        *)
(* Parser.cpp:127-130).                                                    *)
EveryTurnConsumes == [][Parse => pos' > pos]_vars

AfterParse == stage \in {"analyze", "lower", "returned"} /\ tokens # << >> /\ Parsed

WholeProgram == [k \in DOMAIN source.program |->
  parseStatement([tokens |-> Append(source.program[k], [type |-> "END_OF_FILE", text |-> "",
                                                         value |-> 0, at |-> 0]),
                  pos |-> 1, errors |-> << >>]).node]

IsTensorDecl(k) == source.program[k][1].type = "TENSOR"

(* One wrong token costs at most the statement it is in and the one after  *)
(* it, as long as no `tensor` declaration follows: startsStatement() leaves*)
(* `tensor` out, which Lexer.h:76 names, and recovery discards it.  A      *)
(* missing semicolon costs no statement and is one error.                  *)
RecoveryIsLocal ==
  (AfterParse /\ visited = 0) =>
    LET hit == source.edit.statement
        intact == {k \in DOMAIN source.program : k \notin {hit, hit + 1}}
        isKept(k) == \E i \in DOMAIN statements : statements[i] = WholeProgram[k]
    IN /\ (\A k \in intact : k > hit => ~IsTensorDecl(k)) => \A k \in intact : isKept(k)
       /\ source.edit.kind = "no semicolon" =>
            /\ Len(parseErrors) = 1
            /\ \A k \in DOMAIN source.program : isKept(k)

-----------------------------------------------------------------------------
(* The analysis.                                                           *)

RECURSIVE nodesOf(_)
nodesOf(e) ==
  {e} \cup (IF e.kind \in {"BinaryExpr", "CallExpr"}
            THEN UNION {nodesOf(e.args[i]) : i \in DOMAIN e.args} ELSE {})

Errors == {k \in DOMAIN analysis.diagnostics : analysis.diagnostics[k].severity = "Error"}
ErrorsWithin(nodes) == {k \in Errors : \E n \in nodes : n.at = analysis.diagnostics[k].at}

(* "The user sees one error per actual mistake, not one per level of       *)
(* nesting" (shape-rules.md:113): no node has two errors, a node with a    *)
(* wrong operand has none of its own, and a value that has an error is not *)
(* also said to have the wrong shape.                                      *)
OneErrorPerMistake ==
  \A i \in DOMAIN statements : statements[i].kind = "Assignment" =>
    LET nodes == nodesOf(statements[i].value) IN
    /\ \A n \in nodes : ErrorsWithin({n}) # {} =>
         /\ Cardinality(ErrorsWithin({n})) = 1
         /\ ErrorsWithin(nodesOf(n) \ {n}) = {}
    /\ ErrorsWithin(nodes) # {} =>
         ~ \E k \in Errors : /\ analysis.diagnostics[k].at = statements[i].at
                             /\ analysis.diagnostics[k].kind = "ShapeMismatchAssign"

-----------------------------------------------------------------------------
(* The lowering.                                                           *)

\* The function as the passes of TensorIR are given it.
IR == INSTANCE TensorIR WITH
  heap <- lowering.fn, ops <- [k \in DOMAIN lowering.fn |-> k],
  kTileDim <- 4, Kinds <- {}, LoadShapes <- {}, MaxOps <- 0, MaxPrints <- 0,
  Configs <- {}, ScratchpadTiles <- 0, config <- Null, cursor <- 0, uses <- << >>,
  live <- {}, consumers <- << >>, owner <- 0, cands <- {}, used <- 0, staged <- << >>,
  meaning <- << >>

(* What analysis accepts is lowered without an internal error, to ops of   *)
(* shapes that their operands' shapes permit, each after its operands, and *)
(* every name is read as an input at most once: what the optimiser takes a *)
(* function for ("IR generation does no shape re-checking",                *)
(* shape-rules.md:90-92).                                                  *)
CheckedProgramsLower ==
  /\ \A k \in DOMAIN lowering.errors :
       lowering.errors[k] = "scalar factor must be a constant"
  /\ \A p \in DOMAIN lowering.fn :
       LET op == lowering.fn[p]
           shape(i) == lowering.fn[op.operands[i]].shape
       IN /\ \A i \in DOMAIN op.operands : op.operands[i] \in 1 .. p - 1
          /\ CASE op.kind \in IR!LeafKinds -> isValid(op.shape)
               [] op.kind \in IR!UnaryKinds -> op.shape = IR!unaryShape(op.kind, shape(1))
               [] op.kind \in IR!BinaryKinds ->
                    op.shape \in IR!binaryShapes(op.kind, shape(1), shape(2))
               [] op.kind = "Print" -> op.shape = shape(1)
  /\ \A i, j \in DOMAIN lowering.inputs : lowering.inputs[i] = lowering.inputs[j] => i = j

\* What an op computes, as a term over inputs and constants.
Term(op, args, data) == <<op, args, data>>
Times(a, b) == Term("Scale", {a, b}, << >>)

Terms ==
  LET term[p \in DOMAIN lowering.fn] ==
        LET op == lowering.fn[p]
            args == [i \in DOMAIN op.operands |-> term[op.operands[i]]]
        IN CASE op.kind = "Const" -> Term("Const", op.shape, op.constData)
             [] op.kind = "Load" -> Term("Input", op.refName, << >>)
             [] op.kind = "ScalarMul" -> Times(Term("Const", Scalar, op.constData), args[1])
             [] op.kind = "Print" -> args[1]
             [] OTHER -> Term(op.kind, args, << >>)
  IN term

RECURSIVE eval(_, _)

\* What the language means by an expression, names having the values of env.
eval(env, e) ==
  CASE e.kind = "NumberExpr" -> Term("Const", Scalar, <<e.value>>)
    [] e.kind = "MatrixLiteralExpr" -> Term("Const", e.resultType, FlattenSeq(e.values))
    [] e.kind = "VariableExpr" ->
         IF e.name \in DOMAIN env THEN env[e.name] ELSE Term("Input", e.name, << >>)
    [] e.kind = "CallExpr" ->
         Term(OpOf(e.callee), [i \in DOMAIN e.args |-> eval(env, e.args[i])], << >>)
    [] e.kind = "BinaryExpr" ->
         LET l == eval(env, e.args[1])
             r == eval(env, e.args[2])
             scalar == \E i \in {1, 2} : e.args[i].resultType = Scalar
         IN IF e.op = "Mul" /\ scalar THEN Times(l, r)
            ELSE Term(IF e.op = "Mul" THEN "MatMul" ELSE e.op, <<l, r>>, << >>)

\* What a program prints, statement by statement.
PrintedBy(n) ==
  LET after[k \in 0 .. n] ==
        IF k = 0 THEN [env |-> << >>, shown |-> << >>]
        ELSE LET before == after[k - 1]
                 s == statements[k]
             IN CASE s.kind = "MatrixDecl" -> before
                  [] s.kind = "Assignment" ->
                       [before EXCEPT !.env = (s.target :> eval(before.env, s.value)) @@ @]
                  [] s.kind = "PrintStmt" ->
                       [before EXCEPT !.shown =
                          Append(@, <<s.name,
                                      IF s.name \in DOMAIN before.env THEN before.env[s.name]
                                      ELSE Term("Input", s.name, << >>)>>)]
  IN after[n].shown

(* An assignment gives a name a new value and changes no other: with names *)
(* rebound instead of matrices copied, the function prints what the        *)
(* statements lowered so far print.                                        *)
LoweringKeepsMeaning ==
  lowering.errors = << >> =>
    LET prints == SelectSeq([p \in DOMAIN lowering.fn |-> p],
                            LAMBDA p : lowering.fn[p].kind = "Print")
    IN [k \in DOMAIN prints |-> <<lowering.fn[prints[k]].refName, Terms[prints[k]]>>]
         = PrintedBy(lowered)
=============================================================================
