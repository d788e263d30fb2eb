--------------------------- MODULE SemanticAnalyzer ---------------------------
(***************************************************************************)
(* The semantic analyzer and its symbol table: a visit takes what analysis *)
(* has collected, a = [symbols, declarationOrder, diagnostics], and a node *)
(* to the next such record and the node with its resultType.  The table    *)
(* keeps a stack of scopes, of which the analyzer only ever has the first. *)
(***************************************************************************)
EXTENDS Parser, MatrixType

VARIABLES
  analysis,   \* symbols_ and diagnostics_
  visited     \* the statements the visit of the program is past

semaVars == <<analysis, visited>>

-----------------------------------------------------------------------------
(* SymbolTable.                                                            *)

isDeclared(a, name) == name \in DOMAIN a.symbols

declare(a, name, type, at) ==
  [a EXCEPT !.symbols = @ @@ (name :> [type |-> type, declaredAt |-> at,
                                       everAssigned |-> FALSE, everRead |-> FALSE]),
            !.declarationOrder = Append(@, name)]

markAssigned(a, name) == [a EXCEPT !.symbols[name].everAssigned = TRUE]
markRead(a, name)     == [a EXCEPT !.symbols[name].everRead = TRUE]

unusedSymbols(a) ==
  SelectSeq(a.declarationOrder, LAMBDA name : ~a.symbols[name].everRead)

-----------------------------------------------------------------------------
(* Expressions.                                                            *)

error(a, kind, at) ==
  [a EXCEPT !.diagnostics = Append(@, [severity |-> "Error", kind |-> kind, at |-> at])]

errorUnless(a, condition, kind, at) == IF condition THEN a ELSE error(a, kind, at)

visit(a, node)          == [a |-> a, node |-> node]
resolved(a, node, type) == visit(a, node @@ [resultType |-> type])

visitVariable(a, e) ==
  IF isDeclared(a, e.name)
  THEN resolved(markRead(a, e.name), e, a.symbols[e.name].type)
  ELSE resolved(error(a, "UndeclaredIdentifier", e.at), e, Unresolved)

isRectangular(e) == \A i \in DOMAIN e.values : Len(e.values[i]) = Len(e.values[1])
colCount(e)      == IF e.values = << >> THEN 0 ELSE Len(e.values[1])

visitLiteral(a, e) ==
  LET inRange == isValidDimension(Len(e.values)) /\ isValidDimension(colCount(e)) IN
  IF ~isRectangular(e) THEN resolved(error(a, "RaggedMatrixLiteral", e.at), e, Unresolved)
  ELSE resolved(errorUnless(a, inRange, "DimensionOutOfRange", e.at), e,
                IF inRange THEN Type(1, Len(e.values), colCount(e)) ELSE Unresolved)

\* Mutant: a mismatch is reported whatever is known of the operands.
CascadingError(a, e, type, lhs, rhs) ==
  errorUnless(a, isValid(type),
              IF e.kind = "BinaryExpr" /\ e.op # "Mul" THEN "ShapeMismatchAdd"
              ELSE "ShapeMismatchMatMul", e.at)

\* A mismatch is an error when both operands have a shape.
mismatch(a, e, type, lhs, rhs) ==
  errorUnless(a, isValid(type) \/ ~isValid(lhs) \/ ~isValid(rhs),
              IF e.kind = "BinaryExpr" /\ e.op # "Mul" THEN "ShapeMismatchAdd"
              ELSE "ShapeMismatchMatMul", e.at)

\* `*` is a scalar product if either operand is a scalar, else a matmul.
binaryType(op, lhs, rhs) ==
  IF op \in {"Add", "Sub"} THEN checkAddition(lhs, rhs)
  ELSE IF isValid(checkScalarMul(lhs, rhs)) THEN checkScalarMul(lhs, rhs)
  ELSE checkMatMul(lhs, rhs)

RECURSIVE visitExpr(_, _)

visitPair(a, e, type(_, _)) ==
  LET l == visitExpr(a, e.args[1])
      r == visitExpr(l.a, e.args[2])
      lhs == l.node.resultType
      rhs == r.node.resultType
  IN resolved(mismatch(r.a, e, type(lhs, rhs), lhs, rhs),
              [e EXCEPT !.args = <<l.node, r.node>>], type(lhs, rhs))

visitCall(a, e) ==
  LET arg == visitExpr(a, e.args[1])
      t == arg.node.resultType
  IN resolved(arg.a, [e EXCEPT !.args = <<arg.node>>],
              IF e.callee = "TRANSPOSE" THEN checkTranspose(t) ELSE checkElementwise(t))

visitExpr(a, e) ==
  CASE e.kind = "NumberExpr" -> resolved(a, e, Scalar)
    [] e.kind = "VariableExpr" -> visitVariable(a, e)
    [] e.kind = "MatrixLiteralExpr" -> visitLiteral(a, e)
    [] e.kind = "BinaryExpr" -> visitPair(a, e, LAMBDA s, t : binaryType(e.op, s, t))
    [] e.kind = "CallExpr" ->
         IF e.callee = "MATMUL" THEN visitPair(a, e, checkMatMul) ELSE visitCall(a, e)

-----------------------------------------------------------------------------
(* Statements.                                                             *)

\* A declaration out of range leaves its name undeclared.
visitDecl(a, s) ==
  LET inRange == /\ isValidDimension(s.rows) /\ isValidDimension(s.cols)
                 /\ isValidBatch(s.batch)
  IN visit(IF ~inRange THEN error(a, "DimensionOutOfRange", s.at)
           ELSE IF isDeclared(a, s.name) THEN error(a, "Redeclaration", s.at)
           ELSE declare(a, s.name, Type(s.batch, s.rows, s.cols), s.at), s)

visitAssignment(a, s) ==
  LET v == visitExpr(a, s.value)
      type == v.node.resultType
  IN visit(IF ~isDeclared(a, s.target) THEN error(v.a, "UndeclaredIdentifier", s.at)
           ELSE errorUnless(markAssigned(v.a, s.target),
                            ~isValid(type) \/ type = a.symbols[s.target].type,
                            "ShapeMismatchAssign", s.at),
           [s EXCEPT !.value = v.node])

visitPrint(a, s) ==
  visit(IF isDeclared(a, s.name) THEN markRead(a, s.name)
        ELSE error(a, "UndeclaredIdentifier", s.at), s)

visitStmt(a, s) ==
  CASE s.kind = "MatrixDecl" -> visitDecl(a, s)
    [] s.kind = "Assignment" -> visitAssignment(a, s)
    [] s.kind = "PrintStmt" -> visitPrint(a, s)

hasErrors(a) == \E k \in DOMAIN a.diagnostics : a.diagnostics[k].severity = "Error"

SemaInit ==
  /\ analysis = [symbols |-> << >>, declarationOrder |-> << >>, diagnostics |-> << >>]
  /\ visited = 0

\* visit(Program): the statements in order,
AnalyzeStatement ==
  /\ visited < Len(statements)
  /\ LET v == visitStmt(analysis, statements[visited + 1]) IN
       /\ analysis' = v.a
       /\ statements' = [statements EXCEPT ![visited + 1] = v.node]
  /\ visited' = visited + 1
  /\ UNCHANGED <<tokens, pos, parseErrors>>

\* then a warning for every symbol that was never read.
WarnUnused ==
  /\ visited = Len(statements)
  /\ LET unused == unusedSymbols(analysis)
         warning(name) == [severity |-> "Warning", kind |-> "UnusedVariable",
                           at |-> analysis.symbols[name].declaredAt]
     IN analysis' = [analysis EXCEPT !.diagnostics =
                       @ \o [k \in DOMAIN unused |-> warning(unused[k])]]
  /\ visited' = visited + 1
  /\ UNCHANGED parserVars

Analyzed == visited = Len(statements) + 1
=============================================================================
