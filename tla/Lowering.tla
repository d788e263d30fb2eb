------------------------------- MODULE Lowering -------------------------------
(***************************************************************************)
(* lowerToTensorIR(): a checked program becomes a list of ops, each naming *)
(* its operands by their place in the list.  A step takes a lowering       *)
(* state lo = [fn, env, declared, inputs, errors] to the next one and the  *)
(* op it made; Null is a null pointer.                                     *)
(***************************************************************************)
EXTENDS SemanticAnalyzer

VARIABLES
  lowering,   \* the Lowerer, its function and its result
  lowered     \* the statements lowered so far

loweringVars == <<lowering, lowered>>

Null == 0

fail(lo, message) == [lo EXCEPT !.errors = Append(@, message)]

made(lo, op) == [lo |-> lo, op |-> op]

\* addOp(): `data` is the op's constData, `name` its refName.
addOp(lo, kind, shape, operands, data, name) ==
  made([lo EXCEPT !.fn = Append(@, [kind |-> kind, shape |-> shape, operands |-> operands,
                                    constData |-> data, refName |-> name])],
       Len(lo.fn) + 1)

bind(lo, name, op) == [lo EXCEPT !.env = (name :> op) @@ @]

\* The first read of a name that has no value makes it an input.
valueOf(lo, name) ==
  IF name \in DOMAIN lo.env THEN made(lo, lo.env[name])
  ELSE IF name \notin DOMAIN lo.declared THEN made(fail(lo, "internal: undeclared"), Null)
  ELSE LET load == addOp(lo, "Load", lo.declared[name], << >>, << >>, name)
       IN made([bind(load.lo, name, load.op) EXCEPT !.inputs = Append(@, name)], load.op)

constantScalar(lo, op) == lo.fn[op].kind = "Const" /\ Len(lo.fn[op].constData) = 1

RECURSIVE lowerExpr(_, _)

\* A factor must be a constant: the left one is taken when both are.
lowerProduct(lo, e, lhs, rhs) ==
  LET isScalar(i) == e.args[i].resultType = Scalar
      scale(factor, matrix) ==
        addOp(lo, "ScalarMul", e.resultType, <<matrix>>, lo.fn[factor].constData, "")
  IN IF ~isScalar(1) /\ ~isScalar(2)
     THEN addOp(lo, "MatMul", e.resultType, <<lhs, rhs>>, << >>, "")
     ELSE IF isScalar(1) /\ constantScalar(lo, lhs) THEN scale(lhs, rhs)
     ELSE IF isScalar(2) /\ constantScalar(lo, rhs) THEN scale(rhs, lhs)
     ELSE made(fail(lo, "scalar factor must be a constant"), Null)

lowerBinary(lo, e) ==
  LET l == lowerExpr(lo, e.args[1])
      r == lowerExpr(l.lo, e.args[2])
  IN IF l.op = Null \/ r.op = Null THEN made(r.lo, Null)
     ELSE IF e.op = "Mul" THEN lowerProduct(r.lo, e, l.op, r.op)
     ELSE addOp(r.lo, e.op, e.resultType, <<l.op, r.op>>, << >>, "")

OpOf(callee) ==
  CASE callee = "MATMUL" -> "MatMul"
    [] callee = "TRANSPOSE" -> "Transpose"
    [] callee = "RELU" -> "Relu"
    [] callee = "SOFTMAX" -> "Softmax"

\* The first argument without a value ends the call.
lowerCall(lo, e) ==
  LET first == lowerExpr(lo, e.args[1])
      second == lowerExpr(first.lo, e.args[2])
      call(last, args) ==
        IF last.op = Null THEN last
        ELSE addOp(last.lo, OpOf(e.callee), e.resultType, args, << >>, "")
  IN IF first.op = Null THEN first
     ELSE IF Len(e.args) = 1 THEN call(first, <<first.op>>)
     ELSE call(second, <<first.op, second.op>>)

lowerExpr(lo, e) ==
  IF ~isValid(e.resultType) THEN made(fail(lo, "internal: no resolved type"), Null)
  ELSE CASE e.kind = "NumberExpr" ->
              addOp(lo, "Const", e.resultType, << >>, <<e.value>>, "")
         [] e.kind = "MatrixLiteralExpr" ->
              addOp(lo, "Const", e.resultType, << >>, FlattenSeq(e.values), "")
         [] e.kind = "VariableExpr" -> valueOf(lo, e.name)
         [] e.kind = "BinaryExpr" -> lowerBinary(lo, e)
         [] e.kind = "CallExpr" -> lowerCall(lo, e)

\* Mutant: env_.emplace(), which keeps the value a name already has.
LowerKeepsBinding(lo, s) ==
  LET value == lowerExpr(lo, s.value) IN
    IF value.op = Null \/ s.target \in DOMAIN value.lo.env THEN value.lo
    ELSE bind(value.lo, s.target, value.op)

\* The name stands for the new value from here on; nothing is copied.
lowerAssignment(lo, s) ==
  LET value == lowerExpr(lo, s.value) IN
    IF value.op = Null THEN value.lo ELSE bind(value.lo, s.target, value.op)

lowerPrint(lo, s) ==
  LET value == valueOf(lo, s.name) IN
    IF value.op = Null THEN value.lo
    ELSE addOp(value.lo, "Print", value.lo.fn[value.op].shape, <<value.op>>, << >>, s.name).lo

lowerStmt(lo, s) ==
  CASE s.kind = "MatrixDecl" ->
         [lo EXCEPT !.declared = (s.name :> Type(s.batch, s.rows, s.cols)) @@ @]
    [] s.kind = "Assignment" -> lowerAssignment(lo, s)
    [] s.kind = "PrintStmt" -> lowerPrint(lo, s)

LoweringInit ==
  /\ lowering = [fn |-> << >>, env |-> << >>, declared |-> << >>, inputs |-> << >>,
                 errors |-> << >>]
  /\ lowered = 0

LowerStatement ==
  /\ lowered < Len(statements)
  /\ lowering' = lowerStmt(lowering, statements[lowered + 1])
  /\ lowered' = lowered + 1
  /\ UNCHANGED <<parserVars, semaVars>>

Lowered == lowered = Len(statements)
=============================================================================
