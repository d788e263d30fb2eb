------------------------------ MODULE MatrixType ------------------------------
(***************************************************************************)
(* The type of an expression is its shape.  A rule returns the shape of    *)
(* the result, or Unresolved when the operation is not permitted.          *)
(***************************************************************************)
EXTENDS Integers

CONSTANTS
  kMaxDimension,   \* of rows and columns
  kMaxBatch

ASSUME LimitsAssumption == kMaxDimension \in Nat \ {0} /\ kMaxBatch \in Nat \ {0}

Type(batch, rows, cols) == [batch |-> batch, rows |-> rows, cols |-> cols]

Unresolved == Type(0, 0, 0)
Scalar     == Type(1, 1, 1)

isValid(t) == t.batch > 0 /\ t.rows > 0 /\ t.cols > 0

isValidDimension(dim) == dim \in 1 .. kMaxDimension
isValidBatch(batch)   == batch \in 1 .. kMaxBatch

isBatchCompatible(a, b) == a = b \/ a = 1 \/ b = 1
resolveBatch(a, b) == IF a = 1 THEN b ELSE a

permitted(lhs, rhs, rule, result) ==
  IF isValid(lhs) /\ isValid(rhs) /\ rule THEN result ELSE Unresolved

\* Mutant: an operand of batch 1 is not broadcast.
AdditionTakesLeftBatch(lhs, rhs) ==
  permitted(lhs, rhs,
            isBatchCompatible(lhs.batch, rhs.batch) /\ lhs.rows = rhs.rows /\ lhs.cols = rhs.cols,
            lhs)

checkAddition(lhs, rhs) ==
  permitted(lhs, rhs,
            isBatchCompatible(lhs.batch, rhs.batch) /\ lhs.rows = rhs.rows /\ lhs.cols = rhs.cols,
            Type(resolveBatch(lhs.batch, rhs.batch), lhs.rows, lhs.cols))

checkMatMul(lhs, rhs) ==
  permitted(lhs, rhs, isBatchCompatible(lhs.batch, rhs.batch) /\ lhs.cols = rhs.rows,
            Type(resolveBatch(lhs.batch, rhs.batch), lhs.rows, rhs.cols))

checkScalarMul(lhs, rhs) ==
  permitted(lhs, rhs, lhs = Scalar \/ rhs = Scalar, IF lhs = Scalar THEN rhs ELSE lhs)

checkTranspose(t) ==
  IF isValid(t) THEN Type(t.batch, t.cols, t.rows) ELSE Unresolved

\* checkRelu and checkSoftmax.
checkElementwise(t) == IF isValid(t) THEN t ELSE Unresolved
=============================================================================
