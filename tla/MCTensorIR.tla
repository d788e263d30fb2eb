----------------------------- MODULE MCTensorIR -----------------------------
(* Small instances of TensorIR: every program of a few ops over some kinds. *)
EXTENDS TensorIR

Shape(b, r, c) == [batch |-> b, rows |-> r, cols |-> c]
Passes(f, t)   == [fusion |-> f, tiling |-> t]

\* Fusion and elimination: shapes play no part, and scalars allow `*`.
OneShape       == {Shape(1, 1, 1)}
FusionKinds    == {"Const", "MatMul", "Add", "Relu", "ScalarMul"}
FusionConfigs  == {Passes(TRUE, FALSE), Passes(FALSE, TRUE)}

\* Tiling: ragged and broadcast shapes of up to two tiles a side.
TilingShapes   == {Shape(2, 8, 7), Shape(1, 8, 8)}
TilingKinds    == {"Load", "MatMul", "Add", "Relu", "Transpose", "Softmax", "Sub"}
TilingConfigs  == {Passes(TRUE, TRUE)}
=============================================================================
