----------------------------- MODULE MCPipeline -----------------------------
(* Small instances of Pipeline: 2x2 tiles, and programs of four ops whose  *)
(* shapes are ragged, broadcast over a batch, or larger than one tile.     *)
EXTENDS Pipeline

S(b, r, c) == [batch |-> b, rows |-> r, cols |-> c]
Op(kind, shape, operands) == [kind |-> kind, shape |-> shape, operands |-> operands]
Unary(kind, prog, p) ==
  Op(kind, unaryShape(kind, prog[p].shape), <<p>>)

MCLeafWord(p, k) == ((k * 2 + p) % 4) - 1
MCFactor(p) == IF p % 2 = 0 THEN 2 ELSE -1

\* Every way to go on by one op that reads the last value.
MoreUnary(prog, kinds) == {Append(prog, Unary(kind, prog, Len(prog))) : kind \in kinds}
MoreBinary(prog, kinds) ==
  UNION {{Append(prog, Op(kind, shape, <<pq[1], pq[2]>>)) :
            shape \in binaryShapes(kind, prog[pq[1]].shape, prog[pq[2]].shape)} :
         kind \in kinds, pq \in {x \in (1 .. Len(prog)) \X (1 .. Len(prog)) :
                                   Len(prog) \in {x[1], x[2]}}}

More(progs, unary, binary) ==
  UNION {MoreUnary(prog, unary) \cup MoreBinary(prog, binary) : prog \in progs}

Leaves == {<<Op("Load", S(1, 3, 2), << >>), Op("Const", S(1, 2, 3), << >>)>>,
           <<Op("Load", S(2, 1, 3), << >>), Op("Load", S(1, 3, 3), << >>)>>}

\* The last value is printed, and one before it.
Printed(prog) ==
  prog \o <<Op("Print", prog[Len(prog)].shape, <<Len(prog)>>),
            Op("Print", prog[Len(prog) - 1].shape, <<Len(prog) - 1>>)>>

\* A product, accumulated and clamped: what fusion is for.
Wide == <<Op("Load", S(1, 3, 3), << >>), Op("Load", S(2, 3, 3), << >>),
          Op("MatMul", S(2, 3, 3), <<1, 2>>)>>
Chains ==
  {Wide \o <<Op("Add", S(2, 3, 3), <<3, q>>), Op("Relu", S(2, 3, 3), <<4>>),
             Op("Print", S(2, 3, 3), <<5>>)>> : q \in 1 .. 3}
  \cup {Wide \o <<Op("Relu", S(2, 3, 3), <<3>>), Op("Print", S(2, 3, 3), <<4>>)>>}

TwoOps ==
  More(More(Leaves, {"Transpose", "ScalarMul"}, {"MatMul"}),
       {"Relu", "Transpose", "Softmax"}, {"MatMul", "Add", "Sub"})

MCPrograms == {Printed(prog) : prog \in TwoOps} \cup Chains

MCConfigs == {[fusion |-> on, tiling |-> on] : on \in BOOLEAN}
MCNone == {}
MCWild == {0}
=============================================================================
