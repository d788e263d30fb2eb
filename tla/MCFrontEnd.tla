------------------------------ MODULE MCFrontEnd ------------------------------
(***************************************************************************)
(* Sources for FrontEnd: small programs with one token dropped, doubled,   *)
(* replaced or put in, which the parser has to recover from, and programs  *)
(* of three or four statements put together from a pool, right and wrong,  *)
(* for the analysis and the lowering.                                      *)
(***************************************************************************)
EXTENDS FrontEnd

T(type)        == [type |-> type, text |-> type, value |-> 0]
Name(text)     == [type |-> "IDENTIFIER", text |-> text, value |-> 0]
Digits(text, n) == [type |-> "INT", text |-> text, value |-> n]

one   == Digits("1", 1)
two   == Digits("2", 2)
three == Digits("3", 3)
zero  == Digits("0", 0)
huge  == Digits("300", 300)
A == Name("A")
B == Name("B")
C == Name("C")
X == Name("X")

dims(ns) == FlattenSeq([i \in DOMAIN ns |-> <<T("LBRACKET"), ns[i], T("RBRACKET")>>])
matrix(name, r, c)     == <<T("MATRIX"), name>> \o dims(<<r, c>>) \o <<T("SEMICOLON")>>
tensor(name, ds)       == <<T("TENSOR"), name>> \o dims(ds) \o <<T("SEMICOLON")>>
let(name, value)       == <<name, T("ASSIGN")>> \o value \o <<T("SEMICOLON")>>
print(name)            == <<T("PRINT"), T("LPAREN"), name, T("RPAREN"), T("SEMICOLON")>>
infix(l, op, r)        == l \o <<T(op)>> \o r
parens(e)              == <<T("LPAREN")>> \o e \o <<T("RPAREN")>>
call(f, e)             == <<T(f), T("LPAREN")>> \o e \o <<T("RPAREN")>>
matmul(l, r)           == call("MATMUL", l \o <<T("COMMA")>> \o r)
row(elements)          == <<T("LBRACKET")>> \o elements \o <<T("RBRACKET")>>
v(name)                == <<name>>

-----------------------------------------------------------------------------
EditedPrograms ==
  {<<matrix(A, two, three), let(A, infix(v(B), "PLUS", infix(v(two), "STAR", v(C)))),
     print(A), let(B, matmul(v(A), call("RELU", v(C)))), print(B)>>,
   <<let(A, row(row(<<one, T("COMMA"), T("MINUS"), two>>) \o <<T("COMMA")>>
                \o row(<<two, T("COMMA"), one>>))),
     let(C, infix(parens(infix(v(A), "MINUS", v(B))), "STAR", v(A))),
     matrix(B, one, one), print(C)>>,
   <<tensor(X, <<two, one, three>>), let(A, call("SOFTMAX", v(X))), print(A),
     tensor(B, <<one, one>>), print(X)>>}

Strays ==
  {T("RPAREN"), T("LBRACKET"), T("SEMICOLON"), T("STAR"), T("ASSIGN"), T("PRINT"),
   T("RBRACKET"), T("MATRIX"), T("MATMUL"), T("INVALID"), X, one}

at(token, place) == token @@ [at |-> place]

\* The j-th token of the k-th statement is at 100 * k + 2 * j.
Placed(program) ==
  [k \in DOMAIN program |-> [j \in DOMAIN program[k] |-> at(program[k][j], 100 * k + 2 * j)]]

EndOfFile == at(T("END_OF_FILE"), 10000)

Source(program, k, kind, statement) ==
  LET placed == Placed(program) IN
  [program |-> placed, edit |-> [statement |-> k, kind |-> kind],
   tokens |-> Append(FlattenSeq([placed EXCEPT ![k] = statement]), EndOfFile)]

Edits(program) ==
  UNION {LET s == Placed(program)[k] IN
           {Source(program, k, IF s[j].type = "SEMICOLON" THEN "no semicolon" ELSE "drop",
                   RemoveAt(s, j))}
           \cup {Source(program, k, "put in", InsertAt(s, j, at(t, 100 * k + 2 * j - 1))) :
                   t \in Strays}
           \cup {Source(program, k, "replace", [s EXCEPT ![j] = at(t, 100 * k + 2 * j)]) :
                   t \in Strays}
         : <<k, j>> \in {<<k, j>> \in (1 .. 5) \X (1 .. 20) :
                           k \in DOMAIN program /\ j \in DOMAIN program[k]}}

-----------------------------------------------------------------------------
Whole(program) ==
  LET placed == Placed(program) IN
  [program |-> placed, edit |-> [statement |-> -1, kind |-> "none"],
   tokens |-> Append(FlattenSeq(placed), EndOfFile)]

Declarations ==
  {<<matrix(A, two, two), tensor(B, <<two, two, two>>), matrix(C, one, one)>>,
   <<matrix(A, two, three), matrix(B, three, two), matrix(C, two, two)>>,
   <<matrix(A, huge, two), matrix(B, two, two), matrix(B, two, three)>>}

literal == row(row(<<one, T("COMMA"), two>>) \o <<T("COMMA")>> \o row(<<three, T("COMMA"), zero>>))
ragged  == row(row(<<one, T("COMMA"), two>>) \o <<T("COMMA")>> \o row(<<three>>))

Values ==
  {literal, ragged, row(<< >>), row(row(<<two>>)), v(X),
   infix(v(A), "PLUS", v(B)), infix(v(B), "MINUS", v(A)), infix(v(A), "STAR", v(B)),
   infix(v(two), "STAR", v(A)), infix(v(B), "STAR", v(C)), infix(v(two), "STAR", v(two)),
   matmul(v(B), v(A)), call("TRANSPOSE", v(A)), call("SOFTMAX", v(B)),
   infix(infix(v(X), "PLUS", v(A)), "PLUS", v(X)),
   infix(matmul(v(A), v(A)), "PLUS", matmul(v(B), v(B))),
   call("RELU", parens(infix(v(A), "PLUS", infix(v(B), "STAR", v(A)))))}

First  == {let(n, e) : n \in {A, B, C}, e \in Values} \cup {print(A)}
Second == {let(A, v(B)), let(B, infix(v(A), "PLUS", v(A))), let(C, v(three)),
           let(A, infix(v(C), "STAR", v(A))), print(X)}

Programs ==
  {Whole(d \o <<s, t, print(A), print(B)>>) : d \in Declarations, s \in First, t \in Second}

MCSources == Programs \cup UNION {Edits(p) : p \in EditedPrograms}
=============================================================================
