-------------------------------- MODULE Parser --------------------------------
(***************************************************************************)
(* The recursive-descent parser: one operator per production of the        *)
(* grammar, each from a parser state p = [tokens, pos, errors] to the next *)
(* one and a node.  A token carries its type, its text, the number it      *)
(* spells and its place in the source; an error is the place of the token  *)
(* it was found at.                                                        *)
(***************************************************************************)
EXTENDS Integers, SequencesExt

VARIABLES
  tokens,       \* Parser::tokens_: what the lexer made of the source
  pos,          \* pos_, the current token, from 1
  statements,   \* Program::statements; analysis writes types into them
  parseErrors   \* Parser::errors_

parserVars == <<tokens, pos, statements, parseErrors>>

here(p)        == p.tokens[p.pos]
check(p, type) == here(p).type = type

advance(p) == IF check(p, "END_OF_FILE") THEN p ELSE [p EXCEPT !.pos = @ + 1]

recordError(p) == [p EXCEPT !.errors = Append(@, here(p).at)]

\* Mutant: the unexpected token is consumed as well.
ExpectConsumes(p, type) == IF check(p, type) THEN advance(p) ELSE advance(recordError(p))

\* The token expect() returns is the current one, expected or not.
expect(p, type) == IF check(p, type) THEN advance(p) ELSE recordError(p)

expectAll(p, types) == FoldLeft(expect, p, types)

isNumericToken(t) == t.type \in {"NUMBER", "INT"}

\* Token::startsStatement(): not `tensor`.
startsStatement(t) == t.type \in {"MATRIX", "PRINT", "IDENTIFIER"}

\* Mutant: the stream is left where the error was found.
SynchronizeStays(p) == p

\* Everything up to a token that starts a statement is discarded.
synchronize(p) ==
  [p EXCEPT !.pos = CHOOSE k \in p.pos .. Len(p.tokens) :
     /\ startsStatement(p.tokens[k]) \/ k = Len(p.tokens)
     /\ \A j \in p.pos .. k - 1 : ~startsStatement(p.tokens[j])]

-----------------------------------------------------------------------------
(* Expressions.                                                            *)

parsed(p, node) == [p |-> p, node |-> node]

Number(value, at) == [kind |-> "NumberExpr", value |-> value, at |-> at]

\* `op` is the current token after the left operand.
Binary(op, left, right) ==
  parsed(right.p, [kind |-> "BinaryExpr", op |-> op, args |-> <<left.node, right.node>>,
                   at |-> here(left.p).at])

RECURSIVE parseExpression(_), moreTerms(_), moreFactors(_), parseElements(_, _), parseRows(_, _)

parseElements(p, values) ==
  LET negative == check(p, "MINUS")
      q == IF negative THEN advance(p) ELSE p
      longer == Append(values, IF negative THEN -here(q).value ELSE here(q).value)
      next == advance(q)
  IN IF ~isNumericToken(here(q)) THEN parsed(recordError(q), values)
     ELSE IF check(next, "COMMA") THEN parseElements(advance(next), longer)
     ELSE parsed(next, longer)

closed(inner, type) == parsed(expect(inner.p, type), inner.node)

\* Brackets around what `items` reads, which an empty pair leaves out.
bracketed(p, items(_, _)) ==
  LET start == expect(p, "LBRACKET") IN
    closed(IF check(start, "RBRACKET") THEN parsed(start, << >>) ELSE items(start, << >>),
           "RBRACKET")

parseRow(p) == bracketed(p, parseElements)

moreRows(rows, row) ==
  IF check(row.p, "COMMA") THEN parseRows(advance(row.p), Append(rows, row.node))
  ELSE parsed(row.p, Append(rows, row.node))

parseRows(p, rows) == moreRows(rows, parseRow(p))

Literal(rows, at) ==
  parsed(rows.p, [kind |-> "MatrixLiteralExpr", values |-> rows.node, at |-> at])

parseMatrixLiteral(p) == Literal(bracketed(p, parseRows), here(p).at)

Builtins == {"MATMUL", "TRANSPOSE", "RELU", "SOFTMAX"}

parseFunctionCall(p) ==
  LET first == parseExpression(expect(advance(p), "LPAREN"))
      second == parseExpression(expect(first.p, "COMMA"))
      call(last, args) ==
        parsed(expect(last.p, "RPAREN"),
               [kind |-> "CallExpr", callee |-> here(p).type, args |-> args,
                at |-> here(p).at])
  IN IF check(p, "MATMUL") THEN call(second, <<first.node, second.node>>)
     ELSE call(first, <<first.node>>)

\* On an error a placeholder is returned, and no token is consumed.
parseFactor(p) ==
  LET tok == here(p) IN
  CASE check(p, "IDENTIFIER") ->
         parsed(advance(p), [kind |-> "VariableExpr", name |-> tok.text, at |-> tok.at])
    [] isNumericToken(tok) -> parsed(advance(p), Number(tok.value, tok.at))
    [] tok.type \in Builtins -> parseFunctionCall(p)
    [] check(p, "LBRACKET") -> parseMatrixLiteral(p)
    [] check(p, "LPAREN") ->
         closed(parseExpression(advance(p)), "RPAREN")
    [] OTHER -> parsed(recordError(p), Number(0, tok.at))

moreFactors(left) ==
  IF ~check(left.p, "STAR") THEN left
  ELSE moreFactors(Binary("Mul", left, parseFactor(advance(left.p))))

parseTerm(p) == moreFactors(parseFactor(p))

moreTerms(left) ==
  IF ~check(left.p, "PLUS") /\ ~check(left.p, "MINUS") THEN left
  ELSE moreTerms(Binary(IF check(left.p, "PLUS") THEN "Add" ELSE "Sub", left,
                        parseTerm(advance(left.p))))

parseExpression(p) == moreTerms(parseTerm(p))

-----------------------------------------------------------------------------
(* Statements.                                                             *)

\* matrix A[r][c]; tensor A[r][c]; or tensor A[b][r][c];
parseMatrixDecl(p) ==
  LET name  == advance(p)
      dim1  == expectAll(name, <<"IDENTIFIER", "LBRACKET">>)
      dim2  == expectAll(dim1, <<"INT", "RBRACKET", "LBRACKET">>)
      two   == expectAll(dim2, <<"INT", "RBRACKET">>)
      dim3  == advance(two)
      three == check(p, "TENSOR") /\ check(two, "LBRACKET")
      end   == IF three THEN expectAll(dim3, <<"INT", "RBRACKET">>) ELSE two
      dims  == IF three THEN <<here(dim1).value, here(dim2).value, here(dim3).value>>
               ELSE <<1, here(dim1).value, here(dim2).value>>
  IN parsed(expect(end, "SEMICOLON"),
            [kind |-> "MatrixDecl", name |-> here(name).text, batch |-> dims[1],
             rows |-> dims[2], cols |-> dims[3], at |-> here(p).at])

Assigned(target, value) ==
  parsed(expect(value.p, "SEMICOLON"),
         [kind |-> "Assignment", target |-> target.text, value |-> value.node,
          at |-> target.at])

parseAssignment(p) ==
  Assigned(here(p), parseExpression(expectAll(p, <<"IDENTIFIER", "ASSIGN">>)))

parsePrintStmt(p) ==
  LET name == expectAll(p, <<"PRINT", "LPAREN">>)
  IN parsed(expectAll(name, <<"IDENTIFIER", "RPAREN", "SEMICOLON">>),
            [kind |-> "PrintStmt", name |-> here(name).text, at |-> here(p).at])

NoStatement == [kind |-> "nullptr"]

parseStatement(p) ==
  CASE here(p).type \in {"MATRIX", "TENSOR"} -> parseMatrixDecl(p)
    [] check(p, "PRINT") -> parsePrintStmt(p)
    [] check(p, "IDENTIFIER") -> parseAssignment(p)
    [] OTHER -> parsed(recordError(p), NoStatement)

ParserInit == pos = 1 /\ statements = << >> /\ parseErrors = << >>

current == [tokens |-> tokens, pos |-> pos, errors |-> parseErrors]

\* One turn of parseProgram's loop.
ParseStatement ==
  /\ ~check(current, "END_OF_FILE")
  /\ \E s \in {parseStatement(current)} :
       LET bad == s.node = NoStatement
           q == IF bad THEN synchronize(s.p) ELSE s.p
       IN /\ pos' = q.pos /\ parseErrors' = q.errors
          /\ statements' = IF bad THEN statements ELSE Append(statements, s.node)
  /\ UNCHANGED tokens

Parsed == check(current, "END_OF_FILE")
=============================================================================
