------------------------------- MODULE Mtxserve -------------------------------
(***************************************************************************)
(* The backend of the Lab: one connection at a time is accepted, its       *)
(* request read to the end, answered and closed.  Connections, and what    *)
(* the kernel does with them, are external; a request is counted in parts, *)
(* the pieces its bytes may arrive in.                                     *)
(***************************************************************************)
EXTENDS Integers, SequencesExt

CONSTANTS
  Conns,       \* sockets of the clients; one is used again once it is closed
  Backlog,     \* the connections that may wait to be accepted: listen()'s 16
  MaxParts,    \* 1 MiB
  MaxStops,    \* how often the backend may be stopped (bounds TLC)
  Compiles,    \* the sources that compile
  Runs         \* those of them that run in some configuration

None == "none"

\* The connection was closed without an answer.
NoAnswer == [code |-> 0]

VARIABLES
  conn,      \* the connections, by socket
  backlog,   \* those not accepted yet, in order
  client,    \* the one that handle() has, or None
  step,      \* where main() is: "accept", or in handle() "header" or "body"
  stops      \* the times it was stopped; "down" is a step of its own

serverVars == <<conn, backlog, client, step, stops>>

\* header and declared: the parts of the header, and of the body according
\* to Content-Length; a client sends `parts` in all.
Request(target, source, header, declared) ==
  [target |-> target, source |-> source, header |-> header, declared |-> declared]

Unused ==
  [state |-> "unused", request |-> None, sent |-> 0, read |-> 0, hungUp |-> FALSE,
   answer |-> NoAnswer]

ServerInit ==
  /\ conn = [c \in Conns |-> Unused]
  /\ backlog = << >> /\ client = None /\ step = "accept" /\ stops = 0

-----------------------------------------------------------------------------
(* The clients' side.                                                      *)

Closed(answer) == [Unused EXCEPT !.state = "closed", !.answer = answer]

\* The effect of connecting socket c to send a request.
Connect(c, request) ==
  IF step # "down" /\ Len(backlog) < Backlog
  THEN /\ conn' = [conn EXCEPT ![c] = [Unused EXCEPT !.state = "open", !.request = request]]
       /\ backlog' = Append(backlog, c)
  ELSE /\ conn' = [conn EXCEPT ![c] = Closed(NoAnswer)]
       /\ UNCHANGED backlog

partsOf(request) == request.header + request.declared

Send(c) ==
  /\ conn[c].state = "open" /\ ~conn[c].hungUp
  /\ conn[c].sent < partsOf(conn[c].request)
  /\ conn' = [conn EXCEPT ![c].sent = @ + 1]
  /\ UNCHANGED <<backlog, client, step, stops>>

\* The client closes its side, whatever it still had to send.
HangUp(c) ==
  /\ conn[c].state = "open" /\ ~conn[c].hungUp
  /\ conn' = [conn EXCEPT ![c].hungUp = TRUE]
  /\ UNCHANGED <<backlog, client, step, stops>>

-----------------------------------------------------------------------------
(* main() and handle().                                                    *)

Accept ==
  /\ step = "accept" /\ backlog # << >>
  /\ client' = Head(backlog) /\ backlog' = Tail(backlog)
  /\ step' = "header"
  /\ UNCHANGED <<conn, stops>>

request == conn[client].request

\* recv() returns n parts of those that have come, 0 at the end of the
\* stream, and waits when there is neither.
received(n) ==
  IF conn[client].sent > conn[client].read THEN n \in 1 .. conn[client].sent - conn[client].read
  ELSE conn[client].hungUp /\ n = 0

\* Mutant: only a negative result ends the loop.
ReceivedOnlyData(n) ==
  conn[client].sent > conn[client].read /\ n \in 1 .. conn[client].sent - conn[client].read

recv(n) == received(n)

\* handle() returns: the connection is closed, with what was answered.
Close(answer) ==
  /\ conn' = [conn EXCEPT ![client] = Closed(answer)]
  /\ client' = None /\ step' = "accept"
  /\ UNCHANGED <<backlog, stops>>

Continue(read, next) ==
  /\ conn' = [conn EXCEPT ![client].read = read]
  /\ step' = next
  /\ UNCHANGED <<backlog, client, stops>>

ReceiveHeader ==
  /\ step = "header"
  /\ \E n \in 0 .. MaxParts + 1 :
       LET read == conn[client].read + n IN
       /\ recv(n)
       /\ IF n = 0 \/ read > MaxParts THEN Close(NoAnswer)
          ELSE IF read < request.header THEN Continue(read, "header")
          ELSE IF request.declared > MaxParts THEN Close([code |-> 413])
          ELSE Continue(read, "body")

\* What a body of so many parts is: the source it holds, or a piece of it.
bodyOf(read) ==
  IF read >= partsOf(request) THEN request.source ELSE "truncated"

\* runProgram(): `ok` when some configuration ran.
runProgram(source) == [code |-> 200, source |-> source, ok |-> source \in Runs]

answerTo(read) ==
  CASE request.target = "options" -> [code |-> 204]
    [] request.target = "run" -> runProgram(bodyOf(read))
    [] request.target \in {"health", "programs", "suite", "static"} -> [code |-> 200]
    [] OTHER -> [code |-> 404]

\* Mutant: the length of the body is compared with all that was read.
WholeWithoutHeader(read) == read >= request.declared

isWhole(read) == read >= partsOf(request)

\* The rest of the body, until it is whole or the client has closed; then
\* the routes.
ReceiveBody ==
  /\ step = "body"
  /\ \/ isWhole(conn[client].read) /\ Close(answerTo(conn[client].read))
     \/ /\ ~isWhole(conn[client].read)
        /\ \E n \in 0 .. MaxParts + 1 :
             LET read == conn[client].read + n IN
             /\ recv(n)
             /\ IF n = 0 THEN Close(answerTo(read)) ELSE Continue(read, "body")

Serve == Accept \/ ReceiveHeader \/ ReceiveBody

\* Ctrl+C: every connection is reset.  The backend may be started again.
Stop ==
  /\ step # "down" /\ stops < MaxStops
  /\ conn' = [c \in Conns |->
                IF conn[c].state = "open" THEN Closed(NoAnswer) ELSE conn[c]]
  /\ backlog' = << >> /\ client' = None /\ step' = "down" /\ stops' = stops + 1

Start ==
  /\ step = "down" /\ step' = "accept"
  /\ UNCHANGED <<conn, backlog, client, stops>>
=============================================================================
