--------------------------- MODULE DashboardProofs ---------------------------
(* The page and the backend, for any number of calls, sources, requests of *)
(* another client, stops and gestures.                                     *)
EXTENDS Dashboard, TLAPS

Kinds == {"health", "programs", "run", "suite"}

\* What calls may be for, and the texts there are.
Targets == Kinds \cup {r.target : r \in StrangeRequests}

Texts == Sources \cup {None, Empty, "truncated"} \cup {r.source : r \in StrangeRequests}

Requests == [target: Targets, source: Texts, header: Nat, declared: Nat]

Answers ==
  [code: {0, 200, 204, 404, 413}] \cup [code: {200}, source: Texts, ok: BOOLEAN]

Connection ==
  [state: {"unused", "open", "closed"}, request: Requests \cup {None}, sent: Nat, read: Nat,
   hungUp: BOOLEAN, answer: Answers]

TypeOK ==
  /\ conn \in [Conns -> Connection]
  /\ \A c \in Conns : conn[c].state = "open" => conn[c].request \in Requests
  /\ call \in [Fetches -> [kind: Kinds \cup {None}, source: Texts]]
  /\ text \in Texts
  /\ backlog \in Seq(Conns)

\* What waits, or is served, is open, and waits only once.
QueueOK ==
  /\ \A k \in 1 .. Len(backlog) : conn[backlog[k]].state = "open"
  /\ \A j, k \in 1 .. Len(backlog) : backlog[j] = backlog[k] => j = k
  /\ step \in {"header", "body"} =>
       /\ client \in Conns /\ conn[client].state = "open"
       /\ \A k \in 1 .. Len(backlog) : backlog[k] # client

\* The request that call k makes.
RequestOf(k) == Request(k.kind, k.source, 1, IF k.kind = "run" /\ k.source # Empty THEN 1 ELSE 0)

\* How call k of the page and its connection n belong together.
Belong(k, n) ==
  /\ k = Idle => n.state # "open"
  /\ n.state # "closed" => n.answer = NoAnswer
  /\ n.state = "open" => n.request = RequestOf(k) /\ ~n.hungUp
  /\ k.kind = "run" /\ n.answer.code = 200 => n.answer.source = k.source

CallsOK == \A c \in Fetches : Belong(call[c], conn[c])

ServiceInv == TypeOK /\ QueueOK /\ CallsOK

(* A connection that is new, or was closed without an answer.              *)
LEMMA FreshConnections ==
  /\ Unused \in Connection /\ Unused.state = "unused" /\ Unused.answer = NoAnswer
  /\ \A a \in Answers :
       Closed(a) \in Connection /\ Closed(a).state = "closed" /\ Closed(a).answer = a
  /\ NoAnswer \in Answers /\ NoAnswer.code # 200
<1>1. NoAnswer \in Answers /\ NoAnswer.code # 200
  BY DEF NoAnswer, Answers
<1>2. Unused \in Connection /\ Unused.state = "unused" /\ Unused.answer = NoAnswer
  BY <1>1 DEF Unused, Connection
<1>3. ASSUME NEW a \in Answers
      PROVE  Closed(a) \in Connection /\ Closed(a).state = "closed" /\ Closed(a).answer = a
  <2>1. Closed(a) \in Connection
    BY <1>1, <1>2 DEF Closed, Connection
  <2>2. Closed(a).state = "closed" /\ Closed(a).answer = a
    BY DEF Closed, Unused
  <2> QED BY <2>1, <2>2
<1> QED BY <1>1, <1>2, <1>3

(* A socket that is not open may connect: nothing else changes, and it is   *)
(* open with its request, or refused.                                       *)
LEMMA ConnectKeeps ==
  ASSUME TypeOK, QueueOK, NEW c \in Conns, conn[c].state # "open",
         NEW r \in Requests, Connect(c, r), UNCHANGED <<client, step>>
  PROVE  /\ conn' \in [Conns -> Connection] /\ backlog' \in Seq(Conns) /\ QueueOK'
         /\ \A d \in Conns \ {c} : conn'[d] = conn[d]
         /\ conn'[c].answer = NoAnswer
         /\ conn'[c].state = "open" => conn'[c].request = r /\ ~conn'[c].hungUp
<1> DEFINE new == [Unused EXCEPT !.state = "open", !.request = r]
<1>1. /\ new \in Connection /\ new.state = "open" /\ new.request = r
      /\ ~new.hungUp /\ new.answer = NoAnswer
  BY FreshConnections DEF Unused, Connection
<1>2. CASE step # "down" /\ Len(backlog) < Backlog
  <2>1. conn' = [conn EXCEPT ![c] = new] /\ backlog' = Append(backlog, c)
    BY <1>2 DEF Connect
  <2>2. /\ conn' \in [Conns -> Connection] /\ backlog' \in Seq(Conns)
        /\ \A d \in Conns \ {c} : conn'[d] = conn[d]
        /\ conn'[c] = new
    BY <1>1, <2>1 DEF TypeOK
  <2>3. /\ Len(backlog') = Len(backlog) + 1
        /\ \A k \in 1 .. Len(backlog) : backlog'[k] = backlog[k]
        /\ backlog'[Len(backlog) + 1] = c
    BY <2>1 DEF TypeOK
  <2>4. \A k \in 1 .. Len(backlog) : backlog[k] \in Conns /\ backlog[k] # c
    BY DEF QueueOK, TypeOK
  <2> HIDE DEF new
  <2>5. \A k \in 1 .. Len(backlog') :
          \/ k \in 1 .. Len(backlog) /\ backlog'[k] = backlog[k]
          \/ k = Len(backlog) + 1 /\ backlog'[k] = c
    BY <2>3 DEF TypeOK
  <2>6. \A k \in 1 .. Len(backlog') : conn'[backlog'[k]].state = "open"
    BY <1>1, <2>2, <2>4, <2>5 DEF QueueOK
  <2>7. \A j, k \in 1 .. Len(backlog') : backlog'[j] = backlog'[k] => j = k
    BY <2>4, <2>5 DEF QueueOK
  <2>8. step' \in {"header", "body"} =>
          /\ client' \in Conns /\ conn'[client'].state = "open"
          /\ \A k \in 1 .. Len(backlog') : backlog'[k] # client'
    BY <2>2, <2>5 DEF QueueOK
  <2>9. QueueOK'
    BY <2>6, <2>7, <2>8 DEF QueueOK
  <2> QED BY <1>1, <2>2, <2>9
<1>3. CASE ~(step # "down" /\ Len(backlog) < Backlog)
  <2>1. conn' = [conn EXCEPT ![c] = Closed(NoAnswer)] /\ backlog' = backlog
    BY <1>3 DEF Connect
  <2>2. /\ conn' \in [Conns -> Connection]
        /\ \A d \in Conns \ {c} : conn'[d] = conn[d]
        /\ conn'[c] = Closed(NoAnswer)
    BY <2>1, FreshConnections DEF TypeOK
  <2>3. \A k \in 1 .. Len(backlog) : backlog[k] \in Conns /\ backlog[k] # c
    BY DEF QueueOK, TypeOK
  <2>4. QueueOK'
    BY <2>1, <2>2, <2>3 DEF QueueOK, TypeOK
  <2> QED BY <2>1, <2>2, <2>4, FreshConnections DEF TypeOK
<1> QED BY <1>2, <1>3
-----------------------------------------------------------------------------
(* What a step of the backend keeps.                                       *)

(* Answering and closing the connection that is served: a call of the page *)
(* that runs a program must have been answered for its text.               *)
LEMMA CloseKeeps ==
  ASSUME ServiceInv, step \in {"header", "body"}, NEW a \in Answers, Close(a),
         UNCHANGED pageVars,
         client \in Fetches /\ call[client].kind = "run" /\ a.code = 200
           => a.source = call[client].source
  PROVE  ServiceInv'
<1>1. /\ client \in Conns /\ conn[client].state = "open"
      /\ conn' = [conn EXCEPT ![client] = Closed(a)]
      /\ step' = "accept" /\ backlog' = backlog /\ call' = call /\ text' = text
  BY DEF ServiceInv, QueueOK, Close, pageVars
<1>2. /\ conn' \in [Conns -> Connection]
      /\ \A d \in Conns \ {client} : conn'[d] = conn[d]
      /\ conn'[client] = Closed(a)
  BY <1>1, FreshConnections DEF ServiceInv, TypeOK
<1>3. TypeOK'
  BY <1>1, <1>2, FreshConnections DEF ServiceInv, TypeOK
<1>4. QueueOK'
  <2>1. \A k \in 1 .. Len(backlog) : backlog[k] \in Conns /\ backlog[k] # client
    BY DEF ServiceInv, QueueOK, TypeOK
  <2> QED BY <1>1, <1>2, <2>1 DEF ServiceInv, QueueOK
<1>5. CallsOK'
  <2> SUFFICES ASSUME NEW c \in Fetches PROVE Belong(call[c], conn'[c])
    BY <1>1 DEF CallsOK
  <2>1. Belong(call[c], conn[c])
    BY DEF ServiceInv, CallsOK
  <2>2. CASE c = client
    BY <2>2, <1>2, FreshConnections DEF Belong
  <2>3. CASE c # client
    BY <2>1, <2>3, <1>2, DashboardAssumption
  <2> QED BY <2>2, <2>3
<1> QED BY <1>3, <1>4, <1>5 DEF ServiceInv

(* Reading more of the request.                                            *)
LEMMA ContinueKeeps ==
  ASSUME ServiceInv, step \in {"header", "body"}, NEW read \in Nat,
         NEW next \in {"header", "body"}, Continue(read, next), UNCHANGED pageVars
  PROVE  ServiceInv'
<1>1. /\ client \in Conns /\ conn[client].state = "open" /\ conn[client] \in Connection
      /\ conn' = [conn EXCEPT ![client] = [conn[client] EXCEPT !.read = read]]
      /\ step' = next /\ client' = client /\ backlog' = backlog
      /\ call' = call /\ text' = text
  BY DEF ServiceInv, QueueOK, TypeOK, Continue, pageVars
<1> DEFINE n == [conn[client] EXCEPT !.read = read]
<1>2. /\ n \in Connection /\ n.state = conn[client].state /\ n.answer = conn[client].answer
      /\ n.request = conn[client].request /\ n.hungUp = conn[client].hungUp
  BY <1>1 DEF Connection
<1> HIDE DEF n
<1>3. /\ conn' \in [Conns -> Connection] /\ conn'[client] = n
      /\ \A d \in Conns \ {client} : conn'[d] = conn[d]
  BY <1>1, <1>2 DEF ServiceInv, TypeOK, n
<1>4. TypeOK'
  BY <1>1, <1>2, <1>3 DEF ServiceInv, TypeOK
<1>5. QueueOK'
  <2>1. \A k \in 1 .. Len(backlog) : backlog[k] \in Conns /\ backlog[k] # client
    BY <1>1 DEF ServiceInv, QueueOK, TypeOK
  <2> QED BY <1>1, <1>2, <1>3, <2>1 DEF ServiceInv, QueueOK
<1>6. CallsOK'
  <2> SUFFICES ASSUME NEW c \in Fetches PROVE Belong(call[c], conn'[c])
    BY <1>1 DEF CallsOK
  <2>1. Belong(call[c], conn[c])
    BY DEF ServiceInv, CallsOK
  <2>2. CASE c = client
    BY <2>1, <2>2, <1>2, <1>3 DEF Belong
  <2>3. CASE c # client
    BY <2>1, <2>3, <1>3, DashboardAssumption
  <2> QED BY <2>2, <2>3
<1> QED BY <1>4, <1>5, <1>6 DEF ServiceInv

(* The oldest connection that waits is the one served next.                *)
LEMMA AcceptKeeps ==
  ASSUME ServiceInv, Accept, UNCHANGED pageVars
  PROVE  ServiceInv'
<1>1. /\ backlog \in Seq(Conns) /\ backlog # << >> /\ client' = Head(backlog)
      /\ backlog' = Tail(backlog) /\ conn' = conn /\ call' = call /\ text' = text
  BY DEF ServiceInv, TypeOK, Accept, pageVars
<1>2. /\ 1 \in 1 .. Len(backlog) /\ client' = backlog[1] /\ client' \in Conns
      /\ backlog' \in Seq(Conns)
      /\ \A k \in 1 .. Len(backlog') :
           k + 1 \in 1 .. Len(backlog) /\ backlog'[k] = backlog[k + 1]
  BY <1>1
<1>3. TypeOK' /\ CallsOK'
  BY <1>1, <1>2 DEF ServiceInv, TypeOK, CallsOK
<1>4. QueueOK'
  <2>1. \A k \in 1 .. Len(backlog') : conn'[backlog'[k]].state = "open"
    BY <1>1, <1>2 DEF ServiceInv, QueueOK
  <2>2. \A j, k \in 1 .. Len(backlog') : backlog'[j] = backlog'[k] => j = k
    <3> SUFFICES ASSUME NEW j \in 1 .. Len(backlog'), NEW k \in 1 .. Len(backlog'),
                        backlog'[j] = backlog'[k]
                 PROVE  j = k
      OBVIOUS
    <3>1. j + 1 = k + 1
      BY <1>2 DEF ServiceInv, QueueOK
    <3> QED BY <3>1
  <2>3. client' \in Conns /\ conn'[client'].state = "open"
    BY <1>1, <1>2 DEF ServiceInv, QueueOK
  <2>4. \A k \in 1 .. Len(backlog') : backlog'[k] # client'
    <3> SUFFICES ASSUME NEW k \in 1 .. Len(backlog'), backlog'[k] = client'
                 PROVE  FALSE
      OBVIOUS
    <3>1. k + 1 = 1
      BY <1>2 DEF ServiceInv, QueueOK
    <3> QED BY <3>1
  <2> QED BY <2>1, <2>2, <2>3, <2>4 DEF QueueOK
<1> QED BY <1>3, <1>4 DEF ServiceInv

(* The answers have the types the page expects.                            *)
LEMMA AnswerTypes ==
  /\ [code |-> 413] \in Answers /\ [code |-> 413].code = 413
  /\ \A s \in Texts : /\ runProgram(s) \in Answers /\ runProgram(s).source = s
  /\ \A c \in {200, 204, 404} : [code |-> c] \in Answers
<1>1. \A s \in Texts : runProgram(s) \in Answers /\ runProgram(s).source = s
  BY DEF runProgram, Answers
<1>2. \A c \in {200, 204, 404, 413} : [code |-> c] \in Answers
  BY DEF Answers
<1> QED BY <1>1, <1>2

(* A run of the page is answered when its body is there, for all of it.    *)
LEMMA ReceiveKeeps ==
  ASSUME ServiceInv, ReceiveHeader \/ ReceiveBody, UNCHANGED pageVars
  PROVE  ServiceInv'
<1>1. /\ step \in {"header", "body"} /\ client \in Conns /\ conn[client].state = "open"
      /\ conn[client] \in Connection /\ request \in Requests
  BY DEF ServiceInv, TypeOK, QueueOK, ReceiveHeader, ReceiveBody, request
<1>2. conn[client].read \in Nat
  BY <1>1 DEF Connection
<1>3. CASE ReceiveHeader
  <2>1. PICK n \in 0 .. MaxParts + 1 :
          LET read == conn[client].read + n IN
          IF n = 0 \/ read > MaxParts THEN Close(NoAnswer)
          ELSE IF read < request.header THEN Continue(read, "header")
          ELSE IF request.declared > MaxParts THEN Close([code |-> 413])
          ELSE Continue(read, "body")
    BY <1>3 DEF ReceiveHeader
  <2> DEFINE read == conn[client].read + n
  <2>2. read \in Nat
    BY <1>2, DashboardAssumption
  <2> HIDE DEF read
  <2>3. \/ Close(NoAnswer)
        \/ Close([code |-> 413])
        \/ Continue(read, "header")
        \/ Continue(read, "body")
    BY <2>1 DEF read
  <2>4. CASE Close(NoAnswer)
    BY <1>1, <2>4, CloseKeeps, FreshConnections
  <2>5. CASE Close([code |-> 413])
    BY <1>1, <2>5, CloseKeeps, AnswerTypes
  <2>6. CASE Continue(read, "header")
    BY <1>1, <2>2, <2>6, ContinueKeeps
  <2>7. CASE Continue(read, "body")
    BY <1>1, <2>2, <2>7, ContinueKeeps
  <2> QED BY <2>3, <2>4, <2>5, <2>6, <2>7
<1>4. ASSUME NEW read \in Nat, Close(answerTo(read)),
             client \in Fetches => isWhole(read)
      PROVE  ServiceInv'
  <2>1. bodyOf(read) \in Texts
    <3>1. request.source \in Texts
      BY <1>1 DEF Requests
    <3>2. bodyOf(read) = request.source \/ bodyOf(read) = "truncated"
      BY DEF bodyOf
    <3>3. "truncated" \in Texts
      BY DEF Texts
    <3> QED BY <3>1, <3>2, <3>3
  <2>2. answerTo(read) \in Answers
    BY <2>1, AnswerTypes DEF answerTo
  <2>3. ASSUME client \in Fetches, call[client].kind = "run"
        PROVE  answerTo(read).source = call[client].source
    <3>1. request = RequestOf(call[client])
      BY <1>1, <2>3 DEF ServiceInv, CallsOK, Belong, request
    <3>2. request.target = "run" /\ request.source = call[client].source
      BY <2>3, <3>1 DEF RequestOf, Request
    <3>3. bodyOf(read) = request.source
      BY <1>4, <2>3 DEF isWhole, bodyOf
    <3> QED BY <2>1, <3>2, <3>3, AnswerTypes DEF answerTo
  <2> QED BY <1>1, <1>4, <2>2, <2>3, CloseKeeps
<1>5. CASE ReceiveBody
  <2>1. CASE isWhole(conn[client].read) /\ Close(answerTo(conn[client].read))
    BY <1>2, <1>4, <2>1
  <2>2. CASE ~isWhole(conn[client].read)
    <3>1. PICK n \in 0 .. MaxParts + 1 :
            /\ received(n)
            /\ IF n = 0 THEN Close(answerTo(conn[client].read + n))
               ELSE Continue(conn[client].read + n, "body")
      BY <1>5, <2>2 DEF ReceiveBody, recv
    <3> DEFINE read == conn[client].read + n
    <3>2. read \in Nat
      BY <1>2, DashboardAssumption
    <3>3. CASE n = 0
      <4>1. client \notin Fetches
        <5>1. conn[client].hungUp
          BY <3>1, <3>3 DEF received
        <5> QED BY <1>1, <5>1 DEF ServiceInv, CallsOK, Belong
      <4> QED BY <3>1, <3>2, <3>3, <4>1, <1>4
    <3>4. CASE n # 0
      BY <1>1, <3>1, <3>2, <3>4, ContinueKeeps
    <3> QED BY <3>3, <3>4
  <2> QED BY <1>5, <2>1, <2>2 DEF ReceiveBody
<1> QED BY <1>3, <1>5
(* The backend is stopped, which closes what is open, or started.          *)
LEMMA StopKeeps ==
  ASSUME ServiceInv, Stop \/ Start, UNCHANGED pageVars
  PROVE  ServiceInv'
<1>1. CASE Stop
  <2>1. /\ conn' = [c \in Conns |-> IF conn[c].state = "open" THEN Closed(NoAnswer) ELSE conn[c]]
        /\ backlog' = << >> /\ step' = "down" /\ call' = call /\ text' = text
    BY <1>1 DEF Stop, pageVars
  <2>2. \A c \in Conns : /\ conn'[c] = Closed(NoAnswer) \/ conn'[c] = conn[c]
                         /\ conn'[c] \in Connection /\ conn'[c].state # "open"
    BY <2>1, FreshConnections DEF ServiceInv, TypeOK
  <2>3. TypeOK'
    BY <2>1, <2>2 DEF ServiceInv, TypeOK
  <2>4. QueueOK'
    BY <2>1 DEF QueueOK
  <2>5. CallsOK'
    <3> SUFFICES ASSUME NEW c \in Fetches PROVE Belong(call[c], conn'[c])
      BY <2>1 DEF CallsOK
    <3>1. Belong(call[c], conn[c])
      BY DEF ServiceInv, CallsOK
    <3>2. CASE conn'[c] = Closed(NoAnswer)
      BY <3>2, FreshConnections DEF Belong
    <3> QED BY <2>2, <3>1, <3>2, DashboardAssumption
  <2> QED BY <2>3, <2>4, <2>5 DEF ServiceInv
<1>2. CASE Start
  <2>1. /\ step' = "accept" /\ UNCHANGED <<conn, backlog, client, call, text>>
    BY <1>2 DEF Start, pageVars
  <2> QED BY <2>1 DEF ServiceInv, TypeOK, QueueOK, CallsOK
<1> QED BY <1>1, <1>2

-----------------------------------------------------------------------------
(* What a step of a client keeps.                                          *)

(* Sending more, or hanging up: only the other client does the latter.     *)
LEMMA ClientKeeps ==
  ASSUME ServiceInv, NEW c \in Conns, Send(c) \/ (c \notin Fetches /\ HangUp(c)),
         UNCHANGED pageVars
  PROVE  ServiceInv'
<1>1. PICK n : /\ conn' = [conn EXCEPT ![c] = n]
               /\ n = [conn[c] EXCEPT !.sent = @ + 1] \/ n = [conn[c] EXCEPT !.hungUp = TRUE]
               /\ c \in Fetches => n = [conn[c] EXCEPT !.sent = @ + 1]
  BY DEF Send, HangUp
<1>2. /\ conn[c] \in Connection /\ backlog' = backlog /\ client' = client /\ step' = step
      /\ call' = call /\ text' = text
  BY DEF ServiceInv, TypeOK, Send, HangUp, pageVars
<1>3. /\ n \in Connection /\ n.state = conn[c].state /\ n.answer = conn[c].answer
      /\ n.request = conn[c].request
      /\ c \in Fetches => n.hungUp = conn[c].hungUp
  <2>1. CASE n = [conn[c] EXCEPT !.sent = @ + 1]
    BY <1>2, <2>1 DEF Connection
  <2>2. CASE c \notin Fetches /\ n = [conn[c] EXCEPT !.hungUp = TRUE]
    BY <1>2, <2>2 DEF Connection
  <2> QED BY <1>1, <2>1, <2>2
<1>4. /\ conn' \in [Conns -> Connection] /\ conn'[c] = n
      /\ \A d \in Conns \ {c} : conn'[d] = conn[d]
  BY <1>1, <1>3 DEF ServiceInv, TypeOK
<1>5. \A d \in Conns : /\ conn'[d].state = conn[d].state /\ conn'[d].answer = conn[d].answer
                       /\ conn'[d].request = conn[d].request
                       /\ d \in Fetches /\ ~conn[d].hungUp => ~conn'[d].hungUp
  BY <1>3, <1>4
<1>6. TypeOK'
  BY <1>2, <1>4, <1>5 DEF ServiceInv, TypeOK
<1>7. QueueOK'
  <2>1. \A k \in 1 .. Len(backlog) : backlog[k] \in Conns
    BY DEF ServiceInv, TypeOK
  <2> QED BY <1>2, <1>5, <2>1 DEF ServiceInv, QueueOK
<1>8. CallsOK'
  BY <1>2, <1>5, DashboardAssumption DEF ServiceInv, CallsOK, Belong
<1> QED BY <1>6, <1>7, <1>8 DEF ServiceInv

(* The other client may connect when its socket was not used.              *)
LEMMA StrangerKeeps ==
  ASSUME ServiceInv, StrangerConnects, UNCHANGED pageVars
  PROVE  ServiceInv'
<1>1. PICK r \in StrangeRequests : Connect(Stranger, r)
  BY DEF StrangerConnects
<1>2. /\ r \in Requests /\ Stranger \in Conns /\ conn[Stranger].state # "open"
      /\ UNCHANGED <<client, step, call, text>>
  <2>1. r.target \in Targets /\ r.source \in Texts
    BY DEF Targets, Texts
  <2>2. r \in Requests
    BY <2>1, DashboardAssumption DEF Requests
  <2> QED BY <2>2, DashboardAssumption DEF StrangerConnects, pageVars
<1>3. /\ conn' \in [Conns -> Connection] /\ backlog' \in Seq(Conns) /\ QueueOK'
      /\ \A d \in Conns \ {Stranger} : conn'[d] = conn[d]
      /\ conn'[Stranger].state = "open" => conn'[Stranger].request = r
  BY <1>1, <1>2, ConnectKeeps DEF ServiceInv
<1>4. TypeOK'
  BY <1>2, <1>3 DEF ServiceInv, TypeOK
<1>5. CallsOK'
  BY <1>2, <1>3, DashboardAssumption DEF ServiceInv, CallsOK
<1> QED BY <1>3, <1>4, <1>5 DEF ServiceInv

-----------------------------------------------------------------------------
(* What a step of the page keeps.                                          *)

(* A call on a socket that is not open.                                    *)
LEMMA FetchKeeps ==
  ASSUME ServiceInv, NEW c \in Fetches, conn[c].state # "open",
         NEW kind \in Kinds, NEW source \in Texts, fetch(c, kind, source), text' \in Texts
  PROVE  ServiceInv'
<1> DEFINE k == [kind |-> kind, source |-> source]
<1>1. /\ c \in Conns /\ RequestOf(k) \in Requests /\ Connect(c, RequestOf(k))
      /\ call' = [call EXCEPT ![c] = k] /\ UNCHANGED <<client, step>>
  <2>1. c \in Conns
    BY DashboardAssumption
  <2>2. RequestOf(k) = Request(kind, source, 1, IF kind = "run" /\ source # Empty THEN 1 ELSE 0)
    BY DEF RequestOf
  <2>3. RequestOf(k) \in Requests
    BY <2>2 DEF Request, Requests, Targets, Kinds
  <2> QED BY <2>1, <2>2, <2>3 DEF fetch
<1>2. /\ k \in [kind: Kinds \cup {None}, source: Texts] /\ k # Idle
  BY DEF Idle, Kinds, None
<1> HIDE DEF k
<1>3. /\ call' \in [Fetches -> [kind: Kinds \cup {None}, source: Texts]] /\ call'[c] = k
      /\ \A d \in Fetches \ {c} : call'[d] = call[d]
  BY <1>1, <1>2 DEF ServiceInv, TypeOK
<1>4. /\ conn' \in [Conns -> Connection] /\ backlog' \in Seq(Conns) /\ QueueOK'
      /\ \A d \in Conns \ {c} : conn'[d] = conn[d]
      /\ conn'[c].answer = NoAnswer
      /\ conn'[c].state = "open" => conn'[c].request = RequestOf(k) /\ ~conn'[c].hungUp
  BY <1>1, ConnectKeeps DEF ServiceInv
<1>5. TypeOK'
  BY <1>1, <1>3, <1>4 DEF ServiceInv, TypeOK
<1>6. CallsOK'
  <2> SUFFICES ASSUME NEW d \in Fetches PROVE Belong(call'[d], conn'[d])
    BY DEF CallsOK
  <2>1. CASE d = c
    BY <1>2, <1>3, <1>4, <2>1, FreshConnections DEF Belong
  <2>2. CASE d # c
    BY <1>3, <1>4, <2>2, DashboardAssumption DEF ServiceInv, CallsOK
  <2> QED BY <2>1, <2>2
<1> QED BY <1>4, <1>5, <1>6 DEF ServiceInv

(* A call that is settled, without another.                                *)
LEMMA NoFetchKeeps ==
  ASSUME ServiceInv, NEW c \in Fetches, conn[c].state # "open", noFetch(c), text' \in Texts
  PROVE  ServiceInv'
<1>1. /\ c \in Conns /\ call' = [call EXCEPT ![c] = Idle] /\ conn' = [conn EXCEPT ![c] = Unused]
      /\ UNCHANGED <<backlog, client, step>>
  BY DashboardAssumption DEF noFetch
<1>2. /\ call' \in [Fetches -> [kind: Kinds \cup {None}, source: Texts]] /\ call'[c] = Idle
      /\ \A d \in Fetches \ {c} : call'[d] = call[d]
  <2>1. Idle \in [kind: Kinds \cup {None}, source: Texts]
    BY DEF Idle, Texts
  <2> QED BY <1>1, <2>1 DEF ServiceInv, TypeOK
<1>3. /\ conn' \in [Conns -> Connection] /\ conn'[c] = Unused
      /\ \A d \in Conns \ {c} : conn'[d] = conn[d]
  BY <1>1, FreshConnections DEF ServiceInv, TypeOK
<1>4. TypeOK'
  BY <1>1, <1>2, <1>3, FreshConnections DEF ServiceInv, TypeOK
<1>5. QueueOK'
  <2>1. \A k \in 1 .. Len(backlog) : backlog[k] \in Conns /\ backlog[k] # c
    BY DEF ServiceInv, QueueOK, TypeOK
  <2> QED BY <1>1, <1>3, <2>1 DEF ServiceInv, QueueOK
<1>6. CallsOK'
  <2> SUFFICES ASSUME NEW d \in Fetches PROVE Belong(call'[d], conn'[d])
    BY DEF CallsOK
  <2>1. CASE d = c
    BY <1>2, <1>3, <2>1, FreshConnections DEF Belong
  <2>2. CASE d # c
    BY <1>2, <1>3, <2>2, DashboardAssumption DEF ServiceInv, CallsOK
  <2> QED BY <2>1, <2>2
<1> QED BY <1>4, <1>5, <1>6 DEF ServiceInv
(* What the code after an await does, and what the user does.              *)
LEMMA PageKeeps ==
  ASSUME ServiceInv, NEW c \in Fetches,
         Settle(c) \/ Connecting(c) \/ ClickRun(c) \/ EditAndRun(c) \/ ClickSuite(c)
  PROVE  ServiceInv'
<1>1. text \in Texts /\ None \in Texts /\ Sources \subseteq Texts
  BY DEF ServiceInv, TypeOK, Texts
<1>2. "health" \in Kinds /\ "programs" \in Kinds /\ "run" \in Kinds /\ "suite" \in Kinds
  BY DEF Kinds
<1>3. CASE Settle(c)
  <2>1. conn[c].state # "open"
    BY <1>3 DEF Settle, HealthAnswered, ProgramsAnswered, RunAnswered, RunFailed, SuiteAnswered,
                Answered
  <2>2. CASE HealthAnswered(c)
    <3>1. text' = text /\ (fetch(c, "programs", None) \/ noFetch(c))
      BY <2>2 DEF HealthAnswered
    <3> QED BY <1>1, <1>2, <2>1, <3>1, FetchKeeps, NoFetchKeeps
  <2>3. CASE ProgramsAnswered(c)
    <3>1. \/ \E source \in Sources : text' = source /\ fetch(c, "run", source)
          \/ text' = text /\ noFetch(c)
      BY <2>3 DEF ProgramsAnswered, run
    <3> QED BY <1>1, <1>2, <2>1, <3>1, FetchKeeps, NoFetchKeeps
  <2>4. CASE RunAnswered(c)
    <3>1. text' = text /\ noFetch(c)
      BY <2>4 DEF RunAnswered
    <3> QED BY <1>1, <2>1, <3>1, NoFetchKeeps
  <2>5. CASE RunFailed(c)
    <3>1. text' = text /\ fetch(c, "health", None)
      BY <2>5 DEF RunFailed, connect
    <3> QED BY <1>1, <1>2, <2>1, <3>1, FetchKeeps
  <2>6. CASE SuiteAnswered(c)
    <3>1. text' = text /\ noFetch(c)
      BY <2>6 DEF SuiteAnswered
    <3> QED BY <1>1, <2>1, <3>1, NoFetchKeeps
  <2> QED BY <1>3, <2>2, <2>3, <2>4, <2>5, <2>6 DEF Settle
<1>4. CASE Connecting(c) \/ ClickRun(c) \/ EditAndRun(c) \/ ClickSuite(c)
  <2>1. call[c] = Idle
    BY <1>4 DEF Connecting, ClickRun, EditAndRun, ClickSuite, Gesture
  <2>2. conn[c].state # "open"
    BY <2>1 DEF ServiceInv, CallsOK, Belong
  <2>3. CASE Connecting(c)
    <3>1. text' = text /\ fetch(c, "health", None)
      BY <2>3 DEF Connecting, connect
    <3> QED BY <1>1, <1>2, <2>2, <3>1, FetchKeeps
  <2>4. CASE ClickRun(c)
    <3>1. text' = text /\ fetch(c, "run", text)
      BY <2>4 DEF ClickRun, run
    <3> QED BY <1>1, <1>2, <2>2, <3>1, FetchKeeps
  <2>5. CASE EditAndRun(c)
    <3>1. \E source \in Sources : text' = source /\ fetch(c, "run", source)
      BY <2>5 DEF EditAndRun, run
    <3> QED BY <1>1, <1>2, <2>2, <3>1, FetchKeeps
  <2>6. CASE ClickSuite(c)
    <3>1. text' = text /\ fetch(c, "suite", None)
      BY <2>6 DEF ClickSuite
    <3> QED BY <1>1, <1>2, <2>2, <3>1, FetchKeeps
  <2> QED BY <1>4, <2>3, <2>4, <2>5, <2>6
<1> QED BY <1>3, <1>4

-----------------------------------------------------------------------------
(* The sockets are used as the page and the backend expect, whatever the   *)
(* order of their steps: what waits or is served is open, and a call and   *)
(* its connection belong together.                                         *)
THEOREM ServiceInvariant == Spec => []ServiceInv
<1>1. Init => ServiceInv
  <2> SUFFICES ASSUME Init PROVE ServiceInv
    OBVIOUS
  <2>1. conn = [c \in Conns |-> Unused] /\ backlog = << >> /\ step = "accept"
    BY DEF Init, ServerInit
  <2>2. call = [c \in Fetches |-> Idle] /\ text = Empty
    BY DEF Init
  <2>3. Idle \in [kind: Kinds \cup {None}, source: Texts] /\ Idle.kind # "run"
    BY DEF Idle, Texts, None
  <2>4. TypeOK
    BY <2>1, <2>2, <2>3, FreshConnections DEF TypeOK, Texts
  <2>5. QueueOK
    BY <2>1 DEF QueueOK
  <2>6. CallsOK
    BY <2>1, <2>2, <2>3, FreshConnections, DashboardAssumption DEF CallsOK, Belong
  <2> QED BY <2>4, <2>5, <2>6 DEF ServiceInv
<1>2. ServiceInv /\ [Next]_vars => ServiceInv'
  <2> SUFFICES ASSUME ServiceInv, [Next]_vars PROVE ServiceInv'
    OBVIOUS
  <2>1. CASE User
    <3>1. CASE Redraw
      BY <3>1 DEF Redraw, serverVars, ServiceInv, TypeOK, QueueOK, CallsOK
    <3> QED BY <2>1, <3>1, PageKeeps DEF User
  <2>2. CASE \E c \in Fetches : Settle(c)
    BY <2>2, PageKeeps
  <2>3. CASE Serve /\ UNCHANGED pageVars
    BY <2>3, AcceptKeeps, ReceiveKeeps DEF Serve
  <2>4. CASE (Stop \/ Start) /\ UNCHANGED pageVars
    BY <2>4, StopKeeps
  <2>5. CASE StrangerActs /\ UNCHANGED pageVars
    BY <2>5, StrangerKeeps, ClientKeeps, DashboardAssumption DEF StrangerActs
  <2>6. CASE (\E c \in Fetches : Send(c)) /\ UNCHANGED pageVars
    BY <2>6, ClientKeeps, DashboardAssumption
  <2>7. CASE UNCHANGED vars
    BY <2>7 DEF vars, serverVars, pageVars, ServiceInv, TypeOK, QueueOK, CallsOK
  <2> QED BY <2>1, <2>2, <2>3, <2>4, <2>5, <2>6, <2>7 DEF Next
<1> QED BY <1>1, <1>2, PTL DEF Spec

(* A run of the page is never answered for a part of its text, nor for the *)
(* text of another call, however connections are closed, refused and used  *)
(* again.                                                                  *)
THEOREM AnswersMatch == Spec => []AnswersAreForTheText
<1>1. ServiceInv => AnswersAreForTheText
  BY DEF ServiceInv, CallsOK, Belong, AnswersAreForTheText, ok
<1> QED BY <1>1, ServiceInvariant, PTL

-----------------------------------------------------------------------------
(* The buttons.                                                            *)

(* Only the call that is settled or started changes.                       *)
LEMMA OneCallChanges ==
  ASSUME ServiceInv, NEW c \in Fetches
  PROVE  /\ \A kind, source : fetch(c, kind, source) =>
              /\ call'[c].kind = kind
              /\ \A d \in Fetches \ {c} : call'[d] = call[d]
         /\ noFetch(c) => \A d \in Fetches \ {c} : call'[d] = call[d]
  BY DEF ServiceInv, TypeOK, fetch, noFetch

\* The buttons, after a step in which call c changes.
ButtonsKept(c) ==
  /\ runDisabled' => \/ call'[c].kind = "run"
                     \/ runDisabled /\ call[c].kind # "run"
  /\ suiteDisabled' => \/ call'[c].kind = "suite"
                       \/ suiteDisabled /\ call[c].kind # "suite"
  /\ \A d \in Fetches \ {c} : call'[d] = call[d]

(* A button is disabled by the call that is started, and enabled when the  *)
(* last call that disables it is settled.                                  *)
LEMMA PageKeepsButtons ==
  ASSUME ServiceInv, NEW c \in Fetches,
         Settle(c) \/ Connecting(c) \/ ClickRun(c) \/ EditAndRun(c) \/ ClickSuite(c)
  PROVE  ButtonsKept(c)
<1>1. CASE HealthAnswered(c)
  BY <1>1, OneCallChanges DEF HealthAnswered, Answered, ButtonsKept
<1>2. CASE ProgramsAnswered(c)
  BY <1>2, OneCallChanges DEF ProgramsAnswered, Answered, run, ButtonsKept
<1>3. CASE RunAnswered(c)
  BY <1>3, OneCallChanges DEF RunAnswered, Answered, ok, ButtonsKept
<1>4. CASE RunFailed(c)
  BY <1>4, OneCallChanges DEF RunFailed, Answered, connect, ButtonsKept
<1>5. CASE SuiteAnswered(c)
  BY <1>5, OneCallChanges DEF SuiteAnswered, Answered, ButtonsKept
<1>6. CASE Connecting(c)
  BY <1>6, OneCallChanges DEF Connecting, Gesture, Idle, None, connect, ButtonsKept
<1>7. CASE ClickRun(c)
  BY <1>7, OneCallChanges DEF ClickRun, Gesture, Idle, None, run, ButtonsKept
<1>8. CASE EditAndRun(c)
  BY <1>8, OneCallChanges DEF EditAndRun, Gesture, Idle, None, run, ButtonsKept
<1>9. CASE ClickSuite(c)
  BY <1>9, OneCallChanges DEF ClickSuite, Gesture, Idle, None, ButtonsKept
<1> QED BY <1>1, <1>2, <1>3, <1>4, <1>5, <1>6, <1>7, <1>8, <1>9 DEF Settle

(* Whatever the order of clicks, answers and failures, and however many    *)
(* runs overlap, a page that awaits no run has its buttons back.           *)
THEOREM PageIsReady == Spec => []IdlePageIsReady
<1>1. Init => IdlePageIsReady
  BY DEF Init, IdlePageIsReady
<1>2. IdlePageIsReady /\ ServiceInv /\ [Next]_vars => IdlePageIsReady'
  <2> SUFFICES ASSUME IdlePageIsReady, ServiceInv, [Next]_vars PROVE IdlePageIsReady'
    OBVIOUS
  <2>1. ASSUME NEW c \in Fetches, ButtonsKept(c) PROVE IdlePageIsReady'
    <3>1. ASSUME \A d \in Fetches : call'[d].kind # "run" PROVE ~runDisabled'
      BY <2>1, <3>1 DEF IdlePageIsReady, ButtonsKept
    <3>2. ASSUME \A d \in Fetches : call'[d].kind # "suite" PROVE ~suiteDisabled'
      BY <2>1, <3>2 DEF IdlePageIsReady, ButtonsKept
    <3> QED BY <3>1, <3>2 DEF IdlePageIsReady
  <2>2. CASE (User /\ ~Redraw) \/ \E c \in Fetches : Settle(c)
    BY <2>1, <2>2, PageKeepsButtons DEF User
  <2>4. CASE Redraw
    BY <2>4 DEF Redraw, IdlePageIsReady
  <2>3. CASE UNCHANGED pageVars
    BY <2>3 DEF pageVars, IdlePageIsReady
  <2> QED BY <2>2, <2>3, <2>4 DEF Next, vars
<1> QED BY <1>1, <1>2, ServiceInvariant, PTL DEF Spec
=============================================================================
