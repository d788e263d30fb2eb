------------------------------ MODULE Dashboard ------------------------------
(***************************************************************************)
(* The dashboard page and the backend it calls.  Every fetch is a          *)
(* connection of its own, so that answers arrive in any order; the code    *)
(* after an await runs when the answer has come, with the page as it is by *)
(* then.  One more client only connects, sends what it likes and hangs up. *)
(***************************************************************************)
EXTENDS Mtxserve, FiniteSets

CONSTANTS
  Fetches,        \* the sockets the page may use at a time
  Stranger,       \* the socket of the other client
  StrangeRequests,
  Sources,        \* the programs: texts of the editor
  MaxGestures     \* what the user does (bounds TLC)

ASSUME DashboardAssumption ==
  /\ Fetches \subseteq Conns /\ Stranger \in Conns \ Fetches
  /\ MaxParts \in Nat /\ Runs \subseteq Compiles
  /\ StrangeRequests \subseteq [target: STRING, source: STRING, header: Nat, declared: Nat]

VARIABLES
  call,          \* what the page awaits on each socket: [kind, source]
  online,        \* setStatus: the app is shown
  programs,      \* whether programs.length > 0
  text,          \* the editor
  runDisabled, suiteDisabled, raceDisabled,   \* the buttons
  last,          \* the last answer of a run
  cards,         \* the source whose results the page shows
  timelines,     \* the sources that #tl-base and #tl-ours are drawn for
  gestures

results == <<raceDisabled, last, cards, timelines>>
pageVars == <<call, online, programs, text, runDisabled, suiteDisabled, results, gestures>>
vars == <<serverVars, pageVars>>

Idle == [kind |-> None, source |-> None]

\* The editor's text before the programs are loaded: a program that computes
\* nothing, and the only one whose request has no body.
Empty == "empty"

Init ==
  /\ ServerInit
  /\ call = [c \in Fetches |-> Idle]
  /\ online = FALSE /\ programs = FALSE /\ text = Empty
  /\ runDisabled = FALSE /\ suiteDisabled = FALSE /\ raceDisabled = TRUE
  /\ last = NoAnswer /\ cards = None /\ gestures = 0
  /\ timelines = [base |-> None, ours |-> None]

-----------------------------------------------------------------------------
(* api(): a fetch on socket c.                                             *)

fetch(c, kind, source) ==
  /\ call' = [call EXCEPT ![c] = [kind |-> kind, source |-> source]]
  /\ Connect(c, Request(kind, source, 1, IF kind = "run" /\ source # Empty THEN 1 ELSE 0))
  /\ UNCHANGED <<client, step, stops>>

noFetch(c) ==
  /\ call' = [call EXCEPT ![c] = Idle]
  /\ conn' = [conn EXCEPT ![c] = Unused]
  /\ UNCHANGED <<backlog, client, step, stops>>

connect(c) == fetch(c, "health", None)

\* run() up to its await.
run(c, source) == fetch(c, "run", source) /\ runDisabled' = TRUE

-----------------------------------------------------------------------------
(* The answers.  A fetch is rejected when there is none, or not one that   *)
(* is ok.                                                                  *)

Answered(c, kind) == call[c].kind = kind /\ conn[c].state = "closed"

ok(c) == conn[c].answer.code = 200

HealthAnswered(c) ==
  /\ Answered(c, "health")
  /\ online' = ok(c)
  /\ IF ok(c) /\ ~programs THEN fetch(c, "programs", None) ELSE noFetch(c)
  /\ UNCHANGED <<programs, text, runDisabled, suiteDisabled, results, gestures>>

\* loadPrograms(), which runs the program it starts with; the caller is
\* connect(), whose handler shows the page as offline.
ProgramsAnswered(c) ==
  /\ Answered(c, "programs")
  /\ IF ok(c)
     THEN /\ programs' = TRUE
          /\ \E source \in Sources : text' = source /\ run(c, source)
          /\ UNCHANGED online
     ELSE /\ online' = FALSE /\ noFetch(c)
          /\ UNCHANGED <<programs, text, runDisabled>>
  /\ UNCHANGED <<suiteDisabled, results, gestures>>

\* renderTimelines(): the answer to a program that does not compile has no
\* timeline, which ends it when the first canvas has been cleared.
renderTimelines(res) ==
  timelines' = IF res.source \in Compiles THEN [base |-> res.source, ours |-> res.source]
                                          ELSE [timelines EXCEPT !.base = None]

\* render(): an answer that is not ok leaves the results shown as they are.
RunAnswered(c) ==
  /\ Answered(c, "run") /\ ok(c)
  /\ LET res == conn[c].answer IN
       /\ last' = res
       /\ raceDisabled' = ~res.ok
       /\ IF res.ok THEN cards' = res.source /\ renderTimelines(res)
                    ELSE UNCHANGED <<cards, timelines>>
  /\ runDisabled' = FALSE
  /\ noFetch(c)
  /\ UNCHANGED <<online, programs, text, suiteDisabled, gestures>>

\* Mutant: the button is enabled after an answer only.
RunFailedKeepsButton(c) ==
  /\ Answered(c, "run") /\ ~ok(c)
  /\ connect(c)
  /\ UNCHANGED <<online, programs, text, runDisabled, suiteDisabled, results, gestures>>

RunFailed(c) ==
  /\ Answered(c, "run") /\ ~ok(c)
  /\ connect(c)
  /\ runDisabled' = FALSE
  /\ UNCHANGED <<online, programs, text, suiteDisabled, results, gestures>>

SuiteAnswered(c) ==
  /\ Answered(c, "suite")
  /\ suiteDisabled' = FALSE
  /\ noFetch(c)
  /\ UNCHANGED <<online, programs, text, runDisabled, results, gestures>>

Settle(c) ==
  \/ HealthAnswered(c) \/ ProgramsAnswered(c) \/ RunAnswered(c) \/ RunFailed(c)
  \/ SuiteAnswered(c)

-----------------------------------------------------------------------------
(* The user.                                                               *)

Gesture(c) ==
  /\ gestures < MaxGestures /\ gestures' = gestures + 1
  /\ call[c] = Idle

\* The page is opened, or Retry is clicked.
Connecting(c) ==
  /\ Gesture(c) /\ ~online
  /\ connect(c)
  /\ UNCHANGED <<online, programs, text, runDisabled, suiteDisabled, results>>

ClickRun(c) ==
  /\ Gesture(c) /\ online /\ ~runDisabled
  /\ run(c, text)
  /\ UNCHANGED <<online, programs, text, suiteDisabled, results>>

\* Ctrl+Enter in the editor, with or without a change to its text, and the
\* choice of a program: neither asks whether a run is under way.
EditAndRun(c) ==
  /\ Gesture(c) /\ online
  /\ \E source \in Sources : text' = source /\ run(c, source)
  /\ UNCHANGED <<online, programs, suiteDisabled, results>>

ClickSuite(c) ==
  /\ Gesture(c) /\ online /\ ~suiteDisabled
  /\ suiteDisabled' = TRUE
  /\ fetch(c, "suite", None)
  /\ UNCHANGED <<online, programs, text, runDisabled, results>>

\* The window is resized, or the tab with the cards is shown again.
Redraw ==
  /\ last # NoAnswer
  /\ renderTimelines(last)
  /\ UNCHANGED <<serverVars, call, online, programs, text, runDisabled, suiteDisabled,
                 raceDisabled, last, cards, gestures>>

User ==
  \/ \E c \in Fetches : Connecting(c) \/ ClickRun(c) \/ EditAndRun(c) \/ ClickSuite(c)
  \/ Redraw

-----------------------------------------------------------------------------
(* The other client, and the whole.                                        *)

StrangerConnects ==
  /\ conn[Stranger].state = "unused"
  /\ \E r \in StrangeRequests : Connect(Stranger, r)
  /\ UNCHANGED <<client, step, stops>>

StrangerActs == StrangerConnects \/ Send(Stranger) \/ HangUp(Stranger)

Next ==
  \/ User
  \/ \E c \in Fetches : Settle(c)
  \/ (Serve \/ Stop \/ Start \/ StrangerActs \/ \E c \in Fetches : Send(c)) /\ UNCHANGED pageVars

\* A loop and a browser that keep going; the stranger hangs up in the end.
Fairness ==
  /\ WF_vars(Serve /\ UNCHANGED pageVars)
  /\ \A c \in Fetches : WF_vars(Settle(c)) /\ WF_vars(Send(c) /\ UNCHANGED pageVars)
  /\ WF_vars(HangUp(Stranger) /\ UNCHANGED pageVars)

Spec == Init /\ [][Next]_vars /\ Fairness

-----------------------------------------------------------------------------
(* Properties.                                                             *)

(* The backend serves one client at a time and waits for whatever it       *)
(* sends, and may be stopped under any call; as long as no client stays    *)
(* silent for ever, every call of the page is settled, and so is what its  *)
(* answer or failure starts: the programs, a run, another connect().       *)
CallsSettle == \A c \in Fetches : call[c] # Idle ~> call[c] = Idle

(* A program that reached the backend in pieces is run as a whole: no run  *)
(* of the page is answered for a part of the text it was started with.     *)
AnswersAreForTheText ==
  \A c \in Fetches : call[c].kind = "run" /\ ok(c) => conn[c].answer.source = call[c].source

(* However runs overlap, fail or are answered out of order, the Run and    *)
(* Suite buttons are not left disabled.                                    *)
IdlePageIsReady ==
  /\ (\A c \in Fetches : call[c].kind # "run") => ~runDisabled
  /\ (\A c \in Fetches : call[c].kind # "suite") => ~suiteDisabled

(* The timelines below the cards are those of the cards' program           *)
(* (extension/README.md:13-17).  dashboard.js:306 and :314 redraw whatever *)
(* was answered last, which need not be what the page shows.               *)
TimelinesShowTheCards ==
  cards \notin {None, Empty} => timelines = [base |-> cards, ours |-> cards]
=============================================================================
