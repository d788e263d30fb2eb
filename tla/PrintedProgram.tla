--------------------------- MODULE PrintedProgram ---------------------------
(***************************************************************************)
(* What the compiler and the simulator promise together: once a source     *)
(* program is accepted, the matrices it prints are fixed, and they come    *)
(* out one at a time, in the order of the print statements, every one of   *)
(* them and nothing else.                                                  *)
(***************************************************************************)
EXTENDS Naturals, Sequences

VARIABLES
  accepted,   \* whether the front end has accepted the program
  program,    \* what the program prints
  printed     \* what has come out

vars == <<accepted, program, printed>>

Init == accepted = FALSE /\ program = << >> /\ printed = << >>

\* Any program may be accepted: program' is left open.
Accept == ~accepted /\ accepted' = TRUE /\ UNCHANGED printed

PrintNext ==
  /\ accepted /\ Len(printed) < Len(program)
  /\ printed' = Append(printed, program[Len(printed) + 1])
  /\ UNCHANGED <<accepted, program>>

Next == Accept \/ PrintNext

Spec == Init /\ [][Next]_vars /\ WF_vars(PrintNext)
=============================================================================
