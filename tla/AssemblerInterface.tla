------------------------- MODULE AssemblerInterface -------------------------
(***************************************************************************)
(* What assemble() promises: a function of the text it is given, called    *)
(* any number of times on any texts.                                       *)
(***************************************************************************)
CONSTANTS
  Sources,      \* the programs assembled
  Translate(_), \* what each becomes
  Nothing       \* what there is before an answer, or when there is none

VARIABLES given, busy, out

vars == <<given, busy, out>>

Init == given = << >> /\ busy = FALSE /\ out = Nothing

Begin ==
  /\ ~busy /\ busy' = TRUE
  /\ given' \in Sources /\ out' = Nothing

Finish ==
  /\ busy /\ busy' = FALSE
  /\ out' = Translate(given)
  /\ UNCHANGED given

Next == Begin \/ Finish

Translates == Init /\ [][Next]_vars
=============================================================================
