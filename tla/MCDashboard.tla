----------------------------- MODULE MCDashboard -----------------------------
(* Small instance of Dashboard: two calls of the page at a time, and a     *)
(* client that stays silent, sends too much, or part of a program.         *)
EXTENDS Dashboard

MCStrangeRequests ==
  {Request("static", "none", 4, 0), Request("run", "good", 1, 2), Request("run", "good", 1, 4)}
=============================================================================
