------------------------------ MODULE Timeline ------------------------------
(***************************************************************************)
(* What the Lab draws of a run: mtxserve condenses the simulator's trace   *)
(* of runs into at most `limit` buckets of cycle position, each with its   *)
(* cycles of every class.  The edges of the buckets are accumulated in     *)
(* floating point; `late` holds the edges that rounding has moved past the *)
(* position they fall on.                                                  *)
(***************************************************************************)
EXTENDS MDTPerf

CONSTANT TimelineLimit     \* 600

ASSUME TimelineAssumption == TimelineLimit \in Nat \ {0}

\* An entry the timeline shows: the code's pair of a class and its cycles.
entry(cls, cycles) == [cls |-> cls, cycles |-> cycles]

sumOf(values) ==
  LET upTo[n \in 0 .. Len(values)] == IF n = 0 THEN 0 ELSE upTo[n - 1] + values[n]
  IN upTo[Len(values)]

total(runs) == sumOf([i \in 1 .. Len(runs) |-> runs[i].cycles])

\* flush() goes through the classes and writes those the bucket has cycles of.
written(out, bucket, cls) ==
  IF bucket[cls] = 0 THEN out ELSE Append(out, entry(cls, bucket[cls]))

flushed(out, bucket) ==
  written(written(written(out, bucket, "Transfer"), bucket, "Compute"), bucket, "Other")

\* Mutant: the first bucket ends where it begins.
StartAtZero == [out |-> << >>, shown |-> 0, bucket |-> NoCycles, pos |-> 0, edge |-> 0]

\* edge is the number of flushes made, plus one: the edge at edge * width.
\* shown is history: the flushes that wrote something, the buckets there are.
Start == [out |-> << >>, shown |-> 0, bucket |-> NoCycles, pos |-> 0, edge |-> 1]

flush(s) ==
  [s EXCEPT !.out = flushed(@, s.bucket), !.bucket = NoCycles,
            !.shown = IF s.bucket = NoCycles THEN @ ELSE @ + 1]

\* pos >= edge, width being sum / limit.
reached(s, sum, limit, late) ==
  LET at == s.edge * sum IN
  s.pos * limit > at \/ (s.pos * limit = at /\ s.edge \notin late)

step(s, run, sum, limit, late) ==
  LET t == [s EXCEPT !.bucket[run.cls] = @ + run.cycles, !.pos = @ + run.cycles] IN
  IF reached(t, sum, limit, late) THEN [flush(t) EXCEPT !.edge = @ + 1] ELSE t

timeline(runs, limit, late) ==
  LET sum == total(runs)
      upTo[i \in 0 .. Len(runs)] ==
        IF i = 0 THEN Start ELSE step(upTo[i - 1], runs[i], sum, limit, late)
  IN IF Len(runs) <= limit
     THEN [out |-> [i \in 1 .. Len(runs) |-> entry(runs[i].cls, runs[i].cycles)],
           shown |-> Len(runs)]
     ELSE LET last == flush(upTo[Len(runs)]) IN [out |-> last.out, shown |-> last.shown]

-----------------------------------------------------------------------------
(* Properties.                                                             *)

\* The cycles of a class that a timeline shows.
cyclesOf(out, cls) ==
  sumOf([i \in 1 .. Len(out) |-> IF out[i].cls = cls THEN out[i].cycles ELSE 0])

(* However the buckets fall, and wherever rounding puts their edges, the   *)
(* timeline shows of every class the cycles the run was charged, in at     *)
(* most `limit` buckets.                                                   *)
TimelineKeepsCycles ==
  Finalised =>
    \A late \in SUBSET (1 .. TimelineLimit) :
      LET drawn == timeline(perfRuns, TimelineLimit, late) IN
      /\ drawn.shown <= TimelineLimit
      /\ \A cls \in PerfClass : cyclesOf(drawn.out, cls) = classCycles[cls]
=============================================================================
