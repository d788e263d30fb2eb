------------------------------ MODULE MDTPerf ------------------------------
(***************************************************************************)
(* The simulator's performance model: the counters recordPerfInstruction   *)
(* and recordRuntimeCost maintain while a program runs, the run-length     *)
(* encoded trace perfRuns_, and the pairing loop finalizePerformanceModel  *)
(* runs once over the finished trace, one action per iteration.            *)
(*                                                                         *)
(* PerfSpec drives the model with an arbitrary instruction stream; module  *)
(* MDTSimulator drives it with the instructions of a program.              *)
(***************************************************************************)
EXTENDS MDTIsa, Sequences

CONSTANTS
  MaxInstructions,  \* SimulatorOptions::maxInstructions
  TransferBytes,    \* the widths of a register transfer
  RuntimeCosts      \* cycle costs a runtime call may report (bounds TLC)

ASSUME PerfAssumption ==
  /\ MaxInstructions \in Nat
  /\ TransferBytes \subseteq Nat
  /\ RuntimeCosts \subseteq Nat

VARIABLES
  phase,                 \* where run() is
  result,                \* what the last run() returned
  instructionCount,
  bytesMovedDRAM,
  bytesMovedScratchpad,
  sequentialCycles,
  overlapAwareCycles,
  perfRuns,              \* the run-length-encoded trace
  classCycles,           \* history: cycles charged so far to each class
  finI,                  \* the pairing loop's index, from 1
  finTotal               \* the pairing loop's running total

counters == <<instructionCount, bytesMovedDRAM, bytesMovedScratchpad>>
trace    == <<sequentialCycles, perfRuns, classCycles>>
pairing  == <<overlapAwareCycles, finI, finTotal>>
perfVars == <<phase, result, counters, trace, pairing>>

Phase == {"idle", "loaded", "running", "finalizing", "done"}

NoCycles == [c \in PerfClass |-> 0]

\* `before` is history: the cycles each class had been charged when the run
\* was opened.  The code's pair is (cls, cycles).
PerfRun == [cls: PerfClass, cycles: Nat, before: [PerfClass -> Nat]]

-----------------------------------------------------------------------------
(* Recording.                                                              *)

MaxOf(a, b) == IF a > b THEN a ELSE b

\* Extend the last run when the class repeats, otherwise open a new one.
ExtendRuns(runs, before, cls, cycles) ==
  IF runs # <<>> /\ runs[Len(runs)].cls = cls
  THEN [runs EXCEPT ![Len(runs)].cycles = @ + cycles]
  ELSE Append(runs, [cls |-> cls, cycles |-> cycles, before |-> before])

Charge(cls, cycles) ==
  /\ sequentialCycles' = sequentialCycles + cycles
  /\ classCycles' = [classCycles EXCEPT ![cls] = @ + cycles]
  /\ perfRuns' = ExtendRuns(perfRuns, classCycles, cls, cycles)

recordPerfInstruction(op, scratchpadAccess, bytesMoved) ==
  /\ instructionCount' = instructionCount + 1
  /\ bytesMovedScratchpad' =
       bytesMovedScratchpad + (IF scratchpadAccess THEN bytesMoved ELSE 0)
  /\ bytesMovedDRAM' =
       bytesMovedDRAM + (IF scratchpadAccess THEN 0 ELSE bytesMoved)
  /\ Charge(classifyForPerf(op), instructionLatency(op, scratchpadAccess))

\* Mutant: a runtime call's cost always opens a run.
RuntimeRunsOpen(runs, before, cycles) ==
  Append(runs, [cls |-> "Other", cycles |-> cycles, before |-> before])

\* recordRuntimeCost extends the trace with code of its own.
RuntimeRuns(runs, before, cycles) ==
  IF runs # <<>> /\ runs[Len(runs)].cls = "Other"
  THEN [runs EXCEPT ![Len(runs)].cycles = @ + cycles]
  ELSE Append(runs, [cls |-> "Other", cycles |-> cycles, before |-> before])

\* A runtime call first charges its own cost, then is recorded as a CALL.
recordRuntimeCall(cycles, dramBytes) ==
  LET latency == instructionLatency("CALL", FALSE)
      charged == [classCycles EXCEPT !["Other"] = @ + cycles]
  IN /\ instructionCount' = instructionCount + 1
     /\ bytesMovedDRAM' = bytesMovedDRAM + dramBytes
     /\ UNCHANGED bytesMovedScratchpad
     /\ sequentialCycles' = sequentialCycles + cycles + latency
     /\ classCycles' = [charged EXCEPT !["Other"] = @ + latency]
     /\ perfRuns' = ExtendRuns(RuntimeRuns(perfRuns, classCycles, cycles),
                               charged, "Other", latency)

clearPerf ==
  /\ instructionCount' = 0 /\ bytesMovedDRAM' = 0 /\ bytesMovedScratchpad' = 0
  /\ sequentialCycles' = 0 /\ perfRuns' = <<>> /\ classCycles' = NoCycles
  /\ overlapAwareCycles' = 0

-----------------------------------------------------------------------------
(* Finalising: each Transfer or Compute run pairs with its right-hand      *)
(* neighbour of the other of these two classes, and with no other run.     *)

\* Mutant: control flow and runtime calls overlap with their neighbours.
HasAnyPartner(i) ==
  /\ i < Len(perfRuns)
  /\ perfRuns[i + 1].cls # perfRuns[i].cls

HasPartner(i) ==
  /\ i < Len(perfRuns)
  /\ perfRuns[i].cls # "Other"
  /\ perfRuns[i + 1].cls \notin {"Other", perfRuns[i].cls}

\* Mutant: the pairing loop's index is counted from zero.
LeaveLoopAtZero ==
  /\ phase = "running"
  /\ phase' = "finalizing" /\ finI' = 0 /\ finTotal' = 0
  /\ UNCHANGED <<result, counters, trace, overlapAwareCycles>>

LeaveLoop ==
  /\ phase = "running"
  /\ phase' = "finalizing" /\ finI' = 1 /\ finTotal' = 0
  /\ UNCHANGED <<result, counters, trace, overlapAwareCycles>>

\* Mutant: the rejected design of MDTSim.h:376-379, in which the second run
\* of a pair goes on to pair with its other neighbour.
FinalizeIterationTwice ==
  /\ phase = "finalizing"
  /\ finI <= Len(perfRuns)
  /\ finTotal' = finTotal + (IF HasPartner(finI)
                            THEN MaxOf(perfRuns[finI].cycles, perfRuns[finI + 1].cycles)
                            ELSE perfRuns[finI].cycles)
  /\ finI' = finI + 1
  /\ UNCHANGED <<phase, result, counters, trace, overlapAwareCycles>>

FinalizeIteration ==
  /\ phase = "finalizing"
  /\ finI <= Len(perfRuns)
  /\ \/ /\ HasPartner(finI)
        /\ finTotal' = finTotal + MaxOf(perfRuns[finI].cycles,
                                        perfRuns[finI + 1].cycles)
        /\ finI' = finI + 2
     \/ /\ ~HasPartner(finI)
        /\ finTotal' = finTotal + perfRuns[finI].cycles
        /\ finI' = finI + 1
  /\ UNCHANGED <<phase, result, counters, trace, overlapAwareCycles>>

\* The end of run(): the total is published and run() returns `ok`.
FinalizeEnd(ok) ==
  /\ phase = "finalizing"
  /\ finI > Len(perfRuns)
  /\ overlapAwareCycles' = finTotal
  /\ phase' = "done" /\ result' = ok
  /\ UNCHANGED <<counters, trace, finI, finTotal>>

-----------------------------------------------------------------------------
(* The model on its own, fed by any instruction stream.                    *)

PerfInit ==
  /\ phase = "idle" /\ result = FALSE
  /\ instructionCount = 0 /\ bytesMovedDRAM = 0 /\ bytesMovedScratchpad = 0
  /\ sequentialCycles = 0 /\ overlapAwareCycles = 0
  /\ perfRuns = <<>> /\ classCycles = NoCycles
  /\ finI = 1 /\ finTotal = 0

Prepare ==
  /\ phase \in {"idle", "done"}
  /\ phase' = "loaded"
  /\ UNCHANGED <<result, counters, trace, pairing>>

BeginRun ==
  /\ phase = "loaded"
  /\ phase' = "running"
  /\ clearPerf
  /\ UNCHANGED <<result, finI, finTotal>>

RecordInstruction ==
  /\ phase = "running"
  /\ instructionCount < MaxInstructions
  /\ \E op \in Opcode \ ({"HALT"} \cup MemoryOps) :
       recordPerfInstruction(op, FALSE, 0)
  /\ UNCHANGED <<phase, result, pairing>>

RecordTransfer ==
  /\ phase = "running"
  /\ instructionCount < MaxInstructions
  /\ \E op \in MemoryOps, scratch \in BOOLEAN, bytes \in TransferBytes :
       recordPerfInstruction(op, scratch, bytes)
  /\ UNCHANGED <<phase, result, pairing>>

RecordRuntimeCall ==
  /\ phase = "running"
  /\ instructionCount < MaxInstructions
  /\ \E cycles \in RuntimeCosts : recordRuntimeCall(cycles, 2 * cycles)
  /\ UNCHANGED <<phase, result, pairing>>

\* A failing instruction and the instruction limit both leave run() without
\* finalising.
AbortRun ==
  /\ phase = "running"
  /\ phase' = "done" /\ result' = FALSE
  /\ UNCHANGED <<counters, trace, pairing>>

PerfNext ==
  \/ Prepare \/ BeginRun \/ RecordInstruction \/ RecordTransfer
  \/ RecordRuntimeCall \/ AbortRun \/ LeaveLoop
  \/ FinalizeIteration \/ FinalizeEnd(TRUE)

PerfSpec == PerfInit /\ [][PerfNext]_perfVars

-----------------------------------------------------------------------------
(* Properties.                                                             *)

PerfTypeOK ==
  /\ phase \in Phase /\ result \in BOOLEAN
  /\ instructionCount \in Nat /\ bytesMovedDRAM \in Nat
  /\ bytesMovedScratchpad \in Nat
  /\ sequentialCycles \in Nat /\ overlapAwareCycles \in Nat
  /\ perfRuns \in Seq(PerfRun) /\ classCycles \in [PerfClass -> Nat]
  /\ finI \in Nat \ {0} /\ finTotal \in Nat

\* The three classes' cycles in f, added up.
AllCycles(f) == f["Transfer"] + f["Compute"] + f["Other"]

\* The least cost of f's cycles that two units working in parallel could
\* reach if nothing of class Other is ever hidden.
PerfectOverlap(f) == f["Other"] + MaxOf(f["Transfer"], f["Compute"])

\* What each class had been charged once run r was complete.
After(r) == [r.before EXCEPT ![r.cls] = @ + r.cycles]

(* The trace tiles the sequential estimate: the runs are maximal (two      *)
(* neighbours never share a class, which is what makes "run i pairs with   *)
(* i + 1" a pairing of whole runs), each starts where the one before it    *)
(* ended, and the last one ends at sequentialCycles.  It is violated as    *)
(* soon as one of the two record* functions charges one side only.         *)
RunsTileTheTrace ==
  /\ sequentialCycles = AllCycles(classCycles)
  /\ perfRuns = <<>> => classCycles = NoCycles
  /\ perfRuns # <<>> => /\ perfRuns[1].before = NoCycles
                        /\ After(perfRuns[Len(perfRuns)]) = classCycles
  /\ \A i \in 1 .. Len(perfRuns) - 1 :
       /\ perfRuns[i + 1].cls # perfRuns[i].cls
       /\ perfRuns[i + 1].before = After(perfRuns[i])

(* After a run that finished, the overlap-aware estimate never exceeds the *)
(* sequential one (MDTSim.h:379-381: exceeding it is "a self-evidently     *)
(* wrong result") and never claims more than a perfect overlap of all      *)
(* transfers with all compute, control flow and runtime calls being always *)
(* charged in full.                                                        *)
Finalised == phase = "done" /\ result

OverlapWithinBounds ==
  Finalised =>
    /\ overlapAwareCycles <= sequentialCycles
    /\ overlapAwareCycles >= PerfectOverlap(classCycles)

(* The estimates are meaningful once run() has returned, whatever it       *)
(* returned: MDTSim.h:296 says of performanceModel() "valid after run()    *)
(* returns".  A run that fails returns before finalizePerformanceModel.    *)
PerformanceModelValidAfterRun ==
  phase = "done" => overlapAwareCycles >= PerfectOverlap(classCycles)

(* The inductive strengthening: inside the loop the runs already consumed, *)
(* and only those, are accounted for.                                      *)
Consumed(i) == IF i <= Len(perfRuns) THEN perfRuns[i].before ELSE classCycles

PairingInv ==
  phase = "finalizing" =>
    /\ finI <= Len(perfRuns) + 1
    /\ finTotal <= AllCycles(Consumed(finI))
    /\ finTotal >= PerfectOverlap(Consumed(finI))

PerfInv == PerfTypeOK /\ RunsTileTheTrace /\ PairingInv /\ OverlapWithinBounds
=============================================================================
