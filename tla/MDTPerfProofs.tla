--------------------------- MODULE MDTPerfProofs ---------------------------
(***************************************************************************)
(* Proofs about the performance model, for every instruction stream, and   *)
(* about the timeline that is drawn of the trace it records.               *)
(***************************************************************************)
EXTENDS Timeline, Induction, SequenceTheorems

(* Every opcode has a class and a non-negative latency.                    *)
LEMMA LatencyType ==
  ASSUME NEW op \in Opcode, NEW scratch \in BOOLEAN
  PROVE  /\ classifyForPerf(op) \in PerfClass
         /\ instructionLatency(op, scratch) \in Nat
<1>1. classifyForPerf(op) \in PerfClass
  BY DEF classifyForPerf, PerfClass
<1>2. instructionLatency(op, scratch) \in Nat
  BY DEF instructionLatency
<1> QED BY <1>1, <1>2

(* What one charge keeps true of the recorded trace.                       *)
TraceTypeOK ==
  /\ sequentialCycles \in Nat
  /\ perfRuns \in Seq(PerfRun)
  /\ classCycles \in [PerfClass -> Nat]

(* Charging a class keeps the runs maximal and tiling the sequential       *)
(* estimate, whether the charge extends the last run or opens a new one.   *)
LEMMA ChargeTiles ==
  ASSUME TraceTypeOK, RunsTileTheTrace,
         NEW cls \in PerfClass, NEW cycles \in Nat, Charge(cls, cycles)
  PROVE  TraceTypeOK' /\ RunsTileTheTrace'
<1> DEFINE n == Len(perfRuns)
<1>1. /\ sequentialCycles' = sequentialCycles + cycles
      /\ classCycles' = [classCycles EXCEPT ![cls] = @ + cycles]
      /\ perfRuns' = ExtendRuns(perfRuns, classCycles, cls, cycles)
  BY DEF Charge
<1>2. /\ sequentialCycles' \in Nat
      /\ classCycles' \in [PerfClass -> Nat]
  BY <1>1 DEF TraceTypeOK
<1>3. sequentialCycles' = AllCycles(classCycles')
  BY <1>1 DEF TraceTypeOK, RunsTileTheTrace, AllCycles, PerfClass
<1>4. CASE perfRuns # <<>> /\ perfRuns[n].cls = cls
  <2>1. n \in Nat \ {0} /\ perfRuns[n] \in PerfRun
    BY <1>4 DEF TraceTypeOK
  <2>2. perfRuns' = [perfRuns EXCEPT ![n].cycles = @ + cycles]
    BY <1>1, <1>4, <2>1 DEF ExtendRuns, TraceTypeOK
  <2> DEFINE longer == [perfRuns[n] EXCEPT !.cycles = perfRuns[n].cycles + cycles]
  <2>3. perfRuns' = [perfRuns EXCEPT ![n] = longer] /\ longer \in PerfRun
    <3>1. perfRuns' = [perfRuns EXCEPT ![n] = longer]
      BY <2>2
    <3>2. longer \in PerfRun
      BY <2>1 DEF PerfRun
    <3> QED BY <3>1, <3>2
  <2>4. perfRuns' \in Seq(PerfRun) /\ Len(perfRuns') = n
    BY <2>1, <2>3 DEF TraceTypeOK
  <2>5. /\ perfRuns'[n].cls = cls
        /\ perfRuns'[n].before = perfRuns[n].before
        /\ perfRuns'[n].cycles = perfRuns[n].cycles + cycles
    BY <1>4, <2>1, <2>2 DEF PerfRun, TraceTypeOK
  <2>6. \A i \in 1 .. n - 1 : perfRuns'[i] = perfRuns[i]
    BY <2>1, <2>2 DEF TraceTypeOK
  <2>7. After(perfRuns'[n]) = classCycles'
    <3> DEFINE b == perfRuns[n].before
               k == perfRuns[n].cycles
    <3>1. b \in [PerfClass -> Nat] /\ k \in Nat
      BY <2>1 DEF PerfRun
    <3>2. classCycles = [b EXCEPT ![cls] = b[cls] + k]
      BY <1>4 DEF RunsTileTheTrace, After
    <3>3. After(perfRuns'[n]) = [b EXCEPT ![cls] = b[cls] + (k + cycles)]
      BY <2>5 DEF After
    <3>4. classCycles' = [classCycles EXCEPT ![cls] = classCycles[cls] + cycles]
      BY <1>1
    <3> HIDE DEF b, k
    <3>5. classCycles[cls] = b[cls] + k
      BY <3>1, <3>2
    <3>6. classCycles' = [b EXCEPT ![cls] = classCycles[cls] + cycles]
      BY <3>1, <3>2, <3>4
    <3>7. classCycles[cls] + cycles = b[cls] + (k + cycles)
      BY <3>1, <3>5
    <3> QED BY <3>3, <3>6, <3>7
  <2>8. perfRuns'[1].before = NoCycles
    BY <1>4, <2>1, <2>5, <2>6 DEF RunsTileTheTrace
  <2>9. ASSUME NEW i \in 1 .. n - 1
        PROVE  /\ perfRuns'[i + 1].cls # perfRuns'[i].cls
               /\ perfRuns'[i + 1].before = After(perfRuns'[i])
    <3>1. perfRuns'[i] = perfRuns[i]
      BY <2>6
    <3>2. /\ perfRuns'[i + 1].cls = perfRuns[i + 1].cls
          /\ perfRuns'[i + 1].before = perfRuns[i + 1].before
      <4>1. CASE i + 1 = n
        BY <1>4, <2>5, <4>1
      <4>2. CASE i + 1 # n
        <5>1. i + 1 \in 1 .. n - 1
          BY <2>1, <4>2
        <5> QED BY <2>6, <5>1
      <4> QED BY <4>1, <4>2
    <3>3. /\ perfRuns[i + 1].cls # perfRuns[i].cls
          /\ perfRuns[i + 1].before = After(perfRuns[i])
      BY DEF RunsTileTheTrace
    <3> QED BY <3>1, <3>2, <3>3
  <2>10. perfRuns' # <<>>
    BY <2>1, <2>4
  <2> QED BY <1>2, <1>3, <2>4, <2>7, <2>8, <2>9, <2>10
          DEF TraceTypeOK, RunsTileTheTrace
<1>5. CASE ~(perfRuns # <<>> /\ perfRuns[n].cls = cls)
  <2> DEFINE new == [cls |-> cls, cycles |-> cycles, before |-> classCycles]
  <2>1. perfRuns' = Append(perfRuns, new)
    BY <1>1, <1>5 DEF ExtendRuns
  <2>2. new \in PerfRun
    BY DEF PerfRun, TraceTypeOK
  <2>3. /\ n \in Nat
        /\ perfRuns' \in Seq(PerfRun) /\ Len(perfRuns') = n + 1
        /\ \A i \in 1 .. n : perfRuns'[i] = perfRuns[i]
        /\ perfRuns'[n + 1] = new
    BY <2>1, <2>2 DEF TraceTypeOK
  <2>4. perfRuns' # <<>>
    BY <2>3
  <2>5. After(perfRuns'[n + 1]) = classCycles'
    BY <1>1, <2>3 DEF After
  <2>6. CASE perfRuns = <<>>
    <3>1. n = 0 /\ classCycles = NoCycles
      BY <2>6 DEF RunsTileTheTrace
    <3> QED BY <1>2, <1>3, <2>3, <2>4, <2>5, <3>1
            DEF TraceTypeOK, RunsTileTheTrace
  <2>7. CASE perfRuns # <<>>
    <3>1. n \in Nat \ {0} /\ perfRuns[n].cls # cls
      BY <1>5, <2>3, <2>7 DEF TraceTypeOK
    <3>2. perfRuns'[1].before = NoCycles
      BY <2>3, <2>7, <3>1 DEF RunsTileTheTrace
    <3>3. ASSUME NEW i \in 1 .. n
          PROVE  /\ perfRuns'[i + 1].cls # perfRuns'[i].cls
                 /\ perfRuns'[i + 1].before = After(perfRuns'[i])
      <4>1. perfRuns'[i] = perfRuns[i] /\ After(perfRuns'[i]) = After(perfRuns[i])
        BY <2>3 DEF After
      <4>2. CASE i = n
        <5>1. After(perfRuns[n]) = classCycles
          BY <2>7 DEF RunsTileTheTrace
        <5> QED BY <2>3, <3>1, <4>1, <4>2, <5>1
      <4>3. CASE i # n
        <5>1. i \in 1 .. n - 1 /\ i + 1 \in 1 .. n
          BY <2>3, <4>3
        <5>2. /\ perfRuns[i + 1].cls # perfRuns[i].cls
              /\ perfRuns[i + 1].before = After(perfRuns[i])
          BY <5>1 DEF RunsTileTheTrace
        <5> QED BY <2>3, <4>1, <5>1, <5>2
      <4> QED BY <4>2, <4>3
    <3>4. 1 .. Len(perfRuns') - 1 = 1 .. n /\ Len(perfRuns') = n + 1
      BY <2>3
    <3>5. \A i \in 1 .. Len(perfRuns') - 1 :
             /\ perfRuns'[i + 1].cls # perfRuns'[i].cls
             /\ perfRuns'[i + 1].before = After(perfRuns'[i])
      BY <3>3, <3>4
    <3>6. After(perfRuns'[Len(perfRuns')]) = classCycles'
      BY <2>5, <3>4
    <3> QED BY <1>2, <1>3, <2>3, <2>4, <3>2, <3>5, <3>6
            DEF TraceTypeOK, RunsTileTheTrace
  <2> QED BY <2>6, <2>7
<1> QED BY <1>4, <1>5

-----------------------------------------------------------------------------
(* Runtime calls and instructions keep the type and the tiling: what every *)
(* recording step of a running machine does to the model.                  *)
Recording(cls, cycles) ==
  /\ phase = "running"
  /\ instructionCount' = instructionCount + 1
  /\ bytesMovedDRAM' \in Nat /\ bytesMovedScratchpad' \in Nat
  /\ Charge(cls, cycles)
  /\ UNCHANGED <<phase, result, pairing>>

(* A recording step preserves the whole invariant.                         *)
LEMMA RecordingPreserves ==
  ASSUME PerfInv, NEW cls \in PerfClass, NEW cycles \in Nat,
         Recording(cls, cycles)
  PROVE  PerfInv'
<1>1. TraceTypeOK /\ RunsTileTheTrace
  BY DEF PerfInv, PerfTypeOK, TraceTypeOK
<1>2. TraceTypeOK' /\ RunsTileTheTrace'
  <2>1. Charge(cls, cycles)
    BY DEF Recording
  <2> QED BY <1>1, <2>1, ChargeTiles
<1>3. PerfTypeOK'
  BY <1>2 DEF PerfInv, PerfTypeOK, TraceTypeOK, Recording, pairing
<1>4. PairingInv' /\ OverlapWithinBounds'
  BY DEF Recording, PairingInv, OverlapWithinBounds, Finalised
<1> QED BY <1>2, <1>3, <1>4 DEF PerfInv

(* Recording an instruction of any class and width is such a step.         *)
LEMMA InstructionPreserves ==
  ASSUME PerfInv, phase = "running", UNCHANGED <<phase, result, pairing>>,
         NEW op \in Opcode, NEW scratch \in BOOLEAN, NEW bytes \in Nat,
         recordPerfInstruction(op, scratch, bytes)
  PROVE  PerfInv'
<1>1. bytesMovedDRAM \in Nat /\ bytesMovedScratchpad \in Nat
  BY DEF PerfInv, PerfTypeOK
<1>2. bytesMovedDRAM' \in Nat /\ bytesMovedScratchpad' \in Nat
  <2>1. CASE scratch
    BY <1>1, <2>1 DEF recordPerfInstruction
  <2>2. CASE ~scratch
    BY <1>1, <2>2 DEF recordPerfInstruction
  <2> QED BY <2>1, <2>2
<1>3. Recording(classifyForPerf(op), instructionLatency(op, scratch))
  BY <1>2 DEF recordPerfInstruction, Recording
<1> QED BY <1>3, LatencyType, RecordingPreserves

(* Adding to a run's cycles twice is adding the sum once.                  *)
LEMMA AddTwice ==
  ASSUME NEW x \in PerfRun, NEW a \in Nat, NEW b \in Nat
  PROVE  LET y == [x EXCEPT !.cycles = @ + a]
         IN /\ y.cls = x.cls
            /\ [y EXCEPT !.cycles = @ + b] = [x EXCEPT !.cycles = @ + (a + b)]
<1> DEFINE y == [x EXCEPT !.cycles = @ + a]
<1>1. x = [cls |-> x.cls, cycles |-> x.cycles, before |-> x.before] /\ x.cycles \in Nat
  BY DEF PerfRun
<1>2. y = [cls |-> x.cls, cycles |-> x.cycles + a, before |-> x.before]
  BY <1>1
<1>3. [x EXCEPT !.cycles = @ + (a + b)]
      = [cls |-> x.cls, cycles |-> x.cycles + (a + b), before |-> x.before]
  BY <1>1
<1> HIDE DEF y
<1>4. [y EXCEPT !.cycles = @ + b]
      = [cls |-> x.cls, cycles |-> (x.cycles + a) + b, before |-> x.before]
  BY <1>2
<1>5. (x.cycles + a) + b = x.cycles + (a + b)
  BY <1>1
<1>6. y.cls = x.cls /\ [y EXCEPT !.cycles = @ + b] = [x EXCEPT !.cycles = @ + (a + b)]
  BY <1>2, <1>3, <1>4, <1>5
<1> QED BY <1>6 DEF y

(* Overwriting the element just appended.                                  *)
LEMMA ReplaceLast ==
  ASSUME NEW S, NEW s \in Seq(S), NEW x \in S, NEW y \in S
  PROVE  [Append(s, x) EXCEPT ![Len(s) + 1] = y] = Append(s, y)
<1> DEFINE a == Append(s, x)
           b == Append(s, y)
           t == [a EXCEPT ![Len(s) + 1] = y]
<1>1. /\ a \in Seq(S) /\ Len(a) = Len(s) + 1 /\ Len(s) \in Nat
      /\ \A i \in 1 .. Len(s) : a[i] = s[i]
  BY AppendProperties, LenProperties
<1>2. /\ b \in Seq(S) /\ Len(b) = Len(s) + 1 /\ b[Len(s) + 1] = y
      /\ \A i \in 1 .. Len(s) : b[i] = s[i]
  BY AppendProperties, LenProperties
<1> HIDE DEF a, b
<1>3. /\ t \in Seq(S) /\ Len(t) = Len(a)
      /\ \A i \in 1 .. Len(a) : t[i] = IF i = Len(s) + 1 THEN y ELSE a[i]
  <2>1. Len(s) + 1 \in 1 .. Len(a)
    BY <1>1
  <2> QED BY <1>1, <2>1, ExceptSeq
<1> HIDE DEF t
<1>4. \A i \in 1 .. Len(t) : t[i] = b[i]
  BY <1>1, <1>2, <1>3
<1>5. t = b
  BY <1>1, <1>2, <1>3, <1>4, SeqEqual
<1> QED BY <1>5 DEF a, b, t

ChargedOther(f, cycles) == [f EXCEPT !["Other"] = @ + cycles]

(* The two charges of a runtime call, made by two copies of the same code, *)
(* are one charge of class Other: the call is recorded in the run that its *)
(* cost has extended or opened.                                            *)
LEMMA TwoCharges ==
  ASSUME NEW runs \in Seq(PerfRun), NEW spent \in [PerfClass -> Nat],
         NEW cycles \in Nat, NEW latency \in Nat
  PROVE  /\ ChargedOther(ChargedOther(spent, cycles), latency) = ChargedOther(spent, cycles + latency)
         /\ ExtendRuns(RuntimeRuns(runs, spent, cycles), ChargedOther(spent, cycles), "Other", latency)
              = ExtendRuns(runs, spent, "Other", cycles + latency)
<1> DEFINE n == Len(runs)
           charged == ChargedOther(spent, cycles)
           mid == RuntimeRuns(runs, spent, cycles)
<1>1. "Other" \in PerfClass
  BY DEF PerfClass
<1>2. ChargedOther(charged, latency) = ChargedOther(spent, cycles + latency)
  <2>1. spent["Other"] \in Nat /\ charged["Other"] = spent["Other"] + cycles
    BY <1>1 DEF ChargedOther
  <2>2. charged["Other"] + latency = spent["Other"] + (cycles + latency)
    BY <2>1
  <2> QED BY <1>1, <2>2 DEF ChargedOther
<1> HIDE DEF charged
<1>3. CASE runs # << >> /\ runs[n].cls = "Other"
  <2>1. n \in 1 .. n /\ runs[n] \in PerfRun
    BY <1>3
  <2> DEFINE r1 == [runs[n] EXCEPT !.cycles = @ + cycles]
             r2 == [runs[n] EXCEPT !.cycles = @ + (cycles + latency)]
  <2>2. r1.cls = "Other" /\ [r1 EXCEPT !.cycles = @ + latency] = r2
    <3> DEFINE x == runs[n]
    <3>1. x \in PerfRun /\ x.cls = "Other"
      BY <1>3, <2>1
    <3> HIDE DEF x
    <3>2. LET y == [x EXCEPT !.cycles = @ + cycles]
          IN /\ y.cls = x.cls
             /\ [y EXCEPT !.cycles = @ + latency] = [x EXCEPT !.cycles = @ + (cycles + latency)]
      BY <3>1, AddTwice
    <3> QED BY <3>1, <3>2 DEF x
  <2>3. mid = [runs EXCEPT ![n] = r1]
    BY <1>3 DEF RuntimeRuns
  <2>4. ExtendRuns(runs, spent, "Other", cycles + latency) = [runs EXCEPT ![n] = r2]
    BY <1>3 DEF ExtendRuns
  <2> HIDE DEF mid, r1, r2
  <2>5. mid # << >> /\ Len(mid) = n /\ mid[n] = r1
    BY <2>1, <2>3
  <2>6. ExtendRuns(mid, charged, "Other", latency)
        = [mid EXCEPT ![n] = [r1 EXCEPT !.cycles = @ + latency]]
    BY <2>2, <2>5 DEF ExtendRuns
  <2>7. [mid EXCEPT ![n] = r2] = [runs EXCEPT ![n] = r2]
    BY <2>1, <2>3
  <2> QED BY <1>2, <2>2, <2>4, <2>6, <2>7 DEF mid, charged
<1>4. CASE ~(runs # << >> /\ runs[n].cls = "Other")
  <2> DEFINE r1 == [cls |-> "Other", cycles |-> cycles, before |-> spent]
             r2 == [cls |-> "Other", cycles |-> cycles + latency, before |-> spent]
  <2>1. r1.cls = "Other" /\ [r1 EXCEPT !.cycles = @ + latency] = r2
    OBVIOUS
  <2>2. mid = Append(runs, r1)
    BY <1>4 DEF RuntimeRuns
  <2>3. ExtendRuns(runs, spent, "Other", cycles + latency) = Append(runs, r2)
    BY <1>4 DEF ExtendRuns
  <2>7. r1 \in PerfRun /\ r2 \in PerfRun
    BY <1>1 DEF PerfRun
  <2> HIDE DEF mid, r1, r2
  <2>4. mid # << >> /\ Len(mid) = n + 1 /\ mid[n + 1] = r1
    BY <2>2
  <2>5. ExtendRuns(mid, charged, "Other", latency)
        = [mid EXCEPT ![n + 1] = [r1 EXCEPT !.cycles = @ + latency]]
    BY <2>1, <2>4 DEF ExtendRuns
  <2>6. [mid EXCEPT ![n + 1] = r2] = Append(runs, r2)
    BY <2>2, <2>7, ReplaceLast
  <2> QED BY <1>2, <2>1, <2>3, <2>5, <2>6 DEF mid, charged
<1> QED BY <1>3, <1>4

(* And so is recording a runtime call of any cost.                         *)
LEMMA RuntimeCallPreserves ==
  ASSUME PerfInv, phase = "running", UNCHANGED <<phase, result, pairing>>,
         NEW cycles \in Nat, NEW bytes \in Nat,
         recordRuntimeCall(cycles, bytes)
  PROVE  PerfInv'
<1> DEFINE k == cycles + instructionLatency("CALL", FALSE)
<1>1. "CALL" \in Opcode
  BY DEF Opcode, BranchOps
<1>2. k \in Nat
  <2> DEFINE l == instructionLatency("CALL", FALSE)
  <2>1. l \in Nat
    BY <1>1, LatencyType
  <2> HIDE DEF l
  <2>2. cycles + l \in Nat
    BY <2>1
  <2> QED BY <2>2 DEF l
<1>3. bytesMovedDRAM' \in Nat /\ bytesMovedScratchpad' \in Nat
  BY DEF recordRuntimeCall, PerfInv, PerfTypeOK
<1>4. Recording("Other", k)
  <2> DEFINE l == instructionLatency("CALL", FALSE)
             charged == [classCycles EXCEPT !["Other"] = @ + cycles]
  <2>1. l \in Nat /\ perfRuns \in Seq(PerfRun) /\ classCycles \in [PerfClass -> Nat]
        /\ sequentialCycles \in Nat
    BY <1>1, LatencyType DEF PerfInv, PerfTypeOK
  <2>2. /\ sequentialCycles' = sequentialCycles + cycles + l
        /\ classCycles' = [charged EXCEPT !["Other"] = @ + l]
        /\ perfRuns' = ExtendRuns(RuntimeRuns(perfRuns, classCycles, cycles), charged, "Other", l)
        /\ instructionCount' = instructionCount + 1
    BY DEF recordRuntimeCall
  <2>3. charged = [classCycles EXCEPT !["Other"] = @ + cycles] /\ k = cycles + l
    OBVIOUS
  <2> HIDE DEF l, charged, k
  <2>4. /\ [charged EXCEPT !["Other"] = @ + l] = [classCycles EXCEPT !["Other"] = @ + (cycles + l)]
        /\ ExtendRuns(RuntimeRuns(perfRuns, classCycles, cycles), charged, "Other", l)
             = ExtendRuns(perfRuns, classCycles, "Other", cycles + l)
    <3>1. charged = ChargedOther(classCycles, cycles)
      BY <2>3 DEF ChargedOther
    <3>2. /\ ChargedOther(ChargedOther(classCycles, cycles), l) = ChargedOther(classCycles, cycles + l)
          /\ ExtendRuns(RuntimeRuns(perfRuns, classCycles, cycles), ChargedOther(classCycles, cycles),
                        "Other", l)
               = ExtendRuns(perfRuns, classCycles, "Other", cycles + l)
      BY <2>1, TwoCharges
    <3> QED BY <3>1, <3>2 DEF ChargedOther
  <2>5. sequentialCycles + cycles + l = sequentialCycles + k
    BY <2>1, <2>3
  <2>6. Charge("Other", k)
    BY <2>2, <2>3, <2>4, <2>5 DEF Charge
  <2> QED BY <1>3, <2>2, <2>6 DEF Recording
<1>5. "Other" \in PerfClass
  BY DEF PerfClass
<1> HIDE DEF k
<1> QED BY <1>2, <1>4, <1>5, RecordingPreserves

(* Run i of the trace sits between what was consumed before and after it.  *)
LEMMA ConsumedStep ==
  ASSUME TraceTypeOK, RunsTileTheTrace, NEW i \in 1 .. Len(perfRuns)
  PROVE  /\ perfRuns[i] \in PerfRun
         /\ Consumed(i) = perfRuns[i].before
         /\ Consumed(i) \in [PerfClass -> Nat]
         /\ Consumed(i + 1) =
              [Consumed(i) EXCEPT ![perfRuns[i].cls] =
                 Consumed(i)[perfRuns[i].cls] + perfRuns[i].cycles]
         /\ Consumed(i + 1) \in [PerfClass -> Nat]
<1>1. /\ i \in Nat /\ i <= Len(perfRuns) /\ Len(perfRuns) \in Nat
      /\ perfRuns[i] \in PerfRun /\ perfRuns # <<>>
  BY DEF TraceTypeOK
<1>2. Consumed(i) = perfRuns[i].before
  BY <1>1 DEF Consumed
<1>3. perfRuns[i].before \in [PerfClass -> Nat]
  BY <1>1 DEF PerfRun
<1>4. Consumed(i + 1) = After(perfRuns[i])
  <2>1. CASE i < Len(perfRuns)
    <3>1. i \in 1 .. Len(perfRuns) - 1 /\ i + 1 <= Len(perfRuns)
      BY <1>1, <2>1
    <3>2. perfRuns[i + 1].before = After(perfRuns[i])
      BY <3>1 DEF RunsTileTheTrace
    <3> QED BY <3>1, <3>2 DEF Consumed
  <2>2. CASE i = Len(perfRuns)
    <3>1. ~(i + 1 <= Len(perfRuns))
      BY <1>1, <2>2
    <3> QED BY <1>1, <2>2, <3>1 DEF Consumed, RunsTileTheTrace
  <2> QED BY <1>1, <2>1, <2>2
<1>5. Consumed(i + 1) =
        [Consumed(i) EXCEPT ![perfRuns[i].cls] =
           Consumed(i)[perfRuns[i].cls] + perfRuns[i].cycles]
  BY <1>2, <1>4 DEF After
<1>6. Consumed(i + 1) \in [PerfClass -> Nat]
  BY <1>1, <1>2, <1>3, <1>5 DEF PerfRun
<1> QED BY <1>1, <1>2, <1>3, <1>5, <1>6

(* The arithmetic of one run consumed alone: both bounds survive adding    *)
(* its cycles to its class and to the total.                               *)
LEMMA AloneArithmetic ==
  ASSUME NEW f \in [PerfClass -> Nat], NEW c \in PerfClass, NEW k \in Nat,
         NEW cycles \in Nat,
         cycles <= AllCycles(f), cycles >= PerfectOverlap(f),
         NEW g, g = [f EXCEPT ![c] = f[c] + k]
  PROVE  /\ cycles + k <= AllCycles(g)
         /\ cycles + k >= PerfectOverlap(g)
<1>1. /\ f["Transfer"] \in Nat /\ f["Compute"] \in Nat /\ f["Other"] \in Nat
      /\ g["Transfer"] = IF c = "Transfer" THEN f["Transfer"] + k ELSE f["Transfer"]
      /\ g["Compute"] = IF c = "Compute" THEN f["Compute"] + k ELSE f["Compute"]
      /\ g["Other"] = IF c = "Other" THEN f["Other"] + k ELSE f["Other"]
  BY DEF PerfClass
<1>2. c = "Transfer" \/ c = "Compute" \/ c = "Other"
  BY DEF PerfClass
<1> QED BY <1>1, <1>2 DEF AllCycles, PerfectOverlap, MaxOf

(* The arithmetic of a pair: a Transfer and a Compute run, in either       *)
(* order, counted as the longer of the two.                                *)
LEMMA PairArithmetic ==
  ASSUME NEW f \in [PerfClass -> Nat],
         NEW c \in PerfClass, NEW k \in Nat, NEW d \in PerfClass, NEW m \in Nat,
         c # "Other", d # "Other", c # d,
         NEW cycles \in Nat,
         cycles <= AllCycles(f), cycles >= PerfectOverlap(f),
         NEW g, g = [f EXCEPT ![c] = f[c] + k],
         NEW h, h = [g EXCEPT ![d] = g[d] + m]
  PROVE  /\ cycles + MaxOf(k, m) <= AllCycles(h)
         /\ cycles + MaxOf(k, m) >= PerfectOverlap(h)
<1>1. /\ f["Transfer"] \in Nat /\ f["Compute"] \in Nat /\ f["Other"] \in Nat
      /\ g \in [PerfClass -> Nat]
  BY DEF PerfClass
<1>2. /\ h["Transfer"] = f["Transfer"] + (IF c = "Transfer" THEN k ELSE m)
      /\ h["Compute"] = f["Compute"] + (IF c = "Compute" THEN k ELSE m)
      /\ h["Other"] = f["Other"]
  BY <1>1 DEF PerfClass
<1>3. (c = "Transfer" /\ d = "Compute") \/ (c = "Compute" /\ d = "Transfer")
  BY DEF PerfClass
<1> QED BY <1>1, <1>2, <1>3 DEF AllCycles, PerfectOverlap, MaxOf

-----------------------------------------------------------------------------
(* One iteration of the pairing loop, whichever branch it takes.           *)
LEMMA FinalizeIterationPreserves ==
  ASSUME PerfInv, FinalizeIteration
  PROVE  PerfInv'
<1> DEFINE i == finI
<1>1. /\ TraceTypeOK /\ RunsTileTheTrace
      /\ i \in 1 .. Len(perfRuns) /\ finTotal \in Nat /\ Len(perfRuns) \in Nat
      /\ finTotal <= AllCycles(Consumed(i))
      /\ finTotal >= PerfectOverlap(Consumed(i))
  BY DEF PerfInv, PerfTypeOK, PairingInv, TraceTypeOK, FinalizeIteration
<1>2. /\ UNCHANGED <<phase, result, counters, trace, overlapAwareCycles>>
      /\ phase = "finalizing"
  BY DEF FinalizeIteration
<1>3. RunsTileTheTrace' /\ OverlapWithinBounds'
  BY <1>1, <1>2 DEF RunsTileTheTrace, OverlapWithinBounds, Finalised, trace, After
<1>4. /\ perfRuns[i] \in PerfRun
      /\ Consumed(i) \in [PerfClass -> Nat]
      /\ Consumed(i + 1) \in [PerfClass -> Nat]
      /\ Consumed(i + 1) =
           [Consumed(i) EXCEPT ![perfRuns[i].cls] =
              Consumed(i)[perfRuns[i].cls] + perfRuns[i].cycles]
  BY <1>1, ConsumedStep
<1>5. perfRuns[i].cls \in PerfClass /\ perfRuns[i].cycles \in Nat
  BY <1>4 DEF PerfRun
<1>6. CASE /\ HasPartner(i)
           /\ finTotal' = finTotal + MaxOf(perfRuns[i].cycles, perfRuns[i + 1].cycles)
           /\ finI' = i + 2
  <2> DEFINE j == i + 1
  <2>1. /\ j \in 1 .. Len(perfRuns) /\ j + 1 = i + 2
        /\ perfRuns[i].cls # "Other" /\ perfRuns[j].cls # "Other"
        /\ perfRuns[i].cls # perfRuns[j].cls
    BY <1>1, <1>6 DEF HasPartner
  <2>2. /\ perfRuns[j] \in PerfRun
        /\ Consumed(j + 1) =
             [Consumed(j) EXCEPT ![perfRuns[j].cls] =
                Consumed(j)[perfRuns[j].cls] + perfRuns[j].cycles]
    BY <1>1, <2>1, ConsumedStep
  <2>3. perfRuns[j].cls \in PerfClass /\ perfRuns[j].cycles \in Nat
    BY <2>2 DEF PerfRun
  <2>4. /\ finTotal' <= AllCycles(Consumed(i + 2))
        /\ finTotal' >= PerfectOverlap(Consumed(i + 2))
    <3> DEFINE c == perfRuns[i].cls
               k == perfRuns[i].cycles
               d == perfRuns[j].cls
               m == perfRuns[j].cycles
               f == Consumed(i)
               g == Consumed(j)
               h == Consumed(i + 2)
    <3>1. /\ f \in [PerfClass -> Nat] /\ c \in PerfClass /\ k \in Nat
          /\ d \in PerfClass /\ m \in Nat
          /\ c # "Other" /\ d # "Other" /\ c # d
          /\ finTotal \in Nat
          /\ finTotal <= AllCycles(f) /\ finTotal >= PerfectOverlap(f)
      BY <1>1, <1>4, <1>5, <2>1, <2>3
    <3>2. g = [f EXCEPT ![c] = f[c] + k]
      BY <1>4
    <3>3. h = [g EXCEPT ![d] = g[d] + m]
      BY <2>1, <2>2
    <3>4. finTotal' = finTotal + MaxOf(k, m)
      BY <1>6
    <3> HIDE DEF c, k, d, m, f, g, h
    <3>5. /\ finTotal + MaxOf(k, m) <= AllCycles(h)
          /\ finTotal + MaxOf(k, m) >= PerfectOverlap(h)
      BY <3>1, <3>2, <3>3, PairArithmetic
    <3> QED BY <3>4, <3>5 DEF h
  <2>5. finTotal' \in Nat /\ finI' \in Nat \ {0} /\ finI' <= Len(perfRuns) + 1
    <3>1. MaxOf(perfRuns[i].cycles, perfRuns[j].cycles) \in Nat
      BY <1>5, <2>3 DEF MaxOf
    <3> QED BY <1>1, <1>6, <2>1, <3>1
  <2>6. Consumed(finI)' = Consumed(i + 2) /\ Len(perfRuns') = Len(perfRuns)
    BY <1>2, <1>6 DEF Consumed, trace
  <2>7. PairingInv'
    BY <2>4, <2>5, <2>6 DEF PairingInv
  <2>8. PerfTypeOK'
    BY <1>2, <2>5 DEF PerfInv, PerfTypeOK, counters, trace
  <2> QED BY <1>3, <2>7, <2>8 DEF PerfInv
<1>7. CASE /\ ~HasPartner(i)
           /\ finTotal' = finTotal + perfRuns[i].cycles
           /\ finI' = i + 1
  <2>1. /\ finTotal' <= AllCycles(Consumed(i + 1))
        /\ finTotal' >= PerfectOverlap(Consumed(i + 1))
    <3> HIDE DEF i
    <3> QED BY <1>1, <1>4, <1>5, <1>7, AloneArithmetic
  <2>2. finTotal' \in Nat /\ finI' \in Nat \ {0} /\ finI' <= Len(perfRuns) + 1
    BY <1>1, <1>5, <1>7
  <2>3. Consumed(finI)' = Consumed(i + 1) /\ Len(perfRuns') = Len(perfRuns)
    BY <1>2, <1>7 DEF Consumed, trace
  <2>4. PairingInv'
    BY <2>1, <2>2, <2>3 DEF PairingInv
  <2>5. PerfTypeOK'
    BY <1>2, <2>2 DEF PerfInv, PerfTypeOK, counters, trace
  <2> QED BY <1>3, <2>4, <2>5 DEF PerfInv
<1> QED BY <1>6, <1>7 DEF FinalizeIteration

(* Leaving the loop starts the pairing at its first run with nothing       *)
(* consumed.                                                               *)
LEMMA LeaveLoopPreserves ==
  ASSUME PerfInv, LeaveLoop
  PROVE  PerfInv'
<1>1. /\ perfRuns' = perfRuns /\ classCycles' = classCycles
      /\ sequentialCycles' = sequentialCycles /\ phase' = "finalizing"
      /\ finI' = 1 /\ finTotal' = 0
  BY DEF LeaveLoop, trace
<1>2. Consumed(1) = NoCycles
  BY DEF PerfInv, PerfTypeOK, RunsTileTheTrace, Consumed
<1>3. Consumed(finI)' = NoCycles
  BY <1>1, <1>2 DEF Consumed
<1>4. AllCycles(NoCycles) = 0 /\ PerfectOverlap(NoCycles) = 0
  BY DEF AllCycles, PerfectOverlap, NoCycles, PerfClass, MaxOf
<1>5. PairingInv'
  BY <1>1, <1>3, <1>4 DEF PairingInv, PerfInv, PerfTypeOK
<1>6. PerfTypeOK'
  BY DEF LeaveLoop, PerfInv, PerfTypeOK, Phase, counters, trace
<1>7. RunsTileTheTrace' /\ OverlapWithinBounds'
  BY <1>1 DEF PerfInv, RunsTileTheTrace, OverlapWithinBounds, Finalised, After
<1> QED BY <1>5, <1>6, <1>7 DEF PerfInv

(* Leaving the pairing publishes a total that covers every run.            *)
LEMMA FinalizeEndPreserves ==
  ASSUME PerfInv, NEW ok \in BOOLEAN, FinalizeEnd(ok)
  PROVE  PerfInv'
<1>1. /\ perfRuns' = perfRuns /\ classCycles' = classCycles
      /\ sequentialCycles' = sequentialCycles /\ phase' = "done"
      /\ overlapAwareCycles' = finTotal
  BY DEF FinalizeEnd, trace
<1>2. Consumed(finI) = classCycles
  BY DEF FinalizeEnd, Consumed, PerfInv, PerfTypeOK
<1>3. finTotal <= AllCycles(classCycles) /\ finTotal >= PerfectOverlap(classCycles)
  BY <1>2 DEF FinalizeEnd, PerfInv, PairingInv
<1>4. OverlapWithinBounds' /\ PairingInv'
  BY <1>1, <1>3 DEF PerfInv, RunsTileTheTrace, OverlapWithinBounds, PairingInv
<1>5. PerfTypeOK'
  BY DEF FinalizeEnd, PerfInv, PerfTypeOK, Phase, counters, trace
<1>6. RunsTileTheTrace'
  BY <1>1 DEF PerfInv, RunsTileTheTrace, After
<1> QED BY <1>4, <1>5, <1>6 DEF PerfInv

-----------------------------------------------------------------------------
(* The invariant holds initially.                                          *)
LEMMA PerfInitInv ==
  ASSUME PerfInit
  PROVE  PerfInv
<1>1. PerfTypeOK
  <2>1. perfRuns \in Seq(PerfRun) /\ classCycles \in [PerfClass -> Nat]
    BY DEF PerfInit, NoCycles
  <2>2. phase \in Phase /\ result \in BOOLEAN
    BY Zenon DEF PerfInit, Phase
  <2>3. /\ instructionCount \in Nat /\ bytesMovedDRAM \in Nat
        /\ bytesMovedScratchpad \in Nat
        /\ sequentialCycles \in Nat /\ overlapAwareCycles \in Nat
        /\ finI \in Nat \ {0} /\ finTotal \in Nat
    BY DEF PerfInit
  <2> QED BY <2>1, <2>2, <2>3, Zenon DEF PerfTypeOK
<1>2. RunsTileTheTrace
  BY DEF PerfInit, RunsTileTheTrace, NoCycles, AllCycles, PerfClass
<1>3. PairingInv /\ OverlapWithinBounds
  BY DEF PerfInit, PairingInv, OverlapWithinBounds, Finalised
<1> QED BY <1>1, <1>2, <1>3 DEF PerfInv

(* Every step of the model preserves it.                                   *)
LEMMA PerfNextInv ==
  ASSUME PerfInv, [PerfNext]_perfVars
  PROVE  PerfInv'
<1> USE PerfAssumption
<1>1. CASE Prepare
  BY <1>1 DEF Prepare, PerfInv, PerfTypeOK, RunsTileTheTrace, PairingInv,
     OverlapWithinBounds, Finalised, Phase, counters, trace, pairing, After
<1>2. CASE BeginRun
  <2>1. PerfTypeOK'
    BY <1>2 DEF BeginRun, PerfInv, PerfTypeOK, clearPerf, Phase, NoCycles
  <2>2. RunsTileTheTrace'
    BY <1>2 DEF BeginRun, clearPerf, RunsTileTheTrace, NoCycles, AllCycles, PerfClass
  <2>3. PairingInv' /\ OverlapWithinBounds'
    BY <1>2 DEF BeginRun, PairingInv, OverlapWithinBounds, Finalised
  <2> QED BY <2>1, <2>2, <2>3 DEF PerfInv
<1>3. CASE RecordInstruction
  <2>1. PICK op \in Opcode : recordPerfInstruction(op, FALSE, 0)
    BY <1>3 DEF RecordInstruction
  <2>2. phase = "running" /\ UNCHANGED <<phase, result, pairing>>
    BY <1>3 DEF RecordInstruction
  <2> QED BY <2>1, <2>2, InstructionPreserves
<1>4. CASE RecordTransfer
  <2>1. PICK op \in MemoryOps, scratch \in BOOLEAN, bytes \in TransferBytes :
          recordPerfInstruction(op, scratch, bytes)
    BY <1>4 DEF RecordTransfer
  <2>2. op \in Opcode /\ bytes \in Nat
    BY DEF Opcode, PerfAssumption
  <2>3. phase = "running" /\ UNCHANGED <<phase, result, pairing>>
    BY <1>4 DEF RecordTransfer
  <2> QED BY <2>1, <2>2, <2>3, InstructionPreserves
<1>5. CASE RecordRuntimeCall
  <2>1. PICK cycles \in RuntimeCosts : recordRuntimeCall(cycles, 2 * cycles)
    BY <1>5 DEF RecordRuntimeCall
  <2>2. cycles \in Nat /\ 2 * cycles \in Nat
    BY DEF PerfAssumption
  <2>3. phase = "running" /\ UNCHANGED <<phase, result, pairing>>
    BY <1>5 DEF RecordRuntimeCall
  <2> QED BY <2>1, <2>2, <2>3, RuntimeCallPreserves
<1>6. CASE AbortRun
  BY <1>6 DEF AbortRun, PerfInv, PerfTypeOK, RunsTileTheTrace, PairingInv,
     OverlapWithinBounds, Finalised, Phase, counters, trace, pairing, After
<1>7. CASE LeaveLoop
  BY <1>7, LeaveLoopPreserves
<1>8. CASE FinalizeIteration
  BY <1>8, FinalizeIterationPreserves
<1>9. CASE FinalizeEnd(TRUE)
  BY <1>9, FinalizeEndPreserves
<1>10. CASE UNCHANGED perfVars
  BY <1>10 DEF perfVars, PerfInv, PerfTypeOK, RunsTileTheTrace, PairingInv,
     Consumed, OverlapWithinBounds, Finalised, counters, trace, pairing, After
<1> QED BY <1>1, <1>2, <1>3, <1>4, <1>5, <1>6, <1>7, <1>8, <1>9, <1>10
        DEF PerfNext

(* For every instruction stream of any length, any transfer widths and any *)
(* runtime costs: the types hold, the trace tiles the sequential estimate, *)
(* the pairing loop never counts a run twice or drops one, and the finished *)
(* estimate lies between a perfect overlap and the sequential one.         *)
THEOREM PerfInvariant == PerfSpec => []PerfInv
<1>1. PerfInit => PerfInv
  BY PerfInitInv
<1>2. PerfInv /\ [PerfNext]_perfVars => PerfInv'
  BY PerfNextInv
<1> QED BY <1>1, <1>2, PTL DEF PerfSpec

(* Every counter and trace entry of the performance model keeps its type.  *)
THEOREM PerfTypes == PerfSpec => []PerfTypeOK
BY PerfInvariant, PTL DEF PerfInv

(* The recorded trace always tiles the sequential estimate.                *)
THEOREM TraceTiling == PerfSpec => []RunsTileTheTrace
BY PerfInvariant, PTL DEF PerfInv

(* finalizePerformanceModel's estimate is bounded from both sides.         *)
THEOREM OverlapBounded == PerfSpec => []OverlapWithinBounds
BY PerfInvariant, PTL DEF PerfInv

(* Between any two iterations of finalizePerformanceModel's loop, what has *)
(* been consumed of each class, what has been charged and what the pairs   *)
(* have saved belong together, for every trace.                            *)
THEOREM PairingBounded == PerfSpec => []PairingInv
BY PerfInvariant, PTL DEF PerfInv

-----------------------------------------------------------------------------
(***************************************************************************)
(* The timeline loses no cycle, for every trace the performance model can  *)
(* record, any number of buckets and wherever rounding puts their edges.   *)
(*                                                                         *)
(* The runs of a trace carry in `before` what was charged when they began; *)
(* after i of them the loop has written or holds in its bucket exactly     *)
(* that.                                                                   *)
(***************************************************************************)

(* Sums.                                                                   *)

\* A recursion over 0 .. n that adds the values up computes their sum.
IsSum(s, values) ==
  /\ DOMAIN s = 0 .. Len(values) /\ s[0] = 0
  /\ \A n \in 1 .. Len(values) : s[n] = s[n - 1] + values[n]

LEMMA SumDefined ==
  ASSUME NEW values \in Seq(Nat)
  PROVE  \E s \in [0 .. Len(values) -> Nat] : IsSum(s, values) /\ sumOf(values) = s[Len(values)]
<1> DEFINE n == Len(values)
           Recurs(s) == s = [k \in 0 .. n |-> IF k = 0 THEN 0 ELSE s[k - 1] + values[k]]
           g == [k \in 1 .. n |-> [x \in Nat |-> x + values[k]]]
<1>1. n \in Nat /\ \A k \in 1 .. n : values[k] \in Nat
  OBVIOUS
<1>2. \E s \in [0 .. n -> Nat] : Recurs(s)
  <2>1. g \in [1 .. n -> [Nat -> Nat]]
    BY <1>1
  <2>2. \A k \in 1 .. n, x \in Nat : g[k][x] = x + values[k]
    OBVIOUS
  <2> DEFINE D == Nat
  <2>0. n \in Nat /\ 0 \in D /\ g \in [1 .. n -> [D -> D]]
    BY <1>1, <2>1
  <2> HIDE DEF g, n, D
  <2>3. \E s : Iterates(s, n, D, 0, g)
    BY <2>0, Recursion
  <2>4. PICK s \in [0 .. n -> Nat] : s[0] = 0 /\ \A k \in 1 .. n : s[k] = g[k][s[k - 1]]
    BY <2>3 DEF D, Iterates
  <2>5. ASSUME NEW k \in 0 .. n
        PROVE  s[k] = IF k = 0 THEN 0 ELSE s[k - 1] + values[k]
    <3>1. CASE k = 0
      BY <2>4, <3>1
    <3>2. CASE k # 0
      <4>1. k \in 1 .. n /\ s[k - 1] \in Nat
        BY <1>1, <3>2
      <4> QED BY <2>2, <2>4, <3>2, <4>1
    <3> QED BY <3>1, <3>2
  <2> QED BY <2>5
<1>3. ASSUME NEW s, Recurs(s)
      PROVE  s \in [0 .. n -> Nat] /\ IsSum(s, values)
  <2>1. s[0] = 0 /\ \A k \in 1 .. n : s[k] = s[k - 1] + values[k]
    BY <1>1, <1>3
  <2>2. DOMAIN s = 0 .. n
    BY <1>3
  <2>3. IsSum(s, values)
    BY <2>1, <2>2 DEF IsSum
  <2> DEFINE T == {m \in Nat : m <= n => s[m] \in Nat}
  <2>4. ASSUME NEW m \in Nat, 0 .. m - 1 \subseteq T
        PROVE  m \in T
    <3>1. CASE m = 0
      BY <2>1, <3>1
    <3>2. CASE m \in 1 .. n
      <4>1. m - 1 \in 0 .. m - 1 /\ m - 1 \in Nat /\ m - 1 <= n /\ values[m] \in Nat
        BY <1>1, <3>2
      <4>2. m - 1 \in T
        BY <2>4, <4>1
      <4>3. s[m - 1] \in Nat
        BY <4>1, <4>2
      <4> QED BY <2>1, <3>2, <4>1, <4>3
    <3> QED BY <1>1, <3>1, <3>2
  <2>5. Nat \subseteq T
    <3> HIDE DEF T
    <3> QED BY <2>4, Inherited
  <2>6. s \in [0 .. n -> Nat]
    BY <1>1, <1>3, <2>5
  <2> QED BY <2>3, <2>6
<1>4. PICK s : Recurs(s) /\ sumOf(values) = s[n]
  BY <1>2 DEF sumOf
<1> QED BY <1>3, <1>4

\* Two of them agree.
LEMMA SumUnique ==
  ASSUME NEW values \in Seq(Nat), NEW s, IsSum(s, values)
  PROVE  sumOf(values) = s[Len(values)]
<1> DEFINE n == Len(values)
<1>1. PICK t \in [0 .. n -> Nat] : IsSum(t, values) /\ sumOf(values) = t[n]
  BY SumDefined
<1> DEFINE T == {m \in Nat : m <= n => s[m] = t[m]}
<1>2. n \in Nat /\ s[0] = 0 /\ t[0] = 0
      /\ \A k \in 1 .. n : s[k] = s[k - 1] + values[k] /\ t[k] = t[k - 1] + values[k]
  BY <1>1 DEF IsSum
<1>3. ASSUME NEW m \in Nat, 0 .. m - 1 \subseteq T
      PROVE  m \in T
  <2>1. CASE m = 0
    BY <1>2, <2>1
  <2>2. CASE m \in 1 .. n
    <3>1. m - 1 \in 0 .. m - 1 /\ m - 1 \in Nat /\ m - 1 <= n
      BY <1>2, <2>2
    <3>2. m - 1 \in T
      BY <1>3, <3>1
    <3>3. s[m - 1] = t[m - 1]
      BY <3>1, <3>2
    <3> QED BY <1>2, <2>2, <3>3
  <2> QED BY <1>2, <2>1, <2>2
<1>4. Nat \subseteq T
  <2> HIDE DEF T
  <2> QED BY <1>3, Inherited
<1> QED BY <1>1, <1>2, <1>4

LEMMA SumType ==
  ASSUME NEW values \in Seq(Nat)
  PROVE  sumOf(values) \in Nat
BY SumDefined

LEMMA SumAppend ==
  ASSUME NEW values \in Seq(Nat), NEW x \in Nat
  PROVE  sumOf(Append(values, x)) = sumOf(values) + x
<1> DEFINE n == Len(values)
           more == Append(values, x)
<1>1. PICK s \in [0 .. n -> Nat] : IsSum(s, values) /\ sumOf(values) = s[n]
  BY SumDefined
<1> DEFINE t == [k \in 0 .. n + 1 |-> IF k = n + 1 THEN s[n] + x ELSE s[k]]
<1>2. n \in Nat /\ Len(more) = n + 1 /\ more \in Seq(Nat)
      /\ more[n + 1] = x /\ \A k \in 1 .. n : more[k] = values[k]
  OBVIOUS
<1>3. /\ DOMAIN t = 0 .. n + 1 /\ t[n + 1] = s[n] + x
      /\ \A k \in 0 .. n : t[k] = s[k]
  BY <1>2
<1> HIDE DEF t, more
<1>4. s[0] = 0 /\ \A k \in 1 .. n : s[k] = s[k - 1] + values[k]
  BY <1>1 DEF IsSum
<1>5. ASSUME NEW k \in 1 .. n + 1
      PROVE  t[k] = t[k - 1] + more[k]
  <2>1. CASE k = n + 1
    <3>1. t[k - 1] = s[n]
      BY <1>2, <1>3, <2>1
    <3> QED BY <1>2, <1>3, <2>1, <3>1
  <2>2. CASE k # n + 1
    <3>1. k \in 1 .. n /\ k - 1 \in 0 .. n /\ k \in 0 .. n
      BY <1>2, <2>2
    <3> QED BY <1>2, <1>3, <1>4, <3>1
  <2> QED BY <2>1, <2>2
<1>6. IsSum(t, more)
  <2>1. t[0] = 0
    BY <1>2, <1>3, <1>4
  <2> QED BY <1>2, <1>3, <1>5, <2>1 DEF IsSum
<1>7. sumOf(more) = t[n + 1]
  BY <1>2, <1>6, SumUnique
<1> QED BY <1>1, <1>3, <1>7 DEF more

-----------------------------------------------------------------------------
(* What a flush writes.                                                    *)

Entry == [cls : PerfClass, cycles : Nat]

Buckets == [PerfClass -> Nat]

LEMMA CyclesType ==
  ASSUME NEW out \in Seq(Entry), NEW cls \in PerfClass
  PROVE  cyclesOf(out, cls) \in Nat
<1> DEFINE shown == [i \in 1 .. Len(out) |-> IF out[i].cls = cls THEN out[i].cycles ELSE 0]
<1>1. \A i \in 1 .. Len(out) : out[i] \in Entry
  OBVIOUS
<1>2. Len(out) \in Nat /\ \A i \in 1 .. Len(out) : shown[i] \in Nat
  BY <1>1 DEF Entry
<1>3. shown \in Seq(Nat)
  BY <1>2
<1> HIDE DEF shown
<1>4. sumOf(shown) \in Nat
  BY <1>3, SumType
<1> QED BY <1>4 DEF cyclesOf, shown

LEMMA CyclesAppend ==
  ASSUME NEW out \in Seq(Entry), NEW e \in Entry, NEW cls \in PerfClass
  PROVE  cyclesOf(Append(out, e), cls) = cyclesOf(out, cls) + (IF e.cls = cls THEN e.cycles ELSE 0)
<1> DEFINE weigh(x) == IF x.cls = cls THEN x.cycles ELSE 0
           more == Append(out, e)
           n == Len(out)
           shown == [i \in 1 .. n |-> weigh(out[i])]
           after == [i \in 1 .. Len(more) |-> weigh(more[i])]
<1>1. n \in Nat /\ \A i \in 1 .. n : out[i] \in Entry
  OBVIOUS
<1>2. \A x \in Entry : weigh(x) \in Nat
  BY DEF Entry
<1>3. Len(more) = n + 1 /\ more[n + 1] = e /\ \A i \in 1 .. n : more[i] = out[i]
  OBVIOUS
<1> HIDE DEF weigh, more, n
<1>4. shown \in Seq(Nat) /\ Len(shown) = n
  <2>1. \A i \in 1 .. n : weigh(out[i]) \in Nat
    BY <1>1, <1>2
  <2> QED BY <1>1, <2>1
<1>5. after = Append(shown, weigh(e))
  <2>1. Append(shown, weigh(e)) = [i \in 1 .. n + 1 |-> IF i = n + 1 THEN weigh(e) ELSE shown[i]]
    BY <1>1, <1>4
  <2>2. after = [i \in 1 .. n + 1 |-> weigh(more[i])]
    BY <1>3
  <2>3. \A i \in 1 .. n + 1 : weigh(more[i]) = IF i = n + 1 THEN weigh(e) ELSE shown[i]
    <3>1. \A i \in 1 .. n + 1 : i = n + 1 \/ i \in 1 .. n
      BY <1>1
    <3> QED BY <1>3, <3>1
  <2> QED BY <2>1, <2>2, <2>3
<1> HIDE DEF shown, after
<1>6. sumOf(after) = sumOf(shown) + weigh(e)
  BY <1>2, <1>4, <1>5, SumAppend
<1> QED BY <1>6 DEF cyclesOf, shown, after, weigh, more, n

\* One class written, or passed over.
LEMMA WrittenKeeps ==
  ASSUME NEW out \in Seq(Entry), NEW bucket \in Buckets, NEW c \in PerfClass
  PROVE  /\ written(out, bucket, c) \in Seq(Entry)
         /\ bucket[c] = 0 => written(out, bucket, c) = out
         /\ \A cls \in PerfClass :
              cyclesOf(written(out, bucket, c), cls)
                = cyclesOf(out, cls) + (IF c = cls THEN bucket[c] ELSE 0)
<1>1. bucket[c] \in Nat /\ \A cls \in PerfClass : cyclesOf(out, cls) \in Nat
  BY CyclesType DEF Buckets
<1>2. CASE bucket[c] = 0
  <2>1. written(out, bucket, c) = out
    BY <1>2 DEF written
  <2> QED BY <1>1, <1>2, <2>1
<1>3. CASE bucket[c] # 0
  <2> DEFINE e == entry(c, bucket[c])
  <2>1. e \in Entry /\ e.cls = c /\ e.cycles = bucket[c]
    BY <1>1 DEF entry, Entry
  <2>2. written(out, bucket, c) = Append(out, e)
    BY <1>3 DEF written
  <2> HIDE DEF e
  <2>3. Append(out, e) \in Seq(Entry)
    BY <2>1
  <2>4. \A cls \in PerfClass :
          cyclesOf(Append(out, e), cls) = cyclesOf(out, cls) + (IF c = cls THEN bucket[c] ELSE 0)
    BY <2>1, CyclesAppend
  <2> QED BY <1>3, <2>2, <2>3, <2>4
<1> QED BY <1>2, <1>3

\* All three: nothing is lost.
LEMMA FlushedKeeps ==
  ASSUME NEW out \in Seq(Entry), NEW bucket \in Buckets
  PROVE  /\ flushed(out, bucket) \in Seq(Entry)
         /\ bucket = NoCycles => flushed(out, bucket) = out
         /\ \A cls \in PerfClass :
              cyclesOf(flushed(out, bucket), cls) = cyclesOf(out, cls) + bucket[cls]
<1> DEFINE a == written(out, bucket, "Transfer")
           b == written(a, bucket, "Compute")
           d == written(b, bucket, "Other")
<1>0. "Transfer" \in PerfClass /\ "Compute" \in PerfClass /\ "Other" \in PerfClass
  BY DEF PerfClass
<1>1. /\ a \in Seq(Entry) /\ (bucket["Transfer"] = 0 => a = out)
      /\ \A cls \in PerfClass :
           cyclesOf(a, cls) = cyclesOf(out, cls) + (IF "Transfer" = cls THEN bucket["Transfer"] ELSE 0)
  BY <1>0, WrittenKeeps
<1> HIDE DEF a
<1>2. /\ b \in Seq(Entry) /\ (bucket["Compute"] = 0 => b = a)
      /\ \A cls \in PerfClass :
           cyclesOf(b, cls) = cyclesOf(a, cls) + (IF "Compute" = cls THEN bucket["Compute"] ELSE 0)
  BY <1>0, <1>1, WrittenKeeps
<1> HIDE DEF b
<1>3. /\ d \in Seq(Entry) /\ (bucket["Other"] = 0 => d = b)
      /\ \A cls \in PerfClass :
           cyclesOf(d, cls) = cyclesOf(b, cls) + (IF "Other" = cls THEN bucket["Other"] ELSE 0)
  BY <1>0, <1>2, WrittenKeeps
<1> HIDE DEF d
<1>4. flushed(out, bucket) = d
  BY DEF flushed, a, b, d
<1>6. ASSUME bucket = NoCycles
      PROVE  d = out
  <2>1. bucket["Transfer"] = 0 /\ bucket["Compute"] = 0 /\ bucket["Other"] = 0
    BY <1>0, <1>6 DEF NoCycles
  <2> QED BY <1>1, <1>2, <1>3, <2>1
<1>7. ASSUME NEW cls \in PerfClass
      PROVE  cyclesOf(d, cls) = cyclesOf(out, cls) + bucket[cls]
  <2>1. cyclesOf(out, cls) \in Nat /\ bucket[cls] \in Nat
    BY CyclesType DEF Buckets
  <2>2. cls = "Transfer" \/ cls = "Compute" \/ cls = "Other"
    BY DEF PerfClass
  <2>3. cyclesOf(a, cls) = cyclesOf(out, cls) + (IF "Transfer" = cls THEN bucket["Transfer"] ELSE 0)
    BY <1>1
  <2>4. cyclesOf(b, cls) = cyclesOf(a, cls) + (IF "Compute" = cls THEN bucket["Compute"] ELSE 0)
    BY <1>2
  <2>5. cyclesOf(d, cls) = cyclesOf(b, cls) + (IF "Other" = cls THEN bucket["Other"] ELSE 0)
    BY <1>3
  <2> QED BY <2>1, <2>2, <2>3, <2>4, <2>5
<1> QED BY <1>3, <1>4, <1>6, <1>7

-----------------------------------------------------------------------------
(* The trace.                                                              *)

TraceOK == TraceTypeOK /\ RunsTileTheTrace

LEMMA ConsumedEnds ==
  ASSUME TraceOK
  PROVE  /\ Len(perfRuns) \in Nat
         /\ Consumed(1) = NoCycles
         /\ Consumed(Len(perfRuns) + 1) = classCycles
         /\ \A i \in 0 .. Len(perfRuns) : Consumed(i + 1) \in Buckets
<1>1. Len(perfRuns) \in Nat /\ classCycles \in Buckets
  BY DEF TraceOK, TraceTypeOK, Buckets
<1>2. Consumed(Len(perfRuns) + 1) = classCycles
  BY <1>1 DEF Consumed
<1>3. Consumed(1) = NoCycles
  <2>1. CASE perfRuns = << >>
    BY <1>2, <2>1 DEF TraceOK, RunsTileTheTrace
  <2>2. CASE perfRuns # << >>
    <3>1. 1 <= Len(perfRuns)
      BY <2>2 DEF TraceOK, TraceTypeOK
    <3> QED BY <2>2, <3>1 DEF Consumed, TraceOK, RunsTileTheTrace
  <2> QED BY <2>1, <2>2
<1>4. ASSUME NEW i \in 0 .. Len(perfRuns)
      PROVE  Consumed(i + 1) \in Buckets
  <2>1. CASE i = Len(perfRuns)
    BY <1>1, <1>2, <2>1
  <2>2. CASE i # Len(perfRuns)
    <3>1. i + 1 \in 1 .. Len(perfRuns)
      BY <1>1, <2>2
    <3> QED BY <3>1, ConsumedStep DEF TraceOK, Buckets
  <2> QED BY <2>1, <2>2
<1> QED BY <1>1, <1>2, <1>3, <1>4

\* What a run adds to each class, and to all of them together.
LEMMA RunAdds ==
  ASSUME TraceOK, NEW i \in 1 .. Len(perfRuns)
  PROVE  /\ perfRuns[i] \in PerfRun /\ i - 1 \in 0 .. Len(perfRuns)
         /\ \A cls \in PerfClass :
              Consumed(i + 1)[cls]
                = Consumed(i)[cls] + (IF cls = perfRuns[i].cls THEN perfRuns[i].cycles ELSE 0)
         /\ AllCycles(Consumed(i + 1)) = AllCycles(Consumed(i)) + perfRuns[i].cycles
<1> DEFINE c == perfRuns[i].cls
           k == perfRuns[i].cycles
           f == Consumed(i)
           g == Consumed(i + 1)
<1>1. perfRuns[i] \in PerfRun /\ f \in [PerfClass -> Nat] /\ g = [f EXCEPT ![c] = f[c] + k]
  BY ConsumedStep DEF TraceOK
<1>2. c \in PerfClass /\ k \in Nat
  BY <1>1 DEF PerfRun
<1>3. i - 1 \in 0 .. Len(perfRuns)
  BY ConsumedEnds
<1> HIDE DEF c, k, f, g
<1>4. \A cls \in PerfClass : g[cls] = f[cls] + (IF cls = c THEN k ELSE 0)
  BY <1>1, <1>2
<1>5. AllCycles(g) = AllCycles(f) + k
  <2>1. /\ g["Transfer"] = f["Transfer"] + (IF "Transfer" = c THEN k ELSE 0)
        /\ g["Compute"] = f["Compute"] + (IF "Compute" = c THEN k ELSE 0)
        /\ g["Other"] = f["Other"] + (IF "Other" = c THEN k ELSE 0)
        /\ f["Transfer"] \in Nat /\ f["Compute"] \in Nat /\ f["Other"] \in Nat
    BY <1>1, <1>4 DEF PerfClass
  <2>2. c = "Transfer" \/ c = "Compute" \/ c = "Other"
    BY <1>2 DEF PerfClass
  <2> QED BY <1>2, <2>1, <2>2 DEF AllCycles
<1> QED BY <1>1, <1>3, <1>4, <1>5 DEF c, k, f, g

\* Nothing is charged backwards.
LEMMA ConsumedGrows ==
  ASSUME TraceOK, NEW i \in 0 .. Len(perfRuns)
  PROVE  AllCycles(Consumed(i + 1)) <= AllCycles(classCycles)
<1> DEFINE n == Len(perfRuns)
           at(k) == AllCycles(Consumed(k))
           T == {m \in Nat : m <= n => at(n - m + 1) <= at(n + 1)}
<1>1. n \in Nat /\ \A k \in 0 .. n : at(k + 1) \in Nat
  <2>1. \A k \in 0 .. n : Consumed(k + 1) \in Buckets
    BY ConsumedEnds
  <2>2. \A f \in Buckets : AllCycles(f) \in Nat
    BY DEF AllCycles, Buckets, PerfClass
  <2> QED BY <2>1, <2>2, ConsumedEnds
<1>2. \A k \in 1 .. n : at(k) <= at(k + 1)
  <2>1. ASSUME NEW k \in 1 .. n
        PROVE  at(k) <= at(k + 1)
    <3>1. k - 1 \in 0 .. n /\ k - 1 + 1 = k
      BY <1>1
    <3>2. at(k) \in Nat
      BY <1>1, <3>1
    <3>3. at(k + 1) = at(k) + perfRuns[k].cycles /\ perfRuns[k].cycles \in Nat
      BY RunAdds DEF PerfRun
    <3> HIDE DEF at
    <3> QED BY <3>2, <3>3
  <2> QED BY <2>1
<1>3. AllCycles(classCycles) = at(n + 1)
  BY ConsumedEnds
<1> HIDE DEF at, n
<1>4. ASSUME NEW m \in Nat, 0 .. m - 1 \subseteq T
      PROVE  m \in T
  <2>1. CASE m = 0
    <3>1. n - m + 1 = n + 1 /\ at(n + 1) \in Nat
      BY <1>1, <2>1
    <3> QED BY <3>1
  <2>2. CASE m \in 1 .. n
    <3>1. m - 1 \in 0 .. m - 1 /\ m - 1 \in Nat /\ m - 1 <= n /\ n - (m - 1) + 1 = n - m + 2
      BY <1>1, <2>2
    <3>2. m - 1 \in T
      BY <1>4, <3>1
    <3>3. at(n - m + 2) <= at(n + 1)
      BY <3>1, <3>2
    <3>4. n - m + 1 \in 1 .. n /\ n - m + 1 + 1 = n - m + 2
          /\ n - m \in 0 .. n /\ n - m + 1 \in 0 .. n
      BY <1>1, <2>2
    <3>5. at(n - m + 1) <= at(n - m + 2)
      BY <1>2, <3>4
    <3>6. at(n - m + 1) \in Nat /\ at(n - m + 2) \in Nat /\ at(n + 1) \in Nat
      <4>1. n \in 0 .. n
        BY <1>1
      <4>2. at(n - m + 1) \in Nat /\ at(n - m + 1 + 1) \in Nat /\ at(n + 1) \in Nat
        BY <1>1, <3>4, <4>1
      <4> QED BY <3>4, <4>2
    <3>7. at(n - m + 1) <= at(n + 1)
      BY <3>3, <3>5, <3>6
    <3> QED BY <3>7
  <2> QED BY <1>1, <2>1, <2>2
<1>5. Nat \subseteq T
  <2> HIDE DEF T
  <2> QED BY <1>4, Inherited
<1>6. n - i \in T /\ n - i <= n /\ n - (n - i) + 1 = i + 1
  <2>1. n - i \in Nat
    BY <1>1 DEF n
  <2>2. n - i <= n /\ n - (n - i) + 1 = i + 1
    BY <1>1 DEF n
  <2> QED BY <1>5, <2>1, <2>2
<1>7. at(i + 1) <= at(n + 1)
  BY <1>6
<1> QED BY <1>3, <1>7 DEF at

\* timeline() computes the length of the run from the trace.
LEMMA TotalOfTrace ==
  ASSUME TraceOK
  PROVE  total(perfRuns) = AllCycles(classCycles)
<1> DEFINE n == Len(perfRuns)
           values == [i \in 1 .. n |-> perfRuns[i].cycles]
           s == [i \in 0 .. n |-> AllCycles(Consumed(i + 1))]
<1>1. n \in Nat /\ values \in Seq(Nat) /\ Len(values) = n
  <2>1. n \in Nat
    BY ConsumedEnds
  <2>2. \A i \in 1 .. n : perfRuns[i].cycles \in Nat
    BY RunAdds DEF PerfRun
  <2> QED BY <2>1, <2>2
<1>2. s[0] = 0
  <2>1. AllCycles(NoCycles) = 0
    BY DEF AllCycles, NoCycles, PerfClass
  <2> QED BY <1>1, <2>1, ConsumedEnds
<1>3. ASSUME NEW i \in 1 .. n
      PROVE  s[i] = s[i - 1] + values[i]
  <2>1. i - 1 \in 0 .. n /\ i \in 0 .. n /\ i - 1 + 1 = i
    BY <1>1
  <2>2. s[i] = AllCycles(Consumed(i + 1)) /\ s[i - 1] = AllCycles(Consumed(i))
    BY <2>1
  <2>3. AllCycles(Consumed(i + 1)) = AllCycles(Consumed(i)) + perfRuns[i].cycles
    BY RunAdds
  <2> QED BY <2>2, <2>3
<1>4. DOMAIN s = 0 .. n /\ s[n] = AllCycles(classCycles)
  BY <1>1, ConsumedEnds
<1> HIDE DEF s, values, n
<1>5. IsSum(s, values)
  BY <1>1, <1>2, <1>3, <1>4 DEF IsSum
<1>6. sumOf(values) = s[n]
  BY <1>1, <1>5, SumUnique
<1> QED BY <1>4, <1>6 DEF total, values, n

\* The runs themselves, when there is room for all of them.
LEMMA ClassOfTrace ==
  ASSUME TraceOK, NEW cls \in PerfClass, NEW out,
         out = [i \in 1 .. Len(perfRuns) |-> entry(perfRuns[i].cls, perfRuns[i].cycles)]
  PROVE  cyclesOf(out, cls) = classCycles[cls]
<1> DEFINE n == Len(perfRuns)
           values == [i \in 1 .. n |-> IF perfRuns[i].cls = cls THEN perfRuns[i].cycles ELSE 0]
           s == [i \in 0 .. n |-> Consumed(i + 1)[cls]]
<1>1. n \in Nat /\ values \in Seq(Nat) /\ Len(values) = n
  <2>1. n \in Nat
    BY ConsumedEnds
  <2>2. \A i \in 1 .. n : perfRuns[i].cycles \in Nat
    BY RunAdds DEF PerfRun
  <2> QED BY <2>1, <2>2
<1>2. s[0] = 0
  <2>1. NoCycles[cls] = 0
    BY DEF NoCycles
  <2> QED BY <1>1, <2>1, ConsumedEnds
<1>3. ASSUME NEW i \in 1 .. n
      PROVE  s[i] = s[i - 1] + values[i]
  <2>1. i - 1 \in 0 .. n /\ i \in 0 .. n /\ i - 1 + 1 = i
    BY <1>1
  <2>2. s[i] = Consumed(i + 1)[cls] /\ s[i - 1] = Consumed(i)[cls]
    BY <2>1
  <2>3. Consumed(i + 1)[cls]
          = Consumed(i)[cls] + (IF cls = perfRuns[i].cls THEN perfRuns[i].cycles ELSE 0)
    BY RunAdds
  <2> QED BY <2>2, <2>3
<1>4. DOMAIN s = 0 .. n /\ s[n] = classCycles[cls]
  BY <1>1, ConsumedEnds
<1>5. values = [i \in 1 .. Len(out) |-> IF out[i].cls = cls THEN out[i].cycles ELSE 0]
  <2>1. Len(out) = n
    BY <1>1
  <2>2. \A i \in 1 .. n : out[i].cls = perfRuns[i].cls /\ out[i].cycles = perfRuns[i].cycles
    BY DEF entry
  <2> HIDE DEF n
  <2> QED BY <2>1, <2>2
<1> HIDE DEF s, values, n
<1>6. IsSum(s, values)
  BY <1>1, <1>2, <1>3, <1>4 DEF IsSum
<1>7. sumOf(values) = s[n]
  BY <1>1, <1>6, SumUnique
<1> QED BY <1>4, <1>5, <1>7 DEF cyclesOf

-----------------------------------------------------------------------------
(* The loop over the runs.                                                 *)

State == [out : Seq(Entry), shown : Nat, bucket : Buckets, pos : Nat, edge : Nat]

\* Whether the position p is past the edge e.
Passed(p, e, sum, limit, late) ==
  p * limit > e * sum \/ (p * limit = e * sum /\ e \notin late)

LEMMA StepEffect ==
  ASSUME NEW s \in State, NEW run \in PerfRun, NEW sum \in Nat, NEW limit \in Nat, NEW late,
         NEW filled, filled = [s.bucket EXCEPT ![run.cls] = s.bucket[run.cls] + run.cycles],
         NEW pos, pos = s.pos + run.cycles,
         NEW t, t = step(s, run, sum, limit, late)
  PROVE  /\ t \in State /\ filled \in Buckets /\ t.pos = pos
         /\ IF Passed(pos, s.edge, sum, limit, late)
            THEN /\ t.out = flushed(s.out, filled) /\ t.bucket = NoCycles /\ t.edge = s.edge + 1
                 /\ t.shown = s.shown + (IF filled = NoCycles THEN 0 ELSE 1)
            ELSE t.out = s.out /\ t.bucket = filled /\ t.edge = s.edge /\ t.shown = s.shown
<1>1. /\ s.out \in Seq(Entry) /\ s.bucket \in Buckets /\ s.pos \in Nat /\ s.edge \in Nat
      /\ s.shown \in Nat /\ run.cls \in PerfClass /\ run.cycles \in Nat
      /\ s = [out |-> s.out, shown |-> s.shown, bucket |-> s.bucket, pos |-> s.pos, edge |-> s.edge]
  BY DEF State, PerfRun
<1>2. filled \in Buckets /\ pos \in Nat /\ NoCycles \in Buckets
  <2>1. filled \in Buckets
    <3> DEFINE b == s.bucket
               c == run.cls
               x == s.bucket[run.cls] + run.cycles
    <3>1. b \in Buckets /\ c \in PerfClass /\ x \in Nat
      BY <1>1 DEF Buckets
    <3>2. filled = [b EXCEPT ![c] = x]
      OBVIOUS
    <3> HIDE DEF b, c, x
    <3> QED BY <3>1, <3>2 DEF Buckets
  <2>2. NoCycles \in Buckets
    BY DEF Buckets, NoCycles
  <2> QED BY <1>1, <2>1, <2>2
<1> DEFINE mid == [s EXCEPT !.bucket[run.cls] = @ + run.cycles, !.pos = @ + run.cycles]
<1>3. mid = [out |-> s.out, shown |-> s.shown, bucket |-> filled, pos |-> pos, edge |-> s.edge]
  <2> DEFINE o == s.out
             w == s.shown
             b == s.bucket
             p == s.pos
             e == s.edge
             c == run.cls
             k == run.cycles
  <2>1. s = [out |-> o, shown |-> w, bucket |-> b, pos |-> p, edge |-> e]
    BY <1>1
  <2>2. filled = [b EXCEPT ![c] = b[c] + k] /\ pos = p + k
    OBVIOUS
  <2>3. mid = [s EXCEPT !.bucket[c] = @ + k, !.pos = @ + k]
    OBVIOUS
  <2> HIDE DEF mid, o, w, b, p, e, c, k
  <2>4. mid = [out |-> o, shown |-> w, bucket |-> [b EXCEPT ![c] = b[c] + k], pos |-> p + k, edge |-> e]
    BY <2>1, <2>3
  <2> QED BY <2>2, <2>4 DEF o, w, e
<1> HIDE DEF mid
<1>4. /\ mid.out = s.out /\ mid.bucket = filled /\ mid.pos = pos /\ mid.edge = s.edge
      /\ mid.shown = s.shown
  BY <1>3
<1>5. t = IF Passed(pos, s.edge, sum, limit, late) THEN [flush(mid) EXCEPT !.edge = @ + 1] ELSE mid
  BY <1>4 DEF step, reached, Passed, mid
<1>6. flushed(s.out, filled) \in Seq(Entry)
  BY <1>1, <1>2, FlushedKeeps
<1> DEFINE shown == s.shown + (IF filled = NoCycles THEN 0 ELSE 1)
<1>0. shown \in Nat
  BY <1>1
<1>7. flush(mid) = [out |-> flushed(s.out, filled), shown |-> shown, bucket |-> NoCycles,
                    pos |-> pos, edge |-> s.edge]
  <2>1. flush(mid) = [mid EXCEPT !.out = flushed(mid.out, mid.bucket), !.bucket = NoCycles,
                                 !.shown = IF mid.bucket = NoCycles THEN mid.shown ELSE mid.shown + 1]
    BY <1>3 DEF flush
  <2>2. (IF mid.bucket = NoCycles THEN mid.shown ELSE mid.shown + 1) = shown
    BY <1>1, <1>4
  <2>3. flush(mid) = [mid EXCEPT !.out = flushed(s.out, filled), !.bucket = NoCycles, !.shown = shown]
    BY <1>4, <2>1, <2>2
  <2> HIDE DEF shown
  <2> QED BY <1>3, <2>3
<1> HIDE DEF shown
<1>8. CASE Passed(pos, s.edge, sum, limit, late)
  <2>1. t = [out |-> flushed(s.out, filled), shown |-> shown, bucket |-> NoCycles,
             pos |-> pos, edge |-> s.edge + 1]
    BY <1>5, <1>7, <1>8
  <2>2. t \in State
    BY <1>0, <1>1, <1>2, <1>6, <2>1 DEF State
  <2> QED BY <1>2, <1>8, <2>1, <2>2 DEF shown
<1>9. CASE ~Passed(pos, s.edge, sum, limit, late)
  <2>1. t = [out |-> s.out, shown |-> s.shown, bucket |-> filled, pos |-> pos, edge |-> s.edge]
    BY <1>3, <1>5, <1>9
  <2>2. t \in State
    BY <1>1, <1>2, <2>1 DEF State
  <2> QED BY <1>2, <1>9, <2>1, <2>2
<1> QED BY <1>8, <1>9

\* The states of the loop.
Loop(f, sum, late) ==
  /\ f[0] = Start
  /\ \A i \in 1 .. Len(perfRuns) :
       f[i] = step(f[i - 1], perfRuns[i], sum, TimelineLimit, late)

LEMMA LoopDefined ==
  ASSUME TraceOK, NEW late, Len(perfRuns) > TimelineLimit
  PROVE  \E f \in [0 .. Len(perfRuns) -> State] :
           /\ Loop(f, total(perfRuns), late)
           /\ timeline(perfRuns, TimelineLimit, late)
                = [out |-> flush(f[Len(perfRuns)]).out, shown |-> flush(f[Len(perfRuns)]).shown]
<1> DEFINE n == Len(perfRuns)
           sum == total(perfRuns)
           next(i, s) == step(s, perfRuns[i], sum, TimelineLimit, late)
           Recurs(f) == f = [i \in 0 .. n |-> IF i = 0 THEN Start ELSE next(i, f[i - 1])]
           g == [i \in 1 .. n |-> [s \in State |-> next(i, s)]]
<1>1. n \in Nat /\ sum \in Nat /\ TimelineLimit \in Nat /\ ~(n <= TimelineLimit)
  <2>1. sum = AllCycles(classCycles)
    BY TotalOfTrace
  <2>2. sum \in Nat
    BY <2>1 DEF TraceOK, TraceTypeOK, AllCycles, PerfClass
  <2> QED BY <2>2, ConsumedEnds, TimelineAssumption DEF TimelineAssumption
<1>2. Start \in State
  BY DEF Start, State, Buckets, NoCycles
<1> HIDE DEF sum
<1>3. \A i \in 1 .. n : \A s \in State : next(i, s) \in State
  <2>1. ASSUME NEW i \in 1 .. n, NEW s \in State
        PROVE  next(i, s) \in State
    <3> DEFINE run == perfRuns[i]
               filled == [s.bucket EXCEPT ![run.cls] = s.bucket[run.cls] + run.cycles]
               pos == s.pos + run.cycles
               t == step(s, run, sum, TimelineLimit, late)
    <3>1. run \in PerfRun
      BY RunAdds
    <3> HIDE DEF run
    <3>2. filled = [s.bucket EXCEPT ![run.cls] = s.bucket[run.cls] + run.cycles]
          /\ pos = s.pos + run.cycles /\ t = step(s, run, sum, TimelineLimit, late)
      OBVIOUS
    <3> HIDE DEF filled, pos, t
    <3>3. t \in State
      BY <1>1, <3>1, <3>2, StepEffect
    <3> QED BY <3>3 DEF t, run
  <2> QED BY <2>1
<1> HIDE DEF next, n
<1>4. \E f : Recurs(f)
  <2>1. g \in [1 .. n -> [State -> State]]
    BY <1>3
  <2>2. \A i \in 1 .. n, s \in State : g[i][s] = next(i, s)
    OBVIOUS
  <2> HIDE DEF g
  <2>3. PICK f : Iterates(f, n, State, Start, g)
    BY <1>1, <1>2, <2>1, Recursion
  <2>4. /\ f \in [0 .. n -> State] /\ f[0] = Start
        /\ \A i \in 1 .. n : f[i] = g[i][f[i - 1]]
    BY <2>3 DEF Iterates
  <2>5. ASSUME NEW i \in 0 .. n
        PROVE  f[i] = IF i = 0 THEN Start ELSE next(i, f[i - 1])
    <3>1. CASE i = 0
      BY <2>4, <3>1
    <3>2. CASE i # 0
      <4>1. i \in 1 .. n /\ i - 1 \in 0 .. n
        BY <1>1, <3>2
      <4>2. f[i - 1] \in State
        BY <2>4, <4>1
      <4> QED BY <2>2, <2>4, <3>2, <4>1, <4>2
    <3> QED BY <3>1, <3>2
  <2>6. f = [i \in 0 .. n |-> f[i]]
    BY <2>4
  <2> QED BY <2>5, <2>6
<1>5. PICK f : /\ Recurs(f)
               /\ timeline(perfRuns, TimelineLimit, late)
                    = [out |-> flush(f[n]).out, shown |-> flush(f[n]).shown]
  BY <1>1, <1>4 DEF timeline, next, sum, n
<1>6. f[0] = Start /\ \A i \in 1 .. n : f[i] = next(i, f[i - 1])
  BY <1>1, <1>5
<1> DEFINE T == {i \in Nat : i <= n => f[i] \in State}
<1>7. ASSUME NEW i \in Nat, 0 .. i - 1 \subseteq T
      PROVE  i \in T
  <2>1. CASE i = 0
    BY <1>2, <1>6, <2>1
  <2>2. CASE i \in 1 .. n
    <3>1. i - 1 \in 0 .. i - 1 /\ i - 1 \in Nat /\ i - 1 <= n
      BY <1>1, <2>2
    <3>2. i - 1 \in T
      BY <1>7, <3>1
    <3>3. f[i - 1] \in State
      BY <3>1, <3>2
    <3> QED BY <1>3, <1>6, <2>2, <3>3
  <2> QED BY <1>1, <2>1, <2>2
<1>8. Nat \subseteq T
  <2> HIDE DEF T
  <2> QED BY <1>7, Inherited
<1>9. f \in [0 .. n -> State]
  <2>1. \A i \in 0 .. n : f[i] \in State
    BY <1>1, <1>8
  <2>2. DOMAIN f = 0 .. n /\ f = [i \in 0 .. n |-> f[i]]
    BY <1>5
  <2> QED BY <2>1, <2>2
<1>10. Loop(f, sum, late)
  BY <1>6 DEF Loop, next, n
<1> QED BY <1>5, <1>9, <1>10 DEF n, sum

-----------------------------------------------------------------------------
(* What the loop keeps.                                                    *)

LEMMA ProductGrows ==
  ASSUME NEW a \in Nat, NEW b \in Nat, NEW c \in Nat, a <= b
  PROVE  a * c <= b * c /\ (a < b /\ c > 0 => a * c < b * c)
<1>1. PICK d \in Nat : b = a + d
  <2>1. b - a \in Nat /\ b = a + (b - a)
    OBVIOUS
  <2> QED BY <2>1
<1>2. b * c = a * c + d * c
  BY <1>1
<1>3. a * c \in Nat /\ d * c \in Nat /\ (d > 0 /\ c > 0 => d * c > 0)
  BY <1>1
<1> QED BY <1>1, <1>2, <1>3

\* Only `limit` edges can be passed, the last of them at the very end.
LEMMA PassedEdge ==
  ASSUME NEW p \in Nat, NEW e \in Nat, NEW sum \in Nat, NEW limit \in Nat, NEW late,
         p <= sum, sum > 0, limit > 0, Passed(p, e, sum, limit, late)
  PROVE  e <= limit /\ (e = limit => p = sum)
<1>1. /\ p * limit \in Nat /\ e * sum \in Nat /\ sum * limit \in Nat
      /\ p * limit >= e * sum /\ limit * sum = sum * limit
  BY DEF Passed
<1>2. p * limit <= sum * limit /\ (p < sum => p * limit < sum * limit)
  BY ProductGrows
<1>3. e <= limit
  <2> SUFFICES ASSUME limit < e PROVE FALSE
    OBVIOUS
  <2>1. limit * sum < e * sum
    BY ProductGrows
  <2> QED BY <1>1, <1>2, <2>1
<1>4. ASSUME e = limit
      PROVE  p = sum
  <2> SUFFICES ASSUME p < sum PROVE FALSE
    OBVIOUS
  <2>1. p * limit >= sum * limit
    BY <1>1, <1>4
  <2> QED BY <1>1, <1>2, <2>1
<1> QED BY <1>3, <1>4

\* After the first i runs: every cycle charged so far is written or in the
\* bucket, and each edge passed has shown at most one bucket.
LoopInv(s, i, sum) ==
  /\ \A cls \in PerfClass : cyclesOf(s.out, cls) + s.bucket[cls] = Consumed(i + 1)[cls]
  /\ s.pos = AllCycles(Consumed(i + 1))
  /\ sum = 0 => s.shown = 0
  /\ sum > 0 => /\ s.edge >= 1 /\ s.edge <= TimelineLimit + 1
                /\ s.shown <= s.edge - 1
                /\ s.edge = TimelineLimit + 1 => s.pos = sum /\ s.bucket = NoCycles

LEMMA LoopStarts ==
  ASSUME TraceOK, NEW sum \in Nat
  PROVE  LoopInv(Start, 0, sum)
<1>2. \A cls \in PerfClass : cyclesOf(<< >>, cls) = 0
  <2>1. ASSUME NEW cls \in PerfClass
        PROVE  cyclesOf(<< >>, cls) = 0
    <3> DEFINE values == [i \in 1 .. Len(<< >>) |-> IF << >>[i].cls = cls THEN << >>[i].cycles ELSE 0]
               s == [i \in 0 .. 0 |-> 0]
    <3>1. values = << >>
      OBVIOUS
    <3>2. IsSum(s, << >>)
      BY DEF IsSum
    <3>3. << >> \in Seq(Nat) /\ Len(<< >>) = 0 /\ s[0] = 0
      OBVIOUS
    <3> HIDE DEF s, values
    <3>4. sumOf(<< >>) = 0
      BY <3>2, <3>3, SumUnique
    <3> QED BY <3>1, <3>4 DEF cyclesOf, values
  <2> QED BY <2>1
<1>3. Consumed(0 + 1) = NoCycles
  BY ConsumedEnds
<1>4. AllCycles(NoCycles) = 0 /\ \A cls \in PerfClass : NoCycles[cls] = 0
  BY DEF AllCycles, NoCycles, PerfClass
<1>5. TimelineLimit \in Nat /\ TimelineLimit > 0
  BY TimelineAssumption DEF TimelineAssumption
<1>6. /\ Start.out = << >> /\ Start.shown = 0 /\ Start.bucket = NoCycles
      /\ Start.pos = 0 /\ Start.edge = 1
  BY DEF Start
<1> QED BY <1>2, <1>3, <1>4, <1>5, <1>6 DEF LoopInv

LEMMA LoopKeeps ==
  ASSUME TraceOK, NEW sum, sum = AllCycles(classCycles), NEW late,
         NEW i \in 1 .. Len(perfRuns), NEW s \in State, LoopInv(s, i - 1, sum),
         NEW t, t = step(s, perfRuns[i], sum, TimelineLimit, late)
  PROVE  LoopInv(t, i, sum)
<1> DEFINE run == perfRuns[i]
           c == run.cls
           k == run.cycles
           filled == [s.bucket EXCEPT ![c] = s.bucket[c] + k]
           pos == s.pos + k
           past == Passed(pos, s.edge, sum, TimelineLimit, late)
           f == Consumed(i)
           g == Consumed(i + 1)
<1>1. TimelineLimit \in Nat /\ TimelineLimit > 0 /\ sum \in Nat
  BY TimelineAssumption DEF TimelineAssumption, TraceOK, TraceTypeOK, AllCycles, PerfClass
<1>2. /\ run \in PerfRun /\ c \in PerfClass /\ k \in Nat
      /\ \A cls \in PerfClass : g[cls] = f[cls] + (IF cls = c THEN k ELSE 0)
      /\ AllCycles(g) = AllCycles(f) + k
  BY RunAdds DEF PerfRun
<1>3. /\ t \in State /\ filled \in Buckets /\ t.pos = pos
      /\ IF past THEN /\ t.out = flushed(s.out, filled) /\ t.bucket = NoCycles /\ t.edge = s.edge + 1
                      /\ t.shown = s.shown + (IF filled = NoCycles THEN 0 ELSE 1)
                 ELSE t.out = s.out /\ t.bucket = filled /\ t.edge = s.edge /\ t.shown = s.shown
  <2>1. run \in PerfRun
    BY <1>2
  <2>2. filled = [s.bucket EXCEPT ![run.cls] = s.bucket[run.cls] + run.cycles]
        /\ pos = s.pos + run.cycles /\ t = step(s, run, sum, TimelineLimit, late)
    OBVIOUS
  <2> HIDE DEF filled, pos, run
  <2> QED BY <1>1, <2>1, <2>2, StepEffect
<1>4. /\ s.out \in Seq(Entry) /\ s.bucket \in Buckets /\ s.pos \in Nat /\ s.edge \in Nat
      /\ s.shown \in Nat
      /\ \A cls \in PerfClass : s.bucket[cls] \in Nat /\ cyclesOf(s.out, cls) \in Nat
  <2>1. s.out \in Seq(Entry) /\ s.bucket \in Buckets /\ s.pos \in Nat /\ s.edge \in Nat
        /\ s.shown \in Nat
    BY DEF State
  <2> QED BY <2>1, CyclesType DEF Buckets
<1>5. /\ \A cls \in PerfClass : cyclesOf(s.out, cls) + s.bucket[cls] = f[cls]
      /\ s.pos = AllCycles(f)
      /\ sum = 0 => s.shown = 0
      /\ sum > 0 => /\ s.edge >= 1 /\ s.edge <= TimelineLimit + 1
                    /\ s.shown <= s.edge - 1
                    /\ s.edge = TimelineLimit + 1 => s.pos = sum /\ s.bucket = NoCycles
  <2>1. i - 1 + 1 = i
    BY ConsumedEnds
  <2> QED BY <2>1 DEF LoopInv
<1>6. /\ filled \in Buckets
      /\ \A cls \in PerfClass : filled[cls] = s.bucket[cls] + (IF cls = c THEN k ELSE 0)
  <2> DEFINE b == s.bucket
  <2>1. b \in [PerfClass -> Nat] /\ filled = [b EXCEPT ![c] = b[c] + k]
    BY <1>4 DEF Buckets
  <2> HIDE DEF b, c, k, filled
  <2>2. \A cls \in PerfClass : filled[cls] = b[cls] + (IF cls = c THEN k ELSE 0)
    <3>1. \A cls \in PerfClass : b[cls] \in Nat
      BY <2>1
    <3> QED BY <1>2, <2>1, <3>1
  <2> QED BY <1>3, <2>2 DEF b
<1>7. pos \in Nat /\ pos = AllCycles(g) /\ pos <= sum
  <2>1. i \in 0 .. Len(perfRuns)
    BY ConsumedEnds
  <2>2. AllCycles(g) <= sum
    BY <2>1, ConsumedGrows
  <2> QED BY <1>2, <1>4, <1>5, <2>2
<1> HIDE DEF run, c, k, filled, pos, f, g
<1>8. \A cls \in PerfClass : cyclesOf(s.out, cls) + filled[cls] = g[cls]
  <2>1. ASSUME NEW cls \in PerfClass
        PROVE  cyclesOf(s.out, cls) + filled[cls] = g[cls]
    <3>1. /\ cyclesOf(s.out, cls) + s.bucket[cls] = f[cls]
          /\ filled[cls] = s.bucket[cls] + (IF cls = c THEN k ELSE 0)
          /\ g[cls] = f[cls] + (IF cls = c THEN k ELSE 0)
          /\ cyclesOf(s.out, cls) \in Nat /\ s.bucket[cls] \in Nat /\ k \in Nat
      BY <1>2, <1>4, <1>5, <1>6
    <3> QED BY <3>1
  <2> QED BY <2>1
<1>9. /\ flushed(s.out, filled) \in Seq(Entry)
      /\ filled = NoCycles => flushed(s.out, filled) = s.out
      /\ \A cls \in PerfClass :
           cyclesOf(flushed(s.out, filled), cls) = cyclesOf(s.out, cls) + filled[cls]
  BY <1>4, <1>6, FlushedKeeps
<1>10. t.pos = AllCycles(g)
  BY <1>3, <1>7
<1>11. ASSUME NEW cls \in PerfClass
       PROVE  cyclesOf(t.out, cls) + t.bucket[cls] = g[cls]
  <2>1. NoCycles[cls] = 0 /\ cyclesOf(flushed(s.out, filled), cls) \in Nat
    BY <1>9, CyclesType DEF NoCycles
  <2>2. cyclesOf(s.out, cls) + filled[cls] = g[cls]
    BY <1>8
  <2>3. cyclesOf(flushed(s.out, filled), cls) = g[cls]
    BY <1>9, <2>2
  <2>4. CASE past
    <3>1. t.out = flushed(s.out, filled) /\ t.bucket = NoCycles
      BY <1>3, <2>4
    <3> QED BY <2>1, <2>3, <3>1
  <2>5. CASE ~past
    <3>1. t.out = s.out /\ t.bucket = filled
      BY <1>3, <2>5
    <3> QED BY <2>2, <3>1
  <2> QED BY <2>4, <2>5
\* A bucket is empty when there is nothing left to charge.
<1>12. ASSUME k = 0, s.bucket = NoCycles
       PROVE  filled = NoCycles
  <2>1. \A cls \in PerfClass : filled[cls] = 0
    BY <1>6, <1>12 DEF NoCycles
  <2>2. filled = [cls \in PerfClass |-> filled[cls]]
    BY <1>6 DEF Buckets
  <2> QED BY <2>1, <2>2 DEF NoCycles
<1>13. ASSUME sum = 0
       PROVE  t.shown = 0
  <2>1. AllCycles(g) = 0
    BY <1>7, <1>13
  <2>2. \A cls \in PerfClass : g[cls] \in Nat
    <3>1. i \in 0 .. Len(perfRuns)
      BY ConsumedEnds
    <3>2. g \in Buckets
      BY <3>1, ConsumedEnds DEF g
    <3> QED BY <3>2 DEF Buckets
  <2>3. \A cls \in PerfClass : g[cls] = 0
    BY <2>1, <2>2 DEF AllCycles, PerfClass
  <2>4. \A cls \in PerfClass : filled[cls] = 0
    <3>1. \A cls \in PerfClass : filled[cls] \in Nat
      BY <1>6 DEF Buckets
    <3> QED BY <1>4, <1>8, <2>3, <3>1
  <2>5. filled = NoCycles
    <3>1. filled = [cls \in PerfClass |-> filled[cls]]
      BY <1>6 DEF Buckets
    <3> QED BY <2>4, <3>1 DEF NoCycles
  <2> QED BY <1>3, <1>4, <1>5, <1>13, <2>5
<1>14. ASSUME sum > 0
       PROVE  /\ t.edge >= 1 /\ t.edge <= TimelineLimit + 1
              /\ t.shown <= t.edge - 1
              /\ t.edge = TimelineLimit + 1 => t.pos = sum /\ t.bucket = NoCycles
  <2>1. /\ s.edge >= 1 /\ s.edge <= TimelineLimit + 1
        /\ s.shown <= s.edge - 1
        /\ s.edge = TimelineLimit + 1 => s.pos = sum /\ s.bucket = NoCycles
    BY <1>5, <1>14
  <2>2. CASE past
    <3>1. /\ t.bucket = NoCycles /\ t.edge = s.edge + 1
          /\ t.shown = s.shown + (IF filled = NoCycles THEN 0 ELSE 1)
      BY <1>3, <2>2
    <3>2. s.edge <= TimelineLimit /\ (s.edge = TimelineLimit => pos = sum)
      BY <1>1, <1>4, <1>7, <1>14, <2>2, PassedEdge
    <3>4. t.shown <= t.edge - 1
      BY <1>4, <2>1, <3>1
    <3>5. t.edge >= 1 /\ t.edge <= TimelineLimit + 1
      BY <1>1, <1>4, <2>1, <3>1, <3>2
    <3>6. t.edge = TimelineLimit + 1 => t.pos = sum
      BY <1>1, <1>3, <1>4, <3>1, <3>2
    <3> QED BY <3>1, <3>4, <3>5, <3>6
  <2>3. CASE ~past
    <3>1. t.bucket = filled /\ t.edge = s.edge /\ t.shown = s.shown
      BY <1>3, <2>3
    <3>2. ASSUME s.edge = TimelineLimit + 1
          PROVE  t.pos = sum /\ t.bucket = NoCycles
      <4>1. s.pos = sum /\ s.bucket = NoCycles
        BY <2>1, <3>2
      <4>2. k = 0 /\ t.pos = sum
        BY <1>1, <1>2, <1>3, <1>7, <4>1 DEF pos
      <4> QED BY <1>12, <3>1, <4>1, <4>2
    <3> QED BY <2>1, <3>1, <3>2
  <2> QED BY <2>2, <2>3
<1> QED BY <1>10, <1>11, <1>13, <1>14 DEF LoopInv, g

-----------------------------------------------------------------------------
(* The timeline of a trace that did not fit.                               *)
LEMMA CondensedKeeps ==
  ASSUME TraceOK, NEW late, Len(perfRuns) > TimelineLimit,
         NEW drawn, drawn = timeline(perfRuns, TimelineLimit, late)
  PROVE  /\ drawn.shown <= TimelineLimit
         /\ \A cls \in PerfClass : cyclesOf(drawn.out, cls) = classCycles[cls]
<1> DEFINE n == Len(perfRuns)
           sum == AllCycles(classCycles)
<1>1. n \in Nat /\ sum \in Nat /\ TimelineLimit \in Nat /\ TimelineLimit > 0
  BY ConsumedEnds, TimelineAssumption
     DEF TimelineAssumption, TraceOK, TraceTypeOK, AllCycles, PerfClass
<1>2. PICK f \in [0 .. n -> State] :
        /\ Loop(f, sum, late)
        /\ drawn.out = flush(f[n]).out /\ drawn.shown = flush(f[n]).shown
  BY LoopDefined, TotalOfTrace
<1>3. f[0] = Start /\ \A i \in 1 .. n : f[i] = step(f[i - 1], perfRuns[i], sum, TimelineLimit, late)
  BY <1>2 DEF Loop
<1>4. sum = AllCycles(classCycles)
  OBVIOUS
<1> HIDE DEF sum
<1> DEFINE T == {i \in Nat : i <= n => LoopInv(f[i], i, sum)}
<1>5. ASSUME NEW i \in Nat, 0 .. i - 1 \subseteq T
      PROVE  i \in T
  <2>1. CASE i = 0
    BY <1>1, <1>3, <2>1, LoopStarts
  <2>2. CASE i \in 1 .. n
    <3>1. i - 1 \in 0 .. i - 1 /\ i - 1 \in Nat /\ i - 1 <= n
      BY <1>1, <2>2
    <3>2. i - 1 \in T
      BY <1>5, <3>1
    <3>3. LoopInv(f[i - 1], i - 1, sum)
      BY <3>1, <3>2
    <3>4. f[i - 1] \in State
      BY <1>1, <1>2, <3>1
    <3>5. LoopInv(f[i], i, sum)
      BY <1>3, <1>4, <2>2, <3>3, <3>4, LoopKeeps
    <3> QED BY <3>5
  <2> QED BY <1>1, <2>1, <2>2
<1>6. Nat \subseteq T
  <2> HIDE DEF T
  <2> QED BY <1>5, Inherited
<1> DEFINE s == f[n]
<1>7. LoopInv(s, n, sum) /\ s \in State
  BY <1>1, <1>2, <1>6
<1>8. drawn.out = flush(s).out /\ drawn.shown = flush(s).shown
  BY <1>2
<1> HIDE DEF s, T
<1>9. /\ s.out \in Seq(Entry) /\ s.bucket \in Buckets /\ s.edge \in Nat /\ s.shown \in Nat
      /\ s = [out |-> s.out, shown |-> s.shown, bucket |-> s.bucket, pos |-> s.pos, edge |-> s.edge]
  BY <1>7 DEF State
<1>10. /\ drawn.out = flushed(s.out, s.bucket)
       /\ drawn.shown = IF s.bucket = NoCycles THEN s.shown ELSE s.shown + 1
  <2> DEFINE o == s.out
             b == s.bucket
             w == s.shown
  <2>1. s = [out |-> o, shown |-> w, bucket |-> b, pos |-> s.pos, edge |-> s.edge]
    BY <1>9
  <2>2. flush(s) = [s EXCEPT !.out = flushed(o, b), !.bucket = NoCycles,
                             !.shown = IF b = NoCycles THEN w ELSE w + 1]
    BY <2>1 DEF flush
  <2> HIDE DEF o, b, w
  <2>3. flush(s).out = flushed(o, b) /\ flush(s).shown = IF b = NoCycles THEN w ELSE w + 1
    BY <2>1, <2>2
  <2> QED BY <1>8, <2>3 DEF o, b, w
<1>11. \A cls \in PerfClass : cyclesOf(drawn.out, cls) = cyclesOf(s.out, cls) + s.bucket[cls]
  BY <1>9, <1>10, FlushedKeeps
<1>12. \A cls \in PerfClass : cyclesOf(drawn.out, cls) = classCycles[cls]
  <2>1. \A cls \in PerfClass : cyclesOf(s.out, cls) + s.bucket[cls] = Consumed(n + 1)[cls]
    BY <1>7 DEF LoopInv
  <2>2. Consumed(n + 1) = classCycles
    BY ConsumedEnds
  <2> QED BY <1>11, <2>1, <2>2
<1>13. drawn.shown <= TimelineLimit
  <2>1. CASE sum = 0
    BY <1>1, <1>7, <1>10, <2>1 DEF LoopInv
  <2>2. CASE sum > 0
    <3>1. /\ s.edge <= TimelineLimit + 1 /\ s.shown <= s.edge - 1
          /\ s.edge = TimelineLimit + 1 => s.bucket = NoCycles
      BY <1>7, <2>2 DEF LoopInv
    <3>2. CASE s.edge = TimelineLimit + 1
      BY <1>1, <1>9, <1>10, <3>1, <3>2
    <3>3. CASE s.edge <= TimelineLimit
      BY <1>1, <1>9, <1>10, <3>1, <3>3
    <3> QED BY <1>1, <1>9, <3>1, <3>2, <3>3
  <2> QED BY <1>1, <2>1, <2>2
<1> QED BY <1>12, <1>13

\* Whatever was recorded.
LEMMA TraceKeeps ==
  ASSUME TraceOK
  PROVE  TimelineKeepsCycles
<1> SUFFICES ASSUME NEW late,
                    NEW drawn, drawn = timeline(perfRuns, TimelineLimit, late)
             PROVE  /\ drawn.shown <= TimelineLimit
                    /\ \A cls \in PerfClass : cyclesOf(drawn.out, cls) = classCycles[cls]
  BY DEF TimelineKeepsCycles
<1>1. TimelineLimit \in Nat /\ Len(perfRuns) \in Nat
  BY ConsumedEnds, TimelineAssumption DEF TimelineAssumption
<1>2. CASE Len(perfRuns) > TimelineLimit
  BY <1>2, CondensedKeeps
<1>3. CASE Len(perfRuns) <= TimelineLimit
  <2>1. drawn.out = [i \in 1 .. Len(perfRuns) |-> entry(perfRuns[i].cls, perfRuns[i].cycles)]
    BY <1>3 DEF timeline
  <2>2. drawn.shown = Len(perfRuns)
    BY <1>3 DEF timeline
  <2>3. \A cls \in PerfClass : cyclesOf(drawn.out, cls) = classCycles[cls]
    BY <2>1, ClassOfTrace
  <2> QED BY <1>1, <1>3, <2>2, <2>3
<1> QED BY <1>1, <1>2, <1>3

\* The timeline of a finished run shows of every class the cycles charged, in
\* at most `limit` buckets, for every instruction stream and every rounding of
\* the edges (timeline() in mtxserve).
THEOREM TimelineHolds == PerfSpec => []TimelineKeepsCycles
<1>1. PerfInv => TimelineKeepsCycles
  <2>1. PerfInv => TraceOK
    BY DEF PerfInv, PerfTypeOK, TraceOK, TraceTypeOK
  <2> QED BY <2>1, TraceKeeps
<1> QED BY <1>1, PerfInvariant, PTL
=============================================================================
