# A verification of MatrixDSL

MatrixDSL compiles a small matrix language (`.mtx`) to the assembly of an
imaginary accelerator, MDT, and simulates the result. This directory holds TLA+
models of the program, the TLC configurations that check them, and proofs
checked by TLAPS. Every definition is translated from the C++ source; the
`map` of `PROJECT.json` names the lines.

## 1. The system

```
source -> Lexer -> Parser -> Semantic analysis -> Lowering -> Tensor IR passes
       -> MDT code generator -> Assembler -> Simulator -> prints, performance model
Pipeline runs the whole chain; mtxserve runs it four times per request for the dashboard.
```

| Part | State it keeps | Operations | What makes it correct |
|---|---|---|---|
| Simulator (`tools/mdtsim/MDTSim.*`) | registers R/V/M, DRAM, scratchpad, pc, halted, diagnostics, prints, counts | `load`, `run`, one handler per group of opcodes, two runtime calls | `run()` ends, and its result, diagnostics, pc and counts agree; a fault changes nothing; stores are read back; returns match calls; padding stays zero |
| Performance model (same files) | counters, run-length trace | record an instruction or a runtime cost, pair runs at the end | the trace adds up to the total; each run pairs at most once; the estimate lies between perfect overlap and none |
| Assembler (`tools/mdtsim/Assembler.cpp`) | code, data, two label tables, section flag | two passes over the lines, then label resolution | the passes number instructions alike; a label resolves to the instruction after it |
| Lexer, Parser (`compiler/frontend`) | position, diagnostics, AST | tokenise; recursive descent, panic-mode recovery | terminates on every input, reports every bad statement, loses few good ones |
| Semantic analysis | symbols, diagnostics, types in the AST | declare, look up, mark, check shapes | one mistake is one error; an accepted program has consistent shapes |
| Lowering, Tensor IR, passes (`compiler/tensor-ir`) | an ordered op list in SSA form | build; fuse; remove dead ops; tile | operands precede uses; every pass keeps the printed values |
| Code generator (`compiler/backend`) | buffer layout, constants, base registers, text | lay out, then emit one sequence per op | buffers are disjoint, base registers bound when used, padding kept zero |
| Pipeline (`compiler/driver`) | the results of the phases | front end, compile four configurations, simulate, compare | a phase runs only if the earlier ones succeeded |
| mtxserve, dashboard | one client at a time; the last answer shown | accept, run, answer; run, render | every call settles, is answered for its own text; the timeline keeps the totals |
| LLVM emitter, `.td` files, runtime kernels, command-line tools | none between calls | print | golden files in the tests |

Phases hand each other finished values and share no memory. The program has no
threads and persists nothing: what is concurrent is a browser page with several
requests in flight, and the server's sequential accept loop. The difficulty of
the rest lies in long sequences of legal steps (call and return, trace and
pairing, pass after pass), in failure in the middle of a sequence (a fault, the
instruction limit, half a tile transferred, panic-mode recovery) and in
boundaries (addresses round zero, strides, the end of the code). `PROJECT.json`
lists these hazards one by one, at the line where they bite, with the properties
that catch them.

## 2. The modules

| Module | Models | Notes |
|---|---|---|
| `MDTIsa` | opcodes, operands, `classifyForPerf`, `instructionLatency` | constants only |
| `MDTPerf` | `recordPerfInstruction`, `recordRuntimeCost`, `finalizePerformanceModel`, the frame of `run()` | on its own it is fed any instruction stream: the abstract specification `PerfSpec` |
| `MDTSimulator` | `MachineState`, `load`, `run`, `step`, `exec*`, memory access, runtime calls | extends `MDTPerf`: each handler records through its operators |
| `Timeline` | `timeline()` of mtxserve | extends `MDTPerf`: buckets of its trace |
| `TensorIR` | the op list, `interpret`, `runFusionPass`, `runDeadCodeElimination`, `runTilingPass`, the part of `compile()` that calls them | |
| `MDTCodeGen` | `CodeGen::run()`: `layout`, `prologue`, base registers, tiles, `lower` | extends `TensorIR`; emits decoded instructions |
| `Pipeline` | `compile()`, `simulate()`, `referenceOutput()` | extends `MDTCodeGen`, has an instance of `MDTSimulator` |
| `PrintedProgram` | what compiler and simulator promise together | abstract specification of `Pipeline` |
| `AssemblyLanguage` | one line: `parseOperand`, `decodeInstruction`, `handleDirective` | |
| `AssemblyMeaning` | what a text of lines means, without passes or tables: `Translate` | extends `AssemblyLanguage` |
| `Assembler` | `assemble`, `firstPass`, `secondPass`, label resolution | extends `AssemblyMeaning` |
| `AssemblerInterface` | a function of the text, called any number of times | abstract specification of `Assembler` |
| `Parser` | the productions, `expect`, `synchronize`, `parseProgram` | recursive operators: TLC only |
| `MatrixType` | shapes, limits and the six shape rules | |
| `SemanticAnalyzer` | the visits and the symbol table | extends `Parser`, `MatrixType` |
| `Lowering` | `lowerToTensorIR()` | extends `SemanticAnalyzer` |
| `FrontEnd` | `frontEnd()` of the pipeline, stage by stage | extends `Lowering`; judges its result with `TensorIR`'s shape rules |
| `Mtxserve` | `main()`'s accept loop and `handle()` | sockets are external |
| `Dashboard` | `connect`, `loadPrograms`, `run`, `runSuite`, `render`, `renderTimelines` and the wiring | extends `Mtxserve` |
| `MCMDTPerf`, `MCMDTSimulator`, `MCTensorIR`, `MCPipeline`, `MCAssembler`, `MCFrontEnd`, `MCDashboard` | instances for TLC | constants, instruction pools, programs, shapes |
| `MDTPerfProofs` | theorems about `MDTPerf`; the timeline keeps every cycle in at most `limit` buckets | extends `Timeline`; checked by TLAPS, as the modules below are |
| `MDTSimulatorProofs` | how `run()` ends, the simulator's types, that it implements `PerfSpec`; a fault leaves no trace, stores are read back, softmax zeroes padding | extends `MDTSimulator`, `MDTPerfProofs` |
| `Induction` | induction, recursion and division over the naturals, as lemmas about sets | used by the proofs about lists and tiles |
| `TensorIRProofs` | the op list through all passes, complete fusion, staging and its report; no pass changes what is printed | extends `TensorIR` |
| `CompilerProofs` | where `layout()` puts what, and what the code of every op may count on | lemmas; extends `Pipeline`, `TensorIRProofs` |
| `PipelineProofs` | what compiled code reads and writes as it runs, and that padding stays zero | extends `CompilerProofs` |
| `DashboardProofs` | what the page is answered, and its buttons | extends `Dashboard` |
| `AssemblerProofs` | what assembles is well formed, its labels, and that `assemble()` is a function of its text | extends `Assembler` |

The composition is in three links. `FrontEnd` runs tokens to a lowered function and shows that
it is a function as `TensorIR` assumes one; `Pipeline` takes such a function to printed
matrices; `Dashboard` calls the service that runs the whole. Between the code generator
and the simulator `Pipeline` hands over decoded instructions, and `Assembler` shows
separately that text is decoded as its lines say.

### MDTPerf

`perfRuns` is the code's `perfRuns_`. Each entry carries one history field more,
`before`: what every class had been charged when the run was opened. `finI` and
`finTotal` are the locals `i` and `total` of `finalizePerformanceModel`, whose
`while` is one action per iteration (`FinalizeIteration`) between `LeaveLoop` and
`FinalizeEnd`. `recordPerfInstruction` and `recordRuntimeCost` extend the trace with code of
their own, and so do `ExtendRuns` and `RuntimeRuns`. `phase` says where `run()` is: `idle`, `loaded`, `running` (in the
loop), `finalizing`, `done`. `AbortRun` is either of the two `return false` in
the loop.

### MDTSimulator

A handler of the code is an action (`ScalarArith`, `Vector`, `Matrix`, `Convert`,
`VectorReduce`, `RowReduce`, `ExecLoad`, `ExecStore`, `Br`, `CondBranch`, `Jmp`,
`Call`, `Ret`, `RuntimePrint`, `RuntimeSoftmax`, `UnknownRuntime`, `Nop`, `Halt`).
Its disjuncts are the handler's outcomes: the instruction is retired
(`RetireAt` is the tail of `step()` with its recording) or faults (`Fault` is
`runtimeError`, the tail of `step()` and the `return false` of `run()`).
`LimitReached`, `EndRun`, `Finalize` and `ReturnFromRun` are the rest of `run()`.

Abstractions:

* **Words.** Memory counts 4-byte words and addresses are word-aligned. A word is
  an integer of a small width; `int32_t` arithmetic wraps, as the compiled code
  does, float arithmetic saturates. Converting a float out of range to an integer
  is undefined in C++, so `TruncatedToInt` allows the two results the targets give.
* **Tiles** are `kTileDim` square, 2 in the runs instead of 4. Nothing in the
  handlers depends on the value except `VREDSUM`'s written-out sum.
* **Bounds.** `Fits` is the `size_t` comparison of the code: an address below zero is
  huge, and the sum with the length wraps to a small number. What such a read
  yields is any member of `Wild`; such a write changes no word of the array (what
  else it may overwrite is outside the model).
* **Softmax** writes 1 for `exp(x)/sum`: the properties are about which words are
  written and which are zero.
* **Assembled programs.** The operand record is `parseOperand`'s result, and
  `WellFormedInstruction` is what the assembler guarantees: register indices in
  range, memory bases scalar. It does not check that a register is of the class an
  instruction needs, and neither do the models: that is what `checkRegister` is for.
* `frames` is history, the return indices of the calls under way; the machine
  has no such stack.
* Left out: the trace option, `echoPrints`, names of prints, dumps, source lines and
  the wording of diagnostics. Handlers' unreachable `default` branches (an opcode
  `step()` never dispatches to them) have no action.

`load()` may follow any `run()` or none; that is `LoadPhases`. A `run()` without a
`load()` in between is left out: no caller does it.

### TensorIR

An op is a pointer, a number: `heap` maps it to its fields, `ops` is the list that
owns it. Place and `id` change under the passes, the pointer does not, and one that
`eraseIf` frees may be handed out again. `stage` says which pass `compile()` is in.
A sweep is one action per op it visits (`FuseRelu`, `FuseAcc`, `KeepOp`; `Mark`;
`VisitConsumer`, `StageOperand`, `SkipOperand`, `LeaveConsumer`), since what it reads
(`uses`, positions, ids) is what its earlier steps may have made stale. `std::sort`
leaves equal candidates in either order, and so does `Best`.

* **Lowering** is, in the runs of this module alone, any sequence of ops the shape
  rules accept; `CheckedProgramsLower` of `FrontEnd` shows that real lowering stays within it.
* **Values** are terms. `interpret` gives each print its shape and term; `meaning` is
  history, what it gave before the first pass. A fused op adds its partial products
  in another order than the two ops it replaces: rounding is abstracted.
* **Scratchpad** bytes are counted in tiles of `kTileBytes`, and machine integers are
  unbounded: an operand whose bytes exceed an `int` is outside the model.

### MDTCodeGen and Pipeline

The generator runs once per program: one action per op for `layout()` and one per op for
`lower()`, whose loops over batches and tiles are functions from an op to the sequence of
instructions it emits. `emitter` is history: which op each instruction was emitted for. `PipelineInit` takes a
checked program, the steps of `TensorIR` transform it, the generator emits, and the simulator
runs the code one instruction per step. What interpreter and simulator print is
compared by `PrintsTheProgram`, which is the refinement `Promise!Spec`: the abstract
`PrintedProgram` knows only which matrices are to come out.

Arithmetic is exact (`HalfWord` is far above any value in the run), so reassociated
sums are equal. Zero times infinity or NaN is not zero in the code: the padding property
is about finite values. Addresses are in words, tiles 2x2.

### AssemblyLanguage, AssemblyMeaning, Assembler, AssemblerInterface

A line is what each pass reads of it: `label` is the text before the first colon and `first` what
the first pass takes the rest for, by its first character; `head` and `args` are the tokens the second
pass has, of the whole line if it holds a bracket and a colon (`kept`), without leading commas in any
case. `SourceLine` says which of these go together. How characters are split and how numbers are
spelled is left out; which spelled operands are legal, how many each opcode takes and what is
wrong with a directive is in. One action per line of each pass and per instruction resolved.
Calling `assemble()` again on the same object is an action, so nothing of the earlier call may survive.
An argument that is a register or a name is never empty, since empty tokens are dropped
(`tokenizeLine`, `Assembler.cpp:56-75`).

`AssembleIsAFunction` is the refinement `Interface!Translates`: a call returns `Translate` of its text,
in which, without passes or tables, each line means an instruction, bytes, the name of a print id, nothing or
an error, and a name means the place of its last definition.

The passes do not read every line alike, and the models keep that. A labelled line whose operand has
brackets (`loop: LOAD M0, [R2]`) is not recognised as labelled in the second pass and fails as an
unknown instruction. Other lines assemble, and are one thing for one pass and another for the other
(`ReadUnlike`):

* counted by the first and no instruction for the second: a line of commas, `, .word 5`, `.global a:[`;
* decoded by the second and not counted by the first: `ADD R1, R2, 0x4[:`, `ADD R1, R2, 0x4:.text [`;
* a change of section for one pass only: `, .data`, and `x: .text [`, which is a change for the
  first and an error for the second.

`LabelsNameInstructions` is stated for programs without such lines; what they do to labels is in section 4.

### Parser, MatrixType, SemanticAnalyzer, Lowering, FrontEnd

A production is an operator from a parser state to a parser state and a node; one turn of
`parseProgram`'s loop, one statement analysed, and one statement lowered are the actions. The
analyzer writes types into the nodes, as the code does. A source is a sequence of tokens, with
the place of each; an error is the place where it is reported and its kind. `nullptr` is
`NoStatement` for a statement and `Null` for an op.

### Mtxserve and Dashboard

A request is counted in parts, the pieces its bytes may arrive in: `recv()` returns any
number of those that have come. `step` is where `main()` and `handle()` are. Answers are
records of the code and, for a run, of the source that was run and whether some configuration
ran. A call of the page is a socket and what is awaited on it; the code up to an `await` is
part of the action that starts the call, the code after it is the action that settles it, with
the page as it is by then. `timelines` is what the two canvases below the cards were drawn from:
`Redraw` draws them from `last` when the window is resized or the tab is shown again, and an
answer without a timeline clears the first and stops there. `Compiles` are the sources that
compile, `Runs` those that run in some configuration. The environment is the user, a client that connects and sends what
it likes, and whoever stops and starts the backend: while it is down, connections are refused.

### Timeline

`timeline()` is an operator on the trace of `MDTPerf`. The edges of the buckets are sums of a
floating-point width: `late` is the set of edges that rounding has moved past the position they fall on,
and the property is checked for every such set. `shown` is history, the number of buckets of which
something was written: a bucket has up to three entries, so that the length of the list does not tell.

## 3. The runs

| Run | Module, config | Shows |
|---|---|---|
| `perf` | `MCMDTPerf` | `PerfTypeOK`, `RunsTileTheTrace`, `PairingInv`, `OverlapWithinBounds`, `TimelineKeepsCycles` for every stream of up to 4 instructions of every opcode |
| `sim_pairs` | `MCSimPairs.cfg` | `SimTypeOK`, `FaultsLeaveNoTrace`, `StoresAreReadBack`, `RecordsLikePerfModel` for every ordered pair of 61 instructions |
| `sim_programs` | `MCSimPrograms.cfg` | `RunOutcome`, `ReturnsMatchCalls`, `SoftmaxZeroesPadding`, `PrintsShowSoftmax` and `Termination` for programs with calls and runtime calls |
| `fusion` | `MCFusion.cfg` | `SSAOrder`, `PrintsPreserved`, `AbsorbedOpsAreDead`, `FusionComplete` for every function of up to 4 ops and 2 prints |
| `tiling` | `MCTiling.cfg` | `IRTypeOK`, `IdsArePositions`, `PrintsPreserved`, `StagingIntact`, `ReportNamesConsumer`, `ReportCountsReads` for every fused function of up to 4 ops over broadcast and ragged shapes |
| `pipeline` | `MCPipeline.cfg` | `PaddingStaysZero`, `LoadsReadOperands`, `OnlyTheResultChanges`, `PrintsTheProgram` for programs of up to five ops, with and without the passes |
| `assembler` | `MCAssembler.cfg` | `LabelsNameInstructions`, `AssembledIsWellFormed`, `AssembleIsAFunction` for programs of two to four lines, one after the other |
| `frontend` | `MCFrontEnd.cfg` | `EveryTurnConsumes`, `RecoveryIsLocal`, `OneErrorPerMistake`, `CheckedProgramsLower`, `LoweringKeepsMeaning` for edited and for composed programs |
| `service` | `MCDashboard.cfg` | `AnswersAreForTheText`, `IdlePageIsReady`, `CallsSettle` for two calls at a time, a stop and a start, and another client |
| `perf_aborted` | `MCPerfAborted.cfg` | finding 1 |
| `sim_outside` | `MCSimOutside.cfg` | finding 2 |
| `service_redraw` | `MCDashboardRedraw.cfg` | finding 3 |

**Properties.**

* `RunsTileTheTrace`: neighbouring runs differ in class, each starts where the one
  before ended, the last ends at the current totals, and these add up to
  `sequentialCycles`. Two functions charge the model, so a charge in one place
  only, or a run left unextended, breaks it.
* `OverlapWithinBounds`: after a completed run, `overlapAwareCycles` is at most
  `sequentialCycles` and at least `Other + max(Transfer, Compute)`. `PairingInv` is
  the same statement about the part of the trace already consumed.
* `RunOutcome`: the three ways `run()` can end, and for each the result, the
  diagnostics with their pc, `halted`, and the two instruction counts. Checked where programs follow one
  another, proved for every program.
* `FaultsLeaveNoTrace`: a faulting instruction changes no register, memory, print,
  count or pc, but for the rows a strided tile transfer moved before the row
  that failed.
* `StoresAreReadBack`: a `LOAD` with the operand of a `STORE` reads what was stored,
  contiguous or strided, in DRAM or scratchpad.
* `ReturnsMatchCalls`: in programs that save RA where they must, every `RET` goes
  back after its own `CALL`; the top-level one halts.
* `SoftmaxZeroesPadding`, `PrintsShowSoftmax`: the padding invariant that
  `compiler/backend/MDTCodeGen.h:10-14` relies on, and the agreement of the two
  address computations in `execRuntimeCall`.
* `Termination`: a run that was entered returns.
* `RecordsLikePerfModel` is `PerfSpec`: the simulator, projected to the performance
  variables, implements `MDTPerf` (the variables have the same names, so the
  refinement mapping is the identity).

* `TimelineKeepsCycles`: the timeline shows of each class the cycles charged, in at most
  `limit` buckets, although an edge moves by one width per run however long the run is and
  whichever edges rounding moves. An edge that is a bucket early makes one bucket too many.

* `PrintsPreserved`: no step of any pass changes what is printed, in value, shape or
  order. It is the abstract specification of the passes, over `interpret`.
* `SSAOrder`: operands come before their uses and are alive, the assumption under
  which each pass needs one sweep only.
* `AbsorbedOpsAreDead`, `FusionComplete`: use counts are taken once, before the sweep
  rewrites operands. The first says that they are never too small (no absorbed
  product is computed again), the second that they are never too large (no pair that
  could fuse is missed). `FusionComplete` counts dead readers as readers, as the code
  does: fusion runs before dead-code elimination.
* `StagingIntact`: what a consumer reads from the scratchpad is what was staged for
  it, inside the scratchpad and not overwritten by a copy made in between.
* `ReportNamesConsumer`, `ReportCountsReads`, `IdsArePositions`: the tiling report
  names the op that reads the staged operand although every insertion renumbers the
  list, and its counts are those of the generated loops.

* `PrintsTheProgram`: a compiled program prints the interpreter's matrices, in order,
  each once and, since each phase goes on, all of them.
* `PaddingStaysZero`, `LoadsReadOperands`, `OnlyTheResultChanges`: at every instruction of every
  op, padding is zero, a tile that is loaded belongs to an operand, a constant or the very
  store it stands for, and what is written is the op's own buffer. A base register left stale, a wrong
  stride or a shared word breaks one of them.
* `LabelsNameInstructions`: a code label is the number of instructions decoded before it, though
  another pass, by other rules, counted them; without the lines of `ReadUnlike`. `AssembledIsWellFormed` is what the simulator's
  `WellFormedInstruction` takes for granted.
* `AssembleIsAFunction`: what is assembled depends on the text alone, not on what the object assembled
  before, and there is an error exactly if some line means nothing. A table that survives a
  call, a label looked up in the wrong table or an error that is dropped breaks it.
* `EveryTurnConsumes`, `RecoveryIsLocal`: recovery ends, and one wrong token costs at most the
  statement it is in and the next; a missing semicolon costs none.
* `OneErrorPerMistake`: `docs/shape-rules.md:113` for the nodes of one statement. A declaration
  out of range is not declared, so that each later use of its name is a further error.
* `CheckedProgramsLower`: what analysis accepts is lowered to ops whose shapes follow from their
  operands', which no later phase checks. The one internal error left is a scalar factor that is
  no constant, as Lowering.cpp says.
* `LoweringKeepsMeaning`: every print of the function is the value its name has at that point of
  the program, by an evaluation of the AST that knows no ops.
* `AnswersAreForTheText`: a program that arrives in pieces is run whole. `IdlePageIsReady`: with no
  run under way the Run button is enabled, and so is the suite's with no suite under way, in
  whatever order answers and failures come. `CallsSettle`: each call, and what its answer or
  failure starts, comes to rest, although the backend serves one client at a time.

**Bounds.** In `perf`, four instructions give every sequence of classes of length
four, so runs of one to four instructions, pairs at the end and in the middle,
and both parities of the pairing index. In the simulator's runs words have 6 bits
(`HalfWord = 32`), DRAM 10 words after loading 6 words of data, the scratchpad 5: a
tile of 4 words fits, straddles an end, or starts below zero. `MaxInstructions`
is 6 in `sim_pairs`, so that a pair that branches backwards meets the limit, and
40 in `sim_programs`, enough for the longest program and few enough for the endless one.
The pool of `sim_pairs` holds every opcode with legal operands, and for each group
one with a wrong class and, where there is one, an operand just inside and just
outside the range. `sim_programs` lets `load()` replace any finished program by
any other, so what a run leaves behind is tried on every next program.
`TransferBytes` and `RuntimeCosts` only restrict the abstract stream; the simulator's
runs list every width that occurs, and 0 as the runtime cost because in the pairs a
runtime call either prints, faults or is unknown.

In `fusion` four ops hold every fusible pattern (a product, a sum, a relu, and one
reader that forbids it) and two prints tell order and dead code apart; shapes are
1x1, which every kind accepts, and the second configuration tiles single tiles. In
`tiling` the shapes are two blocks a side, one of them ragged and in a batch that
the other is broadcast over, and the scratchpad of twelve tiles takes a large
operand with a small one but not two large ones. Between them the two runs use every
kind of op.

In `pipeline` tiles are 2x2, shapes are ragged, span several tiles or are broadcast over a batch of two, programs
have two ops over two leaves and two prints, or a product accumulated and clamped, and the
scratchpad holds four tiles, so that some operands are staged and others are not. In `assembler` the pool
holds code, data, every directive, wrong operands and, for each way of reading a line unlike, one that
is; two lines suffice for
a label and its use, three for one that is moved or hidden, four for sections and separators in between; two programs
are then assembled on the same object. In `frontend`, three programs of four or five statements hold every production, and
each single token is dropped, replaced by or preceded by each of twelve strays; the programs for the analysis have
three declarations (one set out of range and redeclared), an assignment of 17 kinds, a second
one that redefines or reuses names, and two prints. Limits of dimension are the code's. In `service` two calls
and two gestures are enough for a run that overlaps the first one's, a run during a restart, and a
retry; a backlog of two is full with three clients when nobody is served; `MaxParts` is three, so
that the other client exceeds it in the header and in the declared length.
`TimelineLimit` is 2 instead of 600, so that traces of three and four runs are bucketed and a third bucket is possible.
`service_redraw` has the constants of `service`.

**Deadlock** is off in the runs that load once: after `run()` has returned and with no
further program the system really stops. `TensorIR` ends in `Compiled`, a stutter, so that a
pass that gets stuck is a deadlock.

**Fairness.** `FairSpec` is `WF_vars(Run)`: `run()` is a loop on the caller's thread
(`compiler/driver/Pipeline.cpp:146-172`, `tools/mdtsim/main.cpp:148-155`), nothing else
executes until it returns, and each of its steps is finite. `Load` is not fair: a
caller may stop. `Pipeline` has weak fairness of its own steps for the same reason: plain calls
that run to their end. In `Dashboard` the
accept loop (`main.cpp:439-446`) and the browser keep going, sent bytes arrive, and the other
client hangs up in the end. This last assumption is not the code's: there is no timeout on
`recv()`, and without it one silent client blocks every other for ever, so that `CallsSettle` says
nothing of that hazard. Starting the backend
again and the user are not fair. Deadlock is off there since the user may be done.

## 4. Findings

1. `MDTSim.h:296` calls the performance model valid after `run()` returns. A run that
   faults or reaches the limit returns before `finalizePerformanceModel`
   (`MDTSim.cpp:822-829`), so `overlapAwareCycles` stays 0 beside a positive
   `sequentialCycles`. Neither caller in the repository reads it then.
2. `MDTSim.cpp:73-75` says every out-of-range access becomes a diagnostic. The check
   `address + 4 > mem.size()` is made in `size_t`, where an address just below zero wraps.
3. `extension/README.md:13-17` lists the timeline below the cards. An answer that did not compile
   replaces `last` (`dashboard.js:74`) and leaves the cards; on the next resize or click on the tab (`:314`, `:306`)
   `renderTimelines(last)` clears the first canvas and throws on the timeline that is missing.

Seen while modelling, without a run of their own:

* `MDTSim.h:190` says of `labels_`: "label -> instruction index". The first pass decides by the first
  character of what follows the first colon (`Assembler.cpp:532`), the second by the first token,
  without leading commas, of a line that keeps its label if it holds a bracket (`567-568`, `577-581`). After a
  line they read unlike, labels are off: with `, .data` before it, `x:` is at 1 when no instruction is.
* `docs/memory-hierarchy.md:88-93` and `:102` describe a dependence check behind the overlap-aware
  estimate. `finalizePerformanceModel` has none: a load and the computation of what it loaded are
  charged their maximum.
* `Token::startsStatement()` (`Lexer.cpp:53-56`) leaves out `tensor`, which `Lexer.h:76` lists. After a
  stray token, recovery discards the `tensor` of the next declaration and parses the rest
  as an assignment. `RecoveryIsLocal` is stated for programs with no later `tensor` declaration.
* `dashboard.js:92` says "did not compile" also of a program that compiled and failed in every
  configuration; a redraw then shows that program's timelines below the cards of another.
* Answers of overlapping runs are rendered as they arrive; the page may end up with the results of a text
  that is no longer in the editor.

## 5. The proofs

The eight modules are checked from nothing by `tlapm`.

* `MDTPerfProofs`. `PerfInv == PerfTypeOK /\ RunsTileTheTrace /\ PairingInv /\
  OverlapWithinBounds` is inductive (`PerfInvariant`). `OverlapWithinBounds` alone
  is not: it speaks of the end of a loop. `PairingInv` says where the loop stands,
  and only the `before` fields, tied together by `RunsTileTheTrace`, give the
  cycles consumed at index `i` without a recursive sum. The lemmas follow the code:
  charging a class keeps the tiling (`ChargeTiles`), both kinds of recording are
  such a charge (`TwoCharges`: the two of a runtime call, by two copies of the code, make one),
  an iteration that consumes one run (`AloneArithmetic`) or two
  (`PairArithmetic`) keeps both bounds. Corollaries: `PerfTypes`, `TraceTiling`,
  `PairingBounded`, `OverlapBounded`. Assumption: `PerfAssumption` only.

  `TimelineHolds`, of what is drawn of the trace. `LoopInv`, for the state after `i` runs: of every class what
  is written and what the bucket holds make what was charged when run `i + 1` began, which the
  trace says itself (`RunsTileTheTrace`), so that no sum over a part of the trace is needed. Each edge
  passed has written one bucket, and the edge after the last can be reached only by the end of
  the trace (`PassedEdge`), with nothing left for the last flush; a trace of no cycles, whose
  edges are all passed at once, writes nothing. Assumptions: `PerfAssumption`, `TimelineAssumption`.
* `MDTSimulatorProofs`. `RunOutcomeHolds`: `StepShape` reduces the eighteen actions of
  `Step` to three shapes (the instruction is counted on both sides, it faults, it
  halts), and the frame of `run()` does the rest. `RunOutcome` needs only the
  types of the two counts to be inductive. It holds for every set of images,
  memory size, word width and tile size.
  `SimInv == MachineOK /\ PerfInv` is inductive (`SimInvariant`).
  `MachineOK` is the simulator's half of `SimTypeOK`, in five named groups, and
  has one lemma per handler (`ScalarArithTypes`, `LoadTypes`, ...). These rest on
  lemmas about the operators: wrapping and saturating land in a word, `TRANSPOSE`
  reads inside the tile, the instruction at `pc` exists whenever the loop goes
  on, `pc` stays in `0 .. Len(code)` however an instruction ends
  (`OutcomeControl`). `StepRecords` reduces every handler to what it records, from which
  follow `PerfInv` for every program (`SimEstimates`) and, with the equality
  of the two instruction counts from `RunOutcomeHolds`, the refinement
  `RefinesPerfModel`. That one assumes that `RuntimeCosts` is `Nat` and that
  `TransferBytes` holds the three register widths; the other theorems assume only
  the named assumptions of the modules.
  Action properties on top of `SimInv`, one lemma per kind of step:
  * `FaultsAreClean`. Handlers that only touch registers check before they write. `LOAD` and
    `STORE` write first and fail after, so they need the argument that a transfer of a single
    row that fails its check has done no row, and that a read of no row returns the
    register and a write of no row the array (`NothingRead`, `NothingWritten`).
  * `StoresReadBack`. A store that retired had every row in bounds. Rows of a strided tile lie at
    least a row apart (`RowsDisjoint`), so two cells of the tile are in two words
    (`CellsApart`), and none is overwritten by the rest of its own store.
  * `SoftmaxPads`. The word a batch, row and column of a matrix has in memory (`WordOfBatch`) is that
    of no other; a word of the destination's padding is not one the kernel writes a result to
    (`PaddingNotLive`).
* `TensorIRProofs`. The invariant has four layers, each inductive relative to those before it
  (`TilingInvariant` is all four), and each checked by TLC before it was proved:
  * `IRInv`: the heap holds typed ops of the right arity, the list has each of them once, operands
    before uses, and ids are places; while elimination sweeps backwards, the part it has
    passed keeps what it reads (`MarkedInv`), without which the erasure could take an operand away.
    `SSAOrderHolds`, `IdsArePositionsHolds`, `IRTypeCorrect`. The lemmas are those of the list
    operations: `AddKeepsFunction`, `EraseKeepsFunction`, `InsertKeepsFunction`.
  * `FusionInv`: the counts taken before the sweep say of every reader not yet visited whether it is
    the sole one (`SoleReaders`) or has company (`SharedReaders`), although operands are copied from one op
    to another; nothing reads an absorbed op. `FusionTakesOver` is the step in which an op takes
    another's operands. `AbsorbedOpsAreDeadHolds`, `FusionCompleteHolds`.
  * `ShapesInv`: the shapes of an op and its operands fit, also after an op has become another kind
    over other operands. Without it a candidate's counts mean nothing.
  * `TilingInv`: from a store to the consumer of its load there is only other staging for the same
    consumer, elsewhere in the scratchpad (`StoreReaches`), what is staged lies below `used`, and a
    consumer is visited once. `StagingIntactHolds`, `ReportNamesConsumerHolds`, `ReportCountsReadsHolds`.

  `PrintsPreservedHolds`. A valuation gives every op the value its operands'
  values make. In a list in SSA order what the interpreter computes is one
  (`ValuesAreValuation`) and there is only one (`ValuationUnique`), whatever the order of the list. Each pass
  is shown to turn the valuation it finds into one with the same values of what is printed:
  fusion, since the op that takes over computes what the two did (`FuseReluKeepsValue`,
  `FuseAccKeepsValue`, where sums are of any association); elimination, since what is live
  reads what is live; staging, whose copies have the value of what they copy. That prints stay in order
  follows from what selecting from a list means (`SelectsUnique`, `SelectsTwice`).

  All hold for programs of any length, any set of shapes and any scratchpad; assumption:
  `IRAssumption`.
* `CompilerProofs` and `PipelineProofs`. Three theorems about every checked program, compiled with or
  without the passes, for any tile size, scratchpad and memory: `LoadsReadOperandsHolds`,
  `OnlyTheResultChangesHolds`, `PaddingStaysZeroHolds`. None is inductive: the machine sees
  instructions and the properties speak of ops. `PipelineInv` follows a program down (`PipelineInvariant`):
  * `IRLayers`: the four layers of `TensorIRProofs` and a fifth, `OperandsInv`, of what an op reads and in which shape.
    A tiled operand has the shape of what it copies; a `Sub` broadcasts over nothing but the batch; a
    print or store is read by no other op.
  * `LoweringInv`, `PhasesInv`: the ops built are a prefix of a checked program; what each phase leaves to the next.
  * `LayoutInv`: each buffer and constant tile lies in the data section and has its words there, no two overlap, and
    a buffer's words outside its rows and columns are zero (`Layout`, kept by both steps of `layout()`).
  * `TextInv`: the text can be annotated. A state of knowledge says which numbers the scalar registers hold and
    which tiles, of the registers and of the scratchpad, are zero outside how many rows and
    columns (or off their diagonal). An instruction follows a rule that says what may be known before it and after
    it (`Follows`, ten rules). `Executes(p, A, code, B)` says that the code of op `p` can be annotated from `A` to
    `B`; such code can be put in sequence (`ExecutesThen`), repeated (`LoopExecutes`) and run from more than it
    needs (`ExecutesBetween`), which is all that loops over tiles are. There is one lemma per kind of op, of which the
    interesting ones are those where what is known is easy to lose: a product accumulates into a tile
    whose live part is that of the result (`MatMulExecutes`), a sum is a product with an
    identity of which only the diagonal is not zero (`AddExecutes`), a copy to the scratchpad is known to be there until its
    consumer reads it (`StoreExecutes`, `StillStaged`), and base registers are bound anew for each op.
  * `MachineInv`: the machine is at an instruction of the text, and its registers hold what is known there, or it
    has stopped.

  `LoadsReadOperands` and `OnlyTheResultChanges` follow from the rule of the instruction at `pc` and from `LayoutInv`.
  For the padding the tiles must hold what is known of them too: `TilesInv`, with one lemma per kind of
  instruction (`TileLoaded`, `TileStored`, `TileMultiplied`, `SoftmaxPads`, ...). A product of tiles that are
  zero outside `h` rows and `w` columns is again, since each term of a dead cell has a factor that is zero;
  a stored tile writes live cells of its own buffer and zeros.

  Assumptions: `PipelineAssumption` says what semantic analysis and lowering give the compiler (`CheckedOp`:
  operands come before, and shapes are those of the rules) and that the scratchpad is as large as tiling thinks; TLC evaluates
  it over every program of the run. `FitsInWords`: an address of the data section fits the 32-bit immediate of the
  `ADD` that loads it. The code does not check that, and no program of a realistic size comes near; it is a hypothesis, not an
  invariant. In `PaddingStaysZeroHolds` inputs and constants are integers, for zero times a word to be zero (the
  code's floats have NaN and infinity, see section 7). In the run both hold.
* `Induction`. The provers take no rule with a predicate for a parameter, but they take sets:
  what every natural inherits from those below it, all have (`Inherited`, from the
  well-foundedness of the library), and a recursion over `0 .. n` within a set has a solution
  (`Recursion`). With these a recursive function over a list is first shown to exist, which
  makes its definition mean what it says, and then reasoned about step by step. `LoopConcatenates` does that
  once for the concatenation of a list of lists, which bytes of data and code of ops both are.
* `DashboardProofs`. `AnswersMatch` and `PageIsReady` hold for any number of sockets,
  sources, stops, gestures and requests of the other client. Neither is inductive:
  an answer is right because of what was asked. `ServiceInv == TypeOK /\ QueueOK /\
  CallsOK` (`ServiceInvariant`) says which request an open connection carries
  (`Belong`), that the page does not hang up, and that what waits or is served is open
  and waits only once, so that closing one connection takes none from the queue and
  a socket used again is not in it. One lemma per kind of step: `AcceptKeeps`,
  `CloseKeeps`, `ContinueKeeps`, `ReceiveKeeps`, `StopKeeps` for the backend,
  `ClientKeeps`, `StrangerKeeps`, `PageKeeps` for the clients. For the buttons every action of
  the page is reduced to `ButtonsKept`, the one call that changes. Assumption:
  `DashboardAssumption`.
* `AssemblerProofs`. `NumberInv` (`NumberInvariant`) relates what two passes over the same
  text do at different times: while the first pass runs, the section and the count are
  functions of the lines before (`LabelSection`, `Counted`); while the second runs, its section is the
  same and as many instructions lie before every line read as were counted there (`Reached`), unless there is an
  error or a line that is read unlike. A line either is decoded and was counted (`DecodedLine`) or neither
  (`PassedOver`): `SecondPassKeeps` goes through the three actions, and needs exactly the
  exclusions of `ReadUnlike`. `LabelsAgree` follows. `CodeIsWellFormed` rests on lemmas about decoding:
  operands that parse exist (`OperandOf`), also with a stride, the scratchpad bit or a label
  value put in (`OperandChanges`, `ResolvedIsOperand`).

  `AssembleIsFunctional` is the refinement of `AssemblerInterface`: whatever was assembled before, `out` is
  `Translate(source)` when a call returns. `NumberInv` does not say enough for it, since it holds of the
  number of instructions and only where the passes read lines alike. `MeaningInv` (`MeaningInvariant`) adds, for each
  stage, what the whole state is a function of: the tables hold the place of the last definition among the
  lines read (`CodeTable`, `DataTable`; data labels have offset 0 until the second pass sees them, and
  one it never sees keeps it), `data` is the bytes of those lines, `code` has one entry for each instruction line, in
  order (`Decoded`), whose labels are resolved up to `at` (`Resolved`), and without an error the lines read are
  legal (`Readable`, `Meant`), with one some line is not (`Illegal`). `FirstPassTables`, `SecondPassData`,
  `SecondPassCode` and `ResolveKeeps` go through the stages. That the entries are the instruction lines in their
  order is counting (`EntriesAreLines`); what one more line adds to the bytes is `BytesStep`.

  Assumption: `AssemblerAssumption`, that programs are sequences of lines.

Left to TLC:

* `ReturnsMatchCalls` and `PrintsShowSoftmax`, which are about the programs of their runs and are not
  theorems of every program.
* The front end, whose recursive operators the prover cannot take.
* That compiled code computes what the interpreter does (`PrintsTheProgram`): the proofs say of the code what it
  reads, what it writes and what stays zero, not which sums it makes. `PaddingStaysZero` is the part of that
  which every product relies on.
* All liveness: `Termination`, `CallsSettle` and the live part of `PrintsTheProgram`.

## 6. Plan

The modules of the plan are written. What would extend them: nested scopes of the symbol
table (used by `mtxcheck` only), the lexer's character level, and a composition of `FrontEnd`
with `Pipeline` in one behaviour.

Theorems in the order of their worth: that the code of an op, given buffers that hold its operands,
leaves in its own what `interpret` computes, which with `PipelineInv` would make the safety part of
`PrintsTheProgram`.

## 7. Not modelled

Numeric accuracy (floats are small saturating integers, NaN and infinity do not occur), output
formatting and the rendering of diagnostics, which characters make a token, the spelling of
numbers and labels, the scope stack that only `mtxcheck` drives, the JSON, files and start-up
errors of mtxserve, drawing and animation of the dashboard, the LLVM emitter and TableGen files (text
without state), the runtime kernels, and the command-line tools that call the phases and print.
`PROJECT.json` lists every part with its status.
