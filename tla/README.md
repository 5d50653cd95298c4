# A TLA+ model of MLIRQ

MLIRQ is an MLIR dialect and compiler for static quantum circuits, with one
research extension, QRisk (find error-prone gate patterns of a backend in a
compiled circuit and break them by exact, commuting moves), a Qiskit adapter
around the compiler, local experiments that run it against baselines, and a
workflow that submits paid jobs to a quantum service. This directory models the
parts that decide something: the rewrite search, what the passes and verifiers
do to circuits, the compiler run around them, the adapter's checks on what the
compiler hands back, the experiment runner and its worker processes, the
resumable hardware workflow, and the import of pattern catalogs.

`PROJECT.json` maps every definition to the lines it translates. `tlc -config
X.cfg M` runs a check, `tlapm M_proofs.tla` a proof.

## 1. The system

    caller ── optimize_compiled_circuit (python/mlirq_qiskit/optimizer.py)
                │ importer: snapshot, lowering to MLIR text and catalog JSON
                │ native:   mlirq-opt  qrisk-mitigate | verify-target
                │                       └ runQRisk: clone, preflight, search,
                │                         apply, verify, report file, commit
                │ native:   mlirq-opt  verify-target | export-qiskit
                │ exporter: rebuild from the snapshot, completeness, epochs
                │ validation: the Target takes every instruction
                │ matching: independent counts before and after = the report
                └ result, or one exception

    import_qrisk ── reports, pattern memories ─> catalog JSON ─> mlirq-opt

    local experiments: run ─ case ─ preflight ─┬ in this process (rq1, rq4)
                                               └ worker process ─ mlirq-opt
                             rows, records.jsonl ─> summary.json, exit code

    hardware experiment: prepare ─> plan.json ─> submit ⇄ attach ─> collect
                                    submission.lock      service (paid jobs)

| Component | State | Operations | Hard behaviour | Correct when |
|---|---|---|---|---|
| QRisk rules (`QRiskPasses.cpp` 150-347, 399-427) | none (pure): trace, projection, occurrences, moves | match, rotate, legality, improvement, lifetimes | fences on other wires, operand order, overlap of patterns | whitelisted pairs commute exactly; a legal move reorders nothing else |
| QRisk search and report (`mitigate`, `attachReport`) | plan: order, matches, counts, counters, budgets | first scan, candidate by candidate, accept and restart | conflicting patterns, budgets at their limit, stale matches | dependencies kept, ends, does not oscillate, leaves a local minimum, reports truthfully |
| Pass driver `runQRisk` and the other passes | module, clone, plans, report and export file | preflight, apply, verify, write, commit; map; export | several circuits and one fails; failure between file and commit; kill | all circuits or none, verified, printed module and files agree |
| Adapter | the call's snapshot, the compiler's files | import, run twice, rebuild, validate, rescan, return | a compiler that is wrong; the caller edits its objects meanwhile; the exporter and the native rules define fences differently | only complete, equivalent circuits with true counts are returned; a right compiler is never refused |
| Hardware workflow (`experiments/hardware.py`) | plan.json, jobs/batch-N.json, manifest, summary, lock file; memory of each invocation; the service's jobs | submit, attach, collect | concurrent invocations, kills, lost answers, late requests, malformed results | no batch is paid twice, no job lost, no update lost, summary consistent, all available results written |
| IR verifiers and target model (`lib/IR`) | none (pure) | verify SSA uses, stages, placements, coupling | SSA rules must imply what the QRisk passes assume of wires; directed pairs | what they accept has each wire live, and ended once |
| Logical optimization, identity mapping, target verification (`Passes.cpp`) | a module of circuits | cancel adjacent inverse pairs; place allocations; verify | order and convergence left to MLIR's greedy driver; several circuits | valid SSA after every rewrite, same behaviour, one result for any order, no failure without a stated reason |
| Experiment runner and workers (`experiments/runner.py`, `baselines.py`) | rows, records.jsonl, worker processes and their files | run a case, launch, wait, kill, evaluate, summarize | wall budget against exit, descendants, partial failure, interrupt | every attempt is counted, no partial result passes as ok, a timeout leaves no process, the exit code is true |
| Catalog import (`tools/import_qrisk.py`) | groups of observations | convert, check, group, promote | duplicates by several ways, all or nothing | promotion by different timestamps only; the compiler loads what fits its integers |

Generated code, `mlirq-opt.cpp`, the build, CI, examples and documents hold no
state of their own and are not modelled; nor are the numerical parts
(workload generation, oracles, statistics).

## 2. Modules

| Module | Models | How its state corresponds to the code |
|---|---|---|
| `QRiskTrace` | the pure part of `QRiskPasses.cpp`: `projected`, `findMatches`, `commutes`, `legal`, `improves`, the moves, `WithinLifetimes` (the checks of `applyOrder`) | an `Event` is a record of gate, wires, angle (a set of at most one) and whether it may move; positions are 1-based |
| `QRiskMitigate` | `OptionsAccepted`, the first scan, `mitigate`, status and termination reason | one variable per field of `Plan`; `pending` is what the nested loops of a pass have not tried yet; an action is one candidate or one exit of a loop |
| `MitigateContract` | what a caller of the pass may rely on: a permutation, order kept between events that do not commute, true counts, the acceptance rule | assumed by `OptimizePipeline`, proved of `QRiskMitigate` |
| `GateMatrices` | the gates as matrices of Gaussian integers on `WireCount` wires, and the behaviour of a trace | no code: the meaning "exact, including phase" has |
| `GateAlgebra` | all pairs of gates: those the whitelist accepts, those whose matrices commute | no code: the definition of "commute exactly" |
| `CircuitIR` | circuits in SSA form; the verifiers of `MLIRQOps.cpp` and `Target.cpp`; the pattern of `CancelInversePair`; identity placement; `buildTrace` and `applyOrder` | an operation is a record of gate, operands and attributes; a value is `<<operation, result>>` and keeps its name when operations move, as a pointer does |
| `CircuitPasses` | `mlirq-opt` on a module: parser's verification, each pass of `Passes.cpp` and the application of a reordering, verification in between | `module` is the IR, `at` the pass; a rewrite of the greedy driver is one action (`Cancel`), in any order; giving up is another |
| `ExperimentRunner` | `run`, `run_worker`, `bounded_process`, `write_row`, `evaluate`, `run_simulator_pairs`, the counting part of `summary`; `baselines.main` as a process | one action per append, write, launch, wait, kill and evaluation; `worker[a]`, `native[a]` and `files[a]` are the process, its compiler and its folder |
| `ImportCatalog` | `import_qrisk.py` from command line to catalog, and the conditions of `loadCatalog` on a pattern | an action reads one input and adds its observations as a set (within one file neither their order nor their number matters to the groups); `groups` is the nested dictionary of the tool |
| `CompilerRun` | every pass of `lib/Transforms` over a module of circuits, files included, and the waiting process (`native.py` `_invoke`, or a shell) | `working` is the clone, `plans` the vector of plans; a circuit is its stage, Booleans for what a check asks, and the form of its gates |
| `OptimizePipeline` | `optimize_compiled_circuit` from import to return | one action per stage and one per refusal; the compiler is a nondeterministic result, either one that keeps the contract or any list of instructions with any report |
| `HardwareSubmission` | `submit`, `attach`, `collect` as they interleave on the run directory, and the service | each file write, lock operation and network call is one action; `copy[p]` is the plan an invocation holds in memory |
| `SubmissionLedger` | the abstract specification of one batch: prepared, started, bound to the one job paid for it, results, collected | refined by `HardwareSubmission` through `Ledger` |

`*MC` modules give the constants; `*_proofs` hold theorems. Operators marked
"Seeded defect" are the mutated forms named in `PROJECT.json`; no specification
uses them.

The modules meet in these places. `MitigateContract` sits between the search and
the adapter: `OptimizePipeline` with `Compiler = "contract"` lets the compiler
answer with any order the contract allows, a superset of what the search finds,
and `ContractAlwaysKept` proves that the search's answer is one of them. And
`CompilerRun` takes the search's outcome as "kept" or "reordered" and says what
becomes of it: `OptimizePipeline` uses that a run gives both its files or an
exception (`ResultsTogether`).

`CircuitPasses` is below both. `QRiskMitigate` assumes that traces keep to the
lifetimes of wires (`WithinLifetimes`, part of its `InputAssumption`):
`WiresLiveAndEndOnce` shows that the verifier's SSA rules give that (proved for
circuits of any size), and
`LifetimesAlwaysKept` that no search takes it away. `CompilerRun` lets the application of an order
fail, as the code checks for it: `FailuresAreStated` shows that no order made of
legal moves does. Patterns come from `ImportCatalog`: `CatalogLoads` shows that
they satisfy `IsPattern`, which the search and its proofs assume, and that the
compiler refuses a catalog for one reason only: the tool takes a Python integer of
any size for a qubit index, `getAsInteger` none from 2^63 on (`MaxIndex`). And
`IdealBehaviourKept` closes the chain from the whitelist (`CommutesSound`, pairs
of gates) to a circuit whose operations were moved, bound again, cancelled or
placed: both are theorems, for registers and circuits of any size.

Abstractions worth knowing:

- `CompilerRun` always has a report file requested; without one the pass goes
  from verification to commit. What an older report or a half-written file
  means to a shell is in the model; the adapter works in a directory of its own.
- `Kill` is both the timeout of `subprocess.run` and an interrupt.
- `Validate` of the pipeline can refuse in the code; in the model it never
  does, because the exporter already gives back only instructions of the
  snapshot. The code keeps it as a defence and so does the model.
- Numbers of candidates and rewrites have no width in the model: the code's
  counters are 64 bits and are bounded by the work done.
- Tolerances and angles are integers; the code compares doubles with `<=`.
- `CompilerRun` lets the greedy driver fail (`LogicalOptFails`) with the module as
  it was: the code may have cancelled some pairs by then, but a pass that fails
  prints no module.
- In `CircuitPasses` a mitigation is any result of up to `MaxMoves` legal moves
  on each circuit, a superset of what the search takes, with no occurrence
  counted; a pass that fails leaves the module as it is, which nobody sees.
- The greedy driver of MLIR is external: it applies any match, in any order,
  and may give up after at least one rewrite (it has a limit of rounds, which
  deeply nested pairs can reach).
- A row of the runner is whose it is, its status, and whether it has counts.
  Numbers, plots, and the folder of a case are left out. A worker goes through
  its own steps and can die at each; it can also stop for ever at each, since
  nothing forces its next step.
- In `ImportCatalog` a digest is the thing it is made of, and what is malformed
  in syntax (JSON, schema, names) is one flag of a file.

## 3. Runs

| Run | Instance | Shows |
|---|---|---|
| `mitigate` | all 625 words of 4 gates over `z`, `rz`, `x`, `cx`, `h` on two wires between allocation and end, and 5 longer circuits with late allocations, early ends, barriers, annotated gates and three occurrences; 6 pattern lists (empty, overlapping, duplicate, conflicting); 7 option records. 57,592 states | the safety properties of the search, its report, and `Termination` |
| `disjoint_reorder` | the same, default options | finding 1 |
| `pipeline_contract` | 1,296 circuits of 4 instructions and 5 others, 3 pattern lists, 5 options, edits by the caller, every legal answer. 1,015,745 states | the four definitions of "same circuit" (native rules, exporter's epochs, Target validation, Python matcher) agree |
| `pipeline_arbitrary` | 4 circuits of 3 instructions, 2 patterns, 3 acceptance rules, every list of up to 3 items and every report with counts up to 1. 1,255,074 states | nothing wrong gets past the adapter |
| `circuit_passes` | all 625 words of four gates on two wires and deeper ones on two and three, cancelled in every order; all 49 pairs of seven circuits of different stages and targets in a module; mapped circuits with late allocations, early ends, fences, swapped wires; every replacement of an operand by another value in two circuits. Five pipelines. 35,015 states; and all 1,089 pairs of gates on three wires, `rz` at three angles | SSA form, wires, behaviour, the reduced form, no unexplained failure; the whitelist is exact and symmetric |
| `experiment_runner` | the four experiments, one or two cases, up to three methods or two repeats, restricted cases; every exit, hang and death of a worker, timeouts, interrupts and exceptions of the runner, a write among them, at every step. 440,405 states | counting, no partial results, no process after a timeout, the exit code, the end |
| `import_catalog` | up to three reports in every order over two backends (copies of a run, two notations of one time, another angle, cleared, an index past the largest), with and without a pattern memory; each kind of refused file. 10,724 states | promotion, and when the compiler takes the catalog |
| `exact_check` | two circuits of rq4 | finding 3 |
| `compiler_run` | 10 pipelines (one exports and then changes the circuits), modules of 0 to 2 circuits in every combination of stage, connectivity, patterns and metadata, valid or invalid catalogs, failure and kill at every step. 70,828 states | passes are atomic, reports verified, results consistent |
| `hardware_safety` | two invocations, two batches, four job identifiers of which one is another run's, `--max-jobs 2`, two failures. 713,390 states | the safety properties, and that the ledger is implemented |
| `hardware_liveness` | one invocation at a time, two batches, one failure, results well formed. 20,482 states | types, every command ends and leaves no lock of its own behind, available results get written |
| `malformed_result` | the same with results that may be malformed | finding 2 |

Why the bounds are enough. A conflict between patterns needs two of them and a
rotation longer than a swap, hence four gates; lists hold three. Every kind of
event that may not move and every gate of the whitelist appears; the whitelist itself
is checked for all operand assignments (two gates touch at most four wires; if
they share none they commute by position, so three wires cover all overlaps). To lose, repeat,
alter or carry an instruction over a fence, three instructions are enough. A
pass that is not atomic shows with two circuits. The lock is between pairs of
invocations, and a third would be one of the two restarted, which the model
allows; a double payment needs one batch and two jobs, a wrong attachment two
batches and a foreign job; two failures allow a crash during recovery from a
crash. `MaxFailures` bounds exceptions and kills in a behaviour; `MaxCount`
bounds the counts of an arbitrary report (0 and 1, true counts being 0, 1);
lists of an arbitrary compiler are no longer than the source, a longer one
being refused by its length alone. Pairs nested to depth three, side by side and
interleaved on two wires, with annotated gates and with operands exchanged, are
what cancelling depends on; two circuits show numbering and checks that leak
from one to the next. The runner does one thing at a time, so one worker lives
at a time, and two attempts after it show what an earlier one leaves behind.
Three inputs give a first, a repeated and a third sighting; `call.least` is 1
or 2. The theorems below hold with no such bound for the constants.

Deadlock is checked in the hardware runs; the search, a call, a compiler run, an
experiment and an import do stop, so `CHECK_DEADLOCK FALSE` there. Symmetry (invocations, new job
identifiers) is used in the safety run only.

**Fairness.** The search is one thread that waits for nothing: weak fairness of
its next-state relation. In the workflow, `WF(Run(p))`: a started command runs
on, as a process does; a call that gets no answer times out, so `Run` never
waits for the service. The service itself is not assumed fair. `SF(Start(p,
"collect"))`: the documentation tells the user to rerun `collect` for
unfinished jobs; strong, because the invocation may be busy with other commands
in between. `WF(RemoveStaleLock)`: docs/experiments.md:229 has the user
remove a lock after a kill, and the model's user removes no other: `stale` is a
history variable that remembers a kill inside the lock, so a lock a command
forgot would stay. Kills are bounded by `MaxFailures`, so they do not
happen for ever. `InvocationEnds` uses the first only, and says of the lock that
one still there at the end of a command is `stale` or another command's. In the experiments
`WF(RunnerStep)` alone: the runner is one process whose clock runs, so that a
wait ends by the exit of the worker or by `TimeoutExpired`. Nothing is assumed
of a worker or its compiler; `RunEnds` holds although they may hang.

## 4. Findings

1. **A purely disjoint reorder is accepted.** docs/qrisk.md:130-131 and the
   comment at `QRiskPasses.cpp:324` say that a reorder of disjoint gates is never
   counted as mitigation. The code only skips an occurrence whose two *ends*
   share no wire. For the pattern `z(0) h(1) z(0)` the ends share a wire, the
   last `z` is moved past `h(1)`, the occurrence disappears, and every wire sees
   exactly what it saw before. `disjoint_reorder` gives the trace.
2. **One malformed result keeps others from being written.**
   docs/experiments.md:213 says `collect` "writes available results". The first
   finished job without two PUB results raises (`hardware.py:189-190`) and ends
   the command; every rerun stops at the same batch. `malformed_result` shows a
   later batch whose finished job is never written, under the fairness above.
3. **A circuit can change its meaning and the command return 0.**
   docs/experiments.md:138-139: "The shell command returns nonzero for failures
   or when no input is eligible." rq4 evaluates the optimized circuit and makes
   the same `ineligible` row of a failed equivalence and of a circuit too wide to
   be checked (`runner.py:314-317`); only `failed` and `timeout` rows are failures
   (`runner.py:90`). With another case that is simulated the command returns 0.
   `exact_check` shows it. In rq1 to rq3 the same inequality is a `failed` row.

Met while modelling, stated here rather than as a property, since the code and
its documents leave room for either reading:

- A crash or timeout of the native scan in preflight (`runner.py:248`) is recorded
  as an ineligible case, like a rejected input, and the run can end with 0. The
  history variable `broken` keeps these cases, `unequal` the circuits that changed
  their meaning, in every experiment. What is left for exit code 0 to promise is
  `ExitCodeTrue`: no worker failed or timed out, no circuit of rq1 to rq3 changed
  its meaning, and of a case in `broken`, or in `unequal` through rq4, nothing was
  measured.
- An interrupt of the runner, or the death of a worker alone, leaves processes
  behind: only `TimeoutExpired` kills the group (`runner.py:147`). The model has
  both steps.
- `write_row` refuses NaN and infinity (`runner.py:66-68`): the row is then in the
  list and not in the file, and the run ends without a summary (`WriteRaises`).
- The row of a failed regression is in the summary and not in records.jsonl
  (`runner.py:302`).
- The importer tells observations apart by the timestamp as it is written:
  `Z` and `+00:00` of one instant are two (`import_qrisk.py:44-51`).

## 5. Theorems

Proved by tlapm for every value of the constants allowed by the named
assumptions; finite bounds play no part.

- `InputAssumption` (search): traces, patterns and options have their types, and
  traces keep to the lifetimes of their wires, as those of verified circuits do.
- `PipelineAssumption` (adapter): so have the circuits, pattern lists and options
  of calls; wires are below `Width`.
- `PassAssumption`: a parsed circuit `IsCircuit`: an operation defines values of
  its own and has as many operands as its kind. And `FitsRegister`: the register
  of the reference has as many wires as the circuit allocates, and its table the
  angles of the circuit's `rz`. This chooses the reference for the circuits, and
  leaves none out.
- `MatrixAssumption` (reference): the number of wires is natural, and the table
  gives each angle a Gaussian integer.
- `JobAssumption` (compiler run): the adapter's jobs have one circuit and a
  fresh directory.
- `FileAssumption`, `TokenAssumption`, `CallAssumption`, `IndexAssumption`
  (import): the fields a file of either kind has, what a token of one can be, and
  that the largest index is natural.
- `SubmissionAssumption` (workflow), `SetupAssumption` (experiments): numbers are
  natural, `--max-jobs` and the repeats at least 1.

**The search** (`QRiskMitigate_proofs`, on lemmas about the operators in
`QRiskTrace_proofs`: a rotation keeps a permutation; a legal move exchanges the
moved event only with events it commutes with; counts are natural numbers).
The invariants are layered.

- `Sane` = `TypeOK`, `MatchesCurrent` and `PendingCurrent` (the moves not tried
  yet are moves of the present order). Type correctness alone is not inductive:
  that a move's positions lie in the trace comes from matches being current.
- On `Sane`: `DependenciesKept` (a rotation is followed pair by pair), hence
  `FencesHold`; `NoOscillation` (an accepted move lowers the total by at least
  one, so `after + rewrites <= before` is inductive).
- `LifetimesKept` from `FencesHold` (`FencedOrderKeepsLifetimes`): allocations
  and ends are fences, so every event stays on its side of those of its wires;
  the first and the last event of a wire exist by well-founded induction.
- `TriedRejected`: each legal move of the present order is pending or would be
  refused. It yields `SecondRunIsNoop`.
- `BudgetLeft` (inside the search the rewrite budget is not spent) with
  `CountersConsistent` (the counters, and that a budget is reported exactly when it
  cut the search short, with occurrences left or a candidate untried); with both, `ReportTruthful`: what status and reason say
  follows from where the search stopped.
- `FirstScanKept` and the above give `ContractAlwaysKept`: what the search
  leaves, at any point, satisfies `MitigateContract`, the one assumption
  `OptimizePipeline` makes of a compiler that works.

**The adapter** (`OptimizePipeline_proofs`). `Inv` = `Snapshot` (what is kept
is importable), `PayloadType`, `OutputOfPayload` (an output is the indices of a
payload that passed `Reconstructs`). The argument that completeness and equal
epochs imply that no instruction changed sides with a fence is
`EpochsOrderFences`; with it, `ReturnedCircuitAlwaysComplete` holds for every
circuit and **whatever the compiler returned**. So does
`ReturnedCountsAlwaysTrue`: `Lower` puts the allocations before the circuit and
the measurements after it, so a projection on the lowered circuit is the
projection on the circuit shifted by the number of wires (`Shifted`), windows
map to windows (`SameWindows`), and the native and the Python matcher count the
same (`CountsAgree`); `Counted` carries the comparison with the report.
`ContractAlwaysAccepted` is the other direction, for `Compiler = "contract"`: an
order that keeps native dependencies between the fences of the lowered circuit
keeps the exporter's epochs (`FencesKeepEpochs`, `LegalKeepsFences`), what is
lifted from it is the circuit again, so every check accepts it
(`OutcomeAccepted`); `Accepting`, `Unrejected` and `Acknowledged` carry that
through the stages.

**The compiler run** (`CompilerRun_proofs`), for any module, pipeline, failure
and kill. `Typed` (what there is at each program counter) carries `TypeOK`.
`CloneFollows` says what the clone is at each step of a QRisk pass: the module,
the module with the plans up to the present circuit applied, and then, once
verified, nothing broken. On it: `AllOrNone` (stages and notes of the
module, all of one pass) for `PassesAreAtomic`; `ReportWritten` (before the commit the
file has the clone's notes) for `ReportsAreVerified`; and `Established`, over the
passes already run (`Remaining`), for `ResultsTogether`: a finished QRisk pass
leaves its report true of the module, and an export stays true as long as no
`qrisk-mitigate` follows.

**Circuits** (`CircuitPasses_proofs`), for a module of any size and any number
of wires. `Held` = `Shaped` (every circuit `IsCircuit`, with the allocations of
the parsed one in its place; a rewrite runs before the mapping) and, once
parsed, `Verifies(module)`. The verifier's linearity is turned into "used in one
place" (`OneUse`, on the finiteness of uses), a cancelled circuit is described
position by position (`IsCancelled`: `Kept` says where an operation was, `Follow`
what its operand has become), and each value it has left has one use because
exactly one of the two it stands for had it. `PlacedVerifies`: placing changes
nothing a check before the mapping looked at. `AppliedVerifies`: a reordering of
a circuit the verifier accepts, by whatever legal moves, is again one. Moves keep
the fences of the trace (`OrderFenced`) and every wire's events in one piece
(`WholeKept`, with the lemmas on traces), so while operations are bound one after
the other the value live on a wire is what its last event left (`SoFarBound`, the
induction over `ApplyOrder`), no wire is missing, and what an operand is bound to
is the result of the event before it on its wire (`AppliedSource`); the new trace
is the old one in the new order (`AppliedTrace`). Hence no plan fails
(`PlanSound`), and together `VerifiedAlways`.

`WiresAlwaysLiveAndEndOnce` follows a wire through a verified circuit.
`PlacementIs` is the equation of `Placement` (a value is on the wire of its
allocation or of the operand it follows). `Rules` is what the verifier's checks
say of single values; from them `Linear` goes by induction over the operations:
after any number of them no two values still to be used are on one wire, an
allocated wire holds one or has come to its end, and after the end it holds none.
The parsed circuit's numbers are one for each allocation (`PlacementNumbers`), so
what `Linear` says of values, the trace says of wires.

`FailuresAlwaysStated` needs two invariants beside `Held`: `Rewriting` (the driver
runs under `logical-opt`) and `Fitting`: as long as a circuit is not mapped its
allocations have the numbers of the parsed one and, if that fitted its target, it
fits too (`CancelledNumbers`, `CancelledFits`: the events left by a cancellation
are events there were, `CancelledTrace`). A refused mapping is then a circuit that
did not fit as it was parsed, and a mitigation does not fail at all.

`OptimizedAlwaysReduced` is about words. `Reduced` is the value of a recursive
function over the letters (`ReductionIs`); what it has kept at any point has no
letter next to its inverse (`ReductionTight`), so the same letter twice changes
nothing (`LetterTwice`) and a word without two such neighbours reduces to the same
(`ReducedWithout`): whatever pair is cancelled, and when, the reduced form stays
(`Reducing`). When no pair is left to cancel the word is its own reduced form:
two neighbours with one letter would be a pair, because by `Linear` the results of
the first are all there is on its wires (`NeighboursCancel`).

The matrices come next, on a register of any number of wires (same module).
A gate's matrix has at most two entries in a row, its own and the one at the row
with the gate's last wire flipped (`EntryZero`, `MatrixIs`), so a gate after a
matrix is a sum of two terms. Two gates commute if each is `Free` of the other:
in every row the other turns nothing (it is diagonal, `DiagonalTurnsNothing`), or
the gate's two entries are the same in the row the other turns it to
(`FreeGatesCommute`). Every pair of different gates the whitelist accepts is of
that form (`WhitelistedFree`). That is `WhitelistAlwaysSound`, the claim of the code's
comment for whatever circuits `qrisk-mitigate` is given; `WhitelistAlwaysSymmetric` needs the definition alone.

`IdealBehaviourAlwaysKept` carries it from a pair of gates to whole circuits. The
behaviour of a trace is the value of a run, one event after the other
(`BehaviourRuns`). Taking an event back past those it commutes with leaves the
behaviour as it was (`TakenBackEqual`), a legal move is that (`ReorderStep`), so
what moves reach behaves like the source (`OrdersBehave`). The moves look at the
wires a mitigation numbers by itself, while behaviour is told on the parsed
circuit's numbers: the two numberings name the same allocations (`WireNamed`),
hence the same pairs commute (`SuitedPass`), and a reordered circuit's trace is the
reordered trace under either (`AppliedEvent`). Cancelling takes out a
self-inverse gate twice, which is nothing, or a factor two for H (`AfterTwice`,
`PairGone`; `Doubled` counts those factors). The output's bits are of the same
wires because every operation left inherits its event and its place
(`SameMeasured`). `Behaving` says so of the present module, and is inductive
beside `Held`.

**The catalog import** (`ImportCatalog_proofs`), for every list of inputs. The
groups are at each point what the inputs read so far say (`Gathered`: keys,
times and sources described without order), each source listed once, and every
key made of tokens that passed (`Loadable`). Adding a file extends what is
gathered by that file alone (`AddGathers`); when nothing is left to read,
`AlwaysPromotedByEvidence` and `CatalogAlwaysLoads` follow. The latter is an
equivalence: a catalog loads exactly if every index of it is at most `MaxIndex`,
whatever that is; that a key is loadable otherwise is what the tool's checks of a
token give.

**The workflow** (`HardwareSubmission_proofs`). `Typed`; `Exclusive` (the
lock's holder is alone inside); `CopyIsCurrent`; `Charged` (for each batch,
where the plan, the request, the job and the invocation's program counter
stand: the strengthening from which `NoDoubleCharge` and `JobsAttributable`
follow); `Marked` (a batch between record and mark has the record on disk).
Each is inductive relative to those before it. `SummaryAccurate` needs
`Recorded` and `PassedMarked` beside it: a batch the loop of `collect` has
passed with a record is marked, also when the record was written by an invocation
that died before marking it. `LedgerImplemented`: initial
states map to initial states and every step to a ledger step or a stutter, so
`Spec => ImplementsLedger` for any number of invocations, batches, jobs and
failures.

**The experiment runner** (`ExperimentRunner_proofs`), for any number of cases,
methods and repeats. `Typed`; `ExpiredAreGone` (an expired attempt's group is
gone, or it is the attempt about to be killed), which is `NothingOutlivesTimeout`;
`Booked` (no two rows are of one attempt, and what is still to be begun has
none); on it `Accounted` (every failure, timeout and inequality has its row) and
`Judged` (what a row with counts stands for: a process that has exited with code 0
does not move any more); `Lone` (a case that was given up, at its preflight or at
its exact check, has the one row that says so and no process); `Summed` (the
summary is of the rows). They give
`OkRowsAreWhole` and `ExitCodeTrue`. `Kept` says where the file may be one row
behind the list (while it is written, and for ever if that raises), `OneRowEach` that no index repeats an attempt, `Covered` that
within a case rows, attempts under way and attempts to do make up the plan
(`NoneLost`) until the case is done; these give `EveryAttemptCounted`.

**Only model-checked.**

- Liveness (`Termination`, `InvocationEnds`, `RunEnds`,
  `AvailableResultsWritten`), out of the proof system's reach, as ENABLED is.

Where a theorem needs induction it is over sets: the least counterexample in
`Nat` (`Induct`), or a cardinality. That a recursive function exists is proved by
it too, where a theorem needs its equation (`AfterExists`, `ReachExists`,
`RebindingExists`, `FoldExists`, `DoingExists`, `PowerExists`): `Placement` and
`ApplyOrder` are such functions for that. So the models count with sets: `Total` is a
cardinality, and `improves` lowering it is proved from the library's facts
about finite sets; the counts of a list are those of its increasing positions;
and `Add` of the import describes its result key by key.

## 6. Not modelled

Of the hardware workflow, `prepare` and the dry run (one process writes the
files nobody else knows of yet) and the statistics of `summarize`; hashes and
Target checks of `submit` and `collect` are the failures `Raise` allows. Of the
local experiments, the generators of circuits, the oracles and the statistics
(numerical functions without state: floating point, linear algebra, random
numbers), what a baseline does to a circuit (`evaluate` judges it whatever it
is), and the numbers in the rows. Of the adapter, the resolution of the
executable, the checks of Python types, the text of the IR. Of the compiler,
finiteness of angles, the names of fields and the text of diagnostics. Of the
catalog importer, JSON syntax and paths. The fetch script downloads a pinned
revision and checks a digest: there is no protocol to check. Times, hashes,
labels, registers and layout appear nowhere.

## 7. Plan

Written so far, in this order: the search, the workflow, the algebra, the
pipeline, the compiler run and their first theorems; then the circuits in SSA
form with their verifiers and passes, the experiment runner with its theorems, and the
import of catalogs; then the proofs of the compiler run, the circuits' passes, the
import, the adapter's counts and acceptance, and what was left of the search and
the workflow; then that reorderings verify, that failures are the stated ones, and
that an optimization ends with the reduced form; and last the matrices, that the
whitelist is right and that circuits behave as they did. Every invariant the
passing runs check is now stated by a theorem; liveness stays with TLC.
