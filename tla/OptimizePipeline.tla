-------------------------- MODULE OptimizePipeline --------------------------
(***************************************************************************)
(* One call of optimize_compiled_circuit (python/mlirq_qiskit): the Qiskit *)
(* circuit is imported into a snapshot, mitigated by one run of mlirq-opt, *)
(* exported by a second one, rebuilt from the snapshot, validated against  *)
(* the Target, and rescanned by a matcher written apart from the native    *)
(* one.  The compiler is another program: it either keeps the contract of  *)
(* MitigateContract or hands back anything at all.                         *)
(*                                                                         *)
(* A circuit is a sequence of instructions on physical wires; labels,      *)
(* registers and the layout travel with the snapshot and are left out.     *)
(***************************************************************************)
EXTENDS MitigateContract

CONSTANTS
    Width,        \* circuit.num_qubits: the wires are 0..Width-1
    Supported,    \* the <<gate, qubits>> the Qiskit Target has
    Calls,        \* records: the caller's circuit and pattern list
    Edits,        \* what the caller may turn its own objects into afterwards
    OptionSets,   \* MitigationOptions
    Compiler,     \* "contract", or "arbitrary": a compiler gone wrong
    MaxCount      \* bound on the counts an arbitrary report holds

MitigationOptions ==
    {o \in [matching : {"scoped", "global"}, acceptance : {"componentwise", "total", "local"},
            rules : {"all", "diagonal"}, max_candidates : Nat, max_rewrites : Nat] :
        o.acceptance = "local" => o.max_candidates > 0}

Instruction == [gate : STRING, qubits : Seq(Nat), angle : Angles]

ASSUME PipelineAssumption ==
    /\ Width \in Nat /\ MaxCount \in Nat
    /\ \A c \in Calls \cup Edits :
          c.circuit \in Seq(Instruction) /\ \A i \in DOMAIN c.circuit :
                                WiresOf(c.circuit[i]) \subseteq 0..(Width - 1)
    /\ \A c \in Calls \cup Edits :
          /\ c.patterns \in Seq([gates : Seq(GateSpec), tolerance : Nat])
          /\ \A p \in DOMAIN c.patterns : IsPattern(c.patterns[p])
    /\ \A o \in OptionSets : o \in MitigationOptions
    /\ Compiler \in {"contract", "arbitrary"}

VARIABLES
    caller,     \* the caller's own objects, which stay the caller's
    options,
    source,     \* ImportedCircuit._source
    catalog,    \* ImportedCircuit.catalog_json: the patterns of the backend
    payload,    \* what mlirq-opt serializes its module to
    report,     \* the counts of the native report
    output,     \* the source indices of the output circuit, in order
    phase,
    error       \* the kind of the exception that ended the call

vars == <<caller, options, source, catalog, payload, report, output, phase, error>>

-----------------------------------------------------------------------------
(***************************************************************************)
(* Import.                                                                 *)
(***************************************************************************)
Fences == {"barrier", "measure"}

\* The Target has the instruction, and its wires are not measured yet.
\* Barriers are directives and are always accepted.
InstructionAccepted(circuit, i) ==
    \/ circuit[i].gate = "barrier"
    \/ /\ <<circuit[i].gate, circuit[i].qubits>> \in Supported
       /\ \A j \in 1..(i - 1) : circuit[j].gate = "measure" => Disjoint(circuit[j], circuit[i])

TargetAccepts(circuit) == \A i \in DOMAIN circuit : InstructionAccepted(circuit, i)

\* The checks of import_compiled_circuit on each instruction.
Importable(circuit) ==
    /\ \A i \in DOMAIN circuit : circuit[i].gate \in Gates \cup Fences
    /\ TargetAccepts(circuit)

EventOf(instruction) ==
    [gate |-> instruction.gate, qubits |-> instruction.qubits, angle |-> instruction.angle,
     movable |-> instruction.gate \in Gates]

Bookkeeping(effect, qubits) == [gate |-> effect, qubits |-> qubits, angle |-> {}, movable |-> FALSE]

Unmeasured(circuit) ==
    {q \in 0..(Width - 1) : \A i \in DOMAIN circuit : circuit[i].gate = "measure" => q \notin WiresOf(circuit[i])}

\* The module handed to the compiler: every wire allocated first, then the
\* instructions, then a discard for each wire that was not measured.
Lower(circuit) ==
    LET rest == Increasing(Unmeasured(circuit))
    IN  [q \in 1..Width |-> Bookkeeping("alloc", <<q - 1>>)]
        \o [i \in 1..Len(circuit) |-> EventOf(circuit[i])]
        \o [k \in 1..Len(rest) |-> Bookkeeping("discard", <<rest[k]>>)]
        \o <<Bookkeeping("output", <<>>)>>

\* An order of the instructions as an order of the lowered module.
Lift(order, size) ==
    [i \in 1..size |-> IF i \in (Width + 1)..(Width + Len(order)) THEN Width + order[i - Width] ELSE i]

NativeOptions(o) ==
    [transform |-> TRUE, global |-> o.matching = "global", totalOnly |-> o.acceptance = "total",
     localOnly |-> o.acceptance = "local", diagonalOnly |-> o.rules = "diagonal",
     maxCandidates |-> o.max_candidates, maxRewrites |-> o.max_rewrites]

-----------------------------------------------------------------------------
(***************************************************************************)
(* The compiler, as its caller sees it.                                    *)
(***************************************************************************)
Items(circuit, order) ==
    [k \in 1..Len(order) |-> [source_index |-> order[k], instruction |-> circuit[order[k]]]]

ContractOutcomes ==
    LET lowered == Lower(source)
        native == NativeOptions(options)
        before == CountsOf(lowered, catalog, native.global)
        Outcome(order) ==
            LET lifted == Lift(order, Len(lowered))
                after == CountsOf(Rearranged(lowered, lifted), catalog, native.global)
            IN  [payload |-> [context |-> TRUE, instructions |-> Items(source, order)],
                 report |-> [before |-> before, after |-> after, before_total |-> Total(before),
                             after_total |-> Total(after)],
                 kept |-> Contract(lowered, catalog, native, lifted, before, after)]
        orders == {o \in [1..Len(source) -> 1..Len(source)] : IsPermutationOf(o, Len(source))}
    IN  {[payload |-> x.payload, report |-> x.report] : x \in {y \in {Outcome(o) : o \in orders} : y.kept}}

\* Any list of instructions, renumbered, altered, lost or repeated, with any
\* counts (lists are bounded by the length of the source, counts by MaxCount).
ArbitraryOutcomes ==
    LET items == [source_index : 0..Len(source), instruction : {source[i] : i \in DOMAIN source}]
        lists == UNION {[1..n -> items] : n \in 0..Len(source)}
        counts == [DOMAIN catalog -> 0..MaxCount]
    IN  [payload : [context : BOOLEAN, instructions : lists],
         report : {[before |-> b, after |-> a, before_total |-> Total(b), after_total |-> Total(a) + d] :
                       b \in counts, a \in counts, d \in {0, 1}}]

Outcomes == IF Compiler = "contract" THEN ContractOutcomes ELSE ArbitraryOutcomes

-----------------------------------------------------------------------------
(***************************************************************************)
(* The checks on what came back.                                           *)
(***************************************************************************)
\* Seeded defect: measurements do not close an epoch.
BarrierEpoch(circuit, i) == Cardinality({j \in 1..(i - 1) : circuit[j].gate = "barrier"})

Epoch(circuit, i) == Cardinality({j \in 1..(i - 1) : circuit[j].gate \in Fences})

\* Every original instruction, unchanged, exactly once.
Complete(items) ==
    /\ Len(items) = Len(source)
    /\ \A k \in DOMAIN items : /\ items[k].source_index \in DOMAIN source
                               /\ items[k].instruction = source[items[k].source_index]
    /\ \A k, l \in DOMAIN items : items[k].source_index = items[l].source_index => k = l

\* Each instruction comes back between the same two fences.
EpochsKept(items) ==
    \A k \in DOMAIN items :
        Epoch(source, items[k].source_index)
            = Epoch([l \in DOMAIN items |-> items[l].instruction], k)

Reconstructs(p) == p.context /\ Complete(p.instructions) /\ EpochsKept(p.instructions)

\* The independent matcher: count_patterns of one pattern.
Equal(instruction, spec, tolerance) ==
    /\ instruction.gate = spec.gate
    /\ instruction.qubits = spec.qubits
    /\ spec.angle # {} => /\ Cardinality(instruction.angle) = 1
                          /\ \A a \in instruction.angle, e \in spec.angle : a - e \in (-tolerance)..tolerance

OracleCount(circuit, pattern, global) ==
    LET projected == Increasing({i \in DOMAIN circuit :
                                    global \/ WiresOf(circuit[i]) \cap Scope(pattern) # {}})
        size == Len(pattern.gates)
    IN  Cardinality({start \in 0..(Len(projected) - size) :
            \A j \in 1..size :
                Equal(circuit[projected[start + j]], pattern.gates[j], pattern.tolerance)})

CountPatterns(circuit, patterns, matching) ==
    [p \in DOMAIN patterns |-> OracleCount(circuit, patterns[p], matching = "global")]

Consistent(before, after) ==
    /\ report.before = before /\ report.before_total = Total(before)
    /\ report.after = after /\ report.after_total = Total(after)

Acceptable(before, after) ==
    /\ options.acceptance # "local" => Total(after) <= Total(before)
    /\ options.acceptance = "componentwise" => \A p \in DOMAIN before : after[p] <= before[p]

-----------------------------------------------------------------------------
Init ==
    /\ caller \in Calls
    /\ options \in OptionSets
    /\ source = <<>> /\ catalog = <<>> /\ output = <<>>
    /\ payload = [context |-> FALSE, instructions |-> <<>>]
    /\ report = [before |-> <<>>, after |-> <<>>, before_total |-> 0, after_total |-> 0]
    /\ phase = "called"
    /\ error = "none"

\* Seeded defect: the exception is swallowed.
RaiseSilently(kind) ==
    /\ phase' = "raised"
    /\ UNCHANGED <<caller, options, source, catalog, payload, report, output, error>>

Raise(kind) ==
    /\ phase' = "raised"
    /\ error' = kind
    /\ UNCHANGED <<caller, options, source, catalog, payload, report, output>>

RejectInput ==
    /\ phase = "called"
    /\ ~Importable(caller.circuit)
    /\ Raise("input")

Import ==
    /\ phase = "called"
    /\ Importable(caller.circuit)
    /\ source' = caller.circuit
    /\ catalog' = caller.patterns
    /\ phase' = "imported"
    /\ UNCHANGED <<caller, options, payload, report, output, error>>

\* Either run of mlirq-opt may time out, fail, or leave no readable result.
CompilerFails ==
    /\ phase \in {"imported", "mitigated"}
    /\ Raise("native")

Mitigate ==
    /\ phase = "imported"
    /\ \E result \in Outcomes :
          /\ payload' = result.payload
          /\ report' = result.report
    /\ phase' = "mitigated"
    /\ UNCHANGED <<caller, options, source, catalog, output, error>>

Export ==
    /\ phase = "mitigated"
    /\ Reconstructs(payload)
    /\ output' = [k \in DOMAIN payload.instructions |-> payload.instructions[k].source_index]
    /\ phase' = "exported"
    /\ UNCHANGED <<caller, options, source, catalog, payload, report, error>>

RejectExport ==
    /\ phase = "mitigated"
    /\ ~Reconstructs(payload)
    /\ Raise("export")

Result == Rearranged(source, output)

\* validate_target_instructions.  The refusal guards against a defect in the
\* exporter: nothing the exporter lets through is refused here.
Validate ==
    /\ phase = "exported"
    /\ IF TargetAccepts(Result)
       THEN /\ phase' = "validated"
            /\ UNCHANGED <<caller, options, source, catalog, payload, report, output, error>>
       ELSE Raise("target")

\* Seeded defects: the first counts are taken from the caller's own objects;
\* the last ones from the circuit that was imported.
CountsBeforeUnsnapshotted == CountPatterns(caller.circuit, caller.patterns, options.matching)
CountsAfterOfSource == CountPatterns(source, catalog, options.matching)

CountsBefore == CountPatterns(source, catalog, options.matching)
CountsAfter == CountPatterns(Result, catalog, options.matching)

Return ==
    /\ phase = "validated"
    /\ Consistent(CountsBefore, CountsAfter)
    /\ Acceptable(CountsBefore, CountsAfter)
    /\ phase' = "returned"
    /\ UNCHANGED <<caller, options, source, catalog, payload, report, output, error>>

RejectReport ==
    /\ phase = "validated"
    /\ ~(Consistent(CountsBefore, CountsAfter) /\ Acceptable(CountsBefore, CountsAfter))
    /\ Raise("report")

\* The caller goes on using, and changing, the objects it passed.
CallerEdits ==
    /\ phase \notin {"called", "returned", "raised"}
    /\ caller' \in Edits \ {caller}
    /\ UNCHANGED <<options, source, catalog, payload, report, output, phase, error>>

Next ==
    \/ RejectInput \/ Import
    \/ CompilerFails
    \/ Mitigate
    \/ RejectExport \/ Export
    \/ Validate
    \/ RejectReport \/ Return
    \/ CallerEdits

Spec == Init /\ [][Next]_vars

-----------------------------------------------------------------------------
(***************************************************************************)
(* Properties.                                                             *)
(***************************************************************************)

\* The call's fields have their types.
TypeOK ==
    /\ caller \in Calls \cup Edits
    /\ options \in OptionSets
    /\ output \in Seq(Nat)
    /\ DOMAIN payload = {"context", "instructions"}
    /\ phase \in {"called", "imported", "mitigated", "exported", "validated", "returned", "raised"}
    /\ error \in {"none", "input", "native", "export", "target", "report"}
    /\ (phase = "raised") = (error # "none")

\* Whatever the compiler did, a circuit that is returned has every instruction
\* of the imported one exactly once, no instruction has changed sides with a
\* barrier or a measurement, and the Target still takes it.
ReturnedCircuitComplete ==
    phase = "returned" =>
        /\ IsPermutationOf(output, Len(source))
        /\ \A i, j \in DOMAIN output :
              i < j /\ (Result[i].gate \in Fences \/ Result[j].gate \in Fences) => output[i] < output[j]
        /\ Importable(Result)

\* Whatever the compiler reported, the counts returned with a circuit are the
\* occurrences, in the sense of the native matcher, in the circuits before and
\* after, and they keep the acceptance rule that was asked for.
ReturnedCountsTrue ==
    phase = "returned" =>
        LET native == NativeOptions(options)
        IN  /\ report.before = CountsOf(Lower(source), catalog, native.global)
            /\ report.after = CountsOf(Lower(Result), catalog, native.global)
            /\ CountsAllowed(report.before, report.after, native)

\* A compiler that keeps its contract is never turned down: the exporter's
\* epochs, the Target validation and the independent matcher, which share no
\* code with the native passes, agree with them on every legal result.
ContractNeverRejected == error \notin {"export", "target", "report"}
=============================================================================
