----------------------------- MODULE CompilerRun -----------------------------
(***************************************************************************)
(* One run of mlirq-opt on a module of circuits, pass by pass and circuit  *)
(* by circuit (lib/Transforms), and the process that waits for it: the     *)
(* adapter's _invoke (python/mlirq_qiskit/native.py), in a private         *)
(* directory and with a timeout, or a shell, in a directory where an older *)
(* report may lie.  Any step of the compiler may fail or be the last one   *)
(* before it is killed.                                                    *)
(*                                                                         *)
(* What a pass does inside a circuit is left to other modules: a circuit   *)
(* is its stage, whether its gates respect the target ("routable"), whether*)
(* the patterns of its backend fit it, its Qiskit metadata, the state of   *)
(* its gates ("form") and the report attribute it carries ("note").        *)
(***************************************************************************)
EXTENDS Integers, Sequences

CONSTANTS
    Jobs    \* records: who runs the compiler, with which passes, on what

Forms == {"source", "mitigated", "broken"}

\* A circuit that reaches a pass went through the verifier of CircuitOp: at the
\* architecture stage it respects its target.
Circuit ==
    {c \in [stage : {"none", "logical", "architecture"}, routable : BOOLEAN, fits : BOOLEAN,
            imported : BOOLEAN, form : Forms, note : {"none"} \cup Forms] :
        c.stage = "architecture" => c.routable}

Passes == {"logical-opt", "map-identity", "qrisk-scan", "qrisk-mitigate", "verify-target", "export-qiskit"}

ASSUME JobAssumption ==
    \A j \in Jobs :
        /\ DOMAIN j = {"by", "passes", "module", "catalog", "oldReport"}
        /\ j.by \in {"adapter", "shell"}
        /\ j.passes \in Seq(Passes)
        /\ j.module \in Seq(Circuit)
        \* Both are relative to the run: its input is the source, its notes are new.
        /\ \A i \in DOMAIN j.module : j.module[i].form = "source" /\ j.module[i].note = "none"
        /\ j.catalog \in BOOLEAN                \* the options and the catalog are valid
        /\ j.oldReport \in BOOLEAN
        /\ j.by = "adapter" => ~j.oldReport /\ Len(j.module) = 1

VARIABLES
    job,
    module,        \* the module the passes work on
    working,       \* the clone runQRisk works on
    plans,         \* runQRisk's plan of each circuit: "kept", "reordered" or "none"
    todo,          \* the passes not finished yet, the running one first
    at,            \* the circuit the running pass is at
    pc,            \* where in the pass the compiler is
    reportFile, exportFile,
    parent,        \* "waiting", "returned" or "raised"
    result         \* what the parent took from a run that went well

vars == <<job, module, working, plans, todo, at, pc, reportFile, exportFile, parent, result>>

file == <<reportFile, exportFile>>
outside == <<job, parent, result>>

NoFile == [state |-> "absent", circuits |-> <<>>]
Truncated == [state |-> "partial", circuits |-> <<>>]
Whole(circuits) == [state |-> "whole", circuits |-> circuits]
Nothing == [module |-> <<>>, report |-> NoFile, payload |-> NoFile]

QRisk == {"qrisk-scan", "qrisk-mitigate"}
Uses(passes, kinds) == \E i \in DOMAIN passes : passes[i] \in kinds

Init ==
    /\ job \in Jobs
    /\ module = job.module
    /\ working = <<>> /\ plans = <<>>
    /\ todo = job.passes
    /\ at = 1
    /\ pc = "pass"
    /\ reportFile = IF job.oldReport THEN Whole(<<"old">>) ELSE NoFile
    /\ exportFile = NoFile
    /\ parent = "waiting"
    /\ result = Nothing

-----------------------------------------------------------------------------
Running == parent = "waiting" /\ pc \notin {"exit 0", "exit 1"}

\* signalPassFailure: the pipeline stops and nothing is printed.
Fail ==
    /\ pc' = "exit 1"
    /\ UNCHANGED <<outside, module, working, plans, todo, at, file>>

\* The next pass, or the end of the pipeline.
PassDone ==
    /\ todo' = Tail(todo)
    /\ at' = 1
    /\ pc' = IF Len(todo) = 1 THEN "exit 0" ELSE "pass"

Here == module[at]
AtLast == at >= Len(module)

Starting(kinds) == Running /\ pc = "pass" /\ todo # <<>> /\ Head(todo) \in kinds

\* The stage checks of LogicalOptPass; its rewrites keep every field modelled.
LogicalOpt ==
    /\ Starting({"logical-opt"})
    /\ IF \E i \in DOMAIN module : module[i].stage = "architecture"
       THEN Fail
       ELSE PassDone /\ UNCHANGED <<outside, module, working, plans, file>>

\* The greedy driver gives up, after any number of rewrites.
LogicalOptFails ==
    /\ Starting({"logical-opt"})
    /\ \A i \in DOMAIN module : module[i].stage # "architecture"
    /\ Fail

\* Seeded defect: only the stage is checked.
MapValidateStageOnly ==
    /\ Starting({"map-identity"})
    /\ at <= Len(module)
    /\ IF Here.stage = "architecture"
       THEN Fail
       ELSE /\ at' = at + 1
            /\ UNCHANGED <<outside, module, working, plans, todo, pc, file>>

\* MapIdentityPass validates every circuit...
MapValidate ==
    /\ Starting({"map-identity"})
    /\ at <= Len(module)
    /\ IF Here.stage = "architecture" \/ ~Here.routable
       THEN Fail
       ELSE /\ at' = at + 1
            /\ UNCHANGED <<outside, module, working, plans, todo, pc, file>>

\* ... before it changes any.
MapCommit ==
    /\ Starting({"map-identity"})
    /\ at > Len(module)
    /\ module' = [i \in DOMAIN module |-> [module[i] EXCEPT !.stage = "architecture"]]
    /\ PassDone
    /\ UNCHANGED <<outside, working, plans, file>>

VerifyTarget ==
    /\ Starting({"verify-target"})
    /\ IF \E i \in DOMAIN module : module[i].stage # "architecture" \/ ~module[i].routable
       THEN Fail
       ELSE PassDone /\ UNCHANGED <<outside, module, working, plans, file>>

-----------------------------------------------------------------------------
(***************************************************************************)
(* runQRisk.                                                               *)
(***************************************************************************)

\* Options, catalog, and the clone.
QRiskStart ==
    /\ Starting(QRisk)
    /\ IF ~job.catalog
       THEN Fail
       ELSE /\ working' = module
            /\ plans' = [i \in DOMAIN module |-> "none"]
            /\ at' = 1
            /\ pc' = IF module = <<>> THEN "verify" ELSE "preflight"
            /\ UNCHANGED <<outside, module, todo, file>>

\* The checks of one circuit, its scan, and its search, which decides whether
\* the circuit will be reordered.
Preflight ==
    /\ Running /\ pc = "preflight"
    /\ IF working[at].stage # "architecture" \/ ~working[at].routable \/ ~working[at].fits
       THEN Fail
       ELSE /\ \E plan \in IF Head(todo) = "qrisk-mitigate" THEN {"kept", "reordered"} ELSE {"kept"} :
                  plans' = [plans EXCEPT ![at] = plan]
            /\ at' = IF AtLast THEN 1 ELSE at + 1
            /\ pc' = IF AtLast THEN "apply" ELSE "preflight"
            /\ UNCHANGED <<outside, module, working, todo, file>>

Noted(circuit, form) == [circuit EXCEPT !.form = form, !.note = form]

\* Seeded defect: the module itself is reordered, not the clone.
ApplyInPlace ==
    /\ Running /\ pc = "apply"
    /\ \E form \in IF plans[at] = "reordered" THEN {"mitigated", "broken"} ELSE {working[at].form} :
          /\ working' = [working EXCEPT ![at] = Noted(@, form)]
          /\ module' = [module EXCEPT ![at] = Noted(@, form)]
    /\ at' = IF AtLast THEN 1 ELSE at + 1
    /\ pc' = IF AtLast THEN "verify" ELSE "apply"
    /\ UNCHANGED <<outside, plans, todo, file>>

\* applyOrder and attachReport on one circuit.  That a reordered circuit is
\* still well formed is for the final verifier to find out.
Apply ==
    /\ Running /\ pc = "apply"
    /\ \E form \in IF plans[at] = "reordered" THEN {"mitigated", "broken"} ELSE {working[at].form} :
          working' = [working EXCEPT ![at] = Noted(@, form)]
    /\ at' = IF AtLast THEN 1 ELSE at + 1
    /\ pc' = IF AtLast THEN "verify" ELSE "apply"
    /\ UNCHANGED <<outside, module, plans, todo, file>>

\* applyOrder gives up on a circuit half reordered.
ApplyFails ==
    /\ Running /\ pc = "apply"
    /\ plans[at] = "reordered"
    /\ Fail

\* Seeded defect: the report is written before the final verification.
VerifyAfterReport ==
    /\ Running /\ pc = "verify"
    /\ pc' = "open"
    /\ UNCHANGED <<outside, module, working, plans, todo, at, file>>

VerifyWorking ==
    /\ Running /\ pc = "verify"
    /\ IF \E i \in DOMAIN working : working[i].form = "broken"
       THEN Fail
       ELSE /\ pc' = "open"
            /\ UNCHANGED <<outside, module, working, plans, todo, at, file>>

\* Opening the report empties it; writing may fail half way.
OpenReport ==
    /\ Running /\ pc = "open"
    /\ reportFile' = Truncated
    /\ pc' = "write"
    /\ UNCHANGED <<outside, module, working, plans, todo, at, exportFile>>

OpenReportFails == Running /\ pc = "open" /\ Fail

WriteReport ==
    /\ Running /\ pc = "write"
    /\ reportFile' = Whole([i \in DOMAIN working |-> working[i].note])
    /\ pc' = "commit"
    /\ UNCHANGED <<outside, module, working, plans, todo, at, exportFile>>

WriteReportFails == Running /\ pc = "write" /\ Fail

\* Seeded defect: the clone is not taken over.
CommitForgotten ==
    /\ Running /\ pc = "commit"
    /\ PassDone
    /\ UNCHANGED <<outside, module, working, plans, file>>

\* takeBody.
Commit ==
    /\ Running /\ pc = "commit"
    /\ module' = working
    /\ PassDone
    /\ UNCHANGED <<outside, working, plans, file>>

-----------------------------------------------------------------------------
(***************************************************************************)
(* QiskitExportPass: it serializes one imported circuit, then writes it.   *)
(***************************************************************************)
Exportable ==
    /\ Len(module) = 1
    /\ module[1].imported /\ module[1].stage = "architecture" /\ module[1].routable

OpenExport ==
    /\ Starting({"export-qiskit"})
    /\ IF ~Exportable
       THEN Fail
       ELSE /\ exportFile' = Truncated
            /\ pc' = "write export"
            /\ UNCHANGED <<outside, module, working, plans, todo, at, reportFile>>

WriteExport ==
    /\ Running /\ pc = "write export"
    /\ exportFile' = Whole([i \in DOMAIN module |-> module[i].form])
    /\ PassDone
    /\ UNCHANGED <<outside, module, working, plans, reportFile>>

ExportFails ==
    /\ Running
    /\ pc = "write export" \/ (Starting({"export-qiskit"}) /\ Exportable)
    /\ Fail

-----------------------------------------------------------------------------
(***************************************************************************)
(* The process that waits.                                                 *)
(***************************************************************************)

\* The private directory goes with the call.
Cleanup ==
    IF job.by = "adapter" THEN reportFile' = NoFile /\ exportFile' = NoFile ELSE UNCHANGED file

\* The adapter's timeout, or an interrupt, kills the compiler where it is, be it
\* after its last step.
Kill ==
    /\ parent = "waiting" /\ pc # "exit 1"
    /\ parent' = "raised"
    /\ Cleanup
    /\ UNCHANGED <<job, result, module, working, plans, todo, at, pc>>

\* A nonzero exit code.
ReportFailure ==
    /\ parent = "waiting" /\ pc = "exit 1"
    /\ parent' = "raised"
    /\ Cleanup
    /\ UNCHANGED <<job, result, module, working, plans, todo, at, pc>>

\* The adapter wants the files its passes write to be there, and whole (they
\* always are after exit code 0; otherwise it raises).
Readable ==
    job.by = "adapter" =>
        /\ Uses(job.passes, QRisk) => reportFile.state = "whole" /\ Len(reportFile.circuits) = 1
        /\ Uses(job.passes, {"export-qiskit"}) => exportFile.state = "whole"

TakeResult ==
    /\ parent = "waiting" /\ pc = "exit 0"
    /\ Readable
    /\ parent' = "returned"
    /\ result' = [module |-> module, report |-> reportFile, payload |-> exportFile]
    /\ Cleanup
    /\ UNCHANGED <<job, module, working, plans, todo, at, pc>>

Compiler ==
    \/ LogicalOpt \/ LogicalOptFails \/ MapValidate \/ MapCommit \/ VerifyTarget
    \/ QRiskStart \/ Preflight \/ Apply \/ ApplyFails \/ VerifyWorking
    \/ OpenReport \/ OpenReportFails \/ WriteReport \/ WriteReportFails \/ Commit
    \/ OpenExport \/ WriteExport \/ ExportFails

Next == Compiler \/ Kill \/ ReportFailure \/ TakeResult

Spec == Init /\ [][Next]_vars

-----------------------------------------------------------------------------
(***************************************************************************)
(* Properties.                                                             *)
(***************************************************************************)

\* The state has its types.
TypeOK ==
    /\ job \in Jobs
    /\ \A i \in DOMAIN module : module[i] \in Circuit
    /\ Len(module) = Len(job.module)
    /\ todo \in Seq(Passes)
    /\ at \in 1..(Len(module) + 1)
    /\ reportFile.state \in {"absent", "partial", "whole"}
    /\ exportFile.state \in {"absent", "partial", "whole"}
    /\ parent \in {"waiting", "returned", "raised"}

\* A pass changes all the circuits of the module or none, wherever it fails or
\* is killed, and what it leaves in the module was verified.
PassesAreAtomic ==
    /\ \A i, j \in DOMAIN module :
          /\ module[i].note = job.module[i].note <=> module[j].note = job.module[j].note
          /\ module[i].stage = job.module[i].stage /\ job.module[i].stage # "architecture"
                => module[j].stage = job.module[j].stage
    /\ \A i \in DOMAIN module : module[i].form # "broken"

\* A report that can be read describes verified circuits, one entry for each:
\* a run that breaks a circuit leaves an older report, or an empty one.
ReportsAreVerified ==
    reportFile.state = "whole" /\ reportFile.circuits # <<"old">> =>
        /\ Len(reportFile.circuits) = Len(job.module)
        /\ \A i \in DOMAIN reportFile.circuits : reportFile.circuits[i] \in {"source", "mitigated"}

\* The circuits are not reordered any more once they were exported.
ExportsFinalOrder(passes) ==
    \E i \in DOMAIN passes :
        /\ passes[i] = "export-qiskit"
        /\ \A k \in DOMAIN passes : k > i => passes[k] # "qrisk-mitigate"

\* What is returned belongs together: the module printed by a run, its report
\* and its export (if its pipeline does not reorder what it exported) describe
\* the same circuits, all valid for their target.
ResultsTogether ==
    parent = "returned" =>
        /\ Uses(job.passes, QRisk) =>
              result.report = Whole([i \in DOMAIN result.module |-> result.module[i].form])
        /\ ExportsFinalOrder(job.passes) =>
              result.payload = Whole([i \in DOMAIN result.module |-> result.module[i].form])
        /\ Uses(job.passes, {"verify-target"}) =>
              \A i \in DOMAIN result.module :
                  result.module[i].stage = "architecture" /\ result.module[i].routable
=============================================================================
