-------------------------- MODULE ExperimentRunner --------------------------
(***************************************************************************)
(* The local experiments (python/mlirq_qiskit/experiments/runner.py) and   *)
(* the worker processes of the baselines (baselines.py): cases one after   *)
(* the other, for each the methods in a shuffled order, each method in a   *)
(* process of its own under a wall budget, a row for each attempt in memory*)
(* and in records.jsonl, and at the end a summary and an exit code.        *)
(*                                                                         *)
(* A worker may hang, fail or die at any point, its mlirq-opt too; the     *)
(* runner itself may be interrupted.  What is measured is left out: a row  *)
(* keeps whose it is, its status, and whether it has counts.               *)
(***************************************************************************)
EXTENDS Integers, Sequences, FiniteSets, SequencesExt

CONSTANTS
    Setups   \* records: the experiment, the number of cases, the cases the QRisk
             \* baseline does not accept, the methods of a worker, the repeats

ASSUME SetupAssumption ==
    \A s \in Setups :
        /\ DOMAIN s = {"rq", "cases", "restricted", "methods", "repeats"}
        /\ s.rq \in {"rq1", "rq2", "rq3", "rq4"}
        /\ s.cases \in Nat /\ s.repeats \in Nat \ {0}
        /\ s.restricted \subseteq 1..s.cases
        /\ s.methods \subseteq {"qiskit", "qrisk", "random", "mlirq", "global", "total", "local", "diagonal"}

VARIABLES
    setup,
    at,        \* the running case
    todo,      \* the attempts of the case not begun
    attempt,   \* the attempt under way, or None
    row,       \* its row, or None
    rows,      \* the runner's list of rows
    records,   \* records.jsonl
    pc,        \* where the runner is
    worker,    \* attempt -> its process: "none", "working", "exit 0", "exit 1", "killed"
    native,    \* attempt -> the worker's mlirq-opt: "none", "running", "gone"
    files,     \* attempt -> what its folder has: 0, output.qpy 1, and worker.json 2
    expired,   \* the attempts whose wall budget ran out
    unequal,   \* the attempts whose circuit failed the equivalence check
    broken,    \* the cases whose preflight scan timed out or crashed
    summary    \* what summary.json was made from, the rows and the pairs, or None

vars == <<setup, at, todo, attempt, row, rows, records, pc, worker, native, files,
          expired, unequal, broken, summary>>
processes == <<worker, native, files>>
book == <<rows, records, summary>>
history == <<expired, unequal, broken>>

None == <<>>

\* rq1 and rq4 optimize in the runner's own process, rq2 and rq3 in workers.
InWorkers(s) == s.rq \in {"rq2", "rq3"}

AttemptsOf(s, c) ==
    [case : {c},
     method : IF InWorkers(s) THEN s.methods ELSE {"mlirq"},
     repeat : IF s.rq \in {"rq3", "rq4"} THEN 1..s.repeats ELSE {1}]

Attempts(s) == UNION {AttemptsOf(s, c) : c \in 1..s.cases}

Row(a, status) == [case |-> a.case, method |-> a.method, repeat |-> a.repeat, status |-> status,
                   counts |-> status \in {"ok", "failed"}]
NoCounts(r) == [r EXCEPT !.counts = FALSE]
PreflightRow(c) == NoCounts(Row([case |-> c, method |-> "preflight", repeat |-> 1], "ineligible"))
ExactCheckRow(c) == NoCounts(Row([case |-> c, method |-> "mlirq", repeat |-> 1], "ineligible"))
RegressionRow == NoCounts(Row([case |-> 0, method |-> "mlirq", repeat |-> 1], "failed"))

Init ==
    /\ setup \in Setups
    /\ at = 1
    /\ todo = {} /\ attempt = None /\ row = None
    /\ rows = <<>> /\ records = <<>> /\ summary = None
    /\ pc = "case"
    /\ worker = [a \in Attempts(setup) |-> "none"]
    /\ native = [a \in Attempts(setup) |-> "none"]
    /\ files = [a \in Attempts(setup) |-> 0]
    /\ expired = {} /\ unequal = {} /\ broken = {}

-----------------------------------------------------------------------------
(***************************************************************************)
(* The runner: a case and its preflight.                                   *)
(***************************************************************************)
Goes(label) == pc' = label

\* The import and the native scan.
PreflightPasses ==
    /\ pc = "case" /\ at <= setup.cases
    /\ todo' = AttemptsOf(setup, at)
    /\ Goes(IF InWorkers(setup) THEN "method" ELSE "optimize")
    /\ UNCHANGED <<setup, at, attempt, row, book, processes, history>>

\* Any MLIRQError makes the case ineligible: the input or its catalog is
\* rejected ...
PreflightRejects ==
    /\ pc = "case" /\ at <= setup.cases
    /\ row' = PreflightRow(at)
    /\ Goes("append")
    /\ UNCHANGED <<setup, at, todo, attempt, book, processes, history>>

\* ... or the scan did not run to its end.
PreflightBreaks ==
    /\ pc = "case" /\ at <= setup.cases
    /\ row' = PreflightRow(at)
    /\ broken' = broken \cup {at}
    /\ Goes("append")
    /\ UNCHANGED <<setup, at, todo, attempt, book, processes, expired, unequal>>

\* rows.append, then write_row.
AppendRow ==
    /\ pc = "append"
    /\ rows' = Append(rows, row)
    /\ Goes("write")
    /\ UNCHANGED <<setup, at, todo, attempt, row, records, summary, processes, history>>

WriteRow ==
    /\ pc = "write"
    /\ records' = Append(records, row)
    /\ row' = None /\ attempt' = None
    /\ IF todo = {} THEN Goes("case") /\ at' = at + 1
       ELSE Goes(IF InWorkers(setup) THEN "method" ELSE "simulate") /\ at' = at
    /\ UNCHANGED <<setup, todo, rows, summary, processes, history>>

\* An exception nobody catches: whatever else there is stays.
Raises ==
    /\ Goes("raised")
    /\ UNCHANGED <<setup, at, todo, attempt, row, book, processes, history>>

\* json.dumps with allow_nan=False, or the disk.
WriteRaises == pc = "write" /\ Raises

Running == pc \notin {"exit 0", "exit 1", "raised", "interrupted"}

Interrupt ==
    /\ Running
    /\ Goes("interrupted")
    /\ UNCHANGED <<setup, at, todo, attempt, row, book, processes, history>>

-----------------------------------------------------------------------------
(***************************************************************************)
(* rq2 and rq3: one worker for each method and repeat.                     *)
(***************************************************************************)

\* The methods of one repeat in any order, then the next repeat.
NextAttempts == {a \in todo : \A b \in todo : a.repeat <= b.repeat}

Restricted(a) == a.method = "qrisk" /\ a.case \in setup.restricted

\* Seeded defect: a method that does not apply is left without a row.
SkipSilently ==
    /\ pc = "method"
    /\ \E a \in NextAttempts : Restricted(a) /\ todo' = todo \ {a}
    /\ IF todo' = {} THEN Goes("case") /\ at' = at + 1 ELSE Goes("method") /\ at' = at
    /\ UNCHANGED <<setup, attempt, row, book, processes, history>>

SkipMethod ==
    /\ pc = "method"
    /\ \E a \in NextAttempts :
          /\ Restricted(a)
          /\ row' = NoCounts(Row(a, "ineligible"))
          /\ todo' = todo \ {a}
    /\ Goes("append")
    /\ UNCHANGED <<setup, at, attempt, book, processes, history>>

LaunchWorker ==
    /\ pc = "method"
    /\ \E a \in NextAttempts :
          /\ ~Restricted(a)
          /\ worker[a] = "none"
          /\ worker' = [worker EXCEPT ![a] = "working"]
          /\ attempt' = a
          /\ todo' = todo \ {a}
    /\ Goes("communicate")
    /\ UNCHANGED <<setup, at, row, book, native, files, history>>

Alive(a) == worker[a] = "working"

\* Seeded defect: the wall budget counts while mlirq-opt runs, not otherwise.
ExpiresWithNative(a) == native[a] = "running"

\* The budget may end at any moment until communicate has seen the exit.
Expires(a) == a \in DOMAIN worker

\* communicate returns when the worker has ended and its pipes are closed:
\* mlirq-opt has pipes of its own.
Communicated ==
    /\ pc = "communicate" /\ ~Alive(attempt)
    /\ Goes("read")
    /\ UNCHANGED <<setup, at, todo, attempt, row, book, processes, history>>

Timeout ==
    /\ pc = "communicate" /\ Expires(attempt)
    /\ expired' = expired \cup {attempt}
    /\ Goes("kill")
    /\ UNCHANGED <<setup, at, todo, attempt, row, book, processes, unequal, broken>>

\* Seeded defect: the leader is killed, not its group.
KillLeader(a) ==
    /\ worker' = [worker EXCEPT ![a] = IF @ = "working" THEN "killed" ELSE @]
    /\ UNCHANGED native

\* The worker leads a session of its own: the signal reaches what is left of its
\* group, or nobody.
KillGroup(a) ==
    /\ worker' = [worker EXCEPT ![a] = IF @ = "working" THEN "killed" ELSE @]
    /\ native' = [native EXCEPT ![a] = IF @ = "running" THEN "gone" ELSE @]

Kill ==
    /\ pc = "kill"
    /\ KillGroup(attempt)
    /\ Goes("reap")
    /\ UNCHANGED <<setup, at, todo, attempt, row, book, files, history>>

\* The second communicate, without a limit, and the row of the timeout.
Reap ==
    /\ pc = "reap" /\ ~Alive(attempt)
    /\ row' = Row(attempt, "timeout")
    /\ Goes("append")
    /\ UNCHANGED <<setup, at, todo, attempt, book, processes, history>>

\* Seeded defect: the exit code is not looked at before the files are.
FilesWritten(a) == files[a] = 2

Succeeded(a) == worker[a] = "exit 0"

WorkerFailed ==
    /\ pc = "read" /\ ~Succeeded(attempt)
    /\ row' = NoCounts(Row(attempt, "failed"))
    /\ Goes("append")
    /\ UNCHANGED <<setup, at, todo, attempt, book, processes, history>>

\* evaluate: the candidate is compared with the case whatever produced it.
Judge(a) ==
    \E status \in {"ok", "failed"} :
        /\ row' = Row(a, status)
        /\ unequal' = IF status = "failed" THEN unequal \cup {a} ELSE unequal

Evaluate ==
    /\ pc = "read" /\ Succeeded(attempt)
    /\ Judge(attempt)
    /\ Goes("append")
    /\ UNCHANGED <<setup, at, todo, attempt, book, processes, expired, broken>>

\* The files cannot be read, or the target or the matcher refuses the circuit.
EvaluateRaises == pc = "read" /\ Succeeded(attempt) /\ Raises

-----------------------------------------------------------------------------
(***************************************************************************)
(* The worker (baselines.main) and its mlirq-opt.                          *)
(***************************************************************************)
UsesNative(a) == a.method \notin {"qiskit", "qrisk", "random"}

StartNative(a) ==
    /\ Alive(a) /\ UsesNative(a) /\ native[a] = "none"
    /\ native' = [native EXCEPT ![a] = "running"]
    /\ UNCHANGED <<worker, files>>

NativeEnds(a) ==
    /\ native[a] = "running"
    /\ native' = [native EXCEPT ![a] = "gone"]
    /\ UNCHANGED <<worker, files>>

\* The circuit is saved before the report.
Save(a) ==
    /\ Alive(a) /\ files[a] < 2
    /\ native[a] = IF UsesNative(a) THEN "gone" ELSE "none"
    /\ files' = [files EXCEPT ![a] = @ + 1]
    /\ UNCHANGED <<worker, native>>

WorkerExits(a) ==
    /\ Alive(a) /\ files[a] = 2
    /\ worker' = [worker EXCEPT ![a] = "exit 0"]
    /\ UNCHANGED <<native, files>>

\* An exception, or a signal that leaves mlirq-opt behind.
WorkerDies(a) ==
    /\ Alive(a)
    /\ worker' = [worker EXCEPT ![a] = "exit 1"]
    /\ UNCHANGED <<native, files>>

WorkerStep ==
    /\ \E a \in DOMAIN worker :
          StartNative(a) \/ NativeEnds(a) \/ Save(a) \/ WorkerExits(a) \/ WorkerDies(a)
    /\ UNCHANGED <<setup, at, todo, attempt, row, book, history, pc>>

-----------------------------------------------------------------------------
(***************************************************************************)
(* rq1 and rq4: optimize_compiled_circuit in the runner.                   *)
(***************************************************************************)
OptimizeRaises == pc = "optimize" /\ Raises

\* rq1: one row; a circuit that is not equivalent, or a mutated input, failed.
OptimizeAndEvaluate ==
    /\ pc = "optimize" /\ setup.rq = "rq1"
    /\ \E a \in todo : Judge(a) /\ todo' = todo \ {a}
    /\ Goes("append")
    /\ UNCHANGED <<setup, at, attempt, book, processes, expired, broken>>

\* rq4: the simulator runs after an exact check.
ExactCheckPasses ==
    /\ pc = "optimize" /\ setup.rq = "rq4"
    /\ Goes("simulate")
    /\ UNCHANGED <<setup, at, todo, attempt, row, book, processes, history>>

\* Without one there is one row for the case, and the same one whether the
\* circuit is too wide to be checked ...
ExactCheckUnavailable ==
    /\ pc = "optimize" /\ setup.rq = "rq4"
    /\ row' = ExactCheckRow(at)
    /\ todo' = {}
    /\ Goes("append")
    /\ UNCHANGED <<setup, at, attempt, book, processes, history>>

\* ... or was checked and has another meaning.
ExactCheckFails ==
    /\ pc = "optimize" /\ setup.rq = "rq4"
    /\ unequal' = unequal \cup {[case |-> at, method |-> "mlirq", repeat |-> 1]}
    /\ row' = ExactCheckRow(at)
    /\ todo' = {}
    /\ Goes("append")
    /\ UNCHANGED <<setup, at, attempt, book, processes, expired, broken>>

Simulate ==
    /\ pc = "simulate"
    /\ \E a \in NextAttempts : row' = Row(a, "ok") /\ todo' = todo \ {a}
    /\ Goes("append")
    /\ UNCHANGED <<setup, at, attempt, book, processes, history>>

SimulateRaises == pc = "simulate" /\ Raises

-----------------------------------------------------------------------------
(***************************************************************************)
(* The end: rq1's rejections and regression tests, summary, exit code.     *)
(***************************************************************************)
Finished == pc = "case" /\ at > setup.cases

\* The row of a failed regression is in the summary, not in records.jsonl.
RegressionEnds ==
    /\ Finished /\ setup.rq = "rq1"
    /\ \E failed \in {<<>>, <<RegressionRow>>} : rows' = rows \o failed
    /\ Goes("summary")
    /\ UNCHANGED <<setup, at, todo, attempt, row, records, summary, processes, history>>

RegressionRaises == Finished /\ setup.rq = "rq1" /\ Raises

NoRegression ==
    /\ Finished /\ setup.rq # "rq1"
    /\ Goes("summary")
    /\ UNCHANGED <<setup, at, todo, attempt, row, book, processes, history>>

\* The common eligible subset: the cases and repeats every method that ran has
\* an ok row for, and the rows each method has for these.
Key(r) == <<r.case, r.repeat>>
Compared(list) == {r \in ToSet(list) : r.method # "preflight"}
OkKeys(list, method) == {Key(r) : r \in {s \in Compared(list) : s.method = method /\ s.status = "ok"}}
Common(list) ==
    {Key(r) : r \in {s \in Compared(list) :
        \A t \in Compared(list) : Key(s) \in OkKeys(list, t.method)}}
Paired(list) ==
    IF InWorkers(setup) THEN {r \in Compared(list) : Key(r) \in Common(list)} ELSE {}

WriteSummary ==
    /\ pc = "summary"
    /\ summary' = [rows |-> rows, paired |-> Paired(rows)]
    /\ Goes("exit")
    /\ UNCHANGED <<setup, at, todo, attempt, row, rows, records, processes, history>>

With(statuses, list) == {i \in DOMAIN list : list[i].status \in statuses}

\* Seeded defect: a timeout is not a failure.
FailedOnly(list) == With({"failed"}, list)

Failures(list) == With({"failed", "timeout"}, list)

Exit ==
    /\ pc = "exit"
    /\ Goes(IF Failures(summary.rows) # {} \/ With({"ok"}, summary.rows) = {} THEN "exit 1" ELSE "exit 0")
    /\ UNCHANGED <<setup, at, todo, attempt, row, book, processes, history>>

RunnerStep ==
    \/ PreflightPasses \/ PreflightRejects \/ PreflightBreaks \/ AppendRow \/ WriteRow \/ WriteRaises
    \/ SkipMethod \/ LaunchWorker \/ Communicated \/ Timeout \/ Kill \/ Reap
    \/ WorkerFailed \/ Evaluate \/ EvaluateRaises
    \/ OptimizeRaises \/ OptimizeAndEvaluate
    \/ ExactCheckPasses \/ ExactCheckUnavailable \/ ExactCheckFails
    \/ Simulate \/ SimulateRaises
    \/ RegressionEnds \/ RegressionRaises \/ NoRegression \/ WriteSummary \/ Exit

Next == RunnerStep \/ Interrupt \/ WorkerStep

\* The runner goes on and its clock runs; nothing is asked of the workers.
Spec == Init /\ [][Next]_vars /\ WF_vars(RunnerStep)

-----------------------------------------------------------------------------
(***************************************************************************)
(* Properties.                                                             *)
(***************************************************************************)
Recorded == ToSet(rows)
InRecords(list) == IF list # <<>> /\ Last(list) = RegressionRow THEN Front(list) ELSE list
AttemptOf(r) == [case |-> r.case, method |-> r.method, repeat |-> r.repeat]

\* records.jsonl is the list of rows, the one being written excepted, also after
\* an interrupt or an exception; and no attempt drops out of the denominators:
\* in a summary each case has a row for each method and repeat, or the one row
\* that says why none of them was tried.
EveryAttemptCounted ==
    /\ \/ records = InRecords(rows)
       \/ pc \in {"write", "raised", "interrupted"} /\ Len(rows) > 0 /\ records = Front(rows)
    /\ summary # None => \A c \in 1..setup.cases :
          LET mine == {i \in DOMAIN records : records[i].case = c}
          IN  \/ \E i \in mine :
                    /\ mine = {i} /\ records[i].status = "ineligible"
                    /\ records[i] = PreflightRow(c) \/ ~InWorkers(setup)
              \/ /\ {AttemptOf(records[i]) : i \in mine} = AttemptsOf(setup, c)
                 /\ \A i, j \in mine : AttemptOf(records[i]) = AttemptOf(records[j]) => i = j

\* Only circuits that were evaluated have counts ("a timeout/error remains a
\* result, never a zero occurrence count", docs/experiments.md): a row with
\* counts comes from a worker that ended by itself, with both its files and
\* within its budget.  A row with status ok is one of these, with an equivalent
\* circuit; and the methods are compared on rows that are ok, the same cases and
\* repeats for each.
OkRowsAreWhole ==
    \A r \in Recorded :
        /\ r.counts =>
              /\ AttemptOf(r) \notin expired
              /\ InWorkers(setup) => worker[AttemptOf(r)] = "exit 0" /\ files[AttemptOf(r)] = 2
        /\ r.status = "ok" => r.counts /\ AttemptOf(r) \notin unequal
        /\ summary # None /\ r \in summary.paired =>
              /\ r.status = "ok"
              /\ \A m \in {s.method : s \in Compared(rows)} :
                    \E s \in summary.paired : s.method = m /\ Key(s) = Key(r)

\* Once the row of a timeout is there nothing of the worker's group runs any
\* more, its mlirq-opt included ("terminate the worker AND native descendants"),
\* whatever the worker was doing when its budget ran out.
NothingOutlivesTimeout ==
    \A a \in expired :
        pc \notin {"kill", "reap", "interrupted"} =>
            worker[a] # "working" /\ native[a] # "running"

RowsOf(c) == {r \in Recorded : r.case = c}

\* What exit code 0 vouches for: an input was eligible, no worker failed or ran
\* out of its budget, and no circuit of rq1 to rq3 changed its meaning.  Two
\* failures it does not exclude, and of these it says that nothing was measured
\* of the case: a circuit of rq4 that failed its exact check has the one
\* ineligible row, and was never simulated; a case whose preflight scan timed
\* out or crashed has its preflight row, and no method was tried on it.
ExitCodeTrue ==
    pc = "exit 0" =>
        /\ \E r \in Recorded : r.status = "ok"
        /\ expired = {}
        /\ \A a \in DOMAIN worker : worker[a] \in {"none", "exit 0"}
        /\ \A a \in unequal : setup.rq = "rq4" /\ RowsOf(a.case) = {ExactCheckRow(a.case)}
        /\ \A c \in broken : RowsOf(c) = {PreflightRow(c)}
        /\ \A a \in DOMAIN worker : a.case \in broken => worker[a] = "none"

\* "The shell command returns nonzero for failures" (docs/experiments.md): no
\* circuit changed its meaning if it returns 0.
ChangedMeaningFails == pc = "exit 0" => unequal = {}

\* However a worker hangs, the run comes to its end.
RunEnds == <>~Running
=============================================================================
