----------------------- MODULE ExperimentRunner_proofs -----------------------
(***************************************************************************)
(* Proofs about the experiment runner, for any number of cases, methods    *)
(* and repeats.  The invariant is built in layers, each inductive relative *)
(* to those before it: the types, the processes of expired attempts, the   *)
(* attempts that have a row, what a row with counts stands for, the cases  *)
(* that were given up, the summary.                                        *)
(***************************************************************************)
EXTENDS ExperimentRunner, SequenceTheorems, TLAPS

USE SetupAssumption

Methods == {"qiskit", "qrisk", "random", "mlirq", "global", "total", "local", "diagonal", "preflight"}
Statuses == {"ok", "failed", "timeout", "ineligible"}
Rows == [case : Nat, method : Methods, repeat : Nat, status : Statuses, counts : BOOLEAN]

\* Where an attempt of a worker is under way, a case, and where the list of rows
\* is no longer added to case by case.
Waiting == {"communicate", "kill", "reap", "read"}
InCase == Waiting \cup {"method", "optimize", "simulate", "append", "write"}
Ended == {"summary", "exit", "exit 0", "exit 1", "raised", "interrupted"}

ProcessTypes ==
    /\ worker \in [Attempts(setup) -> {"none", "working", "exit 0", "exit 1", "killed"}]
    /\ native \in [Attempts(setup) -> {"none", "running", "gone"}]
    /\ files \in [Attempts(setup) -> 0..2]

RunnerTypes ==
    /\ setup \in Setups /\ at \in Nat \ {0}
    /\ pc \in InCase => at \in 1..setup.cases
    /\ todo \subseteq AttemptsOf(setup, at)
    /\ pc = "case" => todo = {}
    /\ pc \in Waiting =>
          attempt \in AttemptsOf(setup, at) \ todo /\ attempt \in Attempts(setup) /\ worker[attempt] # "none"
    /\ pc \in {"append", "write"} => row \in Rows
    /\ rows \in Seq(Rows)

Typed == ProcessTypes /\ RunnerTypes

\* The steps that give up a whole case.
NoPreflight == PreflightRejects \/ PreflightBreaks
NoExactCheck == ExactCheckUnavailable \/ ExactCheckFails

-----------------------------------------------------------------------------
(***************************************************************************)
(* Attempts and rows.                                                      *)
(***************************************************************************)
LEMMA AttemptIsTyped ==
    ASSUME NEW s \in Setups, NEW c \in 1..s.cases, NEW a \in AttemptsOf(s, c)
    PROVE  /\ a \in Attempts(s) /\ a.case = c
           /\ a.case \in Nat /\ a.method \in Methods /\ a.repeat \in Nat
           /\ a = [case |-> a.case, method |-> a.method, repeat |-> a.repeat]
<1>1. a \in Attempts(s)
  BY DEF Attempts
<1>2. s.cases \in Nat /\ s.repeats \in Nat
  OBVIOUS
<1>3. s.methods \subseteq Methods /\ "mlirq" \in Methods
  BY DEF Methods
<1>4. a \in [case : {c}, method : Methods, repeat : Nat]
  BY <1>2, <1>3 DEF AttemptsOf
<1> QED
  BY <1>1, <1>2, <1>4

LEMMA CountsRemoved ==
    ASSUME NEW r \in Rows
    PROVE  /\ NoCounts(r) \in Rows /\ ~NoCounts(r).counts
           /\ NoCounts(r).status = r.status /\ NoCounts(r).case = r.case
           /\ NoCounts(r).method = r.method /\ AttemptOf(NoCounts(r)) = AttemptOf(r)
BY DEF NoCounts, Rows, AttemptOf

LEMMA RecordOfRow ==
    ASSUME NEW c \in Nat, NEW m \in Methods, NEW r \in Nat, NEW status \in Statuses
    PROVE  LET a == [case |-> c, method |-> m, repeat |-> r]
           IN  /\ Row(a, status) \in Rows /\ NoCounts(Row(a, status)) \in Rows
               /\ AttemptOf(Row(a, status)) = a /\ AttemptOf(NoCounts(Row(a, status))) = a
               /\ Row(a, status).status = status /\ NoCounts(Row(a, status)).status = status
               /\ NoCounts(Row(a, status)).case = c /\ NoCounts(Row(a, status)).method = m
               /\ ~NoCounts(Row(a, status)).counts
               /\ Row(a, status).counts = (status \in {"ok", "failed"})
<1> DEFINE a == [case |-> c, method |-> m, repeat |-> r]
<1>1. Row(a, status) = [case |-> c, method |-> m, repeat |-> r, status |-> status,
                        counts |-> status \in {"ok", "failed"}]
  BY DEF Row
<1> HIDE DEF a
<1>2. Row(a, status) \in Rows
  BY <1>1 DEF Rows
<1>3. /\ Row(a, status).status = status /\ Row(a, status).case = c /\ Row(a, status).method = m
      /\ AttemptOf(Row(a, status)) = [case |-> c, method |-> m, repeat |-> r]
  BY <1>1 DEF AttemptOf
<1>4. Row(a, status).counts = (status \in {"ok", "failed"})
  BY <1>1
<1>5. LET n == NoCounts(Row(a, status))
      IN  /\ n \in Rows /\ n.status = status /\ n.case = c /\ n.method = m /\ ~n.counts
          /\ AttemptOf(n) = [case |-> c, method |-> m, repeat |-> r]
  BY <1>2, <1>3, CountsRemoved
<1> QED
  BY <1>2, <1>3, <1>4, <1>5 DEF a

LEMMA RowIsTyped ==
    ASSUME NEW s \in Setups, NEW c \in 1..s.cases, NEW a \in AttemptsOf(s, c), NEW status \in Statuses
    PROVE  /\ Row(a, status) \in Rows /\ NoCounts(Row(a, status)) \in Rows
           /\ AttemptOf(Row(a, status)) = a /\ AttemptOf(NoCounts(Row(a, status))) = a
           /\ Row(a, status).status = status /\ NoCounts(Row(a, status)).status = status
           /\ ~NoCounts(Row(a, status)).counts
           /\ Row(a, status).counts = (status \in {"ok", "failed"})
<1>1. /\ a.case \in Nat /\ a.method \in Methods /\ a.repeat \in Nat
      /\ a = [case |-> a.case, method |-> a.method, repeat |-> a.repeat]
  BY AttemptIsTyped
<1> QED
  BY <1>1, RecordOfRow

LEMMA RowHasCounts ==
    ASSUME NEW s \in Setups, NEW c \in 1..s.cases, NEW a \in AttemptsOf(s, c)
    PROVE  /\ \A status \in {"ok", "failed"} :
                 /\ AttemptOf(Row(a, status)) = a /\ Row(a, status).status = status
                 /\ Row(a, status).counts
           /\ LET late == Row(a, "timeout")
              IN  AttemptOf(late) = a /\ late.status = "timeout" /\ ~late.counts
           /\ \A status \in {"failed", "ineligible"} :
                 LET n == NoCounts(Row(a, status))
                 IN  AttemptOf(n) = a /\ n.status = status /\ ~n.counts
<1>1. \A status \in {"ok", "failed", "timeout", "ineligible"} :
         /\ AttemptOf(Row(a, status)) = a /\ AttemptOf(NoCounts(Row(a, status))) = a
         /\ Row(a, status).status = status /\ NoCounts(Row(a, status)).status = status
         /\ ~NoCounts(Row(a, status)).counts
         /\ Row(a, status).counts = (status \in {"ok", "failed"})
  BY RowIsTyped DEF Statuses
<1>2. \A status \in {"ok", "failed"} : Row(a, status).counts
  BY <1>1
<1>3. ~Row(a, "timeout").counts
  BY <1>1
<1> QED
  BY <1>1, <1>2, <1>3

LEMMA PreflightRowIsTyped ==
    ASSUME NEW c \in Nat
    PROVE  /\ PreflightRow(c) \in Rows /\ AttemptOf(PreflightRow(c)).case = c
           /\ PreflightRow(c).case = c /\ PreflightRow(c).method = "preflight"
           /\ PreflightRow(c).status = "ineligible" /\ ~PreflightRow(c).counts
<1>1. "preflight" \in Methods /\ "ineligible" \in Statuses /\ 1 \in Nat
  BY DEF Methods, Statuses
<1> QED
  BY <1>1, RecordOfRow DEF PreflightRow

LEMMA ExactCheckRowIsTyped ==
    ASSUME NEW c \in Nat
    PROVE  /\ ExactCheckRow(c) \in Rows
           /\ AttemptOf(ExactCheckRow(c)) = [case |-> c, method |-> "mlirq", repeat |-> 1]
           /\ ExactCheckRow(c).status = "ineligible" /\ ~ExactCheckRow(c).counts
BY RecordOfRow DEF ExactCheckRow, Methods, Statuses

LEMMA RegressionRowIsTyped ==
    /\ RegressionRow \in Rows /\ RegressionRow.case = 0
    /\ RegressionRow.status = "failed" /\ ~RegressionRow.counts
BY RecordOfRow DEF RegressionRow, Methods, Statuses

LEMMA FirstRepeat ==
    ASSUME NEW s \in Setups, NEW c \in 1..s.cases, s.rq = "rq4"
    PROVE  [case |-> c, method |-> "mlirq", repeat |-> 1] \in AttemptsOf(s, c)
BY DEF AttemptsOf, InWorkers

-----------------------------------------------------------------------------
(***************************************************************************)
(* Types.                                                                  *)
(***************************************************************************)
LEMMA TypedInit == Init => Typed
<1> SUFFICES ASSUME Init PROVE Typed
  OBVIOUS
<1>1. ProcessTypes
  BY DEF Init, ProcessTypes
<1>2. RunnerTypes
  BY DEF Init, RunnerTypes, Waiting, InCase
<1> QED
  BY <1>1, <1>2 DEF Typed

LEMMA TypedNext == Typed /\ [Next]_vars => Typed'
<1> SUFFICES ASSUME Typed, [Next]_vars PROVE Typed'
  OBVIOUS
<1> USE DEF Typed, InCase, Waiting, Goes, processes, book, history
<1>1. CASE UNCHANGED vars
  BY <1>1 DEF vars, ProcessTypes, RunnerTypes
<1>2. CASE WorkerStep
  <2>1. PICK a \in Attempts(setup) :
           StartNative(a) \/ NativeEnds(a) \/ Save(a) \/ WorkerExits(a) \/ WorkerDies(a)
    BY <1>2 DEF WorkerStep, ProcessTypes
  <2>2. ProcessTypes'
    <3>1. setup' = setup
      BY <1>2 DEF WorkerStep
    <3>2. CASE StartNative(a) \/ NativeEnds(a)
      BY <3>1, <3>2 DEF StartNative, NativeEnds, ProcessTypes
    <3>3. CASE WorkerExits(a) \/ WorkerDies(a)
      BY <3>1, <3>3 DEF WorkerExits, WorkerDies, ProcessTypes
    <3>4. CASE Save(a)
      <4>1. files[a] \in 0..2 /\ files[a] < 2
        BY <3>4 DEF Save, ProcessTypes
      <4>2. files[a] + 1 \in 0..2
        BY <4>1
      <4>3. files' = [files EXCEPT ![a] = files[a] + 1] /\ worker' = worker /\ native' = native
        BY <3>4 DEF Save
      <4> QED
        BY <3>1, <4>2, <4>3 DEF ProcessTypes
    <3> QED
      BY <2>1, <3>2, <3>3, <3>4
  <2>3. \A b \in Attempts(setup) : worker[b] # "none" => worker'[b] # "none"
    BY <2>1 DEF StartNative, NativeEnds, Save, WorkerExits, WorkerDies, ProcessTypes
  <2>4. RunnerTypes'
    BY <1>2, <2>3 DEF WorkerStep, RunnerTypes
  <2> QED
    BY <2>2, <2>4
<1>3. CASE Interrupt \/ WriteRaises \/ EvaluateRaises \/ OptimizeRaises \/ SimulateRaises \/ RegressionRaises
  BY <1>3 DEF Interrupt, WriteRaises, EvaluateRaises, OptimizeRaises, SimulateRaises, RegressionRaises,
       Raises, ProcessTypes, RunnerTypes
<1>4. CASE PreflightPasses \/ NoPreflight
  <2>1. at \in 1..setup.cases
    BY <1>4 DEF PreflightPasses, NoPreflight, PreflightRejects, PreflightBreaks, RunnerTypes
  <2>2. NoPreflight => row' \in Rows
    BY <2>1, PreflightRowIsTyped DEF NoPreflight, PreflightRejects, PreflightBreaks
  <2>3. ProcessTypes'
    BY <1>4 DEF PreflightPasses, NoPreflight, PreflightRejects, PreflightBreaks, ProcessTypes
  <2> QED
    BY <1>4, <2>1, <2>2, <2>3 DEF PreflightPasses, NoPreflight, PreflightRejects, PreflightBreaks,
         RunnerTypes
<1>6. CASE AppendRow
  <2>1. rows' \in Seq(Rows)
    BY <1>6 DEF AppendRow, RunnerTypes
  <2> QED
    BY <1>6, <2>1 DEF AppendRow, ProcessTypes, RunnerTypes
<1>7. CASE WriteRow
  <2>1. ProcessTypes'
    BY <1>7 DEF WriteRow, ProcessTypes
  <2>2. /\ setup' = setup /\ todo' = todo /\ rows' = rows
        /\ IF todo = {} THEN pc' = "case" /\ at' = at + 1
           ELSE pc' \in {"method", "simulate"} /\ at' = at /\ at \in 1..setup.cases
    BY <1>7 DEF WriteRow, RunnerTypes
  <2>3. CASE todo = {}
    BY <2>1, <2>2, <2>3 DEF RunnerTypes
  <2>4. CASE todo # {}
    BY <2>1, <2>2, <2>4 DEF RunnerTypes
  <2> QED
    BY <2>3, <2>4
<1>8. CASE SkipMethod
  <2>1. PICK a \in AttemptsOf(setup, at) : row' = NoCounts(Row(a, "ineligible")) /\ todo' = todo \ {a}
    BY <1>8 DEF SkipMethod, NextAttempts, RunnerTypes
  <2>2. row' \in Rows
    BY <1>8, <2>1, RowIsTyped DEF SkipMethod, RunnerTypes, Statuses
  <2> QED
    BY <1>8, <2>1, <2>2 DEF SkipMethod, ProcessTypes, RunnerTypes
<1>9. CASE LaunchWorker
  <2>1. PICK a \in AttemptsOf(setup, at) :
           worker' = [worker EXCEPT ![a] = "working"] /\ attempt' = a /\ todo' = todo \ {a}
    BY <1>9 DEF LaunchWorker, NextAttempts, RunnerTypes
  <2>2. a \in Attempts(setup)
    BY <1>9, AttemptIsTyped DEF LaunchWorker, RunnerTypes
  <2> QED
    BY <1>9, <2>1, <2>2 DEF LaunchWorker, ProcessTypes, RunnerTypes
<1>10. CASE Communicated \/ Timeout
  BY <1>10 DEF Communicated, Timeout, ProcessTypes, RunnerTypes
<1>11. CASE Kill
  BY <1>11 DEF Kill, KillGroup, ProcessTypes, RunnerTypes
<1>12. CASE Reap \/ WorkerFailed
  <2>1. row' \in Rows
    BY <1>12, RowIsTyped DEF Reap, WorkerFailed, RunnerTypes, Statuses
  <2> QED
    BY <1>12, <2>1 DEF Reap, WorkerFailed, ProcessTypes, RunnerTypes
<1>13. CASE Evaluate
  <2>1. row' \in Rows
    BY <1>13, RowIsTyped DEF Evaluate, Judge, RunnerTypes, Statuses
  <2> QED
    BY <1>13, <2>1 DEF Evaluate, ProcessTypes, RunnerTypes
<1>14. CASE OptimizeAndEvaluate
  <2>1. PICK a \in AttemptsOf(setup, at) : Judge(a) /\ todo' = todo \ {a}
    BY <1>14 DEF OptimizeAndEvaluate, RunnerTypes
  <2>2. row' \in Rows
    BY <1>14, <2>1, RowIsTyped DEF OptimizeAndEvaluate, Judge, RunnerTypes, Statuses
  <2> QED
    BY <1>14, <2>1, <2>2 DEF OptimizeAndEvaluate, ProcessTypes, RunnerTypes
<1>15. CASE ExactCheckPasses \/ NoRegression \/ WriteSummary \/ Exit
  BY <1>15 DEF ExactCheckPasses, NoRegression, WriteSummary, Exit, ProcessTypes, RunnerTypes
<1>16. CASE NoExactCheck
  <2>1. row' \in Rows
    BY <1>16, RowIsTyped, FirstRepeat DEF NoExactCheck, ExactCheckUnavailable, ExactCheckFails,
         ExactCheckRow, RunnerTypes, Statuses
  <2> QED
    BY <1>16, <2>1 DEF NoExactCheck, ExactCheckUnavailable, ExactCheckFails, ExactCheckRow,
         ProcessTypes, RunnerTypes
<1>17. CASE Simulate
  <2>1. PICK a \in AttemptsOf(setup, at) : row' = Row(a, "ok") /\ todo' = todo \ {a}
    BY <1>17 DEF Simulate, NextAttempts, RunnerTypes
  <2>2. row' \in Rows
    BY <1>17, <2>1, RowIsTyped DEF Simulate, RunnerTypes, Statuses
  <2> QED
    BY <1>17, <2>1, <2>2 DEF Simulate, ProcessTypes, RunnerTypes
<1>18. CASE RegressionEnds
  <2>1. <<>> \in Seq(Rows) /\ <<RegressionRow>> \in Seq(Rows) /\ rows \in Seq(Rows)
    BY RegressionRowIsTyped DEF RunnerTypes
  <2>2. rows' \in Seq(Rows)
    <3>1. rows' = rows \o <<>> \/ rows' = rows \o <<RegressionRow>>
      BY <1>18 DEF RegressionEnds
    <3> QED
      BY <2>1, <3>1, ConcatProperties
  <2> QED
    BY <1>18, <2>2 DEF RegressionEnds, ProcessTypes, RunnerTypes
<1> QED
  BY <1>1, <1>2, <1>3, <1>4, <1>6, <1>7, <1>8, <1>9, <1>10, <1>11, <1>12, <1>13, <1>14,
     <1>15, <1>16, <1>17, <1>18 DEF Next, RunnerStep, NoPreflight, NoExactCheck

LEMMA TypedAlways == Spec => []Typed
BY TypedInit, TypedNext, PTL DEF Spec

\* What a step of a worker can change for an attempt.
LEMMA WorkerMoves ==
    ASSUME Typed, WorkerStep, NEW b \in Attempts(setup)
    PROVE  /\ worker[b] # "none" => worker'[b] # "none"
           /\ worker[b] = "none" => worker'[b] = "none"
           /\ worker[b] # "working" =>
                 /\ worker'[b] = worker[b] /\ files'[b] = files[b]
                 /\ native[b] # "running" => native'[b] # "running"
           /\ worker[b] = "working" /\ worker'[b] = "exit 0" => files'[b] = 2
<1> USE DEF Typed, ProcessTypes
<1>1. PICK a \in Attempts(setup) :
         StartNative(a) \/ NativeEnds(a) \/ Save(a) \/ WorkerExits(a) \/ WorkerDies(a)
  BY DEF WorkerStep
<1>2. CASE StartNative(a) \/ NativeEnds(a) \/ Save(a)
  BY <1>2 DEF StartNative, NativeEnds, Save, Alive
<1>3. CASE WorkerExits(a) \/ WorkerDies(a)
  BY <1>3 DEF WorkerExits, WorkerDies, Alive
<1> QED
  BY <1>1, <1>2, <1>3

-----------------------------------------------------------------------------
(***************************************************************************)
(* The processes of the attempts that expired.                             *)
(***************************************************************************)
Gone(a) == worker[a] \notin {"none", "working"} /\ native[a] # "running"

ExpiredAreGone ==
    \A a \in expired :
        /\ a \in Attempts(setup) /\ worker[a] # "none"
        /\ Gone(a) \/ (pc \in {"kill", "interrupted"} /\ a = attempt)

LEMMA ExpiredNext == Typed /\ ExpiredAreGone /\ [Next]_vars => ExpiredAreGone'
<1> SUFFICES ASSUME Typed, ExpiredAreGone, [Next]_vars PROVE ExpiredAreGone'
  OBVIOUS
<1> USE DEF ExpiredAreGone, Gone, processes, book, history, Goes
<1>1. CASE UNCHANGED vars
  BY <1>1 DEF vars
<1>2. CASE WorkerStep
  <2>1. UNCHANGED <<setup, expired, pc, attempt>>
    BY <1>2 DEF WorkerStep
  <2> QED
    BY <1>2, <2>1, WorkerMoves
<1>3. CASE Timeout
  BY <1>3 DEF Timeout, Typed, RunnerTypes, Waiting
<1>4. CASE Kill
  BY <1>4 DEF Kill, KillGroup, Typed, ProcessTypes, RunnerTypes, Waiting
<1>5. CASE LaunchWorker
  <2>1. PICK a \in Attempts(setup) : worker[a] = "none" /\ worker' = [worker EXCEPT ![a] = "working"]
    BY <1>5, AttemptIsTyped DEF LaunchWorker, NextAttempts, Typed, RunnerTypes, InCase
  <2>2. \A b \in expired : worker'[b] = worker[b]
    BY <2>1 DEF Typed, ProcessTypes
  <2> QED
    BY <1>5, <2>2 DEF LaunchWorker
<1>6. CASE WriteRow
  BY <1>6 DEF WriteRow
<1>7. CASE Interrupt
  BY <1>7 DEF Interrupt
<1>8. CASE /\ UNCHANGED <<setup, expired, processes>>
           /\ pc \notin {"kill", "interrupted"}
  BY <1>8
<1>9. \/ PreflightPasses \/ NoPreflight \/ AppendRow \/ SkipMethod \/ Communicated \/ Reap
      \/ WorkerFailed \/ Evaluate \/ WriteRaises \/ EvaluateRaises \/ OptimizeRaises \/ OptimizeAndEvaluate
      \/ ExactCheckPasses \/ NoExactCheck \/ Simulate \/ SimulateRaises \/ RegressionEnds
      \/ RegressionRaises \/ NoRegression \/ WriteSummary \/ Exit
      => UNCHANGED <<setup, expired, processes>> /\ pc \notin {"kill", "interrupted"}
  BY DEF PreflightPasses, NoPreflight, PreflightRejects, PreflightBreaks, AppendRow, SkipMethod,
       Communicated, Reap, WorkerFailed, Evaluate, WriteRaises, EvaluateRaises, OptimizeRaises,
       OptimizeAndEvaluate, ExactCheckPasses, NoExactCheck, ExactCheckUnavailable, ExactCheckFails,
       Simulate, SimulateRaises, RegressionEnds, RegressionRaises, NoRegression, WriteSummary, Exit,
       Raises, Finished
<1> QED
  BY <1>1, <1>2, <1>3, <1>4, <1>5, <1>6, <1>7, <1>8, <1>9 DEF Next, RunnerStep, NoPreflight, NoExactCheck

\* However the end of a worker and the end of its budget fall together, the row
\* of a timeout is not made before the worker's group is gone.
THEOREM TimeoutLeavesNothing == Spec => []NothingOutlivesTimeout
<1>1. Init => ExpiredAreGone
  BY DEF Init, ExpiredAreGone
<1>2. ExpiredAreGone => NothingOutlivesTimeout
  BY DEF ExpiredAreGone, Gone, NothingOutlivesTimeout
<1> QED
  BY <1>1, <1>2, ExpiredNext, TypedAlways, PTL DEF Spec
-----------------------------------------------------------------------------
(***************************************************************************)
(* The attempts that have a row.                                           *)
(***************************************************************************)

\* The rows made so far, the one about to be appended included, and those of a
\* case.
Tried == ToSet(rows) \cup {r \in {row} : pc = "append"}
MadeRows(c) == {r \in Tried : r.case = c}

Fresh(a) == \A r \in Tried : AttemptOf(r) # a
Underway(a) == pc \in Waiting /\ a = attempt

Booked ==
    /\ \A r, s \in Tried : AttemptOf(r) = AttemptOf(s) => r = s
    /\ pc \notin Ended =>
          /\ \A r \in Tried : r.case \in 1..at /\ (pc \in {"case", "optimize"} => r.case < at)
          /\ \A a \in todo : Fresh(a)
          /\ pc \in Waiting => Fresh(attempt)

LEMMA TriedRows ==
    ASSUME Typed
    PROVE  /\ Tried \subseteq Rows
           /\ \A r \in Tried : AttemptOf(r) = [case |-> r.case, method |-> r.method, repeat |-> r.repeat]
<1>1. \A r \in ToSet(rows) : r \in Rows
  BY DEF ToSet, Typed, RunnerTypes
<1> QED
  BY <1>1 DEF Tried, Typed, RunnerTypes, AttemptOf

LEMMA Appended ==
    ASSUME NEW S, NEW s \in Seq(S), NEW e \in S
    PROVE  ToSet(Append(s, e)) = ToSet(s) \cup {e}
<1>1. \A i \in 1..Len(s) : Append(s, e)[i] = s[i]
  OBVIOUS
<1>2. DOMAIN Append(s, e) = 1..(Len(s) + 1) /\ Append(s, e)[Len(s) + 1] = e /\ DOMAIN s = 1..Len(s)
  OBVIOUS
<1>3. Len(s) \in Nat /\ 1..(Len(s) + 1) = 1..Len(s) \cup {Len(s) + 1}
  OBVIOUS
<1> QED
  BY <1>1, <1>2, <1>3 DEF ToSet

\* A new row for an attempt that has none.
LEMMA RowMade ==
    ASSUME Typed, Booked, NEW r \in Rows, Fresh(AttemptOf(r)), r.case = at,
           pc \notin Ended \cup {"append"}, pc' = "append", row' = r,
           UNCHANGED <<setup, at, rows>>, todo' \subseteq todo \ {AttemptOf(r)}
    PROVE  Tried' = Tried \cup {r} /\ Booked'
<1>1. Tried' = Tried \cup {r}
  BY DEF Tried
<1>2. \A s \in Tried : AttemptOf(s) # AttemptOf(r)
  BY DEF Fresh
<1>3. \A x, y \in Tried' : AttemptOf(x) = AttemptOf(y) => x = y
  BY <1>1, <1>2 DEF Booked
<1>4. \A x \in Tried' : x.case \in 1..at'
  BY <1>1 DEF Booked, Typed, RunnerTypes
<1>5. \A a \in todo' : Fresh(a)'
  BY <1>1 DEF Booked, Fresh
<1>6. pc' \notin Waiting /\ pc' \notin {"case", "optimize"}
  BY DEF Waiting
<1> QED
  BY <1>1, <1>3, <1>4, <1>5, <1>6 DEF Booked

\* The steps that make a row.
MakesRow ==
    \/ NoPreflight \/ SkipMethod \/ Reap \/ WorkerFailed \/ Evaluate
    \/ OptimizeAndEvaluate \/ NoExactCheck \/ Simulate

LEMMA RowIsNew ==
    ASSUME Typed, Booked, MakesRow
    PROVE  /\ row' \in Rows /\ Fresh(AttemptOf(row')) /\ row'.case = at
           /\ pc \notin Ended \cup {"append"} /\ pc' = "append"
           /\ UNCHANGED <<setup, at, rows>> /\ todo' \subseteq todo \ {AttemptOf(row')}
<1> USE DEF Goes, book
<1>1. /\ pc' = "append" /\ UNCHANGED <<setup, at, rows>>
      /\ pc \in {"case", "method", "reap", "read", "optimize", "simulate"}
  BY DEF MakesRow, NoPreflight, PreflightRejects, PreflightBreaks, SkipMethod, Reap, WorkerFailed,
       Evaluate, OptimizeAndEvaluate, NoExactCheck, ExactCheckUnavailable, ExactCheckFails, Simulate
<1>2. pc \notin Ended \cup {"append"}
  BY <1>1 DEF Ended
<1>3. at \in 1..setup.cases /\ setup \in Setups
  BY <1>1 DEF MakesRow, NoPreflight, PreflightRejects, PreflightBreaks, SkipMethod, Reap, WorkerFailed,
       Evaluate, OptimizeAndEvaluate, NoExactCheck, ExactCheckUnavailable, ExactCheckFails, Simulate,
       Typed, RunnerTypes, InCase, Waiting
<1>4. \A r \in Tried : AttemptOf(r).case = r.case
  BY TriedRows
<1>5. CASE NoPreflight
  <2>1. row' = PreflightRow(at) /\ todo' = todo /\ pc = "case"
    BY <1>5 DEF NoPreflight, PreflightRejects, PreflightBreaks
  <2>2. row' \in Rows /\ AttemptOf(row').case = at /\ row'.case = at
    BY <1>3, <2>1, PreflightRowIsTyped
  <2>3. Fresh(AttemptOf(row'))
    BY <1>2, <1>3, <1>4, <2>1, <2>2 DEF Booked, Fresh, Typed, RunnerTypes
  <2>4. todo = {}
    BY <2>1 DEF Typed, RunnerTypes
  <2> QED
    BY <1>1, <1>2, <2>1, <2>2, <2>3, <2>4
<1>6. ASSUME NEW a \in AttemptsOf(setup, at), NEW status \in Statuses,
             row' \in {Row(a, status), NoCounts(Row(a, status))}, Fresh(a), todo' \subseteq todo \ {a}
      PROVE  /\ row' \in Rows /\ Fresh(AttemptOf(row')) /\ row'.case = at
             /\ todo' \subseteq todo \ {AttemptOf(row')}
  <2>1. row' \in Rows /\ AttemptOf(row') = a
    BY <1>3, <1>6, RowIsTyped
  <2>2. row'.case = a.case
    BY <2>1 DEF AttemptOf
  <2>3. a.case = at
    BY <1>3, AttemptIsTyped
  <2> QED
    BY <1>6, <2>1, <2>2, <2>3
<1>7. \A a \in todo : a \in AttemptsOf(setup, at) /\ Fresh(a)
  BY <1>2 DEF Booked, Typed, RunnerTypes
<1>8. pc \in Waiting => attempt \in AttemptsOf(setup, at) \ todo /\ Fresh(attempt)
  BY <1>2 DEF Booked, Typed, RunnerTypes
<1>9. {"ok", "failed", "timeout", "ineligible"} = Statuses
  BY DEF Statuses
<1>10. CASE SkipMethod
  BY <1>1, <1>2, <1>6, <1>7, <1>9, <1>10 DEF SkipMethod, NextAttempts
<1>11. CASE Reap \/ WorkerFailed
  <2>1. pc \in Waiting /\ todo' = todo
        /\ (row' = Row(attempt, "timeout") \/ row' = NoCounts(Row(attempt, "failed")))
    BY <1>11 DEF Reap, WorkerFailed, Waiting
  <2> QED
    BY <1>1, <1>2, <1>6, <1>8, <1>9, <2>1
<1>12. CASE Evaluate
  <2>1. pc \in Waiting /\ todo' = todo /\ \E status \in {"ok", "failed"} : row' = Row(attempt, status)
    BY <1>12 DEF Evaluate, Judge, Waiting
  <2> QED
    BY <1>1, <1>2, <1>6, <1>8, <1>9, <2>1
<1>13. CASE OptimizeAndEvaluate
  BY <1>1, <1>2, <1>6, <1>7, <1>9, <1>13 DEF OptimizeAndEvaluate, Judge
<1>14. CASE NoExactCheck
  <2> DEFINE a == [case |-> at, method |-> "mlirq", repeat |-> 1]
  <2>1. pc = "optimize" /\ todo' = {} /\ row' = NoCounts(Row(a, "ineligible")) /\ setup.rq = "rq4"
    BY <1>14 DEF NoExactCheck, ExactCheckUnavailable, ExactCheckFails, ExactCheckRow
  <2>2. a \in AttemptsOf(setup, at)
    BY <1>3, <2>1, FirstRepeat
  <2>3. Fresh(a)
    BY <1>2, <1>3, <1>4, <2>1 DEF Booked, Fresh, Typed, RunnerTypes
  <2> HIDE DEF a
  <2> QED
    BY <1>1, <1>2, <1>6, <1>9, <2>1, <2>2, <2>3
<1>15. CASE Simulate
  BY <1>1, <1>2, <1>6, <1>7, <1>9, <1>15 DEF Simulate, NextAttempts
<1> QED
  BY <1>5, <1>10, <1>11, <1>12, <1>13, <1>14, <1>15 DEF MakesRow

\* The steps that make no row.
LEMMA TriedKept ==
    ASSUME Typed, [Next]_vars, ~MakesRow
    PROVE  /\ setup' = setup
           /\ \/ Tried' = Tried
              \/ pc' \in {"raised", "interrupted"} /\ Tried' \subseteq Tried
              \/ /\ pc = "case" /\ pc' = "summary"
                 /\ Tried' = Tried \cup {RegressionRow}
<1> USE DEF Tried, Goes, book, processes, history
<1>1. CASE UNCHANGED vars
  BY <1>1 DEF vars
<1>2. CASE WorkerStep
  BY <1>2 DEF WorkerStep
<1>3. CASE Interrupt \/ WriteRaises \/ EvaluateRaises \/ OptimizeRaises \/ SimulateRaises \/ RegressionRaises
  BY <1>3 DEF Interrupt, WriteRaises, EvaluateRaises, OptimizeRaises, SimulateRaises, RegressionRaises,
       Raises
<1>4. CASE AppendRow
  <2>1. rows' = Append(rows, row) /\ pc = "append" /\ pc' = "write" /\ setup' = setup
    BY <1>4 DEF AppendRow
  <2>2. ToSet(rows') = ToSet(rows) \cup {row}
    BY <2>1, Appended DEF Typed, RunnerTypes
  <2> QED
    BY <2>1, <2>2
<1>5. CASE WriteRow
  BY <1>5 DEF WriteRow
<1>6. CASE RegressionEnds
  <2>1. pc = "case" /\ pc' = "summary" /\ setup' = setup
        /\ (rows' = rows \o <<>> \/ rows' = rows \o <<RegressionRow>>)
    BY <1>6 DEF RegressionEnds, Finished
  <2>2. rows \in Seq(Rows) /\ RegressionRow \in Rows
    BY RegressionRowIsTyped DEF Typed, RunnerTypes
  <2>3. rows \o <<>> = rows /\ rows \o <<RegressionRow>> = Append(rows, RegressionRow)
    BY <2>2
  <2>4. ToSet(Append(rows, RegressionRow)) = ToSet(rows) \cup {RegressionRow}
    BY <2>2, Appended
  <2> QED
    BY <2>1, <2>3, <2>4
<1>7. CASE \/ PreflightPasses \/ LaunchWorker \/ Communicated \/ Timeout \/ Kill
           \/ ExactCheckPasses \/ NoRegression \/ WriteSummary \/ Exit
  BY <1>7 DEF PreflightPasses, LaunchWorker, Communicated, Timeout, Kill, ExactCheckPasses,
              NoRegression, WriteSummary, Exit, Finished
<1> QED
  BY <1>1, <1>2, <1>3, <1>4, <1>5, <1>6, <1>7 DEF Next, RunnerStep, MakesRow, NoPreflight, NoExactCheck

LEMMA BookedNext == Typed /\ Booked /\ [Next]_vars => Booked'
<1> SUFFICES ASSUME Typed, Booked, [Next]_vars PROVE Booked'
  OBVIOUS
<1> USE DEF Goes, book, processes, history
<1>1. CASE MakesRow
  BY <1>1, RowIsNew, RowMade
<1> SUFFICES ASSUME ~MakesRow PROVE Booked'
  BY <1>1
<1>2. CASE pc' \in Ended
  <2>1. \A r, s \in Tried' : AttemptOf(r) = AttemptOf(s) => r = s
    <3>1. CASE Tried' \subseteq Tried
      BY <3>1 DEF Booked
    <3>2. CASE pc = "case" /\ Tried' = Tried \cup {RegressionRow}
      <4>1. \A r \in Tried : AttemptOf(r).case = r.case /\ r.case # 0
        BY <3>2, TriedRows DEF Booked, Ended, Typed, RunnerTypes
      <4>2. AttemptOf(RegressionRow).case = 0
        BY RegressionRowIsTyped DEF AttemptOf
      <4> QED
        BY <3>2, <4>1, <4>2 DEF Booked
    <3> QED
      BY <3>1, <3>2, TriedKept
  <2> QED
    BY <1>2, <2>1 DEF Booked
<1> SUFFICES ASSUME pc' \notin Ended PROVE Booked'
  BY <1>2
<1>3. Tried' = Tried
  BY TriedKept DEF Ended
<1>4. CASE UNCHANGED <<at, pc, todo, attempt>>
  BY <1>3, <1>4 DEF Booked, Fresh
<1>5. CASE PreflightPasses
  <2>1. at' = at /\ todo' = AttemptsOf(setup, at) /\ pc = "case" /\ pc' \in {"method", "optimize"}
        /\ at \in 1..setup.cases /\ setup \in Setups
    BY <1>5 DEF PreflightPasses, Typed, RunnerTypes
  <2>2. \A r \in Tried : AttemptOf(r).case < at /\ r.case \in 1..at /\ r.case < at
    <3>1. \A r \in Tried : AttemptOf(r).case = r.case
      BY TriedRows
    <3>2. \A r \in Tried : r.case \in 1..at /\ r.case < at
      BY <2>1 DEF Booked, Ended
    <3> QED
      BY <3>1, <3>2
  <2>3. \A a \in todo' : a.case = at
    BY <2>1, AttemptIsTyped
  <2>4. \A a \in todo' : Fresh(a)'
    BY <1>3, <2>1, <2>2, <2>3 DEF Fresh
  <2> QED
    BY <1>3, <2>1, <2>2, <2>4 DEF Booked, Waiting
<1>6. CASE WriteRow
  <2>1. \/ pc' = "case" /\ at' = at + 1
        \/ pc' \in {"method", "simulate"} /\ at' = at
    BY <1>6 DEF WriteRow
  <2>2. pc \notin Ended /\ todo' = todo
    BY <1>6 DEF WriteRow, Ended
  <2>3. at \in Nat
    BY DEF Typed, RunnerTypes
  <2>4. \A r \in Tried' : r.case \in 1..at' /\ (pc' \in {"case", "optimize"} => r.case < at')
    <3>1. \A r \in Tried : r.case \in 1..at
      BY <2>2 DEF Booked
    <3>2. \A r \in Tried : r.case \in 1..(at + 1) /\ r.case < at + 1
      BY <2>3, <3>1
    <3> QED
      BY <1>3, <2>1, <3>1, <3>2
  <2> QED
    BY <1>3, <2>1, <2>2, <2>4 DEF Booked, Fresh, Waiting
<1>7. CASE LaunchWorker
  BY <1>3, <1>7 DEF LaunchWorker, NextAttempts, Booked, Fresh, Waiting, Ended
<1>8. CASE Communicated \/ Timeout \/ Kill \/ ExactCheckPasses \/ AppendRow
  BY <1>3, <1>8 DEF Communicated, Timeout, Kill, ExactCheckPasses, AppendRow, Booked, Fresh, Waiting,
       Ended
<1>9. CASE UNCHANGED vars \/ WorkerStep
  BY <1>4, <1>9 DEF vars, WorkerStep
<1>10. CASE \/ Interrupt \/ WriteRaises \/ EvaluateRaises \/ OptimizeRaises \/ SimulateRaises \/ RegressionRaises
            \/ RegressionEnds \/ NoRegression \/ WriteSummary \/ Exit
  BY <1>10 DEF Interrupt, WriteRaises, EvaluateRaises, OptimizeRaises, SimulateRaises, RegressionRaises,
       Raises, RegressionEnds, NoRegression, WriteSummary, Exit, Ended
<1> QED
  BY <1>5, <1>6, <1>7, <1>8, <1>9, <1>10 DEF Next, RunnerStep, MakesRow, NoPreflight, NoExactCheck

LEMMA BookedAlways == Spec => []Booked
<1>1. Init => Booked
  BY DEF Init, Booked, Tried, ToSet, Fresh, Waiting
<1> QED
  BY <1>1, BookedNext, TypedAlways, PTL DEF Spec

\* The attempts a step that makes no row adds to the history, and the processes
\* it touches.
LEMMA HistoryKept ==
    ASSUME Typed, [Next]_vars, ~MakesRow
    PROVE  /\ unequal' = unequal /\ broken' = broken /\ setup' = setup
           /\ \/ expired' = expired
              \/ pc = "communicate" /\ pc' = "kill" /\ attempt' = attempt /\ expired' = expired \cup {attempt}
           /\ \/ WorkerStep
              \/ UNCHANGED <<worker, files>>
              \/ pc = "kill" /\ pc' = "reap" /\ attempt' = attempt /\ KillGroup(attempt) /\ files' = files
              \/ /\ pc = "method" /\ pc' = "communicate" /\ attempt' \in todo /\ files' = files
                 /\ worker' = [worker EXCEPT ![attempt'] = "working"]
<1> USE DEF Goes, book, processes, history
<1>1. CASE UNCHANGED vars
  BY <1>1 DEF vars
<1>2. CASE WorkerStep
  BY <1>2 DEF WorkerStep
<1>3. CASE Interrupt \/ WriteRaises \/ EvaluateRaises \/ OptimizeRaises \/ SimulateRaises \/ RegressionRaises
  BY <1>3 DEF Interrupt, WriteRaises, EvaluateRaises, OptimizeRaises, SimulateRaises, RegressionRaises,
       Raises
<1>4. CASE PreflightPasses \/ AppendRow \/ WriteRow \/ Communicated \/ ExactCheckPasses
  BY <1>4 DEF PreflightPasses, AppendRow, WriteRow, Communicated, ExactCheckPasses
<1>5. CASE Timeout
  BY <1>5 DEF Timeout
<1>6. CASE Kill
  BY <1>6 DEF Kill
<1>7. CASE LaunchWorker
  BY <1>7 DEF LaunchWorker, NextAttempts
<1>8. CASE RegressionEnds \/ NoRegression \/ WriteSummary \/ Exit
  BY <1>8 DEF RegressionEnds, NoRegression, WriteSummary, Exit
<1> QED
  BY <1>1, <1>2, <1>3, <1>4, <1>5, <1>6, <1>7, <1>8 DEF Next, RunnerStep, MakesRow, NoPreflight,
       NoExactCheck

LEMMA ControlKept ==
    ASSUME [Next]_vars, ~MakesRow, pc' \notin {"raised", "interrupted"}
    PROVE  /\ pc \notin {"raised", "interrupted"}
           /\ pc \in Waiting => pc' \in Waiting /\ attempt' = attempt
           /\ pc \in {"kill", "reap"} => pc' \in {"kill", "reap"}
<1> USE DEF Goes, book, processes, history, Waiting
<1>1. CASE UNCHANGED vars \/ WorkerStep
  BY <1>1 DEF vars, WorkerStep
<1>2. CASE Interrupt \/ WriteRaises \/ EvaluateRaises \/ OptimizeRaises \/ SimulateRaises \/ RegressionRaises
  BY <1>2 DEF Interrupt, WriteRaises, EvaluateRaises, OptimizeRaises, SimulateRaises, RegressionRaises,
       Raises
<1>3. CASE PreflightPasses \/ AppendRow \/ WriteRow \/ LaunchWorker \/ ExactCheckPasses
  BY <1>3 DEF PreflightPasses, AppendRow, WriteRow, LaunchWorker, ExactCheckPasses
<1>4. CASE Communicated \/ Timeout \/ Kill
  BY <1>4 DEF Communicated, Timeout, Kill
<1>5. CASE RegressionEnds \/ NoRegression \/ WriteSummary \/ Exit
  BY <1>5 DEF RegressionEnds, NoRegression, WriteSummary, Exit, Finished
<1> QED
  BY <1>1, <1>2, <1>3, <1>4, <1>5 DEF Next, RunnerStep, MakesRow, NoPreflight, NoExactCheck

-----------------------------------------------------------------------------
(***************************************************************************)
(* The cases that were given up.                                           *)
(***************************************************************************)
Left(c) == c \in 1..at /\ (c = at => todo = {} /\ pc \in {"append", "write"})

\* A case without a preflight, and a case of rq4 that failed its exact check, have
\* the row that says so and no other, and no worker of a case without a preflight
\* was started.
Lone ==
    /\ pc \in Waiting \cup {"method"} => InWorkers(setup)
    /\ \A a \in Attempts(setup) : worker[a] # "none" =>
          a.case \in 1..at /\ a.case \notin broken /\ (pc = "case" => a.case < at)
    /\ pc \notin {"raised", "interrupted"} =>
          /\ \A c \in broken : Left(c) /\ MadeRows(c) = {PreflightRow(c)}
          /\ setup.rq = "rq4" => \A a \in unequal :
                /\ Left(a.case) /\ a = [case |-> a.case, method |-> "mlirq", repeat |-> 1]
                /\ MadeRows(a.case) = {ExactCheckRow(a.case)}

\* A step that makes a row makes one of the running case.
LEMMA RowOfCase ==
    ASSUME Typed, Booked, MakesRow
    PROVE  /\ at \in 1..at /\ setup \in Setups /\ UNCHANGED <<setup, at, worker>>
           /\ pc \notin Ended \cup {"append", "write"} /\ pc' = "append"
           /\ \A c : c # at => MadeRows(c)' = MadeRows(c)
           /\ pc \in {"case", "optimize"} => MadeRows(at)' = {row'}
<1> USE DEF Goes, book, processes, history
<1>1. /\ row'.case = at /\ pc \notin Ended \cup {"append"} /\ pc' = "append" /\ UNCHANGED <<setup, at, rows>>
  BY RowIsNew
<1>2. Tried' = Tried \cup {row'}
  BY <1>1 DEF Tried
<1>3. pc # "write" /\ worker' = worker
  BY DEF MakesRow, NoPreflight, PreflightRejects, PreflightBreaks, SkipMethod, Reap, WorkerFailed,
       Evaluate, OptimizeAndEvaluate, NoExactCheck, ExactCheckUnavailable, ExactCheckFails, Simulate
<1>4. at \in Nat \ {0} /\ setup \in Setups
  BY DEF Typed, RunnerTypes
<1>5. pc \in {"case", "optimize"} => \A r \in Tried : r.case # at
  BY <1>1, <1>4 DEF Booked
<1> QED
  BY <1>1, <1>2, <1>3, <1>4, <1>5 DEF MadeRows

\* What it adds to the history of the cases that are given up.
LEMMA CaseGivenUp ==
    ASSUME Typed, Lone, MakesRow
    PROVE  /\ \/ broken' = broken
              \/ broken' = broken \cup {at} /\ pc = "case" /\ row' = PreflightRow(at) /\ todo' = {}
           /\ setup.rq = "rq4" =>
                 \/ unequal' = unequal
                 \/ /\ unequal' = unequal \cup {[case |-> at, method |-> "mlirq", repeat |-> 1]}
                    /\ pc = "optimize" /\ row' = ExactCheckRow(at) /\ todo' = {}
<1> USE DEF Goes, history
<1>1. CASE NoPreflight
  BY <1>1 DEF NoPreflight, PreflightRejects, PreflightBreaks, Typed, RunnerTypes
<1>2. CASE NoExactCheck
  BY <1>2 DEF NoExactCheck, ExactCheckUnavailable, ExactCheckFails
<1>3. CASE SkipMethod \/ Reap \/ WorkerFailed \/ Simulate
  BY <1>3 DEF SkipMethod, Reap, WorkerFailed, Simulate
<1>4. CASE Evaluate
  <2>1. InWorkers(setup)
    BY <1>4 DEF Evaluate, Lone, Waiting
  <2> QED
    BY <1>4, <2>1 DEF Evaluate, InWorkers
<1>5. CASE OptimizeAndEvaluate
  BY <1>5 DEF OptimizeAndEvaluate
<1> QED
  BY <1>1, <1>2, <1>3, <1>4, <1>5 DEF MakesRow

\* The steps that make no row go to the next case, or stay in theirs.
LEMMA CaseKept ==
    ASSUME [Next]_vars, ~MakesRow
    PROVE  \/ /\ at' = at /\ (pc' = "case" => pc = "case")
              /\ pc \in {"append", "write"} /\ todo = {} =>
                    todo' = {} /\ pc' \in {"append", "write", "raised", "interrupted"}
           \/ pc = "write" /\ todo = {} /\ at' = at + 1 /\ pc' = "case"
<1> USE DEF Goes, book, processes, history
<1>1. CASE UNCHANGED vars \/ WorkerStep
  BY <1>1 DEF vars, WorkerStep
<1>2. CASE \/ Interrupt \/ WriteRaises \/ EvaluateRaises \/ OptimizeRaises \/ SimulateRaises
           \/ RegressionRaises
  BY <1>2 DEF Interrupt, WriteRaises, EvaluateRaises, OptimizeRaises, SimulateRaises, RegressionRaises,
       Raises
<1>3. CASE PreflightPasses \/ AppendRow \/ WriteRow \/ LaunchWorker \/ ExactCheckPasses
  BY <1>3 DEF PreflightPasses, AppendRow, WriteRow, LaunchWorker, ExactCheckPasses
<1>4. CASE Communicated \/ Timeout \/ Kill
  BY <1>4 DEF Communicated, Timeout, Kill
<1>5. CASE RegressionEnds \/ NoRegression \/ WriteSummary \/ Exit
  BY <1>5 DEF RegressionEnds, NoRegression, WriteSummary, Exit, Finished
<1> QED
  BY <1>1, <1>2, <1>3, <1>4, <1>5 DEF Next, RunnerStep, MakesRow, NoPreflight, NoExactCheck

LEMMA LoneNext == Typed /\ Booked /\ Lone /\ [Next]_vars => Lone'
<1> SUFFICES ASSUME Typed, Booked, Lone, [Next]_vars PROVE Lone'
  OBVIOUS
<1>0. setup' = setup /\ at \in Nat \ {0}
  BY RowIsNew, TriedKept DEF Typed, RunnerTypes
<1>1. (pc \in Waiting \cup {"method"} => InWorkers(setup))'
  BY DEF Lone, vars, Next, RunnerStep, WorkerStep, PreflightPasses, PreflightRejects, PreflightBreaks,
         AppendRow, WriteRow, WriteRaises, SkipMethod, LaunchWorker, Communicated, Timeout, Kill, Reap,
         WorkerFailed, Evaluate, EvaluateRaises, OptimizeRaises, OptimizeAndEvaluate, ExactCheckPasses,
         ExactCheckUnavailable, ExactCheckFails, Simulate, SimulateRaises, RegressionEnds,
         RegressionRaises, NoRegression, WriteSummary, Exit, Interrupt, Raises, Goes, Waiting, InWorkers
<1>2. CASE MakesRow
  <2>1. /\ at \in 1..at /\ UNCHANGED <<setup, at, worker>> /\ pc' = "append"
        /\ pc \notin {"append", "write", "raised", "interrupted"}
        /\ \A c : c # at => MadeRows(c)' = MadeRows(c)
        /\ pc \in {"case", "optimize"} => MadeRows(at)' = {row'}
    BY <1>2, RowOfCase DEF Ended
  <2>2. /\ \/ broken' = broken
           \/ broken' = broken \cup {at} /\ pc = "case" /\ row' = PreflightRow(at) /\ todo' = {}
        /\ setup.rq = "rq4" =>
              \/ unequal' = unequal
              \/ /\ unequal' = unequal \cup {[case |-> at, method |-> "mlirq", repeat |-> 1]}
                 /\ pc = "optimize" /\ row' = ExactCheckRow(at) /\ todo' = {}
    BY <1>2, CaseGivenUp
  <2>3. \A c : Left(c) => c # at /\ Left(c)' /\ MadeRows(c)' = MadeRows(c)
    BY <2>1 DEF Left
  <2>4. todo' = {} => Left(at)'
    BY <2>1 DEF Left
  <2>5. \A c : PreflightRow(c)' = PreflightRow(c) /\ ExactCheckRow(c)' = ExactCheckRow(c)
    OBVIOUS
  <2>6. \A c \in broken' : Left(c)' /\ MadeRows(c)' = {PreflightRow(c)}
    BY <2>1, <2>2, <2>3, <2>4 DEF Lone
  <2>7. setup'.rq = "rq4" => \A a \in unequal' :
           /\ Left(a.case)' /\ a = [case |-> a.case, method |-> "mlirq", repeat |-> 1]
           /\ MadeRows(a.case)' = {ExactCheckRow(a.case)}
    <3>1. ASSUME setup.rq = "rq4", NEW a \in unequal
          PROVE  /\ Left(a.case)' /\ a = [case |-> a.case, method |-> "mlirq", repeat |-> 1]
                 /\ MadeRows(a.case)' = {ExactCheckRow(a.case)}
      <4>1. /\ Left(a.case) /\ a = [case |-> a.case, method |-> "mlirq", repeat |-> 1]
            /\ MadeRows(a.case) = {ExactCheckRow(a.case)}
        BY <2>1, <3>1 DEF Lone
      <4> QED
        BY <2>3, <4>1
    <3> QED
      BY <2>1, <2>2, <2>4, <3>1
  <2>8. \A a \in Attempts(setup)' : worker'[a] # "none" =>
           a.case \in 1..at' /\ a.case \notin broken' /\ (pc' = "case" => a.case < at')
    BY <2>1, <2>2 DEF Lone
  <2> QED
    BY <1>1, <2>1, <2>5, <2>6, <2>7, <2>8 DEF Lone
<1>3. CASE ~MakesRow
  <2>1. /\ unequal' = unequal /\ broken' = broken
        /\ \/ WorkerStep
           \/ UNCHANGED <<worker, files>>
           \/ KillGroup(attempt) /\ pc = "kill"
           \/ pc = "method" /\ attempt' \in todo /\ worker' = [worker EXCEPT ![attempt'] = "working"]
    BY <1>3, HistoryKept
  <2>2. \/ /\ at' = at /\ (pc' = "case" => pc = "case")
           /\ pc \in {"append", "write"} /\ todo = {} =>
                 todo' = {} /\ pc' \in {"append", "write", "raised", "interrupted"}
        \/ pc = "write" /\ todo = {} /\ at' = at + 1 /\ pc' = "case"
    BY <1>3, CaseKept
  <2>3. ASSUME NEW a \in Attempts(setup), worker'[a] # "none"
        PROVE  worker[a] # "none" \/ (pc = "method" /\ a \in todo)
    <3>1. CASE WorkerStep
      BY <2>3, <3>1, WorkerMoves
    <3>2. CASE KillGroup(attempt) /\ pc = "kill"
      BY <2>3, <3>2 DEF KillGroup, Waiting, Typed, ProcessTypes, RunnerTypes
    <3>3. CASE pc = "method" /\ attempt' \in todo /\ worker' = [worker EXCEPT ![attempt'] = "working"]
      BY <2>3, <3>3 DEF Typed, ProcessTypes
    <3> QED
      BY <2>1, <2>3, <3>1, <3>2, <3>3
  <2>4. ASSUME pc = "method", NEW a \in todo
        PROVE  a.case = at /\ at \notin broken
    <3>1. a.case = at
      BY <2>4, AttemptIsTyped DEF Typed, RunnerTypes, InCase
    <3> QED
      BY <2>4, <3>1 DEF Lone, Left
  <2>5. ASSUME NEW a \in Attempts(setup), worker'[a] # "none"
        PROVE  a.case \in 1..at' /\ a.case \notin broken' /\ (pc' = "case" => a.case < at')
    <3>1. CASE worker[a] # "none"
      <4>1. a.case \in 1..at /\ a.case \notin broken /\ (pc = "case" => a.case < at)
        BY <3>1 DEF Lone
      <4> QED
        BY <1>0, <2>1, <2>2, <4>1
    <3>2. CASE pc = "method" /\ a \in todo
      <4>1. a.case = at /\ at \notin broken
        BY <2>4, <3>2
      <4>2. at' = at /\ pc' # "case"
        BY <2>2, <3>2
      <4> QED
        BY <1>0, <2>1, <4>1, <4>2
    <3> QED
      BY <2>3, <2>5, <3>1, <3>2
  <2>6. CASE pc' \in {"raised", "interrupted"}
    BY <1>0, <1>1, <2>5, <2>6 DEF Lone
  <2>7. CASE pc' \notin {"raised", "interrupted"}
    <3>1. pc \notin {"raised", "interrupted"}
      BY <1>3, <2>7, ControlKept
    <3>2. \A c : Left(c) => Left(c)'
      BY <1>0, <2>2, <2>7 DEF Left
    <3>3. \A c \in Nat \ {0} : MadeRows(c)' = MadeRows(c)
      BY <1>3, <2>7, TriedKept, RegressionRowIsTyped DEF MadeRows
    <3>4. \A c : Left(c) => c \in Nat \ {0}
      BY <1>0 DEF Left
    <3>5. \A c \in broken' : Left(c)' /\ MadeRows(c)' = {PreflightRow(c)}
      BY <2>1, <3>1, <3>2, <3>3, <3>4 DEF Lone
    <3>6. setup'.rq = "rq4" => \A a \in unequal' :
             /\ Left(a.case)' /\ a = [case |-> a.case, method |-> "mlirq", repeat |-> 1]
             /\ MadeRows(a.case)' = {ExactCheckRow(a.case)}
      BY <1>0, <2>1, <3>1, <3>2, <3>3, <3>4 DEF Lone
    <3> QED
      BY <1>0, <1>1, <2>5, <3>5, <3>6 DEF Lone
  <2> QED
    BY <2>6, <2>7
<1> QED
  BY <1>2, <1>3

LEMMA LoneAlways == Spec => []Lone
<1>1. Init => Lone
  BY DEF Init, Lone, Waiting
<1> QED
  BY <1>1, LoneNext, BookedAlways, TypedAlways, PTL DEF Spec

-----------------------------------------------------------------------------
(***************************************************************************)
(* What a row stands for.                                                  *)
(***************************************************************************)
Settled(a) == \E r \in Tried : AttemptOf(r) = a /\ r.status \in {"failed", "timeout"}

\* What went wrong has its row, or is about to get it.
Accounted ==
    pc \notin {"raised", "interrupted"} =>
        /\ \A a \in unequal : Settled(a) \/ setup.rq = "rq4"
        /\ \A a \in expired : Settled(a) \/ (pc \in {"kill", "reap"} /\ a = attempt)
        /\ \A a \in Attempts(setup) :
              worker[a] \notin {"none", "exit 0"} => Settled(a) \/ Underway(a)

Whole(r) ==
    /\ r.counts =>
          /\ AttemptOf(r) \in Attempts(setup) \ expired
          /\ InWorkers(setup) => worker[AttemptOf(r)] = "exit 0" /\ files[AttemptOf(r)] = 2
    /\ r.status = "ok" => r.counts /\ AttemptOf(r) \notin unequal

Judged ==
    /\ \A r \in Tried : Whole(r)
    /\ \A a \in Attempts(setup) : worker[a] = "exit 0" => files[a] = 2
    /\ pc \in {"optimize", "simulate"} => ~InWorkers(setup)

\* A step that makes a row: what it adds to the history, and the row.
LEMMA RowJudged ==
    ASSUME Typed, Booked, Lone, Accounted, Judged, MakesRow
    PROVE  /\ UNCHANGED <<worker, files, native, expired>>
           /\ unequal \subseteq unequal' /\ unequal' \subseteq unequal \cup {AttemptOf(row')}
           /\ Whole(row)'
           /\ AttemptOf(row') \in unequal' => row'.status \in {"failed", "timeout"} \/ setup.rq = "rq4"
           /\ pc \in Waiting => AttemptOf(row') = attempt
           /\ pc \in Waiting /\ (attempt \in expired \/ worker[attempt] # "exit 0")
                 => row'.status \in {"failed", "timeout"}
<1> USE DEF Goes, book, processes, history
<1>1. /\ row' \in Rows /\ Fresh(AttemptOf(row')) /\ row'.case = at
      /\ pc \notin Ended \cup {"append"} /\ setup' = setup
  BY RowIsNew
<1>2. AttemptOf(row') \notin unequal
  <2>1. CASE setup.rq = "rq4"
    <3>1. ASSUME NEW a \in unequal PROVE AttemptOf(row') # a
      <4>1. /\ a.case \in 1..at /\ a = [case |-> a.case, method |-> "mlirq", repeat |-> 1]
            /\ MadeRows(a.case) = {ExactCheckRow(a.case)}
        BY <1>1, <2>1 DEF Lone, Left, Ended
      <4>2. ExactCheckRow(a.case) \in Tried
        BY <4>1 DEF MadeRows
      <4>3. a.case \in Nat
        BY <4>1 DEF Typed, RunnerTypes
      <4>4. AttemptOf(ExactCheckRow(a.case)) = a
        BY <4>1, <4>3, ExactCheckRowIsTyped
      <4> QED
        BY <1>1, <4>2, <4>4 DEF Fresh
    <3> QED
      BY <3>1
  <2>2. CASE setup.rq # "rq4"
    BY <1>1, <2>2 DEF Accounted, Settled, Fresh, Ended
  <2> QED
    BY <2>1, <2>2
<1>3. AttemptOf(row') \in expired => pc \in {"kill", "reap"} /\ AttemptOf(row') = attempt
  BY <1>1 DEF Accounted, Settled, Fresh, Ended
<1>4. at \in 1..setup.cases /\ setup \in Setups
  BY DEF MakesRow, NoPreflight, PreflightRejects, PreflightBreaks, SkipMethod, Reap, WorkerFailed,
       Evaluate, OptimizeAndEvaluate, NoExactCheck, ExactCheckUnavailable, ExactCheckFails, Simulate,
       Typed, RunnerTypes, InCase, Waiting
<1>6. CASE NoPreflight
  <2>1. row' = PreflightRow(at) /\ pc = "case" /\ UNCHANGED <<worker, files, native, expired, unequal>>
    BY <1>6 DEF NoPreflight, PreflightRejects, PreflightBreaks
  <2>2. ~row'.counts /\ row'.status # "ok"
    BY <2>1, <1>4, PreflightRowIsTyped
  <2> QED
    BY <1>2, <2>1, <2>2 DEF Whole, Waiting
<1>7. CASE SkipMethod
  <2>1. PICK a \in AttemptsOf(setup, at) : row' = NoCounts(Row(a, "ineligible"))
    BY <1>7 DEF SkipMethod, NextAttempts, Typed, RunnerTypes
  <2>2. pc = "method" /\ UNCHANGED <<worker, files, native, expired, unequal>>
    BY <1>7 DEF SkipMethod
  <2>3. ~row'.counts /\ row'.status # "ok"
    BY <2>1, <1>4, RowHasCounts
  <2> QED
    BY <1>2, <2>2, <2>3 DEF Whole, Waiting
<1>8. CASE Reap \/ WorkerFailed
  <2>1. /\ row' = Row(attempt, "timeout") \/ row' = NoCounts(Row(attempt, "failed"))
        /\ pc \in Waiting /\ UNCHANGED <<worker, files, native, expired, unequal>>
    BY <1>8 DEF Reap, WorkerFailed, Waiting
  <2>2. attempt \in AttemptsOf(setup, at)
    BY <2>1 DEF Typed, RunnerTypes
  <2>3. ~row'.counts /\ row'.status \in {"failed", "timeout"} /\ AttemptOf(row') = attempt
    BY <2>1, <2>2, <1>4, RowHasCounts
  <2> QED
    BY <1>2, <2>1, <2>3 DEF Whole
<1>9. CASE Evaluate
  <2>1. PICK status \in {"ok", "failed"} :
           /\ row' = Row(attempt, status)
           /\ unequal' = IF status = "failed" THEN unequal \cup {attempt} ELSE unequal
    BY <1>9 DEF Evaluate, Judge
  <2>2. pc = "read" /\ worker[attempt] = "exit 0" /\ UNCHANGED <<worker, files, native, expired>>
    BY <1>9 DEF Evaluate, Succeeded
  <2>3. attempt \in AttemptsOf(setup, at) /\ attempt \in Attempts(setup)
    BY <2>2 DEF Typed, RunnerTypes, Waiting
  <2>4. AttemptOf(row') = attempt /\ row'.status = status /\ row'.counts
    BY <2>1, <2>3, <1>4, RowHasCounts
  <2>5. attempt \notin expired /\ files[attempt] = 2
    BY <1>3, <2>2, <2>3, <2>4 DEF Judged
  <2>6. Whole(row)'
    BY <1>1, <1>2, <2>1, <2>2, <2>3, <2>4, <2>5 DEF Whole
  <2> QED
    BY <1>2, <2>1, <2>2, <2>4, <2>5, <2>6
<1>10. CASE OptimizeAndEvaluate
  <2>1. PICK a \in AttemptsOf(setup, at), status \in {"ok", "failed"} :
           /\ row' = Row(a, status)
           /\ unequal' = IF status = "failed" THEN unequal \cup {a} ELSE unequal
    BY <1>10 DEF OptimizeAndEvaluate, Judge, Typed, RunnerTypes
  <2>2. /\ pc = "optimize" /\ pc \notin Waiting /\ ~InWorkers(setup)
        /\ UNCHANGED <<worker, files, native, expired>>
    BY <1>10 DEF OptimizeAndEvaluate, Judged, Waiting
  <2>3. a \in Attempts(setup)
    BY <1>4, AttemptIsTyped
  <2>4. AttemptOf(row') = a /\ row'.status = status /\ row'.counts
    BY <2>1, <1>4, RowHasCounts
  <2>5. Whole(row)'
    BY <1>1, <1>2, <1>3, <2>1, <2>2, <2>3, <2>4 DEF Whole
  <2> QED
    BY <1>2, <2>1, <2>2, <2>4, <2>5
<1>11. CASE NoExactCheck
  <2>1. /\ pc = "optimize" /\ row' = ExactCheckRow(at) /\ setup.rq = "rq4"
        /\ UNCHANGED <<worker, files, native, expired>>
        /\ unequal' = unequal \/ unequal' = unequal \cup {[case |-> at, method |-> "mlirq", repeat |-> 1]}
    BY <1>11 DEF NoExactCheck, ExactCheckUnavailable, ExactCheckFails
  <2>2. /\ ~row'.counts /\ row'.status # "ok"
        /\ AttemptOf(row') = [case |-> at, method |-> "mlirq", repeat |-> 1]
    BY <2>1, <1>4, ExactCheckRowIsTyped
  <2> QED
    BY <2>1, <2>2 DEF Whole, Waiting
<1>12. CASE Simulate
  <2>1. PICK a \in AttemptsOf(setup, at) : row' = Row(a, "ok")
    BY <1>12 DEF Simulate, NextAttempts, Typed, RunnerTypes
  <2>2. /\ pc = "simulate" /\ pc \notin Waiting /\ ~InWorkers(setup)
        /\ UNCHANGED <<worker, files, native, expired, unequal>>
    BY <1>12 DEF Simulate, Judged, Waiting
  <2>3. a \in Attempts(setup)
    BY <1>4, AttemptIsTyped
  <2>4. AttemptOf(row') = a /\ row'.counts
    BY <2>1, <1>4, RowHasCounts
  <2>5. Whole(row)'
    BY <1>1, <1>2, <1>3, <2>2, <2>3, <2>4 DEF Whole
  <2> QED
    BY <1>2, <2>2, <2>4, <2>5
<1> QED
  BY <1>6, <1>7, <1>8, <1>9, <1>10, <1>11, <1>12 DEF MakesRow

LEMMA JudgedNext == Typed /\ Booked /\ Lone /\ Accounted /\ Judged /\ [Next]_vars => Judged'
<1> SUFFICES ASSUME Typed, Booked, Lone, Accounted, Judged, [Next]_vars PROVE Judged'
  OBVIOUS
<1>1. (pc \in {"optimize", "simulate"} => ~InWorkers(setup))'
  BY DEF Judged, vars, Next, RunnerStep, WorkerStep, PreflightPasses, NoPreflight, PreflightRejects,
       PreflightBreaks, AppendRow, WriteRow, SkipMethod, LaunchWorker, Communicated, Timeout, Kill,
       Reap, WorkerFailed, Evaluate, WriteRaises, EvaluateRaises, OptimizeRaises, OptimizeAndEvaluate,
       ExactCheckPasses, NoExactCheck, ExactCheckUnavailable, ExactCheckFails, Simulate, SimulateRaises,
       RegressionEnds, RegressionRaises, NoRegression, WriteSummary, Exit, Interrupt, Raises, Goes
<1>2. CASE MakesRow
  <2>1. /\ UNCHANGED <<worker, files, native, expired>>
        /\ unequal' \subseteq unequal \cup {AttemptOf(row')}
        /\ Whole(row)'
    BY <1>2, RowJudged
  <2>2. Tried' = Tried \cup {row'} /\ Fresh(AttemptOf(row')) /\ setup' = setup
    BY <1>2, RowIsNew, RowMade
  <2>3. \A r \in Tried : Whole(r)'
    BY <2>1, <2>2 DEF Judged, Whole, Fresh
  <2>4. \A a \in Attempts(setup) : worker'[a] = "exit 0" => files'[a] = 2
    BY <2>1 DEF Judged
  <2> QED
    BY <1>1, <2>1, <2>2, <2>3, <2>4 DEF Judged
<1>3. CASE ~MakesRow
  <2>1. /\ unequal' = unequal /\ setup' = setup
        /\ \/ expired' = expired
           \/ pc = "communicate" /\ expired' = expired \cup {attempt}
    BY <1>3, HistoryKept
  <2>2. pc = "communicate" => Fresh(attempt)
    BY DEF Booked, Waiting, Ended
  <2>3. /\ \A a \in Attempts(setup) : worker'[a] = "exit 0" => files'[a] = 2
        /\ \A r \in Tried : r.counts /\ InWorkers(setup) =>
               worker'[AttemptOf(r)] = "exit 0" /\ files'[AttemptOf(r)] = 2
    <3>1. CASE WorkerStep
      BY <3>1, WorkerMoves DEF Judged, Whole
    <3>2. CASE UNCHANGED <<worker, files>>
      BY <3>2 DEF Judged, Whole
    <3>3. CASE KillGroup(attempt) /\ files' = files
      BY <3>3 DEF KillGroup, Judged, Whole, Typed, ProcessTypes
    <3>4. CASE /\ pc = "method" /\ attempt' \in todo /\ files' = files
               /\ worker' = [worker EXCEPT ![attempt'] = "working"]
      <4>1. Fresh(attempt')
        BY <3>4 DEF Booked, Ended
      <4>2. \A r \in Tried : AttemptOf(r) # attempt'
        BY <4>1 DEF Fresh
      <4> QED
        BY <3>4, <4>2 DEF Judged, Whole, Typed, ProcessTypes
    <3> QED
      BY <1>3, <3>1, <3>2, <3>3, <3>4, HistoryKept
  <2>4. \A r \in Tried : Whole(r)'
    BY <2>1, <2>2, <2>3 DEF Judged, Whole, Fresh
  <2>5. Whole(RegressionRow)'
    BY RegressionRowIsTyped DEF Whole
  <2>6. \A r \in Tried' : Whole(r)'
    BY <1>3, <2>4, <2>5, TriedKept
  <2> QED
    BY <1>1, <2>1, <2>3, <2>6 DEF Judged
<1> QED
  BY <1>2, <1>3

LEMMA AccountedNext == Typed /\ Booked /\ Lone /\ Accounted /\ Judged /\ [Next]_vars => Accounted'
<1> SUFFICES ASSUME Typed, Booked, Lone, Accounted, Judged, [Next]_vars PROVE Accounted'
  OBVIOUS
<1>1. CASE MakesRow
  <2>1. /\ UNCHANGED <<worker, files, native, expired>>
        /\ unequal' \subseteq unequal \cup {AttemptOf(row')}
        /\ AttemptOf(row') \in unequal' => row'.status \in {"failed", "timeout"} \/ setup.rq = "rq4"
        /\ pc \in Waiting => AttemptOf(row') = attempt
        /\ pc \in Waiting /\ (attempt \in expired \/ worker[attempt] # "exit 0")
              => row'.status \in {"failed", "timeout"}
    BY <1>1, RowJudged
  <2>2. /\ Tried' = Tried \cup {row'} /\ setup' = setup
        /\ pc \notin {"raised", "interrupted"}
    BY <1>1, RowIsNew, RowMade DEF Ended
  <2>3. \A a : Settled(a) => Settled(a)'
    BY <2>2 DEF Settled
  <2>4. row'.status \in {"failed", "timeout"} => Settled(AttemptOf(row))'
    BY <2>2 DEF Settled
  <2>5. \A a \in unequal' : Settled(a)' \/ setup'.rq = "rq4"
    BY <2>1, <2>2, <2>3, <2>4 DEF Accounted
  <2>6. \A a \in expired' : Settled(a)'
    BY <2>1, <2>2, <2>3, <2>4 DEF Accounted, Waiting
  <2>7. \A a \in Attempts(setup)' : worker'[a] \notin {"none", "exit 0"} => Settled(a)'
    BY <2>1, <2>2, <2>3, <2>4 DEF Accounted, Underway
  <2> QED
    BY <2>5, <2>6, <2>7 DEF Accounted
<1>2. CASE ~MakesRow /\ pc' \notin {"raised", "interrupted"}
  <2>1. /\ unequal' = unequal /\ setup' = setup
        /\ \/ expired' = expired
           \/ pc = "communicate" /\ pc' = "kill" /\ attempt' = attempt /\ expired' = expired \cup {attempt}
    BY <1>2, HistoryKept
  <2>2. /\ pc \notin {"raised", "interrupted"}
        /\ pc \in Waiting => pc' \in Waiting /\ attempt' = attempt
        /\ pc \in {"kill", "reap"} => pc' \in {"kill", "reap"}
    BY <1>2, ControlKept
  <2>3. \A a : Settled(a) => Settled(a)'
    BY <1>2, TriedKept DEF Settled
  <2>4. \A a \in unequal' : Settled(a)' \/ setup'.rq = "rq4"
    BY <2>1, <2>2, <2>3 DEF Accounted
  <2>5. \A a \in expired' : Settled(a)' \/ (pc' \in {"kill", "reap"} /\ a = attempt')
    BY <2>1, <2>2, <2>3 DEF Accounted, Waiting
  <2>6. \A a : Underway(a) => Underway(a)'
    BY <2>2 DEF Underway
  <2>7. \A a \in Attempts(setup) :
           worker'[a] \notin {"none", "exit 0"} => Settled(a)' \/ Underway(a)'
    <3>1. CASE WorkerStep
      BY <2>2, <2>3, <2>6, <3>1, WorkerMoves DEF Accounted
    <3>2. CASE UNCHANGED <<worker, files>>
      BY <2>2, <2>3, <2>6, <3>2 DEF Accounted
    <3>3. CASE pc = "kill" /\ pc' = "reap" /\ attempt' = attempt /\ KillGroup(attempt)
      BY <2>2, <2>3, <2>6, <3>3 DEF KillGroup, Accounted, Underway, Waiting, Typed, ProcessTypes
    <3>4. CASE /\ pc = "method" /\ pc' = "communicate" /\ attempt' \in todo
               /\ worker' = [worker EXCEPT ![attempt'] = "working"]
      BY <2>2, <2>3, <2>6, <3>4 DEF Accounted, Underway, Waiting, Typed, ProcessTypes
    <3> QED
      BY <1>2, <3>1, <3>2, <3>3, <3>4, HistoryKept
  <2> QED
    BY <2>1, <2>4, <2>5, <2>7 DEF Accounted
<1>3. CASE pc' \in {"raised", "interrupted"}
  BY <1>3 DEF Accounted
<1> QED
  BY <1>1, <1>2, <1>3

LEMMA JudgedAlways == Spec => [](Accounted /\ Judged)
<1>1. Init => Accounted /\ Judged
  BY DEF Init, Accounted, Judged, Tried, ToSet
<1> QED
  BY <1>1, AccountedNext, JudgedNext, LoneAlways, BookedAlways, TypedAlways, PTL DEF Spec

-----------------------------------------------------------------------------
(***************************************************************************)
(* The summary and the exit code.                                          *)
(***************************************************************************)
Summed ==
    /\ summary # None => pc \in {"exit", "exit 0", "exit 1", "interrupted"} /\ summary.paired = Paired(rows)
    /\ pc \in {"exit", "exit 0", "exit 1"} => summary.rows = rows
    /\ pc = "exit 0" => Failures(rows) = {} /\ With({"ok"}, rows) # {}

LEMMA SummedNext == Summed /\ [Next]_vars => Summed'
<1> SUFFICES ASSUME Summed, [Next]_vars PROVE Summed'
  OBVIOUS
<1> USE DEF Summed, Goes, book, processes, history
<1>1. CASE UNCHANGED vars \/ WorkerStep
  BY <1>1 DEF vars, WorkerStep, Paired
<1>2. CASE WriteSummary
  BY <1>2 DEF WriteSummary, Paired
<1>3. CASE Exit
  BY <1>3 DEF Exit, Paired
<1>4. CASE Interrupt
  BY <1>4 DEF Interrupt, Running, Paired
<1>5. CASE ~(UNCHANGED vars \/ WorkerStep \/ WriteSummary \/ Exit \/ Interrupt)
  <2>1. summary' = summary /\ pc \notin {"exit", "exit 0", "exit 1", "interrupted"}
        /\ pc' \notin {"exit", "exit 0", "exit 1"}
    BY <1>5 DEF Next, RunnerStep, NoPreflight, NoExactCheck, PreflightPasses, PreflightRejects,
         PreflightBreaks, AppendRow, WriteRow, SkipMethod, LaunchWorker, Communicated, Timeout, Kill,
         Reap, WorkerFailed, Evaluate, WriteRaises, EvaluateRaises, OptimizeRaises, OptimizeAndEvaluate,
         ExactCheckPasses, NoExactCheck, ExactCheckUnavailable, ExactCheckFails, Simulate,
         SimulateRaises, RegressionEnds, RegressionRaises, NoRegression, Raises, Finished
  <2> QED
    BY <2>1
<1> QED
  BY <1>1, <1>2, <1>3, <1>4, <1>5

LEMMA SummedAlways == Spec => []Summed
<1>1. Init => Summed
  BY DEF Init, Summed
<1> QED
  BY <1>1, SummedNext, PTL DEF Spec

\* The pairs of a summary: two rows of one attempt are the same row, so that a
\* row is ok when its method has an ok row for the same case and repeat.
LEMMA PairsAreOk ==
    ASSUME Typed, Booked, NEW r \in Paired(rows)
    PROVE  /\ r.status = "ok"
           /\ \A m \in {s.method : s \in Compared(rows)} :
                 \E s \in Paired(rows) : s.method = m /\ Key(s) = Key(r)
<1>1. /\ r \in Compared(rows) /\ Key(r) \in Common(rows)
      /\ Paired(rows) = {s \in Compared(rows) : Key(s) \in Common(rows)}
  BY DEF Paired
<1>2. Compared(rows) \subseteq Tried
  BY DEF Compared, Tried
<1>3. \A t \in Compared(rows) : Key(r) \in OkKeys(rows, t.method)
  BY <1>1 DEF Common
<1>4. ASSUME NEW t \in Compared(rows)
      PROVE  \E s \in Paired(rows) : s.method = t.method /\ Key(s) = Key(r) /\ s.status = "ok"
  <2>1. PICK s \in Compared(rows) : s.method = t.method /\ s.status = "ok" /\ Key(s) = Key(r)
    BY <1>3 DEF OkKeys
  <2>2. s \in Paired(rows)
    BY <1>1, <2>1
  <2> QED
    BY <2>1, <2>2
<1>5. r.status = "ok"
  <2>1. PICK s \in Paired(rows) : s.method = r.method /\ Key(s) = Key(r) /\ s.status = "ok"
    BY <1>1, <1>4
  <2>2. s.case = r.case /\ s.repeat = r.repeat
    BY <2>1 DEF Key
  <2>3. AttemptOf(s) = AttemptOf(r)
    BY <2>1, <2>2 DEF AttemptOf
  <2>4. s = r
    BY <1>1, <1>2, <2>1, <2>3 DEF Booked
  <2> QED
    BY <2>1, <2>4
<1> QED
  BY <1>4, <1>5

\* No row has counts that a partial or a late result gave it, and the methods are
\* compared on ok rows, the same cases and repeats for each.
THEOREM OkRowsAlwaysWhole == Spec => []OkRowsAreWhole
<1>1. Typed /\ Booked /\ Judged /\ Summed => OkRowsAreWhole
  <2> SUFFICES ASSUME Typed, Booked, Judged, Summed, NEW r \in Recorded
               PROVE  /\ r.counts =>
                            /\ AttemptOf(r) \notin expired
                            /\ InWorkers(setup) =>
                                  worker[AttemptOf(r)] = "exit 0" /\ files[AttemptOf(r)] = 2
                      /\ r.status = "ok" => r.counts /\ AttemptOf(r) \notin unequal
                      /\ summary # None /\ r \in summary.paired =>
                            /\ r.status = "ok"
                            /\ \A m \in {s.method : s \in Compared(rows)} :
                                  \E s \in summary.paired : s.method = m /\ Key(s) = Key(r)
    BY DEF OkRowsAreWhole
  <2>1. Whole(r)
    BY DEF Recorded, Tried, Judged
  <2>2. summary # None => summary.paired = Paired(rows)
    BY DEF Summed
  <2>3. ASSUME summary # None, r \in summary.paired
        PROVE  /\ r.status = "ok"
               /\ \A m \in {s.method : s \in Compared(rows)} :
                     \E s \in summary.paired : s.method = m /\ Key(s) = Key(r)
    <3>1. summary.paired = Paired(rows) /\ r \in Paired(rows)
      BY <2>2, <2>3
    <3>2. /\ r.status = "ok"
          /\ \A m \in {s.method : s \in Compared(rows)} :
                \E s \in Paired(rows) : s.method = m /\ Key(s) = Key(r)
      BY <3>1, PairsAreOk
    <3> QED
      BY <3>1, <3>2
  <2>4. /\ r.counts =>
              /\ AttemptOf(r) \notin expired
              /\ InWorkers(setup) =>
                    worker[AttemptOf(r)] = "exit 0" /\ files[AttemptOf(r)] = 2
        /\ r.status = "ok" => r.counts /\ AttemptOf(r) \notin unequal
    BY <2>1 DEF Whole
  <2> QED
    BY <2>3, <2>4
<1> QED
  BY <1>1, TypedAlways, BookedAlways, JudgedAlways, SummedAlways, PTL

\* Exit code 0: some row is ok, no worker failed, nothing ran out of its budget,
\* and of a case of rq4 that changed its meaning, or of one whose preflight did
\* not end, nothing was measured.
THEOREM ExitCodeAlwaysTrue == Spec => []ExitCodeTrue
<1>1. Typed /\ Lone /\ Accounted /\ Summed => ExitCodeTrue
  <2> SUFFICES ASSUME Typed, Lone, Accounted, Summed, pc = "exit 0" PROVE ExitCodeTrue
    BY DEF ExitCodeTrue
  <2>1. Failures(rows) = {} /\ With({"ok"}, rows) # {}
    BY DEF Summed
  <2>2. \E r \in Recorded : r.status = "ok"
    BY <2>1 DEF With, Recorded, ToSet
  <2>3. \A r \in Tried : r.status \notin {"failed", "timeout"}
    BY <2>1 DEF Failures, With, Tried, ToSet
  <2>4. \A a : ~Settled(a) /\ ~Underway(a)
    BY <2>3 DEF Settled, Underway, Waiting
  <2>5. expired = {} /\ (setup.rq # "rq4" => unequal = {})
    BY <2>4 DEF Accounted
  <2>6. DOMAIN worker = Attempts(setup)
    BY DEF Typed, ProcessTypes
  <2>7. \A a \in DOMAIN worker : worker[a] \in {"none", "exit 0"}
    BY <2>4, <2>6 DEF Accounted
  <2>8. \A c : RowsOf(c) = MadeRows(c)
    BY DEF RowsOf, Recorded, MadeRows, Tried
  <2>9. \A a \in unequal : setup.rq = "rq4" /\ RowsOf(a.case) = {ExactCheckRow(a.case)}
    BY <2>5, <2>8 DEF Lone
  <2>10. \A c \in broken : RowsOf(c) = {PreflightRow(c)}
    BY <2>8 DEF Lone
  <2>11. \A a \in DOMAIN worker : a.case \in broken => worker[a] = "none"
    BY <2>6 DEF Lone
  <2> QED
    BY <2>2, <2>5, <2>7, <2>9, <2>10, <2>11 DEF ExitCodeTrue
<1> QED
  BY <1>1, TypedAlways, LoneAlways, JudgedAlways, SummedAlways, PTL

-----------------------------------------------------------------------------
(***************************************************************************)
(* records.jsonl, and the rows of each case.                               *)
(***************************************************************************)
LEMMA LastAppended ==
    ASSUME NEW S, NEW s \in Seq(S), NEW e \in S
    PROVE  /\ Append(s, e) \in Seq(S) /\ Append(s, e) # <<>> /\ Len(Append(s, e)) > 0
           /\ Last(Append(s, e)) = e /\ Front(Append(s, e)) = s
BY DEF Last, Front

\* No two rows are of one attempt, the row about to be appended included.
OneRowEach ==
    /\ \A i, j \in DOMAIN rows : AttemptOf(rows[i]) = AttemptOf(rows[j]) => i = j
    /\ pc = "append" => \A i \in DOMAIN rows : AttemptOf(rows[i]) # AttemptOf(row)

Kept ==
    /\ records \in Seq(Rows)
    /\ pc \notin Ended \cup {"write"} => rows = records
    /\ pc = "write" => rows = Append(records, row)
    /\ pc \in Ended =>
          \/ rows = records /\ \A r \in ToSet(rows) : r.case # 0
          \/ rows = Append(records, RegressionRow)
          \/ pc \in {"raised", "interrupted"} /\ summary = None /\ \E r \in Rows : rows = Append(records, r)

LEMMA OneRowEachNext == Typed /\ Booked /\ OneRowEach /\ [Next]_vars => OneRowEach'
<1> SUFFICES ASSUME Typed, Booked, OneRowEach, [Next]_vars PROVE OneRowEach'
  OBVIOUS
<1> USE DEF Goes, book, processes, history
<1>1. CASE MakesRow
  <2>1. Fresh(AttemptOf(row')) /\ rows' = rows
    BY <1>1, RowIsNew
  <2>2. \A i \in DOMAIN rows : rows[i] \in Tried
    BY DEF Tried, ToSet
  <2> QED
    BY <2>1, <2>2 DEF Fresh, OneRowEach
<1>2. ASSUME NEW e \in Rows, rows' = Append(rows, e), pc' # "append",
             \A i \in DOMAIN rows : AttemptOf(rows[i]) # AttemptOf(e)
      PROVE  OneRowEach'
  <2>1. rows \in Seq(Rows)
    BY DEF Typed, RunnerTypes
  <2>2. /\ DOMAIN rows' = DOMAIN rows \cup {Len(rows) + 1} /\ rows'[Len(rows) + 1] = e
        /\ \A i \in DOMAIN rows : rows'[i] = rows[i]
    BY <1>2, <2>1
  <2> QED
    BY <1>2, <2>2 DEF OneRowEach
<1>3. CASE AppendRow
  BY <1>2, <1>3 DEF AppendRow, OneRowEach, Typed, RunnerTypes
<1>4. CASE RegressionEnds
  <2>1. pc = "case" /\ pc' = "summary"
        /\ (rows' = rows \o <<>> \/ rows' = rows \o <<RegressionRow>>)
    BY <1>4 DEF RegressionEnds, Finished
  <2>2. rows \in Seq(Rows) /\ RegressionRow \in Rows /\ AttemptOf(RegressionRow).case = 0
    BY RegressionRowIsTyped DEF Typed, RunnerTypes, AttemptOf
  <2>3. rows' = rows \/ rows' = Append(rows, RegressionRow)
    BY <2>1, <2>2
  <2>4. \A r \in Tried : r.case # 0
    BY <2>1 DEF Booked, Ended, Typed, RunnerTypes
  <2>5. \A r \in Tried : AttemptOf(r).case = r.case
    BY TriedRows
  <2>6. \A i \in DOMAIN rows : rows[i] \in Tried
    BY DEF Tried, ToSet
  <2>7. \A i \in DOMAIN rows : AttemptOf(rows[i]) # AttemptOf(RegressionRow)
    BY <2>2, <2>4, <2>5, <2>6
  <2>8. CASE rows' = rows
    BY <2>1, <2>8 DEF OneRowEach
  <2> QED
    BY <1>2, <2>1, <2>2, <2>3, <2>7, <2>8
<1>5. CASE ~MakesRow /\ ~AppendRow /\ ~RegressionEnds
  <2>1. rows' = rows /\ (pc' = "append" => pc = "append" /\ row' = row)
    BY <1>5 DEF MakesRow, NoPreflight, NoExactCheck, vars, Next, RunnerStep, WorkerStep,
         PreflightPasses, WriteRow, LaunchWorker, Communicated, Timeout, Kill, WriteRaises,
         EvaluateRaises, OptimizeRaises, ExactCheckPasses, SimulateRaises, RegressionRaises,
         NoRegression, WriteSummary, Exit, Interrupt, Raises
  <2> QED
    BY <2>1 DEF OneRowEach
<1> QED
  BY <1>1, <1>3, <1>4, <1>5

LEMMA KeptNext == Typed /\ Booked /\ Summed /\ Kept /\ [Next]_vars => Kept'
<1> SUFFICES ASSUME Typed, Booked, Summed, Kept, [Next]_vars PROVE Kept'
  OBVIOUS
<1> USE DEF Goes, book, processes, history
<1>1. CASE MakesRow
  <2>1. pc \notin Ended \cup {"append"} /\ pc' = "append" /\ rows' = rows
    BY <1>1, RowIsNew
  <2>2. records' = records /\ pc # "write"
    BY <1>1 DEF MakesRow, NoPreflight, PreflightRejects, PreflightBreaks, SkipMethod, Reap,
         WorkerFailed, Evaluate, OptimizeAndEvaluate, NoExactCheck, ExactCheckUnavailable,
         ExactCheckFails, Simulate
  <2> QED
    BY <2>1, <2>2 DEF Kept, Ended
<1>2. CASE UNCHANGED <<pc, rows, records, row, summary>>
  BY <1>2 DEF Kept
<1>3. CASE UNCHANGED vars \/ WorkerStep
  BY <1>2, <1>3 DEF vars, WorkerStep
<1>4. CASE AppendRow
  BY <1>4 DEF AppendRow, Kept, Ended
<1>5. CASE WriteRow
  <2>1. records' = Append(records, row) /\ rows' = rows /\ pc = "write" /\ row \in Rows
        /\ pc' \in {"case", "method", "simulate"}
    BY <1>5 DEF WriteRow, Typed, RunnerTypes
  <2>2. records \in Seq(Rows) /\ rows = Append(records, row)
    BY <2>1 DEF Kept
  <2>3. records' \in Seq(Rows) /\ rows' = records'
    BY <2>1, <2>2
  <2> QED
    BY <2>1, <2>3 DEF Kept, Ended
<1>6. \A r \in Tried : pc \notin Ended => r.case # 0
  BY DEF Booked, Typed, RunnerTypes
<1>7. CASE RegressionEnds
  <2>1. /\ pc = "case" /\ pc' = "summary" /\ records' = records
        /\ (rows' = rows \o <<>> \/ rows' = rows \o <<RegressionRow>>)
    BY <1>7 DEF RegressionEnds, Finished
  <2>2. rows \in Seq(Rows) /\ RegressionRow \in Rows
    BY RegressionRowIsTyped DEF Typed, RunnerTypes
  <2>3. rows' = rows \/ rows' = Append(rows, RegressionRow)
    BY <2>1, <2>2
  <2> QED
    BY <1>6, <2>1, <2>3 DEF Kept, Ended, Tried
<1>8. CASE EvaluateRaises \/ OptimizeRaises \/ SimulateRaises \/ RegressionRaises \/ NoRegression
  <2>1. /\ pc \notin Ended \cup {"write"} /\ pc' \in {"raised", "summary"} /\ UNCHANGED <<rows, records>>
    BY <1>8 DEF EvaluateRaises, OptimizeRaises, SimulateRaises, RegressionRaises, NoRegression, Raises,
                Finished, Ended
  <2> QED
    BY <1>6, <2>1 DEF Kept, Ended, Tried
<1>9. CASE WriteSummary \/ Exit
  <2>1. /\ pc \in {"summary", "exit"} /\ pc' \in {"exit", "exit 0", "exit 1"}
        /\ UNCHANGED <<rows, records>>
    BY <1>9 DEF WriteSummary, Exit
  <2> QED
    BY <2>1 DEF Kept, Ended
<1>10. CASE Interrupt \/ WriteRaises
  <2>1. /\ UNCHANGED <<rows, records, row, summary>> /\ pc \notin {"raised", "interrupted"}
        /\ pc' = "interrupted" \/ (pc' = "raised" /\ pc = "write")
    BY <1>10 DEF Interrupt, Running, WriteRaises, Raises
  <2>2. CASE pc = "write"
    <3>1. rows = Append(records, row) /\ row \in Rows /\ summary = None
      BY <2>2 DEF Kept, Typed, RunnerTypes, Summed
    <3> QED
      BY <2>1, <3>1 DEF Kept, Ended
  <2>3. CASE pc # "write" /\ pc \notin Ended
    BY <1>6, <2>1, <2>3 DEF Kept, Ended, Tried
  <2>4. CASE pc \in Ended
    BY <2>1, <2>4 DEF Kept, Ended
  <2> QED
    BY <2>2, <2>3, <2>4
<1>11. CASE PreflightPasses \/ LaunchWorker \/ Communicated \/ Timeout \/ Kill \/ ExactCheckPasses
  <2>1. /\ pc \notin Ended \cup {"write"} /\ pc' \notin Ended \cup {"write"}
        /\ UNCHANGED <<rows, records>>
    BY <1>11 DEF PreflightPasses, LaunchWorker, Communicated, Timeout, Kill, ExactCheckPasses, Ended
  <2> QED
    BY <2>1 DEF Kept
<1> QED
  BY <1>1, <1>3, <1>4, <1>5, <1>7, <1>8, <1>9, <1>10, <1>11 DEF Next, RunnerStep, MakesRow, NoPreflight,
       NoExactCheck

LEMMA KeptAlways == Spec => [](OneRowEach /\ Kept)
<1>1. Init => OneRowEach /\ Kept
  BY DEF Init, OneRowEach, Kept, Ended
<1>2. Typed /\ Booked /\ Summed /\ OneRowEach /\ Kept /\ [Next]_vars => (OneRowEach /\ Kept)'
  BY OneRowEachNext, KeptNext
<1> QED
  BY <1>1, <1>2, TypedAlways, BookedAlways, SummedAlways, PTL DEF Spec

HaveRows(c) == {AttemptOf(r) : r \in MadeRows(c)}

CaseDone(c) ==
    \/ MadeRows(c) = {PreflightRow(c)}
    \/ ~InWorkers(setup) /\ \E r : MadeRows(c) = {r} /\ r.status = "ineligible"
    \/ HaveRows(c) = AttemptsOf(setup, c)

\* Nothing of the running case is lost: an attempt has its row, is under way, or
\* is still to be begun.
NoneLost == HaveRows(at) \cup todo \cup {a \in {attempt} : pc \in Waiting} = AttemptsOf(setup, at)

Covered ==
    /\ pc \notin Ended => \A c \in 1..(at - 1) : CaseDone(c)
    /\ pc \in Waiting \cup {"method", "simulate", "optimize"} => NoneLost
    /\ pc \in {"append", "write"} => NoneLost \/ (todo = {} /\ CaseDone(at))
    /\ pc \in {"summary", "exit", "exit 0", "exit 1"} \/ summary # None =>
          \A c \in 1..setup.cases : CaseDone(c)

\* A case whose rows stay as they are stays done.
LEMMA DoneStays ==
    ASSUME setup' = setup, NEW c, MadeRows(c)' = MadeRows(c)
    PROVE  HaveRows(c)' = HaveRows(c) /\ (CaseDone(c) => CaseDone(c)')
BY DEF HaveRows, CaseDone, InWorkers, AttemptsOf

\* The steps that make a row, but the two that give up the whole case.
LEMMA NoneLostByARow ==
    ASSUME Typed, Booked, Covered, MakesRow, ~NoPreflight, ~NoExactCheck
    PROVE  NoneLost'
<1> USE DEF Goes, book, processes, history
<1>1. /\ row' \in Rows /\ row'.case = at /\ pc \notin Ended \cup {"append"} /\ pc' = "append"
      /\ setup' = setup /\ at' = at /\ rows' = rows
  BY RowIsNew
<1>2. Tried' = Tried \cup {row'}
  BY <1>1 DEF Tried
<1>3. HaveRows(at)' = HaveRows(at) \cup {AttemptOf(row')}
  BY <1>1, <1>2 DEF HaveRows, MadeRows
<1>4. setup \in Setups /\ todo \subseteq AttemptsOf(setup, at)
  BY DEF Typed, RunnerTypes
<1>5. pc \in {"method", "reap", "read", "optimize", "simulate"} /\ at \in 1..setup.cases
  BY DEF MakesRow, SkipMethod, Reap, WorkerFailed, Evaluate, OptimizeAndEvaluate, Simulate,
         Typed, RunnerTypes, InCase, Waiting
<1>6. NoneLost
  BY <1>5 DEF Covered, Waiting
<1>7. AttemptsOf(setup, at)' = AttemptsOf(setup, at)
  BY <1>1 DEF AttemptsOf, InWorkers
<1>8. ASSUME NEW a \in todo, pc \notin Waiting, todo' = todo \ {a}, AttemptOf(row') = a PROVE NoneLost'
  BY <1>1, <1>3, <1>6, <1>7, <1>8 DEF NoneLost, Waiting
<1>9. ASSUME pc \in Waiting, todo' = todo, AttemptOf(row') = attempt PROVE NoneLost'
  BY <1>1, <1>3, <1>6, <1>7, <1>9 DEF NoneLost, Waiting
<1>10. \A a \in AttemptsOf(setup, at) : \A status \in Statuses :
          AttemptOf(Row(a, status)) = a /\ AttemptOf(NoCounts(Row(a, status))) = a
  BY <1>4, <1>5, RowIsTyped
<1>11. {"ok", "failed", "timeout", "ineligible"} = Statuses
  BY DEF Statuses
<1>12. CASE SkipMethod
  BY <1>4, <1>8, <1>10, <1>11, <1>12 DEF SkipMethod, NextAttempts, Waiting
<1>13. CASE Simulate
  BY <1>4, <1>8, <1>10, <1>11, <1>13 DEF Simulate, NextAttempts, Waiting
<1>14. CASE OptimizeAndEvaluate
  BY <1>4, <1>8, <1>10, <1>11, <1>14 DEF OptimizeAndEvaluate, Judge, Waiting
<1>15. pc \in Waiting => attempt \in AttemptsOf(setup, at)
  BY DEF Typed, RunnerTypes
<1>16. CASE Reap \/ WorkerFailed
  BY <1>9, <1>10, <1>11, <1>15, <1>16 DEF Reap, WorkerFailed, Waiting
<1>17. CASE Evaluate
  BY <1>9, <1>10, <1>11, <1>15, <1>17 DEF Evaluate, Judge, Waiting
<1> QED
  BY <1>12, <1>13, <1>14, <1>16, <1>17 DEF MakesRow

\* The two that do: the one row of a case that had none.
LEMMA GivenUp ==
    ASSUME Typed, Booked, NoPreflight \/ NoExactCheck
    PROVE  todo' = {} /\ CaseDone(at)'
<1> USE DEF Goes, book, processes, history
<1>1. /\ row' \in Rows /\ row'.case = at /\ pc \notin Ended \cup {"append"} /\ pc' = "append"
      /\ setup' = setup /\ at' = at /\ rows' = rows
  BY RowIsNew DEF MakesRow
<1>2. Tried' = Tried \cup {row'}
  BY <1>1 DEF Tried
<1>3. pc \in {"case", "optimize"}
  BY DEF NoPreflight, PreflightRejects, PreflightBreaks, NoExactCheck, ExactCheckUnavailable,
       ExactCheckFails, ExactCheckRow
<1>4. \A r \in Tried : r.case # at
  BY <1>1, <1>3 DEF Booked, Typed, RunnerTypes
<1>5. MadeRows(at)' = {row'}
  BY <1>1, <1>2, <1>4 DEF MadeRows
<1>6. CASE NoPreflight
  <2>1. row' = PreflightRow(at) /\ todo' = todo /\ pc = "case"
    BY <1>6 DEF NoPreflight, PreflightRejects, PreflightBreaks
  <2>2. todo = {}
    BY <2>1 DEF Typed, RunnerTypes
  <2>3. PreflightRow(at)' = PreflightRow(at)
    BY <1>1 DEF PreflightRow, Row, NoCounts
  <2> QED
    BY <1>1, <1>5, <2>1, <2>2, <2>3 DEF CaseDone
<1>7. CASE NoExactCheck
  <2>1. /\ row' = NoCounts(Row([case |-> at, method |-> "mlirq", repeat |-> 1], "ineligible"))
        /\ todo' = {} /\ setup.rq = "rq4" /\ pc = "optimize"
    BY <1>7 DEF NoExactCheck, ExactCheckUnavailable, ExactCheckFails, ExactCheckRow
  <2>2. at \in Nat /\ "mlirq" \in Methods /\ "ineligible" \in Statuses /\ 1 \in Nat
    BY DEF Typed, RunnerTypes, Methods, Statuses
  <2>3. row'.status = "ineligible"
    BY <2>1, <2>2, RecordOfRow
  <2>4. ~InWorkers(setup)'
    BY <1>1, <2>1 DEF InWorkers
  <2> QED
    BY <1>5, <2>1, <2>3, <2>4 DEF CaseDone
<1> QED
  BY <1>6, <1>7

LEMMA CoveredNext == Typed /\ Booked /\ Summed /\ Covered /\ [Next]_vars => Covered'
<1> SUFFICES ASSUME Typed, Booked, Summed, Covered, [Next]_vars PROVE Covered'
  OBVIOUS
<1> USE DEF Goes, book, processes, history
<1>0. setup \in Setups /\ at \in Nat \ {0} /\ setup.cases \in Nat
  BY DEF Typed, RunnerTypes
<1>1. CASE MakesRow
  <2>1. /\ row'.case = at /\ pc \notin Ended \cup {"append"} /\ pc' = "append"
        /\ setup' = setup /\ at' = at /\ rows' = rows
    BY <1>1, RowIsNew
  <2>2. Tried' = Tried \cup {row'}
    BY <2>1 DEF Tried
  <2>3. \A c \in 1..(at - 1) : MadeRows(c)' = MadeRows(c)
    BY <1>0, <2>1, <2>2 DEF MadeRows
  <2>4. \A c \in 1..(at' - 1) : CaseDone(c)'
    BY <2>1, <2>3, DoneStays DEF Covered
  <2>5. NoneLost' \/ (todo' = {} /\ CaseDone(at)')
    BY <1>1, NoneLostByARow, GivenUp
  <2>6. summary' = None
    <3>1. summary' = summary
      BY <1>1 DEF MakesRow, NoPreflight, PreflightRejects, PreflightBreaks, SkipMethod, Reap,
           WorkerFailed, Evaluate, OptimizeAndEvaluate, NoExactCheck, ExactCheckUnavailable,
           ExactCheckFails, Simulate
    <3> QED
      BY <2>1, <3>1 DEF Summed, Ended
  <2> QED
    BY <2>1, <2>4, <2>5, <2>6 DEF Covered, Waiting, Ended
<1> SUFFICES ASSUME ~MakesRow PROVE Covered'
  BY <1>1
<1>2. CASE pc' = "raised"
  <2>1. summary' = None
    BY <1>2 DEF Summed, Next, RunnerStep, MakesRow, NoPreflight, NoExactCheck, WorkerStep,
         PreflightPasses, AppendRow, WriteRow, LaunchWorker, Communicated, Timeout, Kill, WriteRaises,
         EvaluateRaises, OptimizeRaises, ExactCheckPasses, SimulateRaises, RegressionEnds,
         RegressionRaises, NoRegression, WriteSummary, Exit, Interrupt, Raises, vars, Finished
  <2> QED
    BY <1>2, <2>1 DEF Covered, Ended, Waiting
<1>3. CASE Interrupt
  <2>1. pc' = "interrupted" /\ UNCHANGED <<setup, at, todo, attempt, row, rows, summary>>
    BY <1>3 DEF Interrupt
  <2>2. ASSUME summary # None, NEW c \in 1..setup.cases PROVE CaseDone(c)'
    <3>1. Tried' = Tried
      BY <2>1, <2>2 DEF Summed, Tried
    <3> QED
      BY <2>1, <2>2, <3>1, DoneStays DEF Covered, MadeRows
  <2> QED
    BY <2>1, <2>2 DEF Covered, Ended, Waiting
<1> SUFFICES ASSUME pc' # "raised", ~Interrupt PROVE Covered'
  BY <1>2, <1>3
<1>4. /\ setup' = setup
      /\ \A c \in Nat \ {0} : MadeRows(c)' = MadeRows(c)
  <2>1. setup' = setup /\ (Tried' = Tried \/ Tried' = Tried \cup {RegressionRow})
    <3>1. pc' = "interrupted" => UNCHANGED vars \/ WorkerStep
      BY DEF Next, RunnerStep, MakesRow, NoPreflight, NoExactCheck, PreflightPasses, AppendRow,
           WriteRow, LaunchWorker, Communicated, Timeout, Kill, WriteRaises, EvaluateRaises,
           OptimizeRaises, ExactCheckPasses, SimulateRaises, RegressionEnds, RegressionRaises,
           NoRegression, WriteSummary, Exit, Raises
    <3>2. UNCHANGED vars \/ WorkerStep => Tried' = Tried
      BY DEF vars, WorkerStep, Tried
    <3> QED
      BY <3>1, <3>2, TriedKept
  <2> QED
    BY <2>1, RegressionRowIsTyped DEF MadeRows
<1>5. \A c \in Nat \ {0} : CaseDone(c) => CaseDone(c)'
  BY <1>4, DoneStays
<1>6. ASSUME at' = at
      PROVE  HaveRows(at)' = HaveRows(at) /\ AttemptsOf(setup, at)' = AttemptsOf(setup, at)
  BY <1>0, <1>4, <1>6 DEF HaveRows, MadeRows, AttemptsOf, InWorkers
<1>7. ASSUME UNCHANGED <<at, todo, attempt>>, (pc' \in Waiting) = (pc \in Waiting), NoneLost
      PROVE  NoneLost'
  BY <1>6, <1>7 DEF NoneLost
<1>8. ASSUME UNCHANGED <<at, todo, summary, pc>>, attempt' = attempt
      PROVE  Covered'
  <2>1. CaseDone(at) => CaseDone(at)'
    BY <1>0, <1>5, <1>8
  <2>2. NoneLost => NoneLost'
    BY <1>7, <1>8
  <2>3. \A c \in 1..(at - 1) : CaseDone(c) => CaseDone(c)'
    BY <1>0, <1>5
  <2>4. \A c \in 1..setup.cases : CaseDone(c) => CaseDone(c)'
    BY <1>0, <1>5
  <2> QED
    BY <1>4, <1>8, <2>1, <2>2, <2>3, <2>4 DEF Covered
<1>9. CASE UNCHANGED vars \/ WorkerStep
  BY <1>8, <1>9 DEF vars, WorkerStep
\* Within a case.
<1>10. ASSUME at' = at, pc \notin Ended, pc' \notin Ended, summary' = summary,
              pc' \in Waiting \cup {"method", "simulate", "optimize"} => NoneLost',
              pc' \in {"append", "write"} => NoneLost' \/ (todo' = {} /\ CaseDone(at)')
       PROVE  Covered'
  <2>1. \A c \in 1..(at - 1) : CaseDone(c)'
    <3>1. \A c \in 1..(at - 1) : CaseDone(c)
      BY <1>10 DEF Covered
    <3> QED
      BY <1>0, <1>5, <3>1
  <2>2. summary' = None
    BY <1>10 DEF Summed, Ended
  <2> QED
    BY <1>10, <2>1, <2>2 DEF Covered, Ended
<1>11. CASE PreflightPasses
  <2>1. /\ UNCHANGED <<at, summary>> /\ pc = "case" /\ pc' \in {"method", "optimize"}
        /\ todo' = AttemptsOf(setup, at)
    BY <1>11 DEF PreflightPasses
  <2>2. HaveRows(at) = {}
    BY <2>1 DEF HaveRows, MadeRows, Booked, Ended, Typed, RunnerTypes
  <2>3. NoneLost'
    BY <1>6, <2>1, <2>2 DEF NoneLost, Waiting
  <2> QED
    BY <1>10, <2>1, <2>3 DEF Ended, Waiting
<1>12. CASE LaunchWorker
  <2>1. PICK a \in todo : attempt' = a /\ todo' = todo \ {a}
    BY <1>12 DEF LaunchWorker, NextAttempts
  <2>2. UNCHANGED <<at, summary>> /\ pc = "method" /\ pc' = "communicate"
    BY <1>12 DEF LaunchWorker
  <2>3. NoneLost'
    BY <1>6, <2>1, <2>2 DEF NoneLost, Covered, Waiting
  <2> QED
    BY <1>10, <2>2, <2>3 DEF Ended, Waiting
<1>13. CASE AppendRow
  <2>1. UNCHANGED <<at, todo, attempt, summary>> /\ pc = "append" /\ pc' = "write"
    BY <1>13 DEF AppendRow
  <2>2. NoneLost => NoneLost'
    BY <1>7, <2>1 DEF Waiting
  <2>3. CaseDone(at) => CaseDone(at)'
    BY <1>0, <1>5, <2>1
  <2> QED
    BY <1>10, <2>1, <2>2, <2>3 DEF Covered, Ended, Waiting
<1>14. CASE Communicated \/ Timeout \/ Kill
  <2>1. UNCHANGED <<at, todo, attempt, summary>> /\ pc \in Waiting /\ pc' \in Waiting
    BY <1>14 DEF Communicated, Timeout, Kill, Waiting
  <2>2. NoneLost'
    BY <1>7, <2>1 DEF Covered
  <2> QED
    BY <1>10, <2>1, <2>2 DEF Ended, Waiting
<1>15. CASE ExactCheckPasses
  <2>1. UNCHANGED <<at, todo, attempt, summary>> /\ pc = "optimize" /\ pc' = "simulate"
    BY <1>15 DEF ExactCheckPasses
  <2>2. NoneLost'
    BY <1>7, <2>1 DEF Covered, Waiting
  <2> QED
    BY <1>10, <2>1, <2>2 DEF Ended, Waiting
<1>16. CASE WriteRow
  <2>1. /\ pc = "write" /\ UNCHANGED <<todo, summary>>
        /\ IF todo = {} THEN pc' = "case" /\ at' = at + 1
           ELSE pc' \in {"method", "simulate"} /\ at' = at
    BY <1>16 DEF WriteRow
  <2>2. CASE todo = {}
    <3>1. CaseDone(at)
      BY <2>1, <2>2 DEF Covered, NoneLost, CaseDone, Waiting
    <3>2. \A c \in 1..(at - 1) : CaseDone(c)
      BY <2>1 DEF Covered, Ended
    <3>3. \A c \in 1..at : CaseDone(c)'
      BY <1>0, <1>5, <3>1, <3>2
    <3>4. pc' = "case" /\ at' - 1 = at /\ summary' = None
      BY <1>0, <2>1, <2>2 DEF Summed
    <3> QED
      BY <3>3, <3>4 DEF Covered, Waiting
  <2>3. CASE todo # {}
    <3>1. NoneLost'
      BY <1>6, <2>1, <2>3 DEF Covered, NoneLost, Waiting
    <3> QED
      BY <1>10, <2>1, <2>3, <3>1 DEF Ended, Waiting
  <2> QED
    BY <2>2, <2>3
\* The end.
<1>17. CASE RegressionEnds \/ NoRegression
  <2>1. pc = "case" /\ at > setup.cases /\ pc' = "summary"
    BY <1>17 DEF RegressionEnds, NoRegression, Finished
  <2>2. \A c \in 1..setup.cases : CaseDone(c)
    BY <1>0, <2>1 DEF Covered, Ended
  <2>3. \A c \in 1..setup.cases : CaseDone(c)'
    BY <1>0, <1>5, <2>2
  <2> QED
    BY <1>4, <2>1, <2>3 DEF Covered, Ended, Waiting
<1>18. CASE WriteSummary \/ Exit
  <2>1. pc \in {"summary", "exit"} /\ pc' \in {"exit", "exit 0", "exit 1"}
    BY <1>18 DEF WriteSummary, Exit
  <2>2. \A c \in 1..setup.cases : CaseDone(c)
    BY <2>1 DEF Covered
  <2>3. \A c \in 1..setup.cases : CaseDone(c)'
    BY <1>0, <1>5, <2>2
  <2> QED
    BY <1>4, <2>1, <2>3 DEF Covered, Ended, Waiting
<1>19. CASE WriteRaises \/ EvaluateRaises \/ OptimizeRaises \/ SimulateRaises \/ RegressionRaises
  BY <1>19 DEF WriteRaises, EvaluateRaises, OptimizeRaises, SimulateRaises, RegressionRaises, Raises
<1> QED
  BY <1>9, <1>11, <1>12, <1>13, <1>14, <1>15, <1>16, <1>17, <1>18, <1>19 DEF Next, RunnerStep, MakesRow,
       NoPreflight, NoExactCheck

LEMMA CoveredAlways == Spec => []Covered
<1>1. Init => Covered
  BY DEF Init, Covered, Waiting
<1> QED
  BY <1>1, CoveredNext, TypedAlways, BookedAlways, SummedAlways, PTL DEF Spec

LEMMA FileOfRows ==
    ASSUME Typed, Booked, Kept
    PROVE  \/ records = InRecords(rows)
           \/ pc \in {"write", "raised", "interrupted"} /\ Len(rows) > 0 /\ records = Front(rows)
<1>1. records \in Seq(Rows) /\ rows \in Seq(Rows)
  BY DEF Kept, Typed, RunnerTypes
<1>2. \A r \in Rows : /\ Append(records, r) # <<>> /\ Len(Append(records, r)) > 0
                      /\ Last(Append(records, r)) = r /\ Front(Append(records, r)) = records
  BY <1>1, LastAppended
<1>3. RegressionRow \in Rows /\ RegressionRow.case = 0
  BY RegressionRowIsTyped
<1>4. ASSUME rows = records, \A r \in ToSet(rows) : r.case # 0
      PROVE  records = InRecords(rows)
  <2>1. rows # <<>> => Last(rows) \in ToSet(rows)
    BY <1>1 DEF Last, ToSet
  <2> QED
    BY <1>3, <1>4, <2>1 DEF InRecords
<1>5. CASE pc \notin Ended \cup {"write"}
  <2>1. \A r \in ToSet(rows) : r.case # 0
    BY <1>5 DEF Booked, Tried, Typed, RunnerTypes
  <2> QED
    BY <1>4, <1>5, <2>1 DEF Kept
<1>6. CASE pc = "write"
  <2>1. row \in Rows /\ rows = Append(records, row)
    BY <1>6 DEF Kept, Typed, RunnerTypes
  <2> QED
    BY <1>2, <1>6, <2>1
<1>7. CASE pc \in Ended
  <2>1. CASE rows = Append(records, RegressionRow)
    <3>1. InRecords(rows) = records
      BY <1>2, <1>3, <2>1 DEF InRecords
    <3> QED
      BY <3>1
  <2>2. CASE pc \in {"raised", "interrupted"} /\ \E r \in Rows : rows = Append(records, r)
    BY <1>2, <2>2
  <2> QED
    BY <1>4, <1>7, <2>1, <2>2 DEF Kept
<1> QED
  BY <1>5, <1>6, <1>7

\* records.jsonl has, when there is a summary, the rows of each case, once each.
LEMMA FileHasRows ==
    ASSUME Typed, Booked, Summed, OneRowEach, Kept, summary # None, NEW c \in Nat \ {0}
    PROVE  /\ MadeRows(c) = {records[i] : i \in {j \in DOMAIN records : records[j].case = c}}
           /\ \A i, j \in DOMAIN records : AttemptOf(records[i]) = AttemptOf(records[j]) => i = j
<1>1. pc \in Ended /\ pc # "append"
  BY DEF Summed, Ended
<1>2. records \in Seq(Rows) /\ (rows = records \/ rows = Append(records, RegressionRow))
  BY <1>1 DEF Kept
<1>3. Tried = ToSet(rows)
  BY <1>1 DEF Tried
<1>4. RegressionRow \in Rows /\ RegressionRow.case = 0
  BY RegressionRowIsTyped
<1>5. ToSet(rows) = ToSet(records) \/ ToSet(rows) = ToSet(records) \cup {RegressionRow}
  <2>1. ToSet(Append(records, RegressionRow)) = ToSet(records) \cup {RegressionRow}
    BY <1>2, <1>4, Appended
  <2> QED
    BY <1>2, <2>1
<1>6. MadeRows(c) = {r \in ToSet(records) : r.case = c}
  BY <1>3, <1>4, <1>5 DEF MadeRows
<1>7. \A i \in DOMAIN records : i \in DOMAIN rows /\ rows[i] = records[i]
  <2>1. CASE rows = Append(records, RegressionRow)
    <3>1. /\ DOMAIN rows = 1..(Len(records) + 1) /\ DOMAIN records = 1..Len(records) /\ Len(records) \in Nat
          /\ \A i \in 1..Len(records) : rows[i] = records[i]
      BY <1>2, <1>4, <2>1
    <3> QED
      BY <3>1
  <2> QED
    BY <1>2, <2>1
<1>8. \A i, j \in DOMAIN records : AttemptOf(records[i]) = AttemptOf(records[j]) => i = j
  <2> SUFFICES ASSUME NEW i \in DOMAIN records, NEW j \in DOMAIN records,
                      AttemptOf(records[i]) = AttemptOf(records[j])
               PROVE  i = j
    OBVIOUS
  <2>1. i \in DOMAIN rows /\ j \in DOMAIN rows /\ rows[i] = records[i] /\ rows[j] = records[j]
    BY <1>7
  <2>2. AttemptOf(rows[i]) = AttemptOf(rows[j])
    BY <2>1
  <2> QED
    BY <2>1, <2>2 DEF OneRowEach
<1>9. MadeRows(c) = {records[i] : i \in {j \in DOMAIN records : records[j].case = c}}
  BY <1>6 DEF ToSet
<1> QED
  BY <1>8, <1>9

\* No row is lost between the list and the file, and no attempt of a case is lost
\* between the plan and the summary.
THEOREM EveryAttemptAlwaysCounted == Spec => []EveryAttemptCounted
<1>1. Typed /\ Booked /\ Summed /\ OneRowEach /\ Kept /\ Covered => EveryAttemptCounted
  <2> SUFFICES ASSUME Typed, Booked, Summed, OneRowEach, Kept, Covered,
                      summary # None, NEW c \in 1..setup.cases
               PROVE  LET mine == {i \in DOMAIN records : records[i].case = c}
                      IN  \/ \E i \in mine :
                                /\ mine = {i} /\ records[i].status = "ineligible"
                                /\ records[i] = PreflightRow(c) \/ ~InWorkers(setup)
                          \/ /\ {AttemptOf(records[i]) : i \in mine} = AttemptsOf(setup, c)
                             /\ \A i, j \in mine : AttemptOf(records[i]) = AttemptOf(records[j]) => i = j
    BY FileOfRows DEF EveryAttemptCounted
  <2> DEFINE mine == {i \in DOMAIN records : records[i].case = c}
  <2>1. c \in Nat \ {0}
    BY DEF Typed, RunnerTypes
  <2>2. /\ MadeRows(c) = {records[i] : i \in mine}
        /\ \A i, j \in mine : AttemptOf(records[i]) = AttemptOf(records[j]) => i = j
    BY <2>1, FileHasRows
  <2>3. CaseDone(c)
    BY DEF Covered
  <2> HIDE DEF mine
  <2>4. ASSUME NEW r, MadeRows(c) = {r}
        PROVE  \E i \in mine : mine = {i} /\ records[i] = r
    <3>1. PICK i \in mine : records[i] = r
      BY <2>2, <2>4
    <3>2. \A j \in mine : records[j] = r
      BY <2>2, <2>4
    <3>3. mine = {i}
      BY <2>2, <3>1, <3>2
    <3> QED
      BY <3>1, <3>3
  <2>5. CASE MadeRows(c) = {PreflightRow(c)}
    <3>1. PreflightRow(c).status = "ineligible"
      BY <2>1, PreflightRowIsTyped
    <3> QED
      BY <2>4, <2>5, <3>1 DEF mine
  <2>6. CASE ~InWorkers(setup) /\ \E r : MadeRows(c) = {r} /\ r.status = "ineligible"
    BY <2>4, <2>6 DEF mine
  <2>7. CASE HaveRows(c) = AttemptsOf(setup, c)
    <3>1. HaveRows(c) = {AttemptOf(records[i]) : i \in mine}
      BY <2>2 DEF HaveRows
    <3> QED
      BY <2>2, <2>7, <3>1 DEF mine
  <2> QED
    BY <2>3, <2>5, <2>6, <2>7 DEF CaseDone
<1> QED
  BY <1>1, TypedAlways, BookedAlways, SummedAlways, KeptAlways, CoveredAlways, PTL

=============================================================================
