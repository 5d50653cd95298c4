------------------------- MODULE CompilerRun_proofs -------------------------
(***************************************************************************)
(* Proofs about a run of the compiler, for modules of any size, pipelines  *)
(* of any length and a failure or a kill anywhere.  The invariant is built *)
(* in five layers, each inductive relative to those before it: the types   *)
(* and what map-identity has validated, the stages, the clone runQRisk     *)
(* works on, the files, and what the finished passes established.          *)
(***************************************************************************)
EXTENDS CompilerRun, SequenceTheorems, TLAPS

Size == Len(job.module)
Plans == {"none", "kept", "reordered"}
Cloned == {"preflight", "apply", "verify", "open", "write", "commit"}

\* Where a pass is, and what it works on there.
AtPass ==
    /\ pc \in {"pass", "write export", "exit 0", "exit 1"} \cup Cloned
    /\ pc \in Cloned =>
          /\ todo # <<>> /\ Head(todo) \in QRisk
          /\ working \in [1..Size -> Circuit] /\ plans \in [1..Size -> Plans]
    /\ pc \in {"preflight", "apply"} => at \in 1..Size
    /\ pc = "write export" => todo # <<>> /\ Head(todo) = "export-qiskit"
    /\ pc = "exit 0" => Len(todo) = 0

\* map-identity has validated the circuits before the one it is at; every other
\* pass starts at the first circuit.
Validated ==
    pc = "pass" /\ at # 1 =>
        /\ todo # <<>> /\ Head(todo) = "map-identity"
        /\ \A i \in 1..Size : i < at => module[i].stage # "architecture" /\ module[i].routable

Typed == TypeOK /\ module \in [1..Size -> Circuit] /\ AtPass /\ Validated

-----------------------------------------------------------------------------
(***************************************************************************)
(* Sequences.                                                              *)
(***************************************************************************)
LEMMA FunctionIsSeq ==
    ASSUME NEW S, NEW n \in Nat, NEW f \in [1..n -> S]
    PROVE  f \in Seq(S) /\ Len(f) = n /\ DOMAIN f = 1..n
<1>1. DOMAIN f = 1..n
  OBVIOUS
<1>2. f \in Seq(S)
  OBVIOUS
<1>3. Len(f) = n
  BY <1>1, <1>2
<1> QED
  BY <1>1, <1>2, <1>3

LEMMA NextIndex ==
    \A m, n \in Nat : m + 1 <= n => m + 1 \in 1..n /\ \A i \in 1..m : m + 1 > i
  OBVIOUS

LEMMA TailProperties ==
    ASSUME NEW S, NEW s \in Seq(S), s # <<>>
    PROVE  /\ Head(s) \in S /\ Tail(s) \in Seq(S) /\ Len(Tail(s)) = Len(s) - 1 /\ Len(s) \in Nat \ {0}
           /\ \A i \in 1..(Len(s) - 1) : Tail(s)[i] = s[i + 1]
           /\ Head(s) = s[1]
<1>1. Len(s) \in Nat \ {0} /\ Head(s) = s[1] /\ Head(s) \in S
  OBVIOUS
<1>2. Tail(s) \in Seq(S) /\ Len(Tail(s)) = Len(s) - 1
  BY <1>1
<1>3. \A i \in 1..(Len(s) - 1) : Tail(s)[i] = s[i + 1]
  BY <1>1
<1> QED
  BY <1>1, <1>2, <1>3

LEMMA JobType ==
    ASSUME job \in Jobs
    PROVE  /\ Size \in Nat /\ DOMAIN job.module = 1..Size /\ job.module \in [1..Size -> Circuit]
           /\ job.passes \in Seq(Passes)
           /\ \A i \in 1..Size : job.module[i].form = "source" /\ job.module[i].note = "none"
  BY JobAssumption DEF Size

\* Changing the stage to architecture keeps a routable circuit a circuit; the
\* report attribute changes nothing the verifier looks at.
LEMMA StagedIsCircuit ==
    ASSUME NEW c \in Circuit, c.routable
    PROVE  [c EXCEPT !.stage = "architecture"] \in Circuit
  BY DEF Circuit

LEMMA NotedIsCircuit ==
    ASSUME NEW c \in Circuit, NEW form \in Forms
    PROVE  /\ Noted(c, form) \in Circuit
           /\ Noted(c, form).form = form /\ Noted(c, form).note = form
           /\ Noted(c, form).stage = c.stage
  BY DEF Circuit, Noted

LEMMA CircuitFields ==
    ASSUME NEW c \in Circuit
    PROVE  /\ c.form \in Forms /\ c.note \in {"none"} \cup Forms
           /\ c.stage \in {"none", "logical", "architecture"}
           /\ c.stage = "architecture" => c.routable
           /\ c.routable \in BOOLEAN
  BY DEF Circuit

-----------------------------------------------------------------------------
(***************************************************************************)
(* Types.                                                                  *)
(***************************************************************************)
LEMMA TypedInit == Init => Typed
<1> SUFFICES ASSUME Init
             PROVE  Typed
  OBVIOUS
<1>1. job \in Jobs /\ module \in [1..Size -> Circuit] /\ Size \in Nat /\ module = job.module
  BY JobType DEF Init
<1>2. TypeOK
  <2>1. todo \in Seq(Passes)
    BY JobType DEF Init
  <2>2. reportFile.state \in {"absent", "partial", "whole"} /\ exportFile.state \in {"absent", "partial", "whole"}
    BY DEF Init, NoFile, Whole
  <2>3. Len(module) = Size /\ DOMAIN module = 1..Size
    BY <1>1, FunctionIsSeq
  <2> QED
    BY <1>1, <2>1, <2>2, <2>3 DEF Init, TypeOK, Size
<1>3. AtPass /\ Validated
  BY DEF Init, AtPass, Validated, Cloned
<1> QED
  BY <1>1, <1>2, <1>3 DEF Typed

\* What an invariant may use of the module.
LEMMA ModuleShape ==
    ASSUME Typed
    PROVE  /\ job \in Jobs /\ Size \in Nat /\ DOMAIN module = 1..Size /\ Len(module) = Size
           /\ \A i \in 1..Size : module[i] \in Circuit
           /\ todo \in Seq(Passes) /\ at \in 1..(Size + 1)
  BY JobType, FunctionIsSeq DEF Typed, TypeOK, Size

LEMMA FailTyped == Typed /\ Fail => Typed'
<1> SUFFICES ASSUME Typed, Fail
             PROVE  Typed'
  OBVIOUS
<1>1. TypeOK' /\ module' \in [1..Size' -> Circuit]
  BY DEF Typed, TypeOK, Fail, outside, file, Size
<1>2. AtPass' /\ Validated'
  BY DEF Fail, AtPass, Validated, Cloned
<1> QED
  BY <1>1, <1>2 DEF Typed

LEMMA PassDoneTyped ==
    ASSUME Typed, todo # <<>>, PassDone, UNCHANGED <<job, parent>>, module' \in [1..Size -> Circuit],
           reportFile' = reportFile, exportFile'.state \in {"absent", "partial", "whole"}
    PROVE  Typed'
<1> USE ModuleShape
<1>1. todo' \in Seq(Passes) /\ (Len(todo) = 1 => Len(todo') = 0)
  <2>1. todo' = Tail(todo) /\ todo \in Seq(Passes)
    BY DEF PassDone
  <2> QED
    BY <2>1, TailProperties
<1>2. Size' = Size /\ DOMAIN module' = 1..Size /\ Len(module') = Size
  BY FunctionIsSeq DEF Size
<1>3. TypeOK'
  <2>1. (\A i \in DOMAIN module : module[i] \in Circuit)' /\ Len(module)' = Len(job.module)'
    BY <1>2 DEF Size
  <2>2. at' \in 1..(Len(module)' + 1)
    <3>1. Len(module)' = Size /\ Size \in Nat /\ at' = 1
      BY <1>2 DEF PassDone
    <3> QED
      BY <3>1
  <2> QED
    BY <1>1, <2>1, <2>2 DEF Typed, TypeOK
<1>4. AtPass' /\ Validated'
  BY <1>1 DEF PassDone, AtPass, Validated, Cloned
<1> QED
  BY <1>2, <1>3, <1>4 DEF Typed

LEMMA TypedNext == Typed /\ [Next]_vars => Typed'
<1> SUFFICES ASSUME Typed, [Next]_vars
             PROVE  Typed'
  OBVIOUS
<1> USE ModuleShape
<1>1. TypeOK /\ module \in [1..Size -> Circuit] /\ AtPass /\ Validated
  BY DEF Typed
<1>2. ASSUME Fail
      PROVE  Typed'
  BY <1>2, FailTyped
<1>3. ASSUME todo # <<>>, PassDone, UNCHANGED <<job, parent>>, module' = module,
             reportFile' = reportFile, exportFile' = exportFile
      PROVE  Typed'
  BY <1>1, <1>3, PassDoneTyped DEF TypeOK
<1>4. CASE LogicalOpt \/ LogicalOptFails
  BY <1>2, <1>3, <1>4 DEF LogicalOpt, LogicalOptFails, Starting, outside, file
<1>5. CASE MapValidate
  <2> SUFFICES ASSUME ~Fail
               PROVE  Typed'
    BY <1>2
  <2>1. /\ Here.stage # "architecture" /\ Here.routable /\ at <= Size
        /\ at' = at + 1 /\ UNCHANGED <<outside, module, working, plans, todo, pc, file>>
        /\ todo # <<>> /\ Head(todo) = "map-identity" /\ pc = "pass"
    BY <1>5 DEF MapValidate, Starting
  <2>2. TypeOK' /\ Size' = Size
    BY <1>1, <2>1 DEF TypeOK, outside, file, Size
  <2>3. \A i \in 1..Size : i < at + 1 => module[i].stage # "architecture" /\ module[i].routable
    <3>1. \A i \in 1..Size : i < at => module[i].stage # "architecture" /\ module[i].routable
      <4>1. CASE at = 1
        BY <4>1
      <4>2. CASE at # 1
        BY <1>1, <2>1, <4>2 DEF Validated
      <4> QED
        BY <4>1, <4>2
    <3>2. \A i \in 1..Size : i < at + 1 => i < at \/ i = at
      BY <2>1
    <3> QED
      BY <2>1, <3>1, <3>2 DEF Here
  <2>4. AtPass' /\ Validated'
    BY <2>1, <2>2, <2>3 DEF AtPass, Validated, Cloned
  <2> QED
    BY <1>1, <2>1, <2>2, <2>4 DEF Typed
<1>6. CASE MapCommit
  <2>1. /\ todo # <<>> /\ pc = "pass" /\ PassDone /\ at > Size
        /\ UNCHANGED <<outside, working, plans, file>>
        /\ module' = [i \in 1..Size |-> [module[i] EXCEPT !.stage = "architecture"]]
    BY <1>6 DEF MapCommit, Starting
  <2>2. \A i \in 1..Size : module[i].routable
    BY <1>1, <2>1 DEF Validated
  <2>3. module' \in [1..Size -> Circuit]
    BY <2>1, <2>2, StagedIsCircuit
  <2> QED
    BY <1>1, <2>1, <2>3, PassDoneTyped DEF outside, file, TypeOK
<1>7. CASE VerifyTarget
  BY <1>2, <1>3, <1>7 DEF VerifyTarget, Starting, outside, file
<1>8. CASE QRiskStart
  <2> SUFFICES ASSUME ~Fail
               PROVE  Typed'
    BY <1>2
  <2>1. /\ working' = module /\ plans' = [i \in 1..Size |-> "none"] /\ at' = 1
        /\ pc' = IF module = <<>> THEN "verify" ELSE "preflight"
        /\ UNCHANGED <<outside, module, todo, file>> /\ todo # <<>> /\ Head(todo) \in QRisk
    BY <1>8 DEF QRiskStart, Starting
  <2>2. TypeOK' /\ Size' = Size
    BY <1>1, <2>1 DEF TypeOK, outside, file, Size
  <2>3. Size = 0 => module = <<>>
    BY <1>1
  <2>4. working' \in [1..Size' -> Circuit] /\ plans' \in [1..Size' -> Plans]
    BY <1>1, <2>1, <2>2 DEF Plans
  <2>5. pc' = "preflight" => at' \in 1..Size'
    BY <2>1, <2>2, <2>3
  <2>6. AtPass' /\ Validated'
    BY <2>1, <2>4, <2>5 DEF AtPass, Validated, Cloned
  <2> QED
    BY <1>1, <2>1, <2>2, <2>6 DEF Typed
<1>9. CASE Preflight
  <2> SUFFICES ASSUME ~Fail
               PROVE  Typed'
    BY <1>2
  <2>1. PICK plan \in {"kept", "reordered"} : plans' = [plans EXCEPT ![at] = plan]
    BY <1>9 DEF Preflight
  <2>2. /\ at' = (IF at >= Size THEN 1 ELSE at + 1) /\ pc = "preflight"
        /\ pc' = (IF at >= Size THEN "apply" ELSE "preflight")
        /\ UNCHANGED <<outside, module, working, todo, file>>
    BY <1>9 DEF Preflight, AtLast
  <2>3. /\ todo # <<>> /\ Head(todo) \in QRisk /\ at \in 1..Size
        /\ working \in [1..Size -> Circuit] /\ plans \in [1..Size -> Plans]
    BY <1>1, <2>2 DEF AtPass, Cloned
  <2>4. TypeOK' /\ Size' = Size
    BY <1>1, <2>2, <2>3 DEF TypeOK, outside, file, Size
  <2>5. plans' \in [1..Size -> Plans]
    BY <2>1, <2>3 DEF Plans
  <2>6. AtPass' /\ Validated'
    BY <2>2, <2>3, <2>4, <2>5 DEF AtPass, Validated, Cloned
  <2> QED
    BY <1>1, <2>2, <2>4, <2>6 DEF Typed
<1>10. CASE Apply
  <2>1. pc = "apply" /\ todo # <<>> /\ Head(todo) \in QRisk /\ at \in 1..Size
          /\ working \in [1..Size -> Circuit] /\ plans \in [1..Size -> Plans]
    BY <1>1, <1>10 DEF AtPass, Cloned, Apply
  <2>2. PICK form \in IF plans[at] = "reordered" THEN {"mitigated", "broken"} ELSE {working[at].form} :
            working' = [working EXCEPT ![at] = Noted(@, form)]
    BY <1>10 DEF Apply
  <2>3. form \in Forms
    BY <2>1, <2>2, CircuitFields DEF Forms
  <2>4. working' \in [1..Size -> Circuit]
    BY <2>1, <2>2, <2>3, NotedIsCircuit
  <2>5. /\ at' = (IF at >= Size THEN 1 ELSE at + 1)
        /\ pc' = (IF at >= Size THEN "verify" ELSE "apply")
        /\ UNCHANGED <<outside, module, plans, todo, file>>
    BY <1>10 DEF Apply, AtLast
  <2>6. TypeOK' /\ Size' = Size
    BY <1>1, <2>1, <2>5 DEF TypeOK, outside, file, Size
  <2>7. AtPass' /\ Validated'
    BY <2>1, <2>4, <2>5, <2>6 DEF AtPass, Validated, Cloned
  <2> QED
    BY <1>1, <2>5, <2>6, <2>7 DEF Typed
<1>11. CASE ApplyFails \/ OpenReportFails \/ WriteReportFails \/ ExportFails
  BY <1>2, <1>11 DEF ApplyFails, OpenReportFails, WriteReportFails, ExportFails
<1>12. CASE VerifyWorking
  <2> SUFFICES ASSUME ~Fail
               PROVE  Typed'
    BY <1>2
  <2>1. pc = "verify" /\ pc' = "open" /\ UNCHANGED <<outside, module, working, plans, todo, at, file>>
    BY <1>12 DEF VerifyWorking
  <2> QED
    BY <1>1, <2>1 DEF Typed, TypeOK, AtPass, Validated, Cloned, outside, file, Size
<1>13. CASE OpenReport
  <2>1. /\ pc = "open" /\ pc' = "write" /\ reportFile'.state = "partial"
        /\ UNCHANGED <<outside, module, working, plans, todo, at, exportFile>>
    BY <1>13 DEF OpenReport, Truncated
  <2> QED
    BY <1>1, <2>1 DEF Typed, TypeOK, AtPass, Validated, Cloned, outside, file, Size
<1>14. CASE WriteReport
  <2>1. /\ pc = "write" /\ pc' = "commit" /\ reportFile'.state = "whole"
        /\ UNCHANGED <<outside, module, working, plans, todo, at, exportFile>>
    BY <1>14 DEF WriteReport, Whole
  <2> QED
    BY <1>1, <2>1 DEF Typed, TypeOK, AtPass, Validated, Cloned, outside, file, Size
<1>15. CASE Commit
  <2>1. pc = "commit" /\ todo # <<>> /\ working \in [1..Size -> Circuit]
    BY <1>1, <1>15 DEF AtPass, Cloned, Commit
  <2> QED
    BY <1>1, <1>15, <2>1, PassDoneTyped DEF Commit, outside, file, TypeOK
<1>16. CASE OpenExport
  <2> SUFFICES ASSUME ~Fail
               PROVE  Typed'
    BY <1>2
  <2>1. /\ exportFile' = Truncated /\ pc' = "write export" /\ pc = "pass"
        /\ todo # <<>> /\ Head(todo) = "export-qiskit"
        /\ UNCHANGED <<outside, module, working, plans, todo, at, reportFile>>
    BY <1>16 DEF OpenExport, Starting
  <2>2. exportFile'.state = "partial"
    BY <2>1 DEF Truncated
  <2> QED
    BY <1>1, <2>1, <2>2 DEF Typed, TypeOK, AtPass, Validated, Cloned, outside, file, Size
<1>17. CASE WriteExport
  <2>1. todo # <<>> /\ exportFile'.state = "whole"
    BY <1>1, <1>17 DEF WriteExport, AtPass, Whole
  <2> QED
    BY <1>1, <1>17, <2>1, PassDoneTyped DEF WriteExport, outside, TypeOK
<1>18. CASE Kill \/ ReportFailure \/ TakeResult
  <2>1. /\ parent' \in {"raised", "returned"}
        /\ UNCHANGED <<job, module, working, plans, todo, at, pc>>
    BY <1>18 DEF Kill, ReportFailure, TakeResult
  <2>2. reportFile'.state \in {"absent", reportFile.state} /\ exportFile'.state \in {"absent", exportFile.state}
    <3>1. Cleanup
      BY <1>18 DEF Kill, ReportFailure, TakeResult
    <3>2. CASE job.by = "adapter"
      BY <3>1, <3>2 DEF Cleanup, NoFile
    <3>3. CASE job.by # "adapter"
      BY <3>1, <3>3 DEF Cleanup, file
    <3> QED
      BY <3>2, <3>3
  <2>3. TypeOK'
    BY <1>1, <2>1, <2>2 DEF TypeOK
  <2> QED
    BY <1>1, <2>1, <2>3 DEF Typed, AtPass, Validated, Cloned, Size
<1>19. CASE UNCHANGED vars
  BY <1>1, <1>19 DEF vars, Typed, TypeOK, AtPass, Validated, Cloned, Size
<1> QED
  BY <1>4, <1>5, <1>6, <1>7, <1>8, <1>9, <1>10, <1>11, <1>12, <1>13, <1>14, <1>15, <1>16, <1>17,
     <1>18, <1>19 DEF Next, Compiler

LEMMA TypedAlways == Spec => []Typed
<1>1. Init => Typed
  BY TypedInit
<1> QED
  BY <1>1, TypedNext, PTL DEF Spec

\* The variables of a run of the compiler have their types, whatever the job:
\* among them, every circuit of the module is one the verifier accepts (at the
\* architecture stage it respects its target), and the number of circuits never
\* changes.
THEOREM TypeCorrect == Spec => []TypeOK
<1>1. Typed => TypeOK
  BY DEF Typed
<1> QED
  BY <1>1, TypedAlways, PTL

-----------------------------------------------------------------------------
(***************************************************************************)
(* The clone of runQRisk: what is reordered and annotated there, while the *)
(* module keeps its verified circuits.                                     *)
(***************************************************************************)
Reported(i) ==
    /\ working[i].note = working[i].form
    /\ working[i].stage = module[i].stage
    /\ Head(todo) = "qrisk-scan" => working[i].form = module[i].form

CloneFollows ==
    /\ \A i \in 1..Size : module[i].form # "broken"
    /\ pc \in {"preflight", "apply"} /\ Head(todo) = "qrisk-scan" =>
          \A i \in 1..Size : plans[i] # "reordered"
    /\ pc = "preflight" => working = module
    /\ pc = "apply" => /\ \A i \in 1..Size : i >= at => working[i] = module[i]
                       /\ \A i \in 1..Size : i < at => Reported(i)
    /\ pc \in {"verify", "open", "write", "commit"} => \A i \in 1..Size : Reported(i)
    /\ pc \in {"open", "write", "commit"} => \A i \in 1..Size : working[i].form # "broken"

LEMMA CloneInit == Init => CloneFollows
<1> SUFFICES ASSUME Init
             PROVE  CloneFollows
  OBVIOUS
<1>1. \A i \in 1..Size : module[i].form = "source"
  BY JobType DEF Init
<1> QED
  BY <1>1 DEF Init, CloneFollows

\* Outside runQRisk nothing is asked of the clone.
LEMMA CloneIdle ==
    ASSUME CloneFollows, Size' = Size, pc' \notin Cloned,
           \A i \in 1..Size : module'[i].form = module[i].form
    PROVE  CloneFollows'
  BY DEF CloneFollows, Cloned

LEMMA CloneKept ==
    ASSUME CloneFollows, UNCHANGED <<job, module, working, plans, todo, at, pc>>
    PROVE  CloneFollows'
  BY DEF CloneFollows, Reported, Size

LEMMA CloneNext == Typed /\ CloneFollows /\ [Next]_vars => CloneFollows'
<1> SUFFICES ASSUME Typed, CloneFollows, [Next]_vars
             PROVE  CloneFollows'
  OBVIOUS
<1>1. AtPass /\ Size \in Nat /\ DOMAIN module = 1..Size /\ \A i \in 1..Size : module[i] \in Circuit
  BY ModuleShape DEF Typed
<1>2. ASSUME Fail
      PROVE  CloneFollows'
  BY <1>2, CloneIdle DEF Fail, outside, Cloned, Size
<1>3. ASSUME PassDone, UNCHANGED <<job, module>>
      PROVE  CloneFollows'
  BY <1>3, CloneIdle DEF PassDone, Cloned, Size
<1>4. CASE LogicalOpt \/ LogicalOptFails
  BY <1>2, <1>3, <1>4 DEF LogicalOpt, LogicalOptFails, outside
<1>5. CASE MapValidate
  <2> SUFFICES ASSUME ~Fail
               PROVE  CloneFollows'
    BY <1>2
  <2>1. UNCHANGED <<job, module, pc>> /\ pc = "pass"
    BY <1>5 DEF MapValidate, Starting, outside
  <2> QED
    BY <2>1, CloneIdle DEF Cloned, Size
<1>6. CASE MapCommit
  <2>1. /\ module' = [i \in 1..Size |-> [module[i] EXCEPT !.stage = "architecture"]]
        /\ PassDone /\ job' = job
    BY <1>1, <1>6 DEF MapCommit, outside
  <2>2. ASSUME NEW i \in 1..Size
        PROVE  module'[i].form = module[i].form
    BY <1>1, <2>1, <2>2 DEF Circuit
  <2> QED
    BY <2>1, <2>2, CloneIdle DEF PassDone, Cloned, Size
<1>7. CASE VerifyTarget
  BY <1>2, <1>3, <1>7 DEF VerifyTarget, outside
<1>8. CASE QRiskStart
  <2> SUFFICES ASSUME ~Fail
               PROVE  CloneFollows'
    BY <1>2
  <2>1. /\ working' = module /\ plans' = [i \in 1..Size |-> "none"]
        /\ pc' = IF module = <<>> THEN "verify" ELSE "preflight"
        /\ UNCHANGED <<job, module, todo>>
    BY <1>1, <1>8 DEF QRiskStart, outside
  <2>2. Size' = Size /\ (pc' = "verify" => Size = 0)
    BY <1>1, <2>1 DEF Size
  <2> QED
    BY <1>1, <2>1, <2>2 DEF CloneFollows
<1>9. CASE Preflight
  <2> SUFFICES ASSUME ~Fail
               PROVE  CloneFollows'
    BY <1>2
  <2>1. PICK plan \in IF Head(todo) = "qrisk-mitigate" THEN {"kept", "reordered"} ELSE {"kept"} :
            plans' = [plans EXCEPT ![at] = plan]
    BY <1>9 DEF Preflight
  <2>2. /\ at' = (IF at >= Size THEN 1 ELSE at + 1) /\ pc = "preflight"
        /\ pc' = (IF at >= Size THEN "apply" ELSE "preflight")
        /\ UNCHANGED <<job, module, working, todo>>
    BY <1>9, ModuleShape DEF Preflight, AtLast, outside
  <2>3. at \in 1..Size /\ plans \in [1..Size -> Plans] /\ Size' = Size
    BY <1>1, <2>2 DEF AtPass, Cloned, Size
  <2>4. Head(todo) = "qrisk-scan" => \A i \in 1..Size : plans'[i] # "reordered"
    BY <2>1, <2>2, <2>3 DEF CloneFollows
  <2> QED
    BY <2>2, <2>3, <2>4 DEF CloneFollows
<1>10. CASE Apply
  <2>1. /\ pc = "apply" /\ at \in 1..Size
        /\ working \in [1..Size -> Circuit] /\ plans \in [1..Size -> Plans]
    BY <1>1, <1>10 DEF AtPass, Cloned, Apply
  <2>2. PICK form \in IF plans[at] = "reordered" THEN {"mitigated", "broken"} ELSE {working[at].form} :
            working' = [working EXCEPT ![at] = Noted(@, form)]
    BY <1>10 DEF Apply
  <2>3. /\ at' = (IF at >= Size THEN 1 ELSE at + 1)
        /\ pc' = (IF at >= Size THEN "verify" ELSE "apply")
        /\ UNCHANGED <<job, module, plans, todo>>
    BY <1>10, ModuleShape DEF Apply, AtLast, outside
  <2>4. working[at] \in Circuit /\ form \in Forms /\ working[at] = module[at] /\ Size' = Size
    BY <2>1, <2>2, <2>3, CircuitFields DEF Forms, CloneFollows, Size
  <2>5. /\ working'[at] = Noted(working[at], form)
        /\ \A i \in 1..Size : i # at => working'[i] = working[i]
    BY <2>1, <2>2
  <2>6. Head(todo) = "qrisk-scan" => form = module[at].form
    BY <2>1, <2>2, <2>4 DEF CloneFollows
  <2>7. ASSUME NEW i \in 1..Size, i = at
        PROVE  Reported(i)'
    <3>1. /\ working'[at].note = form /\ working'[at].form = form
          /\ working'[at].stage = working[at].stage
      BY <2>4, <2>5, NotedIsCircuit
    <3>2. /\ working'[at].note = working'[at].form /\ working'[at].stage = module'[at].stage
          /\ Head(todo') = "qrisk-scan" => working'[at].form = module'[at].form
      BY <2>3, <2>4, <2>6, <3>1
    <3> QED
      BY <2>7, <3>2 DEF Reported
  <2>8. ASSUME NEW i \in 1..Size, i < at
        PROVE  Reported(i)'
    <3>1. Reported(i) /\ working'[i] = working[i]
      BY <2>1, <2>5, <2>8 DEF CloneFollows
    <3> QED
      BY <2>3, <3>1 DEF Reported
  <2>9. ASSUME NEW i \in 1..Size, i > at
        PROVE  working'[i] = module'[i]
    BY <2>1, <2>3, <2>5, <2>9 DEF CloneFollows
  <2>10. CASE at >= Size
    <3>1. \A i \in 1..Size : i < at \/ i = at
      BY <1>1, <2>1, <2>10
    <3>2. (\A i \in 1..Size : Reported(i))'
      BY <2>4, <2>7, <2>8, <3>1
    <3> QED
      BY <2>3, <2>4, <2>10, <3>2 DEF CloneFollows
  <2>11. CASE ~(at >= Size)
    <3>1. at' = at + 1 /\ pc' = "apply"
      BY <2>3, <2>11
    <3>2. \A i \in 1..Size : i < at + 1 => i < at \/ i = at
      BY <2>1
    <3>3. (\A i \in 1..Size : i < at => Reported(i))'
      BY <2>4, <2>7, <2>8, <3>1, <3>2
    <3>4. (\A i \in 1..Size : i >= at => working[i] = module[i])'
      BY <2>1, <2>4, <2>9, <3>1
    <3> QED
      BY <2>1, <2>3, <2>4, <3>1, <3>3, <3>4 DEF CloneFollows
  <2> QED
    BY <2>10, <2>11
<1>11. CASE ApplyFails \/ OpenReportFails \/ WriteReportFails \/ ExportFails
  BY <1>2, <1>11 DEF ApplyFails, OpenReportFails, WriteReportFails, ExportFails
<1>12. CASE VerifyWorking
  <2> SUFFICES ASSUME ~Fail
               PROVE  CloneFollows'
    BY <1>2
  <2>1. /\ pc = "verify" /\ pc' = "open" /\ UNCHANGED <<job, module, working, plans, todo, at>>
        /\ \A i \in 1..Size : working[i].form # "broken"
    BY <1>1, <1>12 DEF VerifyWorking, outside, AtPass, Cloned
  <2> QED
    BY <2>1 DEF CloneFollows, Reported, Size
<1>13. CASE OpenReport \/ WriteReport
  <2>1. /\ pc \in {"open", "write"} /\ pc' \in {"write", "commit"}
        /\ UNCHANGED <<job, module, working, plans, todo, at>>
    BY <1>13 DEF OpenReport, WriteReport, outside
  <2> QED
    BY <2>1 DEF CloneFollows, Reported, Size
<1>14. CASE Commit
  <2>1. PassDone /\ job' = job /\ module' = working /\ \A i \in 1..Size : working[i].form # "broken"
    BY <1>14 DEF Commit, CloneFollows, outside
  <2> QED
    BY <2>1 DEF PassDone, CloneFollows, Size
<1>15. CASE OpenExport
  <2> SUFFICES ASSUME ~Fail
               PROVE  CloneFollows'
    BY <1>2
  <2>1. pc' = "write export" /\ UNCHANGED <<job, module>>
    BY <1>15 DEF OpenExport, outside
  <2> QED
    BY <2>1, CloneIdle DEF Cloned, Size
<1>16. CASE WriteExport
  BY <1>3, <1>16 DEF WriteExport, outside
<1>17. CASE Kill \/ ReportFailure \/ TakeResult
  BY <1>17, CloneKept DEF Kill, ReportFailure, TakeResult
<1>18. CASE UNCHANGED vars
  BY <1>18, CloneKept DEF vars
<1> QED
  BY <1>4, <1>5, <1>6, <1>7, <1>8, <1>9, <1>10, <1>11, <1>12, <1>13, <1>14, <1>15, <1>16, <1>17,
     <1>18 DEF Next, Compiler

LEMMA CloneAlways == Spec => []CloneFollows
<1>1. Init => CloneFollows
  BY CloneInit
<1> QED
  BY <1>1, CloneNext, TypedAlways, PTL DEF Spec

-----------------------------------------------------------------------------
(***************************************************************************)
(* All circuits or none.                                                   *)
(***************************************************************************)
AllOrNone ==
    /\ \/ \A i \in 1..Size : module[i].stage = job.module[i].stage
       \/ \A i \in 1..Size : module[i].stage = "architecture"
    /\ \/ \A i \in 1..Size : module[i].note = "none"
       \/ \A i \in 1..Size : module[i].note # "none"

\* Only two steps change the module.
LEMMA ModuleSteps ==
    ASSUME [Next]_vars
    PROVE  job' = job /\ (MapCommit \/ Commit \/ module' = module)
<1> USE DEF outside, Fail, PassDone
<1>1. CASE LogicalOpt \/ LogicalOptFails \/ MapValidate \/ VerifyTarget
  BY <1>1 DEF LogicalOpt, LogicalOptFails, MapValidate, VerifyTarget
<1>2. CASE MapCommit \/ Commit
  BY <1>2 DEF MapCommit, Commit
<1>3. CASE QRiskStart \/ Preflight \/ VerifyWorking
  BY <1>3 DEF QRiskStart, Preflight, VerifyWorking
<1>4. CASE Apply \/ OpenReport \/ WriteReport
  BY <1>4 DEF Apply, OpenReport, WriteReport
<1>5. CASE ApplyFails \/ OpenReportFails \/ WriteReportFails \/ ExportFails
  BY <1>5 DEF ApplyFails, OpenReportFails, WriteReportFails, ExportFails
<1>6. CASE OpenExport \/ WriteExport
  BY <1>6 DEF OpenExport, WriteExport
<1>7. CASE Kill \/ ReportFailure \/ TakeResult
  BY <1>7 DEF Kill, ReportFailure, TakeResult
<1>8. CASE UNCHANGED vars
  BY <1>8 DEF vars
<1> QED
  BY <1>1, <1>2, <1>3, <1>4, <1>5, <1>6, <1>7, <1>8 DEF Next, Compiler

\* takeBody gives every circuit its report and keeps its stage.
LEMMA CommitStep ==
    ASSUME Typed, CloneFollows, Commit
    PROVE  /\ todo # <<>> /\ Head(todo) \in QRisk /\ PassDone /\ module' = working /\ DOMAIN working = 1..Size
           /\ \A i \in 1..Size : /\ working[i].stage = module[i].stage
                                  /\ working[i].note = working[i].form /\ working[i].form \in Forms
<1>1. /\ pc = "commit" /\ todo # <<>> /\ Head(todo) \in QRisk /\ working \in [1..Size -> Circuit]
      /\ PassDone /\ module' = working
  BY DEF Typed, AtPass, Cloned, Commit
<1>2. \A i \in 1..Size : Reported(i)
  BY <1>1 DEF CloneFollows
<1> QED
  BY <1>1, <1>2, CircuitFields DEF Reported

LEMMA MapCommitStep ==
    ASSUME Typed, MapCommit
    PROVE  /\ PassDone /\ todo # <<>> /\ Head(todo) = "map-identity" /\ UNCHANGED <<file, parent>>
           /\ DOMAIN module' = 1..Size
           /\ \A i \in 1..Size : /\ module'[i].stage = "architecture"
                                  /\ module'[i].note = module[i].note
                                  /\ module'[i].form = module[i].form
<1>1. /\ module' = [i \in 1..Size |-> [module[i] EXCEPT !.stage = "architecture"]]
      /\ \A i \in 1..Size : module[i] \in Circuit
  BY ModuleShape DEF MapCommit
<1> QED
  BY <1>1 DEF MapCommit, Starting, Circuit, outside

LEMMA AllOrNoneNext == Typed /\ CloneFollows /\ AllOrNone /\ [Next]_vars => AllOrNone'
<1> SUFFICES ASSUME Typed, CloneFollows, AllOrNone, [Next]_vars
             PROVE  AllOrNone'
  OBVIOUS
<1>1. job' = job /\ Size' = Size
  BY ModuleSteps DEF Size
<1>2. CASE MapCommit
  BY <1>1, <1>2, MapCommitStep DEF AllOrNone
<1>3. CASE Commit
  <2>1. /\ module' = working
        /\ \A i \in 1..Size : /\ working[i].stage = module[i].stage
                               /\ working[i].note = working[i].form /\ working[i].form \in Forms
    BY <1>3, CommitStep
  <2>2. \A i \in 1..Size : working[i].note # "none"
    BY <2>1 DEF Forms
  <2> QED
    BY <1>1, <2>1, <2>2 DEF AllOrNone
<1>4. CASE module' = module
  BY <1>1, <1>4 DEF AllOrNone
<1> QED
  BY <1>2, <1>3, <1>4, ModuleSteps

LEMMA AllOrNoneAlways == Spec => []AllOrNone
<1>1. Init => AllOrNone
  BY JobType DEF Init, AllOrNone
<1> QED
  BY <1>1, AllOrNoneNext, TypedAlways, CloneAlways, PTL DEF Spec

\* A pass changes all the circuits of the module or none, whatever the module,
\* the pipeline and the step at which the compiler fails or is killed; and no
\* broken circuit gets into the module.
THEOREM AtomicPasses == Spec => []PassesAreAtomic
<1>1. Typed /\ CloneFollows /\ AllOrNone => PassesAreAtomic
  <2> SUFFICES ASSUME Typed, CloneFollows, AllOrNone
               PROVE  PassesAreAtomic
    OBVIOUS
  <2>1. DOMAIN module = 1..Size /\ \A i \in 1..Size : job.module[i].note = "none"
    BY ModuleShape, JobType
  <2>2. ASSUME NEW i \in 1..Size, NEW j \in 1..Size
        PROVE  module[i].note = job.module[i].note <=> module[j].note = job.module[j].note
    BY <2>1 DEF AllOrNone
  <2>3. ASSUME NEW i \in 1..Size, NEW j \in 1..Size,
               module[i].stage = job.module[i].stage, job.module[i].stage # "architecture"
        PROVE  module[j].stage = job.module[j].stage
    BY <2>3 DEF AllOrNone
  <2> QED
    BY <2>1, <2>2, <2>3 DEF PassesAreAtomic, CloneFollows
<1> QED
  BY <1>1, TypedAlways, CloneAlways, AllOrNoneAlways, PTL

-----------------------------------------------------------------------------
(***************************************************************************)
(* The report: written from the verified clone, and then the clone is      *)
(* taken over.                                                             *)
(***************************************************************************)
ReportWritten ==
    parent = "waiting" /\ pc = "commit" => reportFile = Whole([i \in 1..Size |-> working[i].note])

ReportSound == ReportsAreVerified /\ ReportWritten

\* Few steps write the report file; the parent only removes it.
LEMMA ReportSteps ==
    ASSUME [Next]_vars
    PROVE  \/ OpenReport \/ WriteReport
           \/ reportFile' = NoFile /\ parent' # "waiting"
           \/ UNCHANGED reportFile /\ (pc' = "commit" => pc = "commit" /\ UNCHANGED working)
                                  /\ (parent' = "waiting" => parent = "waiting")
<1> USE DEF outside, file, Fail, PassDone
<1>1. CASE LogicalOpt \/ LogicalOptFails \/ MapValidate \/ VerifyTarget \/ MapCommit
  BY <1>1 DEF LogicalOpt, LogicalOptFails, MapValidate, VerifyTarget, MapCommit
<1>2. CASE QRiskStart \/ Preflight \/ VerifyWorking \/ Commit
  BY <1>2 DEF QRiskStart, Preflight, VerifyWorking, Commit
<1>3. CASE Apply \/ OpenReport \/ WriteReport
  BY <1>3 DEF Apply
<1>4. CASE ApplyFails \/ OpenReportFails \/ WriteReportFails \/ ExportFails
  BY <1>4 DEF ApplyFails, OpenReportFails, WriteReportFails, ExportFails
<1>5. CASE OpenExport \/ WriteExport
  BY <1>5 DEF OpenExport, WriteExport
<1>6. CASE Kill \/ ReportFailure \/ TakeResult
  <2>1. Cleanup /\ parent' # "waiting" /\ UNCHANGED <<pc, working>>
    BY <1>6 DEF Kill, ReportFailure, TakeResult
  <2> QED
    BY <2>1 DEF Cleanup
<1>7. CASE UNCHANGED vars
  BY <1>7 DEF vars
<1> QED
  BY <1>1, <1>2, <1>3, <1>4, <1>5, <1>6, <1>7 DEF Next, Compiler

LEMMA ReportSoundNext == Typed /\ CloneFollows /\ ReportSound /\ [Next]_vars => ReportSound'
<1> SUFFICES ASSUME Typed, CloneFollows, ReportSound, [Next]_vars
             PROVE  ReportSound'
  OBVIOUS
<1>1. job' = job /\ Size' = Size /\ Size \in Nat
  BY ModuleSteps, ModuleShape DEF Size
<1>2. CASE OpenReport
  <2>1. reportFile'.state = "partial" /\ pc' = "write"
    BY <1>2 DEF OpenReport, Truncated
  <2> QED
    BY <2>1 DEF ReportSound, ReportsAreVerified, ReportWritten
<1>3. CASE WriteReport
  <2>1. /\ pc = "write" /\ pc' = "commit" /\ working' = working /\ working \in [1..Size -> Circuit]
        /\ reportFile' = Whole([i \in 1..Size |-> working[i].note])
    BY <1>3 DEF WriteReport, Typed, AtPass, Cloned
  <2>2. \A i \in 1..Size : working[i].note \in {"source", "mitigated"}
    <3>1. \A i \in 1..Size : Reported(i) /\ working[i].form # "broken"
      BY <2>1 DEF CloneFollows
    <3>2. \A i \in 1..Size : working[i].form \in Forms
      BY <2>1, CircuitFields
    <3> QED
      BY <3>1, <3>2 DEF Reported, Forms
  <2>3. reportFile'.circuits = [i \in 1..Size |-> working[i].note]
    BY <2>1 DEF Whole
  <2>4. [i \in 1..Size |-> working[i].note] \in [1..Size -> {"source", "mitigated"}]
    BY <2>2
  <2>5. Len(reportFile'.circuits) = Size /\ DOMAIN reportFile'.circuits = 1..Size
    BY <1>1, <2>3, <2>4, FunctionIsSeq
  <2>6. ReportsAreVerified'
    BY <1>1, <2>2, <2>3, <2>5 DEF ReportsAreVerified, Size
  <2>7. ReportWritten'
    BY <1>1, <2>1 DEF ReportWritten
  <2> QED
    BY <2>6, <2>7 DEF ReportSound
<1>4. CASE reportFile' = NoFile /\ parent' # "waiting"
  BY <1>4 DEF NoFile, ReportSound, ReportsAreVerified, ReportWritten
<1>5. CASE /\ UNCHANGED reportFile /\ (pc' = "commit" => pc = "commit" /\ UNCHANGED working)
           /\ (parent' = "waiting" => parent = "waiting")
  BY <1>1, <1>5 DEF ReportSound, ReportsAreVerified, ReportWritten
<1> QED
  BY <1>2, <1>3, <1>4, <1>5, ReportSteps

LEMMA ReportSoundAlways == Spec => []ReportSound
<1>1. Init => ReportSound
  <2> SUFFICES ASSUME Init
               PROVE  ReportSound
    OBVIOUS
  <2>1. reportFile = Whole(<<"old">>) \/ reportFile = NoFile
    BY DEF Init
  <2> QED
    BY <2>1 DEF Init, Whole, NoFile, ReportSound, ReportsAreVerified, ReportWritten
<1> QED
  BY <1>1, ReportSoundNext, TypedAlways, CloneAlways, PTL DEF Spec

\* Whatever fails or is killed and whenever, a report that can be read after it
\* is either the older one or describes, circuit by circuit, what the verifier
\* accepted: a broken reordering never gets into a report.
THEOREM VerifiedReports == Spec => []ReportsAreVerified
<1>1. ReportSound => ReportsAreVerified
  BY DEF ReportSound
<1> QED
  BY <1>1, ReportSoundAlways, PTL

-----------------------------------------------------------------------------
(***************************************************************************)
(* What the finished passes established.                                   *)
(***************************************************************************)
Ran == Len(job.passes) - Len(todo)
Finished(kinds) == \E i \in 1..Ran : job.passes[i] \in kinds
FinalExport ==
    \E i \in 1..Ran :
        /\ job.passes[i] = "export-qiskit"
        /\ \A k \in 1..Len(job.passes) : k > i => job.passes[k] # "qrisk-mitigate"

FormsOf(circuits) == [i \in 1..Size |-> circuits[i].form]

\* The passes to do are the last ones of the pipeline.
Remaining ==
    /\ Len(todo) <= Len(job.passes)
    /\ \A k \in 1..Len(todo) : todo[k] = job.passes[Ran + k]

Established ==
    parent = "waiting" /\ pc # "exit 1" =>
        /\ pc \notin {"write", "commit"} /\ Finished(QRisk) => reportFile = Whole(FormsOf(module))
        /\ pc # "write export" /\ FinalExport => exportFile = Whole(FormsOf(module))
        /\ Finished({"verify-target"}) => \A i \in 1..Size : module[i].stage = "architecture"

LEMMA NextPass ==
    ASSUME Typed, Remaining, todo # <<>>, PassDone, job' = job
    PROVE  /\ Remaining' /\ Ran' = Ran + 1 /\ Ran \in Nat /\ Ran + 1 <= Len(job.passes)
           /\ job.passes[Ran + 1] = Head(todo) /\ Size' = Size /\ pc' \in {"pass", "exit 0"}
<1>1. /\ todo \in Seq(Passes) /\ job.passes \in Seq(Passes) /\ job \in Jobs
      /\ todo' = Tail(todo) /\ pc' \in {"pass", "exit 0"}
  <2>1. todo' = Tail(todo) /\ pc' \in {"pass", "exit 0"}
    BY DEF PassDone
  <2>2. todo \in Seq(Passes) /\ job \in Jobs
    BY ModuleShape
  <2> QED
    BY <2>1, <2>2, JobType
<1>2. /\ Len(todo) \in Nat \ {0} /\ Len(todo') = Len(todo) - 1 /\ Head(todo) = todo[1]
      /\ \A k \in 1..(Len(todo) - 1) : todo'[k] = todo[k + 1]
  <2>1. /\ Len(todo) \in Nat \ {0} /\ Len(Tail(todo)) = Len(todo) - 1 /\ Head(todo) = todo[1]
        /\ \A k \in 1..(Len(todo) - 1) : Tail(todo)[k] = todo[k + 1]
    BY <1>1, TailProperties
  <2> QED
    BY <1>1, <2>1
<1>3. Ran \in Nat /\ Ran' = Ran + 1 /\ Ran + 1 <= Len(job.passes) /\ Len(job.passes) \in Nat
  <2>1. Len(job.passes) \in Nat
    BY <1>1, LenProperties
  <2>2. Len(todo) <= Len(job.passes) /\ Ran = Len(job.passes) - Len(todo) /\ Ran' = Len(job.passes) - Len(todo')
    BY DEF Ran, Remaining
  <2> QED
    BY <1>2, <2>1, <2>2
<1>4. job.passes[Ran + 1] = Head(todo)
  BY <1>2 DEF Remaining
<1>5. ASSUME NEW k \in 1..(Len(todo) - 1)
      PROVE  todo'[k] = job.passes[Ran + 1 + k]
  <2>1. k + 1 \in 1..Len(todo) /\ Ran + (k + 1) = Ran + 1 + k
    BY <1>2, <1>3
  <2> QED
    BY <1>2, <2>1 DEF Remaining
<1>6. Remaining'
  <2>1. Len(todo') <= Len(job.passes)
    BY <1>2, <1>3 DEF Remaining
  <2>2. \A k \in 1..Len(todo') : todo'[k] = job.passes[Ran' + k]
    BY <1>2, <1>3, <1>5
  <2> QED
    BY <2>1, <2>2 DEF Remaining
<1> QED
  BY <1>1, <1>3, <1>4, <1>6 DEF Size

\* With the next pass finished, what was finished grows by it alone.
LEMMA FinishedGrows ==
    ASSUME Typed, Remaining, todo # <<>>, PassDone, job' = job
    PROVE  /\ \A kinds : Finished(kinds)' => Finished(kinds) \/ Head(todo) \in kinds
           /\ FinalExport' => FinalExport \/ Head(todo) = "export-qiskit"
<1>1. /\ Ran' = Ran + 1 /\ Ran \in Nat /\ job.passes[Ran + 1] = Head(todo)
      /\ \A i \in 1..(Ran + 1) : i \in 1..Ran \/ i = Ran + 1
  <2>1. Ran' = Ran + 1 /\ Ran \in Nat /\ job.passes[Ran + 1] = Head(todo)
    BY NextPass
  <2> QED
    BY <2>1
<1>2. \A kinds : Finished(kinds)' => Finished(kinds) \/ Head(todo) \in kinds
  BY <1>1 DEF Finished
<1>3. FinalExport' => FinalExport \/ Head(todo) = "export-qiskit"
  BY <1>1 DEF FinalExport
<1> QED
  BY <1>2, <1>3

\* A pass that changes nothing of the module and no file.
LEMMA QuietPass ==
    ASSUME Typed, Remaining, Established, todo # <<>>, PassDone,
           UNCHANGED <<job, parent, reportFile, exportFile>>, pc = "pass",
           \A i \in 1..Size : module'[i].form = module[i].form,
           \A i \in 1..Size : module[i].stage = "architecture" => module'[i].stage = "architecture",
           Head(todo) \notin QRisk, Head(todo) # "export-qiskit",
           Head(todo) = "verify-target" => \A i \in 1..Size : module'[i].stage = "architecture"
    PROVE  Established'
<1>1. Size' = Size /\ FormsOf(module)' = FormsOf(module)
  BY DEF Size, FormsOf
<1>2. SUFFICES ASSUME parent = "waiting"
               PROVE  Established'
  BY DEF Established
<1>3. Finished(QRisk)' => reportFile' = Whole(FormsOf(module))
  BY <1>2, FinishedGrows DEF Established
<1>4. FinalExport' => exportFile' = Whole(FormsOf(module))
  BY <1>2, FinishedGrows DEF Established
<1>5. Finished({"verify-target"})' => \A i \in 1..Size : module'[i].stage = "architecture"
  <2>1. Finished({"verify-target"})' => Finished({"verify-target"}) \/ Head(todo) = "verify-target"
    BY FinishedGrows
  <2> QED
    BY <1>2, <2>1 DEF Established
<1> QED
  BY <1>1, <1>3, <1>4, <1>5 DEF Established

\* A step inside a pass.
LEMMA StepInPass ==
    ASSUME Established, UNCHANGED <<job, todo, parent, module, reportFile, exportFile>>,
           pc # "exit 1", pc \in {"write", "commit"} => pc' \in {"write", "commit", "exit 1"},
           pc = "write export" => pc' \in {"write export", "exit 1"}
    PROVE  Established'
<1>1. /\ Ran' = Ran /\ Size' = Size /\ FormsOf(module)' = FormsOf(module) /\ FinalExport' = FinalExport
      /\ Finished(QRisk)' = Finished(QRisk) /\ Finished({"verify-target"})' = Finished({"verify-target"})
  BY DEF Ran, Size, FormsOf, FinalExport, Finished
<1> QED
  BY <1>1 DEF Established

LEMMA RemainingNext == Typed /\ Remaining /\ [Next]_vars => Remaining'
<1> SUFFICES ASSUME Typed, Remaining, [Next]_vars
             PROVE  Remaining'
  OBVIOUS
<1>1. job' = job
  BY ModuleSteps
<1>2. ASSUME UNCHANGED todo
      PROVE  Remaining'
  BY <1>1, <1>2 DEF Remaining, Ran
<1>3. ASSUME todo # <<>>, PassDone
      PROVE  Remaining'
  BY <1>1, <1>3, NextPass
<1>4. CASE LogicalOpt \/ LogicalOptFails \/ MapValidate \/ VerifyTarget \/ MapCommit
  BY <1>2, <1>3, <1>4 DEF LogicalOpt, LogicalOptFails, MapValidate, VerifyTarget, MapCommit, Starting, Fail
<1>5. CASE QRiskStart \/ Preflight \/ VerifyWorking \/ Apply \/ OpenReport \/ WriteReport
  BY <1>2, <1>5 DEF QRiskStart, Preflight, VerifyWorking, Apply, OpenReport, WriteReport, Fail
<1>6. CASE Commit
  BY <1>3, <1>6 DEF Commit, Typed, AtPass, Cloned
<1>7. CASE ApplyFails \/ OpenReportFails \/ WriteReportFails \/ ExportFails
  BY <1>2, <1>7 DEF ApplyFails, OpenReportFails, WriteReportFails, ExportFails, Fail
<1>8. CASE OpenExport
  BY <1>2, <1>8 DEF OpenExport, Fail
<1>9. CASE WriteExport
  BY <1>3, <1>9 DEF WriteExport, Typed, AtPass
<1>10. CASE Kill \/ ReportFailure \/ TakeResult
  BY <1>2, <1>10 DEF Kill, ReportFailure, TakeResult
<1>11. CASE UNCHANGED vars
  BY <1>2, <1>11 DEF vars
<1> QED
  BY <1>4, <1>5, <1>6, <1>7, <1>8, <1>9, <1>10, <1>11 DEF Next, Compiler

LEMMA EstablishedNext ==
    Typed /\ CloneFollows /\ ReportSound /\ Remaining /\ Established /\ [Next]_vars => Established'
<1> SUFFICES ASSUME Typed, CloneFollows, ReportSound, Remaining, Established, [Next]_vars,
                    parent' = "waiting", pc' # "exit 1"
             PROVE  Established'
  BY DEF Established
<1>1. AtPass /\ Size \in Nat /\ DOMAIN module = 1..Size /\ job' = job /\ Size' = Size
  BY ModuleShape, ModuleSteps DEF Typed, Size
<1>2. ~Fail
  BY DEF Fail
<1>3. CASE LogicalOpt \/ LogicalOptFails
  <2>1. /\ todo # <<>> /\ pc = "pass" /\ Head(todo) = "logical-opt" /\ PassDone
        /\ UNCHANGED <<job, parent, module, reportFile, exportFile>>
    BY <1>2, <1>3 DEF LogicalOpt, LogicalOptFails, Starting, outside, file
  <2> QED
    BY <2>1, QuietPass DEF QRisk
<1>4. CASE MapValidate
  <2>1. pc = "pass" /\ UNCHANGED <<job, todo, parent, module, reportFile, exportFile, pc>>
    BY <1>2, <1>4 DEF MapValidate, Starting, outside, file
  <2> QED
    BY <2>1, StepInPass
<1>5. CASE MapCommit
  <2>1. /\ PassDone /\ todo # <<>> /\ Head(todo) = "map-identity" /\ UNCHANGED <<file, parent>>
        /\ \A i \in 1..Size : module'[i].stage = "architecture" /\ module'[i].form = module[i].form
    BY <1>5, MapCommitStep
  <2>2. pc = "pass"
    BY <1>5 DEF MapCommit, Starting
  <2> QED
    BY <1>1, <2>1, <2>2, QuietPass DEF QRisk, file
<1>6. CASE VerifyTarget
  <2>1. /\ todo # <<>> /\ pc = "pass" /\ Head(todo) = "verify-target" /\ PassDone
        /\ UNCHANGED <<job, parent, module, reportFile, exportFile>>
        /\ \A i \in 1..Size : module[i].stage = "architecture"
    BY <1>1, <1>2, <1>6 DEF VerifyTarget, Starting, outside, file
  <2> QED
    BY <2>1, QuietPass DEF QRisk
<1>7. CASE QRiskStart
  <2>1. pc = "pass" /\ UNCHANGED <<job, todo, parent, module, reportFile, exportFile>>
    BY <1>2, <1>7 DEF QRiskStart, Starting, outside, file
  <2> QED
    BY <2>1, StepInPass
<1>8. CASE Preflight \/ Apply \/ VerifyWorking
  <2>1. /\ pc \in {"preflight", "apply", "verify"}
        /\ UNCHANGED <<job, todo, parent, module, reportFile, exportFile>>
    BY <1>2, <1>8 DEF Preflight, Apply, VerifyWorking, outside, file
  <2> QED
    BY <2>1, StepInPass
<1>9. CASE ApplyFails \/ OpenReportFails \/ WriteReportFails \/ ExportFails
  BY <1>2, <1>9 DEF ApplyFails, OpenReportFails, WriteReportFails, ExportFails
<1>10. CASE OpenReport \/ WriteReport
  <2>1. /\ pc \in {"open", "write"} /\ pc' \in {"write", "commit"}
        /\ UNCHANGED <<job, todo, parent, module, exportFile>>
    BY <1>10 DEF OpenReport, WriteReport, outside
  <2>2. /\ Ran' = Ran /\ FormsOf(module)' = FormsOf(module) /\ FinalExport' = FinalExport
        /\ Finished({"verify-target"})' = Finished({"verify-target"})
    BY <1>1, <2>1 DEF Ran, FormsOf, FinalExport, Finished
  <2> QED
    BY <1>1, <2>1, <2>2 DEF Established
<1>11. CASE Commit
  <2>1. /\ todo # <<>> /\ Head(todo) \in QRisk /\ PassDone /\ module' = working
        /\ \A i \in 1..Size : /\ working[i].stage = module[i].stage
                               /\ working[i].note = working[i].form
    BY <1>11, CommitStep
  <2>2. /\ pc = "commit" /\ parent = "waiting" /\ UNCHANGED <<reportFile, exportFile>>
        /\ pc' \in {"pass", "exit 0"}
    BY <1>11, <2>1 DEF Commit, Running, PassDone, file, outside
  <2>3. FormsOf(module)' = [i \in 1..Size |-> working[i].note]
    BY <1>1, <2>1 DEF FormsOf
  <2>4. reportFile' = Whole(FormsOf(module)')
    BY <2>2, <2>3 DEF ReportSound, ReportWritten
  <2>5. FinalExport' => exportFile' = Whole(FormsOf(module)')
    <3>1. SUFFICES ASSUME FinalExport'
                   PROVE  exportFile' = Whole(FormsOf(module)')
      OBVIOUS
    <3>2. FinalExport
      BY <1>1, <2>1, <3>1, FinishedGrows DEF QRisk
    <3>3. Head(todo) # "qrisk-mitigate"
      <4>1. /\ job.passes[Ran + 1] = Head(todo) /\ Ran \in Nat /\ Ran + 1 <= Len(job.passes)
            /\ Len(job.passes) \in Nat
        BY <1>1, <2>1, NextPass, JobType, ModuleShape, LenProperties
      <4>2. PICK i \in 1..Ran : \A k \in 1..Len(job.passes) : k > i => job.passes[k] # "qrisk-mitigate"
        BY <3>2 DEF FinalExport
      <4>3. Ran + 1 \in 1..Len(job.passes) /\ Ran + 1 > i
        <5>1. Ran \in Nat /\ Ran + 1 <= Len(job.passes) /\ Len(job.passes) \in Nat
          BY <4>1
        <5> QED
          BY <4>2, <5>1, NextIndex
      <4> QED
        BY <4>1, <4>2, <4>3
    <3>4. \A i \in 1..Size : working[i].form = module[i].form
      BY <2>1, <2>2, <3>3 DEF CloneFollows, Reported, QRisk
    <3>5. FormsOf(module)' = FormsOf(module)
      BY <1>1, <2>1, <3>4 DEF FormsOf
    <3> QED
      BY <2>2, <3>2, <3>5 DEF Established
  <2>6. Finished({"verify-target"})' => \A i \in 1..Size : module'[i].stage = "architecture"
    <3>1. Finished({"verify-target"})' => Finished({"verify-target"})
      BY <1>1, <2>1, FinishedGrows DEF QRisk
    <3> QED
      BY <2>1, <2>2, <3>1 DEF Established
  <2> QED
    BY <1>1, <2>4, <2>5, <2>6 DEF Established
<1>12. CASE OpenExport
  <2>1. /\ pc = "pass" /\ pc' = "write export"
        /\ UNCHANGED <<job, todo, parent, module, reportFile>>
    BY <1>2, <1>12 DEF OpenExport, Starting, outside
  <2>2. /\ Ran' = Ran /\ FormsOf(module)' = FormsOf(module) /\ Finished(QRisk)' = Finished(QRisk)
        /\ Finished({"verify-target"})' = Finished({"verify-target"})
    BY <1>1, <2>1 DEF Ran, FormsOf, Finished
  <2> QED
    BY <1>1, <2>1, <2>2 DEF Established
<1>13. CASE WriteExport
  <2>1. /\ pc = "write export" /\ todo # <<>> /\ Head(todo) = "export-qiskit" /\ PassDone
        /\ UNCHANGED <<job, parent, module, reportFile>> /\ parent = "waiting"
        /\ exportFile' = Whole([i \in 1..Size |-> module[i].form])
    BY <1>1, <1>13 DEF WriteExport, AtPass, Running, outside
  <2>2. FormsOf(module)' = FormsOf(module) /\ exportFile' = Whole(FormsOf(module))
    BY <1>1, <2>1 DEF FormsOf
  <2>3. Finished(QRisk)' => Finished(QRisk)
    BY <2>1, FinishedGrows DEF QRisk
  <2>4. Finished({"verify-target"})' => Finished({"verify-target"})
    BY <2>1, FinishedGrows
  <2> QED
    BY <1>1, <2>1, <2>2, <2>3, <2>4 DEF Established
<1>14. CASE Kill \/ ReportFailure \/ TakeResult
  BY <1>14 DEF Kill, ReportFailure, TakeResult
<1>15. CASE UNCHANGED vars
  <2>1. UNCHANGED <<job, todo, parent, module, reportFile, exportFile, pc>>
    BY <1>15 DEF vars
  <2> QED
    BY <2>1, StepInPass
<1> QED
  BY <1>3, <1>4, <1>5, <1>6, <1>7, <1>8, <1>9, <1>10, <1>11, <1>12, <1>13, <1>14, <1>15
     DEF Next, Compiler

\* What the parent takes is what the passes left when all were finished.
LEMMA ReturnedNext ==
    Typed /\ Remaining /\ Established /\ ResultsTogether /\ [Next]_vars => ResultsTogether'
<1> SUFFICES ASSUME Typed, Remaining, Established, ResultsTogether, [Next]_vars
             PROVE  ResultsTogether'
  OBVIOUS
<1>1. job' = job /\ job \in Jobs /\ job.passes \in Seq(Passes)
  BY ModuleSteps, ModuleShape, JobType
<1>2. CASE TakeResult
  <2>1. /\ parent = "waiting" /\ pc = "exit 0" /\ Len(todo) = 0
        /\ result' = [module |-> module, report |-> reportFile, payload |-> exportFile]
    BY <1>2 DEF TakeResult, Typed, AtPass
  <2>2. DOMAIN module = 1..Size /\ \A i \in 1..Size : module[i] \in Circuit
    BY ModuleShape
  <2>3. Ran = Len(job.passes) /\ DOMAIN job.passes = 1..Ran
    <3>1. Len(job.passes) \in Nat /\ DOMAIN job.passes = 1..Len(job.passes)
      BY <1>1, LenProperties
    <3>2. Ran = Len(job.passes)
      <4>1. Len(todo) = 0 /\ Len(job.passes) \in Nat
        BY <2>1, <3>1
      <4> QED
        BY <4>1 DEF Ran
    <3> QED
      BY <3>1, <3>2
  <2>4. \A kinds : Uses(job.passes, kinds) => Finished(kinds)
    BY <2>3 DEF Uses, Finished
  <2>5. ExportsFinalOrder(job.passes) => FinalExport
    BY <2>3 DEF ExportsFinalOrder, FinalExport
  <2>6. /\ Uses(job.passes, QRisk) => result'.report = Whole([i \in DOMAIN result'.module |-> result'.module[i].form])
        /\ ExportsFinalOrder(job.passes) =>
              result'.payload = Whole([i \in DOMAIN result'.module |-> result'.module[i].form])
    BY <2>1, <2>2, <2>4, <2>5 DEF Established, FormsOf
  <2>7. Uses(job.passes, {"verify-target"}) =>
            \A i \in 1..Size : module[i].stage = "architecture" /\ module[i].routable
    BY <2>1, <2>2, <2>4, CircuitFields DEF Established
  <2> QED
    BY <1>1, <2>1, <2>2, <2>6, <2>7 DEF ResultsTogether
<1>3. CASE parent' # "returned"
  BY <1>3 DEF ResultsTogether
<1>4. CASE UNCHANGED <<parent, result>>
  BY <1>1, <1>4 DEF ResultsTogether
<1>5. TakeResult \/ parent' # "returned" \/ UNCHANGED <<parent, result>>
  <2> USE DEF outside, Fail, PassDone
  <2>1. CASE LogicalOpt \/ LogicalOptFails \/ MapValidate \/ VerifyTarget \/ MapCommit
    BY <2>1 DEF LogicalOpt, LogicalOptFails, MapValidate, VerifyTarget, MapCommit
  <2>2. CASE QRiskStart \/ Preflight \/ VerifyWorking \/ Commit
    BY <2>2 DEF QRiskStart, Preflight, VerifyWorking, Commit
  <2>3. CASE Apply \/ OpenReport \/ WriteReport
    BY <2>3 DEF Apply, OpenReport, WriteReport
  <2>4. CASE ApplyFails \/ OpenReportFails \/ WriteReportFails \/ ExportFails
    BY <2>4 DEF ApplyFails, OpenReportFails, WriteReportFails, ExportFails
  <2>5. CASE OpenExport \/ WriteExport
    BY <2>5 DEF OpenExport, WriteExport
  <2>6. CASE Kill \/ ReportFailure \/ TakeResult
    BY <2>6 DEF Kill, ReportFailure
  <2>7. CASE UNCHANGED vars
    BY <2>7 DEF vars
  <2> QED
    BY <2>1, <2>2, <2>3, <2>4, <2>5, <2>6, <2>7 DEF Next, Compiler
<1> QED
  BY <1>2, <1>3, <1>4, <1>5

\* What a run returns belongs together, whatever its pipeline: the report has
\* the verified order of every circuit that is printed, the export has that of
\* the same circuits unless its pipeline reorders them later, and a pipeline
\* with verify-target returns circuits that respect their target.
THEOREM ReturnedTogether == Spec => []ResultsTogether
<1>1. Init => Remaining /\ Established /\ ResultsTogether
  <2> SUFFICES ASSUME Init
               PROVE  Remaining /\ Established /\ ResultsTogether
    OBVIOUS
  <2>1. Len(job.passes) \in Nat /\ todo = job.passes
    BY JobType, LenProperties DEF Init
  <2>2. Ran = 0
    BY <2>1 DEF Ran
  <2>3. Remaining
    BY <2>1, <2>2 DEF Remaining
  <2>4. Established
    <3>1. 1..Ran = {}
      BY <2>2
    <3> QED
      BY <3>1 DEF Established, Finished, FinalExport
  <2> QED
    BY <2>3, <2>4 DEF Init, ResultsTogether
<1>2. Spec => []Remaining
  BY <1>1, RemainingNext, TypedAlways, PTL DEF Spec
<1>3. Spec => []Established
  BY <1>1, <1>2, EstablishedNext, TypedAlways, CloneAlways, ReportSoundAlways, PTL DEF Spec
<1> QED
  BY <1>1, <1>2, <1>3, ReturnedNext, TypedAlways, PTL DEF Spec
=============================================================================
