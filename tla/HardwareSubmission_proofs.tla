---------------------- MODULE HardwareSubmission_proofs ----------------------
(***************************************************************************)
(* Proofs about the hardware workflow, for any number of invocations,      *)
(* batches, jobs and failures.  The invariant is built in four layers,     *)
(* each inductive relative to those before it: the types, the lock, the    *)
(* copies of the plan, and the link between plan, requests and jobs.       *)
(***************************************************************************)
EXTENDS HardwareSubmission, WellFoundedInduction, TLAPS

USE SubmissionAssumption

\* Where a loop is while it works on a batch.
AtBatch ==
    \A p \in Procs :
        /\ pc[p] \in {"call", "wait", "save", "manifest"} => at[p] \in Batches /\ count[p] < MaxJobs
        /\ pc[p] = "mark" => at[p] \in Batches

Typed == TypeOK /\ AtBatch

\* The lock file excludes: at most one invocation is past it, none past the
\* file of a killed one; and the file is always somebody's.
Exclusive ==
    /\ \A p \in Procs : Inside(p) => lock /\ ~stale
    /\ lock => stale \/ \E p \in Procs : Inside(p)
    /\ stale => lock
    /\ \A p, q \in Procs : Inside(p) /\ Inside(q) => p = q

-----------------------------------------------------------------------------
(***************************************************************************)
(* Types.                                                                  *)
(***************************************************************************)
LEMMA TypedInit == Init => Typed
<1> SUFFICES ASSUME Init
             PROVE  Typed
  OBVIOUS
<1>1. Prepared \in Plans
  BY DEF Prepared, Plans, States
<1>2. TypeOK
  <2>1. plan \in Plans /\ copy \in [Procs -> Plans]
    BY <1>1 DEF Init
  <2>2. /\ records \in [Batches -> Jobs \cup {NoJob}] /\ job \in [Procs -> Jobs \cup {NoJob}]
        /\ summary \in [recorded : SUBSET Batches, collected : SUBSET Batches]
    BY DEF Init
  <2>3. tag \in [Jobs -> Batches \cup {Nowhere, Unused}] /\ requests \subseteq Batches
    BY DEF Init
  <2>4. at \in [Procs -> 1..(BatchCount + 1)] /\ count \in [Procs -> 0..MaxJobs]
          /\ failures \in 0..MaxFailures
    BY DEF Init
  <2> QED
    BY <2>1, <2>2, <2>3, <2>4 DEF Init, TypeOK
<1>3. AtBatch
  BY DEF Init, AtBatch
<1> QED
  BY <1>2, <1>3 DEF Typed

\* Replacing an entry of a copy and writing the copy keeps the types.
LEMMA SetBatchTyped ==
    ASSUME Typed, NEW p \in Procs, NEW b \in Batches,
           NEW entry \in [state : States, job : Jobs \cup {NoJob}], SetBatch(p, b, entry)
    PROVE  /\ copy' \in [Procs -> Plans] /\ plan' \in Plans
           /\ plan' = [copy[p] EXCEPT ![b] = entry] /\ copy'[p] = plan'
           /\ \A q \in Procs : q # p => copy'[q] = copy[q]
<1>1. copy \in [Procs -> Plans]
  BY DEF Typed, TypeOK
<1>2. [copy[p] EXCEPT ![b] = entry] \in Plans
  BY <1>1 DEF Plans
<1>3. copy' = [copy EXCEPT ![p] = [copy[p] EXCEPT ![b] = entry]]
  BY DEF SetBatch
<1> QED
  BY <1>1, <1>2, <1>3 DEF SetBatch

LEMMA TypedNext == Typed /\ [Next]_vars => Typed'
<1> SUFFICES ASSUME Typed, [Next]_vars
             PROVE  Typed'
  OBVIOUS
<1> USE DEF Typed, disk, lockFile, service, memory, Goto
<1>1. ASSUME NEW p \in Procs, NEW command \in {"submit", "attach", "collect"}, Start(p, command)
      PROVE  Typed'
  <2>1. Prepared \in Plans
    BY DEF Prepared, Plans, States
  <2>2. TypeOK'
    BY <1>1, <2>1 DEF Start, TypeOK, Batches
  <2>3. AtBatch'
    BY <1>1 DEF Start, TypeOK, AtBatch
  <2> QED
    BY <2>2, <2>3
<1>2. ASSUME NEW p \in Procs, AcquireLock(p) \/ LockRefused(p) \/ LoadPlan(p) \/ Unlock(p)
      PROVE  Typed'
  <2>1. TypeOK'
    <3>1. CASE AcquireLock(p)
      BY <3>1 DEF AcquireLock, TypeOK
    <3>2. CASE LockRefused(p) \/ Unlock(p)
      BY <3>2 DEF LockRefused, Unlock, TypeOK
    <3>3. CASE LoadPlan(p)
      BY <3>3 DEF LoadPlan, TypeOK
    <3> QED
      BY <1>2, <3>1, <3>2, <3>3
  <2>2. AtBatch'
    BY <1>2 DEF AcquireLock, LockRefused, LoadPlan, Unlock, TypeOK, AtBatch
  <2> QED
    BY <2>1, <2>2
<1>3. ASSUME NEW p \in Procs, NEW b \in Batches, MarkStarted(p, b)
      PROVE  Typed'
  <2> DEFINE entry == [state |-> "submission_started", job |-> NoJob]
  <2>1. SetBatch(p, b, entry) /\ entry \in [state : States, job : Jobs \cup {NoJob}]
    BY <1>3 DEF MarkStarted, States
  <2>2. copy' \in [Procs -> Plans] /\ plan' \in Plans
    BY <2>1, SetBatchTyped
  <2>3. b \in 1..(BatchCount + 1)
    BY DEF Batches
  <2>4. TypeOK'
    BY <1>3, <2>2, <2>3 DEF MarkStarted, TypeOK
  <2>5. AtBatch'
    BY <1>3 DEF MarkStarted, TypeOK, AtBatch
  <2> QED
    BY <2>4, <2>5
<1>4. ASSUME NEW p \in Procs, SendRequest(p) \/ CallTimesOut(p) \/ SubmitEnds(p)
      PROVE  Typed'
  <2>1. TypeOK'
    BY <1>4 DEF SendRequest, CallTimesOut, SubmitEnds, TypeOK, AtBatch
  <2>2. AtBatch'
    BY <1>4 DEF SendRequest, CallTimesOut, SubmitEnds, TypeOK, AtBatch
  <2> QED
    BY <2>1, <2>2
<1>5. ASSUME NEW p \in Procs, NEW j \in Jobs, ReceiveJob(p, j)
      PROVE  Typed'
  <2>1. TypeOK'
    BY <1>5 DEF ReceiveJob, TypeOK
  <2>2. AtBatch'
    BY <1>5 DEF ReceiveJob, TypeOK, AtBatch
  <2> QED
    BY <2>1, <2>2
<1>6. ASSUME NEW p \in Procs, SaveJobId(p)
      PROVE  Typed'
  <2> DEFINE entry == [state |-> "submitted", job |-> job[p]]
  <2>1. SetBatch(p, at[p], entry) /\ entry \in [state : States, job : Jobs \cup {NoJob}]
          /\ at[p] \in Batches
    BY <1>6 DEF SaveJobId, States, TypeOK, AtBatch
  <2>2. copy' \in [Procs -> Plans] /\ plan' \in Plans
    BY <2>1, SetBatchTyped
  <2>3. TypeOK'
    BY <1>6, <2>2 DEF SaveJobId, TypeOK
  <2>4. AtBatch'
    BY <1>6 DEF SaveJobId, TypeOK, AtBatch
  <2> QED
    BY <2>3, <2>4
<1>7. ASSUME NEW p \in Procs, UpdateManifest(p)
      PROVE  Typed'
  <2>1. at[p] \in Batches /\ count[p] < MaxJobs /\ count[p] \in Nat
    BY <1>7 DEF UpdateManifest, AtBatch, TypeOK
  <2>2. at[p] + 1 \in 1..(BatchCount + 1) /\ count[p] + 1 \in 0..MaxJobs
    BY <2>1 DEF Batches
  <2>3. TypeOK'
    BY <1>7, <2>2 DEF UpdateManifest, TypeOK
  <2>4. AtBatch'
    BY <1>7 DEF UpdateManifest, TypeOK, AtBatch
  <2> QED
    BY <2>3, <2>4
<1>8. ASSUME NEW p \in Procs, NEW b \in Batches, NEW j \in Jobs, AttachJob(p, b, j)
      PROVE  Typed'
  <2> DEFINE entry == [state |-> "submitted", job |-> j]
  <2>1. SetBatch(p, b, entry) /\ entry \in [state : States, job : Jobs \cup {NoJob}]
    BY <1>8 DEF AttachJob, States
  <2>2. copy' \in [Procs -> Plans] /\ plan' \in Plans
    BY <2>1, SetBatchTyped
  <2>3. TypeOK'
    BY <1>8, <2>2 DEF AttachJob, TypeOK
  <2>4. AtBatch'
    BY <1>8 DEF AttachJob, TypeOK, AtBatch
  <2> QED
    BY <2>3, <2>4
<1>9. ASSUME NEW p \in Procs, AttachRefused(p) \/ WriteSummary(p)
      PROVE  Typed'
  <2>1. TypeOK'
    BY <1>9 DEF AttachRefused, WriteSummary, TypeOK
  <2>2. AtBatch'
    BY <1>9 DEF AttachRefused, WriteSummary, TypeOK, AtBatch
  <2> QED
    BY <2>1, <2>2
<1>10. ASSUME NEW p \in Procs, NEW b \in Batches, CollectLater(p, b)
       PROVE  Typed'
  <2>1. SetBatch(p, b, copy[p][b]) /\ copy[p][b] \in [state : States, job : Jobs \cup {NoJob}]
    BY <1>10 DEF CollectLater, TypeOK, Plans
  <2>2. copy' \in [Procs -> Plans] /\ plan' \in Plans
    BY <2>1, SetBatchTyped
  <2>3. b + 1 \in 1..(BatchCount + 1)
    BY DEF Batches
  <2>4. TypeOK'
    BY <1>10, <2>2, <2>3 DEF CollectLater, TypeOK
  <2>5. AtBatch'
    BY <1>10 DEF CollectLater, TypeOK, AtBatch
  <2> QED
    BY <2>4, <2>5
<1>11. ASSUME NEW p \in Procs, NEW b \in Batches, WriteRecord(p, b) \/ CollectAborts(p, b)
       PROVE  Typed'
  <2>1. copy[p][b] \in [state : States, job : Jobs \cup {NoJob}] /\ b \in 1..(BatchCount + 1)
    BY DEF TypeOK, Plans, Batches
  <2>2. TypeOK'
    <3>1. CASE WriteRecord(p, b)
      <4>1. records' \in [Batches -> Jobs \cup {NoJob}] /\ at' \in [Procs -> 1..(BatchCount + 1)]
        BY <2>1, <3>1 DEF WriteRecord, TypeOK
      <4> QED
        BY <3>1, <4>1 DEF WriteRecord, TypeOK
    <3>2. CASE CollectAborts(p, b)
      BY <3>2 DEF CollectAborts, TypeOK
    <3> QED
      BY <1>11, <3>1, <3>2
  <2>3. AtBatch'
    BY <1>11 DEF WriteRecord, CollectAborts, TypeOK, AtBatch
  <2> QED
    BY <2>2, <2>3
<1>12. ASSUME NEW p \in Procs, MarkCollected(p)
       PROVE  Typed'
  <2> DEFINE entry == [copy[p][at[p]] EXCEPT !.state = "collected"]
  <2>1. at[p] \in Batches
    BY <1>12 DEF MarkCollected, AtBatch
  <2>2. copy[p][at[p]] \in [state : States, job : Jobs \cup {NoJob}]
    BY <2>1 DEF TypeOK, Plans
  <2>3. SetBatch(p, at[p], entry) /\ entry \in [state : States, job : Jobs \cup {NoJob}]
    BY <1>12, <2>2 DEF MarkCollected, States
  <2>4. copy' \in [Procs -> Plans] /\ plan' \in Plans
    BY <2>1, <2>3, SetBatchTyped
  <2>5. at[p] + 1 \in 1..(BatchCount + 1)
    BY <2>1 DEF Batches
  <2>6. TypeOK'
    BY <1>12, <2>4, <2>5 DEF MarkCollected, TypeOK
  <2>7. AtBatch'
    BY <1>12 DEF MarkCollected, TypeOK, AtBatch
  <2> QED
    BY <2>6, <2>7
<1>13. ASSUME NEW p \in Procs, Raise(p) \/ Kill(p)
       PROVE  Typed'
  <2>1. TypeOK'
    <3>1. CASE Raise(p)
      BY <3>1 DEF Raise, TypeOK
    <3>2. CASE Kill(p) /\ Inside(p)
      BY <3>2 DEF Kill, TypeOK
    <3>3. CASE Kill(p) /\ ~Inside(p)
      BY <3>3 DEF Kill, TypeOK
    <3> QED
      BY <1>13, <3>1, <3>2, <3>3
  <2>2. AtBatch'
    BY <1>13 DEF Raise, Kill, TypeOK, AtBatch
  <2> QED
    BY <2>1, <2>2
<1>14. CASE Service
  <2>1. TypeOK'
    BY <1>14 DEF Service, LoseRequest, CreateJob, FinishJob, TypeOK
  <2>2. AtBatch'
    BY <1>14 DEF Service, LoseRequest, CreateJob, FinishJob, AtBatch
  <2> QED
    BY <2>1, <2>2
<1>15. CASE RemoveStaleLock
  BY <1>15 DEF RemoveStaleLock, TypeOK, AtBatch
<1>16. CASE UNCHANGED vars
  BY <1>16 DEF vars, TypeOK, AtBatch
<1> QED
  BY <1>1, <1>2, <1>3, <1>4, <1>5, <1>6, <1>7, <1>8, <1>9, <1>10, <1>11, <1>12, <1>13, <1>14,
     <1>15, <1>16 DEF Next, Run, Submit, Attach, Collect, User

-----------------------------------------------------------------------------
(***************************************************************************)
(* The lock.                                                               *)
(***************************************************************************)
LEMMA ExclusiveInit == Init => Exclusive
BY DEF Init, Exclusive, Inside

\* The steps of the invocations that are past the lock, the lock kept.
InsideStep(p) ==
    /\ Inside(p)
    /\ UNCHANGED lockFile /\ Inside(p)'
    /\ \A q \in Procs \ {p} : pc'[q] = pc[q]

LEMMA ExclusiveNext == Typed /\ Exclusive /\ [Next]_vars => Exclusive'
<1> SUFFICES ASSUME Typed, Exclusive, [Next]_vars
             PROVE  Exclusive'
  OBVIOUS
<1> USE DEF Goto, Inside, lockFile
<1>1. pc \in [Procs -> {"idle", "lock", "load", "next", "call", "wait", "save", "manifest",
                         "mark", "unlock"}]
  BY DEF Typed, TypeOK
<1>2. ASSUME NEW p \in Procs, InsideStep(p)
      PROVE  Exclusive'
  BY <1>2 DEF InsideStep, Exclusive
<1>3. ASSUME NEW p \in Procs, NEW command \in {"submit", "attach", "collect"}, Start(p, command)
      PROVE  Exclusive'
  BY <1>1, <1>3 DEF Start, Exclusive
<1>4. ASSUME NEW p \in Procs, AcquireLock(p)
      PROVE  Exclusive'
  BY <1>1, <1>4 DEF AcquireLock, Exclusive
<1>5. ASSUME NEW p \in Procs, LockRefused(p) \/ Kill(p)
      PROVE  Exclusive'
  <2>1. CASE LockRefused(p)
    BY <1>1, <2>1 DEF LockRefused, Exclusive
  <2>2. CASE Kill(p) /\ Inside(p)
    <3>1. \A q \in Procs : ~Inside(q)'
      BY <1>1, <2>2 DEF Kill, Exclusive
    <3>2. lock' /\ stale'
      BY <2>2 DEF Kill, Exclusive
    <3> QED
      BY <3>1, <3>2 DEF Exclusive
  <2>3. CASE Kill(p) /\ ~Inside(p)
    <3>1. (\A q \in Procs : Inside(q)' = Inside(q)) /\ lock' = lock /\ stale' = stale
      BY <1>1, <2>3 DEF Kill
    <3> QED
      BY <3>1 DEF Exclusive
  <2> QED
    BY <1>5, <2>1, <2>2, <2>3
<1>6. ASSUME NEW p \in Procs, Unlock(p)
      PROVE  Exclusive'
  BY <1>1, <1>6 DEF Unlock, Exclusive
<1>7. ASSUME NEW p \in Procs, LoadPlan(p) \/ Submit(p) \/ Attach(p) \/ Collect(p) \/ Raise(p)
      PROVE  InsideStep(p)
  <2>1. CASE LoadPlan(p) \/ Raise(p)
    BY <1>1, <2>1 DEF LoadPlan, Raise, InsideStep
  <2>2. CASE Submit(p)
    BY <1>1, <2>2 DEF Submit, MarkStarted, SendRequest, ReceiveJob, CallTimesOut, SaveJobId,
                      UpdateManifest, SubmitEnds, InsideStep
  <2>3. CASE Attach(p) \/ Collect(p)
    BY <1>1, <2>3 DEF Attach, AttachJob, AttachRefused, Collect, CollectLater, WriteRecord,
                      CollectAborts, MarkCollected, WriteSummary, InsideStep
  <2> QED
    BY <1>7, <2>1, <2>2, <2>3
<1>8. CASE Service
  BY <1>8 DEF Service, LoseRequest, CreateJob, FinishJob, Exclusive
<1>9. CASE RemoveStaleLock
  BY <1>9 DEF RemoveStaleLock, Exclusive
<1>10. CASE UNCHANGED vars
  BY <1>10 DEF vars, Exclusive
<1> QED
  BY <1>2, <1>3, <1>4, <1>5, <1>6, <1>7, <1>8, <1>9, <1>10 DEF Next, Run, User
-----------------------------------------------------------------------------
(***************************************************************************)
(* The copies of the plan.                                                 *)
(***************************************************************************)
LEMMA CopyInit == Init => CopyIsCurrent
BY DEF Init, CopyIsCurrent, Inside

LEMMA CopyNext == Typed /\ Exclusive /\ CopyIsCurrent /\ [Next]_vars => CopyIsCurrent'
<1> SUFFICES ASSUME Typed, Exclusive, CopyIsCurrent, [Next]_vars
             PROVE  CopyIsCurrent'
  OBVIOUS
<1> DEFINE past(l) == l \notin {"idle", "lock", "load", "unlock"}
<1> USE DEF Goto, Inside, disk, lockFile, service, memory
<1>1. pc \in [Procs -> {"idle", "lock", "load", "next", "call", "wait", "save", "manifest",
                         "mark", "unlock"}] /\ copy \in [Procs -> Plans]
  BY DEF Typed, TypeOK
<1>2. ASSUME UNCHANGED <<plan, copy>>, \A q \in Procs : past(pc'[q]) => past(pc[q])
      PROVE  CopyIsCurrent'
  BY <1>2 DEF CopyIsCurrent
<1>3. ASSUME NEW p \in Procs, Inside(p), plan' = copy'[p],
             \A q \in Procs \ {p} : pc'[q] = pc[q]
      PROVE  CopyIsCurrent'
  BY <1>3 DEF CopyIsCurrent, Exclusive
<1>4. ASSUME NEW p \in Procs, NEW command \in {"submit", "attach", "collect"}, Start(p, command)
      PROVE  CopyIsCurrent'
  BY <1>1, <1>4 DEF Start, CopyIsCurrent
<1>5. ASSUME NEW p \in Procs, AcquireLock(p) \/ LockRefused(p) \/ Unlock(p) \/ Raise(p) \/ Kill(p)
      PROVE  CopyIsCurrent'
  BY <1>1, <1>2, <1>5 DEF AcquireLock, LockRefused, Unlock, Raise, Kill
<1>6. ASSUME NEW p \in Procs, LoadPlan(p)
      PROVE  CopyIsCurrent'
  BY <1>1, <1>3, <1>6 DEF LoadPlan
<1>7. ASSUME NEW p \in Procs, Submit(p)
      PROVE  CopyIsCurrent'
  <2>1. ASSUME NEW b \in Batches, MarkStarted(p, b)
        PROVE  CopyIsCurrent'
    BY <1>1, <1>3, <2>1 DEF MarkStarted, SetBatch
  <2>2. CASE SaveJobId(p)
    BY <1>1, <1>3, <2>2 DEF SaveJobId, SetBatch
  <2>3. CASE SendRequest(p) \/ CallTimesOut(p) \/ UpdateManifest(p) \/ SubmitEnds(p)
    BY <1>1, <1>2, <2>3 DEF SendRequest, CallTimesOut, UpdateManifest, SubmitEnds
  <2>4. ASSUME NEW j \in Jobs, ReceiveJob(p, j)
        PROVE  CopyIsCurrent'
    BY <1>1, <1>2, <2>4 DEF ReceiveJob
  <2> QED
    BY <1>7, <2>1, <2>2, <2>3, <2>4 DEF Submit
<1>8. ASSUME NEW p \in Procs, Attach(p)
      PROVE  CopyIsCurrent'
  <2>1. ASSUME NEW b \in Batches, NEW j \in Jobs, AttachJob(p, b, j)
        PROVE  CopyIsCurrent'
    BY <1>1, <1>3, <2>1 DEF AttachJob, SetBatch
  <2>2. CASE AttachRefused(p)
    BY <1>1, <1>2, <2>2 DEF AttachRefused
  <2> QED
    BY <1>8, <2>1, <2>2 DEF Attach
<1>9. ASSUME NEW p \in Procs, Collect(p)
      PROVE  CopyIsCurrent'
  <2>1. ASSUME NEW b \in Batches, CollectLater(p, b)
        PROVE  CopyIsCurrent'
    BY <1>3, <2>1 DEF CollectLater, SetBatch
  <2>2. ASSUME NEW b \in Batches, WriteRecord(p, b) \/ CollectAborts(p, b)
        PROVE  CopyIsCurrent'
    BY <1>1, <1>2, <2>2 DEF WriteRecord, CollectAborts
  <2>3. CASE MarkCollected(p)
    BY <1>1, <1>3, <2>3 DEF MarkCollected, SetBatch
  <2>4. CASE WriteSummary(p)
    BY <1>1, <1>2, <2>4 DEF WriteSummary
  <2> QED
    BY <1>9, <2>1, <2>2, <2>3, <2>4 DEF Collect
<1>10. CASE Service \/ RemoveStaleLock \/ UNCHANGED vars
  BY <1>2, <1>10 DEF Service, LoseRequest, CreateJob, FinishJob, RemoveStaleLock, vars
<1> QED
  BY <1>4, <1>5, <1>6, <1>7, <1>8, <1>9, <1>10 DEF Next, Run, User

-----------------------------------------------------------------------------
(***************************************************************************)
(* The link between the plan, the requests and the jobs.                   *)
(***************************************************************************)
Started == [state |-> "submission_started", job |-> NoJob]

\* A request on its way is that of a batch the plan has as uncertain.
RequestsAnnounced == \A b \in requests : plan[b] = Started

\* Before the call nothing was asked for the batch; until the id is saved the
\* batch is uncertain; and the id to save is that of the batch's own job.
LoopState ==
    \A p \in Procs :
        /\ pc[p] \in {"call", "wait", "save"} => plan[at[p]] = Started
        /\ pc[p] = "call" => at[p] \notin requests /\ \A j \in Jobs : tag[j] # at[p]
        /\ pc[p] = "save" => job[p] \in Jobs /\ tag[job[p]] = at[p]
        /\ pc[p] = "mark" => plan[at[p]].job # NoJob

Safe == Typed /\ Exclusive /\ CopyIsCurrent

Charged == NoDoubleCharge /\ JobsAttributable /\ RequestsAnnounced /\ LoopState
LEMMA ChargedInit == Init => Charged
<1> SUFFICES ASSUME Init
             PROVE  Charged
  OBVIOUS
<1>1. \A b \in Batches, j \in Jobs : tag[j] # b
  BY DEF Init, Batches, Nowhere, Unused
<1>2. NoDoubleCharge /\ RequestsAnnounced
  BY <1>1 DEF Init, NoDoubleCharge, RequestsAnnounced
<1>3. JobsAttributable /\ LoopState
  BY <1>1 DEF Init, Prepared, JobsAttributable, LoopState
<1> QED
  BY <1>2, <1>3 DEF Charged

\* Under the lock, writing the copy changes one entry of the plan.
LEMMA PlanUpdate ==
    ASSUME Safe, NEW p \in Procs, Inside(p), pc[p] \notin {"load", "unlock"},
           NEW b \in Batches, NEW entry \in [state : States, job : Jobs \cup {NoJob}],
           SetBatch(p, b, entry)
    PROVE  /\ plan \in Plans /\ plan' \in Plans
           /\ plan'[b] = entry
           /\ \A c \in Batches \ {b} : plan'[c] = plan[c]
<1>1. plan' = [copy[p] EXCEPT ![b] = entry] /\ plan' \in Plans
  BY SetBatchTyped DEF Safe
<1>2. copy[p] = plan /\ plan \in Plans
  BY DEF Safe, CopyIsCurrent, Typed, TypeOK
<1> QED
  BY <1>1, <1>2 DEF Plans

\* The other invocations are not in the middle of a batch.
LEMMA OthersOutside ==
    ASSUME Safe, NEW p \in Procs, Inside(p), NEW q \in Procs, q # p
    PROVE  pc[q] \in {"idle", "lock"}
BY DEF Safe, Exclusive, Inside

\* A step that leaves the plan and the service alone, and in which no
\* invocation enters the middle of a batch.
LEMMA ChargedIdle ==
    ASSUME Safe, Charged, UNCHANGED <<plan, requests, tag>>,
           \A q \in Procs : pc'[q] \in {"call", "wait", "save", "mark"} =>
               pc'[q] = pc[q] /\ at'[q] = at[q] /\ job'[q] = job[q]
    PROVE  Charged'
BY DEF Charged, NoDoubleCharge, JobsAttributable, RequestsAnnounced, LoopState

\* A step that binds an uncertain batch to its job: the answer of the service
\* arrives, or the user attaches it.
LEMMA ChargedBind ==
    ASSUME Safe, Charged, NEW p \in Procs, Inside(p), pc[p] \notin {"load", "unlock"},
           NEW b \in Batches, NEW j \in Jobs, tag[j] = b,
           SetBatch(p, b, [state |-> "submitted", job |-> j]),
           UNCHANGED <<requests, tag>>,
           pc'[p] \in {"manifest", "unlock"},
           \A q \in Procs \ {p} : pc'[q] = pc[q]
    PROVE  Charged'
<1> DEFINE entry == [state |-> "submitted", job |-> j]
<1>1. entry \in [state : States, job : Jobs \cup {NoJob}]
  BY DEF States
<1>2. plan'[b] = entry /\ \A c \in Batches \ {b} : plan'[c] = plan[c]
  BY <1>1, PlanUpdate
<1>3. NoDoubleCharge'
  BY DEF Charged, NoDoubleCharge
<1>4. JobsAttributable'
  BY <1>2 DEF Charged, NoDoubleCharge, JobsAttributable
<1>5. RequestsAnnounced'
  <2>1. b \notin requests /\ requests \subseteq Batches
    BY DEF Charged, NoDoubleCharge, Safe, Typed, TypeOK
  <2> QED
    BY <1>2, <2>1 DEF Charged, RequestsAnnounced
<1>6. LoopState'
  BY OthersOutside DEF LoopState
<1> QED
  BY <1>3, <1>4, <1>5, <1>6 DEF Charged
LEMMA ChargedNext == Safe /\ Charged /\ [Next]_vars => Charged'
<1> SUFFICES ASSUME Safe, Charged, [Next]_vars
             PROVE  Charged'
  OBVIOUS
<1> USE DEF Goto, Inside, disk, lockFile, service, memory
<1>1. /\ pc \in [Procs -> {"idle", "lock", "load", "next", "call", "wait", "save", "manifest",
                            "mark", "unlock"}]
      /\ at \in [Procs -> 1..(BatchCount + 1)] /\ job \in [Procs -> Jobs \cup {NoJob}]
      /\ requests \subseteq Batches
      /\ tag \in [Jobs -> Batches \cup {Nowhere, Unused}]
  BY DEF Safe, Typed, TypeOK
<1>2. ASSUME NEW p \in Procs, NEW command \in {"submit", "attach", "collect"}, Start(p, command)
      PROVE  Charged'
  BY <1>1, <1>2, ChargedIdle DEF Start
<1>3. ASSUME NEW p \in Procs,
             \/ AcquireLock(p) \/ LockRefused(p) \/ LoadPlan(p) \/ Unlock(p)
             \/ Raise(p) \/ Kill(p)
      PROVE  Charged'
  BY <1>1, <1>3, ChargedIdle DEF AcquireLock, LockRefused, LoadPlan, Unlock, Raise, Kill
<1>4. ASSUME NEW p \in Procs, Submit(p)
      PROVE  Charged'
  <2>1. ASSUME NEW b \in Batches, MarkStarted(p, b)
        PROVE  Charged'
    <3>1. Started \in [state : States, job : Jobs \cup {NoJob}]
      BY DEF Started, States
    <3>2. /\ pc[p] = "next" /\ SetBatch(p, b, Started) /\ copy[p][b].state = "prepared"
          /\ UNCHANGED <<requests, tag>> /\ pc' = [pc EXCEPT ![p] = "call"]
          /\ at' = [at EXCEPT ![p] = b] /\ UNCHANGED job
      BY <2>1 DEF MarkStarted, Started, ToSubmit, Upcoming
    <3>3. plan'[b] = Started /\ \A c \in Batches \ {b} : plan'[c] = plan[c]
      BY <3>1, <3>2, PlanUpdate
    <3>4. plan[b].state = "prepared"
      BY <3>2 DEF Safe, CopyIsCurrent
    <3>5. b \notin requests /\ \A j \in Jobs : tag[j] # b
      BY <3>4 DEF Charged, RequestsAnnounced, JobsAttributable, Started
    <3>6. NoDoubleCharge'
      BY <3>2 DEF Charged, NoDoubleCharge
    <3>7. JobsAttributable'
      BY <3>2, <3>3, <3>5 DEF Charged, JobsAttributable, Started
    <3>8. RequestsAnnounced'
      BY <1>1, <3>2, <3>3 DEF Charged, RequestsAnnounced
    <3>9. LoopState'
      BY <1>1, <3>2, <3>3, <3>5, OthersOutside DEF LoopState
    <3> QED
      BY <3>6, <3>7, <3>8, <3>9 DEF Charged
  <2>2. CASE SendRequest(p)
    <3>1. /\ pc[p] = "call" /\ requests' = requests \cup {at[p]} /\ pc' = [pc EXCEPT ![p] = "wait"]
          /\ UNCHANGED <<plan, tag, at, job>>
      BY <2>2 DEF SendRequest
    <3>2. plan[at[p]] = Started /\ at[p] \notin requests /\ \A j \in Jobs : tag[j] # at[p]
      BY <3>1 DEF Charged, LoopState
    <3>3. NoDoubleCharge'
      BY <3>1, <3>2 DEF Charged, NoDoubleCharge
    <3>4. JobsAttributable' /\ RequestsAnnounced'
      BY <3>1, <3>2 DEF Charged, JobsAttributable, RequestsAnnounced
    <3>5. LoopState'
      BY <1>1, <3>1, <3>2, OthersOutside DEF LoopState
    <3> QED
      BY <3>3, <3>4, <3>5 DEF Charged
  <2>3. ASSUME NEW j \in Jobs, ReceiveJob(p, j)
        PROVE  Charged'
    <3>1. /\ pc[p] = "wait" /\ tag[j] = at[p] /\ job' = [job EXCEPT ![p] = j]
          /\ pc' = [pc EXCEPT ![p] = "save"] /\ UNCHANGED <<plan, requests, tag, at>>
      BY <2>3 DEF ReceiveJob
    <3>2. NoDoubleCharge' /\ JobsAttributable' /\ RequestsAnnounced'
      BY <3>1 DEF Charged, NoDoubleCharge, JobsAttributable, RequestsAnnounced
    <3>3. LoopState'
      BY <1>1, <3>1, OthersOutside DEF Charged, LoopState
    <3> QED
      BY <3>2, <3>3 DEF Charged
  <2>4. CASE SaveJobId(p)
    <3>1. /\ pc[p] = "save" /\ SetBatch(p, at[p], [state |-> "submitted", job |-> job[p]])
          /\ pc' = [pc EXCEPT ![p] = "manifest"] /\ UNCHANGED <<requests, tag>>
      BY <2>4 DEF SaveJobId
    <3>2. at[p] \in Batches /\ job[p] \in Jobs /\ tag[job[p]] = at[p]
      BY <3>1 DEF Safe, Typed, AtBatch, Charged, LoopState
    <3>3. pc'[p] = "manifest" /\ Inside(p) /\ \A q \in Procs \ {p} : pc'[q] = pc[q]
      BY <1>1, <3>1
    <3> QED
      BY <3>1, <3>2, <3>3, ChargedBind
  <2>5. CASE UpdateManifest(p) \/ CallTimesOut(p) \/ SubmitEnds(p)
    BY <1>1, <2>5, ChargedIdle DEF UpdateManifest, CallTimesOut, SubmitEnds
  <2> QED
    BY <1>4, <2>1, <2>2, <2>3, <2>4, <2>5 DEF Submit
<1>5. ASSUME NEW p \in Procs, Attach(p)
      PROVE  Charged'
  <2>1. ASSUME NEW b \in Batches, NEW j \in Jobs, AttachJob(p, b, j)
        PROVE  Charged'
    <3>1. /\ pc[p] = "next" /\ tag[j] = b /\ SetBatch(p, b, [state |-> "submitted", job |-> j])
          /\ pc' = [pc EXCEPT ![p] = "unlock"] /\ UNCHANGED <<requests, tag>>
      BY <2>1 DEF AttachJob, CanAttach
    <3>2. pc'[p] = "unlock" /\ Inside(p) /\ \A q \in Procs \ {p} : pc'[q] = pc[q]
      BY <1>1, <3>1
    <3> QED
      BY <3>1, <3>2, ChargedBind
  <2>2. CASE AttachRefused(p)
    BY <1>1, <2>2, ChargedIdle DEF AttachRefused
  <2> QED
    BY <1>5, <2>1, <2>2 DEF Attach
<1>6. ASSUME NEW p \in Procs, Collect(p)
      PROVE  Charged'
  <2>1. ASSUME NEW b \in Batches, CollectLater(p, b)
        PROVE  Charged'
    <3>1. copy[p] = plan /\ plan \in Plans
      BY <2>1 DEF CollectLater, Safe, CopyIsCurrent, Typed, TypeOK
    <3>2. plan[b] \in [state : States, job : Jobs \cup {NoJob}]
      BY <3>1 DEF Plans
    <3>3. /\ plan' \in Plans /\ plan'[b] = plan[b]
          /\ \A c \in Batches \ {b} : plan'[c] = plan[c]
      BY <2>1, <3>1, <3>2, PlanUpdate DEF CollectLater
    <3>4. plan' = plan
      BY <3>1, <3>3 DEF Plans
    <3> QED
      BY <1>1, <2>1, <3>4, OthersOutside, ChargedIdle DEF CollectLater
  <2>2. ASSUME NEW b \in Batches, WriteRecord(p, b)
        PROVE  Charged'
    <3>1. /\ pc[p] = "next" /\ copy[p][b].job # NoJob /\ at' = [at EXCEPT ![p] = b]
          /\ pc' = [pc EXCEPT ![p] = "mark"] /\ UNCHANGED <<plan, requests, tag, job>>
      BY <2>2 DEF WriteRecord, ToCollect, Upcoming
    <3>2. plan[b].job # NoJob
      BY <3>1 DEF Safe, CopyIsCurrent
    <3>3. NoDoubleCharge' /\ JobsAttributable' /\ RequestsAnnounced'
      BY <3>1 DEF Charged, NoDoubleCharge, JobsAttributable, RequestsAnnounced
    <3>4. LoopState'
      BY <1>1, <3>1, <3>2, OthersOutside DEF LoopState
    <3> QED
      BY <3>3, <3>4 DEF Charged
  <2>3. CASE MarkCollected(p)
    <3> DEFINE b == at[p]
               entry == [copy[p][b] EXCEPT !.state = "collected"]
    <3>1. /\ pc[p] = "mark" /\ SetBatch(p, b, entry) /\ pc' = [pc EXCEPT ![p] = "next"]
          /\ UNCHANGED <<requests, tag>>
      BY <2>3 DEF MarkCollected
    <3>2. b \in Batches /\ copy[p] = plan /\ plan \in Plans /\ plan[b].job # NoJob
      BY <3>1 DEF Safe, Typed, TypeOK, AtBatch, CopyIsCurrent, Charged, LoopState
    <3>3. plan[b] \in [state : States, job : Jobs \cup {NoJob}]
      BY <3>2 DEF Plans
    <3>4. entry = [state |-> "collected", job |-> plan[b].job] /\ plan[b].job \in Jobs
      BY <3>2, <3>3
    <3>5. entry \in [state : States, job : Jobs \cup {NoJob}]
      BY <3>4 DEF States
    <3>6. plan'[b] = entry /\ \A c \in Batches \ {b} : plan'[c] = plan[c]
      <4> HIDE DEF entry, b
      <4> QED
        BY <3>1, <3>2, <3>5, PlanUpdate
    <3>7. \A j \in Jobs : tag[j] = b => plan[b].job = j
      BY <3>2 DEF Charged, JobsAttributable
    <3>8. tag[plan[b].job] = b
      BY <3>2 DEF Charged, JobsAttributable
    <3> HIDE DEF entry, b
    <3>9. NoDoubleCharge'
      BY <3>1 DEF Charged, NoDoubleCharge
    <3>10. JobsAttributable'
      BY <3>1, <3>4, <3>6, <3>7, <3>8 DEF Charged, JobsAttributable
    <3>11. RequestsAnnounced'
      BY <1>1, <3>1, <3>2, <3>6 DEF Charged, RequestsAnnounced, Started
    <3>12. LoopState'
      BY <1>1, <3>1, OthersOutside DEF LoopState
    <3> QED
      BY <3>9, <3>10, <3>11, <3>12 DEF Charged
  <2>4. ASSUME NEW b \in Batches, CollectAborts(p, b)
        PROVE  Charged'
    BY <1>1, <2>4, ChargedIdle DEF CollectAborts
  <2>5. CASE WriteSummary(p)
    BY <1>1, <2>5, ChargedIdle DEF WriteSummary
  <2> QED
    BY <1>6, <2>1, <2>2, <2>3, <2>4, <2>5 DEF Collect
<1>7. ASSUME NEW b \in Batches, NEW j \in Jobs, CreateJob(b, j)
      PROVE  Charged'
  <2>1. /\ b \in requests /\ tag[j] = Unused /\ requests' = requests \ {b}
        /\ tag' = [tag EXCEPT ![j] = b] /\ UNCHANGED <<plan, pc, at, job>>
    BY <1>7 DEF CreateJob
  <2>2. Unused \notin Batches
    BY DEF Unused, Batches
  <2>3. plan[b] = Started /\ \A k \in Jobs : tag[k] # b
    BY <2>1 DEF Charged, RequestsAnnounced, NoDoubleCharge
  <2>4. NoDoubleCharge'
    BY <1>1, <2>1, <2>3 DEF Charged, NoDoubleCharge
  <2>5. JobsAttributable'
    BY <1>1, <2>1, <2>2, <2>3 DEF Charged, JobsAttributable, Started, Safe, Typed, TypeOK, Plans
  <2>6. RequestsAnnounced'
    BY <2>1 DEF Charged, RequestsAnnounced
  <2>7. LoopState'
    BY <1>1, <2>1, <2>2 DEF Charged, LoopState, Safe, Typed, AtBatch
  <2> QED
    BY <2>4, <2>5, <2>6, <2>7 DEF Charged
<1>8. ASSUME NEW b \in Batches, LoseRequest(b)
      PROVE  Charged'
  BY <1>8 DEF LoseRequest, Charged, NoDoubleCharge, JobsAttributable, RequestsAnnounced, LoopState
<1>9. ASSUME NEW j \in Jobs, FinishJob(j)
      PROVE  Charged'
  BY <1>9, ChargedIdle DEF FinishJob
<1>10. CASE RemoveStaleLock \/ UNCHANGED vars
  BY <1>10, ChargedIdle DEF RemoveStaleLock, vars
<1> QED
  BY <1>2, <1>3, <1>4, <1>5, <1>6, <1>7, <1>8, <1>9, <1>10 DEF Next, Run, Service, User
-----------------------------------------------------------------------------
LEMMA SafeAlways == Spec => []Safe
<1>1. Init => Safe
  BY TypedInit, ExclusiveInit, CopyInit DEF Safe
<1>2. Safe /\ [Next]_vars => Safe'
  BY TypedNext, ExclusiveNext, CopyNext DEF Safe
<1> QED
  BY <1>1, <1>2, PTL DEF Spec

LEMMA ChargedAlways == Spec => []Charged
BY SafeAlways, ChargedInit, ChargedNext, PTL DEF Spec

\* The files, the service and the invocations have the values described; no
\* invocation counts past --max-jobs or walks past the last batch.
THEOREM TypeCorrect == Spec => []TypeOK
<1>1. Safe => TypeOK
  BY DEF Safe, Typed
<1> QED
  BY <1>1, SafeAlways, PTL

\* At most one invocation is between the creation of the lock file and its
\* removal, the file is there as long as one is, and a file that is there
\* without one was left by a kill.
THEOREM MutualExclusion == Spec => []Exclusive
<1>1. Safe => Exclusive
  BY DEF Safe
<1> QED
  BY <1>1, SafeAlways, PTL

\* No invocation overwrites the plan with a copy that misses an update.
THEOREM CopyAlwaysCurrent == Spec => []CopyIsCurrent
<1>1. Safe => CopyIsCurrent
  BY DEF Safe
<1> QED
  BY <1>1, SafeAlways, PTL

\* A batch is never paid for twice, whatever is killed, lost or late.
THEOREM NeverDoubleCharge == Spec => []NoDoubleCharge
<1>1. Charged => NoDoubleCharge
  BY DEF Charged
<1> QED
  BY <1>1, ChargedAlways, PTL

\* Every paid job is in the plan under its batch, or can be attached to it.
THEOREM JobsAlwaysAttributable == Spec => []JobsAttributable
<1>1. Charged => JobsAttributable
  BY DEF Charged
<1> QED
  BY <1>1, ChargedAlways, PTL
-----------------------------------------------------------------------------
(***************************************************************************)
(* The workflow implements the ledger.                                     *)
(***************************************************************************)

\* A batch about to be marked has its results on record.
Marked ==
    \A p \in Procs : pc[p] = "mark" =>
        plan[at[p]].state = "submitted" /\ records[at[p]] = plan[at[p]].job

\* A batch that names a job and is not collected is a submitted one.
LEMMA ToCollectSubmitted ==
    ASSUME Safe, Charged, NEW b \in Batches, plan[b].job # NoJob, plan[b].state # "collected"
    PROVE  plan[b].state = "submitted" /\ plan[b].job \in Jobs
<1>1. plan[b] \in [state : States, job : Jobs \cup {NoJob}]
  BY DEF Safe, Typed, TypeOK, Plans
<1>2. plan[b].job \in Jobs /\ tag[plan[b].job] = b
  BY <1>1 DEF Charged, JobsAttributable
<1> QED
  BY <1>2 DEF Charged, JobsAttributable

LEMMA MarkedInit == Init => Marked
BY DEF Init, Marked

LEMMA MarkedNext == Safe /\ Charged /\ Marked /\ [Next]_vars => Marked'
<1> SUFFICES ASSUME Safe, Charged, Marked, [Next]_vars
             PROVE  Marked'
  OBVIOUS
<1> USE DEF Goto, Inside, disk, lockFile, service, memory
<1>1. /\ pc \in [Procs -> {"idle", "lock", "load", "next", "call", "wait", "save", "manifest",
                            "mark", "unlock"}]
      /\ at \in [Procs -> 1..(BatchCount + 1)]
      /\ records \in [Batches -> Jobs \cup {NoJob}]
  BY DEF Safe, Typed, TypeOK
<1>2. ASSUME NEW p \in Procs, Inside(p), pc'[p] # "mark", \A q \in Procs \ {p} : pc'[q] = pc[q]
      PROVE  Marked'
  BY <1>2, OthersOutside DEF Marked
<1>3. ASSUME UNCHANGED <<plan, records>>,
             \A q \in Procs : pc'[q] = "mark" => pc[q] = "mark" /\ at'[q] = at[q]
      PROVE  Marked'
  BY <1>3 DEF Marked
<1>4. ASSUME NEW p \in Procs, NEW command \in {"submit", "attach", "collect"}, Start(p, command)
      PROVE  Marked'
  BY <1>1, <1>3, <1>4 DEF Start
<1>5. ASSUME NEW p \in Procs, AcquireLock(p) \/ LockRefused(p) \/ Kill(p)
      PROVE  Marked'
  BY <1>1, <1>3, <1>5 DEF AcquireLock, LockRefused, Kill
<1>6. ASSUME NEW p \in Procs, LoadPlan(p) \/ Unlock(p) \/ Raise(p) \/ Submit(p) \/ Attach(p)
      PROVE  Marked'
  <2>1. Inside(p) /\ pc'[p] # "mark" /\ \A q \in Procs \ {p} : pc'[q] = pc[q]
    <3>1. CASE LoadPlan(p) \/ Unlock(p) \/ Raise(p)
      BY <1>1, <3>1 DEF LoadPlan, Unlock, Raise
    <3>2. CASE Submit(p)
      BY <1>1, <3>2 DEF Submit, MarkStarted, SendRequest, ReceiveJob, CallTimesOut, SaveJobId,
                        UpdateManifest, SubmitEnds
    <3>3. CASE Attach(p)
      BY <1>1, <3>3 DEF Attach, AttachJob, AttachRefused
    <3> QED
      BY <1>6, <3>1, <3>2, <3>3
  <2> QED
    BY <1>2, <2>1
<1>7. ASSUME NEW p \in Procs, Collect(p)
      PROVE  Marked'
  <2>1. ASSUME NEW b \in Batches, WriteRecord(p, b)
        PROVE  Marked'
    <3>1. /\ pc[p] = "next" /\ records' = [records EXCEPT ![b] = copy[p][b].job]
          /\ at' = [at EXCEPT ![p] = b] /\ pc' = [pc EXCEPT ![p] = "mark"] /\ plan' = plan
          /\ copy[p][b].job # NoJob /\ copy[p][b].state # "collected"
      BY <2>1 DEF WriteRecord, ToCollect, Upcoming
    <3>2. copy[p] = plan
      BY <3>1 DEF Safe, CopyIsCurrent
    <3>3. plan[b].state = "submitted"
      BY <3>1, <3>2, ToCollectSubmitted
    <3> QED
      BY <1>1, <3>1, <3>2, <3>3, OthersOutside DEF Marked
  <2>2. ASSUME NEW b \in Batches, CollectLater(p, b)
        PROVE  Marked'
    BY <1>1, <1>2, <2>2 DEF CollectLater
  <2>3. ASSUME NEW b \in Batches, CollectAborts(p, b)
        PROVE  Marked'
    BY <1>1, <1>2, <2>3 DEF CollectAborts
  <2>4. CASE MarkCollected(p) \/ WriteSummary(p)
    BY <1>1, <1>2, <2>4 DEF MarkCollected, WriteSummary
  <2> QED
    BY <1>7, <2>1, <2>2, <2>3, <2>4 DEF Collect
<1>8. CASE Service \/ RemoveStaleLock \/ UNCHANGED vars
  BY <1>3, <1>8 DEF Service, LoseRequest, CreateJob, FinishJob, RemoveStaleLock, vars
<1> QED
  BY <1>4, <1>5, <1>6, <1>7, <1>8 DEF Next, Run, User

\* The variables of the ledger.
Stage == [b \in Batches |-> plan[b].state]
Paid == [b \in Batches |-> {j \in Jobs : tag[j] = b}]
Bound == [b \in Batches |-> plan[b].job]

LEMMA LedgerInit == Init => Ledger!Init
<1> SUFFICES ASSUME Init
             PROVE  Ledger!Init
  OBVIOUS
<1>1. \A b \in Batches : {j \in Jobs : tag[j] = b} = {}
  BY DEF Init, Batches, Nowhere, Unused
<1> QED
  BY <1>1 DEF Init, Prepared, Ledger!Init

LEMMA LedgerStutter ==
    ASSUME UNCHANGED <<plan, records, tag>>
    PROVE  UNCHANGED Ledger!vars
BY DEF Ledger!vars

\* Changing one entry of the plan changes one stage and one bound job.
LEMMA LedgerPlan ==
    ASSUME NEW b \in Batches, NEW entry, plan'[b] = entry,
           \A c \in Batches \ {b} : plan'[c] = plan[c]
    PROVE  /\ Stage' = [Stage EXCEPT ![b] = entry.state]
           /\ Bound' = [Bound EXCEPT ![b] = entry.job]
BY DEF Stage, Bound

LEMMA LedgerBind ==
    ASSUME Safe, NEW p \in Procs, Inside(p), pc[p] \notin {"load", "unlock"},
           NEW b \in Batches, NEW j \in Jobs, tag[j] = b,
           plan[b].state = "submission_started",
           SetBatch(p, b, [state |-> "submitted", job |-> j]),
           UNCHANGED <<tag, records>>
    PROVE  Ledger!Next
<1> DEFINE entry == [state |-> "submitted", job |-> j]
<1>1. entry \in [state : States, job : Jobs \cup {NoJob}]
  BY DEF States
<1>2. plan'[b] = entry /\ \A c \in Batches \ {b} : plan'[c] = plan[c]
  BY <1>1, PlanUpdate
<1>3. Stage' = [Stage EXCEPT ![b] = "submitted"] /\ Bound' = [Bound EXCEPT ![b] = j]
  BY <1>2, LedgerPlan
<1>4. Ledger!Bind(b, j)
  BY <1>3 DEF Ledger!Bind, Stage, Bound
<1> QED
  BY <1>4 DEF Ledger!Next
LEMMA LedgerNext == Safe /\ Charged /\ Marked /\ [Next]_vars => [Ledger!Next]_(Ledger!vars)
<1> SUFFICES ASSUME Safe, Charged, Marked, [Next]_vars
             PROVE  Ledger!Next \/ UNCHANGED Ledger!vars
  OBVIOUS
<1> USE DEF Goto, Inside, disk, lockFile, service, memory
<1>1. ASSUME NEW p \in Procs, Submit(p)
      PROVE  Ledger!Next \/ UNCHANGED Ledger!vars
  <2>1. ASSUME NEW b \in Batches, MarkStarted(p, b)
        PROVE  Ledger!Next
    <3>1. /\ pc[p] = "next" /\ SetBatch(p, b, Started) /\ copy[p][b].state = "prepared"
          /\ UNCHANGED <<tag, records>>
      BY <2>1 DEF MarkStarted, Started, ToSubmit, Upcoming
    <3>2. Started \in [state : States, job : Jobs \cup {NoJob}]
      BY DEF Started, States
    <3>3. plan'[b] = Started /\ \A c \in Batches \ {b} : plan'[c] = plan[c]
      BY <3>1, <3>2, PlanUpdate
    <3>4. plan[b].state = "prepared" /\ plan[b].job = NoJob
      <4>1. copy[p] = plan /\ plan[b] \in [state : States, job : Jobs \cup {NoJob}]
        BY <3>1 DEF Safe, CopyIsCurrent, Typed, TypeOK, Plans
      <4>2. plan[b].job # NoJob => plan[b].job \in Jobs /\ tag[plan[b].job] = b
        BY <4>1 DEF Charged, JobsAttributable
      <4> QED
        BY <3>1, <4>1, <4>2 DEF Charged, JobsAttributable
    <3>5. Stage' = [Stage EXCEPT ![b] = "submission_started"] /\ Bound' = [Bound EXCEPT ![b] = NoJob]
      BY <3>3, LedgerPlan DEF Started
    <3>6. Bound' = Bound
      BY <3>4, <3>5 DEF Bound
    <3>7. Ledger!Announce(b)
      BY <3>1, <3>4, <3>5, <3>6 DEF Ledger!Announce, Stage, Bound
    <3> QED
      BY <3>7 DEF Ledger!Next
  <2>2. CASE SaveJobId(p)
    <3>1. /\ pc[p] = "save" /\ SetBatch(p, at[p], [state |-> "submitted", job |-> job[p]])
          /\ UNCHANGED <<tag, records>>
      BY <2>2 DEF SaveJobId
    <3>2. /\ at[p] \in Batches /\ job[p] \in Jobs /\ tag[job[p]] = at[p]
          /\ plan[at[p]].state = "submission_started"
      BY <3>1 DEF Safe, Typed, AtBatch, Charged, LoopState, Started
    <3> QED
      BY <3>1, <3>2, LedgerBind
  <2>3. CASE SendRequest(p) \/ UpdateManifest(p) \/ CallTimesOut(p) \/ SubmitEnds(p)
    BY <2>3, LedgerStutter DEF SendRequest, UpdateManifest, CallTimesOut, SubmitEnds
  <2>4. ASSUME NEW j \in Jobs, ReceiveJob(p, j)
        PROVE  UNCHANGED Ledger!vars
    BY <2>4, LedgerStutter DEF ReceiveJob
  <2> QED
    BY <1>1, <2>1, <2>2, <2>3, <2>4 DEF Submit
<1>2. ASSUME NEW p \in Procs, Attach(p)
      PROVE  Ledger!Next \/ UNCHANGED Ledger!vars
  <2>1. ASSUME NEW b \in Batches, NEW j \in Jobs, AttachJob(p, b, j)
        PROVE  Ledger!Next
    <3>1. /\ pc[p] = "next" /\ tag[j] = b /\ SetBatch(p, b, [state |-> "submitted", job |-> j])
          /\ copy[p][b].state = "submission_started" /\ UNCHANGED <<tag, records>>
      BY <2>1 DEF AttachJob, CanAttach
    <3>2. plan[b].state = "submission_started"
      BY <3>1 DEF Safe, CopyIsCurrent
    <3> QED
      BY <3>1, <3>2, LedgerBind
  <2>2. CASE AttachRefused(p)
    BY <2>2, LedgerStutter DEF AttachRefused
  <2> QED
    BY <1>2, <2>1, <2>2 DEF Attach
<1>3. ASSUME NEW p \in Procs, Collect(p)
      PROVE  Ledger!Next \/ UNCHANGED Ledger!vars
  <2>1. ASSUME NEW b \in Batches, CollectLater(p, b)
        PROVE  UNCHANGED Ledger!vars
    <3>1. copy[p] = plan /\ plan \in Plans /\ pc[p] = "next"
      BY <2>1 DEF CollectLater, Safe, CopyIsCurrent, Typed, TypeOK
    <3>2. plan[b] \in [state : States, job : Jobs \cup {NoJob}]
      BY <3>1 DEF Plans
    <3>3. plan' \in Plans /\ plan'[b] = plan[b] /\ \A c \in Batches \ {b} : plan'[c] = plan[c]
      BY <2>1, <3>1, <3>2, PlanUpdate DEF CollectLater
    <3>4. plan' = plan
      BY <3>1, <3>3 DEF Plans
    <3> QED
      BY <2>1, <3>4, LedgerStutter DEF CollectLater
  <2>2. ASSUME NEW b \in Batches, WriteRecord(p, b)
        PROVE  Ledger!Next
    <3>1. /\ pc[p] = "next" /\ records' = [records EXCEPT ![b] = copy[p][b].job]
          /\ UNCHANGED <<plan, tag>> /\ copy[p][b].job # NoJob /\ copy[p][b].state # "collected"
      BY <2>2 DEF WriteRecord, ToCollect, Upcoming
    <3>2. copy[p] = plan
      BY <3>1 DEF Safe, CopyIsCurrent
    <3>3. plan[b].state = "submitted"
      BY <3>1, <3>2, ToCollectSubmitted
    <3>4. Ledger!Publish(b)
      BY <3>1, <3>2, <3>3 DEF Ledger!Publish
    <3> QED
      BY <3>4 DEF Ledger!Next
  <2>3. CASE MarkCollected(p)
    <3>0. PICK b \in Batches : b = at[p]
      BY <2>3 DEF MarkCollected, Safe, Typed, AtBatch
    <3> DEFINE entry == [copy[p][b] EXCEPT !.state = "collected"]
    <3>1. pc[p] = "mark" /\ SetBatch(p, b, entry) /\ UNCHANGED <<tag, records>>
      BY <2>3, <3>0 DEF MarkCollected
    <3>2. /\ b \in Batches /\ copy[p] = plan /\ plan \in Plans
          /\ plan[b].state = "submitted" /\ records[b] = plan[b].job
      BY <3>0, <3>1 DEF Safe, Typed, TypeOK, AtBatch, CopyIsCurrent, Marked
    <3>3. plan[b] \in [state : States, job : Jobs \cup {NoJob}]
      BY <3>2 DEF Plans
    <3>4. entry = [state |-> "collected", job |-> plan[b].job]
      BY <3>2, <3>3
    <3>5. entry \in [state : States, job : Jobs \cup {NoJob}]
      BY <3>3, <3>4 DEF States
    <3>6. plan'[b] = entry /\ \A c \in Batches \ {b} : plan'[c] = plan[c]
      <4> HIDE DEF entry
      <4> QED
        BY <3>1, <3>2, <3>5, PlanUpdate
    <3> HIDE DEF entry
    <3>7. Stage' = [Stage EXCEPT ![b] = "collected"] /\ Bound' = [Bound EXCEPT ![b] = plan[b].job]
      BY <3>2, <3>4, <3>6, LedgerPlan
    <3>8. Bound' = Bound
      BY <3>7 DEF Bound
    <3>9. Paid' = Paid /\ records' = records
      BY <3>1 DEF Paid
    <3>10. Stage[b] = "submitted" /\ records[b] = Bound[b]
      BY <3>2 DEF Stage, Bound
    <3>11. Ledger!Close(b)
      BY <3>7, <3>8, <3>9, <3>10 DEF Ledger!Close, Stage, Bound, Paid
    <3> QED
      BY <3>11 DEF Ledger!Next
  <2>4. ASSUME NEW b \in Batches, CollectAborts(p, b)
        PROVE  UNCHANGED Ledger!vars
    BY <2>4, LedgerStutter DEF CollectAborts
  <2>5. CASE WriteSummary(p)
    BY <2>5, LedgerStutter DEF WriteSummary
  <2> QED
    BY <1>3, <2>1, <2>2, <2>3, <2>4, <2>5 DEF Collect
<1>4. ASSUME NEW b \in Batches, NEW j \in Jobs, CreateJob(b, j)
      PROVE  Ledger!Next
  <2>1. /\ b \in requests /\ tag[j] = Unused /\ tag' = [tag EXCEPT ![j] = b]
        /\ UNCHANGED <<plan, records>>
    BY <1>4 DEF CreateJob
  <2>2. Unused \notin Batches /\ tag \in [Jobs -> Batches \cup {Nowhere, Unused}]
    BY DEF Unused, Batches, Safe, Typed, TypeOK
  <2>3. plan[b].state = "submission_started" /\ \A k \in Jobs : tag[k] # b
    BY <2>1 DEF Charged, RequestsAnnounced, NoDoubleCharge, Started
  <2>4. Paid[b] = {} /\ \A c \in Batches : j \notin Paid[c]
    BY <2>1, <2>2, <2>3 DEF Paid
  <2>5. Paid' = [Paid EXCEPT ![b] = {j}]
    BY <2>1, <2>2, <2>3 DEF Paid
  <2>6. Ledger!Charge(b, j)
    BY <2>1, <2>3, <2>4, <2>5 DEF Ledger!Charge, Paid
  <2> QED
    BY <2>6 DEF Ledger!Next
<1>5. ASSUME NEW p \in Procs,
             \/ \E command \in {"submit", "attach", "collect"} : Start(p, command)
             \/ AcquireLock(p) \/ LockRefused(p) \/ LoadPlan(p) \/ Unlock(p)
             \/ Raise(p) \/ Kill(p)
      PROVE  UNCHANGED Ledger!vars
  BY <1>5, LedgerStutter DEF Start, AcquireLock, LockRefused, LoadPlan, Unlock, Raise, Kill
<1>6. ASSUME \/ \E b \in Batches : LoseRequest(b)
             \/ \E j \in Jobs : FinishJob(j)
             \/ RemoveStaleLock
             \/ UNCHANGED vars
      PROVE  UNCHANGED Ledger!vars
  BY <1>6, LedgerStutter DEF LoseRequest, FinishJob, RemoveStaleLock, vars
<1> QED
  BY <1>1, <1>2, <1>3, <1>4, <1>5, <1>6 DEF Next, Run, Service, User

\* The run directory and the service, under any interleaving of invocations,
\* kills and late or lost requests, implement the ledger.
THEOREM LedgerImplemented == Spec => ImplementsLedger
BY SafeAlways, ChargedAlways, MarkedInit, MarkedNext, LedgerInit, LedgerNext, PTL
   DEF Spec, ImplementsLedger, Ledger!Spec

-----------------------------------------------------------------------------
(***************************************************************************)
(* The summary.  A record can be on disk while its batch is not marked (the*)
(* invocation stopped between the two), so counts agree only because the   *)
(* loop does not pass over such a batch: its job is done and stays done.   *)
(***************************************************************************)

\* What a record says of its batch.
Recorded ==
    \A b \in Batches :
        /\ plan[b].state = "collected" => records[b] # NoJob
        /\ records[b] # NoJob => plan[b].job \in Jobs /\ status[plan[b].job] = "DONE"

\* An invocation starts at the first batch, its place tells its command, and the
\* batches a collecting one is past are marked if they have a record.
PassedMarked ==
    \A p \in Procs :
        /\ pc[p] \in {"lock", "load"} => at[p] = 1
        /\ pc[p] \in {"call", "wait", "save", "manifest"} => cmd[p] = "submit"
        /\ (pc[p] = "next" /\ cmd[p] = "collect") \/ pc[p] = "mark" =>
              \A b \in Batches : b < at[p] /\ records[b] # NoJob => plan[b].state = "collected"

Summed == Recorded /\ PassedMarked /\ SummaryAccurate

LEMMA SummedInit == Init => Summed
BY DEF Init, Prepared, Summed, Recorded, PassedMarked, SummaryAccurate

\* A step that leaves plan, records, summary and statuses alone, and in which an
\* invocation gets to the loop only from its start.
LEMMA SummedIdle ==
    ASSUME Safe, Summed, UNCHANGED <<plan, records, summary, status>>,
           \A q \in Procs :
              /\ pc'[q] \in {"lock", "load"} => at'[q] = 1
              /\ pc'[q] \in {"call", "wait", "save", "manifest"} => cmd'[q] = "submit"
              /\ (pc'[q] = "next" /\ cmd'[q] = "collect") \/ pc'[q] = "mark" =>
                    /\ cmd'[q] = cmd[q] /\ at'[q] = at[q]
                    /\ pc[q] = pc'[q] \/ pc[q] = "load"
    PROVE  Summed'
<1>1. Recorded' /\ SummaryAccurate'
  BY DEF Summed, Recorded, SummaryAccurate
<1>2. ASSUME NEW q \in Procs, (pc'[q] = "next" /\ cmd'[q] = "collect") \/ pc'[q] = "mark",
             NEW b \in Batches, b < at'[q], records'[b] # NoJob
      PROVE  plan'[b].state = "collected"
  BY <1>2 DEF Summed, PassedMarked, Batches
<1> QED
  BY <1>1, <1>2 DEF Summed, PassedMarked

\* Binding a batch without a job, or announcing it, loses no record.
LEMMA SummedBind ==
    ASSUME Safe, Summed, NEW p \in Procs, Inside(p), NEW b \in Batches,
           plan[b].job = NoJob, plan'[b].state # "collected",
           \A c \in Batches \ {b} : plan'[c] = plan[c],
           UNCHANGED <<records, summary, status, cmd>>,
           pc'[p] \in {"call", "manifest", "unlock"}, pc'[p] # "unlock" => cmd[p] = "submit",
           \A q \in Procs \ {p} : pc'[q] = pc[q] /\ at'[q] = at[q]
    PROVE  Summed'
<1>1. records[b] = NoJob
  BY DEF Summed, Recorded, SubmissionAssumption
<1>2. Recorded'
  BY <1>1 DEF Summed, Recorded
<1>3. PassedMarked'
  BY OthersOutside DEF Summed, PassedMarked
<1> QED
  BY <1>2, <1>3 DEF Summed, SummaryAccurate

\* The loop skips only batches without a job and collected ones.
LEMMA SkippedMarked ==
    ASSUME Safe, Summed, NEW p \in Procs, pc[p] = "next", cmd[p] = "collect",
           NEW b \in Batches, NEW c \in Batches, c < b, records[c] # NoJob,
           b \in ToCollect(p)
    PROVE  plan[c].state = "collected"
<1>1. copy[p] = plan /\ at[p] \in Nat
  BY DEF Safe, CopyIsCurrent, Typed, TypeOK, Inside
<1>2. CASE c < at[p]
  BY <1>2 DEF Summed, PassedMarked
<1>3. CASE c >= at[p]
  <2>1. ~(b <= c)
    BY DEF Batches
  <2>2. c \notin {d \in Batches : copy[p][d].job # NoJob /\ copy[p][d].state # "collected"}
    BY <1>3, <2>1 DEF ToCollect, Upcoming
  <2>3. plan[c].job # NoJob
    BY DEF Summed, Recorded
  <2> QED
    BY <1>1, <2>2, <2>3
<1> QED
  BY <1>1, <1>2, <1>3 DEF Batches

\* A nonempty set of natural numbers has a least one.
LEMMA FirstOf ==
    ASSUME NEW S \in SUBSET Nat, S # {}
    PROVE  \E m \in S : \A k \in S : m <= k
<1> DEFINE R == {ss \in Nat \X Nat : ss[1] < ss[2]}
<1>1. IsWellFoundedOn(R, Nat)
  BY NatLessThanWellFounded DEF OpToRel
<1> HIDE DEF R
<1>2. PICK m \in S : \A k \in S : <<k, m>> \notin R
  BY <1>1, WFMin
<1>3. ASSUME NEW k \in S
      PROVE  m <= k
  <2>1. <<k, m>> \notin R
    BY <1>2
  <2> QED
    BY <2>1 DEF R
<1> QED
  BY <1>3

\* When the loop has nowhere to stop, it is past every batch it is for: a set of
\* batches with no least one is empty.
LEMMA NothingUpcoming ==
    ASSUME Typed, NEW p \in Procs, NEW S \in SUBSET Batches, Upcoming(p, S) = {}
    PROVE  \A b \in S : ~(b >= at[p])
<1> DEFINE rest == {b \in S : b >= at[p]}
<1>1. SUFFICES ASSUME rest # {}
               PROVE  FALSE
  OBVIOUS
<1>2. PICK b \in rest : \A c \in rest : b <= c
  <2>1. rest \in SUBSET Nat
    <3>1. \A b \in Batches : b \in Nat
      BY DEF Batches
    <3>2. S \subseteq Batches
      OBVIOUS
    <3> QED
      BY <3>1, <3>2
  <2> HIDE DEF rest
  <2> QED
    BY <1>1, <2>1, FirstOf
<1> QED
  BY <1>2 DEF Upcoming

LEMMA SummedNext == Safe /\ Charged /\ Marked /\ Summed /\ [Next]_vars => Summed'
<1> SUFFICES ASSUME Safe, Charged, Marked, Summed, [Next]_vars
             PROVE  Summed'
  OBVIOUS
<1> USE DEF Goto, disk, lockFile, service, memory
<1>1. /\ pc \in [Procs -> {"idle", "lock", "load", "next", "call", "wait", "save", "manifest",
                            "mark", "unlock"}]
      /\ cmd \in [Procs -> {"submit", "attach", "collect"}]
      /\ at \in [Procs -> 1..(BatchCount + 1)] /\ records \in [Batches -> Jobs \cup {NoJob}]
      /\ status \in [Jobs -> {"QUEUED", "DONE", "ERROR", "MALFORMED"}]
  BY DEF Safe, Typed, TypeOK
<1>2. ASSUME NEW p \in Procs, NEW command \in {"submit", "attach", "collect"}, Start(p, command)
      PROVE  Summed'
  BY <1>1, <1>2, SummedIdle DEF Start, Summed, PassedMarked
<1>3. ASSUME NEW p \in Procs,
             \/ AcquireLock(p) \/ LockRefused(p) \/ LoadPlan(p) \/ Unlock(p)
             \/ Raise(p) \/ Kill(p)
      PROVE  Summed'
  <2>1. CASE Kill(p)
    BY <1>1, <2>1, SummedIdle DEF Kill, Summed, PassedMarked
  <2>2. CASE ~Kill(p)
    BY <1>1, <1>3, <2>2, SummedIdle DEF AcquireLock, LockRefused, LoadPlan, Unlock, Raise,
       Summed, PassedMarked
  <2> QED
    BY <2>1, <2>2
<1>4. ASSUME NEW p \in Procs, Submit(p)
      PROVE  Summed'
  <2>1. ASSUME NEW b \in Batches, MarkStarted(p, b)
        PROVE  Summed'
    <3>1. /\ pc[p] = "next" /\ cmd[p] = "submit" /\ SetBatch(p, b, Started)
          /\ copy[p][b].state = "prepared"
          /\ UNCHANGED <<records, summary, status, cmd>> /\ pc' = [pc EXCEPT ![p] = "call"]
          /\ at' = [at EXCEPT ![p] = b]
      BY <2>1 DEF MarkStarted, Started, ToSubmit, Upcoming
    <3>2. Started \in [state : States, job : Jobs \cup {NoJob}]
      BY DEF Started, States
    <3>3. Inside(p) /\ plan'[b] = Started /\ \A c \in Batches \ {b} : plan'[c] = plan[c]
      BY <3>1, <3>2, PlanUpdate DEF Inside
    <3>4. plan[b].state = "prepared" /\ plan \in Plans
      BY <3>1 DEF Safe, Typed, TypeOK, CopyIsCurrent, Inside
    <3>5. plan[b].job = NoJob
      BY <3>4 DEF Charged, JobsAttributable, Plans
    <3> QED
      BY <1>1, <3>1, <3>3, <3>5, SummedBind DEF Started
  <2>2. CASE SaveJobId(p)
    <3>1. /\ pc[p] = "save" /\ SetBatch(p, at[p], [state |-> "submitted", job |-> job[p]])
          /\ pc' = [pc EXCEPT ![p] = "manifest"] /\ cmd[p] = "submit"
          /\ UNCHANGED <<records, summary, status, cmd, at>>
      BY <2>2 DEF SaveJobId, Summed, PassedMarked
    <3>2. at[p] \in Batches /\ job[p] \in Jobs /\ plan[at[p]] = Started
      BY <3>1 DEF Safe, Typed, AtBatch, Charged, LoopState
    <3> DEFINE b == at[p]
               entry == [state |-> "submitted", job |-> job[p]]
    <3>3. entry \in [state : States, job : Jobs \cup {NoJob}] /\ Inside(p)
      BY <3>1, <3>2 DEF States, Inside
    <3>4. b \in Batches /\ SetBatch(p, b, entry) /\ plan[b].job = NoJob
      BY <3>1, <3>2 DEF Started
    <3>5. entry.state = "submitted"
      OBVIOUS
    <3> HIDE DEF entry
    <3>6. PICK c \in Batches : c = b
      BY <3>2
    <3> HIDE DEF b
    <3>7. plan'[c] = entry /\ \A d \in Batches \ {c} : plan'[d] = plan[d]
      BY <3>1, <3>3, <3>4, <3>6, PlanUpdate
    <3> QED
      BY <1>1, <3>1, <3>3, <3>4, <3>5, <3>6, <3>7, SummedBind
  <2>3. CASE SendRequest(p) \/ UpdateManifest(p) \/ CallTimesOut(p) \/ SubmitEnds(p)
    <3>1. CASE UpdateManifest(p)
      <4>1. cmd[p] = "submit"
        BY <3>1 DEF UpdateManifest, Summed, PassedMarked
      <4> QED
        BY <1>1, <3>1, <4>1, SummedIdle DEF UpdateManifest, Summed, PassedMarked
    <3> QED
      BY <1>1, <2>3, <3>1, SummedIdle DEF SendRequest, CallTimesOut, SubmitEnds, Summed, PassedMarked
  <2>4. ASSUME NEW j \in Jobs, ReceiveJob(p, j)
        PROVE  Summed'
    BY <1>1, <2>4, SummedIdle DEF ReceiveJob, Summed, PassedMarked
  <2> QED
    BY <1>4, <2>1, <2>2, <2>3, <2>4 DEF Submit
<1>5. ASSUME NEW p \in Procs, Attach(p)
      PROVE  Summed'
  <2>1. ASSUME NEW b \in Batches, NEW j \in Jobs, AttachJob(p, b, j)
        PROVE  Summed'
    <3> DEFINE entry == [state |-> "submitted", job |-> j]
    <3>1. /\ pc[p] = "next" /\ SetBatch(p, b, entry)
          /\ copy[p][b].job = NoJob
          /\ pc' = [pc EXCEPT ![p] = "unlock"] /\ UNCHANGED <<records, summary, status, cmd, at>>
      BY <2>1 DEF AttachJob, CanAttach
    <3>2. entry \in [state : States, job : Jobs \cup {NoJob}] /\ Inside(p) /\ entry.state = "submitted"
      BY <3>1 DEF States, Inside
    <3>3. plan[b].job = NoJob
      BY <3>1 DEF Safe, CopyIsCurrent, Inside
    <3> HIDE DEF entry
    <3>4. plan'[b] = entry /\ \A c \in Batches \ {b} : plan'[c] = plan[c]
      BY <3>1, <3>2, PlanUpdate
    <3> QED
      BY <1>1, <3>1, <3>2, <3>3, <3>4, SummedBind
  <2>2. CASE AttachRefused(p)
    BY <1>1, <2>2, SummedIdle DEF AttachRefused, Summed, PassedMarked
  <2> QED
    BY <1>5, <2>1, <2>2 DEF Attach
<1>6. ASSUME NEW p \in Procs, Collect(p)
      PROVE  Summed'
  <2>1. ASSUME NEW b \in Batches, CollectLater(p, b)
        PROVE  Summed'
    <3>1. /\ pc[p] = "next" /\ cmd[p] = "collect" /\ b \in ToCollect(p)
          /\ status[copy[p][b].job] # "DONE" /\ SetBatch(p, b, copy[p][b])
          /\ at' = [at EXCEPT ![p] = b + 1]
          /\ UNCHANGED <<pc, records, summary, status, cmd>>
      BY <2>1 DEF CollectLater
    <3>2. copy[p] = plan /\ plan \in Plans /\ Inside(p)
      BY <3>1 DEF Safe, CopyIsCurrent, Typed, TypeOK, Inside
    <3>3. plan[b] \in [state : States, job : Jobs \cup {NoJob}]
      BY <3>2 DEF Plans
    <3>4. plan' \in Plans /\ plan'[b] = plan[b] /\ \A c \in Batches \ {b} : plan'[c] = plan[c]
      BY <3>1, <3>2, <3>3, PlanUpdate
    <3>5. plan' = plan
      BY <3>2, <3>4 DEF Plans
    <3>6. records[b] = NoJob
      BY <3>1, <3>2 DEF Summed, Recorded
    <3>7. \A c \in Batches : c < b /\ records[c] # NoJob => plan[c].state = "collected"
      BY <3>1, SkippedMarked
    <3>8. \A c \in Batches : c < b + 1 => c < b \/ c = b
      BY DEF Batches
    <3>9. PassedMarked'
      BY <1>1, <3>1, <3>2, <3>5, <3>6, <3>7, <3>8, OthersOutside DEF Summed, PassedMarked
    <3> QED
      BY <3>1, <3>5, <3>9 DEF Summed, Recorded, SummaryAccurate
  <2>2. ASSUME NEW b \in Batches, WriteRecord(p, b)
        PROVE  Summed'
    <3>1. /\ pc[p] = "next" /\ cmd[p] = "collect" /\ b \in ToCollect(p)
          /\ status[copy[p][b].job] = "DONE"
          /\ records' = [records EXCEPT ![b] = copy[p][b].job]
          /\ at' = [at EXCEPT ![p] = b] /\ pc' = [pc EXCEPT ![p] = "mark"]
          /\ UNCHANGED <<plan, summary, status, cmd>>
      BY <2>2 DEF WriteRecord
    <3>2. copy[p] = plan /\ Inside(p)
      BY <3>1 DEF Safe, CopyIsCurrent, Inside
    <3>3. plan[b].job # NoJob /\ plan[b].state # "collected"
      BY <3>1, <3>2 DEF ToCollect, Upcoming
    <3>4. plan[b].job \in Jobs
      BY <3>3, ToCollectSubmitted
    <3>5. Recorded'
      BY <1>1, <3>1, <3>2, <3>4 DEF Summed, Recorded
    <3>6. \A c \in Batches : c < b /\ records[c] # NoJob => plan[c].state = "collected"
      BY <3>1, SkippedMarked
    <3>7. \A c \in Batches : c < b => c # b
      BY DEF Batches
    <3>8. PassedMarked'
      BY <1>1, <3>1, <3>2, <3>6, <3>7, OthersOutside DEF Summed, PassedMarked
    <3> QED
      BY <3>1, <3>5, <3>8 DEF Summed, SummaryAccurate
  <2>3. ASSUME NEW b \in Batches, CollectAborts(p, b)
        PROVE  Summed'
    BY <1>1, <2>3, SummedIdle DEF CollectAborts, Summed, PassedMarked
  <2>4. CASE MarkCollected(p)
    <3>1. PICK b \in Batches : b = at[p]
      BY <2>4 DEF MarkCollected, Safe, Typed, AtBatch
    <3> DEFINE entry == [copy[p][b] EXCEPT !.state = "collected"]
    <3>2. /\ pc[p] = "mark" /\ SetBatch(p, b, entry) /\ at' = [at EXCEPT ![p] = b + 1]
          /\ pc' = [pc EXCEPT ![p] = "next"] /\ UNCHANGED <<records, summary, status, cmd>>
      BY <1>1, <2>4, <3>1 DEF MarkCollected
    <3>3. /\ copy[p] = plan /\ plan \in Plans /\ Inside(p)
          /\ plan[b].state = "submitted" /\ records[b] = plan[b].job /\ plan[b].job # NoJob
      BY <3>1, <3>2 DEF Safe, Typed, TypeOK, CopyIsCurrent, Inside, Marked, Charged, LoopState
    <3>4. plan[b] \in [state : States, job : Jobs \cup {NoJob}]
      BY <3>3 DEF Plans
    <3>5. entry = [state |-> "collected", job |-> plan[b].job]
      BY <3>3, <3>4
    <3>6. entry \in [state : States, job : Jobs \cup {NoJob}]
      BY <3>4, <3>5 DEF States
    <3> HIDE DEF entry
    <3>7. plan'[b] = entry /\ \A c \in Batches \ {b} : plan'[c] = plan[c]
      BY <3>2, <3>3, <3>6, PlanUpdate
    <3>8. Recorded'
      BY <3>2, <3>3, <3>5, <3>7 DEF Summed, Recorded
    <3>9. \A c \in Batches : c < b + 1 => c < b \/ c = b
      BY DEF Batches
    <3>10. PassedMarked'
      BY <1>1, <3>1, <3>2, <3>3, <3>5, <3>7, <3>9, OthersOutside DEF Summed, PassedMarked
    <3> QED
      BY <3>2, <3>8, <3>10 DEF Summed, SummaryAccurate
  <2>5. CASE WriteSummary(p)
    <3>1. /\ pc[p] = "next" /\ cmd[p] = "collect" /\ ToCollect(p) = {}
          /\ summary' = [recorded |-> {b \in Batches : records[b] # NoJob},
                         collected |-> {b \in Batches : copy[p][b].state = "collected"}]
          /\ pc' = [pc EXCEPT ![p] = "unlock"] /\ UNCHANGED <<plan, records, status, at, cmd>>
      BY <2>5 DEF WriteSummary
    <3>2. copy[p] = plan
      BY <3>1 DEF Safe, CopyIsCurrent, Inside
    <3>3. ASSUME NEW b \in Batches, records[b] # NoJob
          PROVE  plan[b].state = "collected"
      <4>1. CASE b < at[p]
        BY <3>1, <3>3, <4>1 DEF Summed, PassedMarked
      <4>2. CASE b >= at[p]
        <5> DEFINE open == {d \in Batches : copy[p][d].job # NoJob /\ copy[p][d].state # "collected"}
        <5>1. Typed /\ Upcoming(p, open) = {} /\ open \in SUBSET Batches
          BY <3>1 DEF Safe, ToCollect
        <5> HIDE DEF open
        <5>2. b \notin open
          BY <4>2, <5>1, NothingUpcoming
        <5>3. plan[b].job # NoJob
          BY <3>3 DEF Summed, Recorded
        <5> QED
          BY <3>2, <5>2, <5>3 DEF open
      <4> QED
        BY <1>1, <4>1, <4>2 DEF Batches
    <3>4. \A b \in Batches : plan[b].state = "collected" => records[b] # NoJob
      BY DEF Summed, Recorded
    <3>5. SummaryAccurate'
      BY <3>1, <3>2, <3>3, <3>4 DEF SummaryAccurate
    <3>6. PassedMarked'
      BY <1>1, <3>1 DEF Summed, PassedMarked
    <3> QED
      BY <3>1, <3>5, <3>6 DEF Summed, Recorded
  <2> QED
    BY <1>6, <2>1, <2>2, <2>3, <2>4, <2>5 DEF Collect
<1>7. CASE Service
  <2>1. CASE \E b \in Batches : LoseRequest(b) \/ \E j \in Jobs : CreateJob(b, j)
    BY <2>1, SummedIdle DEF LoseRequest, CreateJob, Summed, PassedMarked
  <2>2. ASSUME NEW j \in Jobs, FinishJob(j)
        PROVE  Summed'
    BY <1>1, <2>2 DEF FinishJob, Summed, Recorded, PassedMarked, SummaryAccurate
  <2> QED
    BY <1>7, <2>1, <2>2 DEF Service
<1>8. CASE RemoveStaleLock \/ UNCHANGED vars
  BY <1>8, SummedIdle DEF RemoveStaleLock, vars, Summed, PassedMarked
<1> QED
  BY <1>2, <1>3, <1>4, <1>5, <1>6, <1>7, <1>8 DEF Next, Run, User

\* The number of pairs the summary counts from the records is the number of
\* batches it reports as collected, whatever was interrupted before.
THEOREM SummaryAlwaysAccurate == Spec => []SummaryAccurate
<1>1. Summed => SummaryAccurate
  BY DEF Summed
<1> QED
  BY <1>1, SafeAlways, ChargedAlways, MarkedInit, MarkedNext, SummedInit, SummedNext, PTL DEF Spec
=============================================================================
