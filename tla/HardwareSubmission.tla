------------------------- MODULE HardwareSubmission -------------------------
(***************************************************************************)
(* The resumable hardware workflow of                                      *)
(* python/mlirq_qiskit/experiments/hardware.py: several invocations of     *)
(* submit, attach and collect share the files of one run directory         *)
(* (plan.json, jobs/batch-N.json, manifest.json, hardware-summary.json and *)
(* the lock file) and a remote service that charges for every job.         *)
(*                                                                         *)
(* An invocation reads the plan into memory, changes its copy and writes   *)
(* the whole copy back (write_json replaces the file atomically).  Any     *)
(* step can be the last: an exception leaves through the finally that      *)
(* unlinks the lock, a kill leaves the lock file behind.  A request for a  *)
(* job can be lost, or be served after its sender is gone.                 *)
(***************************************************************************)
EXTENDS Naturals, FiniteSets

CONSTANTS
    Procs,              \* invocations that may be alive at a time
    BatchCount,         \* batches of the plan, in the plan's order
    Jobs,               \* identifiers the service can give to jobs
    NoJob,
    ForeignJobs,        \* jobs of the same account that belong to other runs
    MaxJobs,            \* --max-jobs
    MaxFailures,        \* bound on exceptions and kills in a behaviour
    MalformedResults    \* whether a finished job may lack its two PUB results

Batches == 1..BatchCount

ASSUME SubmissionAssumption ==
    /\ BatchCount \in Nat /\ MaxJobs \in Nat \ {0} /\ MaxFailures \in Nat
    /\ NoJob \notin Jobs
    /\ ForeignJobs \subseteq Jobs
    /\ MalformedResults \in BOOLEAN

States == {"prepared", "submission_started", "submitted", "collected"}
Plans == [Batches -> [state : States, job : Jobs \cup {NoJob}]]
Prepared == [b \in Batches |-> [state |-> "prepared", job |-> NoJob]]

Nowhere == 0      \* the tag of a job of another run
Unused == BatchCount + 1    \* an identifier the service has not given yet

VARIABLES
    \* the run directory
    plan,        \* plan.json
    records,     \* jobs/batch-N.json: the job whose results it holds
    manifest,    \* manifest.json: hardware_submitted
    summary,     \* hardware-summary.json: the batches it counts, by record and by state
    lock,        \* submission.lock exists
    stale,       \* history: it was left there by a killed invocation
    \* the service
    requests,    \* batches with a request on its way
    tag,         \* job -> the batch named in its tags
    status,      \* job -> its status; MALFORMED is DONE with other than two results
    \* the invocations
    pc, cmd,
    copy,        \* the plan in memory
    at,          \* the batch the loop is at
    count,       \* batches submitted by this invocation
    job,         \* the identifier sampler.run returned
    failures     \* exceptions and kills so far

disk == <<plan, records, manifest, summary>>
service == <<requests, tag, status>>
memory == <<cmd, copy, at, count, job>>
lockFile == <<lock, stale>>
vars == <<plan, records, manifest, summary, lock, stale, requests, tag, status,
          pc, cmd, copy, at, count, job, failures>>

Init ==
    /\ plan = Prepared
    /\ records = [b \in Batches |-> NoJob]
    /\ manifest = FALSE
    /\ summary = [recorded |-> {}, collected |-> {}]
    /\ lock = FALSE /\ stale = FALSE
    /\ requests = {}
    /\ tag = [j \in Jobs |-> IF j \in ForeignJobs THEN Nowhere ELSE Unused]
    /\ status = [j \in Jobs |-> "QUEUED"]
    /\ pc = [p \in Procs |-> "idle"]
    /\ cmd = [p \in Procs |-> "collect"]
    /\ copy = [p \in Procs |-> Prepared]
    /\ at = [p \in Procs |-> 1]
    /\ count = [p \in Procs |-> 0]
    /\ job = [p \in Procs |-> NoJob]
    /\ failures = 0

Goto(p, label) == pc' = [pc EXCEPT ![p] = label]

\* The invocations between the creation of the lock file and its removal.
Inside(p) == pc[p] \notin {"idle", "lock"}

-----------------------------------------------------------------------------
(***************************************************************************)
(* The lock, and the plan read under it.                                   *)
(***************************************************************************)

\* submit reads the plan before it takes the lock; the others do not.
Start(p, command) ==
    /\ pc[p] = "idle"
    /\ Goto(p, "lock")
    /\ cmd' = [cmd EXCEPT ![p] = command]
    /\ copy' = [copy EXCEPT ![p] = IF command = "submit" THEN plan ELSE Prepared]
    /\ at' = [at EXCEPT ![p] = 1]
    /\ count' = [count EXCEPT ![p] = 0]
    /\ job' = [job EXCEPT ![p] = NoJob]
    /\ UNCHANGED <<disk, lockFile, service, failures>>

\* os.open with O_CREAT | O_EXCL: creates the file, or raises FileExistsError.
AcquireLock(p) ==
    /\ pc[p] = "lock"
    /\ ~lock
    /\ lock' = TRUE
    /\ Goto(p, "load")
    /\ UNCHANGED <<disk, stale, service, memory, failures>>

LockRefused(p) ==
    /\ pc[p] = "lock"
    /\ lock
    /\ Goto(p, "idle")
    /\ UNCHANGED <<disk, lockFile, service, memory, failures>>

\* Seeded defect: submit goes on with the plan it read before the lock.
LoadPlanEarly(p) ==
    /\ pc[p] = "load"
    /\ copy' = [copy EXCEPT ![p] = IF cmd[p] = "submit" THEN @ ELSE plan]
    /\ Goto(p, "next")
    /\ UNCHANGED <<disk, lockFile, service, cmd, at, count, job, failures>>

\* Every command reads the plan (again) under the lock.
LoadPlan(p) ==
    /\ pc[p] = "load"
    /\ copy' = [copy EXCEPT ![p] = plan]
    /\ Goto(p, "next")
    /\ UNCHANGED <<disk, lockFile, service, cmd, at, count, job, failures>>

\* Seeded defect: the command ends without the unlink.
UnlockForgotten(p) ==
    /\ pc[p] = "unlock"
    /\ Goto(p, "idle")
    /\ UNCHANGED <<disk, lockFile, service, memory, failures>>

\* The finally of plan_lock.
Unlock(p) ==
    /\ pc[p] = "unlock"
    /\ lock' = FALSE
    /\ Goto(p, "idle")
    /\ UNCHANGED <<disk, stale, service, memory, failures>>

\* The batch of the plan a loop stops at next, among those it does not skip.
Upcoming(p, S) == {b \in S : b >= at[p] /\ \A c \in S : c >= at[p] => b <= c}

-----------------------------------------------------------------------------
(***************************************************************************)
(* submit                                                                  *)
(***************************************************************************)
ToSubmit(p) == Upcoming(p, {b \in Batches : copy[p][b].state = "prepared"})

\* write_json(plan.json): the whole copy replaces the file.
SetBatch(p, b, entry) ==
    /\ copy' = [copy EXCEPT ![p][b] = entry]
    /\ plan' = copy'[p]

\* Seeded defects: the intention is kept in memory; the cap admits one more.
MarkStartedInMemory(p, b) ==
    /\ pc[p] = "next" /\ cmd[p] = "submit"
    /\ count[p] < MaxJobs
    /\ b \in ToSubmit(p)
    /\ copy' = [copy EXCEPT ![p][b].state = "submission_started"]
    /\ at' = [at EXCEPT ![p] = b]
    /\ Goto(p, "call")
    /\ UNCHANGED <<disk, lockFile, service, cmd, count, job, failures>>

MarkStartedOverCap(p, b) ==
    /\ pc[p] = "next" /\ cmd[p] = "submit"
    /\ count[p] <= MaxJobs
    /\ b \in ToSubmit(p)
    /\ SetBatch(p, b, [state |-> "submission_started", job |-> NoJob])
    /\ at' = [at EXCEPT ![p] = b]
    /\ Goto(p, "call")
    /\ UNCHANGED <<records, manifest, summary, lockFile, service, cmd, count, job, failures>>

\* The intention is on disk before the network call.
MarkStarted(p, b) ==
    /\ pc[p] = "next" /\ cmd[p] = "submit"
    /\ count[p] < MaxJobs
    /\ b \in ToSubmit(p)
    /\ SetBatch(p, b, [state |-> "submission_started", job |-> NoJob])
    /\ at' = [at EXCEPT ![p] = b]
    /\ Goto(p, "call")
    /\ UNCHANGED <<records, manifest, summary, lockFile, service, cmd, count, job, failures>>

\* sampler.run sends its request, and returns once the service has answered.
SendRequest(p) ==
    /\ pc[p] = "call"
    /\ requests' = requests \cup {at[p]}
    /\ Goto(p, "wait")
    /\ UNCHANGED <<disk, lockFile, tag, status, memory, failures>>

ReceiveJob(p, j) ==
    /\ pc[p] = "wait"
    /\ tag[j] = at[p]
    /\ job' = [job EXCEPT ![p] = j]
    /\ Goto(p, "save")
    /\ UNCHANGED <<disk, lockFile, service, cmd, copy, at, count, failures>>

SaveJobId(p) ==
    /\ pc[p] = "save"
    /\ SetBatch(p, at[p], [state |-> "submitted", job |-> job[p]])
    /\ Goto(p, "manifest")
    /\ UNCHANGED <<records, manifest, summary, lockFile, service, cmd, at, count, job, failures>>

UpdateManifest(p) ==
    /\ pc[p] = "manifest"
    /\ manifest' = TRUE
    /\ count' = [count EXCEPT ![p] = @ + 1]
    /\ at' = [at EXCEPT ![p] = @ + 1]
    /\ Goto(p, "next")
    /\ UNCHANGED <<plan, records, summary, lockFile, service, cmd, copy, job, failures>>

SubmitEnds(p) ==
    /\ pc[p] = "next" /\ cmd[p] = "submit"
    /\ count[p] >= MaxJobs \/ ToSubmit(p) = {}
    /\ Goto(p, "unlock")
    /\ UNCHANGED <<disk, lockFile, service, memory, failures>>

-----------------------------------------------------------------------------
(***************************************************************************)
(* attach: the user names a batch and a job of the account.                *)
(***************************************************************************)
\* Seeded defect: the tags of the job are not compared with the batch.
CanAttachAny(p, b, j) ==
    /\ copy[p][b].state = "submission_started" /\ copy[p][b].job = NoJob
    /\ tag[j] # Unused

CanAttach(p, b, j) ==
    /\ copy[p][b].state = "submission_started" /\ copy[p][b].job = NoJob
    /\ tag[j] = b

AttachJob(p, b, j) ==
    /\ pc[p] = "next" /\ cmd[p] = "attach"
    /\ CanAttach(p, b, j)
    /\ SetBatch(p, b, [state |-> "submitted", job |-> j])
    /\ Goto(p, "unlock")
    /\ UNCHANGED <<records, manifest, summary, lockFile, service, cmd, at, count, job, failures>>

AttachRefused(p) ==
    /\ pc[p] = "next" /\ cmd[p] = "attach"
    /\ \E b \in Batches, j \in Jobs : ~CanAttach(p, b, j)
    /\ Goto(p, "unlock")
    /\ UNCHANGED <<disk, lockFile, service, memory, failures>>

-----------------------------------------------------------------------------
(***************************************************************************)
(* collect                                                                 *)
(***************************************************************************)
\* Seeded defect: what has a record is taken for collected.
ToCollectUnrecorded(p) ==
    Upcoming(p, {b \in Batches : copy[p][b].job # NoJob /\ records[b] = NoJob})

ToCollect(p) ==
    Upcoming(p, {b \in Batches : copy[p][b].job # NoJob /\ copy[p][b].state # "collected"})

\* Seeded defect: an unfinished job ends the loop.
CollectBreaks(p, b) ==
    /\ pc[p] = "next" /\ cmd[p] = "collect"
    /\ b \in ToCollect(p)
    /\ status[copy[p][b].job] \notin {"DONE", "MALFORMED"}
    /\ Goto(p, "unlock")
    /\ UNCHANGED <<disk, lockFile, service, memory, failures>>

\* The remote status is noted in the plan, and the loop goes on.
CollectLater(p, b) ==
    /\ pc[p] = "next" /\ cmd[p] = "collect"
    /\ b \in ToCollect(p)
    /\ status[copy[p][b].job] \notin {"DONE", "MALFORMED"}
    /\ SetBatch(p, b, copy[p][b])
    /\ at' = [at EXCEPT ![p] = b + 1]
    /\ UNCHANGED <<pc, records, manifest, summary, lockFile, service, cmd, count, job, failures>>

\* The record is written before the batch is marked.
WriteRecord(p, b) ==
    /\ pc[p] = "next" /\ cmd[p] = "collect"
    /\ b \in ToCollect(p)
    /\ status[copy[p][b].job] = "DONE"
    /\ records' = [records EXCEPT ![b] = copy[p][b].job]
    /\ at' = [at EXCEPT ![p] = b]
    /\ Goto(p, "mark")
    /\ UNCHANGED <<plan, manifest, summary, lockFile, service, cmd, copy, count, job, failures>>

MarkCollected(p) ==
    /\ pc[p] = "mark"
    /\ SetBatch(p, at[p], [copy[p][at[p]] EXCEPT !.state = "collected"])
    /\ at' = [at EXCEPT ![p] = @ + 1]
    /\ Goto(p, "next")
    /\ UNCHANGED <<records, manifest, summary, lockFile, service, cmd, count, job, failures>>

\* "Expected two paired PUB results": the whole command is given up.
CollectAborts(p, b) ==
    /\ pc[p] = "next" /\ cmd[p] = "collect"
    /\ b \in ToCollect(p)
    /\ status[copy[p][b].job] = "MALFORMED"
    /\ Goto(p, "unlock")
    /\ UNCHANGED <<disk, lockFile, service, memory, failures>>

\* The pairs are counted from the records, the states from the plan.
WriteSummary(p) ==
    /\ pc[p] = "next" /\ cmd[p] = "collect"
    /\ ToCollect(p) = {}
    /\ summary' = [recorded |-> {b \in Batches : records[b] # NoJob},
                   collected |-> {b \in Batches : copy[p][b].state = "collected"}]
    /\ Goto(p, "unlock")
    /\ UNCHANGED <<plan, records, manifest, lockFile, service, memory, failures>>

-----------------------------------------------------------------------------
(***************************************************************************)
(* Failures, the service, the user.                                        *)
(***************************************************************************)

\* A failed hash or Target check, a full disk, a network error (whether or not
\* the request was sent): the exception passes through the finally.
Raise(p) ==
    /\ Inside(p) /\ pc[p] # "unlock"
    /\ failures < MaxFailures
    /\ failures' = failures + 1
    /\ Goto(p, "unlock")
    /\ UNCHANGED <<disk, lockFile, service, memory>>

\* No finally runs: past os.open, the lock file stays.
Kill(p) ==
    /\ pc[p] # "idle"
    /\ failures < MaxFailures
    /\ failures' = failures + 1
    /\ stale' = IF Inside(p) THEN TRUE ELSE stale
    /\ Goto(p, "idle")
    /\ UNCHANGED <<disk, lock, service, memory>>

\* Seeded defect: a submission without an answer is made ready for a retry.
CallRetried(p) ==
    /\ pc[p] = "wait"
    /\ SetBatch(p, at[p], [state |-> "prepared", job |-> NoJob])
    /\ Goto(p, "unlock")
    /\ UNCHANGED <<records, manifest, summary, lockFile, service, cmd, at, count, job, failures>>

\* sampler.run gives up waiting for an answer.
CallTimesOut(p) ==
    /\ pc[p] = "wait"
    /\ Goto(p, "unlock")
    /\ UNCHANGED <<disk, lockFile, service, memory, failures>>

\* The service serves one request with one job, maybe long after its sender
\* has given up; or the request never arrives.
CreateJob(b, j) ==
    /\ b \in requests
    /\ tag[j] = Unused
    /\ requests' = requests \ {b}
    /\ tag' = [tag EXCEPT ![j] = b]
    /\ UNCHANGED <<disk, lockFile, status, pc, memory, failures>>

LoseRequest(b) ==
    /\ b \in requests
    /\ requests' = requests \ {b}
    /\ UNCHANGED <<disk, lockFile, tag, status, pc, memory, failures>>

FinishJob(j) ==
    /\ tag[j] \in Batches
    /\ status[j] = "QUEUED"
    /\ \E s \in {"DONE", "ERROR"} \cup (IF MalformedResults THEN {"MALFORMED"} ELSE {}) :
          status' = [status EXCEPT ![j] = s]
    /\ UNCHANGED <<disk, lockFile, requests, tag, pc, memory, failures>>

\* "If the process was forcibly killed, inspect its status before removing a
\* stale submission.lock" (docs/experiments.md): the user removes no other one.
RemoveStaleLock ==
    /\ lock /\ stale
    /\ \A p \in Procs : ~Inside(p)
    /\ lock' = FALSE /\ stale' = FALSE
    /\ UNCHANGED <<disk, service, pc, memory, failures>>

-----------------------------------------------------------------------------
Submit(p) ==
    \/ \E b \in Batches : MarkStarted(p, b)
    \/ SendRequest(p)
    \/ \E j \in Jobs : ReceiveJob(p, j)
    \/ CallTimesOut(p)
    \/ SaveJobId(p)
    \/ UpdateManifest(p)
    \/ SubmitEnds(p)

Attach(p) ==
    \/ \E b \in Batches, j \in Jobs : AttachJob(p, b, j)
    \/ AttachRefused(p)

Collect(p) ==
    \/ \E b \in Batches : CollectLater(p, b) \/ WriteRecord(p, b) \/ CollectAborts(p, b)
    \/ MarkCollected(p)
    \/ WriteSummary(p)

\* The steps an invocation takes by itself, once started.
Run(p) ==
    AcquireLock(p) \/ LockRefused(p) \/ LoadPlan(p) \/ Submit(p) \/ Attach(p) \/ Collect(p) \/ Unlock(p)

Service ==
    \/ \E b \in Batches : LoseRequest(b) \/ \E j \in Jobs : CreateJob(b, j)
    \/ \E j \in Jobs : FinishJob(j)

User ==
    \/ \E p \in Procs, command \in {"submit", "attach", "collect"} : Start(p, command)
    \/ RemoveStaleLock

Next ==
    \/ \E p \in Procs : Run(p) \/ Raise(p) \/ Kill(p)
    \/ Service
    \/ User

Spec == Init /\ [][Next]_vars

(***************************************************************************)
(* A started command runs on.  For the results to come in, the user also   *)
(* has to run collect again and again, as docs/experiments.md says, and to *)
(* remove the lock that a killed command left behind.                      *)
(***************************************************************************)
FairSpec ==
    /\ Spec
    /\ \A p \in Procs : WF_vars(Run(p)) /\ SF_vars(Start(p, "collect"))
    /\ WF_vars(RemoveStaleLock)

-----------------------------------------------------------------------------
(***************************************************************************)
(* Properties.                                                             *)
(***************************************************************************)
TypeOK ==
    /\ plan \in Plans
    /\ records \in [Batches -> Jobs \cup {NoJob}]
    /\ manifest \in BOOLEAN
    /\ summary \in [recorded : SUBSET Batches, collected : SUBSET Batches]
    /\ lock \in BOOLEAN /\ stale \in BOOLEAN
    /\ requests \subseteq Batches
    /\ tag \in [Jobs -> Batches \cup {Nowhere, Unused}]
    /\ status \in [Jobs -> {"QUEUED", "DONE", "ERROR", "MALFORMED"}]
    /\ pc \in [Procs -> {"idle", "lock", "load", "next", "call", "wait", "save", "manifest",
                         "mark", "unlock"}]
    /\ cmd \in [Procs -> {"submit", "attach", "collect"}]
    /\ copy \in [Procs -> Plans]
    /\ at \in [Procs -> 1..(BatchCount + 1)]
    /\ count \in [Procs -> 0..MaxJobs]
    /\ job \in [Procs -> Jobs \cup {NoJob}]
    /\ failures \in 0..MaxFailures

\* "Interrupted/uncertain submissions are never retried automatically (which
\* could duplicate paid jobs)": over all invocations, kills, lost answers and
\* late requests, a batch has at most one request or job, ever.
NoDoubleCharge ==
    \A b \in Batches :
        /\ \A j, k \in Jobs : tag[j] = b /\ tag[k] = b => j = k
        /\ b \in requests => \A j \in Jobs : tag[j] # b

\* No job is lost to the plan: the batch of a paid job carries its id, or is
\* the uncertain submission that attach accepts; and an id in the plan is that
\* of the batch's own job.
JobsAttributable ==
    \A b \in Batches :
        /\ \A j \in Jobs : tag[j] = b =>
              \/ plan[b] = [state |-> "submission_started", job |-> NoJob]
              \/ plan[b].state \in {"submitted", "collected"} /\ plan[b].job = j
        /\ plan[b].job # NoJob => tag[plan[b].job] = b

\* No lost update: past its load, the invocation that holds the lock has in
\* memory what is on disk (but for what it is about to save).
CopyIsCurrent ==
    \A p \in Procs : Inside(p) /\ pc[p] \notin {"load", "unlock"} => copy[p] = plan

\* The summary's number of collected pairs is the number of batches it reports
\* in the state collected, whatever was interrupted before.
SummaryAccurate == summary.recorded = summary.collected

\* The run directory and the service implement the ledger of each batch.
Ledger == INSTANCE SubmissionLedger WITH
    stage <- [b \in Batches |-> plan[b].state],
    paid <- [b \in Batches |-> {j \in Jobs : tag[j] = b}],
    bound <- [b \in Batches |-> plan[b].job],
    results <- records

ImplementsLedger == Ledger!Spec

\* Every command ends, and lets go of the lock unless it was killed: once it is
\* over, a lock file that is still there is that of another invocation at work
\* or the one a kill left behind, the only kind the user may remove.  (A command
\* that finds the file is refused and ends too.)
InvocationEnds ==
    \A p \in Procs :
        pc[p] # "idle" ~> /\ pc[p] = "idle"
                          /\ lock => stale \/ \E q \in Procs : Inside(q)

\* "collect polls recorded jobs and writes available results; rerun it later
\* for unfinished jobs" (docs/experiments.md).
AvailableResultsWritten ==
    \A b \in Batches :
        (\E j \in Jobs : plan[b].job = j /\ status[j] = "DONE") ~> (records[b] # NoJob)
=============================================================================
