--------------------------- MODULE SubmissionLedger ---------------------------
(***************************************************************************)
(* What the hardware workflow promises about each batch, without its       *)
(* files, lock, invocations and failures: an intention is on record before *)
(* anything is paid, at most one job is ever paid for, the batch is bound  *)
(* to that job, and it is closed only once the results are on record.      *)
(***************************************************************************)
CONSTANTS Batches, Jobs, NoJob

VARIABLES
    stage,     \* prepared -> submission_started -> submitted -> collected
    paid,      \* the jobs the service created for the batch
    bound,     \* the job the plan names
    results    \* the job whose results were written

vars == <<stage, paid, bound, results>>

Init ==
    /\ stage = [b \in Batches |-> "prepared"]
    /\ paid = [b \in Batches |-> {}]
    /\ bound = [b \in Batches |-> NoJob]
    /\ results = [b \in Batches |-> NoJob]

Announce(b) ==
    /\ stage[b] = "prepared"
    /\ stage' = [stage EXCEPT ![b] = "submission_started"]
    /\ UNCHANGED <<paid, bound, results>>

Charge(b, j) ==
    /\ stage[b] = "submission_started"
    /\ paid[b] = {}
    /\ \A c \in Batches : j \notin paid[c]
    /\ paid' = [paid EXCEPT ![b] = {j}]
    /\ UNCHANGED <<stage, bound, results>>

Bind(b, j) ==
    /\ stage[b] = "submission_started"
    /\ j \in paid[b]
    /\ stage' = [stage EXCEPT ![b] = "submitted"]
    /\ bound' = [bound EXCEPT ![b] = j]
    /\ UNCHANGED <<paid, results>>

Publish(b) ==
    /\ stage[b] = "submitted"
    /\ results' = [results EXCEPT ![b] = bound[b]]
    /\ UNCHANGED <<stage, paid, bound>>

Close(b) ==
    /\ stage[b] = "submitted"
    /\ results[b] = bound[b]
    /\ stage' = [stage EXCEPT ![b] = "collected"]
    /\ UNCHANGED <<paid, bound, results>>

Next ==
    \E b \in Batches :
        \/ Announce(b)
        \/ \E j \in Jobs : Charge(b, j) \/ Bind(b, j)
        \/ Publish(b)
        \/ Close(b)

Spec == Init /\ [][Next]_vars
===============================================================================
