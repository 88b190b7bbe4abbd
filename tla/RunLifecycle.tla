---------------------------- MODULE RunLifecycle ----------------------------
(***************************************************************************)
(* What the service promises about a job run, whatever the workers, the     *)
(* queue and the failures do: once a run is queued it is owed an execution;  *)
(* only a run that is owed one is touched; a result gives way to a failure    *)
(* alone; and the debt is discharged only when the row holds a result, or     *)
(* has been deleted with its job.  Of a run that two workers had at once,      *)
(* which is contested, it promises no more than that it was queued before.     *)
(***************************************************************************)
CONSTANT Runs

VARIABLES
    status,     \* the status of the run's row
    duty,       \* "none" before the run is queued, then "owed", then "discharged"
    contested   \* two workers have had the run at once

vars == <<status, duty, contested>>

Results == {"SUCCEEDED", "FAILED"}
Present == {"PENDING", "RUNNING"} \union Results
Open(r) == duty[r] = "owed" \/ (contested[r] /\ duty[r] = "discharged")

Init ==
    /\ status = [r \in Runs |-> "absent"]
    /\ duty = [r \in Runs |-> "none"]
    /\ contested = [r \in Runs |-> FALSE]

Create(r) ==
    /\ status[r] = "absent"
    /\ status' = [status EXCEPT ![r] = "PENDING"]
    /\ UNCHANGED <<duty, contested>>

Queue(r) ==
    /\ duty[r] = "none"
    /\ status[r] # "absent"
    /\ duty' = [duty EXCEPT ![r] = "owed"]
    /\ UNCHANGED <<status, contested>>

Contest(r) ==
    /\ duty[r] # "none"
    /\ contested' = [contested EXCEPT ![r] = TRUE]
    /\ UNCHANGED <<status, duty>>

\* A run may be started again, even after a result: execution is at least once.
Start(r) ==
    /\ Open(r)
    /\ status[r] \in Present
    /\ status' = [status EXCEPT ![r] = "RUNNING"]
    /\ UNCHANGED <<duty, contested>>

\* A result is of a run that is running; a failure may also replace a result that
\* was written by the same attempt.
Finish(r, result) ==
    /\ Open(r)
    /\ status[r] \in Present \ {"PENDING"}
    /\ status[r] = "RUNNING" \/ result = "FAILED" \/ contested[r]
    /\ status' = [status EXCEPT ![r] = result]
    /\ UNCHANGED <<duty, contested>>

Discharge(r) ==
    /\ duty[r] = "owed"
    /\ status[r] \in Results \union {"removed"} \/ contested[r]
    /\ duty' = [duty EXCEPT ![r] = "discharged"]
    /\ UNCHANGED <<status, contested>>

\* The rows of a job go together, whatever their status.
Remove(S) ==
    /\ \A r \in S : status[r] \in Present
    /\ status' = [r \in Runs |-> IF r \in S THEN "removed" ELSE status[r]]
    /\ UNCHANGED <<duty, contested>>

Next ==
    \/ \E r \in Runs : \/ Create(r) \/ Queue(r) \/ Contest(r) \/ Start(r) \/ Discharge(r)
                       \/ \E result \in Results : Finish(r, result)
    \/ \E S \in SUBSET Runs : Remove(S)

Spec == Init /\ [][Next]_vars
=============================================================================
