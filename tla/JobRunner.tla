------------------------------ MODULE JobRunner ------------------------------
(***************************************************************************)
(* The execution of job runs through an external message queue: the        *)
(* handlers that trigger a run (app/services/job_service.py, the scheduled  *)
(* call of scheduler_service.py), the run rows (repositories.py), the queue *)
(* the adapters of app/infrastructure/queue talk to, and the worker loop of *)
(* app/services/job_runner.py.  Every await of the code is a step of its    *)
(* own here, so workers, requests, deletions of jobs, expiries of receipts, *)
(* failures and crashes interleave between any two of them.                 *)
(***************************************************************************)
EXTENDS Integers, FiniteSets

CONSTANTS
    Jobs,             \* job definitions that exist when the behaviour starts
    Runs,             \* the identities of the run rows that may be created
    Workers,          \* worker tasks, over all the instances of the service
    JobOf,            \* the job each run belongs to
    BatchSize,        \* message_queue_max_messages
    Redrive,          \* TRUE: the queue dead-letters (queue.tf's redrive_policy)
    MaxReceiveCount,  \* sqs_max_receive_count
    RotatesReceipt,   \* TRUE: extending a message gives it a new receipt (Azure)
    MaxFaults,        \* bound: crashes, failed calls, late and lost receipts in a behaviour
    NoWorker, NoRun

ASSUME Assumption ==
    /\ JobOf \in [Runs -> Jobs]
    /\ IsFiniteSet(Runs)
    /\ BatchSize \in Nat \ {0}
    /\ MaxReceiveCount \in Nat \ {0}
    /\ MaxFaults \in Nat
    /\ Redrive \in BOOLEAN /\ RotatesReceipt \in BOOLEAN
    /\ NoWorker \notin Workers
    /\ NoRun \notin Runs

VARIABLES
    jobExists,   \* the row of the job is in job_definitions
    request,     \* how far the handler that triggers the run has come
    status,      \* job_runs.status, "absent" before the insert, "removed" after the delete
    message,     \* the run's message in the queue
    lease,       \* the worker whose receipt the queue accepts for the message
    receives,    \* the message's receive count (kept when Redrive)
    pc, cur,     \* the worker's next step and the run it is processing
    batch,       \* the messages received and not yet looked at
    overlapped,  \* history: a worker began the run while another still had it
    faults       \* faults so far, up to MaxFaults

queueVars  == <<message, lease, receives>>
workerVars == <<pc, cur, batch>>
vars == <<jobExists, request, status, queueVars, workerVars, overlapped, faults>>

Terminal == {"SUCCEEDED", "FAILED"}
Stored   == {"PENDING", "RUNNING"} \union Terminal   \* the row is in the table
Queued   == {"visible", "inflight"}

TypeOK ==
    /\ jobExists \in [Jobs -> BOOLEAN]
    /\ request \in [Runs -> {"new", "checked", "created", "accepted", "refused"}]
    /\ status \in [Runs -> Stored \union {"absent", "removed"}]
    /\ message \in [Runs -> Queued \union {"none", "deleted", "dead"}]
    /\ lease \in [Runs -> Workers \union {NoWorker}]
    /\ receives \in [Runs -> 0..MaxReceiveCount]
    /\ pc \in [Workers -> {"idle", "fetch_job", "fetch_run", "mark_running",
                           "execute", "mark_failed", "delete", "purge"}]
    /\ cur \in [Workers -> Runs \union {NoRun}]
    /\ batch \in [Workers -> SUBSET Runs]
    /\ overlapped \in [Runs -> BOOLEAN]
    /\ faults \in 0..MaxFaults

Init ==
    /\ jobExists = [j \in Jobs |-> TRUE]
    /\ request = [r \in Runs |-> "new"]
    /\ status = [r \in Runs |-> "absent"]
    /\ message = [r \in Runs |-> "none"]
    /\ lease = [r \in Runs |-> NoWorker]
    /\ receives = [r \in Runs |-> 0]
    /\ pc = [w \in Workers |-> "idle"]
    /\ cur = [w \in Workers |-> NoRun]
    /\ batch = [w \in Workers |-> {}]
    /\ overlapped = [r \in Runs |-> FALSE]
    /\ faults = 0

Fault == faults < MaxFaults /\ faults' = faults + 1

-----------------------------------------------------------------------------
(* Triggering a run: JobService.run_job and execute_scheduled_job.           *)

\* POST /jobs/{id}/run: get_job finds the job and it is the caller's.
CheckJob(r) ==
    /\ request[r] = "new"
    /\ jobExists[JobOf[r]]
    /\ request' = [request EXCEPT ![r] = "checked"]
    /\ UNCHANGED <<jobExists, status, queueVars, workerVars, overlapped, faults>>

\* The cron trigger fires with the job captured when it was scheduled: nothing
\* is read again, so the job may be gone.
FireSchedule(r) ==
    /\ request[r] = "new"
    /\ request' = [request EXCEPT ![r] = "checked"]
    /\ UNCHANGED <<jobExists, status, queueVars, workerVars, overlapped, faults>>

\* JobRunRepository.create commits the row.
CreateRun(r) ==
    /\ request[r] = "checked"
    /\ jobExists[JobOf[r]]
    /\ request' = [request EXCEPT ![r] = "created"]
    /\ status' = [status EXCEPT ![r] = "PENDING"]
    /\ UNCHANGED <<jobExists, queueVars, workerVars, overlapped, faults>>

\* The insert violates the foreign key: the job was deleted after the check.
CreateRunRejected(r) ==
    /\ request[r] = "checked"
    /\ ~jobExists[JobOf[r]]
    /\ request' = [request EXCEPT ![r] = "refused"]
    /\ UNCHANGED <<jobExists, status, queueVars, workerVars, overlapped, faults>>

SendMessage(r) ==
    /\ request[r] = "created"
    /\ request' = [request EXCEPT ![r] = "accepted"]
    /\ message' = [message EXCEPT ![r] = "visible"]
    /\ UNCHANGED <<jobExists, status, lease, receives, workerVars, overlapped, faults>>

\* send_message raises, or the instance stops between the commit and the send.
\* A lost reply leaves the message in the queue all the same.
SendMessageFails(r) ==
    /\ request[r] = "created"
    /\ Fault
    /\ request' = [request EXCEPT ![r] = "refused"]
    /\ \E m \in {"none", "visible"} : message' = [message EXCEPT ![r] = m]
    /\ UNCHANGED <<jobExists, status, lease, receives, workerVars, overlapped>>

\* JobRepository.delete: the runs and the job go in one transaction.
DeleteJob(j) ==
    /\ jobExists[j]
    /\ jobExists' = [jobExists EXCEPT ![j] = FALSE]
    /\ status' = [r \in Runs |-> IF JobOf[r] = j /\ status[r] \in Stored
                                 THEN "removed" ELSE status[r]]
    /\ UNCHANGED <<request, queueVars, workerVars, overlapped, faults>>

-----------------------------------------------------------------------------
(* The queue (SQS, Azure Queue Storage or Pub/Sub) as the adapters use it.   *)

\* The visibility timeout passes.  Outside _execute_job_run nothing renews it
\* (module Visibility has the clock), and the renewal may be late: it can pass
\* for a message whose receipt a worker still uses, which is a fault.
Expire(r) ==
    /\ message[r] = "inflight"
    /\ IF lease[r] = NoWorker THEN faults' = faults ELSE Fault
    /\ message' = [message EXCEPT ![r] = "visible"]
    /\ UNCHANGED <<jobExists, request, status, lease, receives, workerVars, overlapped>>

\* The redrive policy moves a message received too often to the dead letters.
DeadLetter(r) ==
    /\ Redrive
    /\ message[r] = "visible"
    /\ receives[r] = MaxReceiveCount
    /\ message' = [message EXCEPT ![r] = "dead"]
    /\ lease' = [lease EXCEPT ![r] = NoWorker]
    /\ UNCHANGED <<jobExists, request, status, receives, workerVars, overlapped, faults>>

\* _extend_visibility_loop calls extend_message_visibility.  With a stable
\* receipt this only renews the lease; Azure answers with a new pop receipt,
\* which the adapter drops, so no one holds the current one from now on: a fault
\* like the others, once or several times in an execution.
ExtendVisibility(w) ==
    /\ RotatesReceipt
    /\ pc[w] \in {"mark_running", "execute", "mark_failed"}
    /\ lease[cur[w]] = w
    /\ message[cur[w]] = "inflight"
    /\ Fault
    /\ lease' = [lease EXCEPT ![cur[w]] = NoWorker]
    /\ UNCHANGED <<jobExists, request, status, message, receives, workerVars, overlapped>>

-----------------------------------------------------------------------------
(* The worker loop.                                                          *)

Goto(w, label) == pc' = [pc EXCEPT ![w] = label]

\* The worker is done with the message, deleted or not: its receipt is dropped.
Drop(w) ==
    /\ pc' = [pc EXCEPT ![w] = "idle"]
    /\ cur' = [cur EXCEPT ![w] = NoRun]

Forget(w) == [lease EXCEPT ![cur[w]] = IF @ = w THEN NoWorker ELSE @]

\* Mutant of Receive: the redrive limit is ignored.
ReceiveUnlimited(w, S) ==
    /\ pc[w] = "idle"
    /\ batch[w] = {}
    /\ S # {} /\ Cardinality(S) <= BatchSize
    /\ \A r \in S : message[r] = "visible"
    /\ batch' = [batch EXCEPT ![w] = S]
    /\ message' = [r \in Runs |-> IF r \in S THEN "inflight" ELSE message[r]]
    /\ lease' = [r \in Runs |-> IF r \in S THEN w ELSE lease[r]]
    /\ receives' = [r \in Runs |-> IF r \in S THEN receives[r] + 1 ELSE receives[r]]
    /\ UNCHANGED <<jobExists, request, status, pc, cur, overlapped, faults>>

\* receive_messages returns up to max_messages visible messages.
Receive(w, S) ==
    /\ pc[w] = "idle"
    /\ batch[w] = {}
    /\ S # {} /\ Cardinality(S) <= BatchSize
    /\ \A r \in S : message[r] = "visible" /\ (Redrive => receives[r] < MaxReceiveCount)
    /\ batch' = [batch EXCEPT ![w] = S]
    /\ message' = [r \in Runs |-> IF r \in S THEN "inflight" ELSE message[r]]
    /\ lease' = [r \in Runs |-> IF r \in S THEN w ELSE lease[r]]
    /\ receives' = [r \in Runs |-> IF Redrive /\ r \in S THEN receives[r] + 1 ELSE receives[r]]
    /\ UNCHANGED <<jobExists, request, status, pc, cur, overlapped, faults>>

\* for msg in messages: the next one of the batch.  Nothing is renewed for the
\* ones that wait, and nothing checks that the receipt is still good.
NextMessage(w) ==
    /\ pc[w] = "idle"
    /\ \E r \in batch[w] :
        /\ cur' = [cur EXCEPT ![w] = r]
        /\ batch' = [batch EXCEPT ![w] = @ \ {r}]
        /\ overlapped' = [overlapped EXCEPT ![r] =
                            @ \/ lease[r] # w \/ \E v \in Workers \ {w} : cur[v] = r]
    /\ Goto(w, "fetch_job")
    /\ UNCHANGED <<jobExists, request, status, queueVars, faults>>

FetchJob(w) ==
    /\ pc[w] = "fetch_job"
    /\ Goto(w, IF jobExists[JobOf[cur[w]]] THEN "fetch_run" ELSE "purge")
    /\ UNCHANGED <<jobExists, request, status, queueVars, cur, batch, overlapped, faults>>

\* Mutant of FetchRun: the message is deleted before the run is executed.
FetchRunThenAck(w) ==
    /\ pc[w] = "fetch_run"
    /\ Goto(w, IF status[cur[w]] \in Stored THEN "mark_running" ELSE "purge")
    /\ message' = [message EXCEPT ![cur[w]] = IF lease[cur[w]] = w THEN "deleted" ELSE @]
    /\ lease' = Forget(w)
    /\ UNCHANGED <<jobExists, request, status, receives, cur, batch, overlapped, faults>>

FetchRun(w) ==
    /\ pc[w] = "fetch_run"
    /\ Goto(w, IF status[cur[w]] \in Stored THEN "mark_running" ELSE "purge")
    /\ UNCHANGED <<jobExists, request, status, queueVars, cur, batch, overlapped, faults>>

\* Mutant of MarkRunning: only a pending run is started.
MarkPendingRunning(w) ==
    /\ pc[w] = "mark_running"
    /\ status[cur[w]] = "PENDING"
    /\ status' = [status EXCEPT ![cur[w]] = "RUNNING"]
    /\ Goto(w, "execute")
    /\ UNCHANGED <<jobExists, request, queueVars, cur, batch, overlapped, faults>>

\* update_status(RUNNING), whatever the status was.
MarkRunning(w) ==
    /\ pc[w] = "mark_running"
    /\ status[cur[w]] \in Stored
    /\ status' = [status EXCEPT ![cur[w]] = "RUNNING"]
    /\ Goto(w, "execute")
    /\ UNCHANGED <<jobExists, request, queueVars, cur, batch, overlapped, faults>>

\* The body of the job ends and reports success.
ReportSuccess(w) ==
    /\ pc[w] = "execute"
    /\ status[cur[w]] \in Stored
    /\ status' = [status EXCEPT ![cur[w]] = "SUCCEEDED"]
    /\ Goto(w, "delete")
    /\ UNCHANGED <<jobExists, request, queueVars, cur, batch, overlapped, faults>>

\* An import reports rejected rows, or a file it could not download or parse.
ReportFailure(w) ==
    /\ pc[w] = "execute"
    /\ status[cur[w]] \in Stored
    /\ status' = [status EXCEPT ![cur[w]] = "FAILED"]
    /\ Goto(w, "delete")
    /\ UNCHANGED <<jobExists, request, queueVars, cur, batch, overlapped, faults>>

\* Mutant of BodyRaises: the exception is swallowed, no failure is recorded.
BodyRaisesUnseen(w) ==
    /\ pc[w] = "execute"
    /\ Goto(w, "delete")
    /\ UNCHANGED <<jobExists, request, status, queueVars, cur, batch, overlapped, faults>>

\* The body raises: anywhere in the job, or in the write of its own result, which
\* finds no row, is refused, or commits and loses its reply.
BodyRaises(w) ==
    /\ pc[w] = "execute"
    /\ \/ status' = status
       \/ /\ status[cur[w]] \in Stored
          /\ \E result \in Terminal : status' = [status EXCEPT ![cur[w]] = result]
    /\ Goto(w, "mark_failed")
    /\ UNCHANGED <<jobExists, request, queueVars, cur, batch, overlapped, faults>>

\* except Exception: update_status(FAILED, error_message=str(e)).
MarkFailed(w) ==
    /\ pc[w] = "mark_failed"
    /\ status[cur[w]] \in Stored
    /\ status' = [status EXCEPT ![cur[w]] = "FAILED"]
    /\ Goto(w, "delete")
    /\ UNCHANGED <<jobExists, request, queueVars, cur, batch, overlapped, faults>>

\* update_status finds no row (scalar_one raises): the message is kept.
RowGone(w) ==
    /\ pc[w] \in {"mark_running", "mark_failed"}
    /\ status[cur[w]] \notin Stored
    /\ lease' = Forget(w)
    /\ Drop(w)
    /\ UNCHANGED <<jobExists, request, status, message, receives, batch, overlapped, faults>>

\* Mutant of DeleteMessage: the message of a missing row is kept.
DeleteExecutedMessage(w) ==
    /\ pc[w] \in {"delete", "purge"}
    /\ message' = [message EXCEPT ![cur[w]] =
                     IF lease[cur[w]] = w /\ pc[w] = "delete" THEN "deleted" ELSE @]
    /\ lease' = Forget(w)
    /\ Drop(w)
    /\ UNCHANGED <<jobExists, request, status, receives, batch, overlapped, faults>>

\* delete_message, after the execution or for a row that is not there.  It has
\* an effect only with the receipt the queue accepts.
DeleteMessage(w) ==
    /\ pc[w] \in {"delete", "purge"}
    /\ message' = [message EXCEPT ![cur[w]] = IF lease[cur[w]] = w THEN "deleted" ELSE @]
    /\ lease' = Forget(w)
    /\ Drop(w)
    /\ UNCHANGED <<jobExists, request, status, receives, batch, overlapped, faults>>

\* Mutant of CallFails: the message is deleted in a finally block.
CallFailsThenDelete(w) ==
    /\ pc[w] \notin {"idle", "execute"}
    /\ Fault
    /\ message' = [message EXCEPT ![cur[w]] = IF lease[cur[w]] = w THEN "deleted" ELSE @]
    /\ lease' = Forget(w)
    /\ Drop(w)
    /\ UNCHANGED <<jobExists, request, status, receives, batch, overlapped>>

\* A database or queue call raises: the message is not deleted, the worker
\* goes on with the next one of its batch.  A write of the status may have been
\* committed; a deletion that was is a DeleteMessage to everyone else.
CallFails(w) ==
    /\ pc[w] \notin {"idle", "execute"}
    /\ Fault
    /\ \/ status' = status
       \/ /\ pc[w] \in {"mark_running", "mark_failed"} /\ status[cur[w]] \in Stored
          /\ status' = [status EXCEPT ![cur[w]] =
                           IF pc[w] = "mark_running" THEN "RUNNING" ELSE "FAILED"]
    /\ lease' = Forget(w)
    /\ Drop(w)
    /\ UNCHANGED <<jobExists, request, message, receives, batch, overlapped>>

\* The instance crashes or job_runner.stop cancels the worker; it comes back
\* idle.  Nothing looks at the runs it left behind.
Crash(w) ==
    /\ pc[w] # "idle" \/ batch[w] # {}
    /\ Fault
    /\ lease' = [r \in Runs |-> IF lease[r] = w THEN NoWorker ELSE lease[r]]
    /\ batch' = [batch EXCEPT ![w] = {}]
    /\ Drop(w)
    /\ UNCHANGED <<jobExists, request, status, message, receives, overlapped>>

-----------------------------------------------------------------------------
Request(r) ==
    \/ CheckJob(r) \/ FireSchedule(r) \/ CreateRun(r) \/ CreateRunRejected(r)
    \/ SendMessage(r) \/ SendMessageFails(r)

\* The steps a worker takes of itself once it has a message.
Progress(w) ==
    \/ NextMessage(w) \/ FetchJob(w) \/ FetchRun(w) \/ MarkRunning(w)
    \/ ReportSuccess(w) \/ ReportFailure(w) \/ BodyRaises(w) \/ MarkFailed(w)
    \/ RowGone(w) \/ DeleteMessage(w)

Next ==
    \/ \E r \in Runs : Request(r) \/ Expire(r) \/ DeadLetter(r)
    \/ \E j \in Jobs : DeleteJob(j)
    \/ \E w \in Workers :
        \/ Progress(w) \/ ExtendVisibility(w) \/ CallFails(w) \/ Crash(w)
        \/ \E S \in SUBSET Runs : Receive(w, S)

Spec == Init /\ [][Next]_vars

\* The event loop runs every task that can run; the queue hands out visible
\* messages again and again, lets receipts expire that no worker uses, and
\* dead-letters.  Nothing obliges a fault, a deletion of a job or a trigger; that
\* there are finitely many faults is the bound MaxFaults.
Fairness ==
    /\ \A r \in Runs : /\ WF_vars(lease[r] = NoWorker /\ Expire(r)) /\ WF_vars(DeadLetter(r))
                       /\ SF_vars(\E w \in Workers, S \in SUBSET Runs : r \in S /\ Receive(w, S))
    /\ \A w \in Workers : WF_vars(Progress(w))

FairSpec == Spec /\ Fairness

-----------------------------------------------------------------------------
Settled(r) == status[r] \in Terminal \union {"removed"}

\* At-least-once execution: as long as no two workers had the run at the same
\* time, its message leaves the queue only when the row carries a final result
\* or has been deleted.  A crash, a failed call or a failed write anywhere
\* between the receive and the delete never loses the run (job_runner.py:190-212).
SettledBeforeDelete ==
    \A r \in Runs : message[r] = "deleted" /\ ~overlapped[r] => Settled(r)

\* The same promise to the outside: a result is final once the message is
\* deleted, if the executions of the run never overlapped (update_status itself
\* accepts any change, repositories.py:351).
AcknowledgedIsFinal ==
    [][\A r \in Runs : message[r] = "deleted" /\ ~overlapped[r]
                         => status'[r] \in {status[r], "removed"}]_vars

\* The runner implements the life cycle it promises: the message in the queue,
\* or among the dead letters, is the debt, and a run that two workers had at once
\* is contested.
Duty == [r \in Runs |-> IF message[r] = "none" THEN "none"
                        ELSE IF message[r] = "deleted" THEN "discharged" ELSE "owed"]

Lifecycle == INSTANCE RunLifecycle WITH duty <- Duty, contested <- overlapped
ImplementsLifecycle == Lifecycle!Spec

\* A run that is marked running is being executed, or its message is still
\* there to be delivered again: "Message will become visible again after
\* visibility timeout / Don't delete it so it can be retried"
\* (job_runner.py:211-212).
NoStrandedRun ==
    \A r \in Runs : status[r] = "RUNNING" /\ message[r] = "deleted"
                      => \E w \in Workers : cur[w] = r

\* Every run that was queued is settled or its message is dead-lettered: the
\* retries and the redeliveries together lose none, unless two workers had it at
\* once, which may strand it (NoStrandedRun).
QueuedRunSettles ==
    \A r \in Runs : message[r] \in Queued
                       ~> Settled(r) \/ message[r] = "dead" \/ overlapped[r]

\* The queue drains: every message is deleted for good, so no run is executed again
\* and again, and messages of deleted runs go as well.  It is dead-lettered only when
\* something failed (with more than one receive allowed: a deletion of the job may
\* cost one).
QueueDrains ==
    \A r \in Runs : message[r] \in Queued
                       ~> [](message[r] = "deleted" \/ (message[r] = "dead" /\ faults > 0))

-----------------------------------------------------------------------------
(* Why the properties hold: the inductive invariants JobRunnerProofs uses.   *)

\* The rows of a deleted job are gone, and a message exists only for a run
\* whose row was created.
RowsAndMessages ==
    /\ \A r \in Runs : ~jobExists[JobOf[r]] => status[r] \in {"absent", "removed"}
    /\ \A r \in Runs : request[r] \in {"new", "checked"} => status[r] = "absent"
    /\ \A r \in Runs : request[r] \in {"new", "checked", "created"} => message[r] = "none"
    /\ \A r \in Runs : request[r] = "created" => status[r] # "absent"
    /\ \A r \in Runs : message[r] # "none" => status[r] # "absent"

\* What the workers hold, however late their receipts are.
Holdings ==
    /\ \A r \in Runs : lease[r] # NoWorker => message[r] \in Queued
    /\ \A w \in Workers : cur[w] = NoRun <=> pc[w] = "idle"
    /\ \A w \in Workers : cur[w] # NoRun => message[cur[w]] # "none"
    /\ \A w \in Workers : \A r \in batch[w] : message[r] # "none"
    /\ \A w \in Workers : pc[w] = "purge" => status[cur[w]] = "removed"

\* While the executions of a run do not overlap, its one worker still has a
\* message to delete, and deletes it only over a settled row.
SoleDelivery ==
    \A w \in Workers : cur[w] # NoRun /\ ~overlapped[cur[w]] =>
        /\ \A v \in Workers : cur[v] = cur[w] => v = w
        /\ message[cur[w]] # "deleted"
        /\ pc[w] = "execute" => status[cur[w]] \in {"RUNNING", "removed"}
        /\ pc[w] = "delete" => Settled(cur[w])

\* A run that some worker has begun to execute is pending no more.
Begun == \A w \in Workers : pc[w] \in {"execute", "mark_failed"} => status[cur[w]] # "PENDING"

DeliveryInv == RowsAndMessages /\ Holdings /\ SoleDelivery /\ Begun /\ SettledBeforeDelete
=============================================================================
