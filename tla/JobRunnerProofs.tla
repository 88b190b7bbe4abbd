--------------------------- MODULE JobRunnerProofs ---------------------------
(***************************************************************************)
(* Theorems about JobRunner, for any sets of jobs, runs and workers and any  *)
(* bound on the faults.                                                     *)
(***************************************************************************)
EXTENDS JobRunner, TLAPS

-----------------------------------------------------------------------------
(* Types.                                                                    *)

LEMMA TypeInit == Init => TypeOK
BY Assumption DEF Init, TypeOK, Stored, Terminal, Queued, Assumption

LEMMA TypeRequest ==
  ASSUME TypeOK, NEW r \in Runs, Request(r)
  PROVE  TypeOK'
<1> USE Assumption DEF Assumption, TypeOK, Stored, Terminal, Queued, Fault,
        queueVars, workerVars
<1>1. CASE CheckJob(r)           BY <1>1 DEF CheckJob
<1>2. CASE FireSchedule(r)       BY <1>2 DEF FireSchedule
<1>3. CASE CreateRun(r)          BY <1>3 DEF CreateRun
<1>4. CASE CreateRunRejected(r)  BY <1>4 DEF CreateRunRejected
<1>5. CASE SendMessage(r)        BY <1>5 DEF SendMessage
<1>6. CASE SendMessageFails(r)   BY <1>6 DEF SendMessageFails
<1> QED  BY <1>1, <1>2, <1>3, <1>4, <1>5, <1>6 DEF Request

LEMMA TypeQueue ==
  ASSUME TypeOK,
         \/ \E r \in Runs : Expire(r) \/ DeadLetter(r)
         \/ \E j \in Jobs : DeleteJob(j)
         \/ \E w \in Workers : ExtendVisibility(w)
         \/ \E w \in Workers, S \in SUBSET Runs : Receive(w, S)
  PROVE  TypeOK'
<1> USE Assumption DEF Assumption, TypeOK, Stored, Terminal, Queued,
        queueVars, workerVars
<1>1. ASSUME NEW r \in Runs, Expire(r) PROVE TypeOK'
  <2>1. faults' \in 0..MaxFaults
    BY <1>1 DEF Expire, Fault
  <2> QED  BY <1>1, <2>1 DEF Expire
<1>2. ASSUME NEW r \in Runs, DeadLetter(r) PROVE TypeOK'
  BY <1>2 DEF DeadLetter
<1>3. ASSUME NEW j \in Jobs, DeleteJob(j) PROVE TypeOK'
  BY <1>3 DEF DeleteJob
<1>4. ASSUME NEW w \in Workers, ExtendVisibility(w) PROVE TypeOK'
  <2>1. faults' \in 0..MaxFaults
    BY <1>4 DEF ExtendVisibility, Fault
  <2> QED  BY <1>4, <2>1 DEF ExtendVisibility
<1>5. ASSUME NEW w \in Workers, NEW S \in SUBSET Runs, Receive(w, S) PROVE TypeOK'
  <2>1. receives' \in [Runs -> 0..MaxReceiveCount]
    BY <1>5 DEF Receive
  <2> QED  BY <1>5, <2>1 DEF Receive
<1> QED  BY <1>1, <1>2, <1>3, <1>4, <1>5

LEMMA TypeProgress ==
  ASSUME TypeOK, NEW w \in Workers, Progress(w)
  PROVE  TypeOK'
<1> USE Assumption DEF Assumption, TypeOK, Stored, Terminal, Queued, Goto, Drop, Forget,
        queueVars, workerVars
<1>1. CASE NextMessage(w)    BY <1>1 DEF NextMessage
<1>2. CASE FetchJob(w)       BY <1>2 DEF FetchJob
<1>3. CASE FetchRun(w)       BY <1>3 DEF FetchRun
<1>4. CASE MarkRunning(w)    BY <1>4 DEF MarkRunning
<1>5. CASE ReportSuccess(w)  BY <1>5 DEF ReportSuccess
<1>6. CASE ReportFailure(w)  BY <1>6 DEF ReportFailure
<1>7. CASE BodyRaises(w)
  <2>1. status' \in [Runs -> Stored \union {"absent", "removed"}]
    BY <1>7 DEF BodyRaises
  <2> QED  BY <1>7, <2>1 DEF BodyRaises
<1>8. CASE MarkFailed(w)     BY <1>8 DEF MarkFailed
<1>9. CASE RowGone(w)        BY <1>9 DEF RowGone
<1>10. CASE DeleteMessage(w) BY <1>10 DEF DeleteMessage
<1> QED
  BY <1>1, <1>2, <1>3, <1>4, <1>5, <1>6, <1>7, <1>8, <1>9, <1>10 DEF Progress

LEMMA TypeFault ==
  ASSUME TypeOK, NEW w \in Workers, CallFails(w) \/ Crash(w)
  PROVE  TypeOK'
<1> USE Assumption DEF Assumption, TypeOK, Drop, Forget, Fault, Stored, Terminal,
        queueVars, workerVars
<1>1. CASE CallFails(w)
  <2>1. faults' \in 0..MaxFaults
    BY <1>1 DEF CallFails
  <2>2. lease' \in [Runs -> Workers \union {NoWorker}]
    BY <1>1 DEF CallFails
  <2>3. /\ pc' = [pc EXCEPT ![w] = "idle"]
        /\ cur' = [cur EXCEPT ![w] = NoRun]
        /\ UNCHANGED <<jobExists, request, message, receives, batch, overlapped>>
    BY <1>1 DEF CallFails
  <2>4. status' \in [Runs -> Stored \union {"absent", "removed"}]
    BY <1>1 DEF CallFails
  <2> QED  BY <2>1, <2>2, <2>3, <2>4
<1>2. CASE Crash(w)      BY <1>2 DEF Crash
<1> QED  BY <1>1, <1>2

LEMMA TypeNext == TypeOK /\ [Next]_vars => TypeOK'
<1>1. ASSUME TypeOK, Next PROVE TypeOK'
  BY <1>1, TypeRequest, TypeQueue, TypeProgress, TypeFault DEF Next
<1>2. ASSUME TypeOK, UNCHANGED vars PROVE TypeOK'
  BY <1>2 DEF TypeOK, vars, queueVars, workerVars
<1> QED  BY <1>1, <1>2

\* The variables stay in their types: in particular a row never takes a status
\* outside JobStatus, and no worker processes something that is not a run.
THEOREM TypeCorrect == Spec => []TypeOK
BY TypeInit, TypeNext, PTL DEF Spec

-----------------------------------------------------------------------------
(* The delivery invariant.                                                   *)

LEMMA DeliveryRequest ==
  ASSUME TypeOK, DeliveryInv, NEW r \in Runs, Request(r)
  PROVE  DeliveryInv'
<1> USE Assumption DEF Assumption, TypeOK, DeliveryInv, RowsAndMessages, Holdings, SoleDelivery, Begun,
        SettledBeforeDelete, Settled, Stored, Terminal, Queued, Goto, Drop, Forget,
        queueVars, workerVars
<1>1. CASE CheckJob(r)            BY <1>1 DEF CheckJob
<1>2. CASE FireSchedule(r)        BY <1>2 DEF FireSchedule
<1>3. CASE CreateRun(r)           BY <1>3 DEF CreateRun
<1>4. CASE CreateRunRejected(r)   BY <1>4 DEF CreateRunRejected
<1>5. CASE SendMessage(r)         BY <1>5 DEF SendMessage
<1>6. CASE SendMessageFails(r)    BY <1>6 DEF SendMessageFails
<1> QED  BY <1>1, <1>2, <1>3, <1>4, <1>5, <1>6 DEF Request

LEMMA NextMessageSoleDelivery ==
  ASSUME TypeOK, DeliveryInv, NEW w \in Workers, NextMessage(w)
  PROVE  SoleDelivery'
<1> USE Assumption DEF Assumption, TypeOK, DeliveryInv, Settled, Queued
<1>1. PICK r \in batch[w] :
        /\ cur' = [cur EXCEPT ![w] = r]
        /\ overlapped' = [overlapped EXCEPT ![r] =
                @ \/ lease[r] # w \/ \E v \in Workers \ {w} : cur[v] = r]
  BY DEF NextMessage
<1>2. pc' = [pc EXCEPT ![w] = "fetch_job"] /\ UNCHANGED <<status, message>>
  BY DEF NextMessage, Goto, queueVars
<1>3. SUFFICES ASSUME NEW u \in Workers, cur'[u] # NoRun, ~overlapped'[cur'[u]]
               PROVE  /\ \A v \in Workers : cur'[v] = cur'[u] => v = u
                      /\ message'[cur'[u]] # "deleted"
                      /\ pc'[u] = "execute" => status'[cur'[u]] \in {"RUNNING", "removed"}
                      /\ pc'[u] = "delete" => status'[cur'[u]] \in Terminal \union {"removed"}
  BY DEF SoleDelivery
<1>4. CASE u = w
  <2>1. cur'[u] = r /\ r \in Runs
    BY <1>1, <1>4
  <2>2. ~overlapped[r] /\ lease[r] = w /\ \A v \in Workers \ {w} : cur[v] # r
    BY <1>1, <1>3, <2>1
  <2>3. message[r] \in Queued
    BY <2>1, <2>2 DEF Holdings
  <2> QED  BY <1>1, <1>2, <1>4, <2>1, <2>2, <2>3
<1>5. CASE u # w
  <2>1. cur'[u] = cur[u] /\ cur[u] \in Runs
    BY <1>1, <1>3, <1>5
  <2>2. cur[u] # r
    BY <1>1, <1>3, <1>5, <2>1
  <2>3. ~overlapped[cur[u]]
    BY <1>1, <1>3, <2>1, <2>2
  <2> QED  BY <1>1, <1>2, <1>5, <2>1, <2>2, <2>3 DEF SoleDelivery
<1> QED  BY <1>4, <1>5

LEMMA DeliveryProgress ==
  ASSUME TypeOK, DeliveryInv, NEW w \in Workers, Progress(w)
  PROVE  DeliveryInv'
<1> USE Assumption DEF Assumption, TypeOK, DeliveryInv, RowsAndMessages, Holdings, SoleDelivery, Begun,
        SettledBeforeDelete, Settled, Stored, Terminal, Queued, Goto, Drop, Forget,
        queueVars, workerVars
<1>1. CASE NextMessage(w)
  <2>1. RowsAndMessages'  BY <1>1 DEF NextMessage
  <2>2. Holdings'  BY <1>1 DEF NextMessage
  <2>3. SoleDelivery'  BY <1>1, NextMessageSoleDelivery
  <2>4. SettledBeforeDelete' /\ Begun'  BY <1>1 DEF NextMessage
  <2> QED  BY <2>1, <2>2, <2>3, <2>4
<1>2. CASE FetchJob(w)            BY <1>2 DEF FetchJob
<1>3. CASE FetchRun(w)            BY <1>3 DEF FetchRun
<1>4. CASE MarkRunning(w)         BY <1>4 DEF MarkRunning
<1>5. CASE ReportSuccess(w)       BY <1>5 DEF ReportSuccess
<1>6. CASE ReportFailure(w)       BY <1>6 DEF ReportFailure
<1>7. CASE BodyRaises(w)          BY <1>7 DEF BodyRaises
<1>8. CASE MarkFailed(w)          BY <1>8 DEF MarkFailed
<1>9. CASE RowGone(w)             BY <1>9 DEF RowGone
<1>10. CASE DeleteMessage(w)      BY <1>10 DEF DeleteMessage
<1> QED  BY <1>1, <1>2, <1>3, <1>4, <1>5, <1>6, <1>7, <1>8, <1>9, <1>10 DEF Progress

LEMMA DeliveryFault ==
  ASSUME TypeOK, DeliveryInv, NEW w \in Workers, CallFails(w) \/ Crash(w)
  PROVE  DeliveryInv'
<1> USE Assumption DEF Assumption, TypeOK, DeliveryInv, RowsAndMessages, Holdings, SoleDelivery, Begun,
        SettledBeforeDelete, Settled, Stored, Terminal, Queued, Goto, Drop, Forget,
        queueVars, workerVars
<1>1. CASE CallFails(w)           BY <1>1 DEF CallFails
<1>2. CASE Crash(w)               BY <1>2 DEF Crash
<1> QED  BY <1>1, <1>2

LEMMA DeliveryDelete ==
  ASSUME TypeOK, DeliveryInv, NEW j \in Jobs, DeleteJob(j)
  PROVE  DeliveryInv'
<1> USE Assumption DEF Assumption, TypeOK, DeliveryInv, RowsAndMessages, Holdings, SoleDelivery, Begun,
        SettledBeforeDelete, Settled, Stored, Terminal, Queued, Goto, Drop, Forget,
        queueVars, workerVars
<1>1. CASE DeleteJob(j)           BY <1>1 DEF DeleteJob
<1> QED  BY <1>1

LEMMA DeliveryQueue ==
  ASSUME TypeOK, DeliveryInv, NEW r \in Runs, Expire(r) \/ DeadLetter(r)
  PROVE  DeliveryInv'
<1> USE Assumption DEF Assumption, TypeOK, DeliveryInv, RowsAndMessages, Holdings, SoleDelivery, Begun,
        SettledBeforeDelete, Settled, Stored, Terminal, Queued, Goto, Drop, Forget,
        queueVars, workerVars
<1>1. CASE Expire(r)              BY <1>1 DEF Expire
<1>2. CASE DeadLetter(r)          BY <1>2 DEF DeadLetter
<1> QED  BY <1>1, <1>2

LEMMA DeliveryExtend ==
  ASSUME TypeOK, DeliveryInv, NEW w \in Workers, ExtendVisibility(w)
  PROVE  DeliveryInv'
<1> USE Assumption DEF Assumption, TypeOK, DeliveryInv, RowsAndMessages, Holdings, SoleDelivery, Begun,
        SettledBeforeDelete, Settled, Stored, Terminal, Queued, Goto, Drop, Forget,
        queueVars, workerVars
<1>1. CASE ExtendVisibility(w)    BY <1>1 DEF ExtendVisibility
<1> QED  BY <1>1

LEMMA DeliveryReceive ==
  ASSUME TypeOK, DeliveryInv, NEW w \in Workers, NEW S \in SUBSET Runs, Receive(w, S)
  PROVE  DeliveryInv'
<1> USE Assumption DEF Assumption, TypeOK, DeliveryInv, RowsAndMessages, Holdings, SoleDelivery, Begun,
        SettledBeforeDelete, Settled, Stored, Terminal, Queued, Goto, Drop, Forget,
        queueVars, workerVars
<1>1. CASE Receive(w, S)          BY <1>1 DEF Receive
<1> QED  BY <1>1

LEMMA DeliveryNext == TypeOK /\ DeliveryInv /\ [Next]_vars => DeliveryInv'
<1>1. ASSUME TypeOK, DeliveryInv, Next PROVE DeliveryInv'
  BY <1>1, DeliveryRequest, DeliveryProgress, DeliveryFault, DeliveryDelete,
     DeliveryQueue, DeliveryExtend, DeliveryReceive DEF Next
<1>2. ASSUME DeliveryInv, UNCHANGED vars PROVE DeliveryInv'
  BY <1>2 DEF vars, queueVars, workerVars, DeliveryInv, RowsAndMessages,
     Holdings, SoleDelivery, Begun, SettledBeforeDelete, Settled
<1> QED  BY <1>1, <1>2

LEMMA DeliveryInit == Init => DeliveryInv
BY Assumption DEF Assumption, Init, DeliveryInv, RowsAndMessages, Holdings, SoleDelivery, Begun,
   SettledBeforeDelete, Settled, Stored, Queued

LEMMA DeliveryCorrect == Spec => [](TypeOK /\ DeliveryInv)
<1>1. Init => TypeOK /\ DeliveryInv
  BY TypeInit, DeliveryInit
<1>2. TypeOK /\ DeliveryInv /\ [Next]_vars => (TypeOK /\ DeliveryInv)'
  BY TypeNext, DeliveryNext
<1> QED  BY <1>1, <1>2, PTL DEF Spec

\* At-least-once execution: no message of a run whose executions never
\* overlapped is deleted before the row holds a result (or is gone with its
\* job), whatever crashes, failed calls, expiries and receipts do.
THEOREM AtLeastOnce == Spec => []SettledBeforeDelete
<1>1. DeliveryInv => SettledBeforeDelete
  BY DEF DeliveryInv
<1> QED  BY <1>1, DeliveryCorrect, PTL

\* No step changes the result of a run whose message was deleted and whose
\* executions never overlapped, except the deletion of its job.
LEMMA FinalStep ==
  ASSUME TypeOK, DeliveryInv, [Next]_vars, NEW r \in Runs,
         message[r] = "deleted", ~overlapped[r]
  PROVE  status'[r] \in {status[r], "removed"}
<1> USE Assumption DEF Assumption, TypeOK, DeliveryInv, RowsAndMessages, Holdings, SoleDelivery,
        queueVars, workerVars
<1>1. ASSUME NEW w \in Workers, Progress(w) PROVE status'[r] = status[r]
  <2>1. cur[w] # r
    BY DEF SoleDelivery
  <2> QED
    BY <1>1, <2>1 DEF Progress, NextMessage, FetchJob, FetchRun, MarkRunning, ReportSuccess,
       ReportFailure, BodyRaises, MarkFailed, RowGone, DeleteMessage
<1>2. ASSUME NEW q \in Runs, Request(q) PROVE status'[r] = status[r]
  <2>1. CASE CreateRun(q)
    BY <2>1 DEF CreateRun
  <2>2. CASE ~CreateRun(q)
    BY <1>2, <2>2 DEF Request, CheckJob, FireSchedule, CreateRunRejected, SendMessage,
       SendMessageFails
  <2> QED  BY <2>1, <2>2
<1>3. ASSUME NEW j \in Jobs, DeleteJob(j) PROVE status'[r] \in {status[r], "removed"}
  BY <1>3 DEF DeleteJob
<1>4. ASSUME NEW w \in Workers,
             \/ ExtendVisibility(w) \/ CallFails(w) \/ Crash(w)
             \/ \E S \in SUBSET Runs : Receive(w, S)
      PROVE  status'[r] = status[r]
  BY <1>4 DEF ExtendVisibility, CallFails, Crash, Receive
<1>5. ASSUME NEW q \in Runs, Expire(q) \/ DeadLetter(q) PROVE status'[r] = status[r]
  BY <1>5 DEF Expire, DeadLetter
<1>6. CASE UNCHANGED vars
  BY <1>6 DEF vars
<1> QED  BY <1>1, <1>2, <1>3, <1>4, <1>5, <1>6 DEF Next

\* The same for every step of every behaviour: what the service reported is not
\* taken back.
THEOREM ResultIsFinal == Spec => AcknowledgedIsFinal
<1>1. TypeOK /\ DeliveryInv /\ [Next]_vars
        => [\A r \in Runs : message[r] = "deleted" /\ ~overlapped[r]
                               => status'[r] \in {status[r], "removed"}]_vars
  BY FinalStep
<1> QED  BY <1>1, DeliveryCorrect, PTL DEF Spec, AcknowledgedIsFinal

-----------------------------------------------------------------------------
(* The runner implements the life cycle.                                     *)

LEMMA LifecycleInit == Init => Lifecycle!Init
BY DEF Init, Lifecycle!Init, Duty

LEMMA LifecycleRequest ==
  ASSUME TypeOK, DeliveryInv, NEW r \in Runs, Request(r)
  PROVE  Lifecycle!Next \/ UNCHANGED Lifecycle!vars
<1> USE Assumption DEF Assumption, TypeOK, DeliveryInv, RowsAndMessages, queueVars
<1>1. CASE CreateRun(r)
  <2>1. Lifecycle!Create(r)
    BY <1>1 DEF CreateRun, Lifecycle!Create, Duty
  <2> QED  BY <2>1 DEF Lifecycle!Next
<1>2. CASE SendMessage(r) \/ SendMessageFails(r)
  <2>1. /\ message[r] = "none" /\ status[r] # "absent"
        /\ status' = status /\ overlapped' = overlapped
    BY <1>2 DEF SendMessage, SendMessageFails
  <2>2. CASE message' = [message EXCEPT ![r] = "visible"]
    <3>1. Lifecycle!Queue(r)
      BY <2>1, <2>2 DEF Lifecycle!Queue, Duty
    <3> QED  BY <3>1 DEF Lifecycle!Next
  <2>3. CASE message' = [message EXCEPT ![r] = "none"]
    BY <2>1, <2>3 DEF Lifecycle!vars, Duty
  <2> QED  BY <1>2, <2>2, <2>3 DEF SendMessage, SendMessageFails
<1>3. CASE CheckJob(r) \/ FireSchedule(r) \/ CreateRunRejected(r)
  BY <1>3 DEF CheckJob, FireSchedule, CreateRunRejected, Lifecycle!vars, Duty
<1> QED  BY <1>1, <1>2, <1>3 DEF Request

\* A worker that has a run may touch it: the run is owed, or contested.
LEMMA OpenRun ==
  ASSUME TypeOK, DeliveryInv, NEW w \in Workers, cur[w] # NoRun
  PROVE  cur[w] \in Runs /\ Lifecycle!Open(cur[w])
BY Assumption DEF Assumption, TypeOK, DeliveryInv, Holdings, SoleDelivery, Lifecycle!Open, Duty

\* Writes of a worker: it starts the run, finishes it, or leaves it.
LEMMA LifecycleWrite ==
  ASSUME TypeOK, DeliveryInv, NEW w \in Workers, UNCHANGED <<message, overlapped>>,
         \/ MarkRunning(w) \/ ReportSuccess(w) \/ ReportFailure(w) \/ BodyRaises(w)
         \/ MarkFailed(w) \/ CallFails(w)
  PROVE  Lifecycle!Next \/ UNCHANGED Lifecycle!vars
<1> DEFINE r == cur[w]
<1>1. Duty' = Duty
  BY DEF Duty
<1>2. CASE status' = status
  BY <1>1, <1>2 DEF Lifecycle!vars
<1>3. CASE status' # status
  <2>1. /\ pc[w] \in {"mark_running", "execute", "mark_failed"}
        /\ status[r] \in Stored
        /\ r # NoRun
    BY <1>3 DEF DeliveryInv, Holdings, MarkRunning, ReportSuccess, ReportFailure, BodyRaises,
       MarkFailed, CallFails
  <2>2. r \in Runs /\ Lifecycle!Open(r)
    BY <2>1, OpenRun
  <2>3. CASE pc[w] = "mark_running"
    <3>1. status' = [status EXCEPT ![r] = "RUNNING"]
      BY <1>3, <2>3 DEF MarkRunning, ReportSuccess, ReportFailure, BodyRaises, MarkFailed, CallFails
    <3>2. Lifecycle!Start(r)
      BY <1>1, <2>1, <2>2, <3>1
         DEF Lifecycle!Start, Lifecycle!Present, Lifecycle!Results, Stored, Terminal
    <3> QED  BY <2>2, <3>2 DEF Lifecycle!Next
  <2>4. CASE pc[w] \in {"execute", "mark_failed"}
    <3>1. PICK result \in Terminal : /\ status' = [status EXCEPT ![r] = result]
                                     /\ pc[w] = "mark_failed" => result = "FAILED"
      BY <1>3, <2>4
         DEF MarkRunning, ReportSuccess, ReportFailure, BodyRaises, MarkFailed, CallFails, Terminal
    <3>2. status[r] # "PENDING"
      BY <2>4 DEF DeliveryInv, Begun
    <3>3. pc[w] = "execute" /\ ~overlapped[r] => status[r] = "RUNNING"
      BY <2>1 DEF DeliveryInv, SoleDelivery, Stored, Terminal
    <3>4. overlapped[r] \in BOOLEAN
      BY <2>2 DEF TypeOK
    <3>5. Lifecycle!Finish(r, result)
      BY <1>1, <2>1, <2>2, <2>4, <3>1, <3>2, <3>3, <3>4
         DEF Lifecycle!Finish, Lifecycle!Present, Lifecycle!Results, Stored, Terminal
    <3> QED  BY <2>2, <3>1, <3>5 DEF Lifecycle!Next, Lifecycle!Results, Terminal
  <2> QED  BY <2>1, <2>3, <2>4
<1> QED  BY <1>2, <1>3

LEMMA LifecycleProgress ==
  ASSUME TypeOK, DeliveryInv, NEW w \in Workers, Progress(w)
  PROVE  Lifecycle!Next \/ UNCHANGED Lifecycle!vars
<1> DEFINE r == cur[w]
<1> USE Assumption DEF Assumption, TypeOK, DeliveryInv, Holdings, queueVars, workerVars
<1>1. CASE \/ MarkRunning(w) \/ ReportSuccess(w) \/ ReportFailure(w) \/ BodyRaises(w)
           \/ MarkFailed(w)
  <2>1. UNCHANGED <<message, overlapped>>
    BY <1>1 DEF MarkRunning, ReportSuccess, ReportFailure, BodyRaises, MarkFailed
  <2> QED  BY <1>1, <2>1, LifecycleWrite
<1>2. CASE NextMessage(w)
  <2>1. PICK q \in batch[w] :
            overlapped' = [overlapped EXCEPT ![q] =
                @ \/ lease[q] # w \/ \E v \in Workers \ {w} : cur[v] = q]
    BY <1>2 DEF NextMessage
  <2>2. q \in Runs /\ UNCHANGED <<status, Duty>> /\ Duty[q] # "none"
    BY <1>2 DEF NextMessage, Duty
  <2>3. CASE lease[q] # w \/ \E v \in Workers \ {w} : cur[v] = q
    <3>1. overlapped' = [overlapped EXCEPT ![q] = TRUE]
      BY <2>1, <2>3
    <3>2. Lifecycle!Contest(q)
      BY <2>2, <3>1 DEF Lifecycle!Contest
    <3> QED  BY <2>2, <3>2 DEF Lifecycle!Next
  <2>4. CASE lease[q] = w /\ \A v \in Workers \ {w} : cur[v] # q
    <3>1. overlapped' = [overlapped EXCEPT ![q] = @]
      BY <2>1, <2>4
    <3>2. overlapped' = overlapped
      BY <3>1
    <3> QED  BY <2>2, <3>2 DEF Lifecycle!vars
  <2> QED  BY <2>3, <2>4
<1>3. CASE DeleteMessage(w)
  <2>1. UNCHANGED <<status, overlapped>> /\ r \in Runs
    BY <1>3 DEF DeleteMessage
  <2>2. CASE lease[r] # w
    <3>1. message' = message
      BY <1>3, <2>1, <2>2 DEF DeleteMessage
    <3> QED  BY <2>1, <3>1 DEF Lifecycle!vars, Duty
  <2>3. CASE lease[r] = w
    <3>1. message' = [message EXCEPT ![r] = "deleted"] /\ message[r] \in Queued
      BY <1>3, <2>1, <2>3 DEF DeleteMessage
    <3>2. Duty[r] = "owed" /\ Duty' = [Duty EXCEPT ![r] = "discharged"]
      BY <2>1, <3>1 DEF Duty, Queued
    <3>3. overlapped[r] \/ status[r] \in {"SUCCEEDED", "FAILED", "removed"}
      BY <1>3, <2>1 DEF DeleteMessage, SoleDelivery, Settled, Terminal
    <3>4. Lifecycle!Discharge(r)
      BY <2>1, <3>2, <3>3 DEF Lifecycle!Discharge, Lifecycle!Results
    <3> QED  BY <2>1, <3>4 DEF Lifecycle!Next
  <2> QED  BY <2>2, <2>3
<1>4. CASE FetchJob(w) \/ FetchRun(w) \/ RowGone(w)
  BY <1>4 DEF FetchJob, FetchRun, RowGone, Lifecycle!vars, Duty
<1> QED  BY <1>1, <1>2, <1>3, <1>4 DEF Progress

LEMMA LifecycleOther ==
  ASSUME TypeOK, DeliveryInv,
         \/ \E r \in Runs : Expire(r) \/ DeadLetter(r)
         \/ \E j \in Jobs : DeleteJob(j)
         \/ \E w \in Workers : ExtendVisibility(w) \/ CallFails(w) \/ Crash(w)
         \/ \E w \in Workers, S \in SUBSET Runs : Receive(w, S)
  PROVE  Lifecycle!Next \/ UNCHANGED Lifecycle!vars
<1> USE Assumption DEF Assumption, TypeOK, queueVars, workerVars, Lifecycle!vars, Duty
<1>1. ASSUME NEW r \in Runs, Expire(r) \/ DeadLetter(r) PROVE UNCHANGED Lifecycle!vars
  BY <1>1 DEF Expire, DeadLetter
<1>2. ASSUME NEW j \in Jobs, DeleteJob(j) PROVE Lifecycle!Next
  <2> DEFINE S == {r \in Runs : JobOf[r] = j /\ status[r] \in Stored}
  <2>1. Lifecycle!Remove(S)
    BY <1>2 DEF DeleteJob, Lifecycle!Remove, Lifecycle!Present, Lifecycle!Results, Stored, Terminal
  <2> QED  BY <2>1 DEF Lifecycle!Next
<1>3. ASSUME NEW w \in Workers, ExtendVisibility(w) \/ Crash(w)
      PROVE  UNCHANGED Lifecycle!vars
  BY <1>3 DEF ExtendVisibility, Crash
<1>4. ASSUME NEW w \in Workers, CallFails(w)
      PROVE  Lifecycle!Next \/ UNCHANGED Lifecycle!vars
  <2>1. UNCHANGED <<message, overlapped>>
    BY <1>4 DEF CallFails
  <2> QED  BY <1>4, <2>1, LifecycleWrite
<1>5. ASSUME NEW w \in Workers, NEW S \in SUBSET Runs, Receive(w, S)
      PROVE  UNCHANGED Lifecycle!vars
  BY <1>5 DEF Receive
<1> QED  BY <1>1, <1>2, <1>3, <1>4, <1>5

LEMMA LifecycleNext ==
  TypeOK /\ DeliveryInv /\ [Next]_vars => [Lifecycle!Next]_(Lifecycle!vars)
<1>1. ASSUME TypeOK, DeliveryInv, Next
      PROVE  Lifecycle!Next \/ UNCHANGED Lifecycle!vars
  BY <1>1, LifecycleRequest, LifecycleProgress, LifecycleOther DEF Next
<1>2. ASSUME UNCHANGED vars PROVE UNCHANGED Lifecycle!vars
  BY <1>2 DEF vars, queueVars, Lifecycle!vars, Duty
<1> QED  BY <1>1, <1>2

\* The whole machinery of receipts, batches, redeliveries, lost replies and crashes
\* refines the promised life cycle: a queued run is owed an execution until its row
\* is settled, only runs that are owed one are touched, and a run is released from
\* this only when two workers have had it at once.
THEOREM RunnerImplementsLifecycle == Spec => ImplementsLifecycle
<1>1. Init => Lifecycle!Init
  BY LifecycleInit
<1>2. TypeOK /\ DeliveryInv /\ [Next]_vars => [Lifecycle!Next]_(Lifecycle!vars)
  BY LifecycleNext
<1> QED  BY <1>1, <1>2, DeliveryCorrect, PTL DEF Spec, ImplementsLifecycle, Lifecycle!Spec
=============================================================================
