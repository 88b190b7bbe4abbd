----------------------------- MODULE Visibility -----------------------------
(***************************************************************************)
(* The clock behind JobRunner's Expire: one message, the seconds it stays    *)
(* hidden, and the task that renews it while a worker is inside              *)
(* _execute_job_run, and at no other time (_extend_visibility_loop of          *)
(* app/services/job_runner.py).  The receipts are stable, as those of SQS and  *)
(* Pub/Sub are.                                                               *)
(***************************************************************************)
EXTENDS Integers, TLAPS

CONSTANTS
    Workers,
    NoWorker,
    Timeout,     \* seconds a received message is hidden (sqs_visibility_timeout)
    Extension,   \* message_queue_visibility_extension
    MinSleep,    \* the 10 seconds of max(extension_seconds // 2, 10)
    Lag          \* bound: how late the event loop and the call make an extension

ASSUME ClockAssumption ==
    /\ NoWorker \notin Workers
    /\ Timeout \in Nat \ {0} /\ Extension \in Nat \ {0}
    /\ MinSleep \in Nat \ {0} /\ Lag \in Nat

VARIABLES
    queued,    \* the message has not been deleted
    holder,    \* the worker with the receipt the queue accepts
    left,      \* seconds until the message is visible; it is visible at 0
    phase,     \* "idle"; "held" before and "after" behind the "body" of the run
    slept,     \* seconds since the extension task last went to sleep
    covered    \* history: the body began in time and no extension has failed

clockVars == <<queued, holder, left, phase, slept, covered>>

\* Extend at half the extension, "to ensure we don't miss".
Interval == IF Extension \div 2 > MinSleep THEN Extension \div 2 ELSE MinSleep
Longest  == IF Timeout > Extension THEN Timeout ELSE Extension

ClockTypeOK ==
    /\ queued \in BOOLEAN
    /\ holder \in Workers \union {NoWorker}
    /\ left \in 0..Longest
    /\ phase \in [Workers -> {"idle", "held", "body", "after"}]
    /\ slept \in [Workers -> 0..(Interval + Lag)]
    /\ covered \in [Workers -> BOOLEAN]

ClockInit ==
    /\ queued = TRUE
    /\ holder = NoWorker
    /\ left = 0
    /\ phase = [w \in Workers |-> "idle"]
    /\ slept = [w \in Workers |-> 0]
    /\ covered = [w \in Workers |-> FALSE]

Visible   == queued /\ left = 0
Accepts(w) == queued /\ left > 0 /\ holder = w

-----------------------------------------------------------------------------
\* A poll takes the message; the lookups of the job and the run follow, and
\* nothing renews it meanwhile.
TakeMessage(w) ==
    /\ Visible /\ phase[w] = "idle"
    /\ holder' = w
    /\ left' = Timeout
    /\ phase' = [phase EXCEPT ![w] = "held"]
    /\ UNCHANGED <<queued, slept, covered>>

\* create_task(_extend_visibility_loop), then _execute_job_run.
BeginBody(w) ==
    /\ phase[w] = "held"
    /\ phase' = [phase EXCEPT ![w] = "body"]
    /\ slept' = [slept EXCEPT ![w] = 0]
    /\ covered' = [covered EXCEPT ![w] = Accepts(w) /\ left > Interval + Lag
                                            /\ Extension > Interval + Lag]
    /\ UNCHANGED <<queued, holder, left>>

\* Mutant of Extend: the message is extended by the time the task sleeps.
ExtendByInterval(w) ==
    /\ phase[w] = "body" /\ slept[w] >= Interval
    /\ left' = IF Accepts(w) THEN Interval ELSE left
    /\ slept' = [slept EXCEPT ![w] = 0]
    /\ UNCHANGED <<queued, holder, phase, covered>>

\* The task wakes and extends; the queue refuses a receipt that is not good
\* any more, and the task goes on.
Extend(w) ==
    /\ phase[w] = "body" /\ slept[w] >= Interval
    /\ left' = IF Accepts(w) THEN Extension ELSE left
    /\ slept' = [slept EXCEPT ![w] = 0]
    /\ UNCHANGED <<queued, holder, phase, covered>>

\* The call raises: "Continue trying - the job is still running", which is after
\* the next sleep.
ExtendFails(w) ==
    /\ phase[w] = "body" /\ slept[w] >= Interval
    /\ slept' = [slept EXCEPT ![w] = 0]
    /\ covered' = [covered EXCEPT ![w] = FALSE]
    /\ UNCHANGED <<queued, holder, left, phase>>

\* stop_event.set() and the cancellation, after the body or its exception.
EndBody(w) ==
    /\ phase[w] = "body"
    /\ phase' = [phase EXCEPT ![w] = "after"]
    /\ UNCHANGED <<queued, holder, left, slept, covered>>

\* delete_message; a receipt that expired still deletes until another is issued.
Delete(w) ==
    /\ phase[w] \in {"held", "after"}
    /\ queued' = (queued /\ holder # w)
    /\ phase' = [phase EXCEPT ![w] = "idle"]
    /\ UNCHANGED <<holder, left, slept, covered>>

\* An exception keeps the message; a crash ends the task along with the worker.
Abandon(w) ==
    /\ phase[w] # "idle"
    /\ phase' = [phase EXCEPT ![w] = "idle"]
    /\ UNCHANGED <<queued, holder, left, slept, covered>>

\* A second passes.  An extension that is due comes at most Lag seconds late.
Tick ==
    /\ \A w \in Workers : phase[w] = "body" => slept[w] < Interval + Lag
    /\ left' = IF left = 0 THEN 0 ELSE left - 1
    /\ slept' = [w \in Workers |-> IF phase[w] = "body" THEN slept[w] + 1 ELSE slept[w]]
    /\ UNCHANGED <<queued, holder, phase, covered>>

ClockNext ==
    \/ \E w \in Workers : \/ TakeMessage(w) \/ BeginBody(w) \/ Extend(w) \/ ExtendFails(w)
                          \/ EndBody(w) \/ Delete(w) \/ Abandon(w)
    \/ Tick

ClockSpec == ClockInit /\ [][ClockNext]_clockVars

-----------------------------------------------------------------------------
\* "Extend visibility ... to ensure we don't miss" (job_runner.py:94): as long as
\* the body began with more time than one sleep takes, no extension failed and an
\* extension lasts longer than a sleep does, nobody else gets the message while the
\* body runs.  With an extension of 10 seconds or less it never does.
HiddenWhileExecuted ==
    \A w \in Workers : phase[w] = "body" /\ covered[w] => Accepts(w)

\* Why: the time left is always more than the time to the next extension.
AheadOfTime ==
    \A w \in Workers : phase[w] = "body" /\ covered[w] =>
        /\ Accepts(w)
        /\ left + slept[w] > Interval + Lag
        /\ Extension > Interval + Lag

-----------------------------------------------------------------------------
LEMMA ClockNumbers ==
  /\ Interval \in Nat \ {0}
  /\ Longest \in Nat /\ Timeout \in 0..Longest /\ Extension \in 0..Longest
BY ClockAssumption DEF ClockAssumption, Interval, Longest

LEMMA ClockStart == ClockInit => ClockTypeOK /\ AheadOfTime
BY ClockAssumption, ClockNumbers
   DEF ClockAssumption, ClockInit, ClockTypeOK, AheadOfTime

LEMMA ClockStep == ClockTypeOK /\ AheadOfTime /\ [ClockNext]_clockVars
                     => ClockTypeOK' /\ AheadOfTime'
<1> SUFFICES ASSUME ClockTypeOK, AheadOfTime, [ClockNext]_clockVars
             PROVE  ClockTypeOK' /\ AheadOfTime'
  OBVIOUS
<1> USE ClockAssumption, ClockNumbers
        DEF ClockAssumption, ClockTypeOK, AheadOfTime, Accepts, Visible
<1>1. ASSUME NEW w \in Workers, TakeMessage(w) PROVE ClockTypeOK' /\ AheadOfTime'
  BY <1>1 DEF TakeMessage
<1>2. ASSUME NEW w \in Workers, BeginBody(w) PROVE ClockTypeOK' /\ AheadOfTime'
  <2>1. ClockTypeOK'
    BY <1>2 DEF BeginBody
  <2>2. UNCHANGED <<queued, holder, left>>
    BY <1>2 DEF BeginBody
  <2>3. ASSUME NEW v \in Workers, v # w, phase'[v] = "body", covered'[v]
        PROVE  phase[v] = "body" /\ covered[v] /\ slept'[v] = slept[v]
    BY <1>2, <2>3 DEF BeginBody
  <2>4. slept'[w] = 0
    BY <1>2 DEF BeginBody
  <2>5. covered'[w] = (queued /\ left > 0 /\ holder = w /\ left > Interval + Lag
                         /\ Extension > Interval + Lag)
    BY <1>2 DEF BeginBody
  <2>6. covered'[w] => /\ queued /\ left > 0 /\ holder = w
                       /\ left + slept'[w] > Interval + Lag /\ Extension > Interval + Lag
    <3> HIDE ClockAssumption, ClockNumbers DEF ClockAssumption, ClockTypeOK, AheadOfTime
    <3>1. left \in Int /\ left + 0 = left
      BY DEF ClockTypeOK
    <3> QED  BY <2>4, <2>5, <3>1, Zenon
  <2>7. ASSUME NEW v \in Workers, phase'[v] = "body", covered'[v]
        PROVE  /\ queued /\ left > 0 /\ holder = v
               /\ left + slept'[v] > Interval + Lag /\ Extension > Interval + Lag
    <3>1. CASE v = w   BY <3>1, <2>6, <2>7
    <3>2. CASE v # w   BY <3>2, <2>3, <2>7
    <3> QED  BY <3>1, <3>2
  <2> QED  BY <2>1, <2>2, <2>7
<1>3. ASSUME NEW w \in Workers, Extend(w) PROVE ClockTypeOK' /\ AheadOfTime'
  BY <1>3 DEF Extend
<1>4. ASSUME NEW w \in Workers, ExtendFails(w) PROVE ClockTypeOK' /\ AheadOfTime'
  BY <1>4 DEF ExtendFails
<1>5. ASSUME NEW w \in Workers, EndBody(w) \/ Delete(w) \/ Abandon(w)
      PROVE  ClockTypeOK' /\ AheadOfTime'
  BY <1>5 DEF EndBody, Delete, Abandon
<1>6. CASE Tick
  <2>1. ClockTypeOK'
    BY <1>6 DEF Tick
  <2>2. ASSUME NEW w \in Workers, phase[w] = "body", covered[w]
        PROVE  /\ (queued /\ left > 0 /\ holder = w)'
               /\ (left + slept[w] > Interval + Lag)'
    <3>1. /\ queued /\ left > 0 /\ holder = w
          /\ left + slept[w] > Interval + Lag /\ slept[w] < Interval + Lag
      BY <1>6, <2>2 DEF Tick
    <3>2. left' = left - 1 /\ slept'[w] = slept[w] + 1
      BY <1>6, <2>2, <3>1 DEF Tick
    <3> QED  BY <1>6, <3>1, <3>2 DEF Tick
  <2> QED  BY <1>6, <2>1, <2>2 DEF Tick
<1>7. CASE UNCHANGED clockVars
  BY <1>7 DEF clockVars
<1> QED  BY <1>1, <1>2, <1>3, <1>4, <1>5, <1>6, <1>7 DEF ClockNext

\* For all timeouts, extensions and delays: a body that began in time keeps the
\* message hidden and its receipt good as long as no extension fails.
THEOREM ExtensionHides == ClockSpec => []HiddenWhileExecuted
<1>1. AheadOfTime => HiddenWhileExecuted
  BY DEF AheadOfTime, HiddenWhileExecuted
<1> QED  BY <1>1, ClockStart, ClockStep, PTL DEF ClockSpec
=============================================================================
