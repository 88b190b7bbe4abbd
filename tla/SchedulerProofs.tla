--------------------------- MODULE SchedulerProofs ---------------------------
(***************************************************************************)
(* Theorems about Scheduler, for any jobs, instances, requests and bounds.  *)
(***************************************************************************)
EXTENDS Scheduler, TLAPS

-----------------------------------------------------------------------------
(* Types.                                                                    *)

LEMMA TypeRequest ==
  ASSUME TypeOK, NEW h \in Requests, Begin(h) \/ Step(h) \/ CallFails(h)
  PROVE  TypeOK'
<1>0. \A d \in Definitions : d.cron \in Crons  BY DEF Definitions
<1> USE Assumption, <1>0 DEF Assumption, TypeOK, Goto, Save, OthersMiss, Fault,
        rowVars, instanceVars, requestVars, historyVars
<1>1. CASE Begin(h)
  <2>1. pc' \in [Requests -> {"idle", "insert", "schedule", "read", "write", "reschedule",
                              "find", "unschedule", "remove", "done"}]
    BY <1>1 DEF Begin
  <2>2. copy' \in [Requests -> Definitions]  BY <1>1 DEF Begin
  <2>3. coherent' \in [Instances -> [Jobs -> BOOLEAN]]  BY <1>1, Zenon DEF Begin
  <2> QED  BY <1>1, <2>1, <2>2, <2>3 DEF Begin
<1>2. CASE InsertRow(h)       BY <1>2 DEF InsertRow
<1>3. CASE ScheduleCreated(h) BY <1>3 DEF ScheduleCreated, Accepted
<1>4. CASE ReadJob(h)
  <2>1. copy' \in [Requests -> Definitions]  BY <1>4 DEF ReadJob
  <2> QED  BY <1>4, <2>1 DEF ReadJob
<1>5. CASE WriteJob(h)
  <2>1. def' \in [Jobs -> Definitions]  BY <1>5 DEF WriteJob
  <2>2. saved' \in [Jobs -> SUBSET Crons]
    <3>1. CASE UNCHANGED saved     BY <3>1
    <3>2. CASE Save(h, copy[h])    BY <3>2
    <3> QED  BY <1>5, <3>1, <3>2 DEF WriteJob
  <2>3. coherent' \in [Instances -> [Jobs -> BOOLEAN]]
    <3>1. CASE UNCHANGED coherent  BY <3>1
    <3>2. CASE OthersMiss(h)       BY <3>2
    <3> QED  BY <1>5, <3>1, <3>2 DEF WriteJob
  <2> QED  BY <1>5, <2>1, <2>2, <2>3 DEF WriteJob
<1>6. CASE Reschedule(h)      BY <1>6 DEF Reschedule, Accepted
<1>7. CASE FindJob(h)
  <2>1. copy' \in [Requests -> Definitions]
    <3>1. CASE UNCHANGED copy                            BY <3>1
    <3>2. CASE copy' = [copy EXCEPT ![h] = def[on[h]]]   BY <3>2
    <3> QED  BY <1>7, <3>1, <3>2 DEF FindJob
  <2> QED  BY <1>7, <2>1 DEF FindJob
<1>8. CASE UnscheduleJob(h)   BY <1>8 DEF UnscheduleJob
<1>9. CASE RemoveRow(h)       BY <1>9 DEF RemoveRow
<1>10. CASE CallFails(h)
  <2>1. row' \in [Jobs -> {"new", "live", "deleted"}]  BY <1>10 DEF CallFails
  <2>2. def' \in [Jobs -> Definitions]  BY <1>10 DEF CallFails
  <2>3. saved' \in [Jobs -> SUBSET Crons]
    <3>1. CASE UNCHANGED saved     BY <3>1
    <3>2. CASE Save(h, copy[h])    BY <3>2
    <3> QED  BY <1>10, <3>1, <3>2 DEF CallFails
  <2>4. coherent' \in [Instances -> [Jobs -> BOOLEAN]]  BY <1>10 DEF CallFails
  <2> QED  BY <1>10, <2>1, <2>2, <2>3, <2>4 DEF CallFails
<1> QED  BY <1>1, <1>2, <1>3, <1>4, <1>5, <1>6, <1>7, <1>8, <1>9, <1>10 DEF Step

LEMMA TypeInstance ==
  ASSUME TypeOK, NEW i \in Instances,
         LoadRows(i) \/ ScheduleLoaded(i) \/ Crash(i) \/ \E j \in Jobs : Fire(i, j)
  PROVE  TypeOK'
<1> USE Assumption DEF Assumption, TypeOK, Definitions, Crons, NoEntries, Fault,
        rowVars, instanceVars, requestVars, historyVars
<1>1. CASE LoadRows(i)        BY <1>1 DEF LoadRows
<1>2. CASE ScheduleLoaded(i)
  <2>1. CASE \A j \in Jobs : loaded[i][j] # NoCron => Accepted(loaded[i][j])
    <3>1. loaded[i] \in [Jobs -> GoodCrons \union {NoCron}]  BY <2>1 DEF Accepted
    <3> QED  BY <1>2, <2>1, <3>1 DEF ScheduleLoaded
  <2>2. CASE ~\A j \in Jobs : loaded[i][j] # NoCron => Accepted(loaded[i][j])
    BY <1>2, <2>2 DEF ScheduleLoaded
  <2> QED  BY <2>1, <2>2
<1>3. CASE Crash(i)           BY <1>3 DEF Crash
<1>4. CASE \E j \in Jobs : Fire(i, j)  BY <1>4 DEF Fire
<1> QED  BY <1>1, <1>2, <1>3, <1>4

\* Every value a variable takes has its type; in particular no scheduler ever
\* holds an expression that CronTrigger rejects.
THEOREM TypeCorrect == Spec => []TypeOK
<1>1. Init => TypeOK
  BY Assumption DEF Init, TypeOK, Assumption, Undefined, NoEntries, Definitions, Crons
<1>2. TypeOK /\ [Next]_vars => TypeOK'
  <2> SUFFICES ASSUME TypeOK, [Next]_vars PROVE TypeOK'  OBVIOUS
  <2>1. CASE \E h \in Requests : Begin(h) \/ Step(h) \/ CallFails(h)
    BY <2>1, TypeRequest
  <2>2. CASE \E i \in Instances : \/ LoadRows(i) \/ ScheduleLoaded(i) \/ Crash(i)
                                  \/ \E j \in Jobs : Fire(i, j)
    BY <2>2, TypeInstance
  <2>3. CASE UNCHANGED vars
    BY <2>3 DEF TypeOK, vars, rowVars, instanceVars, requestVars, historyVars
  <2> QED  BY <2>1, <2>2, <2>3 DEF Next
<1> QED  BY <1>1, <1>2, PTL DEF Spec

-----------------------------------------------------------------------------
(* The row is committed before the scheduler is told.                        *)

LEMMA SavedBySave ==
  ASSUME TypeOK, SavedInv, NEW h \in Requests, NEW label,
         Save(h, copy[h]), Goto(h, label), UNCHANGED <<instanceVars, on, copy>>,
         \A j \in Jobs \ {on[h]} : row'[j] = row[j]
  PROVE  SavedInv'
<1> USE DEF TypeOK, SavedInv, Goto, instanceVars
<1>1. saved' = [saved EXCEPT ![on[h]] = @ \union IF Due(copy[h]) THEN {copy[h].cron} ELSE {}]
  BY DEF Save
<1>2. \A j \in Jobs : saved[j] \subseteq saved'[j]  BY <1>1
<1>3. Due(copy[h]) => copy[h].cron \in saved'[on[h]]  BY <1>1
<1>4. ScheduledWasSaved'  BY <1>2 DEF ScheduledWasSaved
<1>5. (\A j \in Jobs : row[j] = "live" /\ Due(def[j]) => def[j].cron \in saved[j])'
  BY <1>2, <1>3 DEF Save, Due
<1>6. (\A i \in Instances, j \in Jobs : loaded[i][j] \in saved[j] \union {NoCron})'
  BY <1>2
<1>7. (\A g \in Requests : pc[g] \in {"schedule", "reschedule"} /\ Due(copy[g])
                              => copy[g].cron \in saved[on[g]])'
  BY <1>2, <1>3 DEF Due
<1> QED  BY <1>4, <1>5, <1>6, <1>7

LEMMA SavedRequest ==
  ASSUME TypeOK, SavedInv, NEW h \in Requests, Begin(h) \/ Step(h) \/ CallFails(h)
  PROVE  SavedInv'
<1> USE DEF TypeOK, Goto, Due,
        SavedInv, ScheduledWasSaved, rowVars, instanceVars, requestVars, historyVars
<1>1. CASE Begin(h)           BY <1>1 DEF Begin
<1>2. CASE InsertRow(h)       BY <1>2, SavedBySave DEF InsertRow
<1>3. CASE ScheduleCreated(h) BY <1>3 DEF ScheduleCreated
<1>4. CASE ReadJob(h)         BY <1>4 DEF ReadJob
<1>5. CASE WriteJob(h)
  <2>1. CASE Save(h, copy[h]) /\ Goto(h, "reschedule")
    BY <1>5, <2>1, SavedBySave DEF WriteJob
  <2>2. CASE Goto(h, "done") /\ UNCHANGED <<def, saved>>
    BY <1>5, <2>2 DEF WriteJob
  <2> QED  BY <1>5, <2>1, <2>2 DEF WriteJob
<1>6. CASE Reschedule(h)      BY <1>6 DEF Reschedule
<1>7. CASE FindJob(h)         BY <1>7 DEF FindJob
<1>8. CASE UnscheduleJob(h)   BY <1>8 DEF UnscheduleJob
<1>9. CASE RemoveRow(h)       BY <1>9 DEF RemoveRow
<1>10. CASE CallFails(h)
  <2>1. CASE UNCHANGED <<rowVars, saved>>
    BY <1>10, <2>1 DEF CallFails
  <2>2. CASE Save(h, copy[h]) /\ \A j \in Jobs \ {on[h]} : row'[j] = row[j]
    BY <1>10, <2>2, SavedBySave DEF CallFails
  <2>3. CASE row' = [row EXCEPT ![on[h]] = "deleted"] /\ UNCHANGED <<def, saved>>
    BY <1>10, <2>3 DEF CallFails
  <2> QED  BY <1>10, <2>1, <2>2, <2>3 DEF CallFails
<1> QED  BY <1>1, <1>2, <1>3, <1>4, <1>5, <1>6, <1>7, <1>8, <1>9, <1>10 DEF Step

LEMMA SavedInstance ==
  ASSUME TypeOK, SavedInv, NEW i \in Instances,
         LoadRows(i) \/ ScheduleLoaded(i) \/ Crash(i) \/ \E j \in Jobs : Fire(i, j)
  PROVE  SavedInv'
<1> USE DEF TypeOK, SavedInv, ScheduledWasSaved, NoEntries, Due, Active,
        rowVars, instanceVars, requestVars, historyVars
<1>1. CASE LoadRows(i)                 BY <1>1 DEF LoadRows
<1>2. CASE ScheduleLoaded(i)           BY <1>2 DEF ScheduleLoaded
<1>3. CASE Crash(i)                    BY <1>3 DEF Crash
<1>4. CASE \E j \in Jobs : Fire(i, j)  BY <1>4 DEF Fire
<1> QED  BY <1>1, <1>2, <1>3, <1>4

\* Whatever overlaps, fails or restarts, an instance runs a job only on a
\* schedule that was once saved with the job enabled.
THEOREM SavedFirst == Spec => []ScheduledWasSaved
<1>1. Init => SavedInv
  BY DEF Init, SavedInv, ScheduledWasSaved, NoEntries, Undefined, Due
<1>2. TypeOK /\ SavedInv /\ [Next]_vars => SavedInv'
  <2> SUFFICES ASSUME TypeOK, SavedInv, [Next]_vars PROVE SavedInv'  OBVIOUS
  <2>1. CASE \E h \in Requests : Begin(h) \/ Step(h) \/ CallFails(h)
    BY <2>1, SavedRequest
  <2>2. CASE \E i \in Instances : \/ LoadRows(i) \/ ScheduleLoaded(i) \/ Crash(i)
                                  \/ \E j \in Jobs : Fire(i, j)
    BY <2>2, SavedInstance
  <2>3. CASE UNCHANGED vars
    BY <2>3 DEF SavedInv, ScheduledWasSaved, Due, vars, rowVars, instanceVars, requestVars, historyVars
  <2> QED  BY <2>1, <2>2, <2>3 DEF Next
<1>3. SavedInv => ScheduledWasSaved  BY DEF SavedInv
<1> QED  BY <1>1, <1>2, <1>3, TypeCorrect, PTL DEF Spec

-----------------------------------------------------------------------------
(* The schedulers agree with the database.                                   *)

LEMMA RequestMoves ==
  ASSUME TypeOK, RequestsInv, NEW h \in Requests, NEW label, Goto(h, label), label # "insert",
         state[at[h]] = "up", Active(h) \/ row[on[h]] # "new",
         UNCHANGED <<state, at, on>>, \A j \in Jobs \ {on[h]} : row'[j] = row[j]
  PROVE  RequestsInv'
<1>1. \A g \in Requests : pc'[g] = "insert" => g # h /\ pc[g] = "insert" /\ on[g] # on[h]
  BY DEF TypeOK, RequestsInv, Goto, Active
<1>2. \A g \in Requests \ {h} : pc'[g] = pc[g]
  BY DEF TypeOK, Goto
<1>3. \A g \in Requests : Active(g)' => state'[at'[g]] = "up"
  BY <1>2 DEF RequestsInv, Active
<1>4. ASSUME NEW g \in Requests, pc'[g] = "insert"
      PROVE  row'[on'[g]] = "new" /\ \A k \in Requests : Active(k)' /\ on'[k] = on'[g] => k = g
  <2>1. pc[g] = "insert" /\ on[g] # on[h] /\ on[g] \in Jobs  BY <1>1, <1>4 DEF TypeOK
  <2>2. row[on[g]] = "new" /\ \A k \in Requests : Active(k) /\ on[k] = on[g] => k = g
    BY <2>1 DEF RequestsInv
  <2>3. \A k \in Requests : Active(k)' /\ on[k] = on[g] => Active(k)
    BY <1>2, <2>1 DEF Active
  <2> QED  BY <2>1, <2>2, <2>3
<1> QED  BY <1>3, <1>4 DEF RequestsInv

LEMMA RequestsStep ==
  ASSUME TypeOK, RequestsInv, [Next]_vars
  PROVE  RequestsInv'
<1> USE DEF TypeOK, RequestsInv, Active, Goto, rowVars, instanceVars, requestVars, historyVars
<1>1. ASSUME NEW h \in Requests, Begin(h)  PROVE RequestsInv'
  <2>1. CASE row[on[h]] = "new" /\ Goto(h, "insert") /\ \A g \in Requests : Active(g) => on[g] # on[h]
    <3>1. pc' = [pc EXCEPT ![h] = "insert"] /\ UNCHANGED <<row, state, at, on>> /\ state[at[h]] = "up"
      BY <1>1, <2>1 DEF Begin
    <3>2. \A g \in Requests : Active(g)' => g = h \/ Active(g)  BY <3>1
    <3>3. \A g \in Requests : Active(g) => on[g] # on[h]  BY <2>1
    <3> QED  BY <2>1, <3>1, <3>2, <3>3
  <2>2. CASE row[on[h]] # "new" /\ \E first \in {"read", "find"} : Goto(h, first)
    <3>1. PICK first \in {"read", "find"} : Goto(h, first)  BY <2>2
    <3> QED  BY <1>1, <2>2, <3>1, RequestMoves DEF Begin
  <2> QED  BY <1>1, <2>1, <2>2 DEF Begin
<1>2. ASSUME NEW h \in Requests, Step(h) \/ CallFails(h)  PROVE RequestsInv'
  <2>1. Active(h)
    BY <1>2 DEF Step, InsertRow, ScheduleCreated, ReadJob, WriteJob, Reschedule, FindJob,
                UnscheduleJob, RemoveRow, CallFails
  <2>2. \E label \in {"schedule", "write", "reschedule", "unschedule", "remove", "done"} : Goto(h, label)
    BY <1>2 DEF Step, InsertRow, ScheduleCreated, ReadJob, WriteJob, Reschedule, FindJob,
                UnscheduleJob, RemoveRow, CallFails
  <2>3. /\ UNCHANGED <<state, at, on>>
        /\ \A j \in Jobs \ {on[h]} : row'[j] = row[j]
    BY <1>2 DEF Step, InsertRow, ScheduleCreated, ReadJob, WriteJob, Reschedule, FindJob,
                UnscheduleJob, RemoveRow, CallFails
  <2>4. PICK label \in {"schedule", "write", "reschedule", "unschedule", "remove", "done"} : Goto(h, label)
    BY <2>2
  <2>5. label # "insert"  BY <2>4
  <2> QED  BY <2>1, <2>3, <2>4, <2>5, RequestMoves
<1>3. ASSUME NEW i \in Instances, LoadRows(i)       PROVE RequestsInv'  BY <1>3 DEF LoadRows
<1>4. ASSUME NEW i \in Instances, ScheduleLoaded(i) PROVE RequestsInv'  BY <1>4 DEF ScheduleLoaded
<1>5. ASSUME NEW i \in Instances, Crash(i)          PROVE RequestsInv'  BY <1>5 DEF Crash
<1>6. ASSUME NEW i \in Instances, NEW j \in Jobs, Fire(i, j)  PROVE RequestsInv'
  BY <1>6 DEF Fire
<1>7. CASE UNCHANGED vars  BY <1>7 DEF vars
<1> QED  BY <1>1, <1>2, <1>3, <1>4, <1>5, <1>6, <1>7 DEF Next

\* A step of h leaves alone what other instances and other jobs know.
LEMMA Elsewhere ==
  ASSUME TypeOK, NEW h \in Requests, NEW i \in Instances, NEW j \in Jobs,
         CoherentAt(i, j), i # at[h] \/ j # on[h],
         UNCHANGED <<state, loaded, at, on>>,
         row'[j] = row[j], def'[j] = def[j], schedule'[i][j] = schedule[i][j],
         \A g \in Requests \ {h} : pc'[g] = pc[g] /\ copy'[g] = copy[g]
  PROVE  CoherentAt(i, j)'
<1>1. Entry(j)' = Entry(j)  BY DEF Entry, Due, Accepted
<1>2. \A g \in Requests : (Active(g) /\ at[g] = i /\ on[g] = j)' =>
            g # h /\ Active(g) /\ at[g] = i /\ on[g] = j
  BY DEF Active, TypeOK
<1>3. \A g \in Requests : g # h /\ at[g] = i /\ on[g] = j => (StageInv(g)' <=> StageInv(g))
  BY <1>1 DEF StageInv
<1>4. \A g \in Requests : Active(g) /\ at[g] = i /\ on[g] = j =>
            (Active(g) /\ at[g] = i /\ on[g] = j)'
  BY DEF Active, TypeOK
<1> QED  BY <1>1, <1>2, <1>3, <1>4 DEF CoherentAt, Due

\* What is left to show where h is alone.
LEMMA Alone ==
  ASSUME TypeOK, NEW h \in Requests,
         state'[at[h]] = "up", UNCHANGED <<at, on>>,
         \A g \in Requests \ {h} : ~(Active(g)' /\ at[g] = at[h] /\ on[g] = on[h]),
         Active(h)' => StageInv(h)',
         ~Active(h)' => schedule'[at[h]][on[h]] = Entry(on[h])'
  PROVE  CoherentAt(at[h], on[h])'
BY DEF CoherentAt, Active, TypeOK

\* A step of a request never makes a job coherent, and what is coherent
\* elsewhere did not see a write.
LEMMA Unseen ==
  ASSUME TypeOK, NEW h \in Requests, Begin(h) \/ Step(h) \/ CallFails(h),
         NEW i \in Instances, NEW j \in Jobs, coherent'[i][j]
  PROVE  /\ coherent[i][j]
         /\ i # at[h] \/ j # on[h] =>
               row'[j] = row[j] /\ def'[j] = def[j] /\ schedule'[i][j] = schedule[i][j]
<1> USE DEF TypeOK, OthersMiss, Save, rowVars, instanceVars, requestVars, historyVars
<1>1. CASE Begin(h)           BY <1>1 DEF Begin
<1>2. CASE InsertRow(h)       BY <1>2 DEF InsertRow
<1>3. CASE ScheduleCreated(h) BY <1>3 DEF ScheduleCreated
<1>4. CASE ReadJob(h)         BY <1>4 DEF ReadJob
<1>5. CASE WriteJob(h)
  <2>1. UNCHANGED <<row, schedule>>  BY <1>5 DEF WriteJob
  <2>2. CASE OthersMiss(h) /\ Save(h, copy[h])   BY <2>1, <2>2
  <2>3. CASE UNCHANGED <<def, saved, coherent>>  BY <2>1, <2>3
  <2> QED  BY <1>5, <2>2, <2>3 DEF WriteJob
<1>6. CASE Reschedule(h)      BY <1>6 DEF Reschedule
<1>7. CASE FindJob(h)         BY <1>7 DEF FindJob
<1>8. CASE UnscheduleJob(h)   BY <1>8 DEF UnscheduleJob
<1>9. CASE RemoveRow(h)       BY <1>9 DEF RemoveRow
<1>10. CASE CallFails(h)      BY <1>10 DEF CallFails
<1> QED  BY <1>1, <1>2, <1>3, <1>4, <1>5, <1>6, <1>7, <1>8, <1>9, <1>10 DEF Step

LEMMA Frame ==
  ASSUME TypeOK, NEW h \in Requests, Begin(h) \/ Step(h) \/ CallFails(h)
  PROVE  /\ UNCHANGED <<state, loaded, at, on>>
         /\ \A g \in Requests \ {h} : pc'[g] = pc[g] /\ copy'[g] = copy[g]
<1> USE DEF TypeOK, Goto, rowVars, instanceVars, requestVars, historyVars
<1>1. CASE Begin(h)           BY <1>1 DEF Begin
<1>2. CASE InsertRow(h)       BY <1>2 DEF InsertRow
<1>3. CASE ScheduleCreated(h) BY <1>3 DEF ScheduleCreated
<1>4. CASE ReadJob(h)         BY <1>4 DEF ReadJob
<1>5. CASE WriteJob(h)        BY <1>5 DEF WriteJob
<1>6. CASE Reschedule(h)      BY <1>6 DEF Reschedule
<1>7. CASE FindJob(h)         BY <1>7 DEF FindJob
<1>8. CASE UnscheduleJob(h)   BY <1>8 DEF UnscheduleJob
<1>9. CASE RemoveRow(h)       BY <1>9 DEF RemoveRow
<1>10. CASE CallFails(h)      BY <1>10 DEF CallFails
<1> QED  BY <1>1, <1>2, <1>3, <1>4, <1>5, <1>6, <1>7, <1>8, <1>9, <1>10 DEF Step

\* A request that is alone on a coherent job finishes with the scheduler and
\* the row in agreement, and knows what it must on the way.
LEMMA Stages ==
  ASSUME TypeOK, RequestsInv, NEW h \in Requests, coherent'[at[h]][on[h]],
         \/ /\ Begin(h) /\ schedule[at[h]][on[h]] = Entry(on[h])
         \/ /\ Step(h) \/ CallFails(h)
            /\ StageInv(h)
  PROVE  /\ Active(h)' => StageInv(h)'
         /\ ~Active(h)' => schedule'[at[h]][on[h]] = Entry(on[h])'
<1> USE DEF TypeOK, Goto, Active, StageInv, rowVars, instanceVars, requestVars, historyVars
<1>1. CASE Begin(h) /\ schedule[at[h]][on[h]] = Entry(on[h])
  <2>1. UNCHANGED <<row, def, schedule, at, on>>  BY <1>1 DEF Begin
  <2>2. pc'[h] \in {"insert", "read", "find"}     BY <1>1 DEF Begin
  <2> QED  BY <1>1, <2>1, <2>2 DEF Entry
<1>2. CASE InsertRow(h) /\ StageInv(h)
  BY <1>2 DEF InsertRow, Save, RequestsInv, Entry
<1>3. CASE ScheduleCreated(h) /\ StageInv(h)
  BY <1>3 DEF ScheduleCreated, Entry
<1>4. CASE ReadJob(h) /\ StageInv(h)
  <2>1. UNCHANGED <<row, def, schedule, at, on>>  BY <1>4 DEF ReadJob
  <2>2. pc[h] = "read" /\ pc'[h] \in {"write", "done"}  BY <1>4 DEF ReadJob
  <2> QED  BY <1>4, <2>1, <2>2 DEF Entry
<1>5. CASE WriteJob(h) /\ StageInv(h)
  BY <1>5 DEF WriteJob, Save, Entry
<1>6. CASE Reschedule(h) /\ StageInv(h)
  BY <1>6 DEF Reschedule, Entry
<1>7. CASE FindJob(h) /\ StageInv(h)
  BY <1>7 DEF FindJob, Entry
<1>8. CASE UnscheduleJob(h) /\ StageInv(h)
  BY <1>8 DEF UnscheduleJob, Entry, Due
<1>9. CASE RemoveRow(h) /\ StageInv(h)
  BY <1>9 DEF RemoveRow, Entry
<1>10. CASE CallFails(h) /\ StageInv(h)
  BY <1>10 DEF CallFails, Entry
<1> QED  BY <1>1, <1>2, <1>3, <1>4, <1>5, <1>6, <1>7, <1>8, <1>9, <1>10 DEF Step

LEMMA CoherenceRequest ==
  ASSUME TypeOK, RequestsInv, CoherenceInv, NEW h \in Requests,
         Begin(h) \/ Step(h) \/ CallFails(h),
         NEW i \in Instances, NEW j \in Jobs, coherent'[i][j]
  PROVE  CoherentAt(i, j)'
<1>1. CoherentAt(i, j)  BY Unseen DEF CoherenceInv
<1>2. CASE i # at[h] \/ j # on[h]
  BY <1>1, <1>2, Unseen, Frame, Elsewhere
<1>3. CASE i = at[h] /\ j = on[h]
  <2>1. CASE Begin(h)
    <3>1. state[i] = "up" /\ \A g \in Requests : ~(Active(g) /\ at[g] = i /\ on[g] = j)
      BY <1>3, <2>1 DEF Begin, TypeOK
    <3>2. schedule[i][j] = Entry(j)  BY <1>1, <3>1 DEF CoherentAt
    <3>3. (Active(h)' => StageInv(h)') /\ (~Active(h)' => schedule'[at[h]][on[h]] = Entry(on[h])')
      BY <1>3, <2>1, <3>2, Stages
    <3>4. \A g \in Requests \ {h} : ~(Active(g)' /\ at[g] = at[h] /\ on[g] = on[h])
      BY <1>3, <3>1, Frame DEF Active
    <3> QED  BY <1>3, <3>1, <3>3, <3>4, Frame, Alone
  <2>2. CASE Step(h) \/ CallFails(h)
    <3>1. Active(h)
      BY <2>2 DEF Active, Step, InsertRow, ScheduleCreated, ReadJob, WriteJob, Reschedule,
                  FindJob, UnscheduleJob, RemoveRow, CallFails
    <3>2. state[i] = "up"  BY <1>3, <3>1 DEF RequestsInv
    <3>3. StageInv(h)  BY <1>1, <1>3, <3>1 DEF CoherentAt
    <3>4. (Active(h)' => StageInv(h)') /\ (~Active(h)' => schedule'[at[h]][on[h]] = Entry(on[h])')
      BY <1>3, <2>2, <3>3, Stages
    <3>5. \A g \in Requests \ {h} : ~(Active(g)' /\ at[g] = at[h] /\ on[g] = on[h])
      BY <1>1, <1>3, <3>1, Frame DEF Active, CoherentAt
    <3> QED  BY <1>3, <3>2, <3>4, <3>5, Frame, Alone
  <2> QED  BY <2>1, <2>2
<1> QED  BY <1>2, <1>3

LEMMA CoherenceInstance ==
  ASSUME TypeOK, RequestsInv, CoherenceInv, NEW k \in Instances,
         LoadRows(k) \/ ScheduleLoaded(k) \/ Crash(k) \/ \E n \in Jobs : Fire(k, n),
         NEW i \in Instances, NEW j \in Jobs, coherent'[i][j]
  PROVE  CoherentAt(i, j)'
<1> USE DEF TypeOK, rowVars, instanceVars, requestVars, historyVars
<1>1. CASE LoadRows(k)
  <2>1. CASE i = k
    <3>1. \A h \in Requests : at[h] = i => ~Active(h)  BY <1>1, <2>1 DEF LoadRows, RequestsInv
    <3>2. UNCHANGED <<pc, at, on, row, def>> /\ state'[i] = "loading"
      BY <1>1, <2>1 DEF LoadRows
    <3>3. loaded'[i][j] = IF row[j] = "live" /\ Due(def[j]) THEN def[j].cron ELSE NoCron
      BY <1>1, <2>1 DEF LoadRows
    <3> QED  BY <3>1, <3>2, <3>3 DEF CoherentAt, Active, Due
  <2>2. CASE i # k
    <3>1. CoherentAt(i, j)  BY <1>1, <2>2 DEF LoadRows, CoherenceInv
    <3> QED  BY <1>1, <2>2, <3>1 DEF LoadRows, CoherentAt, Active, StageInv, Entry, Due
  <2> QED  BY <2>1, <2>2
<1>2. CASE ScheduleLoaded(k)
  <2>1. CoherentAt(i, j)  BY <1>2 DEF ScheduleLoaded, CoherenceInv
  <2>2. CASE i = k
    <3>1. \A h \in Requests : at[h] = i => ~Active(h)
      BY <1>2, <2>2 DEF ScheduleLoaded, RequestsInv
    <3>2. UNCHANGED <<pc, at, on, copy, row, def>> /\ state[i] = "loading" /\ state'[i] # "loading"
      BY <1>2, <2>2 DEF ScheduleLoaded
    <3>3. state'[i] = "up" => /\ schedule'[i][j] = loaded[i][j]
                              /\ loaded[i][j] # NoCron => Accepted(loaded[i][j])
      BY <1>2, <2>2 DEF ScheduleLoaded
    <3>4. state'[i] = "up" => schedule'[i][j] = Entry(j)
      <4>1. loaded[i][j] = IF row[j] = "live" /\ Due(def[j]) THEN def[j].cron ELSE NoCron
        BY <2>1, <3>2 DEF CoherentAt
      <4>2. Entry(j)' = Entry(j)  BY <3>2 DEF Entry, Due, Accepted
      <4>3. (loaded[i][j] # NoCron => Accepted(loaded[i][j])) => loaded[i][j] = Entry(j)
        BY <4>1 DEF Entry, Due
      <4> QED  BY <3>3, <4>3
    <3> QED  BY <3>1, <3>2, <3>4 DEF CoherentAt, Active, Entry, Due
  <2>3. CASE i # k
    BY <1>2, <2>1, <2>3 DEF ScheduleLoaded, CoherentAt, Active, StageInv, Entry, Due
  <2> QED  BY <2>2, <2>3
<1>3. CASE Crash(k)
  <2>1. CoherentAt(i, j)  BY <1>3 DEF Crash, CoherenceInv
  <2>2. CASE i = k
    <3>1. \A h \in Requests : at[h] = i => ~Active(h)'  BY <1>3, <2>2 DEF Crash, Active
    <3> QED  BY <1>3, <2>2, <3>1 DEF Crash, CoherentAt
  <2>3. CASE i # k
    BY <1>3, <2>1, <2>3 DEF Crash, CoherentAt, Active, StageInv, Entry, Due
  <2> QED  BY <2>2, <2>3
<1>4. CASE \E n \in Jobs : Fire(k, n)
  BY <1>4 DEF Fire, CoherenceInv, CoherentAt, Active, StageInv, Entry, Due
<1> QED  BY <1>1, <1>2, <1>3, <1>4

\* An instance that serves has the entry the row calls for, for every job that
\* was only changed through it, one request at a time and with no half failure.
THEOREM CoherentSchedule == Spec => []ScheduleMatchesRow
<1>1. Init => RequestsInv /\ CoherenceInv
  BY DEF Init, RequestsInv, CoherenceInv, CoherentAt, Active, NoEntries
<1>2. TypeOK /\ RequestsInv /\ CoherenceInv /\ [Next]_vars => RequestsInv' /\ CoherenceInv'
  <2> SUFFICES ASSUME TypeOK, RequestsInv, CoherenceInv, [Next]_vars
               PROVE  RequestsInv' /\ CoherenceInv'
    OBVIOUS
  <2>1. RequestsInv'  BY RequestsStep
  <2>2. ASSUME NEW i \in Instances, NEW j \in Jobs, coherent'[i][j]
        PROVE  CoherentAt(i, j)'
    <3>1. CASE \E h \in Requests : Begin(h) \/ Step(h) \/ CallFails(h)
      BY <2>2, <3>1, CoherenceRequest
    <3>2. CASE \E k \in Instances : \/ LoadRows(k) \/ ScheduleLoaded(k) \/ Crash(k)
                                    \/ \E n \in Jobs : Fire(k, n)
      BY <2>2, <3>2, CoherenceInstance
    <3>3. CASE UNCHANGED vars
      <4>1. UNCHANGED <<row, def, state, loaded, schedule, pc, at, on, copy, coherent>>
        BY <3>3 DEF vars, rowVars, instanceVars, requestVars, historyVars
      <4>2. CoherentAt(i, j)  BY <2>2, <4>1 DEF CoherenceInv
      <4>3. \A h \in Requests : StageInv(h)' <=> StageInv(h)
        BY <4>1 DEF StageInv, Entry, Due
      <4> QED  BY <4>1, <4>2, <4>3 DEF CoherentAt, Active, Entry, Due
    <3> QED  BY <3>1, <3>2, <3>3 DEF Next
  <2>3. CoherenceInv'  BY <2>2 DEF CoherenceInv
  <2> QED  BY <2>1, <2>3
<1>3. CoherenceInv => ScheduleMatchesRow
  BY DEF CoherenceInv, CoherentAt, ScheduleMatchesRow
<1> QED  BY <1>1, <1>2, <1>3, TypeCorrect, PTL DEF Spec

\* No request, in whatever order the requests interleave, brings back a job
\* that was deleted.
THEOREM DeletedForGood == Spec => DeletedStaysDeleted
<1>1. RequestsInv /\ TypeOK /\ [Next]_vars =>
        [\A j \in Jobs : row[j] = "deleted" => row'[j] = "deleted"]_vars
  <2> SUFFICES ASSUME RequestsInv, TypeOK, [Next]_vars, NEW j \in Jobs, row[j] = "deleted"
               PROVE  row'[j] = "deleted"
    OBVIOUS
  <2>1. ASSUME NEW h \in Requests, Begin(h) \/ Step(h) \/ CallFails(h) PROVE row'[j] = "deleted"
    BY <2>1 DEF TypeOK, RequestsInv, rowVars, Begin, Step, InsertRow, ScheduleCreated, ReadJob,
                WriteJob, Reschedule, FindJob, UnscheduleJob, RemoveRow, CallFails
  <2>2. ASSUME NEW i \in Instances,
               LoadRows(i) \/ ScheduleLoaded(i) \/ Crash(i) \/ \E n \in Jobs : Fire(i, n)
        PROVE  row'[j] = "deleted"
    BY <2>2 DEF rowVars, LoadRows, ScheduleLoaded, Crash, Fire
  <2>3. CASE UNCHANGED vars  BY <2>3 DEF vars, rowVars
  <2> QED  BY <2>1, <2>2, <2>3 DEF Next
<1>2. Init => RequestsInv  BY DEF Init, RequestsInv, Active
<1>3. TypeOK /\ RequestsInv /\ [Next]_vars => RequestsInv'  BY RequestsStep
<1> QED  BY <1>1, <1>2, <1>3, TypeCorrect, PTL DEF Spec, DeletedStaysDeleted
=============================================================================
