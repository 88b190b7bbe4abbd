------------------------------ MODULE Scheduler ------------------------------
(***************************************************************************)
(* Cron schedules: the rows of job_definitions in the database against the  *)
(* in-memory APScheduler of each instance of the service.  The requests are *)
(* those of app/api/jobs.py through app/services/job_service.py; startup is *)
(* the lifespan of app/main.py with scheduler_service.py.  Every await is a *)
(* step, so requests of one instance overlap, and instances do not see each *)
(* other's schedulers.                                                      *)
(***************************************************************************)
EXTENDS Naturals

CONSTANTS
    Jobs,              \* the ids of the jobs
    Instances,         \* the instances of the service (ecs_desired_count)
    Requests,          \* bound: the create, update and delete requests
    GoodCrons,         \* cron expressions CronTrigger accepts
    BadCron,           \* one it rejects: the API takes any string
    NoCron,            \* None: no schedule
    SchedulerEnabled,  \* SCHEDULER_ENABLED
    MaxFaults,         \* bound: crashes and failed database calls
    MaxFires           \* bound: calls of the cron trigger, per job

ASSUME Assumption ==
    /\ BadCron \notin GoodCrons /\ NoCron \notin GoodCrons /\ BadCron # NoCron
    /\ SchedulerEnabled \in BOOLEAN
    /\ MaxFaults \in Nat /\ MaxFires \in Nat

Crons == GoodCrons \union {BadCron, NoCron}
Definitions == [cron : Crons, enabled : BOOLEAN]
Undefined == [cron |-> NoCron, enabled |-> FALSE]

VARIABLES
    row,       \* job_definitions: "new" before the insert, "live", "deleted"
    def,       \* the columns cron_schedule and enabled of the row
    state,     \* what the process of the instance does
    loaded,    \* the rows it read at startup, as their cron expressions
    schedule,  \* the entries of its APScheduler
    pc, at, on, copy,  \* a request: next step, instance, job, its JobDefinition
    coherent,  \* history: since the instance loaded its rows, the job was only
               \* changed through it, one request at a time, and none half failed
    saved,     \* history: the cron expressions saved for the job while enabled
    fires,     \* how often the trigger of the job was called
    faults     \* faults so far, up to MaxFaults

rowVars      == <<row, def>>
instanceVars == <<state, loaded, schedule>>
requestVars  == <<pc, at, on, copy>>
historyVars  == <<coherent, saved, fires>>
vars == <<rowVars, instanceVars, requestVars, historyVars, faults>>

NoEntries == [j \in Jobs |-> NoCron]

\* if job.cron_schedule and job.enabled
Due(d) == d.enabled /\ d.cron # NoCron

TypeOK ==
    /\ row \in [Jobs -> {"new", "live", "deleted"}]
    /\ def \in [Jobs -> Definitions]
    /\ state \in [Instances -> {"down", "loading", "up", "failed"}]
    /\ loaded \in [Instances -> [Jobs -> Crons]]
    /\ schedule \in [Instances -> [Jobs -> GoodCrons \union {NoCron}]]
    /\ pc \in [Requests -> {"idle", "insert", "schedule", "read", "write", "reschedule",
                            "find", "unschedule", "remove", "done"}]
    /\ at \in [Requests -> Instances]
    /\ on \in [Requests -> Jobs]
    /\ copy \in [Requests -> Definitions]
    /\ coherent \in [Instances -> [Jobs -> BOOLEAN]]
    /\ saved \in [Jobs -> SUBSET Crons]
    /\ fires \in [Jobs -> 0..MaxFires]
    /\ faults \in 0..MaxFaults

\* The service is deployed on a database that may hold jobs already.
Init ==
    /\ row \in [Jobs -> {"new", "live"}]
    /\ def \in [Jobs -> Definitions]
    /\ \A j \in Jobs : row[j] = "new" => def[j] = Undefined
    /\ state = [i \in Instances |-> "down"]
    /\ loaded = [i \in Instances |-> NoEntries]
    /\ schedule = [i \in Instances |-> NoEntries]
    /\ pc = [h \in Requests |-> "idle"]
    /\ at \in [Requests -> Instances]
    /\ on \in [Requests -> Jobs]
    /\ copy = [h \in Requests |-> Undefined]
    /\ coherent = [i \in Instances |-> [j \in Jobs |-> TRUE]]
    /\ saved = [j \in Jobs |-> IF Due(def[j]) THEN {def[j].cron} ELSE {}]
    /\ fires = [j \in Jobs |-> 0]
    /\ faults = 0

Fault == faults < MaxFaults /\ faults' = faults + 1

-----------------------------------------------------------------------------
(* Requests.                                                                 *)

Active(h) == pc[h] \notin {"idle", "done"}
Goto(h, label) == pc' = [pc EXCEPT ![h] = label]

\* Mutant of Accepted: the expression is not parsed before it is stored.
AcceptedUnparsed(cron) == SchedulerEnabled

\* add_cron_job succeeds: the scheduler runs and CronTrigger takes the expression.
Accepted(cron) == SchedulerEnabled /\ cron \in GoodCrons

\* The row is written by h: only the instance of h hears of it.
Save(h, d) ==
    /\ def' = [def EXCEPT ![on[h]] = d]
    /\ saved' = [saved EXCEPT ![on[h]] = @ \union IF Due(d) THEN {d.cron} ELSE {}]

OthersMiss(h) ==
    coherent' = [i \in Instances |-> [coherent[i] EXCEPT ![on[h]] = @ /\ i = at[h]]]

\* A request arrives at an instance that serves: a create for a new id, an
\* update or a delete for an id the client knows.
Begin(h) ==
    /\ pc[h] = "idle"
    /\ state[at[h]] = "up"
    /\ \/ /\ row[on[h]] = "new"
          /\ \A g \in Requests : Active(g) => on[g] # on[h]
          /\ \E d \in Definitions : copy' = [copy EXCEPT ![h] = d]
          /\ Goto(h, "insert")
       \/ /\ row[on[h]] # "new"
          /\ \E first \in {"read", "find"} : Goto(h, first)
          /\ UNCHANGED copy
    /\ coherent' = [coherent EXCEPT ![at[h]][on[h]] =
                      @ /\ \A g \in Requests : ~(Active(g) /\ at[g] = at[h] /\ on[g] = on[h])]
    /\ UNCHANGED <<rowVars, instanceVars, at, on, saved, fires, faults>>

\* create_job: JobRepository.create commits the row ...
InsertRow(h) ==
    /\ pc[h] = "insert"
    /\ row' = [row EXCEPT ![on[h]] = "live"]
    /\ Save(h, copy[h])
    /\ OthersMiss(h)
    /\ Goto(h, "schedule")
    /\ UNCHANGED <<instanceVars, at, on, copy, fires, faults>>

\* ... and the job is scheduled if it is due.  add_cron_job may raise: the
\* request fails, the row stays.
ScheduleCreated(h) ==
    /\ pc[h] = "schedule"
    /\ schedule' = [schedule EXCEPT ![at[h]][on[h]] =
                      IF Due(copy[h]) /\ Accepted(copy[h].cron) THEN copy[h].cron ELSE @]
    /\ Goto(h, "done")
    /\ UNCHANGED <<rowVars, state, loaded, at, on, copy, historyVars, faults>>

\* PUT /jobs/{id} reads the job and merges into it the fields the request names.
ReadJob(h) ==
    /\ pc[h] = "read"
    /\ \/ /\ row[on[h]] = "live"
          /\ \E d \in Definitions : copy' = [copy EXCEPT ![h] = d]
          /\ Goto(h, "write")
       \/ /\ row[on[h]] # "live"
          /\ Goto(h, "done") /\ UNCHANGED copy
    /\ UNCHANGED <<rowVars, instanceVars, at, on, historyVars, faults>>

\* Mutant of WriteJob: an upsert.
UpsertJob(h) ==
    /\ pc[h] = "write"
    /\ row' = [row EXCEPT ![on[h]] = "live"]
    /\ Save(h, copy[h])
    /\ OthersMiss(h)
    /\ Goto(h, "reschedule")
    /\ UNCHANGED <<instanceVars, at, on, copy, fires, faults>>

\* update_job: every column is written, the ones the request does not name
\* with the values it read.  A row deleted meanwhile raises.
WriteJob(h) ==
    /\ pc[h] = "write"
    /\ \/ /\ row[on[h]] = "live"
          /\ Save(h, copy[h]) /\ OthersMiss(h) /\ Goto(h, "reschedule")
       \/ /\ row[on[h]] # "live"
          /\ Goto(h, "done") /\ UNCHANGED <<def, saved, coherent>>
    /\ UNCHANGED <<row, instanceVars, at, on, copy, fires, faults>>

\* Mutant of Reschedule: a job is unscheduled only when it is scheduled anew.
RescheduleDue(h) ==
    /\ pc[h] = "reschedule"
    /\ schedule' = [schedule EXCEPT ![at[h]][on[h]] =
                      IF Due(copy[h]) /\ Accepted(copy[h].cron) THEN copy[h].cron ELSE @]
    /\ Goto(h, "done")
    /\ UNCHANGED <<rowVars, state, loaded, at, on, copy, historyVars, faults>>

\* unschedule_job and schedule_job, with no await that suspends between them.
Reschedule(h) ==
    /\ pc[h] = "reschedule"
    /\ schedule' = [schedule EXCEPT ![at[h]][on[h]] =
                      IF Due(copy[h]) /\ Accepted(copy[h].cron) THEN copy[h].cron ELSE NoCron]
    /\ Goto(h, "done")
    /\ UNCHANGED <<rowVars, state, loaded, at, on, copy, historyVars, faults>>

\* delete_job reads the job ...
FindJob(h) ==
    /\ pc[h] = "find"
    /\ \/ /\ row[on[h]] = "live"
          /\ copy' = [copy EXCEPT ![h] = def[on[h]]] /\ Goto(h, "unschedule")
       \/ /\ row[on[h]] # "live"
          /\ Goto(h, "done") /\ UNCHANGED copy
    /\ UNCHANGED <<rowVars, instanceVars, at, on, historyVars, faults>>

\* ... unschedules it if the row it read has a schedule ...
UnscheduleJob(h) ==
    /\ pc[h] = "unschedule"
    /\ schedule' = [schedule EXCEPT ![at[h]][on[h]] = IF copy[h].cron # NoCron THEN NoCron ELSE @]
    /\ Goto(h, "remove")
    /\ UNCHANGED <<rowVars, state, loaded, at, on, copy, historyVars, faults>>

\* ... and deletes it with its runs.
RemoveRow(h) ==
    /\ pc[h] = "remove"
    /\ row' = [row EXCEPT ![on[h]] = "deleted"]
    /\ OthersMiss(h)
    /\ Goto(h, "done")
    /\ UNCHANGED <<def, instanceVars, at, on, copy, saved, fires, faults>>

\* Mutant of CallFails: a failed insert is swallowed and the job scheduled.
CallFailsUnseen(h) ==
    /\ pc[h] = "insert"
    /\ Fault
    /\ Goto(h, "schedule")
    /\ UNCHANGED <<rowVars, instanceVars, at, on, copy, historyVars>>

\* A database call raises and the request ends there.  The transaction was
\* rolled back, or it was committed and only its reply was lost.
CallFails(h) ==
    /\ pc[h] \in {"insert", "read", "write", "find", "remove"}
    /\ Fault
    /\ \/ UNCHANGED <<rowVars, saved>>
       \/ pc[h] = "insert" /\ row' = [row EXCEPT ![on[h]] = "live"] /\ Save(h, copy[h])
       \/ pc[h] = "write" /\ row[on[h]] = "live" /\ Save(h, copy[h]) /\ UNCHANGED row
       \/ pc[h] = "remove" /\ row' = [row EXCEPT ![on[h]] = "deleted"] /\ UNCHANGED <<def, saved>>
    /\ coherent' = [i \in Instances |-> [coherent[i] EXCEPT ![on[h]] =
                      @ /\ pc[h] \in {"read", "find"}]]
    /\ Goto(h, "done")
    /\ UNCHANGED <<instanceVars, at, on, copy, fires>>

-----------------------------------------------------------------------------
(* Instances.                                                                *)

\* Mutant of LoadRows: the rows are not filtered on enabled.
LoadAllRows(i) ==
    /\ state[i] \in {"down", "failed"}
    /\ loaded' = [loaded EXCEPT ![i] = [j \in Jobs |-> IF row[j] = "live" THEN def[j].cron ELSE NoCron]]
    /\ state' = [state EXCEPT ![i] = "loading"]
    /\ coherent' = [coherent EXCEPT ![i] = [j \in Jobs |-> TRUE]]
    /\ UNCHANGED <<rowVars, schedule, requestVars, saved, fires, faults>>

\* The process starts and reload_all_scheduled_jobs reads the enabled rows
\* that have a schedule.  An instance that failed to start is started again.
LoadRows(i) ==
    /\ state[i] \in {"down", "failed"}
    /\ loaded' = [loaded EXCEPT ![i] =
                    [j \in Jobs |-> IF row[j] = "live" /\ Due(def[j]) THEN def[j].cron ELSE NoCron]]
    /\ state' = [state EXCEPT ![i] = "loading"]
    /\ coherent' = [coherent EXCEPT ![i] = [j \in Jobs |-> TRUE]]
    /\ UNCHANGED <<rowVars, schedule, requestVars, saved, fires, faults>>

\* It schedules them all and serves, or add_cron_job raises for one of them:
\* the exception leaves the lifespan and the process exits.
ScheduleLoaded(i) ==
    /\ state[i] = "loading"
    /\ \/ /\ \A j \in Jobs : loaded[i][j] # NoCron => Accepted(loaded[i][j])
          /\ schedule' = [schedule EXCEPT ![i] = loaded[i]]
          /\ state' = [state EXCEPT ![i] = "up"]
       \/ /\ \E j \in Jobs : loaded[i][j] # NoCron /\ ~Accepted(loaded[i][j])
          /\ state' = [state EXCEPT ![i] = "failed"]
          /\ UNCHANGED schedule
    /\ loaded' = [loaded EXCEPT ![i] = NoEntries]
    /\ UNCHANGED <<rowVars, requestVars, historyVars, faults>>

\* The process dies or is replaced: its scheduler and its requests are gone.
Crash(i) ==
    /\ state[i] = "up"
    /\ Fault
    /\ state' = [state EXCEPT ![i] = "down"]
    /\ schedule' = [schedule EXCEPT ![i] = NoEntries]
    /\ pc' = [h \in Requests |-> IF at[h] = i /\ Active(h) THEN "done" ELSE pc[h]]
    /\ UNCHANGED <<rowVars, loaded, at, on, copy, historyVars>>

\* The trigger of an entry fires; what the call does is JobRunner's FireSchedule.
Fire(i, j) ==
    /\ schedule[i][j] # NoCron
    /\ fires[j] < MaxFires
    /\ fires' = [fires EXCEPT ![j] = @ + 1]
    /\ UNCHANGED <<rowVars, instanceVars, requestVars, coherent, saved, faults>>

-----------------------------------------------------------------------------
Step(h) ==
    \/ InsertRow(h) \/ ScheduleCreated(h)
    \/ ReadJob(h) \/ WriteJob(h) \/ Reschedule(h)
    \/ FindJob(h) \/ UnscheduleJob(h) \/ RemoveRow(h)

Next ==
    \/ \E h \in Requests : Begin(h) \/ Step(h) \/ CallFails(h)
    \/ \E i \in Instances : LoadRows(i) \/ ScheduleLoaded(i) \/ Crash(i)
    \/ \E i \in Instances, j \in Jobs : Fire(i, j)

Spec == Init /\ [][Next]_vars

\* The orchestrator starts what is not running; the event loop runs startup
\* and requests to their end.  No client, crash or cron tick is obliged to come.
FairSpec ==
    /\ Spec
    /\ \A i \in Instances : WF_vars(LoadRows(i)) /\ WF_vars(ScheduleLoaded(i))
    /\ \A h \in Requests : WF_vars(Step(h))

-----------------------------------------------------------------------------
\* The entry the scheduler of an instance should have for the job.
Entry(j) == IF row[j] = "live" /\ Due(def[j]) /\ Accepted(def[j].cron)
            THEN def[j].cron ELSE NoCron

\* The scheduler agrees with the database: an instance that serves has, for
\* every job no request of its own is changing, the entry the row calls for,
\* as long as the job was only changed through that instance, one request at a
\* time, and no write failed half-way (job_service.py:37-46, 80-94, 167-197).
ScheduleMatchesRow ==
    \A i \in Instances, j \in Jobs :
        /\ state[i] = "up" /\ coherent[i][j]
        /\ \A h \in Requests : ~(Active(h) /\ at[h] = i /\ on[h] = j)
        => schedule[i][j] = Entry(j)

\* Whatever overlaps or fails, no instance ever runs a job on a schedule that
\* was not saved, with the job enabled, at some time: the row is always
\* committed before the scheduler is told (job_service.py:39-43, 86-91).
ScheduledWasSaved ==
    \A i \in Instances, j \in Jobs : schedule[i][j] \in saved[j] \union {NoCron}

\* A deleted job stays deleted: an update that read it before does not bring
\* it back (repositories.py:199-216).
DeletedStaysDeleted ==
    [][\A j \in Jobs : row[j] = "deleted" => row'[j] = "deleted"]_vars

\* An instance comes up again and again, or rows it cannot schedule keep
\* coming back: nothing else stops a start (main.py:55-64).
Unloadable(j) == row[j] = "live" /\ Due(def[j]) /\ ~Accepted(def[j].cron)
StartCompletes ==
    \A i \in Instances : \/ []<>(state[i] = "up")
                         \/ []<>(\E j \in Jobs : Unloadable(j))

\* "Disabled jobs won't run on schedule" (ui/src/pages/jobs/JobDetail.tsx:580),
\* at least once no request on the job is under way.
DisabledJobsDontFire ==
    [][\A j \in Jobs : /\ fires'[j] > fires[j]
                       /\ \A h \in Requests : on[h] = j => ~Active(h)
                       => row[j] = "live" /\ def[j].enabled]_vars

-----------------------------------------------------------------------------
(* Why they hold: the inductive invariants SchedulerProofs uses.             *)

\* A row that is due was saved so, and what a request or a starting instance
\* is about to schedule was read from such a row.
SavedInv ==
    /\ ScheduledWasSaved
    /\ \A j \in Jobs : row[j] = "live" /\ Due(def[j]) => def[j].cron \in saved[j]
    /\ \A i \in Instances, j \in Jobs : loaded[i][j] \in saved[j] \union {NoCron}
    /\ \A h \in Requests : pc[h] \in {"schedule", "reschedule"} /\ Due(copy[h])
                               => copy[h].cron \in saved[on[h]]

\* Requests run only in instances that serve, and no one else knows the id of
\* a job whose row is not inserted yet.
RequestsInv ==
    \A h \in Requests :
        /\ Active(h) => state[at[h]] = "up"
        /\ pc[h] = "insert" => /\ row[on[h]] = "new"
                               /\ \A g \in Requests : Active(g) /\ on[g] = on[h] => g = h

\* What a lone request on a coherent job knows, step by step.
StageInv(h) ==
    /\ pc[h] \in {"insert", "read", "write", "find", "unschedule"}
          => schedule[at[h]][on[h]] = Entry(on[h])
    /\ pc[h] \in {"schedule", "reschedule", "unschedule", "remove"}
          => row[on[h]] = "live" /\ copy[h] = def[on[h]]
    /\ pc[h] \in {"schedule", "remove"} => schedule[at[h]][on[h]] = NoCron

CoherentAt(i, j) ==
    LET Here(h) == Active(h) /\ at[h] = i /\ on[h] = j IN
    /\ state[i] = "loading" =>
          loaded[i][j] = IF row[j] = "live" /\ Due(def[j]) THEN def[j].cron ELSE NoCron
    /\ \A g, h \in Requests : Here(g) /\ Here(h) => g = h
    /\ \A h \in Requests : Here(h) => StageInv(h)
    /\ state[i] = "up" /\ (\A h \in Requests : ~Here(h)) => schedule[i][j] = Entry(j)

CoherenceInv == \A i \in Instances, j \in Jobs : coherent[i][j] => CoherentAt(i, j)
=============================================================================
