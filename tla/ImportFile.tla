------------------------------ MODULE ImportFile ------------------------------
(***************************************************************************)
(* The body of an import: _stream_import_csv and the JSON branch of         *)
(* _execute_import_job (app/services/job_runner.py) over import_data         *)
(* (app/infrastructure/saas/base.py), the entity handlers and the session    *)
(* of SQLAlchemy they share.  Several executions run against one table of    *)
(* one client: other imports, or a second delivery of the same one.          *)
(*                                                                           *)
(* A batch is one call of import_data (1000 rows of a CSV file, all of a     *)
(* JSON file), a sub-batch is one transaction of it (100 rows).  A handler   *)
(* only adds its change to the session; the database hears of it when the    *)
(* session flushes, which is before the next query or at the commit.         *)
(***************************************************************************)
EXTENDS Integers, Sequences

CONSTANTS
    Executions,     \* executions of import jobs on one client's table
    Keys,           \* values of external_id, the match key
    Files,          \* the files that may be imported, see FileType
    Values,         \* what the other columns hold
    MaxRows,        \* bound: rows of a file
    BatchSize,      \* rows of a batch of parse_csv_streaming
    SubBatchSize,   \* IMPORT_BATCH_SIZE
    MaxFaults,      \* bound: crashes and lost connections in a behaviour
    NoKey, Absent, Untouched, Seeded

Modes   == {"create", "update", "upsert"}
Actions == Modes \union {"delete"}

\* action: the _action of the row, "none" when the row has no such column.
\* kind: "incomplete" lacks a required field, "refused" is a change the database
\* rejects, "unreadable" a key it cannot look up, "unresolvable" a reference the
\* handler fails to parse.
RowType  == [action : Actions \union {"bad", "blank", "none"}, key : Keys \union {NoKey},
             kind : {"good", "incomplete", "refused", "unreadable", "unresolvable"},
             value : Values]
FileType == [csv : BOOLEAN, mode : Modes, rows : Seq(RowType)]

ASSUME Assumption ==
    /\ Files \subseteq FileType
    /\ \A f \in Files : Len(f.rows) <= MaxRows
    /\ MaxRows \in Nat /\ MaxFaults \in Nat
    /\ BatchSize \in Nat \ {0} /\ SubBatchSize \in Nat \ {0}
    /\ NoKey \notin Keys
    /\ Seeded \notin Executions \X (1..MaxRows)

\* A row of the table: which insert made it (its id), and its columns.
RowIds   == (Executions \X (1..MaxRows)) \union {Seeded}
Versions == [id : RowIds, value : Values]
ASSUME Markers == Absent \notin Versions /\ Untouched \notin Versions \union {Absent}

VARIABLES
    file,      \* the file of each execution
    table,     \* the committed rows with an external id
    status,    \* of the execution; "crashed" leaves the run as it is
    at,        \* the next row
    from,      \* the first row of the batch
    closed,    \* the rows up to here belong to finished transactions
    session,   \* "aborted": the database has given up on the transaction
    pending,   \* changes added to the session and not flushed
    flushed,   \* rows flushed in the open transaction
    overlay,   \* what the open transaction has done to each key; its locks
    outcome,   \* the counter each row is counted in
    applied,   \* history: rows whose change was committed
    before,    \* history: executions that had ended when this one started
    faults

sessionVars == <<session, pending, flushed, overlay>>
vars == <<file, table, status, at, from, closed, sessionVars, outcome, applied, before, faults>>

Outcomes == {"none", "imported", "updated", "deleted", "skipped", "failed"}
Done     == {"imported", "updated", "deleted"}
Changes  == [row : 1..MaxRows, op : {"insert", "update", "delete"}, key : Keys \union {NoKey},
             id : RowIds, writes : BOOLEAN]

TypeOK ==
    /\ file \in [Executions -> Files]
    /\ table \in [Keys -> Versions \union {Absent}]
    /\ status \in [Executions -> {"waiting", "running", "SUCCEEDED", "FAILED", "crashed"}]
    /\ at \in [Executions -> 1..(MaxRows + 1)]
    /\ from \in [Executions -> 1..(MaxRows + 1)]
    /\ closed \in [Executions -> 0..MaxRows]
    /\ session \in [Executions -> {"open", "aborted"}]
    /\ pending \in [Executions -> SUBSET Changes]
    /\ flushed \in [Executions -> SUBSET (1..MaxRows)]
    /\ overlay \in [Executions -> [Keys -> Versions \union {Absent, Untouched}]]
    /\ outcome \in [Executions -> [1..MaxRows -> Outcomes]]
    /\ applied \in [Executions -> SUBSET (1..MaxRows)]
    /\ before \in [Executions -> SUBSET Executions]
    /\ faults \in 0..MaxFaults

NoChange == [k \in Keys |-> Untouched]

Init ==
    /\ file \in [Executions -> Files]
    /\ table \in [Keys -> {Absent} \union {[id |-> Seeded, value |-> v] : v \in Values}]
    /\ status = [e \in Executions |-> "waiting"]
    /\ at = [e \in Executions |-> 1]
    /\ from = [e \in Executions |-> 1]
    /\ closed = [e \in Executions |-> 0]
    /\ session = [e \in Executions |-> "open"]
    /\ pending = [e \in Executions |-> {}]
    /\ flushed = [e \in Executions |-> {}]
    /\ overlay = [e \in Executions |-> NoChange]
    /\ outcome = [e \in Executions |-> [i \in 1..MaxRows |-> "none"]]
    /\ applied = [e \in Executions |-> {}]
    /\ before = [e \in Executions |-> {}]
    /\ faults = 0

Fault == faults < MaxFaults /\ faults' = faults + 1

-----------------------------------------------------------------------------
Size(e)   == Len(file[e].rows)
Row(e, i) == file[e].rows[i]
Rows(e)   == 1..Size(e)

EndsBatch(e, i)    == i = Size(e) \/ (file[e].csv /\ i % BatchSize = 0)
EndsSubBatch(e, i) == EndsBatch(e, i) \/ i % SubBatchSize = 0

SubBatchOver(e) == closed[e] < at[e] - 1 /\ EndsSubBatch(e, at[e] - 1)

\* What row i asks for: its own action if the first row of the batch has one.
ActionOf(e, i) == IF Row(e, from[e]).action = "none" THEN file[e].mode ELSE Row(e, i).action

\* Refused before the database is asked.
Rejected(e, i) ==
    \/ ActionOf(e, i) \notin Actions
    \/ ActionOf(e, i) \in {"update", "delete"} /\ Row(e, i).key = NoKey
    \/ ActionOf(e, i) # "delete" /\ Row(e, i).kind = "incomplete"

InRow(e) == status[e] = "running" /\ at[e] <= Size(e) /\ ~SubBatchOver(e)

LooksUp(e) == InRow(e) /\ ~Rejected(e, at[e]) /\ Row(e, at[e]).key # NoKey

\* A query of the session, and its commit, flush what is pending first.
MustFlush(e) == /\ status[e] = "running" /\ pending[e] # {}
                /\ LooksUp(e) \/ SubBatchOver(e)

\* What the transaction of e reads (READ COMMITTED).
View(e, k) == IF overlay[e][k] = Untouched THEN table[k] ELSE overlay[e][k]

Present(e, k) == View(e, k) # Absent

Waits(x, y) == /\ x # y /\ MustFlush(x)
               /\ \E c \in pending[x] : c.key # NoKey /\ overlay[y][c.key] # Untouched

\* The database breaks a cycle of waiting transactions at one of them.
Deadlocked(e) ==
    \E S \in SUBSET Executions :
        e \in S /\ \A x \in S : (\E y \in S : Waits(x, y)) /\ (\E y \in S : Waits(y, x))

-----------------------------------------------------------------------------
\* Phase 1, CSV only: what validate_csv_content_streaming counts as invalid.  An
\* empty _action passes here and is refused by import_data.
Invalid(f, i) ==
    LET r == f.rows[i] IN
    \/ r.action = "bad"
    \/ r.action = "delete" /\ r.key = NoKey
    \/ r.action # "delete" /\ r.kind = "incomplete"

Valid(f) == f.rows # <<>> /\ \A i \in DOMAIN f.rows : ~Invalid(f, i)

Ended(e) == status[e] \in {"SUCCEEDED", "FAILED", "crashed"}

\* The execution starts; a CSV file with an invalid row fails before any import.
Start(e) ==
    /\ status[e] = "waiting"
    /\ status' = [status EXCEPT ![e] = IF file[e].csv /\ ~Valid(file[e]) THEN "FAILED" ELSE "running"]
    /\ before' = [before EXCEPT ![e] = {x \in Executions : Ended(x)}]
    /\ UNCHANGED <<file, table, at, from, closed, sessionVars, outcome, applied, faults>>

\* The row is counted and the loop goes on.
Count(e, o) ==
    /\ outcome' = [outcome EXCEPT ![e][at[e]] = o]
    /\ at' = [at EXCEPT ![e] = @ + 1]

Add(e, op, id, writes) ==
    pending' = [pending EXCEPT ![e] = @ \union
        {[row |-> at[e], op |-> op, key |-> Row(e, at[e]).key, id |-> id, writes |-> writes]}]

rowUnchanged == <<file, table, status, from, closed, flushed, overlay, applied, before, faults>>

\* Unknown action, missing field or missing key.
RejectRow(e) ==
    /\ InRow(e) /\ Rejected(e, at[e])
    /\ Count(e, "failed")
    /\ UNCHANGED <<rowUnchanged, session, pending>>

\* A row without a key is not looked up: it is a new row every time.
AddKeyless(e) ==
    /\ InRow(e) /\ ~Rejected(e, at[e]) /\ Row(e, at[e]).key = NoKey
    /\ IF Row(e, at[e]).kind = "unresolvable"
       THEN Count(e, "failed") /\ UNCHANGED pending
       ELSE Count(e, "imported") /\ Add(e, "insert", <<e, at[e]>>, TRUE)
    /\ UNCHANGED <<rowUnchanged, session>>

\* The lookup raises, and so does every later one of an aborted transaction.
\* The exception is caught in the loop.  Postgres has dropped what the
\* transaction did before.
LookupFails(e) ==
    /\ LooksUp(e) /\ pending[e] = {}
    /\ session[e] = "aborted" \/ Row(e, at[e]).kind = "unreadable"
    /\ session' = [session EXCEPT ![e] = "aborted"]
    /\ overlay' = [overlay EXCEPT ![e] = NoChange]
    /\ flushed' = [flushed EXCEPT ![e] = {}]
    /\ Count(e, "failed")
    /\ UNCHANGED <<file, table, status, from, closed, pending, applied, before, faults>>

\* The first query of a transaction gets no connection from the pool: the row
\* fails alone, the next one tries again.
CannotConnect(e) ==
    /\ LooksUp(e) /\ pending[e] = {}
    /\ \A i \in (closed[e] + 1)..(at[e] - 1) : outcome[e][i] = "failed"
    /\ Fault
    /\ Count(e, "failed")
    /\ UNCHANGED <<file, table, status, from, closed, sessionVars, applied, before>>

\* Mutant of ApplyRow: an upsert leaves an existing row alone.
ApplyRowOnce(e) ==
    LET i == at[e]  k == Row(e, i).key  a == ActionOf(e, i) IN
    /\ LooksUp(e) /\ pending[e] = {}
    /\ session[e] = "open" /\ Row(e, i).kind # "unreadable"
    /\ IF Present(e, k)
       THEN \/ a = "create" /\ Count(e, "failed") /\ UNCHANGED pending
            \/ a = "delete" /\ Count(e, "deleted") /\ Add(e, "delete", View(e, k).id, TRUE)
            \/ a \in {"update", "upsert"} /\ Count(e, "skipped") /\ UNCHANGED pending
       ELSE \/ a \in {"update", "delete"} /\ Count(e, "skipped") /\ UNCHANGED pending
            \/ a \in {"create", "upsert"} /\ Count(e, "imported") /\ Add(e, "insert", <<e, i>>, TRUE)
    /\ UNCHANGED <<rowUnchanged, session>>

\* The lookup answers and the handler adds its change to the session.  An update
\* sets the columns one by one: a reference it cannot parse leaves the ones
\* before it set.  Columns that already hold the value are not written.
ApplyRow(e) ==
    LET i == at[e]  k == Row(e, i).key  a == ActionOf(e, i)  v == Row(e, i).value
        failed == Row(e, i).kind = "unresolvable" IN
    /\ LooksUp(e) /\ pending[e] = {}
    /\ session[e] = "open" /\ Row(e, i).kind # "unreadable"
    /\ IF Present(e, k)
       THEN \/ a = "create" /\ Count(e, "failed") /\ UNCHANGED pending
            \/ a = "delete" /\ Count(e, "deleted") /\ Add(e, "delete", View(e, k).id, TRUE)
            \/ /\ a \in {"update", "upsert"} /\ ~failed
               /\ Count(e, "updated") /\ Add(e, "update", View(e, k).id, View(e, k).value # v)
            \/ /\ a \in {"update", "upsert"} /\ failed
               /\ Count(e, "failed")
               /\ IF View(e, k).value = v THEN UNCHANGED pending
                  ELSE Add(e, "update", View(e, k).id, TRUE)
       ELSE \/ a \in {"update", "delete"} /\ Count(e, "skipped") /\ UNCHANGED pending
            \/ a \in {"create", "upsert"} /\ failed /\ Count(e, "failed") /\ UNCHANGED pending
            \/ /\ a \in {"create", "upsert"} /\ ~failed
               /\ Count(e, "imported") /\ Add(e, "insert", <<e, i>>, TRUE)
    /\ UNCHANGED <<rowUnchanged, session>>

\* Mutant of Accepts: the table has no unique constraint.
AcceptsAnyInsert(e, c) ==
    /\ Row(e, c.row).kind # "refused"
    /\ c.op = "update" => Present(e, c.key) /\ View(e, c.key).id = c.id

\* The database takes the change: the key of an insert is free, the row of an
\* update is still there.  A delete of a missing row is only warned of.
Accepts(e, c) ==
    /\ Row(e, c.row).kind # "refused"
    /\ c.op = "insert" /\ c.key # NoKey => ~Present(e, c.key)
    /\ c.op = "update" => Present(e, c.key) /\ View(e, c.key).id = c.id

\* What the change makes of its key.
Effect(e, c) ==
    CASE c.op = "insert" -> [id |-> c.id, value |-> Row(e, c.row).value]
      [] c.op = "update" -> [id |-> c.id, value |-> IF c.writes THEN Row(e, c.row).value
                                                    ELSE View(e, c.key).value]
      [] OTHER -> IF Present(e, c.key) /\ View(e, c.key).id = c.id THEN Absent ELSE overlay[e][c.key]

\* The session flushes, once no other transaction holds a key it changes.
Flush(e) ==
    /\ MustFlush(e) /\ session[e] = "open"
    /\ \A x \in Executions : ~Waits(e, x)
    /\ \A c \in pending[e] : Accepts(e, c)
    /\ overlay' = [overlay EXCEPT ![e] =
         [k \in Keys |-> IF \E c \in pending[e] : c.key = k
                         THEN Effect(e, CHOOSE c \in pending[e] : c.key = k) ELSE @[k]]]
    /\ flushed' = [flushed EXCEPT ![e] = @ \union {c.row : c \in pending[e]}]
    /\ pending' = [pending EXCEPT ![e] = {}]
    /\ UNCHANGED <<file, table, status, at, from, closed, session, outcome, applied, before, faults>>

\* Mutant of RollBack: the transaction is left open.
RollBackNothing(e) ==
    /\ session' = [session EXCEPT ![e] = "open"]
    /\ pending' = [pending EXCEPT ![e] = {}]
    /\ flushed' = [flushed EXCEPT ![e] = {}]
    /\ UNCHANGED overlay

\* transaction() rolls back.
RollBack(e) ==
    /\ session' = [session EXCEPT ![e] = "open"]
    /\ pending' = [pending EXCEPT ![e] = {}]
    /\ flushed' = [flushed EXCEPT ![e] = {}]
    /\ overlay' = [overlay EXCEPT ![e] = NoChange]

\* Mutant of BatchRaises: the batch is skipped and not counted.
BatchRaisesUncounted(e) ==
    \E j \in Rows(e) :
        /\ j >= from[e] /\ EndsBatch(e, j) /\ \A i \in from[e]..(j - 1) : ~EndsBatch(e, i)
        /\ at' = [at EXCEPT ![e] = j + 1]
        /\ from' = [from EXCEPT ![e] = j + 1]
        /\ closed' = [closed EXCEPT ![e] = j]
        /\ UNCHANGED outcome

\* Mutant of BatchRaises: the next batch is found by its size, past the end of
\* the file.
BatchRaisesBySize(e) ==
    LET j == from[e] + BatchSize - 1 IN
        /\ at' = [at EXCEPT ![e] = j + 1]
        /\ from' = [from EXCEPT ![e] = j + 1]
        /\ closed' = [closed EXCEPT ![e] = j]
        /\ outcome' = [outcome EXCEPT ![e] =
             [i \in 1..MaxRows |-> IF i \in from[e]..j THEN "failed" ELSE @[i]]]

\* import_data raises out of its loop.  The batch is counted as failed, row by
\* row, whatever its earlier sub-batches committed.  (A JSON file is one batch;
\* its run fails with the exception and no counters.)
BatchRaises(e) ==
    \E j \in Rows(e) :
        /\ j >= from[e] /\ EndsBatch(e, j) /\ \A i \in from[e]..(j - 1) : ~EndsBatch(e, i)
        /\ at' = [at EXCEPT ![e] = j + 1]
        /\ from' = [from EXCEPT ![e] = j + 1]
        /\ closed' = [closed EXCEPT ![e] = j]
        /\ outcome' = [outcome EXCEPT ![e] =
             [i \in 1..MaxRows |-> IF i \in from[e]..j THEN "failed" ELSE @[i]]]

\* A statement of the flush fails.  The session can then do nothing but roll
\* back: the remaining rows of the sub-batch fail, and so does the commit.
FlushFails(e) ==
    /\ MustFlush(e)
    /\ \/ session[e] = "aborted"
       \/ \E c \in pending[e] : Row(e, c.row).kind = "refused"
       \/ (\A x \in Executions : ~Waits(e, x)) /\ \E c \in pending[e] : ~Accepts(e, c)
       \/ Deadlocked(e)
    /\ RollBack(e) /\ BatchRaises(e)
    /\ UNCHANGED <<file, table, status, applied, before, faults>>

\* Mutant of Commit: the session is closed before it is flushed.
CommitUnflushed(e) ==
    /\ status[e] = "running" /\ SubBatchOver(e)
    /\ table' = [k \in Keys |-> View(e, k)]
    /\ applied' = [applied EXCEPT ![e] = @ \union flushed[e]]
    /\ closed' = [closed EXCEPT ![e] = at[e] - 1]
    /\ from' = [from EXCEPT ![e] = IF EndsBatch(e, at[e] - 1) THEN at[e] ELSE @]
    /\ RollBack(e)
    /\ UNCHANGED <<file, status, at, outcome, before, faults>>

\* The end of a sub-batch.  The commit of an aborted transaction does not raise:
\* the database rolls back, and the counters stay.
Commit(e) ==
    /\ status[e] = "running" /\ SubBatchOver(e) /\ pending[e] = {}
    /\ table' = [k \in Keys |-> View(e, k)]
    /\ applied' = [applied EXCEPT ![e] = @ \union flushed[e]]
    /\ closed' = [closed EXCEPT ![e] = at[e] - 1]
    /\ from' = [from EXCEPT ![e] = IF EndsBatch(e, at[e] - 1) THEN at[e] ELSE @]
    /\ RollBack(e)
    /\ UNCHANGED <<file, status, at, outcome, before, faults>>

\* The connection is lost in a transaction, or during its commit after the
\* database has committed.
ConnectionLost(e) ==
    /\ status[e] = "running" /\ closed[e] < Size(e)
    /\ Fault
    /\ \/ UNCHANGED <<table, applied>>
       \/ /\ SubBatchOver(e) /\ pending[e] = {}
          /\ table' = [k \in Keys |-> View(e, k)]
          /\ applied' = [applied EXCEPT ![e] = @ \union flushed[e]]
    /\ RollBack(e) /\ BatchRaises(e)
    /\ UNCHANGED <<file, status, before>>

\* All batches are done: the run succeeds if no row was counted as failed.
Finish(e) ==
    /\ status[e] = "running" /\ at[e] > Size(e) /\ closed[e] = Size(e)
    /\ status' = [status EXCEPT ![e] =
         IF \E i \in Rows(e) : outcome[e][i] = "failed" THEN "FAILED" ELSE "SUCCEEDED"]
    /\ UNCHANGED <<file, table, at, from, closed, sessionVars, outcome, applied, before, faults>>

\* The process dies; the database rolls the open transaction back.
Crash(e) ==
    /\ status[e] = "running"
    /\ Fault
    /\ status' = [status EXCEPT ![e] = "crashed"]
    /\ RollBack(e)
    /\ UNCHANGED <<file, table, at, from, closed, outcome, applied, before>>

Step(e) ==
    \/ RejectRow(e) \/ AddKeyless(e) \/ LookupFails(e) \/ ApplyRow(e)
    \/ Flush(e) \/ FlushFails(e) \/ Commit(e) \/ Finish(e)

Next == \E e \in Executions : Start(e) \/ Step(e) \/ CannotConnect(e) \/ ConnectionLost(e) \/ Crash(e)

Spec == Init /\ [][Next]_vars

\* The event loop and the database run every statement that is not waiting.
FairSpec == Spec /\ \A e \in Executions : WF_vars(Step(e))

-----------------------------------------------------------------------------
SameSubBatch(e, i, j) == \A m \in (i..(j - 1)) \union (j..(i - 1)) : ~EndsSubBatch(e, m)

Explained(e) ==
    \A i \in 1..closed[e] :
        outcome[e][i] \in Done /\ i \notin applied[e] =>
            \E j \in 1..closed[e] : /\ outcome[e][j] = "failed"
                                    /\ Row(e, j).kind = "unreadable"
                                    /\ SameSubBatch(e, i, j)

\* Rows of finished transactions that are counted as done and whose change is
\* nowhere: only a row of the same sub-batch that could not be looked up, and
\* was counted as failed itself, loses them (base.py:289-463).
CountedIsCommitted == \A e \in Executions : Explained(e)

\* A successful import is entirely in the table: whatever overlaps, waits, fails
\* or loses its connection, every row was skipped for want of a match or its
\* change was committed (job_runner.py:579-666, base.py:257-484).
SucceededIsCommitted ==
    \A e \in Executions : status[e] = "SUCCEEDED" =>
        \A i \in Rows(e) : outcome[e][i] = "skipped" \/ i \in applied[e]

\* No import replaces a row it has not seen: the insert of one import over the
\* insert of another fails, it does not win (base.py:410-432, models.py:89).
InsertNeverOverwrites ==
    [][\A k \in Keys : table[k] # Absent /\ table'[k] # Absent /\ table'[k].id # table[k].id =>
         \E e \in Executions : \E j \in applied'[e] \ applied[e] :
            Row(e, j).key = k /\ outcome[e][j] = "deleted"]_vars

\* Deliveries of one file of upserts and deletes: when one execution succeeds and
\* every other one succeeds too, or ended before it started, the table is as if
\* the file had been imported once.
Repeatable(f) == \A i \in DOMAIN f.rows : /\ f.rows[i].key # NoKey /\ f.rows[i].kind = "good"
                                          /\ f.rows[i].action \in {"upsert", "delete"}

LastOf(f, k) == {i \in DOMAIN f.rows : f.rows[i].key = k /\ \A j \in DOMAIN f.rows :
                                                       f.rows[j].key = k => j <= i}

RedeliveryConverges ==
    \A e \in Executions :
        /\ status[e] = "SUCCEEDED" /\ Repeatable(file[e])
        /\ \A x \in Executions : /\ file[x] = file[e]
                                 /\ status[x] \in {"waiting", "SUCCEEDED"} \/ x \in before[e]
        => \A k \in Keys : \A i \in LastOf(file[e], k) :
              IF Row(e, i).action = "delete" THEN table[k] = Absent
              ELSE table[k] # Absent /\ table[k].value = Row(e, i).value

\* Imports do not wait for each other for ever.
ImportsEnd == \A e \in Executions : status[e] = "running" ~> Ended(e)

\* "Import statistics (created, updated, failed)"
\* (docs/IMPORT_PRODUCTION_FLOW.md:209): what a run counts as created or updated
\* was created or updated.
StatisticsAreTrue ==
    \A e \in Executions : status[e] \in {"SUCCEEDED", "FAILED"} =>
        \A i \in Rows(e) : outcome[e][i] \in Done => i \in applied[e]

-----------------------------------------------------------------------------
(* Why the safety properties hold: the invariants ImportFileProofs uses.     *)

\* The batch, the sub-batch and the row the loops of e are at.
Placed(e) ==
    /\ 1 <= from[e] /\ from[e] <= closed[e] + 1
    /\ closed[e] < at[e] /\ at[e] <= Size(e) + 1
    /\ \A m \in from[e]..closed[e] : ~EndsBatch(e, m)
    /\ \A m \in (closed[e] + 1)..(at[e] - 2) : ~EndsSubBatch(e, m)
    /\ \A i \in 1..(at[e] - 1) : outcome[e][i] # "none"
    /\ status[e] = "waiting" => at[e] = 1
    /\ status[e] = "SUCCEEDED" => /\ closed[e] = Size(e)
                                  /\ \A i \in Rows(e) : outcome[e][i] # "failed"

\* What the open transaction holds belongs to the rows of its sub-batch, and a
\* row counted as done is in it unless the database has given up.
InOrder(e) ==
    /\ applied[e] \subseteq 1..closed[e]
    /\ flushed[e] \subseteq (closed[e] + 1)..(at[e] - 1)
    /\ \A c \in pending[e] : /\ c.row \in (closed[e] + 1)..(at[e] - 1)
                             /\ c.key = Row(e, c.row).key
                             /\ c.op = "delete" => outcome[e][c.row] = "deleted"
    /\ status[e] = "running" /\ session[e] = "open" =>
         \A i \in (closed[e] + 1)..(at[e] - 1) :
            outcome[e][i] \in Done => i \in flushed[e] \/ \E c \in pending[e] : c.row = i
    /\ session[e] = "aborted" =>
         \E j \in (closed[e] + 1)..(at[e] - 1) :
            outcome[e][j] = "failed" /\ Row(e, j).kind = "unreadable"

Position == \A e \in Executions : Placed(e)
OpenTransaction == \A e \in Executions : InOrder(e)

CountInv == Position /\ OpenTransaction /\ CountedIsCommitted

\* Two transactions do not hold one key.
Exclusive == \A x, y \in Executions, k \in Keys :
                x # y => overlay[x][k] = Untouched \/ overlay[y][k] = Untouched

\* A transaction that has a row of its own, or none, where the table has another
\* has deleted that one.
Traced(e) == \A k \in Keys :
    /\ overlay[e][k] # Untouched /\ table[k] # Absent
    /\ overlay[e][k] = Absent \/ overlay[e][k].id # table[k].id
    => \E j \in flushed[e] : Row(e, j).key = k /\ outcome[e][j] = "deleted"

LockInv == Exclusive /\ \A e \in Executions : Traced(e)
=============================================================================
