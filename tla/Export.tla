-------------------------------- MODULE Export --------------------------------
(***************************************************************************)
(* The execution of an export: a preview (app/api/exports.py), the executions *)
(* of the run by workers (job_runner._execute_export_job), the file they      *)
(* write (file_generator.py) from pages of the rows (saas/base.py), its        *)
(* upload, the result of the run, and what the download handlers answer.       *)
(* Imports change the rows between any two steps.  ExportQuery says what a     *)
(* query answers.                                                             *)
(***************************************************************************)
EXTENDS ExportQuery

CONSTANTS
    Executions,  \* executions of the one run: a redelivery may overlap the first
    Instances,   \* of the service: each has workers, an API and a disk
    Scenarios,   \* [config, table, starts, changes, faults]: an export, the rows
                 \* it begins with, and the bounds of the behaviour
    NewRows,     \* rows imported meanwhile, by id
    PageSize     \* EXPORT_BATCH_SIZE

\* The result of the run, and the object at its remote path.
Results == [where : {"remote", "local"}, exec : Executions, count : Nat]
Objects == [exec : Executions, rows : Seq(Int)]

\* A row of the table, under its id.
IsRow(row, id) ==
    /\ row \in [id : Int, amount : Int \union {Null}, name : Int \union {Null},
               address : Int \union {Null}, vendor : Vendors \union {Null}]
    /\ row.id = id

ASSUME ExportAssumption ==
    /\ PageSize \in Nat \ {0}
    /\ Null \notin Results \union Objects \union Instances
    /\ IsFiniteSet(Vendors) /\ DOMAIN NewRows \subseteq Int
    /\ \A s \in Scenarios :
         /\ s.config.filters \in Groups \union {Null}
         /\ s.config.offset \in Nat /\ s.config.limit \in Nat \union {Null}
         /\ s.config.sort \in Seq([field : Fields, dir : {"asc", "desc"}])
         /\ DOMAIN s.table \subseteq Int /\ IsFiniteSet(DOMAIN s.table)
         /\ \A id \in DOMAIN s.table : IsRow(s.table[id], id)
    /\ \A id \in DOMAIN NewRows : IsRow(NewRows[id], id)

VARIABLES
    config,      \* the export: [format, allowed, filters, sort, limit, offset, storage]
    table,       \* the rows of the entity, by id
    preview,     \* the records a preview of the present rows showed, or Null
    status,      \* job_runs.status
    result,      \* job_runs.result_metadata: [where, exec, count], or Null
    pc, host,    \* the next step of an execution, and the instance it is on
    out,         \* the ids of the records in its file
    total,       \* what it counted before it read
    local,       \* the executions whose file is in export_local_path of their host
    remote,      \* the object at the run's remote path: [exec, rows], or Null
    since,       \* history: the changes of the rows until the export is stored
    gone,        \* history: the executions whose host stopped after they began
    overlapped,  \* history: an execution began while another was at work
    left         \* what is left of the bounds

fileVars == <<status, result, local, remote>>
hostVars == <<host, gone, overlapped>>
vars == <<config, table, preview, fileVars, pc, hostVars, out, total, since, left>>

Answered == Answer(table, config.filters)
Least(m, n) == IF m < n THEN m ELSE n
Slice(s, from, n) == SubSeq(s, from + 1, Least(from + n, Len(s)))

TypeOK ==
    /\ config \in {s.config : s \in Scenarios}
    /\ DOMAIN table \subseteq Int /\ IsFiniteSet(DOMAIN table)
    /\ \A id \in DOMAIN table : IsRow(table[id], id)
    /\ status \in {"PENDING", "RUNNING", "SUCCEEDED", "FAILED"}
    /\ result \in Results \union {Null}
    /\ pc \in [Executions -> {"idle", "paging", "written", "stored", "failed", "done",
                               "uploading", "crashed"}]
    /\ host \in [Executions -> Instances \union {Null}]
    /\ gone \subseteq Executions /\ overlapped \in BOOLEAN
    /\ out \in [Executions -> Seq(Int)]
    /\ \A e \in Executions : config.limit # Null => Len(out[e]) <= config.limit
    /\ total \in [Executions -> Nat]
    /\ local \subseteq Executions
    /\ remote \in Objects \union {Null}
    /\ since \in [Executions -> SUBSET ({"insert", "update", "delete"} \X Int)]

Init ==
    /\ \E s \in Scenarios : /\ config = s.config /\ table = s.table
                            /\ left = [starts |-> s.starts, changes |-> s.changes, faults |-> s.faults]
    /\ preview = Null
    /\ status = "PENDING" /\ result = Null
    /\ pc = [e \in Executions |-> "idle"]
    /\ host = [e \in Executions |-> Null]
    /\ gone = {} /\ overlapped = FALSE
    /\ out = [e \in Executions |-> <<>>]
    /\ total = [e \in Executions |-> 0]
    /\ local = {} /\ remote = Null
    /\ since = [e \in Executions |-> {}]

Goto(e, step) == pc' = [pc EXCEPT ![e] = step]
Fault == left.faults > 0 /\ left' = [left EXCEPT !.faults = @ - 1]

-----------------------------------------------------------------------------
\* preview_export, before the export is created.
Preview ==
    /\ config.allowed
    /\ preview = Null /\ \A e \in Executions : pc[e] = "idle"
    /\ preview' \in MemoryArrangements(table, Selected(table, config.filters), config.sort)
    /\ UNCHANGED <<config, table, fileVars, pc, hostVars, out, total, since, left>>

\* validate_field_path allows the fields, and the filter can be translated.
Accepted == /\ config.allowed
            /\ ~(config.format = "csv" /\ config.filters # Null /\ Raises[config.filters])

AtWork(e) == pc[e] \notin {"idle", "done", "crashed"}

\* A worker of some instance executes the run: _execute_job_run marks it, whatever
\* its status.
Begin(e) ==
    /\ pc[e] = "idle" /\ left.starts > 0
    /\ left' = [left EXCEPT !.starts = @ - 1]
    /\ status' = "RUNNING"
    /\ \E i \in Instances : host' = [host EXCEPT ![e] = i]
    /\ overlapped' = (overlapped \/ \E d \in Executions : AtWork(d))
    /\ UNCHANGED gone

\* The query is checked, the filter translated, the rows counted and the file of a
\* CSV export opened.
StartCsv(e) ==
    /\ config.format = "csv" /\ Accepted
    /\ Begin(e)
    /\ total' = [total EXCEPT ![e] = Cardinality(Answered)]
    /\ local' = local \union {e}
    /\ Goto(e, "paging")
    /\ UNCHANGED <<config, table, preview, result, remote, out, since>>

\* A JSON export reads all rows in one transaction and writes its file at once.
\* The count is of the rows before offset and limit.
StartJson(e) ==
    /\ config.format = "json" /\ Accepted
    /\ Begin(e)
    /\ \E s \in MemoryArrangements(table, Selected(table, config.filters), config.sort) :
        /\ total' = [total EXCEPT ![e] = Len(s)]
        /\ out' = [out EXCEPT ![e] =
                      Slice(s, config.offset, IF config.limit = Null THEN Len(s) ELSE config.limit)]
    /\ local' = local \union {e}
    /\ Goto(e, "written")
    /\ UNCHANGED <<config, table, preview, result, remote, since>>

StartRefused(e) ==
    /\ ~Accepted
    /\ Begin(e)
    /\ Goto(e, "failed")
    /\ UNCHANGED <<config, table, preview, result, local, remote, out, total, since>>

-----------------------------------------------------------------------------
(* fetch_data_streaming: each page is a query of its own, at an offset.       *)

\* Mutant of ReadPage: a page is always of the full size.
ReadPageUnlimited(e, s) ==
    LET size == PageSize
        page == Slice(s, config.offset + Len(out[e]), size)
    IN  /\ out' = [out EXCEPT ![e] = @ \o [i \in DOMAIN page |-> page[i][1]]]
        /\ Goto(e, IF \/ Len(page) < size
                      \/ config.limit # Null /\ Len(out[e]) + Len(page) >= config.limit
                   THEN "written" ELSE "paging")

\* Mutant of ReadPage: the offset of the request is added to the first page only.
ReadPageFromStart(e, s) ==
    LET size == IF config.limit = Null THEN PageSize
                ELSE Least(PageSize, config.limit - Len(out[e]))
        page == Slice(s, IF out[e] = <<>> THEN config.offset ELSE Len(out[e]), size)
    IN  /\ out' = [out EXCEPT ![e] = @ \o [i \in DOMAIN page |-> page[i][1]]]
        /\ Goto(e, IF \/ Len(page) < size
                      \/ config.limit # Null /\ Len(out[e]) + Len(page) >= config.limit
                   THEN "written" ELSE "paging")

\* The page of the arrangement s, which the file gets.
ReadPage(e, s) ==
    LET size == IF config.limit = Null THEN PageSize
                ELSE Least(PageSize, config.limit - Len(out[e]))
        page == Slice(s, config.offset + Len(out[e]), size)
    IN  /\ out' = [out EXCEPT ![e] = @ \o [i \in DOMAIN page |-> page[i][1]]]
        /\ Goto(e, IF \/ Len(page) < size
                      \/ config.limit # Null /\ Len(out[e]) + Len(page) >= config.limit
                   THEN "written" ELSE "paging")

\* Mutant of Page: the order of the request is only in the count query.
PageUnordered(e) ==
    /\ pc[e] = "paging" /\ ~SortRaises(config.filters, config.sort)
    /\ \E s \in SqlArrangements(table, Answered, <<>>) : ReadPage(e, s)
    /\ UNCHANGED <<config, table, preview, fileVars, hostVars, total, since, left>>

Page(e) ==
    /\ pc[e] = "paging" /\ ~SortRaises(config.filters, config.sort)
    /\ \E s \in SqlArrangements(table, Answered, config.sort) : ReadPage(e, s)
    /\ UNCHANGED <<config, table, preview, fileVars, hostVars, total, since, left>>

\* The database refuses the query: the file stays with what is in it.
PageRefused(e) ==
    /\ pc[e] = "paging" /\ SortRaises(config.filters, config.sort)
    /\ Goto(e, "failed")
    /\ UNCHANGED <<config, table, preview, fileVars, hostVars, out, total, since, left>>

-----------------------------------------------------------------------------
ObjectOf(e) == [exec |-> e, rows |-> out[e]]

\* Mutant of ResultOf: the rows counted first, not the rows written.
ResultOfTotal(e, where) == [where |-> where, exec |-> e, count |-> total[e]]

\* result_metadata.
ResultOf(e, where) == [where |-> where, exec |-> e,
                       count |-> IF config.format = "csv" THEN Len(out[e]) ELSE total[e]]

\* upload_file, when there is a storage: the path is the run's.
Upload(e) ==
    /\ config.storage
    /\ pc[e] = "written"
    /\ remote' = ObjectOf(e)
    /\ Goto(e, "stored")
    /\ UNCHANGED <<config, table, preview, status, result, local, hostVars, out, total, since, left>>

\* An upload that failed may have taken effect.
FailedUpload(e) ==
    remote' \in {remote} \union (IF config.storage /\ pc[e] = "written" THEN {ObjectOf(e)} ELSE {})

\* Mutant of KeepLocal: an upload that failed is taken for one that worked.
KeepLocalUnseen(e) ==
    /\ pc[e] = "written"
    /\ IF config.storage THEN Fault ELSE left' = left
    /\ status' = "SUCCEEDED"
    /\ result' = ResultOf(e, "remote")
    /\ local' = local \ {e}
    /\ Goto(e, "done")
    /\ UNCHANGED <<config, table, preview, remote, hostVars, out, total, since>>

\* There is no storage or the upload fails, which is logged: the run succeeds
\* with its local file.
KeepLocal(e) ==
    /\ pc[e] = "written"
    /\ IF config.storage THEN Fault ELSE left' = left
    /\ status' = "SUCCEEDED"
    /\ result' = ResultOf(e, "local")
    /\ FailedUpload(e)
    /\ Goto(e, "done")
    /\ UNCHANGED <<config, table, preview, local, hostVars, out, total, since>>

\* The result of an uploaded file; then the local one is removed.
Record(e) ==
    /\ pc[e] = "stored"
    /\ status' = "SUCCEEDED"
    /\ result' = ResultOf(e, "remote")
    /\ local' = local \ {e}
    /\ Goto(e, "done")
    /\ UNCHANGED <<config, table, preview, remote, hostVars, out, total, since, left>>

\* A query or a write of the row fails, before or after its commit (and after an
\* upload that failed too); an uploaded file is removed all the same.
CallFails(e) ==
    /\ pc[e] \in {"paging", "written", "stored"}
    /\ Fault
    /\ \/ UNCHANGED <<status, result>>
       \/ /\ pc[e] # "paging"
          /\ status' = "SUCCEEDED"
          /\ result' = ResultOf(e, IF pc[e] = "stored" THEN "remote" ELSE "local")
    /\ local' = IF pc[e] = "stored" THEN local \ {e} ELSE local
    /\ FailedUpload(e)
    /\ Goto(e, "failed")
    /\ UNCHANGED <<config, table, preview, hostVars, out, total, since>>

\* The handler of _execute_job_run; the result of an earlier write stays.
MarkFailed(e) ==
    /\ pc[e] = "failed"
    /\ status' = "FAILED"
    /\ Goto(e, "done")
    /\ UNCHANGED <<config, table, preview, result, local, remote, hostVars, out, total, since, left>>

\* An instance stops, and its executions with it, though the thread of an upload
\* may go on until the process ends.  Its disk may come back or not.
Stop(i) ==
    LET here == {e \in Executions : host[e] = i} IN
    /\ \E e \in here : pc[e] # "idle"
    /\ Fault
    /\ pc' = [e \in Executions |->
                 IF e \notin here \/ pc[e] \in {"done", "crashed", "uploading"} THEN pc[e]
                 ELSE IF pc[e] = "written" /\ config.storage THEN "uploading" ELSE "crashed"]
    /\ gone' = gone \union here
    /\ local' \in {local, local \ here}
    /\ UNCHANGED <<config, table, preview, status, result, remote, host, overlapped, out, total, since>>

\* The thread of an upload that nothing waits for ends, or is ended.
OrphanUpload(e) ==
    /\ pc[e] = "uploading"
    /\ remote' \in {remote, ObjectOf(e)}
    /\ Goto(e, "crashed")
    /\ UNCHANGED <<config, table, preview, status, result, local, hostVars, out, total, since, left>>

-----------------------------------------------------------------------------
(* Imports.                                                                   *)

ChangeRows(kind, id) ==
    /\ left.changes > 0
    /\ left' = [left EXCEPT !.changes = @ - 1]
    /\ preview' = Null
    /\ since' = [e \in Executions |->
                    IF pc[e] \in {"paging", "written"} THEN since[e] \union {<<kind, id>>}
                    ELSE since[e]]
    /\ UNCHANGED <<config, fileVars, pc, hostVars, out, total>>

Insert(id) ==
    /\ id \notin DOMAIN table
    /\ table' = [i \in DOMAIN table \union {id} |-> IF i = id THEN NewRows[id] ELSE table[i]]
    /\ ChangeRows("insert", id)

Delete(id) ==
    /\ table' = [i \in DOMAIN table \ {id} |-> table[i]]
    /\ ChangeRows("delete", id)

Update(id) ==
    /\ \E n \in (1..MaxValue) \ {table[id].amount} : table' = [table EXCEPT ![id].amount = n]
    /\ ChangeRows("update", id)

Execute(e) ==
    \/ StartCsv(e) \/ StartJson(e) \/ StartRefused(e)
    \/ Page(e) \/ PageRefused(e) \/ Upload(e) \/ KeepLocal(e) \/ Record(e)
    \/ CallFails(e) \/ MarkFailed(e) \/ OrphanUpload(e)

Next ==
    \/ Preview
    \/ \E e \in Executions : Execute(e)
    \/ \E i \in Instances : Stop(i)
    \/ \E id \in DOMAIN NewRows : Insert(id)
    \/ \E id \in DOMAIN table : Delete(id) \/ Update(id)

Spec == Init /\ [][Next]_vars

-----------------------------------------------------------------------------
(* What the download handlers of instance i answer.                           *)

\* download_export_file, for a local file of the result, which must exist there.
LocalFile(i) ==
    IF result.where = "local" /\ result.exec \in local /\ host[result.exec] = i
    THEN ObjectOf(result.exec) ELSE Null

\* get_export_download_url signs the remote path without looking, or refers to
\* download_export_file.
Served(i) ==
    IF status # "SUCCEEDED" \/ result = Null THEN Null
    ELSE IF result.where = "remote" THEN remote ELSE LocalFile(i)

-----------------------------------------------------------------------------
(* Properties.                                                                *)

Ids(s) == {s[i] : i \in DOMAIN s}

\* A CSV export has read all its pages; what changed since it began.
Written(e)       == pc[e] = "written" /\ config.format = "csv"
Changed(e, kind) == {c[2] : c \in {d \in since[e] : d[1] = kind}}
Only(e, kind)    == \A c \in since[e] : c[1] = kind
Whole            == config.limit = Null /\ config.offset = 0

\* The filter names no other table; the order tells any two rows apart.
OwnFilter   == config.filters = Null \/ ~NamesVendors[config.filters]
UniqueOrder == /\ \E i \in DOMAIN config.sort : config.sort[i].field = "id"
               /\ \A i \in DOMAIN config.sort : ~Nested(config.sort[i].field)

\* The values of a column, and the values that the collation orders like Python.
ValuesOf(f) == {Value(table[id], f) : id \in DOMAIN table} \ {Null}
Alike(f, S) == \A x, y \in S : x < y <=> Place(f, x) < Place(f, y)

\* The two orders agree where the condition compares by order.
SameComparison(f) ==
    f.op \in Binary \union {"between"} =>
        Alike(f.field, ValuesOf(f.field) \union ({f.arg[i] : i \in DOMAIN f.arg} \ {Null}))

\* A row lacks a value that a filter of g compares, or a filter has none itself.
Missing[g \in Groups] ==
    \/ \E i \in DOMAIN g.filters :
         \/ \E id \in DOMAIN table : Value(table[id], g.filters[i].field) = Null
         \/ \E j \in DOMAIN g.filters[i].arg : g.filters[i].arg[j] = Null
    \/ \E i \in DOMAIN g.groups : Missing[g.groups[i]]

\* The conditions and filters that mean the same to both ways of evaluating them.
SameCondition(f) ==
    /\ InSql(f.field) /\ ~Nested(f.field) /\ f.relative = "no"
    /\ f.op = "contains" => f.arg[1] # Wild
    /\ f.op \in {"eq", "ne"} => f.arg[1] # Null
    /\ SameComparison(f)

SameMeaning[g \in Groups] ==
    /\ g.filters # <<>> \/ g.groups # <<>>
    /\ \A i \in DOMAIN g.filters : SameCondition(g.filters[i])
    /\ \A i \in DOMAIN g.groups : SameMeaning[g.groups[i]]
    /\ g.op = "not" => ~Missing[g]

\* ANDs of conditions that have no clock and are ordered alike.
Conjunctive[g \in Groups] ==
    /\ g.op = "and"
    /\ \A i \in DOMAIN g.filters : /\ g.filters[i].relative = "known" => g.filters[i].op = "between"
                                   /\ SameComparison(g.filters[i])
    /\ \A i \in DOMAIN g.groups : Conjunctive[g.groups[i]]

\* The orders that both ways of sorting understand.
SameOrder ==
    /\ \A i \in DOMAIN config.sort : InSql(config.sort[i].field)
    /\ (\E i \in DOMAIN config.sort : config.sort[i].dir = "desc" /\ Text(config.sort[i].field))
          => Len(config.sort) = 1
    /\ \A i \in DOMAIN config.sort : Text(config.sort[i].field) =>
          /\ \A id \in DOMAIN table : Value(table[id], config.sort[i].field) # Null
          /\ Alike(config.sort[i].field, ValuesOf(config.sort[i].field))

\* An export of everything, of the rows its preview showed.
Previewed(e) == Written(e) /\ preview # Null /\ since[e] = {} /\ Whole

\* An export contains exactly the rows its preview showed: evaluating a filter in
\* memory (_matches_filters) and translating it to SQL (_translate_filter_group)
\* agree, when every field has a column of the table, no date is relative, no text
\* a wildcard, equality is not asked of null, texts are compared by order only where
\* the collation has Python's order, and no value is missing under a NOT.
PreviewSelectsTheExport ==
    \A e \in Executions :
        (Previewed(e) /\ (config.filters = Null \/ SameMeaning[config.filters]))
            => (UniqueOrder => Ids(out[e]) = Ids(preview)) /\ Len(out[e]) = Len(preview)

\* It lists them in the order of the preview: the reversal of descending texts
\* and the infinities for missing numbers of _apply_sorting agree with ORDER BY,
\* as long as a descending text is the only key and the collation has Python's
\* order of the texts that are there.
PreviewOrdersAsTheExport ==
    \A e \in Executions :
        (Previewed(e) /\ UniqueOrder /\ SameOrder /\ Ids(out[e]) = Ids(preview))
            => out[e] = preview \/ Len(out[e]) # Len(preview)

\* A filter of ANDs alone never hides from the export a row the preview showed,
\* though the export drops the conditions that it cannot translate, pairs the rows
\* with vendors that are not theirs, and reads null and relative bounds otherwise.
PreviewedIsExported ==
    \A e \in Executions :
        (Previewed(e) /\ UniqueOrder /\ config.filters # Null /\ Conjunctive[config.filters])
            => Ids(preview) \subseteq Ids(out[e])

\* The pages of an export that no import disturbed are together the slice of the
\* ordered rows that offset and limit ask for: nothing twice, nothing left out
\* (fetch_data_streaming moves its offset by what it yielded).
QuietExportIsExact ==
    \A e \in Executions :
        (Written(e) /\ since[e] = {} /\ UniqueOrder) =>
            \E s \in SqlArrangements(table, Answered, config.sort) :
                out[e] = Slice([i \in DOMAIN s |-> s[i][1]], config.offset,
                               IF config.limit = Null THEN Len(s) ELSE config.limit)

\* The rows under an offset move one way: rows imported while the pages are read
\* (fetch_data_streaming reads each in a transaction of its own) make none of the
\* others be skipped, and rows deleted meanwhile make none be repeated.
PagesMoveOneWay ==
    \A e \in Executions : (Written(e) /\ OwnFilter /\ UniqueOrder) =>
        /\ Only(e, "insert") /\ Whole
              => \A o \in Answered : o[1] \in Ids(out[e]) \union Changed(e, "insert")
        /\ Only(e, "delete") => Cardinality(Ids(out[e])) = Len(out[e])

\* A run that is recorded as succeeded has a file to download, whichever of its
\* executions failed to upload, crashed, or cleaned up its local file: from every
\* instance if it was uploaded, else from the instance that wrote it, as long as
\* that does not stop.
SucceededIsServed ==
    status = "SUCCEEDED" =>
        \A i \in Instances :
            \/ Served(i) # Null
            \/ result.where = "local" /\ (i # host[result.exec] \/ result.exec \in gone)

\* The count in the result is that of the records in the file that is served ("Use
\* written count as authoritative"), although the rows were counted before they
\* were read and have changed since, and whatever earlier executions left at the
\* path: as long as no two executions were at work at once.  Of executions that
\* overlapped it is said only if the file is of the one that recorded the result.
CountIsOfTheFile ==
    \A i \in Instances :
        (/\ Served(i) # Null /\ config.format = "csv"
         /\ ~overlapped \/ Served(i).exec = result.exec)
            => result.count = Len(Served(i).rows)

\* What EXPORT_FILTER_DSL.md says of nested fields: the filter joins the row with
\* its own vendor, so that it selects the rows whose vendor satisfies it, once.
NestedFilterJoins ==
    \A e \in Executions :
        (Written(e) /\ since[e] = {} /\ Whole /\ ~OwnFilter)
            => /\ Ids(out[e]) = Selected(table, config.filters)
               /\ Cardinality(Ids(out[e])) = Len(out[e])

-----------------------------------------------------------------------------
(* Why a success is served, with its count: the invariant ExportProofs uses.  *)

\* The object is of an execution that does not write any more.
ObjectIsWhole ==
    remote # Null => /\ pc[remote.exec] \in {"stored", "failed", "done", "crashed"}
                     /\ remote.rows = out[remote.exec]

\* The result is of an execution that is over, and names a file that is there.
ResultIsKept ==
    result # Null =>
        /\ pc[result.exec] \in {"failed", "done", "crashed"}
        /\ config.format = "csv" => result.count = Len(out[result.exec])
        /\ result.where = "local" => result.exec \in local \union gone
        /\ result.where = "remote" => remote # Null

\* Without overlaps there is one execution at a time, and the object and the result
\* are of the last one that got so far.
OneAtATime ==
    ~overlapped =>
        /\ \A d, e \in Executions : AtWork(d) /\ AtWork(e) => d = e
        /\ \A e \in Executions : pc[e] = "stored" => remote # Null /\ remote.exec = e
        /\ status = "SUCCEEDED" =>
              /\ \A e \in Executions : AtWork(e) => pc[e] = "failed"
              /\ result.where = "remote" => remote.exec = result.exec

ServingInv ==
    /\ ObjectIsWhole /\ ResultIsKept /\ OneAtATime
    /\ \A e \in Executions : /\ pc[e] \in {"paging", "written"} => e \in local
                             /\ pc[e] = "stored" => remote # Null
                             /\ pc[e] = "idle" => e \notin gone
                             /\ pc[e] \in {"paging", "written", "stored"} => e \notin gone
    /\ status = "SUCCEEDED" => result # Null
=============================================================================
