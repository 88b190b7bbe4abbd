----------------------------- MODULE ExportProofs -----------------------------
(* Exports, for any requests, rows, executions, sizes of pages and faults: the  *)
(* file is within its limit, a success can be downloaded, its count is that of  *)
(* the file, its pages are the slice the request asks for, and the preview      *)
(* showed the rows and the order of the file, however the filter is nested.     *)
EXTENDS Export, FiniteSetTheorems, WellFoundedInduction, TLAPS

LEMMA ConfigFacts ==
    ASSUME TypeOK
    PROVE  /\ config.offset \in Nat /\ config.limit \in Nat \union {Null}
           /\ config.sort \in Seq([field : Fields, dir : {"asc", "desc"}])
  BY ExportAssumption DEF TypeOK

\* The rows of an answer are finitely many.
LEMMA AnswerOf ==
    ASSUME NEW t, IsFiniteSet(DOMAIN t)
    PROVE  /\ IsFiniteSet(Answer(t, config.filters))
           /\ Answer(t, config.filters) \subseteq (DOMAIN t) \X Joined(config.filters)
  <1>1. IsFiniteSet(Joined(config.filters))
    BY ExportAssumption, FS_Singleton DEF Joined
  <1>2. IsFiniteSet((DOMAIN t) \X Joined(config.filters))
    BY <1>1, FS_Product
  <1>3. Answer(t, config.filters) \subseteq (DOMAIN t) \X Joined(config.filters)
    BY DEF Answer
  <1> QED BY <1>2, <1>3, FS_Subset

LEMMA AnswerFinite ==
    ASSUME TypeOK
    PROVE  /\ IsFiniteSet(Answered) /\ Cardinality(Answered) \in Nat
           /\ \A o \in Answered : o[1] \in Int
  <1>1. IsFiniteSet(DOMAIN table) /\ DOMAIN table \subseteq Int
    BY DEF TypeOK
  <1> QED BY <1>1, AnswerOf, FS_CardinalityType DEF Answered

LEMMA SelectedFinite ==
    ASSUME TypeOK
    PROVE  LET S == Selected(table, config.filters) IN
           IsFiniteSet(S) /\ Cardinality(S) \in Nat /\ S \subseteq Int
  <1>1. Selected(table, config.filters) \subseteq DOMAIN table
    BY DEF Selected
  <1> QED BY <1>1, FS_Subset, FS_CardinalityType DEF TypeOK

\* An arrangement is a sequence of what it arranges.
LEMMA SqlArranged ==
    ASSUME NEW t, NEW S, NEW sort, Cardinality(S) \in Nat
    PROVE  SqlArrangements(t, S, sort) \subseteq Seq(S)
  <1> SUFFICES ASSUME NEW s \in SqlArrangements(t, S, sort) PROVE s \in Seq(S)
    OBVIOUS
  <1>1. s \in [1..Cardinality(S) -> S]
    BY Zenon DEF SqlArrangements, Arrangements
  <1> QED BY <1>1

LEMMA MemoryArranged ==
    ASSUME NEW t, NEW S, NEW sort, Cardinality(S) \in Nat
    PROVE  MemoryArrangements(t, S, sort) \subseteq Seq(S)
  <1> SUFFICES ASSUME NEW s \in MemoryArrangements(t, S, sort) PROVE s \in Seq(S)
    OBVIOUS
  <1>1. s \in [1..Cardinality(S) -> S]
    BY Zenon DEF MemoryArrangements, Arrangements
  <1> QED BY <1>1

\* A slice holds at most as many elements as it is asked for.
LEMMA SliceFacts ==
    ASSUME NEW S, NEW s \in Seq(S), NEW from \in Nat, NEW n \in Nat
    PROVE  Slice(s, from, n) \in Seq(S) /\ Len(Slice(s, from, n)) <= n
  <1>1. Least(from + n, Len(s)) \in Nat /\ Least(from + n, Len(s)) <= from + n
        /\ Least(from + n, Len(s)) <= Len(s)
    BY DEF Least
  <1> QED BY <1>1 DEF Slice

\* How long a slice is, and what is in it.
LEMMA SliceIs ==
    ASSUME NEW S, NEW s \in Seq(S), NEW from \in Nat, NEW n \in Nat, NEW k \in Nat,
           k <= n, k = 0 \/ from + k <= Len(s), k = n \/ from + k >= Len(s)
    PROVE  /\ Slice(s, from, n) \in Seq(S) /\ Len(Slice(s, from, n)) = k
           /\ \A i \in 1..k : Slice(s, from, n)[i] = s[from + i]
  <1> DEFINE last == Least(from + n, Len(s))
  <1>1. /\ last \in Nat /\ last <= Len(s)
        /\ k = 0 => last <= from
        /\ k # 0 => last = from + k
    BY DEF Least
  <1> HIDE DEF last
  <1>2. Slice(s, from, n) = SubSeq(s, from + 1, last)
    BY DEF Slice, last
  <1> QED BY <1>1, <1>2

LEMMA SliceOfIds ==
    ASSUME NEW s \in Seq(Int), NEW from \in Nat, NEW n \in Nat, NEW k \in Nat,
           k <= n, k = 0 \/ from + k <= Len(s), k = n \/ from + k >= Len(s)
    PROVE  /\ Slice(s, from, n) \in Seq(Int) /\ Len(Slice(s, from, n)) = k
           /\ \A i \in 1..k : Slice(s, from, n)[i] = s[from + i]
  BY SliceIs

LEMMA SameSeq ==
    ASSUME NEW S, NEW p \in Seq(S), NEW q \in Seq(S), Len(p) = Len(q),
           \A i \in 1..Len(p) : p[i] = q[i]
    PROVE  p = q
  OBVIOUS

-----------------------------------------------------------------------------
Steps == {"idle", "paging", "written", "stored", "failed", "done", "uploading", "crashed"}

LEMMA TypeInit == Init => TypeOK
  <1> SUFFICES ASSUME Init PROVE TypeOK
    OBVIOUS
  <1>1. /\ config \in {s.config : s \in Scenarios}
        /\ DOMAIN table \subseteq Int /\ IsFiniteSet(DOMAIN table)
        /\ \A id \in DOMAIN table : IsRow(table[id], id)
    BY ExportAssumption DEF Init
  <1>2. /\ out \in [Executions -> Seq(Int)] /\ \A e \in Executions : Len(out[e]) = 0
        /\ total \in [Executions -> Nat]
        /\ pc \in [Executions -> Steps]
        /\ since \in [Executions -> SUBSET ({"insert", "update", "delete"} \X Int)]
    BY DEF Init, Steps
  <1>3. config.limit # Null => 0 <= config.limit
    BY <1>1, ExportAssumption
  <1> QED BY <1>1, <1>2, <1>3 DEF Init, TypeOK, Steps

\* A page is cut so that the file stays within its limit.
LEMMA PageType ==
    ASSUME TypeOK, NEW e \in Executions, Page(e)
    PROVE  TypeOK'
  <1> DEFINE size == IF config.limit = Null THEN PageSize
                     ELSE Least(PageSize, config.limit - Len(out[e]))
  <1>1. PICK s \in SqlArrangements(table, Answered, config.sort) : ReadPage(e, s)
    BY DEF Page
  <1> DEFINE page == Slice(s, config.offset + Len(out[e]), size)
             ids  == [i \in DOMAIN page |-> page[i][1]]
  <1>2. s \in Seq(Answered)
    BY AnswerFinite, SqlArranged
  <1>3. out[e] \in Seq(Int) /\ Len(out[e]) \in Nat
    BY DEF TypeOK
  <1>4. size \in Nat /\ (config.limit # Null => Len(out[e]) + size <= config.limit)
    <2>1. CASE config.limit = Null
      BY <2>1, ExportAssumption
    <2>2. CASE config.limit # Null
      <3>1. config.limit \in Nat /\ Len(out[e]) <= config.limit
        BY <2>2, ConfigFacts DEF TypeOK
      <3> QED BY <1>3, <2>2, <3>1, ExportAssumption DEF Least
    <2> QED BY <2>1, <2>2
  <1>5. page \in Seq(Answered) /\ Len(page) <= size
    BY <1>2, <1>3, <1>4, ConfigFacts, SliceFacts
  <1>6. ids \in Seq(Int) /\ Len(ids) = Len(page)
    BY <1>5, AnswerFinite
  <1>7. out' = [out EXCEPT ![e] = out[e] \o ids]
    BY <1>1 DEF ReadPage
  <1>8. out[e] \o ids \in Seq(Int) /\ Len(out[e] \o ids) = Len(out[e]) + Len(page)
    <2> HIDE DEF ids, page
    <2> QED BY <1>3, <1>6
  <1>9. config.limit # Null => Len(out[e] \o ids) <= config.limit
    <2> HIDE DEF ids, page, size
    <2>1. Len(page) \in Nat
      BY <1>5
    <2> QED BY <1>3, <1>4, <1>5, <1>8, <2>1, ConfigFacts
  <1>10. out' \in [Executions -> Seq(Int)]
         /\ \A x \in Executions : config.limit # Null => Len(out'[x]) <= config.limit
    BY <1>7, <1>8, <1>9 DEF TypeOK
  <1>11. pc' \in [Executions -> Steps]
    BY <1>1 DEF ReadPage, Goto, TypeOK, Steps
  <1> QED BY <1>10, <1>11 DEF Page, fileVars, hostVars, TypeOK, Steps

LEMMA StartJsonType ==
    ASSUME TypeOK, NEW e \in Executions, StartJson(e)
    PROVE  TypeOK'
  <1> DEFINE S == Selected(table, config.filters)
  <1>1. PICK s \in MemoryArrangements(table, S, config.sort) :
          /\ total' = [total EXCEPT ![e] = Len(s)]
          /\ out' = [out EXCEPT ![e] =
                        Slice(s, config.offset, IF config.limit = Null THEN Len(s) ELSE config.limit)]
    BY DEF StartJson
  <1>2. s \in Seq(S) /\ s \in Seq(Int) /\ Len(s) \in Nat
    BY SelectedFinite, MemoryArranged
  <1> DEFINE n == IF config.limit = Null THEN Len(s) ELSE config.limit
  <1>3. n \in Nat
    BY <1>2, ConfigFacts
  <1>4. Slice(s, config.offset, n) \in Seq(Int) /\ Len(Slice(s, config.offset, n)) <= n
    BY <1>2, <1>3, ConfigFacts, SliceFacts
  <1>5. out' \in [Executions -> Seq(Int)] /\ total' \in [Executions -> Nat]
        /\ \A x \in Executions : config.limit # Null => Len(out'[x]) <= config.limit
    BY <1>1, <1>2, <1>4 DEF TypeOK
  <1>6. pc' \in [Executions -> Steps] /\ host' \in [Executions -> Instances \union {Null}]
    BY DEF StartJson, Begin, Goto, TypeOK, Steps
  <1> QED BY <1>5, <1>6 DEF StartJson, Begin, TypeOK, Steps

LEMMA RowsType ==
    ASSUME TypeOK,
           \/ \E id \in DOMAIN NewRows : Insert(id)
           \/ \E id \in DOMAIN table : Delete(id) \/ Update(id)
    PROVE  TypeOK'
  <1>1. PICK id \in Int, kind \in {"insert", "update", "delete"} :
          /\ ChangeRows(kind, id)
          /\ \/ DOMAIN table' = DOMAIN table \union {id}
             \/ DOMAIN table' = DOMAIN table \ {id}
             \/ DOMAIN table' = DOMAIN table
          /\ \A i \in DOMAIN table' : IsRow(table'[i], i)
    <2>1. ASSUME NEW id \in DOMAIN NewRows, Insert(id)
          PROVE  /\ ChangeRows("insert", id) /\ id \in Int
                 /\ DOMAIN table' = DOMAIN table \union {id}
                 /\ \A i \in DOMAIN table' : IsRow(table'[i], i)
      BY <2>1, ExportAssumption DEF Insert, TypeOK
    <2>2. ASSUME NEW id \in DOMAIN table, Delete(id)
          PROVE  /\ ChangeRows("delete", id) /\ id \in Int
                 /\ DOMAIN table' = DOMAIN table \ {id}
                 /\ \A i \in DOMAIN table' : IsRow(table'[i], i)
      BY <2>2 DEF Delete, TypeOK
    <2>3. ASSUME NEW id \in DOMAIN table, Update(id)
          PROVE  /\ ChangeRows("update", id) /\ id \in Int
                 /\ DOMAIN table' = DOMAIN table
                 /\ \A i \in DOMAIN table' : IsRow(table'[i], i)
      <3>1. PICK n \in 1..MaxValue : table' = [table EXCEPT ![id].amount = n]
        BY <2>3 DEF Update
      <3>2. n \in Int /\ IsRow(table[id], id)
        BY QueryAssumption DEF TypeOK
      <3>3. IsRow([table[id] EXCEPT !.amount = n], id)
        BY <3>2 DEF IsRow
      <3> QED BY <2>3, <3>1, <3>3 DEF Update, TypeOK
    <2> QED BY <2>1, <2>2, <2>3
  <1>2. /\ IsFiniteSet(DOMAIN table') /\ DOMAIN table' \subseteq Int
    <2>1. /\ IsFiniteSet(DOMAIN table \union {id})
          /\ IsFiniteSet(DOMAIN table \ {id})
      BY FS_AddElement, FS_RemoveElement DEF TypeOK
    <2> QED BY <1>1, <2>1 DEF TypeOK
  <1>3. since' \in [Executions -> SUBSET ({"insert", "update", "delete"} \X Int)]
    BY <1>1 DEF ChangeRows, TypeOK
  <1> QED BY <1>1, <1>2, <1>3 DEF ChangeRows, fileVars, hostVars, TypeOK

LEMMA ResultType ==
    ASSUME TypeOK, NEW e \in Executions, NEW w \in {"remote", "local"}
    PROVE  ResultOf(e, w) \in Results
  BY DEF TypeOK, Results, ResultOf

LEMMA StopType ==
    ASSUME TypeOK, NEW i \in Instances, Stop(i)
    PROVE  TypeOK'
  <1>1. /\ pc' \in [Executions -> Steps]
        /\ gone' \subseteq Executions /\ local' \subseteq Executions
    BY DEF Stop, TypeOK, Steps
  <1> QED BY <1>1 DEF Stop, TypeOK, Steps

\* A failed upload leaves the object as it is or puts the file there.
LEMMA FailedUploadType ==
    ASSUME TypeOK, NEW e \in Executions, FailedUpload(e)
    PROVE  /\ remote' \in Objects \union {Null}
           /\ remote' = remote \/ (pc[e] = "written" /\ remote' = ObjectOf(e) /\ remote' # Null)
  BY ExportAssumption DEF FailedUpload, TypeOK, Objects, ObjectOf

LEMMA TypeStep ==
    ASSUME TypeOK, [Next]_vars
    PROVE  TypeOK'
  <1>1. CASE UNCHANGED vars
    BY <1>1 DEF vars, fileVars, hostVars, TypeOK
  <1>2. CASE Preview
    BY <1>2 DEF Preview, fileVars, hostVars, TypeOK
  <1>3. ASSUME NEW e \in Executions, Execute(e) PROVE TypeOK'
    <2> USE DEF TypeOK, hostVars
    <2>1. CASE StartCsv(e)
      BY <2>1, AnswerFinite DEF StartCsv, Begin, Goto
    <2>2. CASE StartJson(e)
      BY <2>2, StartJsonType
    <2>3. CASE StartRefused(e)
      BY <2>3 DEF StartRefused, Begin, Goto
    <2>4. CASE Page(e)
      BY <2>4, PageType
    <2>5. CASE PageRefused(e)
      BY <2>5 DEF PageRefused, Goto, fileVars
    <2>6. CASE Upload(e)
      BY <2>6 DEF Upload, Goto, Objects, ObjectOf
    <2>7. CASE KeepLocal(e)
      BY <2>7, ResultType, FailedUploadType DEF KeepLocal, Goto
    <2>8. CASE Record(e)
      BY <2>8, ResultType DEF Record, Goto
    <2>9. CASE CallFails(e)
      BY <2>9, ResultType, FailedUploadType DEF CallFails, Goto
    <2>10. CASE MarkFailed(e)
      BY <2>10 DEF MarkFailed, Goto
    <2>11. CASE OrphanUpload(e)
      BY <2>11 DEF OrphanUpload, Goto, Objects, ObjectOf
    <2> QED BY <1>3, <2>1, <2>2, <2>3, <2>4, <2>5, <2>6, <2>7, <2>8, <2>9, <2>10, <2>11 DEF Execute
  <1> QED BY <1>1, <1>2, <1>3, RowsType, StopType DEF Next

-----------------------------------------------------------------------------
\* The execution that writes the result names its own file, or the object.
LEMMA ResultServes ==
    ASSUME TypeOK, ServingInv, NEW e \in Executions, NEW w \in {"remote", "local"},
           NEW step \in {"done", "failed"},
           w = "local" => pc[e] = "written" /\ local' = local,
           w = "remote" => pc[e] = "stored" /\ local' = local \ {e},
           status' = "SUCCEEDED", result' = ResultOf(e, w), pc' = [pc EXCEPT ![e] = step],
           remote' = remote \/ (w = "local" /\ remote' = ObjectOf(e) /\ remote' # Null),
           UNCHANGED <<config, out, hostVars>>
    PROVE  ServingInv'
  <1>1. result' # Null /\ result'.exec = e /\ result'.where = w
        /\ (config.format = "csv" => result'.count = Len(out[e]))
    BY ResultType, ExportAssumption DEF ResultOf
  <1>2. pc'[e] = step /\ \A x \in Executions : x # e => pc'[x] = pc[x]
    BY DEF TypeOK
  <1>3. /\ w = "local" => e \in local
        /\ w = "remote" => remote' = remote /\ remote # Null /\ (~overlapped => remote.exec = e)
        /\ AtWork(e)
    BY DEF ServingInv, OneAtATime, AtWork
  <1>4. ResultIsKept'
    BY <1>1, <1>2, <1>3 DEF ResultIsKept, hostVars
  <1>5. ObjectIsWhole'
    <2>1. CASE remote' = remote
      BY <1>2, <2>1 DEF ObjectIsWhole, ServingInv, TypeOK, Objects
    <2>2. CASE remote' = ObjectOf(e)
      BY <1>2, <2>2 DEF ObjectIsWhole, ObjectOf
    <2> QED BY <2>1, <2>2
  <1>6. OneAtATime'
    <2> SUFFICES ASSUME ~overlapped PROVE OneAtATime'
      BY DEF OneAtATime, hostVars
    <2>1. \A x \in Executions : x # e => ~AtWork(x) /\ ~AtWork(x)' /\ pc'[x] # "stored"
      BY <1>2, <1>3 DEF ServingInv, OneAtATime, AtWork
    <2>2. AtWork(e)' => pc'[e] = "failed"
      BY <1>2 DEF AtWork
    <2>3. pc'[e] # "stored"
      BY <1>2
    <2> QED BY <1>1, <1>3, <2>1, <2>2, <2>3 DEF OneAtATime
  <1> QED BY <1>1, <1>2, <1>3, <1>4, <1>5, <1>6 DEF ServingInv, hostVars

\* An execution begins.
LEMMA BeginServes ==
    ASSUME TypeOK, ServingInv, NEW e \in Executions, Begin(e),
           NEW step \in {"paging", "written", "failed"}, Goto(e, step),
           local' = local \union {e} \/ (local' = local /\ step = "failed"),
           UNCHANGED <<config, result, remote>>, \A x \in Executions : x # e => out'[x] = out[x]
    PROVE  ServingInv'
  <1>1. /\ pc[e] = "idle" /\ pc'[e] = step /\ \A x \in Executions : x # e => pc'[x] = pc[x]
        /\ status' = "RUNNING" /\ gone' = gone
    BY DEF TypeOK, Begin, Goto
  <1>2. ObjectIsWhole'
    BY <1>1 DEF ObjectIsWhole, ServingInv, TypeOK, Objects
  <1>3. ResultIsKept'
    BY <1>1 DEF ResultIsKept, ServingInv, TypeOK, Results
  <1>4. OneAtATime'
    <2> SUFFICES ASSUME ~overlapped' PROVE OneAtATime'
      BY DEF OneAtATime
    <2>1. ~overlapped /\ \A d \in Executions : ~AtWork(d)
      BY DEF Begin
    <2>2. \A x \in Executions : x # e => ~AtWork(x)' /\ pc'[x] # "stored"
      BY <1>1, <2>1 DEF AtWork
    <2> QED BY <1>1, <2>2 DEF OneAtATime
  <1> QED BY <1>1, <1>2, <1>3, <1>4 DEF ServingInv

\* An execution goes on, or ends, and records nothing.
LEMMA GoesOn ==
    ASSUME TypeOK, ServingInv, NEW e \in Executions, AtWork(e),
           NEW step \in {"paging", "written", "failed", "done"}, Goto(e, step),
           step = "written" => pc[e] = "paging", step = "paging" => pc[e] = "paging",
           pc[e] # "paging" => out'[e] = out[e], \A x \in Executions : x # e => out'[x] = out[x],
           local' = local \/ (pc[e] = "stored" /\ local' = local \ {e}),
           status' = status \/ status' = "FAILED",
           \/ remote' = remote
           \/ pc[e] = "written" /\ step = "failed" /\ remote' = ObjectOf(e) /\ remote' # Null,
           UNCHANGED <<config, result, hostVars>>
    PROVE  ServingInv'
  <1>1. /\ pc'[e] = step /\ \A x \in Executions : x # e => pc'[x] = pc[x]
        /\ UNCHANGED <<gone, overlapped>>
    BY DEF TypeOK, Goto, hostVars
  <1>2. ObjectIsWhole'
    <2>1. CASE remote' = remote
      BY <1>1, <2>1 DEF ObjectIsWhole, ServingInv, TypeOK, Objects, AtWork
    <2>2. CASE pc[e] = "written" /\ step = "failed" /\ remote' = ObjectOf(e)
      BY <1>1, <2>2 DEF ObjectIsWhole, ObjectOf
    <2> QED BY <2>1, <2>2
  <1>3. ResultIsKept'
    BY <1>1 DEF ResultIsKept, ServingInv, TypeOK, Results, AtWork
  <1>4. OneAtATime'
    <2> SUFFICES ASSUME ~overlapped PROVE OneAtATime'
      BY <1>1 DEF OneAtATime
    <2>1. \A x \in Executions : x # e => ~AtWork(x) /\ ~AtWork(x)' /\ pc'[x] # "stored"
      BY <1>1 DEF ServingInv, OneAtATime, AtWork
    <2>2. pc'[e] # "stored"
      BY <1>1
    <2>3. status' = "SUCCEEDED" => (AtWork(e)' => pc'[e] = "failed")
      BY <1>1 DEF ServingInv, OneAtATime, AtWork
    <2>4. status' = "SUCCEEDED" => remote' = remote
      BY <1>1 DEF ServingInv, OneAtATime, AtWork
    <2> QED BY <1>1, <2>1, <2>2, <2>3, <2>4 DEF ServingInv, OneAtATime
  <1> QED BY <1>1, <1>2, <1>3, <1>4 DEF ServingInv, AtWork

LEMMA UploadServes ==
    ASSUME TypeOK, ServingInv, NEW e \in Executions, Upload(e)
    PROVE  ServingInv'
  <1>1. /\ pc[e] = "written" /\ pc'[e] = "stored" /\ \A x \in Executions : x # e => pc'[x] = pc[x]
        /\ UNCHANGED <<config, status, result, local, out, gone, overlapped>>
        /\ remote' = ObjectOf(e) /\ remote' # Null
    BY ExportAssumption DEF TypeOK, Upload, Goto, hostVars, ObjectOf, Objects
  <1>2. ObjectIsWhole'
    BY <1>1 DEF ObjectIsWhole, ObjectOf
  <1>3. ResultIsKept'
    BY <1>1 DEF ResultIsKept, ServingInv, TypeOK, Results
  <1>4. OneAtATime'
    <2> SUFFICES ASSUME ~overlapped PROVE OneAtATime'
      BY <1>1 DEF OneAtATime
    <2>1. \A x \in Executions : x # e => ~AtWork(x) /\ ~AtWork(x)' /\ pc'[x] # "stored"
      BY <1>1 DEF ServingInv, OneAtATime, AtWork
    <2>2. status # "SUCCEEDED"
      BY <1>1 DEF ServingInv, OneAtATime, AtWork
    <2>3. remote'.exec = e
      BY <1>1 DEF ObjectOf
    <2> QED BY <1>1, <2>1, <2>2, <2>3 DEF OneAtATime
  <1> QED BY <1>1, <1>2, <1>3, <1>4 DEF ServingInv

LEMMA OrphanServes ==
    ASSUME TypeOK, ServingInv, NEW e \in Executions, OrphanUpload(e)
    PROVE  ServingInv'
  <1>1. /\ pc[e] = "uploading" /\ pc'[e] = "crashed" /\ \A x \in Executions : x # e => pc'[x] = pc[x]
        /\ UNCHANGED <<config, status, result, local, out, gone, overlapped>>
        /\ remote' = remote \/ (remote' = ObjectOf(e) /\ remote' # Null)
    BY ExportAssumption DEF TypeOK, OrphanUpload, Goto, hostVars, ObjectOf, Objects
  <1>2. ObjectIsWhole'
    BY <1>1 DEF ServingInv, ObjectIsWhole, ObjectOf, TypeOK, Objects
  <1>3. ResultIsKept'
    BY <1>1 DEF ResultIsKept, ServingInv, TypeOK, Results
  <1>4. OneAtATime'
    <2> SUFFICES ASSUME ~overlapped PROVE OneAtATime'
      BY <1>1 DEF OneAtATime
    <2>1. \A x \in Executions : ~AtWork(x)' /\ pc'[x] # "stored" /\ (x # e => ~AtWork(x))
      BY <1>1 DEF ServingInv, OneAtATime, AtWork
    <2>2. status # "SUCCEEDED"
      BY <1>1 DEF ServingInv, OneAtATime, AtWork
    <2> QED BY <1>1, <2>1, <2>2 DEF OneAtATime
  <1> QED BY <1>1, <1>2, <1>3, <1>4 DEF ServingInv

LEMMA StopServes ==
    ASSUME TypeOK, ServingInv, NEW i \in Instances, Stop(i)
    PROVE  ServingInv'
  <1> DEFINE here == {e \in Executions : host[e] = i}
  <1>1. /\ UNCHANGED <<config, status, result, remote, out, overlapped>>
        /\ gone' = gone \union here /\ local \ here \subseteq local'
        /\ \A e \in Executions : pc'[e] # pc[e] =>
              /\ e \in here /\ pc[e] \notin {"done", "crashed", "uploading"}
              /\ pc'[e] = "crashed" \/ (pc'[e] = "uploading" /\ pc[e] = "written")
        /\ \A e \in here : pc'[e] \in {"done", "crashed", "uploading"}
    BY DEF Stop, TypeOK
  <1> HIDE DEF here
  <1>2. ObjectIsWhole'
    BY <1>1 DEF ServingInv, ObjectIsWhole, TypeOK, Objects
  <1>3. ResultIsKept'
    BY <1>1 DEF ResultIsKept, ServingInv, TypeOK, Results
  <1>4. OneAtATime'
    <2> SUFFICES ASSUME ~overlapped PROVE OneAtATime'
      BY <1>1 DEF OneAtATime
    <2>1. \A e \in Executions : (AtWork(e)' => AtWork(e)) /\ (pc'[e] = "stored" => pc[e] = "stored")
      BY <1>1 DEF AtWork
    <2>2. status = "SUCCEEDED" => \A e \in Executions : AtWork(e)' => pc'[e] = "failed"
      BY <1>1, <2>1 DEF ServingInv, OneAtATime, AtWork
    <2> QED BY <1>1, <2>1, <2>2 DEF ServingInv, OneAtATime
  <1> QED BY <1>1, <1>2, <1>3, <1>4 DEF ServingInv

\* A success stays served, step by step.
LEMMA ServingStep ==
    ASSUME TypeOK, ServingInv, [Next]_vars
    PROVE  ServingInv'
  <1>1. ASSUME UNCHANGED <<config, fileVars, pc, hostVars, out>> PROVE ServingInv'
    BY <1>1 DEF ServingInv, ObjectIsWhole, ResultIsKept, OneAtATime, AtWork, fileVars, hostVars
  <1>2. CASE UNCHANGED vars \/ Preview
    BY <1>1, <1>2 DEF vars, Preview
  <1>3. CASE \/ \E id \in DOMAIN NewRows : Insert(id)
             \/ \E id \in DOMAIN table : Delete(id) \/ Update(id)
    BY <1>1, <1>3 DEF Insert, Delete, Update, ChangeRows
  <1>4. ASSUME NEW e \in Executions, Execute(e) PROVE ServingInv'
    <2>0. pc[e] = "paging" \/ pc[e] = "written" \/ pc[e] = "stored" \/ pc[e] = "failed" => AtWork(e)
      BY DEF AtWork
    <2>1. CASE StartCsv(e)
      BY <2>1, BeginServes DEF StartCsv
    <2>2. CASE StartJson(e)
      <3>1. \A x \in Executions : x # e => out'[x] = out[x]
        BY <2>2 DEF StartJson, TypeOK
      <3> QED BY <2>2, <3>1, BeginServes DEF StartJson
    <2>3. CASE StartRefused(e)
      BY <2>3, BeginServes DEF StartRefused
    <2>4. CASE Page(e)
      <3>1. PICK s \in SqlArrangements(table, Answered, config.sort) : ReadPage(e, s)
        BY <2>4 DEF Page
      <3>2. PICK step \in {"paging", "written"} : Goto(e, step)
        BY <3>1 DEF ReadPage
      <3>3. \A x \in Executions : x # e => out'[x] = out[x]
        BY <3>1 DEF ReadPage, TypeOK
      <3> QED BY <2>0, <2>4, <3>2, <3>3, GoesOn DEF Page, fileVars
    <2>5. CASE PageRefused(e)
      BY <2>0, <2>5, GoesOn DEF PageRefused, fileVars
    <2>6. CASE Upload(e)
      BY <2>6, UploadServes
    <2>7. CASE KeepLocal(e)
      <3>1. remote' = remote \/ (remote' = ObjectOf(e) /\ remote' # Null)
        BY <2>7, FailedUploadType DEF KeepLocal
      <3> QED BY <2>7, <3>1, ResultServes DEF KeepLocal, Goto
    <2>8. CASE Record(e)
      BY <2>8, ResultServes DEF Record, Goto
    <2>9. CASE CallFails(e)
      <3>0. remote' = remote \/ (pc[e] = "written" /\ remote' = ObjectOf(e) /\ remote' # Null)
        BY <2>9, FailedUploadType DEF CallFails
      <3>1. CASE UNCHANGED <<status, result>>
        BY <2>0, <2>9, <3>0, <3>1, GoesOn DEF CallFails
      <3>2. CASE /\ pc[e] # "paging" /\ status' = "SUCCEEDED"
                 /\ result' = ResultOf(e, IF pc[e] = "stored" THEN "remote" ELSE "local")
        <4>1. CASE pc[e] = "stored"
          BY <2>9, <3>0, <3>2, <4>1, ResultServes DEF CallFails, Goto
        <4>2. CASE pc[e] = "written"
          BY <2>9, <3>0, <3>2, <4>2, ResultServes DEF CallFails, Goto
        <4> QED BY <2>9, <3>2, <4>1, <4>2 DEF CallFails
      <3> QED BY <2>9, <3>1, <3>2 DEF CallFails
    <2>10. CASE MarkFailed(e)
      BY <2>0, <2>10, GoesOn DEF MarkFailed
    <2>11. CASE OrphanUpload(e)
      BY <2>11, OrphanServes
    <2> QED BY <1>4, <2>1, <2>2, <2>3, <2>4, <2>5, <2>6, <2>7, <2>8, <2>9, <2>10, <2>11 DEF Execute
  <1> QED BY <1>2, <1>3, <1>4, StopServes DEF Next

LEMMA ServingInvariant == Spec => [](TypeOK /\ ServingInv)
  <1>1. Init => ServingInv
    BY DEF Init, ServingInv, ObjectIsWhole, ResultIsKept, OneAtATime, AtWork
  <1> QED BY <1>1, TypeInit, TypeStep, ServingStep, PTL DEF Spec

\* Every variable has its type; no file has more records than the limit, whatever
\* the pages hold (saas/base.py:167-216, job_runner.py:310-345).
THEOREM TypeCorrect == Spec => []TypeOK
  BY ServingInvariant, PTL

\* A run that is recorded as succeeded has a file to download, whatever its other
\* executions did, from every instance when it was uploaded, and else from the
\* instance that wrote it unless that stopped (job_runner.py:346-430, exports.py).
THEOREM SuccessIsServed == Spec => []SucceededIsServed
  <1>1. TypeOK /\ ServingInv => SucceededIsServed
    <2> SUFFICES ASSUME TypeOK, ServingInv, status = "SUCCEEDED", NEW i \in Instances,
                        result.where = "local" => i = host[result.exec] /\ result.exec \notin gone
                 PROVE  Served(i) # Null
      BY DEF SucceededIsServed
    <2>1. result # Null /\ result \in Results
      BY DEF ServingInv, TypeOK
    <2>2. CASE result.where = "remote"
      BY <2>1, <2>2 DEF Served, ServingInv, ResultIsKept
    <2>3. CASE result.where = "local"
      <3>1. result.exec \in local /\ result.exec \in Executions /\ host[result.exec] = i
        BY <2>1, <2>3 DEF ServingInv, ResultIsKept, Results
      <3>2. ObjectOf(result.exec) \in Objects
        BY <3>1 DEF TypeOK, Objects, ObjectOf
      <3> QED BY <2>1, <2>3, <3>1, <3>2, ExportAssumption DEF Served, LocalFile
    <2> QED BY <2>1, <2>2, <2>3 DEF Results
  <1> QED BY <1>1, ServingInvariant, PTL

\* The count of a result is that of the records in the file that is served, unless
\* executions overlapped and the file is another one's (job_runner.py:391): earlier
\* executions that crashed, failed after their upload, or whose upload went on
\* without them do not spoil it.
THEOREM CountIsTrue == Spec => []CountIsOfTheFile
  <1>1. TypeOK /\ ServingInv => CountIsOfTheFile
    <2> SUFFICES ASSUME TypeOK, ServingInv, NEW i \in Instances, Served(i) # Null,
                        config.format = "csv", ~overlapped \/ Served(i).exec = result.exec
                 PROVE  result.count = Len(Served(i).rows)
      BY DEF CountIsOfTheFile
    <2>1. /\ status = "SUCCEEDED" /\ result # Null /\ result \in Results
          /\ result.count = Len(out[result.exec])
      BY DEF Served, ServingInv, ResultIsKept, TypeOK
    <2>2. CASE result.where = "remote"
      <3>1. Served(i) = remote /\ remote # Null /\ remote.rows = out[remote.exec]
        BY <2>1, <2>2 DEF Served, ServingInv, ObjectIsWhole
      <3>2. remote.exec = result.exec
        BY <2>1, <2>2, <3>1 DEF ServingInv, OneAtATime
      <3> QED BY <2>1, <3>1, <3>2
    <2>3. CASE result.where # "remote"
      BY <2>1, <2>3 DEF Served, LocalFile, ObjectOf
    <2> QED BY <2>2, <2>3
  <1> QED BY <1>1, ServingInvariant, PTL

-----------------------------------------------------------------------------
(* Induction over the groups.  A group is deeper than the groups in it, so of   *)
(* the groups that have a property, some are shallowest.                       *)

LEMMA LeastNat ==
    ASSUME NEW T, T \subseteq Nat, T # {}
    PROVE  \E n \in T : \A m \in T : n <= m
  <1>1. PICK n \in T : \A m \in T : ~(<<m, n>> \in OpToRel(<, Nat))
    BY NatLessThanWellFounded, WFMin
  <1>2. \A m \in T : ~(m < n)
    BY <1>1 DEF OpToRel
  <1> QED BY <1>2

\* If the groups of a set contain no minimal one, there are none.
LEMMA Shallowest ==
    ASSUME NEW B, B \subseteq Groups,
           \A g \in B : \E i \in DOMAIN g.groups : g.groups[i] \in B
    PROVE  B = {}
  <1> SUFFICES ASSUME B # {} PROVE FALSE
    OBVIOUS
  <1> DEFINE T == {Depth[g] : g \in B}
  <1>1. T \subseteq Nat /\ T # {}
    BY QueryAssumption
  <1>2. PICK n \in T : \A m \in T : n <= m
    BY <1>1, LeastNat
  <1>3. PICK g \in B : n = Depth[g]
    BY <1>2
  <1>4. PICK i \in DOMAIN g.groups : g.groups[i] \in B
    OBVIOUS
  <1>5. Depth[g.groups[i]] < Depth[g] /\ Depth[g] \in Nat /\ Depth[g.groups[i]] \in Nat
    BY QueryAssumption
  <1>6. Depth[g] <= Depth[g.groups[i]]
    BY <1>2, <1>3, <1>4
  <1> QED BY <1>5, <1>6

\* F defines a function on the groups from its values on the groups in them.
IsStep(S, F) ==
    /\ S # {} /\ F \in [Groups -> [[Groups -> S] -> S]]
    /\ \A g \in Groups : \A h, k \in [Groups -> S] :
          (\A i \in DOMAIN g.groups : h[g.groups[i]] = k[g.groups[i]]) => F[g][h] = F[g][k]

\* Such a function exists: those that are right down to some depth agree.
LEMMA Recursion ==
    ASSUME NEW S, NEW F, IsStep(S, F)
    PROVE  \E f \in [Groups -> S] : \A g \in Groups : f[g] = F[g][f]
  <1> DEFINE Upto(n) == {h \in [Groups -> S] : \A g \in Groups : Depth[g] < n => h[g] = F[g][h]}
  <1> USE DEF IsStep
  <1>0. \A g \in Groups : Depth[g] \in Nat
    BY QueryAssumption
  <1>1. \A n \in Nat : Upto(n) # {}
    <2> DEFINE T == {n \in Nat : Upto(n) = {}}
    <2> SUFFICES ASSUME T # {} PROVE FALSE
      OBVIOUS
    <2>1. PICK n \in T : \A m \in T : n <= m
      <3>1. T \subseteq Nat
        OBVIOUS
      <3> HIDE DEF T
      <3> QED BY <3>1, LeastNat
    <2>2. n # 0
      <3>1. PICK c \in S : TRUE
        OBVIOUS
      <3>2. [g \in Groups |-> c] \in Upto(0)
        BY <1>0
      <3> QED BY <3>2
    <2>3. n - 1 \in Nat /\ n - 1 \notin T
      <3>1. n \in Nat
        OBVIOUS
      <3> HIDE DEF T
      <3> QED BY <2>1, <2>2, <3>1
    <2>4. PICK h \in Upto(n - 1) : TRUE
      BY <2>3
    <2> DEFINE k == [g \in Groups |-> F[g][h]]
    <2>5. k \in [Groups -> S]
      OBVIOUS
    <2>6. ASSUME NEW g \in Groups, Depth[g] < n PROVE k[g] = F[g][k]
      <3>1. \A i \in DOMAIN g.groups : g.groups[i] \in Groups /\ Depth[g.groups[i]] < n - 1
        BY <1>0, <2>6, QueryAssumption
      <3>2. \A i \in DOMAIN g.groups : k[g.groups[i]] = h[g.groups[i]]
        BY <3>1
      <3>3. h \in [Groups -> S]
        OBVIOUS
      <3> HIDE DEF k, Upto
      <3>4. F[g][k] = F[g][h]
        BY <2>5, <3>2, <3>3 DEF IsStep
      <3> QED BY <3>4 DEF k
    <2>7. k \in Upto(n)
      BY <2>5, <2>6
    <2> QED BY <2>7
  <1>2. ASSUME NEW n \in Nat, NEW m \in Nat, NEW h \in Upto(n), NEW k \in Upto(m), NEW x \in Groups,
               Depth[x] < n, Depth[x] < m
        PROVE  h[x] = k[x]
    <2> DEFINE B == {g \in Groups : Depth[g] < n /\ Depth[g] < m /\ h[g] # k[g]}
    <2>1. ASSUME NEW g \in B PROVE \E i \in DOMAIN g.groups : g.groups[i] \in B
      <3>1. h[g] = F[g][h] /\ k[g] = F[g][k] /\ h[g] # k[g]
        OBVIOUS
      <3>2. PICK i \in DOMAIN g.groups : h[g.groups[i]] # k[g.groups[i]]
        BY <3>1 DEF IsStep
      <3>3. g.groups[i] \in Groups /\ Depth[g.groups[i]] < n /\ Depth[g.groups[i]] < m
        BY <1>0, QueryAssumption
      <3> QED BY <3>2, <3>3
    <2> HIDE DEF Upto
    <2>2. B = {}
      <3> HIDE DEF B
      <3>1. B \subseteq Groups
        BY DEF B
      <3> QED BY <2>1, <3>1, Shallowest
    <2> QED BY <1>2, <2>2
  <1> DEFINE H == [n \in Nat |-> CHOOSE h \in Upto(n) : TRUE]
             f == [g \in Groups |-> H[Depth[g] + 1][g]]
  <1>3. \A n \in Nat : H[n] \in Upto(n)
    <2> HIDE DEF Upto
    <2> QED BY <1>1
  <1>4. f \in [Groups -> S]
    <2>1. ASSUME NEW g \in Groups PROVE H[Depth[g] + 1][g] \in S
      <3>1. H[Depth[g] + 1] \in Upto(Depth[g] + 1)
        <4> HIDE DEF H, Upto
        <4> QED BY <1>0, <1>3
      <3>2. H[Depth[g] + 1] \in [Groups -> S]
        BY <3>1
      <3> HIDE DEF H
      <3> QED BY <3>2
    <2> HIDE DEF H
    <2> QED BY <2>1
  <1>5. ASSUME NEW g \in Groups PROVE f[g] = F[g][f]
    <2> DEFINE n == Depth[g] + 1
    <2>1. n \in Nat /\ H[n] \in Upto(n) /\ Depth[g] < n
      <3> HIDE DEF H, Upto
      <3> QED BY <1>0, <1>3
    <2>2. f[g] = F[g][H[n]]
      BY <2>1
    <2>3. ASSUME NEW i \in DOMAIN g.groups PROVE f[g.groups[i]] = H[n][g.groups[i]]
      <3> DEFINE x == g.groups[i]
      <3>1. x \in Groups /\ Depth[x] < Depth[x] + 1 /\ Depth[x] < n /\ Depth[x] + 1 \in Nat
        BY <1>0, QueryAssumption
      <3>2. H[Depth[x] + 1] \in Upto(Depth[x] + 1)
        BY <1>3, <3>1
      <3> HIDE DEF H, Upto, n, x
      <3>3. H[Depth[x] + 1][x] = H[n][x]
        BY <1>2, <2>1, <3>1, <3>2
      <3> QED BY <3>1, <3>3 DEF x
    <2>4. H[n] \in [Groups -> S]
      BY <2>1
    <2> HIDE DEF f, H, n
    <2>5. F[g][f] = F[g][H[n]]
      BY <1>4, <2>3, <2>4 DEF IsStep
    <2> QED BY <2>2, <2>5
  <1> QED BY <1>4, <1>5

-----------------------------------------------------------------------------
(* What the recursive definitions over groups say.                             *)

KeptBody(x, h) ==
    \/ \E i \in DOMAIN x.filters : Translated(x.filters[i])
    \/ \E i \in DOMAIN x.groups : h[x.groups[i]]

LEMMA KeptIs == \A g \in Groups : Kept[g] = KeptBody(g, Kept)
  <1> DEFINE F == [x \in Groups |-> [h \in [Groups -> BOOLEAN] |-> KeptBody(x, h)]]
  <1>1. IsStep(BOOLEAN, F)
    BY DEF IsStep, KeptBody
  <1>2. PICK f \in [Groups -> BOOLEAN] : \A x \in Groups : f[x] = F[x][f]
    <2> HIDE DEF F
    <2> QED BY <1>1, Recursion
  <1>3. f = [x \in Groups |-> KeptBody(x, f)]
    BY <1>2
  <1>4. Kept = [x \in Groups |-> KeptBody(x, Kept)]
    BY Zenon, <1>3 DEF Kept, KeptBody
  <1> QED BY Zenon, <1>4

NamesVendorsBody(x, h) ==
    \/ \E i \in KeptFilters(x) : Nested(x.filters[i].field)
    \/ \E i \in DOMAIN x.groups : h[x.groups[i]]

LEMMA NamesVendorsIs == \A g \in Groups : NamesVendors[g] = NamesVendorsBody(g, NamesVendors)
  <1> DEFINE F == [x \in Groups |-> [h \in [Groups -> BOOLEAN] |-> NamesVendorsBody(x, h)]]
  <1>1. IsStep(BOOLEAN, F)
    BY DEF IsStep, NamesVendorsBody
  <1>2. PICK f \in [Groups -> BOOLEAN] : \A x \in Groups : f[x] = F[x][f]
    <2> HIDE DEF F
    <2> QED BY <1>1, Recursion
  <1>3. f = [x \in Groups |-> NamesVendorsBody(x, f)]
    BY <1>2
  <1>4. NamesVendors = [x \in Groups |-> NamesVendorsBody(x, NamesVendors)]
    BY Zenon, <1>3 DEF NamesVendors, NamesVendorsBody
  <1> QED BY Zenon, <1>4

RaisesBody(x, h) ==
    \/ \E i \in KeptFilters(x) : x.filters[i].op \in Binary /\ x.filters[i].arg[1] = Null
    \/ \E i \in DOMAIN x.groups : h[x.groups[i]]
    \/ x.op = "not" /\ Cardinality(KeptFilters(x)) + Cardinality(KeptGroups(x)) > 1

LEMMA RaisesIs == \A g \in Groups : Raises[g] = RaisesBody(g, Raises)
  <1> DEFINE F == [x \in Groups |-> [h \in [Groups -> BOOLEAN] |-> RaisesBody(x, h)]]
  <1>1. IsStep(BOOLEAN, F)
    BY DEF IsStep, RaisesBody
  <1>2. PICK f \in [Groups -> BOOLEAN] : \A x \in Groups : f[x] = F[x][f]
    <2> HIDE DEF F
    <2> QED BY <1>1, Recursion
  <1>3. f = [x \in Groups |-> RaisesBody(x, f)]
    BY <1>2
  <1>4. Raises = [x \in Groups |-> RaisesBody(x, Raises)]
    BY Zenon, <1>3 DEF Raises, RaisesBody
  <1> QED BY Zenon, <1>4

\* In memory, and in SQL, on a row.
MatchesBody(row, x, h) ==
    LET parts == {Evaluate(row, x.filters[i]) : i \in DOMAIN x.filters}
                    \union {h[x.groups[i]] : i \in DOMAIN x.groups}
    IN  CASE x.op = "and" -> FALSE \notin parts
          [] x.op = "or"  -> TRUE \in parts
          [] x.op = "not" -> TRUE \notin parts

LEMMA MatchesIs ==
    ASSUME NEW row
    PROVE  \E f \in [Groups -> BOOLEAN] : \A g \in Groups :
              f[g] = Matches(row, g) /\ f[g] = MatchesBody(row, g, f)
  <1> DEFINE F == [x \in Groups |-> [h \in [Groups -> BOOLEAN] |-> MatchesBody(row, x, h)]]
  <1>0. ASSUME NEW x \in Groups, NEW h PROVE MatchesBody(row, x, h) \in BOOLEAN
    <2>1. x.op \in {"and", "or", "not"}
      BY QueryAssumption
    <2>2. CASE x.op = "and"  BY <2>2 DEF MatchesBody
    <2>3. CASE x.op = "or"   BY <2>3 DEF MatchesBody
    <2>4. CASE x.op = "not"  BY <2>4 DEF MatchesBody
    <2> QED BY <2>1, <2>2, <2>3, <2>4
  <1>1. IsStep(BOOLEAN, F)
    <2>2. ASSUME NEW x \in Groups, NEW h, NEW k,
                 \A i \in DOMAIN x.groups : h[x.groups[i]] = k[x.groups[i]]
          PROVE  MatchesBody(row, x, h) = MatchesBody(row, x, k)
      <3>1. {h[x.groups[i]] : i \in DOMAIN x.groups} = {k[x.groups[i]] : i \in DOMAIN x.groups}
        BY <2>2
      <3> QED BY Zenon, <3>1 DEF MatchesBody
    <2> QED BY <1>0, <2>2 DEF IsStep
  <1>2. PICK f \in [Groups -> BOOLEAN] : \A x \in Groups : f[x] = F[x][f]
    <2> HIDE DEF F
    <2> QED BY <1>1, Recursion
  <1>3. f = [x \in Groups |-> MatchesBody(row, x, f)]
    BY <1>2
  <1> DEFINE m == CHOOSE m : m = [x \in Groups |-> MatchesBody(row, x, m)]
  <1>4. m = [x \in Groups |-> MatchesBody(row, x, m)]
    BY Zenon, <1>3
  <1>5. \A g \in Groups : Matches(row, g) = m[g]
    BY Zenon DEF Matches, MatchesBody
  <1> HIDE DEF m
  <1>6. m \in [Groups -> BOOLEAN]
    <2> DEFINE k == [x \in Groups |-> MatchesBody(row, x, m)]
    <2>1. k \in [Groups -> BOOLEAN]
      BY <1>0
    <2> HIDE DEF k
    <2>2. m = k
      BY <1>4 DEF k
    <2> QED BY <2>1, <2>2
  <1>7. \A g \in Groups : m[g] = MatchesBody(row, g, m)
    BY Zenon, <1>4
  <1> QED BY <1>5, <1>6, <1>7

Truths == {"true", "false", "unknown"}
SqlBody(row, v, x, h) ==
    LET parts == {SqlFilter(row, v, x.filters[i]) : i \in KeptFilters(x)}
                    \union {h[x.groups[i]] : i \in KeptGroups(x)}
    IN  CASE x.op = "and" -> AndOf(parts)
          [] x.op = "or"  -> OrOf(parts)
          [] x.op = "not" -> NotOf(AndOf(parts))

LEMMA TruthsAre ==
    /\ \A S : AndOf(S) \in Truths /\ OrOf(S) \in Truths
    /\ \A t \in Truths : NotOf(t) \in Truths
    /\ \A b \in BOOLEAN : Truth(b) \in Truths /\ (Truth(b) = "true" <=> b)
  BY DEF Truths, AndOf, OrOf, NotOf, Truth

LEMMA SqlIs ==
    ASSUME NEW row, NEW v
    PROVE  \E f \in [Groups -> Truths] : \A g \in Groups :
              f[g] = SqlGroup(row, v, g) /\ f[g] = SqlBody(row, v, g, f)
  <1> DEFINE F == [x \in Groups |-> [h \in [Groups -> Truths] |-> SqlBody(row, v, x, h)]]
  <1>0. ASSUME NEW x \in Groups, NEW h PROVE SqlBody(row, v, x, h) \in Truths
    <2>1. x.op \in {"and", "or", "not"}
      BY QueryAssumption
    <2>2. CASE x.op = "and"  BY <2>2, TruthsAre DEF SqlBody
    <2>3. CASE x.op = "or"   BY <2>3, TruthsAre DEF SqlBody
    <2>4. CASE x.op = "not"  BY <2>4, TruthsAre DEF SqlBody
    <2> QED BY <2>1, <2>2, <2>3, <2>4
  <1>1. IsStep(Truths, F)
    <2>1. ASSUME NEW x \in Groups, NEW h, NEW k,
                 \A i \in DOMAIN x.groups : h[x.groups[i]] = k[x.groups[i]]
          PROVE  SqlBody(row, v, x, h) = SqlBody(row, v, x, k)
      <3>1. {h[x.groups[i]] : i \in KeptGroups(x)} = {k[x.groups[i]] : i \in KeptGroups(x)}
        BY <2>1 DEF KeptGroups
      <3> QED BY Zenon, <3>1 DEF SqlBody
    <2>2. Truths # {}
      BY DEF Truths
    <2> QED BY <1>0, <2>1, <2>2 DEF IsStep
  <1>2. PICK f \in [Groups -> Truths] : \A x \in Groups : f[x] = F[x][f]
    <2> HIDE DEF F
    <2> QED BY <1>1, Recursion
  <1>3. f = [x \in Groups |-> SqlBody(row, v, x, f)]
    BY <1>2
  <1> DEFINE m == CHOOSE m : m = [x \in Groups |-> SqlBody(row, v, x, m)]
  <1>4. m = [x \in Groups |-> SqlBody(row, v, x, m)]
    BY Zenon, <1>3
  <1>5. \A g \in Groups : SqlGroup(row, v, g) = m[g]
    BY Zenon DEF SqlGroup, SqlBody
  <1> HIDE DEF m
  <1>6. m \in [Groups -> Truths]
    <2> DEFINE k == [x \in Groups |-> SqlBody(row, v, x, m)]
    <2>1. k \in [Groups -> Truths]
      BY <1>0
    <2> HIDE DEF k
    <2>2. m = k
      BY <1>4 DEF k
    <2> QED BY <2>1, <2>2
  <1>7. \A g \in Groups : m[g] = SqlBody(row, v, g, m)
    BY Zenon, <1>4
  <1> QED BY <1>5, <1>6, <1>7

MissingBody(x, h) ==
    \/ \E i \in DOMAIN x.filters :
         \/ \E id \in DOMAIN table : Value(table[id], x.filters[i].field) = Null
         \/ \E j \in DOMAIN x.filters[i].arg : x.filters[i].arg[j] = Null
    \/ \E i \in DOMAIN x.groups : h[x.groups[i]]

LEMMA MissingIs == \A g \in Groups : Missing[g] = MissingBody(g, Missing)
  <1> DEFINE F == [x \in Groups |-> [h \in [Groups -> BOOLEAN] |-> MissingBody(x, h)]]
  <1>1. IsStep(BOOLEAN, F)
    BY DEF IsStep, MissingBody
  <1>2. PICK f \in [Groups -> BOOLEAN] : \A x \in Groups : f[x] = F[x][f]
    <2> HIDE DEF F
    <2> QED BY <1>1, Recursion
  <1>3. f = [x \in Groups |-> MissingBody(x, f)]
    BY <1>2
  <1>4. Missing = [x \in Groups |-> MissingBody(x, Missing)]
    BY Zenon, <1>3 DEF Missing, MissingBody
  <1> QED BY Zenon, <1>4

SameMeaningBody(x, h) ==
    /\ x.filters # <<>> \/ x.groups # <<>>
    /\ \A i \in DOMAIN x.filters : SameCondition(x.filters[i])
    /\ \A i \in DOMAIN x.groups : h[x.groups[i]]
    /\ x.op = "not" => ~Missing[x]

LEMMA SameMeaningIs == \A g \in Groups : SameMeaning[g] = SameMeaningBody(g, SameMeaning)
  <1> DEFINE F == [x \in Groups |-> [h \in [Groups -> BOOLEAN] |-> SameMeaningBody(x, h)]]
  <1>1. IsStep(BOOLEAN, F)
    BY DEF IsStep, SameMeaningBody
  <1>2. PICK f \in [Groups -> BOOLEAN] : \A x \in Groups : f[x] = F[x][f]
    <2> HIDE DEF F
    <2> QED BY <1>1, Recursion
  <1>3. f = [x \in Groups |-> SameMeaningBody(x, f)]
    BY <1>2
  <1>4. SameMeaning = [x \in Groups |-> SameMeaningBody(x, SameMeaning)]
    BY Zenon, <1>3 DEF SameMeaning, SameMeaningBody
  <1> QED BY Zenon, <1>4

ConjunctiveBody(x, h) ==
    /\ x.op = "and"
    /\ \A i \in DOMAIN x.filters : /\ x.filters[i].relative = "known" => x.filters[i].op = "between"
                                   /\ SameComparison(x.filters[i])
    /\ \A i \in DOMAIN x.groups : h[x.groups[i]]

LEMMA ConjunctiveIs == \A g \in Groups : Conjunctive[g] = ConjunctiveBody(g, Conjunctive)
  <1> DEFINE F == [x \in Groups |-> [h \in [Groups -> BOOLEAN] |-> ConjunctiveBody(x, h)]]
  <1>1. IsStep(BOOLEAN, F)
    BY DEF IsStep, ConjunctiveBody
  <1>2. PICK f \in [Groups -> BOOLEAN] : \A x \in Groups : f[x] = F[x][f]
    <2> HIDE DEF F
    <2> QED BY <1>1, Recursion
  <1>3. f = [x \in Groups |-> ConjunctiveBody(x, f)]
    BY <1>2
  <1>4. Conjunctive = [x \in Groups |-> ConjunctiveBody(x, Conjunctive)]
    BY ZenonT(60), <1>3 DEF Conjunctive, ConjunctiveBody
  <1> QED BY Zenon, <1>4

-----------------------------------------------------------------------------
(* The filters that mean the same in memory and in SQL.                        *)

LEMMA PlaceIs ==
    ASSUME NEW f, NEW x \in Int
    PROVE  Place(f, x) \in Int /\ Place(f, x) # Null
  <1>1. Place(f, x) \in Int
    BY QueryAssumption DEF Place
  <1> QED BY <1>1, QueryAssumption

\* Where the two orders agree they compare alike.
LEMMA ComparedAlike ==
    ASSUME NEW f, NEW x \in Int, NEW y \in Int, NEW op \in Binary,
           x < y <=> Place(f, x) < Place(f, y), y < x <=> Place(f, y) < Place(f, x)
    PROVE  SqlCompare(op, Place(f, x), Place(f, y)) = Truth(Compare(op, x, y))
  <1>1. Place(f, x) \in Int /\ Place(f, x) # Null /\ Place(f, y) \in Int /\ Place(f, y) # Null
    BY PlaceIs
  <1>2. Compare(op, x, y) <=> Compare(op, Place(f, x), Place(f, y))
    BY <1>1 DEF Compare, Binary
  <1> QED BY <1>1, <1>2 DEF SqlCompare, Truth

\* A condition has its values, and its field a value or none.
LEMMA ConditionFacts ==
    ASSUME TypeOK, NEW f \in Filters, NEW id \in DOMAIN table
    PROVE  /\ f.op \in {"lt", "lte", "gte", "eq", "ne", "in", "between", "contains"}
           /\ \A i \in DOMAIN f.arg : f.arg[i] \in Int \union {Null}
           /\ f.op # "in" => DOMAIN f.arg = IF f.op = "between" THEN {1, 2} ELSE {1}
           /\ f.op = "contains" => f.arg[1] # Null
           /\ Value(table[id], f.field) \in Int \union {Null}
  <1>1. /\ f.op \in Operators /\ f.field \in Fields /\ f.arg \in Seq(Int \union {Null})
        /\ f.op # "in" => Len(f.arg) = IF f.op = "between" THEN 2 ELSE 1
        /\ f.op = "contains" => f.arg[1] # Null
    BY DEF Filters
  <1>2. f.op # "in" => DOMAIN f.arg = IF f.op = "between" THEN {1, 2} ELSE {1}
    <2>1. DOMAIN f.arg = 1..Len(f.arg)
      BY <1>1
    <2>2. 1..2 = {1, 2} /\ 1..1 = {1}
      OBVIOUS
    <2> QED BY <1>1, <2>1, <2>2
  <1>3. Value(table[id], f.field) \in Int \union {Null}
    <2>1. IsRow(table[id], id)
      BY DEF TypeOK
    <2> QED BY <1>1, <2>1, QueryAssumption DEF IsRow, Value, Nested, Fields
  <1> QED BY <1>1, <1>2, <1>3 DEF Operators, Binary

\* What a condition says of a value that is there, to both.
LEMMA SqlHolds ==
    ASSUME TypeOK, NEW f \in Filters, f.relative = "no", SameComparison(f), NEW id \in DOMAIN table,
           NEW v, NEW x, x = Value(table[id], f.field), x # Null, Column(table[id], v, f.field) = x,
           NEW t, t = SqlFilter(table[id], v, f)
    PROVE  /\ Holds(x, f) => t = "true"
           /\ (/\ f.op \in {"eq", "ne"} => f.arg[1] # Null
               /\ f.op = "contains" => f.arg[1] # Wild)
                 => /\ t \in Truths /\ (t = "true" => Holds(x, f))
                    /\ (\A j \in DOMAIN f.arg : f.arg[j] # Null) => t # "unknown"
  <1> DEFINE S == ValuesOf(f.field) \union ({f.arg[i] : i \in DOMAIN f.arg} \ {Null})
  <1>1. /\ f.op \in {"lt", "lte", "gte", "eq", "ne", "in", "between", "contains"}
        /\ \A i \in DOMAIN f.arg : f.arg[i] \in Int \union {Null}
        /\ f.op # "in" => DOMAIN f.arg = IF f.op = "between" THEN {1, 2} ELSE {1}
        /\ f.op = "contains" => f.arg[1] # Null
        /\ x \in Int
    BY ConditionFacts
  <1>2. S \subseteq Int /\ x \in S /\ \A i \in DOMAIN f.arg : f.arg[i] # Null => f.arg[i] \in S
    BY <1>1, ConditionFacts DEF ValuesOf
  <1>3. f.op \in Binary \union {"between"} => Alike(f.field, S)
    BY DEF SameComparison
  <1>4. ASSUME NEW op \in Binary, Alike(f.field, S), NEW i \in DOMAIN f.arg, f.arg[i] # Null
        PROVE  SqlCompare(op, Place(f.field, x), Place(f.field, f.arg[i])) = Truth(Compare(op, x, f.arg[i]))
    <2> DEFINE y == f.arg[i]
    <2>1. x \in Int /\ x \in S /\ y \in Int /\ y \in S
      BY <1>2, <1>4
    <2> HIDE DEF S, y
    <2>3. /\ x < y <=> Place(f.field, x) < Place(f.field, y)
          /\ y < x <=> Place(f.field, y) < Place(f.field, x)
      BY <1>4, <2>1 DEF Alike
    <2>2. SqlCompare(op, Place(f.field, x), Place(f.field, y)) = Truth(Compare(op, x, y))
      BY <1>4, <2>1, <2>3, ComparedAlike
    <2> QED BY <2>2 DEF y
  <1> HIDE DEF S
  <1>5. CASE f.op = "eq"
    BY <1>1, <1>5 DEF SqlFilter, Holds, SqlCompare, Compare, Truth, Truths, Binary
  <1>6. CASE f.op = "ne"
    BY <1>1, <1>6 DEF SqlFilter, Holds, SqlCompare, Compare, Truth, Truths, Binary
  <1>7. CASE f.op = "contains"
    BY <1>1, <1>7 DEF SqlFilter, Holds, SqlCompare, Compare, Truth, Truths, Binary
  <1>8. CASE f.op \in Binary
    <2>1. /\ t = SqlCompare(f.op, Place(f.field, x),
                            IF f.arg[1] = Null THEN Null ELSE Place(f.field, f.arg[1]))
          /\ Holds(x, f) <=> f.arg[1] # Null /\ Compare(f.op, x, f.arg[1])
          /\ DOMAIN f.arg = {1} /\ f.op \notin {"eq", "ne", "contains"}
      BY <1>1, <1>8 DEF SqlFilter, Holds, Binary
    <2>2. f.arg[1] # Null => t = Truth(Compare(f.op, x, f.arg[1]))
      BY <1>3, <1>4, <1>8, <2>1
    <2>3. f.arg[1] = Null => t = "unknown"
      BY <2>1 DEF SqlCompare
    <2> QED BY <1>8, <2>1, <2>2, <2>3 DEF Truth, Truths, Binary
  <1>9. CASE f.op = "in"
    <2> DEFINE T == {SqlCompare("eq", x, f.arg[i]) : i \in DOMAIN f.arg}
    <2>1. t = OrOf(T) /\ (Holds(x, f) <=> \E i \in DOMAIN f.arg : x = f.arg[i])
      BY <1>9 DEF SqlFilter, Holds, Binary
    <2>2. \A i \in DOMAIN f.arg :
              SqlCompare("eq", x, f.arg[i]) = IF f.arg[i] = Null THEN "unknown" ELSE Truth(x = f.arg[i])
      BY DEF SqlCompare, Compare
    <2>3. "true" \in T <=> Holds(x, f)
      BY <2>1, <2>2 DEF Truth
    <2>4. (\A i \in DOMAIN f.arg : f.arg[i] # Null) => "unknown" \notin T
      BY <2>2 DEF Truth
    <2> HIDE DEF T
    <2> QED BY <1>9, <2>1, <2>3, <2>4 DEF OrOf, Truths
  <1>10. CASE f.op = "between"
    <2> DEFINE at(y) == IF y = Null THEN Null ELSE Place(f.field, y)
               p == SqlCompare("gte", at(x), at(f.arg[1]))
               q == SqlCompare("lte", at(x), at(f.arg[2]))
    <2>1. /\ t = AndOf({p, q}) /\ DOMAIN f.arg = {1, 2}
          /\ Holds(x, f) <=> /\ f.arg[1] # Null /\ f.arg[2] # Null
                             /\ f.arg[1] <= x /\ x <= f.arg[2]
      BY <1>1, <1>10 DEF SqlFilter, Holds, Binary
    <2>2. p = IF f.arg[1] = Null THEN "unknown" ELSE Truth(Compare("gte", x, f.arg[1]))
      BY <1>3, <1>4, <1>10, <2>1 DEF SqlCompare, Binary
    <2>3. q = IF f.arg[2] = Null THEN "unknown" ELSE Truth(Compare("lte", x, f.arg[2]))
      BY <1>3, <1>4, <1>10, <2>1 DEF SqlCompare, Binary
    <2>4. /\ f.arg[1] # Null => (Compare("gte", x, f.arg[1]) <=> f.arg[1] <= x)
          /\ Compare("lte", x, f.arg[2]) <=> x <= f.arg[2]
      BY <1>1, <2>1 DEF Compare
    <2> HIDE DEF p, q
    <2> QED BY <1>10, <2>1, <2>2, <2>3, <2>4 DEF AndOf, Truth, Truths
  <1> QED BY <1>1, <1>5, <1>6, <1>7, <1>8, <1>9, <1>10 DEF Binary

\* One condition, to both.
LEMMA OwnCondition ==
    ASSUME TypeOK, NEW id \in DOMAIN table, NEW f \in Filters, SameCondition(f)
    PROVE  /\ SqlFilter(table[id], Null, f) \in Truths
           /\ SqlFilter(table[id], Null, f) = "true" <=> Evaluate(table[id], f)
           /\ (/\ Value(table[id], f.field) # Null
               /\ \A j \in DOMAIN f.arg : f.arg[j] # Null)
                 => SqlFilter(table[id], Null, f) # "unknown"
  <1> DEFINE x == Value(table[id], f.field)
             t == SqlFilter(table[id], Null, f)
  <1>1. /\ f.relative = "no" /\ SameComparison(f)
        /\ f.op = "contains" => f.arg[1] # Wild
        /\ f.op \in {"eq", "ne"} => f.arg[1] # Null
        /\ Column(table[id], Null, f.field) = x
    BY DEF SameCondition, Column, Value
  <1>2. Evaluate(table[id], f) <=> x # Null /\ Holds(x, f)
    BY Zenon, <1>1 DEF Evaluate
  <1>3. CASE x # Null
    <2> HIDE DEF x
    <2> QED BY <1>1, <1>2, <1>3, SqlHolds DEF x
  <1>4. CASE x = Null
    <2>1. /\ f.op \in {"lt", "lte", "gte", "eq", "ne", "in", "between", "contains"}
      BY ConditionFacts
    <2>2. \A op, y : SqlCompare(op, x, y) = "unknown" /\ SqlCompare(op, Null, y) = "unknown"
      BY <1>4 DEF SqlCompare
    <2>3. CASE f.op = "in"
      <3> DEFINE T == {SqlCompare("eq", x, f.arg[i]) : i \in DOMAIN f.arg}
      <3>1. t = OrOf(T)
        BY <1>1, <2>3 DEF SqlFilter, Binary
      <3>2. "true" \notin T
        BY <2>2
      <3> HIDE DEF T
      <3> QED BY <1>2, <1>4, <3>1, <3>2 DEF OrOf, Truths
    <2>4. CASE f.op = "between"
      <3>1. t = AndOf({"unknown", "unknown"})
        BY <1>1, <1>4, <2>2, <2>4 DEF SqlFilter, Binary
      <3> QED BY <1>2, <1>4, <3>1 DEF AndOf, Truths
    <2>5. CASE f.op \notin {"in", "between"}
      <3>1. t = "unknown"
        BY <1>1, <1>4, <2>1, <2>2, <2>5 DEF SqlFilter, Binary
      <3> QED BY <1>2, <1>4, <3>1 DEF Truths
    <2> QED BY <2>3, <2>4, <2>5
  <1> QED BY <1>3, <1>4

\* A group means the same to both.
Agrees(g) ==
    /\ Kept[g] /\ ~NamesVendors[g]
    /\ \A id \in DOMAIN table :
          /\ SqlGroup(table[id], Null, g) = "true" <=> Matches(table[id], g)
          /\ ~Missing[g] => SqlGroup(table[id], Null, g) # "unknown"

\* It does if its groups do: the parts are all translated, and NOT has one.
LEMMA MeaningStep ==
    ASSUME TypeOK, NEW g \in Groups, SameMeaning[g], ~Raises[g],
           \A i \in DOMAIN g.groups : Agrees(g.groups[i])
    PROVE  Agrees(g)
  <1>1. /\ g.op \in {"and", "or", "not"} /\ g.filters \in Seq(Filters) /\ g.groups \in Seq(Groups)
    BY QueryAssumption
  <1>2. SameMeaningBody(g, SameMeaning) /\ ~RaisesBody(g, Raises)
    BY SameMeaningIs, RaisesIs
  <1>3. KeptFilters(g) = DOMAIN g.filters /\ KeptGroups(g) = DOMAIN g.groups
    BY <1>2 DEF SameMeaningBody, SameCondition, Translated, KeptFilters, KeptGroups, Agrees
  <1>4. Kept[g]
    <2>1. DOMAIN g.filters # {} \/ DOMAIN g.groups # {}
      BY <1>1, <1>2 DEF SameMeaningBody
    <2>2. KeptBody(g, Kept)
      BY <1>3, <2>1 DEF KeptBody, KeptFilters, KeptGroups
    <2> QED BY <2>2, KeptIs
  <1>5. ~NamesVendors[g]
    <2>1. ~NamesVendorsBody(g, NamesVendors)
      BY <1>2, <1>3 DEF NamesVendorsBody, SameMeaningBody, SameCondition, Agrees
    <2> QED BY <2>1, NamesVendorsIs
  <1>6. ASSUME NEW id \in DOMAIN table
        PROVE  /\ SqlGroup(table[id], Null, g) = "true" <=> Matches(table[id], g)
               /\ ~Missing[g] => SqlGroup(table[id], Null, g) # "unknown"
    <2> DEFINE row == table[id]
    <2>1. PICK s \in [Groups -> Truths] : \A x \in Groups :
              s[x] = SqlGroup(row, Null, x) /\ s[x] = SqlBody(row, Null, x, s)
      BY SqlIs
    <2>2. PICK m \in [Groups -> BOOLEAN] : \A x \in Groups :
              m[x] = Matches(row, x) /\ m[x] = MatchesBody(row, x, m)
      BY MatchesIs
    <2> DEFINE q == {SqlFilter(row, Null, g.filters[i]) : i \in DOMAIN g.filters}
                       \union {s[g.groups[i]] : i \in DOMAIN g.groups}
               p == {Evaluate(row, g.filters[i]) : i \in DOMAIN g.filters}
                       \union {m[g.groups[i]] : i \in DOMAIN g.groups}
    <2>3. \A i \in DOMAIN g.filters :
              /\ SqlFilter(row, Null, g.filters[i]) \in Truths
              /\ SqlFilter(row, Null, g.filters[i]) = "true" <=> Evaluate(row, g.filters[i])
              /\ (/\ Value(row, g.filters[i].field) # Null
                  /\ \A j \in DOMAIN g.filters[i].arg : g.filters[i].arg[j] # Null)
                    => SqlFilter(row, Null, g.filters[i]) # "unknown"
      <3>1. \A i \in DOMAIN g.filters : g.filters[i] \in Filters /\ SameCondition(g.filters[i])
        BY <1>1, <1>2 DEF SameMeaningBody
      <3> QED BY <3>1, OwnCondition
    <2>4. \A i \in DOMAIN g.groups :
              /\ s[g.groups[i]] \in Truths /\ m[g.groups[i]] \in BOOLEAN
              /\ s[g.groups[i]] = "true" <=> m[g.groups[i]]
              /\ ~Missing[g.groups[i]] => s[g.groups[i]] # "unknown"
      BY <1>1, <2>1, <2>2 DEF Agrees
    <2>5. \A i \in DOMAIN g.filters : Evaluate(row, g.filters[i]) \in BOOLEAN
      BY Zenon DEF Evaluate
    <2>6. /\ q \subseteq Truths /\ p \subseteq BOOLEAN
          /\ q \subseteq {"true"} <=> FALSE \notin p
          /\ "true" \in q <=> TRUE \in p
      <3>1. q \subseteq Truths /\ p \subseteq BOOLEAN
        BY <2>3, <2>4, <2>5
      <3>2. q \subseteq {"true"} <=> FALSE \notin p
        BY <2>3, <2>4, <2>5
      <3>3. "true" \in q <=> TRUE \in p
        BY <2>3, <2>4, <2>5
      <3> QED BY <3>1, <3>2, <3>3
    <2>7. ~Missing[g] => "unknown" \notin q
      <3> SUFFICES ASSUME ~Missing[g] PROVE "unknown" \notin q
        OBVIOUS
      <3>1. ~MissingBody(g, Missing)
        BY MissingIs
      <3>2. \A i \in DOMAIN g.filters :
                /\ Value(row, g.filters[i].field) # Null
                /\ \A j \in DOMAIN g.filters[i].arg : g.filters[i].arg[j] # Null
        BY <3>1 DEF MissingBody
      <3>3. \A i \in DOMAIN g.groups : ~Missing[g.groups[i]]
        BY <3>1 DEF MissingBody
      <3> QED BY <2>3, <2>4, <3>2, <3>3
    <2>8. /\ SqlGroup(row, Null, g) = SqlBody(row, Null, g, s)
          /\ Matches(row, g) = MatchesBody(row, g, m)
      BY <2>1, <2>2
    <2>9. CASE g.op = "and"
      <3>1. SqlBody(row, Null, g, s) = AndOf(q)
        BY Zenon, <1>3, <2>9 DEF SqlBody
      <3>2. MatchesBody(row, g, m) = (FALSE \notin p)
        BY Zenon, <2>9 DEF MatchesBody
      <3> HIDE DEF p, q
      <3> QED BY <2>6, <2>7, <2>8, <3>1, <3>2 DEF Truths, AndOf
    <2>10. CASE g.op = "or"
      <3>1. SqlBody(row, Null, g, s) = OrOf(q)
        BY Zenon, <1>3, <2>10 DEF SqlBody
      <3>2. MatchesBody(row, g, m) = (TRUE \in p)
        BY Zenon, <2>10 DEF MatchesBody
      <3> HIDE DEF p, q
      <3> QED BY <2>6, <2>7, <2>8, <3>1, <3>2 DEF Truths, OrOf
    <2>11. CASE g.op = "not"
      <3>1. SqlBody(row, Null, g, s) = NotOf(AndOf(q))
        BY Zenon, <1>3, <2>11 DEF SqlBody
      <3>2. MatchesBody(row, g, m) = (TRUE \notin p)
        BY Zenon, <2>11 DEF MatchesBody
      <3>3. \E x : q = {x}
        <4>1. ~(Cardinality(DOMAIN g.filters) + Cardinality(DOMAIN g.groups) > 1)
          BY <1>2, <1>3, <2>11 DEF RaisesBody
        <4>2. /\ DOMAIN g.filters = 1..Len(g.filters) /\ Len(g.filters) \in Nat
              /\ DOMAIN g.groups = 1..Len(g.groups) /\ Len(g.groups) \in Nat
              /\ Len(g.filters) # 0 \/ Len(g.groups) # 0
          BY <1>1, <1>2 DEF SameMeaningBody
        <4>3. \A n \in Nat : Cardinality(1..n) = n
          BY FS_Interval
        <4>4. \/ DOMAIN g.filters = {1} /\ DOMAIN g.groups = {}
              \/ DOMAIN g.filters = {} /\ DOMAIN g.groups = {1}
          BY <4>1, <4>2, <4>3
        <4>5. CASE DOMAIN g.filters = {1} /\ DOMAIN g.groups = {}
          <5>1. q = {SqlFilter(row, Null, g.filters[1])}
            BY Zenon, <4>5
          <5> QED BY <5>1
        <4>6. CASE DOMAIN g.filters = {} /\ DOMAIN g.groups = {1}
          <5>1. q = {s[g.groups[1]]}
            BY Zenon, <4>6
          <5> QED BY <5>1
        <4> HIDE DEF q
        <4> QED BY <4>4, <4>5, <4>6
      <3>4. "unknown" \notin q
        BY <1>2, <2>7, <2>11 DEF SameMeaningBody
      <3> HIDE DEF p, q
      <3> QED BY <2>6, <2>8, <3>1, <3>2, <3>3, <3>4 DEF Truths, AndOf, NotOf
    <2> QED BY <1>1, <2>9, <2>10, <2>11
  <1> QED BY <1>4, <1>5, <1>6 DEF Agrees

LEMMA Meaning ==
    ASSUME TypeOK, NEW g \in Groups, SameMeaning[g], ~Raises[g]
    PROVE  Agrees(g)
  <1> DEFINE B == {x \in Groups : SameMeaning[x] /\ ~Raises[x] /\ ~Agrees(x)}
  <1>1. ASSUME NEW x \in B PROVE \E i \in DOMAIN x.groups : x.groups[i] \in B
    <2>1. SameMeaningBody(x, SameMeaning) /\ ~RaisesBody(x, Raises) /\ x.groups \in Seq(Groups)
      BY SameMeaningIs, RaisesIs, QueryAssumption
    <2>2. \A i \in DOMAIN x.groups :
              x.groups[i] \in Groups /\ SameMeaning[x.groups[i]] /\ ~Raises[x.groups[i]]
      BY <2>1 DEF SameMeaningBody, RaisesBody
    <2>3. \E i \in DOMAIN x.groups : ~Agrees(x.groups[i])
      BY MeaningStep
    <2> QED BY <2>2, <2>3
  <1>2. B = {}
    <2>1. B \subseteq Groups
      OBVIOUS
    <2> HIDE DEF B
    <2> QED BY <1>1, <2>1, Shallowest
  <1> QED BY <1>2

-----------------------------------------------------------------------------
(* The filters of ANDs.                                                        *)

\* What a conjunctive filter demands of a row in memory, it demands in SQL of the
\* row and its own vendor, if it names vendors, or any.
Demands(id, v, g) ==
    (Conjunctive[g] /\ Matches(table[id], g) /\ (NamesVendors[g] => v = table[id].vendor))
        => SqlGroup(table[id], v, g) = "true" /\ (NamesVendors[g] => table[id].vendor # Null)

LEMMA WeakerCondition ==
    ASSUME TypeOK, NEW id \in DOMAIN table, NEW v, NEW f \in Filters, Translated(f),
           f.relative = "known" => f.op = "between", SameComparison(f),
           Evaluate(table[id], f), Nested(f.field) => v = table[id].vendor
    PROVE  SqlFilter(table[id], v, f) = "true" /\ (Nested(f.field) => table[id].vendor # Null)
  <1> DEFINE x == Value(table[id], f.field)
  <1>1. x # Null /\ Holds(x, f)
    BY DEF Evaluate
  <1>2. f.relative = "no"
    <2>1. f.relative \in {"no", "known", "unknown"} /\ f.relative # "unknown"
      BY DEF Filters, Translated
    <2>2. CASE f.relative = "known"
      <3>1. f.op = "between"
        BY <2>2
      <3>2. ~Holds(x, f)
        BY <2>2, <3>1 DEF Holds, Binary
      <3> QED BY <1>1, <3>2
    <2> QED BY <2>1, <2>2
  <1>3. Nested(f.field) => table[id].vendor # Null
    BY <1>1 DEF Value
  <1>4. Column(table[id], v, f.field) = x
    BY <1>3 DEF Column, Value
  <1> HIDE DEF x
  <1> QED BY <1>1, <1>2, <1>3, <1>4, SqlHolds DEF x

LEMMA WeakerStep ==
    ASSUME TypeOK, NEW id \in DOMAIN table, NEW v, NEW g \in Groups,
           \A i \in DOMAIN g.groups : Demands(id, v, g.groups[i])
    PROVE  Demands(id, v, g)
  <1> DEFINE row == table[id]
  <1> SUFFICES ASSUME Conjunctive[g], Matches(row, g), NamesVendors[g] => v = row.vendor
               PROVE  SqlGroup(row, v, g) = "true" /\ (NamesVendors[g] => row.vendor # Null)
    BY DEF Demands
  <1>1. /\ g.op = "and"
        /\ \A i \in DOMAIN g.groups : g.groups[i] \in Groups /\ Conjunctive[g.groups[i]]
        /\ \A i \in DOMAIN g.filters :
              /\ g.filters[i] \in Filters /\ SameComparison(g.filters[i])
              /\ g.filters[i].relative = "known" => g.filters[i].op = "between"
    <2>1. ConjunctiveBody(g, Conjunctive)
      BY ConjunctiveIs
    <2>2. g.groups \in Seq(Groups) /\ g.filters \in Seq(Filters)
      BY QueryAssumption
    <2> QED BY <2>1, <2>2 DEF ConjunctiveBody
  <1>2. PICK s \in [Groups -> Truths] : \A x \in Groups :
            s[x] = SqlGroup(row, v, x) /\ s[x] = SqlBody(row, v, x, s)
    BY SqlIs
  <1>3. PICK m \in [Groups -> BOOLEAN] : \A x \in Groups :
            m[x] = Matches(row, x) /\ m[x] = MatchesBody(row, x, m)
    BY MatchesIs
  <1>4. FALSE \notin {Evaluate(row, g.filters[i]) : i \in DOMAIN g.filters}
                        \union {m[g.groups[i]] : i \in DOMAIN g.groups}
    <2>1. MatchesBody(row, g, m)
      BY <1>3
    <2> QED BY Zenon, <1>1, <2>1 DEF MatchesBody
  <1>5. \A i \in DOMAIN g.filters : Evaluate(row, g.filters[i])
    <2>1. \A i \in DOMAIN g.filters : Evaluate(row, g.filters[i]) \in BOOLEAN
      BY Zenon DEF Evaluate
    <2> QED BY <1>4, <2>1
  <1>6. \A i \in DOMAIN g.groups : Matches(row, g.groups[i])
    <2> SUFFICES ASSUME NEW i \in DOMAIN g.groups PROVE Matches(row, g.groups[i])
      OBVIOUS
    <2>1. m[g.groups[i]] # FALSE
      BY <1>4
    <2> QED BY <1>1, <1>3, <2>1
  <1>7. NamesVendors[g] <=> NamesVendorsBody(g, NamesVendors)
    BY NamesVendorsIs
  <1>8. \A i \in KeptFilters(g) : /\ SqlFilter(row, v, g.filters[i]) = "true"
                                  /\ Nested(g.filters[i].field) => row.vendor # Null
    BY <1>1, <1>5, <1>7, WeakerCondition DEF KeptFilters, NamesVendorsBody
  <1>9. \A i \in DOMAIN g.groups : /\ s[g.groups[i]] = "true"
                                   /\ NamesVendors[g.groups[i]] => row.vendor # Null
    BY <1>1, <1>2, <1>6, <1>7 DEF Demands, NamesVendorsBody
  <1>10. SqlBody(row, v, g, s) = "true"
    <2> DEFINE q == {SqlFilter(row, v, g.filters[i]) : i \in KeptFilters(g)}
                       \union {s[g.groups[i]] : i \in KeptGroups(g)}
    <2>1. q \subseteq {"true"}
      BY <1>8, <1>9 DEF KeptGroups
    <2>2. SqlBody(row, v, g, s) = AndOf(q)
      BY Zenon, <1>1 DEF SqlBody
    <2> HIDE DEF q
    <2> QED BY <2>1, <2>2 DEF AndOf
  <1>11. NamesVendors[g] => row.vendor # Null
    BY <1>7, <1>8, <1>9 DEF NamesVendorsBody
  <1> QED BY <1>2, <1>10, <1>11

LEMMA Weaker ==
    ASSUME TypeOK, NEW id \in DOMAIN table, NEW v, NEW g \in Groups
    PROVE  Demands(id, v, g)
  <1> DEFINE B == {x \in Groups : ~Demands(id, v, x)}
  <1>1. ASSUME NEW x \in B PROVE \E i \in DOMAIN x.groups : x.groups[i] \in B
    <2>1. \A i \in DOMAIN x.groups : x.groups[i] \in Groups
      BY QueryAssumption
    <2>2. \E i \in DOMAIN x.groups : ~Demands(id, v, x.groups[i])
      BY WeakerStep
    <2> QED BY <2>1, <2>2
  <1>2. B = {}
    <2>1. B \subseteq Groups
      OBVIOUS
    <2> HIDE DEF B
    <2> QED BY <1>1, <2>1, Shallowest
  <1> QED BY <1>2

-----------------------------------------------------------------------------
(* Lists of a set, in the order of ranks.                                      *)

LEMMA LexOrder ==
    ASSUME NEW k \in Nat, NEW p \in [1..k -> Int], NEW q \in [1..k -> Int]
    PROVE  LexLeq(p, p) /\ (LexLeq(p, q) /\ LexLeq(q, p) => p = q)
  <1>1. LexLeq(p, p)
    BY DEF LexLeq
  <1>2. ASSUME LexLeq(p, q), LexLeq(q, p), p # q PROVE FALSE
    <2>1. PICK i \in 1..k : p[i] < q[i] /\ \A j \in 1..(i - 1) : p[j] = q[j]
      BY <1>2 DEF LexLeq
    <2>2. PICK m \in 1..k : q[m] < p[m] /\ \A j \in 1..(m - 1) : q[j] = p[j]
      BY <1>2 DEF LexLeq
    <2>3. CASE i = m  BY <2>1, <2>2, <2>3
    <2>4. CASE i < m
      <3>1. i \in 1..(m - 1)  BY <2>4
      <3> QED BY <2>1, <2>2, <3>1
    <2>5. CASE m < i
      <3>1. m \in 1..(i - 1)  BY <2>5
      <3> QED BY <2>1, <2>2, <3>1
    <2> QED BY <2>3, <2>4, <2>5
  <1> QED BY <1>1, <1>2

LEMMA LexTransitive ==
    ASSUME NEW k \in Nat, NEW p \in [1..k -> Int], NEW q \in [1..k -> Int], NEW r \in [1..k -> Int],
           LexLeq(p, q), LexLeq(q, r)
    PROVE  LexLeq(p, r)
  <1>1. CASE p = q \/ q = r
    BY <1>1
  <1>2. CASE ~(p = q \/ q = r)
    <2>1. PICK i \in 1..k : p[i] < q[i] /\ \A j \in 1..(i - 1) : p[j] = q[j]
      BY <1>2 DEF LexLeq
    <2>2. PICK m \in 1..k : q[m] < r[m] /\ \A j \in 1..(m - 1) : q[j] = r[j]
      BY <1>2 DEF LexLeq
    <2> DEFINE n == IF i <= m THEN i ELSE m
    <2>3. n \in 1..k /\ n <= i /\ n <= m /\ (n = i \/ n = m)
      BY <2>1, <2>2
    <2> HIDE DEF n
    <2>4. p[n] < r[n]
      <3>1. n < i => p[n] = q[n]
        BY <2>1, <2>3
      <3>2. n < m => q[n] = r[n]
        BY <2>2, <2>3
      <3> QED BY <2>1, <2>2, <2>3, <3>1, <3>2
    <2>5. \A j \in 1..(n - 1) : p[j] = r[j]
      <3> SUFFICES ASSUME NEW j \in 1..(n - 1) PROVE p[j] = r[j]
        OBVIOUS
      <3>1. j \in 1..(i - 1) /\ j \in 1..(m - 1)
        BY <2>3
      <3> QED BY <2>1, <2>2, <3>1
    <2> QED BY <2>3, <2>4, <2>5 DEF LexLeq
  <1> QED BY <1>1, <1>2

\* A list of n elements of A, each once.
Lists(A, n, s) == s \in [1..n -> A] /\ \A i, j \in 1..n : i # j => s[i] # s[j]

\* Ranks of k numbers each.
AreRanks(A, k, R) == R \in [A -> [1..k -> Int]]

\* And in the order of the ranks.
Sorted(A, n, R, s) ==
    /\ Lists(A, n, s)
    /\ \A i, j \in 1..n : i < j => LexLeq(R[s[i]], R[s[j]])

LEMMA Onto ==
    ASSUME NEW A, NEW n \in Nat, IsFiniteSet(A), Cardinality(A) = n, NEW s, Lists(A, n, s)
    PROVE  \A a \in A : \E i \in 1..n : s[i] = a
  <1>1. s \in Injection(1..n, A)
    BY DEF Lists, Injection, IsInjective
  <1>2. IsFiniteSet(1..n) /\ Cardinality(1..n) = n
    BY FS_Interval
  <1>3. s \in Surjection(1..n, A)
    BY <1>1, <1>2, FS_Injection
  <1> QED BY <1>3 DEF Surjection

Firsts(s, i) == {s[j] : j \in 1..i}

LEMMA Prefix ==
    ASSUME NEW A, NEW n \in Nat, NEW s, Lists(A, n, s), NEW i \in 0..n
    PROVE  IsFiniteSet(Firsts(s, i)) /\ Cardinality(Firsts(s, i)) = i
  <1> DEFINE f == [j \in 1..i |-> s[j]]  T == {s[j] : j \in 1..i}
  <1>1. f \in Bijection(1..i, T)
    <2>1. \A j, k \in 1..i : j # k => s[j] # s[k]
      BY DEF Lists
    <2> QED BY <2>1 DEF Bijection, Injection, Surjection, IsInjective
  <1>2. IsFiniteSet(1..i) /\ Cardinality(1..i) = i
    BY FS_Interval
  <1> QED BY <1>1, <1>2, FS_Bijection DEF ExistsBijection, Firsts

\* At each place, one list ranks no higher than another.
LEMMA SortedBelow ==
    ASSUME NEW A, NEW n \in Nat, IsFiniteSet(A), Cardinality(A) = n,
           NEW k \in Nat, NEW R, AreRanks(A, k, R),
           NEW s, NEW t, Sorted(A, n, R, s), Sorted(A, n, R, t), NEW i \in 1..n
    PROVE  LexLeq(R[s[i]], R[t[i]])
  <1>1. /\ Lists(A, n, s) /\ Lists(A, n, t)
        /\ \A x, y \in 1..n : x <= y => LexLeq(R[s[x]], R[s[y]]) /\ LexLeq(R[t[x]], R[t[y]])
    <2>1. Lists(A, n, s) /\ Lists(A, n, t)
      BY DEF Sorted
    <2> SUFFICES ASSUME NEW x \in 1..n, NEW y \in 1..n, x <= y
                 PROVE  LexLeq(R[s[x]], R[s[y]]) /\ LexLeq(R[t[x]], R[t[y]])
      BY <2>1
    <2>2. CASE x = y  BY <2>2 DEF LexLeq
    <2>3. CASE x < y  BY <2>3 DEF Sorted
    <2> QED BY <2>2, <2>3
  <1> DEFINE T == Firsts(t, i)  S == Firsts(s, i - 1)
  <1>2. IsFiniteSet(T) /\ Cardinality(T) = i
    <2>1. i \in 0..n
      OBVIOUS
    <2> QED BY <1>1, <2>1, Prefix
  <1>3. IsFiniteSet(S) /\ Cardinality(S) = i - 1
    <2>1. i - 1 \in 0..n
      OBVIOUS
    <2> QED BY <1>1, <2>1, Prefix
  <1>4. ~(T \subseteq S)
    <2> HIDE DEF T, S
    <2>1. T \subseteq S => Cardinality(T) <= Cardinality(S)
      BY <1>3, FS_Subset
    <2> QED BY <1>2, <1>3, <2>1
  <1>5. PICK j \in 1..i : t[j] \notin S
    BY <1>4 DEF Firsts
  <1>6. PICK m \in 1..n : s[m] = t[j]
    <2>1. j \in 1..n /\ t[j] \in A
      BY <1>1 DEF Lists
    <2> QED BY <1>1, <2>1, Onto
  <1>7. i <= m /\ j <= i /\ j \in 1..n
    BY <1>5, <1>6 DEF Firsts
  <1>8. \A x \in 1..n : R[s[x]] \in [1..k -> Int] /\ R[t[x]] \in [1..k -> Int]
    BY <1>1 DEF Lists, AreRanks
  <1>9. LexLeq(R[s[i]], R[s[m]]) /\ LexLeq(R[t[j]], R[t[i]])
    BY <1>1, <1>7
  <1> HIDE DEF T, S
  <1>10. LexLeq(R[s[i]], R[t[j]])
    BY <1>6, <1>9
  <1> QED BY <1>7, <1>8, <1>9, <1>10, LexTransitive

\* At each place, two lists have the same rank.
LEMMA SortedAlike ==
    ASSUME NEW A, NEW n \in Nat, IsFiniteSet(A), Cardinality(A) = n,
           NEW k \in Nat, NEW R, AreRanks(A, k, R),
           NEW s, NEW t, Sorted(A, n, R, s), Sorted(A, n, R, t), NEW i \in 1..n
    PROVE  R[s[i]] = R[t[i]]
  <1>1. s[i] \in A /\ t[i] \in A
    BY DEF Sorted, Lists
  <1>2. LexLeq(R[s[i]], R[t[i]]) /\ LexLeq(R[t[i]], R[s[i]])
    BY SortedBelow
  <1>3. R[s[i]] \in [1..k -> Int] /\ R[t[i]] \in [1..k -> Int]
    BY <1>1 DEF AreRanks
  <1> QED BY <1>2, <1>3, LexOrder

-----------------------------------------------------------------------------
(* The order of the pages.  The request asks for an order that tells any two   *)
(* rows apart, so each row has a position, and an arrangement lists the rows    *)
(* by it.                                                                      *)

Ordered == OwnFilter /\ UniqueOrder

\* How SQL ranks the row of an answer among those of the table t.
RankIn(t, o) == [i \in DOMAIN config.sort |->
                    IF InSql(config.sort[i].field)
                    THEN Rank(Placed(t[o[1]], o[2], config.sort[i].field), config.sort[i].dir)
                    ELSE 0]

UpTo(t, A, o)     == {y \in A : LexLeq(RankIn(t, y), RankIn(t, o))}
Position(t, A, o) == Cardinality(UpTo(t, A, o))

LEMMA RowOf ==
    ASSUME TypeOK, NEW o \in Answered
    PROVE  /\ o \in (DOMAIN table) \X Joined(config.filters)
           /\ o[1] \in DOMAIN table /\ o[1] \in Int /\ IsRow(table[o[1]], o[1])
  BY DEF Answered, Answer, TypeOK

LEMMA OwnAnswer ==
    ASSUME TypeOK, Ordered, NEW o \in Answered
    PROVE  o = <<o[1], Null>> /\ o[1] \in DOMAIN table /\ o[1] \in Int
  <1>1. Joined(config.filters) = {Null}
    BY DEF Ordered, OwnFilter, Joined
  <1> QED BY <1>1, RowOf

\* The keys of the order are fields; their values are numbers, or missing.
LEMMA KeyFacts ==
    ASSUME TypeOK, NEW i \in DOMAIN config.sort
    PROVE  config.sort[i].field \in Fields /\ config.sort[i].dir \in {"asc", "desc"}
  <1> DEFINE R == [field : Fields, dir : {"asc", "desc"}]
  <1>1. config.sort \in Seq(R)
    BY ConfigFacts
  <1> HIDE DEF R
  <1>2. config.sort[i] \in R
    BY <1>1
  <1>3. config.sort[i] \in [field : Fields, dir : {"asc", "desc"}]
    BY <1>2 DEF R
  <1> QED BY <1>3

LEMMA KeyRanks ==
    ASSUME TypeOK, NEW id \in DOMAIN table, NEW i \in DOMAIN config.sort,
           ~Nested(config.sort[i].field), NEW d, NEW v
    PROVE  /\ table[id][config.sort[i].field] \in Int \union {Null}
           /\ Rank(table[id][config.sort[i].field], d) \in Int
           /\ Rank(Placed(table[id], v, config.sort[i].field), d) \in Int
  <1>1. config.sort[i].field \in {"id", "amount", "name", "address"}
    BY KeyFacts DEF Fields, Nested
  <1>2. IsRow(table[id], id)
    BY DEF TypeOK
  <1>3. table[id][config.sort[i].field] \in Int \union {Null}
    BY <1>1, <1>2 DEF IsRow
  <1>4. Placed(table[id], v, config.sort[i].field) \in Int \union {Null}
    BY <1>3, PlaceIs DEF Placed, Column
  <1> QED BY <1>3, <1>4, QueryAssumption DEF Rank

LEMMA RanksAreNumbers ==
    ASSUME TypeOK, UniqueOrder, NEW o \in Answered
    PROVE  RankIn(table, o) \in [1..Len(config.sort) -> Int]
  <1>1. DOMAIN config.sort = 1..Len(config.sort)
    BY ConfigFacts
  <1>2. ASSUME NEW i \in DOMAIN config.sort PROVE RankIn(table, o)[i] \in Int
    <2>1. ~Nested(config.sort[i].field) /\ o[1] \in DOMAIN table
      BY RowOf DEF UniqueOrder
    <2>2. Rank(Placed(table[o[1]], o[2], config.sort[i].field), config.sort[i].dir) \in Int
      BY <2>1, KeyRanks
    <2> QED BY <2>1, <2>2 DEF RankIn
  <1>3. RankIn(table, o) = [i \in 1..Len(config.sort) |-> RankIn(table, o)[i]]
    BY <1>1 DEF RankIn
  <1> QED BY <1>1, <1>2, <1>3

\* What ranks alike is of one row.
LEMMA RanksDiffer ==
    ASSUME TypeOK, UniqueOrder, NEW x \in Answered, NEW y \in Answered,
           RankIn(table, x) = RankIn(table, y)
    PROVE  x[1] = y[1]
  <1>1. PICK i \in DOMAIN config.sort : config.sort[i].field = "id"
    BY DEF UniqueOrder
  <1>2. \A o \in Answered : RankIn(table, o)[i] = IF config.sort[i].dir = "asc" THEN o[1] ELSE -o[1]
    <2> SUFFICES ASSUME NEW o \in Answered
                 PROVE  RankIn(table, o)[i] = IF config.sort[i].dir = "asc" THEN o[1] ELSE -o[1]
      OBVIOUS
    <2>1. IsRow(table[o[1]], o[1]) /\ o[1] \in Int /\ o[1] # Null
      BY RowOf, QueryAssumption
    <2>2. RankIn(table, o)[i] = Rank(o[1], config.sort[i].dir)
      BY <1>1, <2>1 DEF RankIn, InSql, Placed, Place, Collated, Column, Nested, IsRow
    <2> QED BY <2>1, <2>2 DEF Rank
  <1> QED BY <1>2, RowOf

\* The order of the ranks is one of the rows.
LEMMA LexFacts ==
    ASSUME TypeOK, Ordered, NEW x \in Answered, NEW y \in Answered
    PROVE  /\ LexLeq(RankIn(table, x), RankIn(table, x))
           /\ (/\ LexLeq(RankIn(table, x), RankIn(table, y))
               /\ LexLeq(RankIn(table, y), RankIn(table, x))) => x = y
  <1>1. Len(config.sort) \in Nat /\ UniqueOrder
    BY ConfigFacts DEF Ordered
  <1>2. /\ RankIn(table, x) \in [1..Len(config.sort) -> Int]
        /\ RankIn(table, y) \in [1..Len(config.sort) -> Int]
    BY <1>1, RanksAreNumbers
  <1>3. RankIn(table, x) = RankIn(table, y) => x = y
    BY <1>1, RanksDiffer, OwnAnswer
  <1> QED BY <1>1, <1>2, <1>3, LexOrder

\* What an arrangement is.
LEMMA Arranged ==
    ASSUME TypeOK, NEW s \in SqlArrangements(table, Answered, config.sort)
    PROVE  /\ s \in [1..Cardinality(Answered) -> Answered]
           /\ \A i, j \in DOMAIN s : i # j => s[i] # s[j]
           /\ \A i, j \in DOMAIN s : i < j => LexLeq(RankIn(table, s[i]), RankIn(table, s[j]))
  <1>1. s \in [1..Cardinality(Answered) -> Answered]
    BY Zenon DEF SqlArrangements, Arrangements
  <1>2. \A i, j \in DOMAIN s : i # j => s[i] # s[j]
    BY Zenon DEF SqlArrangements, Arrangements
  <1>3. \A i, j \in DOMAIN s : i < j => LexLeq(RankIn(table, s[i]), RankIn(table, s[j]))
    BY Zenon DEF SqlArrangements, Arrangements, RankIn
  <1> QED BY <1>1, <1>2, <1>3

LEMMA ArrangedLists ==
    ASSUME TypeOK, NEW s \in SqlArrangements(table, Answered, config.sort)
    PROVE  /\ Lists(Answered, Cardinality(Answered), s)
           /\ \A o \in Answered : \E i \in DOMAIN s : s[i] = o
           /\ Len(s) = Cardinality(Answered) /\ Len(s) \in Nat /\ DOMAIN s = 1..Len(s)
           /\ \A i \in DOMAIN s : s[i] \in Answered
  <1>1. /\ s \in [1..Cardinality(Answered) -> Answered] /\ Cardinality(Answered) \in Nat
        /\ Len(s) = Cardinality(Answered) /\ DOMAIN s = 1..Cardinality(Answered)
    BY Arranged, AnswerFinite
  <1>2. Lists(Answered, Cardinality(Answered), s)
    BY <1>1, Arranged DEF Lists
  <1> QED BY <1>1, <1>2, AnswerFinite, Onto

\* It lists every row, at its position.
LEMMA Positions ==
    ASSUME TypeOK, Ordered, NEW s \in SqlArrangements(table, Answered, config.sort)
    PROVE  /\ \A i \in DOMAIN s : Position(table, Answered, s[i]) = i
           /\ \A o \in Answered : \E i \in DOMAIN s : s[i] = o
           /\ Len(s) = Cardinality(Answered) /\ Len(s) \in Nat /\ DOMAIN s = 1..Len(s)
  <1> DEFINE n == Cardinality(Answered)
  <1>1. /\ Lists(Answered, n, s) /\ n \in Nat /\ DOMAIN s = 1..n
        /\ \A i \in 1..n : s[i] \in Answered
    BY ArrangedLists, AnswerFinite
  <1>2. \A o \in Answered : \E i \in 1..n : s[i] = o
    BY <1>1, ArrangedLists
  <1>3. ASSUME NEW i \in 1..n PROVE Position(table, Answered, s[i]) = i
    <2>1. UpTo(table, Answered, s[i]) = Firsts(s, i)
      <3>1. ASSUME NEW o \in Answered, LexLeq(RankIn(table, o), RankIn(table, s[i]))
            PROVE  \E j \in 1..i : o = s[j]
        <4>1. PICK j \in 1..n : s[j] = o
          BY <1>2
        <4>2. CASE j > i
          <5>1. LexLeq(RankIn(table, s[i]), RankIn(table, s[j]))
            BY <1>1, <4>2, Arranged
          <5>2. s[i] \in Answered
            BY <1>1
          <5>3. o = s[i]
            BY <3>1, <4>1, <5>1, <5>2, LexFacts
          <5> QED BY <5>3
        <4> QED BY <4>1, <4>2
      <3>2. ASSUME NEW j \in 1..i
            PROVE  s[j] \in Answered /\ LexLeq(RankIn(table, s[j]), RankIn(table, s[i]))
        <4>1. j \in 1..n /\ s[j] \in Answered
          BY <1>1
        <4>2. CASE j = i  BY <4>1, <4>2, LexFacts
        <4>3. CASE j < i  BY <1>1, <4>1, <4>3, Arranged
        <4> QED BY <4>1, <4>2, <4>3
      <3> QED BY <3>1, <3>2 DEF UpTo, Firsts
    <2>2. i \in 0..n
      BY <1>1
    <2>3. Cardinality(Firsts(s, i)) = i
      BY <1>1, <2>2, Prefix
    <2> QED BY <2>1, <2>3 DEF Position
  <1> QED BY <1>1, <1>3, ArrangedLists

\* However the database arranges what ranks alike, the rows come in one order.
LEMMA OneOrder ==
    ASSUME TypeOK, UniqueOrder, NEW s \in SqlArrangements(table, Answered, config.sort),
           NEW t \in SqlArrangements(table, Answered, config.sort), NEW i \in DOMAIN s
    PROVE  s[i][1] = t[i][1]
  <1> DEFINE n == Cardinality(Answered)
             R == [o \in Answered |-> RankIn(table, o)]
  <1>1. n \in Nat /\ IsFiniteSet(Answered) /\ Len(config.sort) \in Nat /\ i \in 1..n
        /\ s[i] \in Answered /\ t[i] \in Answered
    <2>1. DOMAIN s = 1..n /\ DOMAIN t = 1..n /\ n \in Nat
      BY ArrangedLists
    <2>2. s[i] \in Answered /\ t[i] \in Answered
      BY <2>1, ArrangedLists
    <2> QED BY <2>1, <2>2, AnswerFinite, ConfigFacts
  <1>2. AreRanks(Answered, Len(config.sort), R)
    BY RanksAreNumbers DEF AreRanks
  <1>3. ASSUME NEW u \in SqlArrangements(table, Answered, config.sort)
        PROVE  Sorted(Answered, n, R, u)
    <2>1. Lists(Answered, n, u) /\ DOMAIN u = 1..n /\ \A x \in 1..n : u[x] \in Answered
      BY ArrangedLists
    <2>2. \A x, y \in 1..n : x < y => LexLeq(RankIn(table, u[x]), RankIn(table, u[y]))
      BY <2>1, Arranged
    <2> QED BY <2>1, <2>2 DEF Sorted
  <1>4. Sorted(Answered, n, R, s) /\ Sorted(Answered, n, R, t)
    BY <1>3
  <1>5. Cardinality(Answered) = n
    OBVIOUS
  <1> HIDE DEF R, n
  <1>6. R[s[i]] = R[t[i]]
    BY <1>1, <1>2, <1>4, <1>5, SortedAlike
  <1> QED BY <1>1, <1>6, RanksDiffer DEF R

-----------------------------------------------------------------------------
(* How changes of the rows move the positions.                                *)

\* A row of the smaller answer comes no later in it than in the larger one.
LEMMA PositionGrows ==
    ASSUME NEW t, NEW u, NEW A, NEW B, A \subseteq B, IsFiniteSet(B), NEW o \in A,
           \A x \in A : RankIn(t, x) = RankIn(u, x)
    PROVE  /\ Position(t, A, o) \in Nat /\ Position(u, B, o) \in Nat
           /\ Position(t, A, o) <= Position(u, B, o)
  <1>1. UpTo(t, A, o) \subseteq UpTo(u, B, o) /\ UpTo(u, B, o) \subseteq B
    BY DEF UpTo
  <1>2. IsFiniteSet(UpTo(u, B, o))
    BY <1>1, FS_Subset
  <1>3. IsFiniteSet(UpTo(t, A, o)) /\ Cardinality(UpTo(t, A, o)) <= Cardinality(UpTo(u, B, o))
    BY <1>1, <1>2, FS_Subset
  <1> QED BY <1>2, <1>3, FS_CardinalityType DEF Position

LEMMA SameConfig ==
    ASSUME UNCHANGED config
    PROVE  /\ Ordered' = Ordered /\ Answered' = Answer(table', config.filters)
           /\ \A o : Position(table, Answered, o)' = Position(table', Answered', o)
  <1>1. Ordered' = Ordered
    BY Zenon DEF Ordered, OwnFilter, UniqueOrder
  <1>2. Answered' = Answer(table', config.filters)
    BY Zenon DEF Answered
  <1>3. ASSUME NEW o PROVE Position(table, Answered, o)' = Position(table', Answered', o)
    BY Zenon DEF Position, UpTo, RankIn
  <1> QED BY <1>1, <1>2, <1>3

\* What the rows that stay share.
LEMMA RowsThatStay ==
    ASSUME TypeOK, Ordered, UNCHANGED config, NEW o \in Answered,
           o[1] \in DOMAIN table', table'[o[1]] = table[o[1]]
    PROVE  o \in Answered' /\ RankIn(table', o) = RankIn(table, o)
  <1>1. o \in (DOMAIN table') \X Joined(config.filters)
    BY DEF Answered, Answer
  <1>2. o \in Answer(table', config.filters)
    BY <1>1 DEF Answered, Answer
  <1>3. RankIn(table', o) = RankIn(table, o)
    BY Zenon DEF RankIn
  <1> QED BY <1>2, <1>3, SameConfig

LEMMA InsertMoves ==
    ASSUME TypeOK, TypeOK', Ordered, NEW id \in DOMAIN NewRows, Insert(id)
    PROVE  /\ \A o \in Answered' : o \in Answered \/ o[1] = id
           /\ \A o \in Answered : Position(table, Answered, o) <= Position(table, Answered, o)'
           /\ \A o \in Answered : /\ Position(table, Answered, o) \in Nat
                                  /\ Position(table, Answered, o)' \in Nat
  <1>1. UNCHANGED config /\ DOMAIN table' = DOMAIN table \union {id}
        /\ \A i \in DOMAIN table : i \in DOMAIN table' /\ table'[i] = table[i]
    BY DEF Insert, ChangeRows
  <1>2. ASSUME NEW o \in Answered PROVE o \in Answered' /\ RankIn(table, o) = RankIn(table', o)
    BY <1>1, OwnAnswer, RowsThatStay
  <1>3. IsFiniteSet(Answered')
    <2>1. IsFiniteSet(DOMAIN table')
      BY DEF TypeOK
    <2> QED BY <1>1, <2>1, AnswerOf, SameConfig
  <1>4. ASSUME NEW o \in Answered', o[1] # id PROVE o \in Answered
    <2>1. o \in Answer(table', config.filters)
      BY <1>1, SameConfig
    <2>2. o \in (DOMAIN table') \X Joined(config.filters) /\ o[1] \in DOMAIN table
      BY <1>1, <1>4, <2>1 DEF Answer
    <2>3. o \in (DOMAIN table) \X Joined(config.filters)
      BY <2>2
    <2> QED BY <1>1, <2>1, <2>2, <2>3 DEF Answer, Answered
  <1>5. ASSUME NEW o \in Answered
        PROVE  /\ Position(table, Answered, o) <= Position(table', Answered', o)
               /\ Position(table, Answered, o) \in Nat /\ Position(table', Answered', o) \in Nat
    BY <1>2, <1>3, PositionGrows
  <1> QED BY <1>1, <1>4, <1>5, SameConfig

LEMMA DeleteMoves ==
    ASSUME TypeOK, TypeOK', Ordered, NEW id \in DOMAIN table, Delete(id)
    PROVE  /\ Answered' \subseteq Answered
           /\ \A o \in Answered' : Position(table, Answered, o)' <= Position(table, Answered, o)
           /\ \A o \in Answered' : /\ Position(table, Answered, o) \in Nat
                                   /\ Position(table, Answered, o)' \in Nat
  <1>1. UNCHANGED config /\ DOMAIN table' = DOMAIN table \ {id}
        /\ \A i \in DOMAIN table' : i \in DOMAIN table /\ table'[i] = table[i]
    BY DEF Delete, ChangeRows
  <1>2. ASSUME NEW o \in Answered'
        PROVE  o \in Answered /\ RankIn(table', o) = RankIn(table, o)
    <2>1. o \in Answer(table', config.filters)
      BY <1>1, SameConfig
    <2>2. o \in (DOMAIN table') \X Joined(config.filters) /\ o[1] \in DOMAIN table'
      BY <2>1 DEF Answer
    <2>3. o \in (DOMAIN table) \X Joined(config.filters)
      BY <1>1, <2>2
    <2>4. o \in Answered
      BY <1>1, <2>1, <2>2, <2>3 DEF Answer, Answered
    <2> QED BY <1>1, <2>2, <2>4, RowsThatStay
  <1>3. IsFiniteSet(Answered)
    BY AnswerFinite
  <1>4. ASSUME NEW o \in Answered'
        PROVE  /\ Position(table', Answered', o) <= Position(table, Answered, o)
               /\ Position(table, Answered, o) \in Nat /\ Position(table', Answered', o) \in Nat
    <2>1. Answered' \subseteq Answered /\ \A x \in Answered' : RankIn(table', x) = RankIn(table, x)
      BY <1>2
    <2> HIDE <1>2
    <2> QED BY <1>3, <2>1, PositionGrows
  <1> QED BY <1>1, <1>2, <1>4, SameConfig

-----------------------------------------------------------------------------
(* What the pages read so far are, for each kind of changes meanwhile.         *)

\* Rows that are not in the file yet are still to come.
NoneSkipped(e) == Only(e, "insert") /\ Whole =>
    \A o \in Answered : \/ o[1] \in Ids(out[e]) \union Changed(e, "insert")
                        \/ pc[e] = "paging" /\ Position(table, Answered, o) > Len(out[e])

\* Rows that are in the file are not to come again.
NoneRepeated(e) == Only(e, "delete") =>
    /\ \A i, j \in DOMAIN out[e] : i # j => out[e][i] # out[e][j]
    /\ \A o \in Answered : o[1] \in Ids(out[e]) =>
          Position(table, Answered, o) <= config.offset + Len(out[e])

\* The file is at its limit, or no row is left.
AllRead(e) == \/ config.limit # Null /\ Len(out[e]) = config.limit
              \/ config.offset + Len(out[e]) >= Cardinality(Answered)

\* The file has no more rows than there are after the offset.
Counted(e) == since[e] = {} =>
    /\ Len(out[e]) = 0 \/ config.offset + Len(out[e]) <= Cardinality(Answered)
    /\ pc[e] = "written" => AllRead(e) /\ SqlArrangements(table, Answered, config.sort) # {}

\* The file is the slice of the rows so far, in whichever order the database
\* arranges those that rank alike.
Exact(e) == since[e] = {} =>
    \A s \in SqlArrangements(table, Answered, config.sort), i \in DOMAIN out[e] :
        out[e][i] = s[config.offset + i][1]

PagesOf(e) ==
    /\ pc[e] = "idle" => out[e] = <<>> /\ since[e] = {}
    /\ (config.format = "csv" /\ pc[e] \in {"paging", "written"}) =>
          /\ Accepted /\ Counted(e)
          /\ UniqueOrder => Exact(e)
          /\ Ordered => NoneSkipped(e) /\ NoneRepeated(e)

PagesInv == \A e \in Executions : PagesOf(e)

LEMMA Appended ==
    ASSUME NEW p \in Seq(Int), NEW q \in Seq(Int)
    PROVE  /\ p \o q \in Seq(Int) /\ Len(p \o q) = Len(p) + Len(q)
           /\ \A i \in 1..Len(p) : (p \o q)[i] = p[i]
           /\ \A i \in 1..Len(q) : (p \o q)[Len(p) + i] = q[i]
  OBVIOUS

\* A page adds the next rows of an arrangement to the file.
LEMMA PageAdds ==
    ASSUME TypeOK, NEW e \in Executions, Page(e)
    PROVE  \E s \in SqlArrangements(table, Answered, config.sort), m \in Nat :
             /\ out'[e] \in Seq(Int) /\ Len(out'[e]) = Len(out[e]) + m
             /\ (config.offset + Len(out[e]) + m <= Len(s) \/ m = 0)
             /\ \A i \in 1..Len(out[e]) : out'[e][i] = out[e][i]
             /\ \A i \in 1..m : out'[e][Len(out[e]) + i] = s[config.offset + Len(out[e]) + i][1]
             /\ pc'[e] \in {"paging", "written"}
             /\ pc'[e] = "written" => \/ config.limit # Null /\ Len(out[e]) + m = config.limit
                                      \/ config.offset + Len(out[e]) + m >= Len(s)
  <1> DEFINE size == IF config.limit = Null THEN PageSize
                     ELSE Least(PageSize, config.limit - Len(out[e]))
  <1>1. PICK s \in SqlArrangements(table, Answered, config.sort) : ReadPage(e, s)
    BY DEF Page
  <1> DEFINE from == config.offset + Len(out[e])
             page == Slice(s, from, size)
             ids  == [i \in DOMAIN page |-> page[i][1]]
             m    == Len(page)
  <1>2. s \in Seq(Answered) /\ Len(s) \in Nat
    BY AnswerFinite, SqlArranged
  <1>3. out[e] \in Seq(Int) /\ Len(out[e]) \in Nat /\ from \in Nat
    BY ConfigFacts DEF TypeOK
  <1>4. size \in Nat /\ (config.limit # Null => Len(out[e]) + size <= config.limit)
    <2>1. CASE config.limit = Null
      BY <2>1, ExportAssumption
    <2>2. CASE config.limit # Null
      <3>1. config.limit \in Nat /\ Len(out[e]) <= config.limit
        BY <2>2, ConfigFacts DEF TypeOK
      <3> QED BY <1>3, <2>2, <3>1, ExportAssumption DEF Least
    <2> QED BY <2>1, <2>2
  <1>5. /\ page \in Seq(Answered) /\ m \in Nat /\ DOMAIN page = 1..m
        /\ \A i \in 1..m : page[i] = s[from + i]
        /\ m <= size /\ (from + m <= Len(s) \/ m = 0)
        /\ (m < size => from + m >= Len(s))
    <2> DEFINE k == IF from + size <= Len(s) THEN size
                    ELSE IF from <= Len(s) THEN Len(s) - from ELSE 0
    <2> HIDE DEF size, from
    <2>1. /\ k \in Nat /\ k <= size /\ (k = 0 \/ from + k <= Len(s))
          /\ (k = size \/ from + k >= Len(s))
      BY <1>2, <1>3, <1>4
    <2> HIDE DEF k
    <2>2. page \in Seq(Answered) /\ m = k /\ \A i \in 1..k : page[i] = s[from + i]
      <3>1. s \in Seq(Answered) /\ from \in Nat /\ size \in Nat
        BY <1>2, <1>3, <1>4
      <3>2. /\ Slice(s, from, size) \in Seq(Answered) /\ Len(Slice(s, from, size)) = k
            /\ \A i \in 1..k : Slice(s, from, size)[i] = s[from + i]
        BY <2>1, <3>1, SliceIs
      <3> QED BY <3>2
    <2>3. DOMAIN page = 1..m
      <3> HIDE DEF page
      <3> QED BY <2>2
    <2>4. m < size => from + m >= Len(s)
      BY <2>1, <2>2
    <2> QED BY <2>1, <2>2, <2>3, <2>4
  <1>6. m \in Nat /\ m <= size /\ (m < size => from + m >= Len(s))
    BY <1>5
  <1>7. ids \in Seq(Int) /\ Len(ids) = m /\ \A i \in 1..m : ids[i] = s[from + i][1]
    BY <1>5, AnswerFinite
  <1>8. out'[e] = out[e] \o ids
    BY <1>1 DEF ReadPage, TypeOK
  <1>9. /\ out'[e] \in Seq(Int) /\ Len(out'[e]) = Len(out[e]) + m
        /\ \A i \in 1..Len(out[e]) : out'[e][i] = out[e][i]
        /\ \A i \in 1..m : out'[e][Len(out[e]) + i] = ids[i]
    <2>1. ids \in Seq(Int) /\ Len(ids) = m /\ out[e] \in Seq(Int) /\ Len(out[e]) \in Nat
      BY <1>3, <1>7
    <2> HIDE DEF ids, m
    <2>2. /\ out[e] \o ids \in Seq(Int) /\ Len(out[e] \o ids) = Len(out[e]) + Len(ids)
          /\ \A i \in 1..Len(out[e]) : (out[e] \o ids)[i] = out[e][i]
          /\ \A i \in 1..Len(ids) : (out[e] \o ids)[Len(out[e]) + i] = ids[i]
      BY <2>1, Appended
    <2> QED BY Zenon, <1>8, <2>1, <2>2
  <1>10. pc'[e] = IF \/ m < size
                     \/ config.limit # Null /\ Len(out[e]) + m >= config.limit
                  THEN "written" ELSE "paging"
    BY <1>1 DEF ReadPage, Goto, TypeOK
  <1>11. (config.limit # Null /\ Len(out[e]) + m >= config.limit) => Len(out[e]) + m = config.limit
    <2>1. config.limit # Null => config.limit \in Nat
      BY ConfigFacts
    <2> HIDE DEF m, size
    <2> QED BY <1>3, <1>4, <1>6, <2>1
  <1>12. pc'[e] \in {"paging", "written"}
         /\ (pc'[e] = "written" => \/ config.limit # Null /\ Len(out[e]) + m = config.limit
                                   \/ from + m >= Len(s))
    <2> HIDE DEF m, size
    <2> QED BY <1>6, <1>10, <1>11
  <1>13. \A i \in 1..m : out'[e][Len(out[e]) + i] = s[from + i][1]
    BY <1>7, <1>9
  <1>14. from + m <= Len(s) \/ m = 0
    BY <1>5
  <1> HIDE DEF m
  <1> QED BY <1>6, <1>9, <1>12, <1>13, <1>14

LEMMA SameRows ==
    ASSUME UNCHANGED <<config, table>>
    PROVE  /\ Ordered' = Ordered /\ UniqueOrder' = UniqueOrder /\ Accepted' = Accepted
           /\ Answered' = Answered /\ Whole' = Whole
           /\ \A o : Position(table, Answered, o)' = Position(table, Answered, o)
           /\ SqlArrangements(table, Answered, config.sort)'
                = SqlArrangements(table, Answered, config.sort)
  <1>1. Answered' = Answered
    BY Zenon DEF Answered
  <1>2. Whole' = Whole
    BY Zenon DEF Whole
  <1>3. UniqueOrder' = UniqueOrder
    BY Zenon DEF UniqueOrder
  <1>4. Accepted' = Accepted
    BY Zenon DEF Accepted
  <1> QED BY Zenon, <1>1, <1>2, <1>3, <1>4, SameConfig

LEMMA PageCounts ==
    ASSUME TypeOK, PagesInv, NEW e \in Executions, Page(e), config.format = "csv"
    PROVE  Accepted' /\ Counted(e)'
  <1>1. UNCHANGED <<config, table, since>> /\ pc[e] = "paging"
    BY DEF Page
  <1>2. Accepted /\ Counted(e)
    BY <1>1 DEF PagesInv, PagesOf
  <1> DEFINE L == Len(out[e])  off == config.offset
  <1>3. PICK s \in SqlArrangements(table, Answered, config.sort), m \in Nat :
             /\ Len(out'[e]) = L + m
             /\ (off + L + m <= Len(s) \/ m = 0)
             /\ pc'[e] = "written" => \/ config.limit # Null /\ L + m = config.limit
                                      \/ off + L + m >= Len(s)
    BY PageAdds
  <1>4. L \in Nat /\ off \in Nat /\ Len(s) = Cardinality(Answered)
    BY ArrangedLists, ConfigFacts DEF TypeOK
  <1> SUFFICES ASSUME since[e] = {}
               PROVE  /\ Len(out'[e]) = 0 \/ off + Len(out'[e]) <= Cardinality(Answered)
                      /\ pc'[e] = "written" => AllRead(e)'
    BY <1>1, <1>2, <1>3, SameRows DEF Counted
  <1>5. L = 0 \/ off + L <= Cardinality(Answered)
    BY <1>2 DEF Counted
  <1>6. pc'[e] = "written" => AllRead(e)'
    BY <1>1, <1>3, <1>4, SameRows DEF AllRead
  <1> HIDE DEF L, off
  <1> QED BY <1>3, <1>4, <1>5, <1>6

LEMMA PageIsExact ==
    ASSUME TypeOK, PagesInv, NEW e \in Executions, Page(e), config.format = "csv", UniqueOrder
    PROVE  Exact(e)'
  <1>1. UNCHANGED <<config, table, since>> /\ pc[e] = "paging"
    BY DEF Page
  <1>2. Exact(e)
    BY <1>1 DEF PagesInv, PagesOf
  <1> DEFINE L == Len(out[e])  off == config.offset
  <1>3. PICK s \in SqlArrangements(table, Answered, config.sort), m \in Nat :
             /\ out'[e] \in Seq(Int) /\ Len(out'[e]) = L + m
             /\ (off + L + m <= Len(s) \/ m = 0)
             /\ \A i \in 1..L : out'[e][i] = out[e][i]
             /\ \A i \in 1..m : out'[e][L + i] = s[off + L + i][1]
    BY PageAdds
  <1>4. /\ L \in Nat /\ off \in Nat /\ DOMAIN out[e] = 1..L /\ DOMAIN out'[e] = 1..(L + m)
        /\ DOMAIN s = 1..Len(s) /\ Len(s) \in Nat
    BY <1>3, ArrangedLists, ConfigFacts DEF TypeOK
  <1> SUFFICES ASSUME since[e] = {}, NEW t \in SqlArrangements(table, Answered, config.sort),
                      NEW i \in 1..(L + m)
               PROVE  out'[e][i] = t[off + i][1]
    BY <1>1, <1>4, SameRows DEF Exact
  <1>5. CASE i \in 1..L
    BY <1>2, <1>3, <1>4, <1>5 DEF Exact
  <1>6. CASE i \in (L + 1)..(L + m)
    <2> HIDE DEF L, off
    <2>1. i - L \in 1..m /\ L + (i - L) = i /\ off + L + (i - L) = off + i
      BY <1>4, <1>6
    <2>2. off + L + m <= Len(s)
      BY <1>3, <2>1
    <2>3. off + i \in DOMAIN s
      BY <1>4, <1>6, <2>2
    <2>4. out'[e][i] = s[off + i][1]
      BY <1>3, <2>1
    <2>5. s[off + i][1] = t[off + i][1]
      BY <2>3, OneOrder
    <2> QED BY <2>4, <2>5
  <1> HIDE DEF L, off
  <1> QED BY <1>4, <1>5, <1>6

LEMMA PageKeeps ==
    ASSUME TypeOK, PagesInv, NEW e \in Executions, Page(e)
    PROVE  PagesOf(e)'
  <1>1. UNCHANGED <<config, table, since>> /\ pc[e] = "paging"
    BY DEF Page
  <1> SUFFICES ASSUME config.format = "csv", Ordered
               PROVE  NoneSkipped(e)' /\ NoneRepeated(e)'
    <2>1. Ordered' = Ordered /\ UniqueOrder' = UniqueOrder
      BY <1>1, SameRows
    <2>2. pc'[e] # "idle"
      BY DEF Page, ReadPage, Goto, TypeOK
    <2> QED BY <1>1, <2>1, <2>2, PageCounts, PageIsExact DEF PagesOf
  <1> DEFINE L == Len(out[e])  off == config.offset
  <1>2. PICK s \in SqlArrangements(table, Answered, config.sort), m \in Nat :
             /\ out'[e] \in Seq(Int) /\ Len(out'[e]) = L + m
             /\ (off + L + m <= Len(s) \/ m = 0)
             /\ \A i \in 1..L : out'[e][i] = out[e][i]
             /\ \A i \in 1..m : out'[e][L + i] = s[off + L + i][1]
             /\ pc'[e] \in {"paging", "written"}
             /\ pc'[e] = "written" => \/ config.limit # Null /\ L + m = config.limit
                                      \/ off + L + m >= Len(s)
    BY PageAdds
  <1>3. /\ L \in Nat /\ off \in Nat /\ out[e] \in Seq(Int) /\ DOMAIN out[e] = 1..L
        /\ DOMAIN out'[e] = 1..(L + m)
    BY <1>2, ConfigFacts DEF TypeOK
  <1>4. NoneSkipped(e) /\ NoneRepeated(e)
    BY <1>1 DEF PagesInv, PagesOf
  <1>5. /\ \A i \in 1..Len(s) : s[i] \in Answered /\ Position(table, Answered, s[i]) = i
        /\ \A o \in Answered : \E i \in 1..Len(s) : s[i] = o
        /\ Len(s) = Cardinality(Answered) /\ Len(s) \in Nat
    BY Positions, Arranged
  <1> HIDE DEF L, off
  \* The rows of the page, at their places in the file.
  <1>6. ASSUME NEW i \in (L + 1)..(L + m)
        PROVE  /\ off + i \in 1..Len(s) /\ out'[e][i] = s[off + i][1]
               /\ \A o \in Answered : o[1] = out'[e][i] => o = s[off + i]
    <2>1. i - L \in 1..m /\ L + (i - L) = i /\ off + L + (i - L) = off + i
      BY <1>3
    <2>2. off + L + m <= Len(s) /\ Len(s) \in Nat
      BY <1>2, <1>5, <2>1
    <2>3. off + i \in 1..Len(s)
      BY <1>3, <2>2
    <2>4. out'[e][i] = s[off + i][1] /\ s[off + i] \in Answered
      BY <1>2, <1>5, <2>1, <2>3
    <2> QED BY <2>3, <2>4, OwnAnswer
  <1>7. \A i \in 1..(L + m) : i \in 1..L \/ i \in (L + 1)..(L + m)
    BY <1>3
  <1>8. Ids(out[e]) \subseteq Ids(out'[e])
    <2>1. \A i \in 1..L : i \in 1..(L + m) /\ out'[e][i] = out[e][i]
      BY <1>2, <1>3
    <2> QED BY <1>3, <2>1 DEF Ids
  <1>9. NoneSkipped(e)'
    <2> SUFFICES ASSUME Only(e, "insert"), Whole, NEW o \in Answered,
                        o[1] \notin Ids(out'[e]) \union Changed(e, "insert")
                 PROVE  pc'[e] = "paging" /\ Position(table, Answered, o) > Len(out'[e])
      <3>1. /\ Whole' = Whole /\ Answered' = Answered /\ since' = since
            /\ \A o : Position(table, Answered, o)' = Position(table, Answered, o)
        BY <1>1, SameRows
      <3>2. Only(e, "insert")' = Only(e, "insert") /\ Changed(e, "insert")' = Changed(e, "insert")
            /\ Ids(out[e])' = Ids(out'[e])
        BY Zenon, <3>1 DEF Only, Changed, Ids
      <3> QED BY <3>1, <3>2 DEF NoneSkipped
    <2>1. PICK k \in 1..Len(s) : s[k] = o /\ Position(table, Answered, o) = k
      BY <1>5
    <2>2. k > L
      BY <1>4, <1>8, <2>1 DEF NoneSkipped, L
    <2>3. ~(k \in (L + 1)..(L + m))
      <3> SUFFICES ASSUME k \in (L + 1)..(L + m) PROVE FALSE
        OBVIOUS
      <3>1. off = 0
        BY DEF Whole, off
      <3>2. out'[e][k] = o[1] /\ k \in DOMAIN out'[e]
        BY <1>3, <1>6, <2>1, <3>1
      <3> QED BY <3>2 DEF Ids
    <2>4. k > L + m
      BY <1>3, <2>2, <2>3
    <2>5. pc'[e] # "written"
      BY <1>2, <1>3, <1>5, <2>4 DEF Whole, off
    <2> QED BY <1>2, <2>1, <2>4, <2>5
  <1>10. NoneRepeated(e)'
    <2> SUFFICES ASSUME Only(e, "delete")
                 PROVE  /\ \A i, j \in DOMAIN out'[e] : i # j => out'[e][i] # out'[e][j]
                        /\ \A o \in Answered : o[1] \in Ids(out'[e]) =>
                              Position(table, Answered, o) <= off + Len(out'[e])
      BY <1>1, SameRows DEF NoneRepeated, Only, off
    <2>1. /\ \A i, j \in 1..L : i # j => out[e][i] # out[e][j]
          /\ \A o \in Answered : o[1] \in Ids(out[e]) => Position(table, Answered, o) <= off + L
      BY <1>3, <1>4 DEF NoneRepeated, L, off
    <2>2. ASSUME NEW i \in 1..L, NEW j \in (L + 1)..(L + m) PROVE out'[e][i] # out'[e][j]
      <3>1. s[off + j] \in Answered /\ Position(table, Answered, s[off + j]) = off + j
            /\ out'[e][j] = s[off + j][1]
        BY <1>5, <1>6
      <3>2. out'[e][i] \in Ids(out[e])
        BY <1>2, <1>3 DEF Ids
      <3>3. ~(off + j <= off + L)
        BY <1>3
      <3> QED BY <2>1, <3>1, <3>2, <3>3
    <2>3. ASSUME NEW i \in (L + 1)..(L + m), NEW j \in (L + 1)..(L + m), i # j
          PROVE  out'[e][i] # out'[e][j]
      <3>1. /\ s[off + i] \in Answered /\ Position(table, Answered, s[off + i]) = off + i
            /\ Position(table, Answered, s[off + j]) = off + j
            /\ (out'[e][i] = out'[e][j] => s[off + i] = s[off + j])
        BY <1>5, <1>6
      <3> QED BY <1>3, <2>3, <3>1
    <2>4. ASSUME NEW o \in Answered, o[1] \in Ids(out'[e])
          PROVE  Position(table, Answered, o) <= off + Len(out'[e])
      <3>1. PICK i \in 1..(L + m) : out'[e][i] = o[1]
        BY <1>3, <2>4 DEF Ids
      <3>2. Position(table, Answered, o) \in Nat
        BY <1>5
      <3>3. CASE i \in 1..L
        <4>1. o[1] \in Ids(out[e])
          BY <1>2, <1>3, <3>1, <3>3 DEF Ids
        <4> QED BY <1>2, <1>3, <2>1, <3>2, <4>1
      <3>4. CASE i \in (L + 1)..(L + m)
        <4>1. Position(table, Answered, o) = off + i
          BY <1>5, <1>6, <3>1, <3>4
        <4> QED BY <1>2, <1>3, <3>4, <4>1
      <3> QED BY <1>7, <3>3, <3>4
    <2>5. \A i, j \in DOMAIN out'[e] : i # j => out'[e][i] # out'[e][j]
      <3> SUFFICES ASSUME NEW i \in 1..(L + m), NEW j \in 1..(L + m), i # j
                   PROVE  out'[e][i] # out'[e][j]
        BY <1>3
      <3>1. CASE i \in 1..L /\ j \in 1..L
        BY <1>2, <2>1, <3>1
      <3> QED BY <1>7, <2>2, <2>3, <3>1
    <2> QED BY <2>4, <2>5
  <1> QED BY <1>2, <1>9, <1>10

\* An execution that takes no step, while the rows stay.
LEMMA OthersKeep ==
    ASSUME PagesInv, NEW e \in Executions, UNCHANGED <<config, table, since>>,
           out'[e] = out[e], pc'[e] = pc[e]
    PROVE  PagesOf(e)'
  <1>1. /\ Ordered' = Ordered /\ Whole' = Whole /\ Answered' = Answered
        /\ \A o : Position(table, Answered, o)' = Position(table, Answered, o)
        /\ SqlArrangements(table, Answered, config.sort)'
             = SqlArrangements(table, Answered, config.sort)
    BY SameRows
  <1>2. /\ \A kind : Only(e, kind)' = Only(e, kind) /\ Changed(e, kind)' = Changed(e, kind)
        /\ Ids(out[e])' = Ids(out[e])
    BY Zenon DEF Only, Changed, Ids
  <1>3. NoneSkipped(e)' = NoneSkipped(e)
    BY <1>1, <1>2 DEF NoneSkipped
  <1>4. NoneRepeated(e)' = NoneRepeated(e)
    BY <1>1, <1>2 DEF NoneRepeated
  <1>5. Exact(e)' = Exact(e)
    BY <1>1 DEF Exact
  <1>6. Counted(e)' = Counted(e)
    BY <1>1 DEF Counted, AllRead
  <1> QED BY <1>1, <1>3, <1>4, <1>5, <1>6, SameRows DEF PagesInv, PagesOf

LEMMA StartPages ==
    ASSUME TypeOK, PagesInv, NEW e \in Executions, StartCsv(e)
    PROVE  PagesOf(e)'
  <1>1. /\ UNCHANGED <<config, table, since, out>> /\ pc'[e] = "paging"
        /\ out[e] = <<>> /\ since[e] = {}
    BY DEF StartCsv, Begin, Goto, PagesInv, PagesOf, TypeOK
  <1> SUFFICES ASSUME Ordered
               PROVE  NoneSkipped(e)' /\ NoneRepeated(e)'
    <2>1. Ordered' = Ordered /\ UniqueOrder' = UniqueOrder /\ Accepted'
      BY <1>1, SameRows DEF StartCsv
    <2>2. Counted(e)' /\ Exact(e)'
      BY <1>1 DEF Counted, Exact
    <2> QED BY <1>1, <2>1, <2>2 DEF PagesOf
  <1>2. ASSUME NEW o \in Answered PROVE Position(table, Answered, o)' > Len(out'[e])
    <2>1. o \in UpTo(table, Answered, o) /\ UpTo(table, Answered, o) \subseteq Answered
      BY LexFacts DEF UpTo
    <2>2. IsFiniteSet(UpTo(table, Answered, o))
      BY <2>1, AnswerFinite, FS_Subset
    <2>3. Position(table, Answered, o) \in Nat /\ Position(table, Answered, o) # 0
      BY <2>1, <2>2, FS_CardinalityType, FS_EmptySet DEF Position
    <2> QED BY <1>1, <2>3, SameRows
  <1>3. DOMAIN out'[e] = {} /\ Ids(out[e])' = {}
    BY <1>1 DEF Ids
  <1>4. NoneSkipped(e)'
    BY <1>1, <1>2, SameRows DEF NoneSkipped
  <1> QED BY <1>1, <1>3, <1>4 DEF NoneRepeated

LEMMA RowsKeep ==
    ASSUME TypeOK, TypeOK', PagesInv, NEW e \in Executions,
           \/ \E id \in DOMAIN NewRows : Insert(id)
           \/ \E id \in DOMAIN table : Delete(id) \/ Update(id)
    PROVE  PagesOf(e)'
  <1>1. PICK kind \in {"insert", "update", "delete"}, id \in Int :
          /\ UNCHANGED <<config, pc, out>>
          /\ since' = [x \in Executions |->
                         IF pc[x] \in {"paging", "written"} THEN since[x] \union {<<kind, id>>}
                         ELSE since[x]]
          /\ kind = "insert" => id \in DOMAIN NewRows /\ Insert(id)
          /\ kind = "delete" => id \in DOMAIN table /\ Delete(id)
    BY ExportAssumption DEF Insert, Delete, Update, ChangeRows, TypeOK
  <1> SUFFICES ASSUME config.format = "csv", pc[e] \in {"paging", "written"}, Ordered
               PROVE  NoneSkipped(e)' /\ NoneRepeated(e)'
    <2>1. Ordered' = Ordered /\ Accepted' = Accepted
      BY Zenon, <1>1, SameConfig DEF Accepted
    <2>2. pc[e] = "idle" => out'[e] = <<>> /\ since'[e] = {}
      BY <1>1 DEF PagesInv, PagesOf
    <2>3. pc[e] \in {"paging", "written"} => Counted(e)' /\ Exact(e)'
      BY <1>1 DEF Counted, Exact
    <2> QED BY <1>1, <2>1, <2>2, <2>3 DEF PagesInv, PagesOf
  <1>2. NoneSkipped(e) /\ NoneRepeated(e)
    BY DEF PagesInv, PagesOf
  <1>3. since'[e] = since[e] \union {<<kind, id>>}
    BY <1>1
  <1>4. ASSUME NEW k, Only(e, k)'
        PROVE  kind = k /\ Only(e, k) /\ Changed(e, k)' = Changed(e, k) \union {id}
    <2> DEFINE new == <<kind, id>>
    <2>1. new[1] = kind /\ new[2] = id
      OBVIOUS
    <2> HIDE DEF new
    <2>2. since'[e] = since[e] \union {new}
      BY <1>3 DEF new
    <2>3. kind = k /\ Only(e, k)
      BY <1>4, <2>1, <2>2 DEF Only
    <2>4. {d \in since'[e] : d[1] = k} = {d \in since[e] : d[1] = k} \union {new}
      BY <2>1, <2>2, <2>3
    <2>5. Changed(e, k)' = {c[2] : c \in {d \in since'[e] : d[1] = k}}
      BY DEF Changed
    <2>6. Changed(e, k)' = {c[2] : c \in {d \in since[e] : d[1] = k}} \union {new[2]}
      BY <2>4, <2>5
    <2> QED BY <2>1, <2>3, <2>6 DEF Changed
  <1>5. Ids(out[e])' = Ids(out[e])
    BY <1>1 DEF Ids
  <1>6. NoneSkipped(e)'
    <2> SUFFICES ASSUME Only(e, "insert")', Whole', NEW o \in Answered'
                 PROVE  \/ o[1] \in Ids(out[e])' \union Changed(e, "insert")'
                        \/ pc'[e] = "paging" /\ Position(table, Answered, o)' > Len(out'[e])
      BY DEF NoneSkipped
    <2>1. /\ kind = "insert" /\ Only(e, "insert")
          /\ Changed(e, "insert")' = Changed(e, "insert") \union {id}
      BY <1>4
    <2>2. Whole
      BY <1>1 DEF Whole
    <2>3. CASE o[1] = id
      BY <2>1, <2>3
    <2>4. CASE o[1] # id
      <3>1. /\ o \in Answered
            /\ Position(table, Answered, o) <= Position(table, Answered, o)'
            /\ Position(table, Answered, o) \in Nat /\ Position(table, Answered, o)' \in Nat
        BY <1>1, <2>1, <2>4, InsertMoves
      <3>2. \/ o[1] \in Ids(out[e]) \union Changed(e, "insert")
            \/ pc[e] = "paging" /\ Position(table, Answered, o) > Len(out[e])
        BY <1>2, <2>1, <2>2, <3>1 DEF NoneSkipped
      <3>3. Len(out[e]) \in Nat
        BY DEF TypeOK
      <3> QED BY <1>1, <1>5, <2>1, <3>1, <3>2, <3>3
    <2> QED BY <2>3, <2>4
  <1>7. NoneRepeated(e)'
    <2> SUFFICES ASSUME Only(e, "delete")'
                 PROVE  /\ \A i, j \in DOMAIN out[e] : i # j => out[e][i] # out[e][j]
                        /\ \A o \in Answered' : o[1] \in Ids(out[e]) =>
                              Position(table, Answered, o)' <= config.offset + Len(out[e])
      BY <1>1, <1>5 DEF NoneRepeated
    <2>1. kind = "delete" /\ Only(e, "delete")
      BY <1>4
    <2>2. config.offset + Len(out[e]) \in Nat
      BY ConfigFacts DEF TypeOK
    <2>3. ASSUME NEW o \in Answered', o[1] \in Ids(out[e])
          PROVE  Position(table, Answered, o)' <= config.offset + Len(out[e])
      <3>1. /\ o \in Answered
            /\ Position(table, Answered, o)' <= Position(table, Answered, o)
            /\ Position(table, Answered, o) \in Nat /\ Position(table, Answered, o)' \in Nat
        BY <1>1, <2>1, DeleteMoves
      <3>2. Position(table, Answered, o) <= config.offset + Len(out[e])
        BY <1>2, <2>1, <2>3, <3>1 DEF NoneRepeated
      <3> QED BY <2>2, <3>1, <3>2
    <2> QED BY <1>2, <2>1, <2>3 DEF NoneRepeated
  <1> QED BY <1>6, <1>7

LEMMA PagesStep ==
    ASSUME TypeOK, TypeOK', PagesInv, [Next]_vars
    PROVE  PagesInv'
  <1> SUFFICES ASSUME NEW e \in Executions PROVE PagesOf(e)'
    BY DEF PagesInv
  <1>1. CASE UNCHANGED vars \/ Preview
    BY <1>1, OthersKeep DEF vars, Preview, fileVars
  <1>4. ASSUME NEW i \in Instances, Stop(i) PROVE PagesOf(e)'
    <2>1. UNCHANGED <<config, table, since, out>>
      BY <1>4 DEF Stop
    <2>2. pc'[e] = pc[e] \/ pc'[e] \in {"uploading", "crashed"}
      BY <1>4 DEF Stop
    <2>3. CASE pc'[e] = pc[e]
      BY <2>1, <2>3, OthersKeep
    <2>4. CASE pc'[e] \in {"uploading", "crashed"}
      BY <2>4 DEF PagesOf
    <2> QED BY <2>2, <2>3, <2>4
  <1>2. ASSUME NEW x \in Executions, Execute(x), x # e PROVE PagesOf(e)'
    <2>1. UNCHANGED <<config, table, since>> /\ out'[e] = out[e] /\ pc'[e] = pc[e]
      BY <1>2 DEF Execute, StartCsv, StartJson, StartRefused, Page, ReadPage, PageRefused, Upload,
                  KeepLocal, Record, CallFails, MarkFailed, OrphanUpload, Begin, Goto, fileVars, TypeOK
    <2> QED BY <2>1, OthersKeep
  <1>3. CASE Execute(e)
    <2>1. CASE StartCsv(e)
      BY <2>1, StartPages
    <2>2. CASE Page(e)
      BY <2>2, PageKeeps
    <2>3. CASE StartJson(e)
      BY <2>3 DEF StartJson, Goto, PagesOf, TypeOK
    <2>4. CASE ~(StartCsv(e) \/ Page(e) \/ StartJson(e))
      <3>1. pc'[e] \in {"failed", "stored", "done", "crashed"}
        BY <1>3, <2>4 DEF Execute, StartRefused, PageRefused, Upload, KeepLocal, Record,
                          CallFails, MarkFailed, OrphanUpload, Begin, Goto, TypeOK
      <3> QED BY <3>1 DEF PagesOf
    <2> QED BY <2>1, <2>2, <2>3, <2>4
  <1> QED BY <1>1, <1>2, <1>3, <1>4, RowsKeep DEF Next

LEMMA PagesInvariant == Spec => [](TypeOK /\ PagesInv)
  <1>1. Init => PagesInv
    BY DEF Init, PagesInv, PagesOf
  <1>2. TypeOK /\ PagesInv /\ [Next]_vars => (TypeOK /\ PagesInv)'
    BY TypeStep, PagesStep
  <1> QED BY <1>1, <1>2, TypeInit, PTL DEF Spec

\* Imports between the pages make none of the other rows be skipped, and deletions
\* make none be repeated, however many there are and wherever they fall
\* (saas/base.py:167-216).
THEOREM PagesAreMonotonic == Spec => []PagesMoveOneWay
  <1>1. TypeOK /\ PagesInv => PagesMoveOneWay
    <2> SUFFICES ASSUME TypeOK, PagesInv, NEW e \in Executions, Written(e), OwnFilter, UniqueOrder
                 PROVE  /\ Only(e, "insert") /\ Whole
                              => \A o \in Answered :
                                    o[1] \in Ids(out[e]) \union Changed(e, "insert")
                        /\ Only(e, "delete") => Cardinality(Ids(out[e])) = Len(out[e])
      BY DEF PagesMoveOneWay
    <2>1. NoneSkipped(e) /\ NoneRepeated(e) /\ pc[e] = "written"
      BY DEF PagesInv, PagesOf, Ordered, Written
    <2>2. ASSUME Only(e, "delete") PROVE Cardinality(Ids(out[e])) = Len(out[e])
      <3> DEFINE n == Len(out[e])
      <3>1. n \in Nat /\ DOMAIN out[e] = 1..n /\ out[e] = [i \in 1..n |-> out[e][i]]
        BY DEF TypeOK
      <3>2. \A i, j \in 1..n : i # j => out[e][i] # out[e][j]
        BY <2>1, <2>2, <3>1 DEF NoneRepeated
      <3> HIDE DEF n
      <3>3. out[e] \in Bijection(1..n, Ids(out[e]))
        BY <3>1, <3>2 DEF Bijection, Injection, Surjection, IsInjective, Ids
      <3>4. IsFiniteSet(1..n) /\ Cardinality(1..n) = n
        BY <3>1, FS_Interval
      <3>5. Cardinality(Ids(out[e])) = n
        BY <3>3, <3>4, FS_Bijection DEF ExistsBijection
      <3> QED BY <3>5 DEF n
    <2> QED BY <2>1, <2>2 DEF NoneSkipped
  <1> QED BY <1>1, PagesInvariant, PTL

\* The pages that no import disturbs are together the slice the request asks for,
\* for any offset, limit and size of a page (saas/base.py:167-216).
THEOREM QuietPagesAreExact == Spec => []QuietExportIsExact
  <1>1. TypeOK /\ PagesInv => QuietExportIsExact
    <2> SUFFICES ASSUME TypeOK, PagesInv, NEW e \in Executions, Written(e), since[e] = {},
                        UniqueOrder
                 PROVE  \E s \in SqlArrangements(table, Answered, config.sort) :
                           out[e] = Slice([i \in DOMAIN s |-> s[i][1]], config.offset,
                                          IF config.limit = Null THEN Len(s) ELSE config.limit)
      BY DEF QuietExportIsExact
    <2>1. Exact(e) /\ Counted(e) /\ pc[e] = "written"
      BY DEF PagesInv, PagesOf, Written
    <2>2. PICK s \in SqlArrangements(table, Answered, config.sort) : AllRead(e)
      BY <2>1 DEF Counted
    <2> DEFINE off == config.offset
               n   == IF config.limit = Null THEN Len(s) ELSE config.limit
               ids == [i \in DOMAIN s |-> s[i][1]]
               L   == Len(out[e])
    <2>3. /\ \A i \in 1..Len(s) : s[i] \in Answered
          /\ Len(s) = Cardinality(Answered) /\ Len(s) \in Nat /\ DOMAIN s = 1..Len(s)
      BY ArrangedLists
    <2>4. ids \in Seq(Int) /\ Len(ids) = Len(s) /\ \A i \in 1..Len(s) : ids[i] = s[i][1]
      BY <2>3, AnswerFinite
    <2>5. /\ off \in Nat /\ n \in Nat /\ L \in Nat /\ out[e] \in Seq(Int) /\ DOMAIN out[e] = 1..L
          /\ config.limit # Null => L <= n
      BY <2>3, ConfigFacts DEF TypeOK
    <2>6. L = 0 \/ off + L <= Len(s)
      BY <2>1, <2>3 DEF Counted
    <2>7. (config.limit # Null /\ L = n) \/ off + L >= Len(s)
      BY <2>2, <2>3 DEF AllRead
    <2>8. \A i \in 1..L : out[e][i] = s[off + i][1]
      BY <2>1, <2>5 DEF Exact
    <2> HIDE DEF off, n, ids, L
    <2>9. L <= n
      BY <2>3, <2>5, <2>6 DEF n
    <2>10. \A i \in 1..L : out[e][i] = ids[off + i]
      BY <2>3, <2>4, <2>5, <2>6, <2>8
    <2>11. Slice(ids, off, n) \in Seq(Int) /\ Len(Slice(ids, off, n)) = L
           /\ \A i \in 1..L : Slice(ids, off, n)[i] = ids[off + i]
      <3>1. (L = 0 \/ off + L <= Len(ids)) /\ (L = n \/ off + L >= Len(ids)) /\ L <= n
        BY <2>4, <2>6, <2>7, <2>9
      <3>2. ids \in Seq(Int) /\ off \in Nat /\ n \in Nat /\ L \in Nat
        BY <2>4, <2>5
      <3>4. /\ Slice(ids, off, n) \in Seq(Int) /\ Len(Slice(ids, off, n)) = L
            /\ \A i \in 1..L : Slice(ids, off, n)[i] = ids[off + i]
        BY <3>1, <3>2, SliceOfIds
      <3> QED BY <3>4
    <2>12. out[e] = Slice(ids, off, n)
      <3>1. \A i \in 1..L : out[e][i] = Slice(ids, off, n)[i]
        BY <2>10, <2>11
      <3> QED BY <2>5, <2>11, <3>1, SameSeq DEF L
    <2> QED BY <2>12 DEF off, n, ids
  <1> QED BY <1>1, PagesInvariant, PTL

-----------------------------------------------------------------------------
(* The preview.                                                                *)

\* The rows selected in memory; a preview shows them.
Chosen == Selected(table, config.filters)

PreviewInv == preview # Null => preview \in MemoryArrangements(table, Chosen, config.sort)

LEMMA PreviewStep ==
    ASSUME PreviewInv, [Next]_vars
    PROVE  PreviewInv'
  <1>1. ASSUME UNCHANGED <<config, table>>
        PROVE  MemoryArrangements(table, Chosen, config.sort)'
                 = MemoryArrangements(table, Chosen, config.sort)
    <2>1. Chosen' = Chosen
      BY Zenon, <1>1 DEF Chosen
    <2> QED BY Zenon, <1>1, <2>1
  <1>2. CASE Preview
    BY <1>1, <1>2 DEF Preview, PreviewInv, Chosen
  <1>3. CASE UNCHANGED <<config, table, preview>>
    BY <1>1, <1>3 DEF PreviewInv
  <1>4. CASE preview' = Null
    BY <1>4 DEF PreviewInv
  <1>5. CASE UNCHANGED vars
    BY <1>3, <1>5 DEF vars
  <1>6. ASSUME NEW e \in Executions, Execute(e) PROVE UNCHANGED <<config, table, preview>>
    BY <1>6 DEF Execute, StartCsv, StartJson, StartRefused, Page, PageRefused, Upload, KeepLocal,
                Record, CallFails, MarkFailed, OrphanUpload
  <1>8. ASSUME NEW i \in Instances, Stop(i) PROVE UNCHANGED <<config, table, preview>>
    BY <1>8 DEF Stop
  <1>7. CASE \/ \E id \in DOMAIN NewRows : Insert(id)
             \/ \E id \in DOMAIN table : Delete(id) \/ Update(id)
    BY <1>4, <1>7 DEF Insert, Delete, Update, ChangeRows
  <1> QED BY <1>2, <1>3, <1>5, <1>6, <1>7, <1>8 DEF Next

LEMMA PreviewInvariant == Spec => [](TypeOK /\ PagesInv /\ PreviewInv)
  <1>1. Init => PreviewInv
    BY DEF Init, PreviewInv
  <1> QED BY <1>1, PreviewStep, PagesInvariant, PTL DEF Spec

-----------------------------------------------------------------------------
LEMMA ChosenFacts ==
    ASSUME TypeOK
    PROVE  /\ IsFiniteSet(Chosen) /\ Cardinality(Chosen) \in Nat
           /\ Chosen \subseteq Int /\ Chosen \subseteq DOMAIN table
  <1>1. Chosen \subseteq DOMAIN table
    BY DEF Chosen, Selected
  <1> QED BY <1>1, SelectedFinite DEF Chosen

\* What is sorted in memory lists what is selected.
LEMMA MemoryLists ==
    ASSUME TypeOK, NEW p \in MemoryArrangements(table, Chosen, config.sort)
    PROVE  /\ Lists(Chosen, Cardinality(Chosen), p) /\ Len(p) = Cardinality(Chosen)
           /\ DOMAIN p = 1..Len(p) /\ Ids(p) = Chosen
  <1> DEFINE n == Cardinality(Chosen)
  <1>1. p \in [1..n -> Chosen]
    BY Zenon DEF MemoryArrangements, Arrangements
  <1>2. \A i, j \in DOMAIN p : i # j => p[i] # p[j]
    BY Zenon DEF MemoryArrangements, Arrangements
  <1>3. Lists(Chosen, n, p)
    BY <1>1, <1>2 DEF Lists
  <1>4. n \in Nat /\ IsFiniteSet(Chosen)
    BY ChosenFacts
  <1>5. \A id \in Chosen : \E i \in 1..n : p[i] = id
    BY <1>3, <1>4, Onto
  <1>6. Ids(p) = Chosen
    BY <1>1, <1>5 DEF Ids
  <1> QED BY <1>1, <1>3, <1>4, <1>6

-----------------------------------------------------------------------------
(* What the filter keeps.                                                      *)

\* The rows of the answer are those selected in memory.
LEMMA SameAnswer ==
    ASSUME TypeOK, Accepted, config.format = "csv",
           config.filters = Null \/ SameMeaning[config.filters]
    PROVE  Answered = {<<id, Null>> : id \in Chosen}
  <1> DEFINE g == config.filters
  <1>1. g \in Groups \union {Null}
    BY ExportAssumption DEF TypeOK
  <1>2. CASE g = Null
    BY <1>2 DEF Answered, Answer, Joined, Chosen, Selected
  <1>3. CASE g # Null
    <2>1. g \in Groups /\ SameMeaning[g] /\ ~Raises[g]
      BY <1>1, <1>3 DEF Accepted
    <2>2. Agrees(g)
      BY <2>1, Meaning
    <2> QED BY <1>3, <2>2 DEF Agrees, Answered, Answer, Joined, Chosen, Selected
  <1> QED BY <1>2, <1>3

LEMMA SameNumber ==
    ASSUME TypeOK, Answered = {<<id, Null>> : id \in Chosen}
    PROVE  Cardinality(Answered) = Cardinality(Chosen)
  <1> DEFINE f == [id \in Chosen |-> <<id, Null>>]
  <1>1. f \in Bijection(Chosen, Answered)
    BY DEF Bijection, Injection, Surjection, IsInjective
  <1> QED BY <1>1, ChosenFacts, FS_Bijection DEF ExistsBijection

\* The rows selected in memory are in the answer.
LEMMA ChosenAnswered ==
    ASSUME TypeOK, config.filters # Null, Conjunctive[config.filters], NEW id \in Chosen
    PROVE  \E o \in Answered : o[1] = id
  <1> DEFINE g == config.filters
             row == table[id]
             v == IF NamesVendors[g] THEN row.vendor ELSE Null
  <1>1. g \in Groups
    BY ExportAssumption DEF TypeOK
  <1>2. id \in DOMAIN table /\ Matches(row, g) /\ IsRow(row, id)
    BY DEF Chosen, Selected, TypeOK
  <1>3. SqlGroup(row, v, g) = "true" /\ (NamesVendors[g] => row.vendor # Null)
    BY <1>1, <1>2, Weaker DEF Demands
  <1>4. v \in Joined(g)
    BY <1>2, <1>3 DEF Joined, IsRow
  <1> HIDE DEF v
  <1>5. <<id, v>> \in Answered
    BY <1>2, <1>3, <1>4 DEF Answered, Answer
  <1> QED BY <1>5

\* What an undisturbed export of everything holds.
LEMMA WholeFile ==
    ASSUME TypeOK, PagesInv, NEW e \in Executions, Previewed(e)
    PROVE  /\ Accepted /\ config.format = "csv" /\ Len(out[e]) = Cardinality(Answered)
           /\ out[e] \in Seq(Int) /\ DOMAIN out[e] = 1..Cardinality(Answered)
           /\ Cardinality(Answered) \in Nat
           /\ UniqueOrder => \E s \in SqlArrangements(table, Answered, config.sort) :
                                 \A i \in DOMAIN out[e] : out[e][i] = s[i][1]
  <1>1. /\ config.format = "csv" /\ pc[e] = "written" /\ since[e] = {}
        /\ config.limit = Null /\ config.offset = 0
    BY DEF Previewed, Written, Whole
  <1>2. Accepted /\ Counted(e) /\ (UniqueOrder => Exact(e))
    BY <1>1 DEF PagesInv, PagesOf
  <1>3. out[e] \in Seq(Int) /\ Len(out[e]) \in Nat /\ DOMAIN out[e] = 1..Len(out[e])
    BY DEF TypeOK
  <1>4. Cardinality(Answered) \in Nat
    BY AnswerFinite
  <1>5. Len(out[e]) = Cardinality(Answered)
    BY <1>1, <1>2, <1>3, <1>4 DEF Counted, AllRead
  <1>6. ASSUME UniqueOrder
        PROVE  \E s \in SqlArrangements(table, Answered, config.sort) :
                   \A i \in DOMAIN out[e] : out[e][i] = s[i][1]
    <2>1. PICK s \in SqlArrangements(table, Answered, config.sort) : TRUE
      BY <1>1, <1>2 DEF Counted
    <2>2. \A i \in DOMAIN out[e] : out[e][i] = s[config.offset + i][1] /\ config.offset + i = i
      BY <1>1, <1>2, <1>3, <1>6 DEF Exact
    <2> QED BY <2>2
  <1> QED BY <1>1, <1>2, <1>3, <1>4, <1>5, <1>6

LEMMA WholeIds ==
    ASSUME TypeOK, PagesInv, NEW e \in Executions, Previewed(e), UniqueOrder
    PROVE  Ids(out[e]) = {o[1] : o \in Answered}
  <1>1. PICK s \in SqlArrangements(table, Answered, config.sort) :
            \A i \in DOMAIN out[e] : out[e][i] = s[i][1]
    BY WholeFile
  <1>2. DOMAIN out[e] = 1..Cardinality(Answered)
    BY WholeFile
  <1>3. /\ DOMAIN s = 1..Cardinality(Answered) /\ \A o \in Answered : \E i \in DOMAIN s : s[i] = o
        /\ \A i \in DOMAIN s : s[i] \in Answered
    BY ArrangedLists
  <1> QED BY <1>1, <1>2, <1>3 DEF Ids

\* A preview and the export it precedes select the same rows, whatever the filter,
\* its nesting and the rows (engine.py:221-296, 366-459).
THEOREM PreviewSelectsRight == Spec => []PreviewSelectsTheExport
  <1>1. TypeOK /\ PagesInv /\ PreviewInv => PreviewSelectsTheExport
    <2> SUFFICES ASSUME TypeOK, PagesInv, PreviewInv, NEW e \in Executions, Previewed(e),
                        config.filters = Null \/ SameMeaning[config.filters]
                 PROVE  /\ UniqueOrder => Ids(out[e]) = Ids(preview)
                        /\ Len(out[e]) = Len(preview)
      BY DEF PreviewSelectsTheExport
    <2>1. Len(preview) = Cardinality(Chosen) /\ Ids(preview) = Chosen
      BY MemoryLists DEF PreviewInv, Previewed
    <2>2. Answered = {<<id, Null>> : id \in Chosen}
      BY WholeFile, SameAnswer
    <2>3. {o[1] : o \in Answered} = Chosen
      <3>1. \A o \in Answered : o[1] \in Chosen
        BY <2>2
      <3>2. \A id \in Chosen : <<id, Null>> \in Answered /\ <<id, Null>>[1] = id
        BY <2>2
      <3> QED BY <3>1, <3>2
    <2>4. Len(out[e]) = Cardinality(Chosen)
      BY <2>2, WholeFile, SameNumber
    <2> QED BY <2>1, <2>3, <2>4, WholeIds
  <1> QED BY <1>1, PreviewInvariant, PTL

\* No row of the preview is missing from the export of a filter of ANDs
\* (engine.py:221-296, bill.py:48-60).
THEOREM PreviewIsExported == Spec => []PreviewedIsExported
  <1>1. TypeOK /\ PagesInv /\ PreviewInv => PreviewedIsExported
    <2> SUFFICES ASSUME TypeOK, PagesInv, PreviewInv, NEW e \in Executions, Previewed(e),
                        UniqueOrder, config.filters # Null, Conjunctive[config.filters]
                 PROVE  Ids(preview) \subseteq Ids(out[e])
      BY DEF PreviewedIsExported
    <2>1. Ids(preview) = Chosen
      BY MemoryLists DEF PreviewInv, Previewed
    <2>2. Chosen \subseteq {o[1] : o \in Answered}
      BY ChosenAnswered
    <2> QED BY <2>1, <2>2, WholeIds
  <1> QED BY <1>1, PreviewInvariant, PTL

-----------------------------------------------------------------------------
(* In which order.                                                             *)

\* How a sort in memory ranks a row, if the texts descend from the key at on.
MemoryRank(id, at) ==
    [i \in DOMAIN config.sort |->
        Rank(Value(table[id], config.sort[i].field), Direction(config.sort, i, at))]

\* How the order that is asked for ranks it.
AskedRank(id) == [i \in DOMAIN config.sort |->
                     Rank(table[id][config.sort[i].field], config.sort[i].dir)]

MemorySorted(at) ==
    {s \in [1..Cardinality(Chosen) -> Chosen] :
        /\ \A i, j \in DOMAIN s : i # j => s[i] # s[j]
        /\ \A i, j \in DOMAIN s : i < j => LexLeq(MemoryRank(s[i], at), MemoryRank(s[j], at))}

Unsortable(raw) == \E i \in DOMAIN config.sort : Incomparable(table, Chosen, config.sort, i, raw)

LEMMA MemoryIs ==
    ASSUME NEW p \in MemoryArrangements(table, Chosen, config.sort), ~Unsortable(FALSE)
    PROVE  \E s \in MemorySorted(0) :
              LET at == IF s = <<>> THEN 0 ELSE FirstDescendingText(config.sort, table[s[1]])
              IN  \/ at = 0 /\ p = s
                  \/ at # 0 /\ (~Unsortable(TRUE) => p \in MemorySorted(at))
  BY Zenon DEF MemoryArrangements, Arrangements, MemorySorted, MemoryRank, Unsortable

LEMMA AskedFacts ==
    ASSUME TypeOK, UniqueOrder
    PROVE  /\ \A id \in DOMAIN table : AskedRank(id) \in [1..Len(config.sort) -> Int]
           /\ \A x, y \in DOMAIN table : AskedRank(x) = AskedRank(y) => x = y
  <1>1. DOMAIN config.sort = 1..Len(config.sort)
    BY ConfigFacts
  <1>2. ASSUME NEW id \in DOMAIN table PROVE AskedRank(id) \in [1..Len(config.sort) -> Int]
    <2>1. ASSUME NEW i \in DOMAIN config.sort PROVE AskedRank(id)[i] \in Int
      <3>1. ~Nested(config.sort[i].field)
        BY DEF UniqueOrder
      <3>2. Rank(table[id][config.sort[i].field], config.sort[i].dir) \in Int
        BY <3>1, KeyRanks
      <3> QED BY <3>2 DEF AskedRank
    <2>2. AskedRank(id) = [i \in 1..Len(config.sort) |-> AskedRank(id)[i]]
      BY <1>1 DEF AskedRank
    <2> QED BY <1>1, <2>1, <2>2
  <1>3. PICK i \in DOMAIN config.sort : config.sort[i].field = "id"
    BY DEF UniqueOrder
  <1>4. ASSUME NEW id \in DOMAIN table
        PROVE  AskedRank(id)[i] = IF config.sort[i].dir = "asc" THEN id ELSE -id
    <2>1. id \in Int /\ id # Null /\ table[id].id = id
      BY QueryAssumption DEF TypeOK, IsRow
    <2>2. AskedRank(id)[i] = Rank(id, config.sort[i].dir)
      BY <1>3, <2>1 DEF AskedRank
    <2> QED BY <2>1, <2>2 DEF Rank
  <1>5. \A id \in DOMAIN table : id \in Int
    BY DEF TypeOK
  <1> QED BY <1>2, <1>4, <1>5

\* In an order that both understand, the sort in memory is in the order asked for.
LEMMA MemoryAsked ==
    ASSUME TypeOK, UniqueOrder, SameOrder, NEW p \in MemoryArrangements(table, Chosen, config.sort)
    PROVE  \A i, j \in DOMAIN p : i < j => LexLeq(AskedRank(p[i]), AskedRank(p[j]))
  <1> DEFINE n == Cardinality(Chosen)
  <1>1. \A i \in DOMAIN config.sort : /\ ~Nested(config.sort[i].field)
                                      /\ config.sort[i].dir \in {"asc", "desc"}
    BY KeyFacts DEF UniqueOrder
  <1>2. ~Unsortable(FALSE)
    BY ChosenFacts DEF Unsortable, Incomparable, SameOrder
  <1>3. PICK s \in MemorySorted(0) :
          LET at == IF s = <<>> THEN 0 ELSE FirstDescendingText(config.sort, table[s[1]])
          IN  \/ at = 0 /\ p = s
              \/ at # 0 /\ (~Unsortable(TRUE) => p \in MemorySorted(at))
    BY <1>2, MemoryIs
  \* What is left of the directions.
  <1>4. ASSUME NEW at, p \in MemorySorted(at),
               \A i \in DOMAIN config.sort : Direction(config.sort, i, at) = config.sort[i].dir
        PROVE  \A i, j \in DOMAIN p : i < j => LexLeq(AskedRank(p[i]), AskedRank(p[j]))
    <2>1. ASSUME NEW id PROVE MemoryRank(id, at) = AskedRank(id)
      BY <1>1, <1>4 DEF MemoryRank, AskedRank, Value
    <2> QED BY <1>4, <2>1 DEF MemorySorted
  <1>5. CASE \A i \in DOMAIN config.sort : Text(config.sort[i].field) => config.sort[i].dir = "asc"
    <2>1. \A first : FirstDescendingText(config.sort, first) = 0
      BY <1>5 DEF FirstDescendingText
    <2>2. p \in MemorySorted(0)
      BY <1>3, <2>1
    <2>3. \A i \in DOMAIN config.sort : Direction(config.sort, i, 0) = config.sort[i].dir
      BY <1>5 DEF Direction
    <2> QED BY <1>4, <2>2, <2>3
  <1>6. CASE \E i \in DOMAIN config.sort : config.sort[i].dir = "desc" /\ Text(config.sort[i].field)
    <2>1. /\ DOMAIN config.sort = {1} /\ config.sort[1].field = "id"
          /\ config.sort[1].dir = "desc" /\ Text(config.sort[1].field)
      <3>1. DOMAIN config.sort = 1..Len(config.sort) /\ Len(config.sort) = 1
        BY <1>6, ConfigFacts DEF SameOrder
      <3>2. DOMAIN config.sort = {1}
        BY <3>1
      <3> QED BY <1>6, <3>2 DEF UniqueOrder
    <2>2. \A id \in Chosen : Value(table[id], "id") = id /\ id # Null
      BY ChosenFacts, QueryAssumption DEF TypeOK, IsRow, Value, Nested
    <2>3. ~Unsortable(TRUE)
      BY <2>1, <2>2 DEF Unsortable, Incomparable
    <2>4. ASSUME NEW id \in Chosen PROVE FirstDescendingText(config.sort, table[id]) = 1
      BY <2>1, <2>2 DEF FirstDescendingText
    <2>5. CASE s = <<>>
      BY <1>3, <2>5
    <2>6. CASE s # <<>>
      <3>1. s \in [1..n -> Chosen] /\ n \in Nat
        BY ChosenFacts DEF MemorySorted
      <3>2. s[1] \in Chosen
        BY <2>6, <3>1
      <3>3. p \in MemorySorted(1)
        BY <1>3, <2>3, <2>4, <2>6, <3>2
      <3>4. \A i \in DOMAIN config.sort : Direction(config.sort, i, 1) = config.sort[i].dir
        BY <2>1 DEF Direction
      <3> QED BY <1>4, <3>3, <3>4
    <2> QED BY <2>5, <2>6
  <1> QED BY <1>1, <1>5, <1>6

LEMMA LexAlike ==
    ASSUME NEW k \in Nat, NEW p \in [1..k -> Int], NEW q \in [1..k -> Int],
           NEW r \in [1..k -> Int], NEW s \in [1..k -> Int], LexLeq(p, q),
           \A i \in 1..k : (p[i] < q[i] <=> r[i] < s[i]) /\ (q[i] < p[i] <=> s[i] < r[i])
    PROVE  LexLeq(r, s)
  <1>1. \A i \in 1..k : p[i] = q[i] => r[i] = s[i]
    <2> TAKE i \in 1..k
    <2>1. p[i] \in Int /\ q[i] \in Int /\ r[i] \in Int /\ s[i] \in Int
      OBVIOUS
    <2> QED BY <2>1
  <1>2. CASE p = q
    <2>1. r = s
      BY <1>1, <1>2
    <2> QED BY <2>1 DEF LexLeq
  <1>3. CASE p # q
    <2>1. PICK i \in 1..k : p[i] < q[i] /\ \A j \in 1..(i - 1) : p[j] = q[j]
      BY <1>3 DEF LexLeq
    <2>2. r[i] < s[i] /\ \A j \in 1..(i - 1) : r[j] = s[j]
      BY <1>1, <2>1
    <2> QED BY <2>2 DEF LexLeq
  <1> QED BY <1>2, <1>3

\* By one key of an order that both understand, the database ranks two rows as the
\* order asks.
LEMMA SameRanks ==
    ASSUME TypeOK, UniqueOrder, SameOrder, NEW i \in DOMAIN config.sort,
           NEW x, NEW y, x[1] \in DOMAIN table, y[1] \in DOMAIN table
    PROVE  RankIn(table, x)[i] < RankIn(table, y)[i] <=> AskedRank(x[1])[i] < AskedRank(y[1])[i]
  <1> DEFINE f == config.sort[i].field
             d == config.sort[i].dir
             a == table[x[1]][f]
             b == table[y[1]][f]
  <1>1. InSql(f) /\ ~Nested(f) /\ d \in {"asc", "desc"}
    BY KeyFacts DEF SameOrder, UniqueOrder
  <1>2. /\ RankIn(table, x)[i] = Rank(IF a = Null THEN Null ELSE Place(f, a), d)
        /\ RankIn(table, y)[i] = Rank(IF b = Null THEN Null ELSE Place(f, b), d)
        /\ AskedRank(x[1])[i] = Rank(a, d) /\ AskedRank(y[1])[i] = Rank(b, d)
    BY <1>1 DEF RankIn, Placed, Column, AskedRank
  <1>3. a \in Int \union {Null} /\ b \in Int \union {Null}
    BY <1>1, KeyRanks
  <1>4. CASE ~Text(f)
    BY <1>2, <1>4 DEF Place, Collated, Text
  <1>5. CASE Text(f)
    <2>1. Value(table[x[1]], f) = a /\ Value(table[y[1]], f) = b
      BY <1>1 DEF Value
    <2>2. a # Null /\ b # Null /\ Alike(f, ValuesOf(f))
      BY <1>5, <2>1 DEF SameOrder
    <2>3. a \in ValuesOf(f) /\ b \in ValuesOf(f)
      BY <2>1, <2>2 DEF ValuesOf
    <2>4. (a < b <=> Place(f, a) < Place(f, b)) /\ (b < a <=> Place(f, b) < Place(f, a))
      BY <2>2, <2>3 DEF Alike
    <2>5. a \in Int /\ b \in Int /\ Place(f, a) \in Int /\ Place(f, b) \in Int
          /\ Place(f, a) # Null /\ Place(f, b) # Null
      BY <1>3, <2>2, PlaceIs
    <2> HIDE DEF a, b, f, d
    <2> QED BY <1>1, <1>2, <2>2, <2>4, <2>5 DEF Rank
  <1> QED BY <1>4, <1>5

\* The export of everything lists its rows in the order asked for.
LEMMA ExportAsked ==
    ASSUME TypeOK, PagesInv, NEW e \in Executions, Previewed(e), UniqueOrder, SameOrder
    PROVE  \A i, j \in DOMAIN out[e] : i < j => LexLeq(AskedRank(out[e][i]), AskedRank(out[e][j]))
  <1>1. PICK s \in SqlArrangements(table, Answered, config.sort) :
            \A i \in DOMAIN out[e] : out[e][i] = s[i][1]
    BY WholeFile
  <1>2. DOMAIN out[e] = DOMAIN s
    BY WholeFile, ArrangedLists
  <1>3. \A i, j \in DOMAIN s : i < j => LexLeq(RankIn(table, s[i]), RankIn(table, s[j]))
    BY Arranged
  <1>4. ASSUME NEW x \in Answered, NEW y \in Answered, LexLeq(RankIn(table, x), RankIn(table, y))
        PROVE  LexLeq(AskedRank(x[1]), AskedRank(y[1]))
    <2>1. x[1] \in DOMAIN table /\ y[1] \in DOMAIN table
      BY RowOf
    <2>2. /\ RankIn(table, x) \in [1..Len(config.sort) -> Int]
          /\ RankIn(table, y) \in [1..Len(config.sort) -> Int]
          /\ AskedRank(x[1]) \in [1..Len(config.sort) -> Int]
          /\ AskedRank(y[1]) \in [1..Len(config.sort) -> Int]
      BY <2>1, RanksAreNumbers, AskedFacts
    <2>3. Len(config.sort) \in Nat /\ DOMAIN config.sort = 1..Len(config.sort)
      BY ConfigFacts
    <2>4. ASSUME NEW i \in 1..Len(config.sort)
          PROVE  /\ RankIn(table, x)[i] < RankIn(table, y)[i] <=> AskedRank(x[1])[i] < AskedRank(y[1])[i]
                 /\ RankIn(table, y)[i] < RankIn(table, x)[i] <=> AskedRank(y[1])[i] < AskedRank(x[1])[i]
      BY <2>1, <2>3, <2>4, SameRanks
    <2> QED BY <1>4, <2>2, <2>3, <2>4, LexAlike
  <1>5. \A i \in DOMAIN s : s[i] \in Answered
    BY ArrangedLists
  <1> QED BY <1>1, <1>2, <1>3, <1>4, <1>5

\* A preview and the export it precedes list the rows in the same order, whatever
\* the rows and the keys (engine.py:182-190, 474-590).
THEOREM PreviewOrdersRight == Spec => []PreviewOrdersAsTheExport
  <1>1. TypeOK /\ PagesInv /\ PreviewInv => PreviewOrdersAsTheExport
    <2> SUFFICES ASSUME TypeOK, PagesInv, PreviewInv, NEW e \in Executions, Previewed(e),
                        UniqueOrder, SameOrder, Ids(out[e]) = Ids(preview), Len(out[e]) = Len(preview)
                 PROVE  out[e] = preview
      BY DEF PreviewOrdersAsTheExport
    <2> DEFINE n == Cardinality(Chosen)
               R == [id \in Chosen |-> AskedRank(id)]
    <2>1. preview \in MemoryArrangements(table, Chosen, config.sort)
      BY DEF PreviewInv, Previewed
    <2>2. /\ Lists(Chosen, n, preview) /\ Len(preview) = n /\ DOMAIN preview = 1..n
          /\ Ids(preview) = Chosen
      BY <2>1, MemoryLists
    <2>3. /\ IsFiniteSet(Chosen) /\ n \in Nat /\ Chosen \subseteq DOMAIN table
          /\ Len(config.sort) \in Nat
      BY ChosenFacts, ConfigFacts
    <2>4. out[e] \in [1..n -> Chosen] /\ Ids(out[e]) = Chosen
      <3>1. out[e] \in Seq(Int) /\ DOMAIN out[e] = 1..n /\ out[e] = [i \in 1..n |-> out[e][i]]
        BY <2>2, WholeFile
      <3> QED BY <2>2, <3>1 DEF Ids
    <2>5. Lists(Chosen, n, out[e])
      <3>1. out[e] \in Surjection(1..n, Chosen)
        BY <2>4 DEF Surjection, Ids
      <3>2. IsFiniteSet(1..n) /\ Cardinality(1..n) = n
        BY <2>3, FS_Interval
      <3>3. out[e] \in Injection(1..n, Chosen)
        BY <3>1, <3>2, FS_SurjSameCardinalityImpliesInj
      <3> QED BY <2>4, <3>3 DEF Lists, Injection, IsInjective
    <2>6. AreRanks(Chosen, Len(config.sort), R)
      BY <2>3, AskedFacts DEF AreRanks
    <2>7. Sorted(Chosen, n, R, preview)
      BY <2>1, <2>2, MemoryAsked DEF Sorted, Lists
    <2>8. Sorted(Chosen, n, R, out[e])
      BY <2>4, <2>5, ExportAsked DEF Sorted
    <2>9. ASSUME NEW i \in 1..n PROVE out[e][i] = preview[i]
      <3>1. R[out[e][i]] = R[preview[i]]
        <4>1. Cardinality(Chosen) = n
          OBVIOUS
        <4>2. n \in Nat /\ IsFiniteSet(Chosen) /\ Len(config.sort) \in Nat /\ i \in 1..n
          BY <2>3, <2>9
        <4> HIDE DEF R, n
        <4> QED BY <2>6, <2>7, <2>8, <4>1, <4>2, SortedAlike
      <3>2. out[e][i] \in Chosen /\ preview[i] \in Chosen
        BY <2>2, <2>4 DEF Lists
      <3> QED BY <2>3, <3>1, <3>2, AskedFacts
    <2> QED BY <2>2, <2>4, <2>9 DEF Lists
  <1> QED BY <1>1, PreviewInvariant, PTL
=============================================================================
