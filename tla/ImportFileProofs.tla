--------------------------- MODULE ImportFileProofs ---------------------------
(* The safety of imports, for any executions, files, bounds and keys. *)
EXTENDS ImportFile, TLAPS

\* What Assumption says of the file of an execution.
LEMMA FileFacts ==
    ASSUME TypeOK, NEW e \in Executions
    PROVE  /\ file[e] \in FileType
           /\ Size(e) \in Nat /\ Size(e) <= MaxRows
           /\ \A i \in 1..Size(e) : i \in 1..MaxRows /\ Row(e, i) \in RowType
  <1>1. file[e] \in Files /\ file[e] \in FileType /\ Len(file[e].rows) <= MaxRows
    BY Assumption DEF TypeOK
  <1>2. file[e].rows \in Seq(RowType)
    BY <1>1 DEF FileType
  <1>3. Size(e) \in Nat /\ DOMAIN file[e].rows = 1..Size(e)
    BY <1>2 DEF Size
  <1>4. \A i \in 1..Size(e) : Row(e, i) \in RowType
    BY <1>2, <1>3 DEF Row
  <1> QED BY <1>1, <1>3, <1>4, Assumption DEF Size

\* The types of what a row adds to the session and to the counters.
LEMMA CountType ==
    ASSUME TypeOK, NEW e \in Executions, at[e] <= Size(e),
           NEW o \in Outcomes, Count(e, o)
    PROVE  /\ outcome' \in [Executions -> [1..MaxRows -> Outcomes]]
           /\ at' \in [Executions -> 1..(MaxRows + 1)]
  BY FileFacts, Assumption DEF Count, TypeOK

LEMMA AddType ==
    ASSUME TypeOK, NEW e \in Executions, at[e] <= Size(e),
           NEW o \in {"insert", "update", "delete"}, NEW id \in RowIds, NEW w \in BOOLEAN,
           Add(e, o, id, w)
    PROVE  pending' \in [Executions -> SUBSET Changes]
  <1>1. at[e] \in 1..MaxRows /\ Row(e, at[e]).key \in Keys \union {NoKey}
    BY FileFacts DEF TypeOK, RowType
  <1>2. [row |-> at[e], op |-> o, key |-> Row(e, at[e]).key, id |-> id, writes |-> w] \in Changes
    BY <1>1 DEF Changes
  <1> QED BY <1>2 DEF Add, TypeOK

\* What a transaction sees of a key has the type of the table.
LEMMA ViewType ==
    ASSUME TypeOK, NEW e \in Executions, NEW k \in Keys
    PROVE  View(e, k) \in Versions \union {Absent}
  BY Markers DEF View, TypeOK

LEMMA NoChangeType == NoChange \in [Keys -> Versions \union {Absent, Untouched}]
  BY DEF NoChange

LEMMA RollBackType ==
    ASSUME TypeOK, NEW e \in Executions, RollBack(e)
    PROVE  /\ session' \in [Executions -> {"open", "aborted"}]
           /\ pending' \in [Executions -> SUBSET Changes]
           /\ flushed' \in [Executions -> SUBSET (1..MaxRows)]
           /\ overlay' \in [Executions -> [Keys -> Versions \union {Absent, Untouched}]]
  BY NoChangeType DEF RollBack, TypeOK

LEMMA BatchRaisesType ==
    ASSUME TypeOK, NEW e \in Executions, BatchRaises(e)
    PROVE  /\ at' \in [Executions -> 1..(MaxRows + 1)]
           /\ from' \in [Executions -> 1..(MaxRows + 1)]
           /\ closed' \in [Executions -> 0..MaxRows]
           /\ outcome' \in [Executions -> [1..MaxRows -> Outcomes]]
  <1>1. PICK j \in Rows(e) :
          /\ at' = [at EXCEPT ![e] = j + 1]
          /\ from' = [from EXCEPT ![e] = j + 1]
          /\ closed' = [closed EXCEPT ![e] = j]
          /\ outcome' = [outcome EXCEPT ![e] =
               [i \in 1..MaxRows |-> IF i \in from[e]..j THEN "failed" ELSE @[i]]]
    BY DEF BatchRaises
  <1>2. j \in 1..MaxRows
    BY FileFacts DEF Rows
  <1>3. [i \in 1..MaxRows |-> IF i \in from[e]..j THEN "failed" ELSE outcome[e][i]]
          \in [1..MaxRows -> Outcomes]
    <2>1. outcome[e] \in [1..MaxRows -> Outcomes] /\ "failed" \in Outcomes
      BY DEF TypeOK, Outcomes
    <2> QED BY <2>1
  <1> QED BY <1>1, <1>2, <1>3, Assumption DEF TypeOK

LEMMA EffectType ==
    ASSUME TypeOK, NEW e \in Executions, NEW k \in Keys, NEW c \in pending[e], c.key = k,
           c.row \in 1..Size(e), Accepts(e, c)
    PROVE  /\ Effect(e, c) \in Versions \union {Absent, Untouched}
           /\ c.op # "delete" => Effect(e, c) \in Versions
  <1>1. c \in Changes
    BY DEF TypeOK
  <1>2. Row(e, c.row).value \in Values
    BY FileFacts DEF RowType
  <1>3. CASE c.op = "insert"
    BY <1>1, <1>2, <1>3 DEF Effect, Changes, Versions
  <1>4. CASE c.op = "update"
    <2>1. View(e, k) \in Versions
      BY <1>4, ViewType DEF Accepts, Present
    <2> QED BY <1>1, <1>2, <1>4, <2>1 DEF Effect, Changes, Versions
  <1>5. CASE c.op = "delete"
    BY <1>5 DEF Effect, TypeOK
  <1> QED BY <1>1, <1>3, <1>4, <1>5 DEF Changes

LEMMA TypeInit == Init => TypeOK
  <1> SUFFICES ASSUME Init PROVE TypeOK
    OBVIOUS
  <1>1. \A v \in Values : [id |-> Seeded, value |-> v] \in Versions
    BY DEF Versions, RowIds
  <1>2. table \in [Keys -> Versions \union {Absent}]
    BY <1>1 DEF Init
  <1>3. overlay \in [Executions -> [Keys -> Versions \union {Absent, Untouched}]]
    BY NoChangeType DEF Init
  <1>4. outcome \in [Executions -> [1..MaxRows -> Outcomes]]
    BY DEF Init, Outcomes
  <1>5. /\ at \in [Executions -> 1..(MaxRows + 1)] /\ from \in [Executions -> 1..(MaxRows + 1)]
        /\ closed \in [Executions -> 0..MaxRows] /\ faults \in 0..MaxFaults
    BY Assumption DEF Init
  <1>6. /\ status \in [Executions -> {"waiting", "running", "SUCCEEDED", "FAILED", "crashed"}]
        /\ session \in [Executions -> {"open", "aborted"}]
        /\ pending \in [Executions -> SUBSET Changes]
        /\ flushed \in [Executions -> SUBSET (1..MaxRows)]
        /\ applied \in [Executions -> SUBSET (1..MaxRows)]
        /\ before \in [Executions -> SUBSET Executions]
        /\ file \in [Executions -> Files]
    BY DEF Init
  <1> QED BY <1>2, <1>3, <1>4, <1>5, <1>6 DEF TypeOK

\* The pending changes belong to rows of the file.
LEMMA PendingRows ==
    ASSUME TypeOK, Position, OpenTransaction, NEW e \in Executions, NEW c \in pending[e]
    PROVE  /\ c \in Changes /\ c.row \in 1..Size(e) /\ c.key = Row(e, c.row).key
           /\ c.row > closed[e] /\ c.row < at[e]
  <1>1. /\ c \in Changes /\ c.row \in (closed[e] + 1)..(at[e] - 1)
        /\ c.key = Row(e, c.row).key /\ at[e] <= Size(e) + 1
    BY DEF TypeOK, OpenTransaction, InOrder, Position, Placed
  <1>2. closed[e] \in Nat /\ at[e] \in Nat /\ Size(e) \in Nat
    BY FileFacts, Assumption DEF TypeOK
  <1> QED BY <1>1, <1>2

LEMMA TypeStep ==
    ASSUME TypeOK, Position, OpenTransaction, [Next]_vars
    PROVE  TypeOK'
  <1>1. CASE UNCHANGED vars
    BY <1>1 DEF vars, sessionVars, TypeOK
  <1>2. ASSUME NEW e \in Executions, Start(e) PROVE TypeOK'
    BY <1>2 DEF Start, sessionVars, TypeOK
  <1>3. ASSUME NEW e \in Executions, RejectRow(e) PROVE TypeOK'
    BY <1>3, CountType DEF RejectRow, InRow, rowUnchanged, TypeOK, Outcomes
  <1>4. ASSUME NEW e \in Executions, AddKeyless(e) PROVE TypeOK'
    <2>1. at[e] <= Size(e) /\ <<e, at[e]>> \in RowIds
      BY <1>4, FileFacts DEF AddKeyless, InRow, RowIds, TypeOK
    <2>2. pending' \in [Executions -> SUBSET Changes]
      BY <1>4, <2>1, AddType DEF AddKeyless, TypeOK
    <2>3. /\ outcome' \in [Executions -> [1..MaxRows -> Outcomes]]
          /\ at' \in [Executions -> 1..(MaxRows + 1)]
      <3>1. PICK o \in Outcomes : Count(e, o)
        BY <1>4 DEF AddKeyless, Outcomes
      <3> QED BY <3>1, <2>1, CountType
    <2> QED BY <1>4, <2>2, <2>3 DEF AddKeyless, rowUnchanged, TypeOK
  <1>5. ASSUME NEW e \in Executions, LookupFails(e) PROVE TypeOK'
    <2>1. /\ outcome' \in [Executions -> [1..MaxRows -> Outcomes]]
          /\ at' \in [Executions -> 1..(MaxRows + 1)]
      BY <1>5, CountType DEF LookupFails, LooksUp, InRow, Outcomes
    <2> QED BY <1>5, <2>1, NoChangeType DEF LookupFails, TypeOK
  <1>6. ASSUME NEW e \in Executions, CannotConnect(e) PROVE TypeOK'
    <2>1. /\ outcome' \in [Executions -> [1..MaxRows -> Outcomes]]
          /\ at' \in [Executions -> 1..(MaxRows + 1)]
      BY <1>6, CountType DEF CannotConnect, LooksUp, InRow, Outcomes
    <2> QED BY <1>6, <2>1, Assumption DEF CannotConnect, Fault, sessionVars, TypeOK
  <1>7. ASSUME NEW e \in Executions, ApplyRow(e) PROVE TypeOK'
    <2>1. /\ at[e] <= Size(e) /\ <<e, at[e]>> \in RowIds
          /\ Row(e, at[e]).key \in Keys
      BY <1>7, FileFacts DEF ApplyRow, LooksUp, InRow, RowIds, TypeOK, RowType
    <2>2. Present(e, Row(e, at[e]).key) => View(e, Row(e, at[e]).key).id \in RowIds
      BY <2>1, ViewType DEF Present, Versions
    <2>3. pending' \in [Executions -> SUBSET Changes]
      BY <1>7, <2>1, <2>2, AddType DEF ApplyRow, TypeOK
    <2>4. /\ outcome' \in [Executions -> [1..MaxRows -> Outcomes]]
          /\ at' \in [Executions -> 1..(MaxRows + 1)]
      <3>1. PICK o \in Outcomes : Count(e, o)
        BY <1>7 DEF ApplyRow, Outcomes
      <3> QED BY <3>1, <2>1, CountType
    <2> QED BY <1>7, <2>3, <2>4 DEF ApplyRow, rowUnchanged, TypeOK
  <1>8. ASSUME NEW e \in Executions, Flush(e) PROVE TypeOK'
    <2>1. ASSUME NEW k \in Keys
          PROVE  (IF \E c \in pending[e] : c.key = k
                  THEN Effect(e, CHOOSE c \in pending[e] : c.key = k) ELSE overlay[e][k])
                   \in Versions \union {Absent, Untouched}
      <3>1. CASE \E c \in pending[e] : c.key = k
        <4> DEFINE c == CHOOSE c \in pending[e] : c.key = k
        <4>1. c \in pending[e] /\ c.key = k
          BY <3>1
        <4>2. c.row \in 1..Size(e) /\ Accepts(e, c)
          BY <1>8, <4>1, PendingRows DEF Flush
        <4>3. Effect(e, c) \in Versions \union {Absent, Untouched}
          BY <4>1, <4>2, EffectType
        <4> QED BY <3>1, <4>3
      <3>2. CASE ~ \E c \in pending[e] : c.key = k
        BY <3>2 DEF TypeOK
      <3> QED BY <3>1, <3>2
    <2>2. overlay' \in [Executions -> [Keys -> Versions \union {Absent, Untouched}]]
      BY <1>8, <2>1 DEF Flush, TypeOK
    <2>3. {c.row : c \in pending[e]} \subseteq 1..MaxRows
      BY DEF TypeOK, Changes
    <2> QED BY <1>8, <2>2, <2>3 DEF Flush, TypeOK
  <1>9. ASSUME NEW e \in Executions, FlushFails(e) PROVE TypeOK'
    BY <1>9, RollBackType, BatchRaisesType DEF FlushFails, TypeOK
  <1>10. ASSUME NEW e \in Executions, Commit(e) PROVE TypeOK'
    <2>1. table' \in [Keys -> Versions \union {Absent}] /\ applied' \in [Executions -> SUBSET (1..MaxRows)]
      BY <1>10, ViewType DEF Commit, TypeOK
    <2>2. at[e] - 1 \in 0..MaxRows
      BY Assumption DEF TypeOK
    <2> QED BY <1>10, <2>1, <2>2, RollBackType DEF Commit, TypeOK
  <1>11. ASSUME NEW e \in Executions, ConnectionLost(e) PROVE TypeOK'
    <2>1. table' \in [Keys -> Versions \union {Absent}]
      <3>1. CASE UNCHANGED table
        BY <3>1 DEF TypeOK
      <3>2. CASE table' = [k \in Keys |-> View(e, k)]
        BY <3>2, ViewType
      <3> QED BY <1>11, <3>1, <3>2 DEF ConnectionLost
    <2>2. applied' \in [Executions -> SUBSET (1..MaxRows)]
      <3>1. CASE UNCHANGED applied
        BY <3>1 DEF TypeOK
      <3>2. CASE applied' = [applied EXCEPT ![e] = @ \union flushed[e]]
        BY <3>2 DEF TypeOK
      <3> QED BY <1>11, <3>1, <3>2 DEF ConnectionLost
    <2>3. faults' \in 0..MaxFaults
      BY <1>11, Assumption DEF ConnectionLost, Fault, TypeOK
    <2>4. RollBack(e) /\ BatchRaises(e) /\ UNCHANGED <<file, status, before>>
      BY <1>11 DEF ConnectionLost
    <2> QED BY <2>1, <2>2, <2>3, <2>4, RollBackType, BatchRaisesType DEF TypeOK
  <1>12. ASSUME NEW e \in Executions, Finish(e) PROVE TypeOK'
    BY <1>12 DEF Finish, sessionVars, TypeOK
  <1>13. ASSUME NEW e \in Executions, Crash(e) PROVE TypeOK'
    BY <1>13, RollBackType, Assumption DEF Crash, Fault, TypeOK
  <1> QED BY <1>1, <1>2, <1>3, <1>4, <1>5, <1>6, <1>7, <1>8, <1>9, <1>10, <1>11, <1>12, <1>13 DEF Next, Step

-----------------------------------------------------------------------------
(* Counters against the table.                                               *)

CountingInv == TypeOK /\ CountInv

\* The file of an execution never changes.
LEMMA FileKept ==
    ASSUME UNCHANGED file, NEW e
    PROVE  /\ Size(e)' = Size(e) /\ Rows(e)' = Rows(e)
           /\ \A i : Row(e, i)' = Row(e, i)
           /\ \A i : EndsBatch(e, i)' <=> EndsBatch(e, i)
           /\ \A i : EndsSubBatch(e, i)' <=> EndsSubBatch(e, i)
           /\ \A i, j : SameSubBatch(e, i, j)' <=> SameSubBatch(e, i, j)
  <1>1. /\ Size(e)' = Size(e) /\ Rows(e)' = Rows(e)
        /\ \A i : Row(e, i)' = Row(e, i)
    BY DEF Size, Rows, Row
  <1>2. \A i : EndsBatch(e, i)' <=> EndsBatch(e, i)
    BY <1>1 DEF EndsBatch
  <1>3. \A i : EndsSubBatch(e, i)' <=> EndsSubBatch(e, i)
    BY <1>2 DEF EndsSubBatch
  <1> QED BY <1>1, <1>2, <1>3 DEF SameSubBatch

\* The numbers of a position are integers.
LEMMA Numbers ==
    ASSUME TypeOK, NEW e \in Executions
    PROVE  from[e] \in Nat /\ closed[e] \in Nat /\ at[e] \in Nat /\ Size(e) \in Nat
  BY FileFacts, Assumption DEF TypeOK

\* An execution whose own state does not change keeps its invariants.
LEMMA Bystander ==
    ASSUME CountInv, NEW x \in Executions, UNCHANGED file,
           UNCHANGED <<status[x], at[x], from[x], closed[x], session[x], pending[x],
                       flushed[x], outcome[x], applied[x]>>
    PROVE  Placed(x)' /\ InOrder(x)' /\ Explained(x)'
  <1> Placed(x) /\ InOrder(x) /\ Explained(x)
    BY DEF CountInv, Position, OpenTransaction, CountedIsCommitted
  <1>0. /\ \A i : Row(x, i)' = Row(x, i)
        /\ \A i, j : SameSubBatch(x, i, j)' <=> SameSubBatch(x, i, j)
    BY FileKept
  <1>1. Placed(x)'
    BY FileKept DEF Placed
  <1>2. InOrder(x)'
    <2>1. /\ applied'[x] \subseteq 1..closed'[x]
          /\ flushed'[x] \subseteq (closed'[x] + 1)..(at'[x] - 1)
      BY DEF InOrder
    <2>2. \A c \in pending'[x] : /\ c.row \in (closed'[x] + 1)..(at'[x] - 1)
                                 /\ c.key = Row(x, c.row).key
                                 /\ c.op = "delete" => outcome'[x][c.row] = "deleted"
      BY DEF InOrder
    <2>3. status'[x] = "running" /\ session'[x] = "open" =>
            \A i \in (closed'[x] + 1)..(at'[x] - 1) :
              outcome'[x][i] \in Done => i \in flushed'[x] \/ \E c \in pending'[x] : c.row = i
      BY DEF InOrder
    <2>4. session'[x] = "aborted" =>
            \E j \in (closed'[x] + 1)..(at'[x] - 1) :
              outcome'[x][j] = "failed" /\ Row(x, j).kind = "unreadable"
      BY DEF InOrder
    <2> QED BY <1>0, <2>1, <2>2, <2>3, <2>4 DEF InOrder
  <1>3. Explained(x)'
    BY <1>0 DEF Explained
  <1> QED BY <1>1, <1>2, <1>3

\* A row is counted and nothing is closed: the position advances by one row, and
\* what was counted before stays.
LEMMA CountStep ==
    ASSUME TypeOK, CountInv, NEW e \in Executions, InRow(e),
           NEW o \in Outcomes \ {"none"}, Count(e, o),
           UNCHANGED <<file, status, from, closed, applied>>
    PROVE  /\ Placed(e)' /\ Explained(e)'
           /\ at'[e] = at[e] + 1 /\ outcome'[e][at[e]] = o
           /\ \A i \in 1..(at[e] - 1) : outcome'[e][i] = outcome[e][i]
  <1>1. /\ from[e] \in Nat /\ closed[e] \in Nat /\ at[e] \in Nat /\ Size(e) \in Nat
        /\ at[e] <= Size(e) /\ Size(e) <= MaxRows /\ closed[e] < at[e]
    BY Numbers, FileFacts DEF InRow, CountInv, Position, Placed
  <1>2. at'[e] = at[e] + 1
    BY DEF Count, TypeOK
  <1>3. /\ outcome'[e][at[e]] = o
        /\ \A i \in 1..(at[e] - 1) : outcome'[e][i] = outcome[e][i]
    BY <1>1, Assumption DEF Count, TypeOK
  <1>4. Placed(e)'
    <2>1. Placed(e) /\ status[e] = "running" /\ ~SubBatchOver(e)
      BY DEF InRow, CountInv, Position
    <2>2. \A m \in (closed[e] + 1)..(at'[e] - 2) : ~EndsSubBatch(e, m)
      <3>1. ASSUME NEW m \in (closed[e] + 1)..(at'[e] - 2) PROVE ~EndsSubBatch(e, m)
        <4>1. m = at[e] - 1 \/ m \in (closed[e] + 1)..(at[e] - 2)
          BY <1>1, <1>2
        <4> QED BY <1>1, <1>2, <2>1, <4>1 DEF Placed, SubBatchOver
      <3> QED BY <3>1
    <2>3. \A i \in 1..(at'[e] - 1) : outcome'[e][i] # "none"
      BY <1>1, <1>2, <1>3, <2>1 DEF Placed
    <2> QED BY <1>1, <1>2, <2>1, <2>2, <2>3, FileKept DEF Placed
  <1>5. Explained(e)'
    <2>1. \A i \in 1..closed[e] : outcome'[e][i] = outcome[e][i]
      BY <1>1, <1>3
    <2> QED BY <2>1, FileKept DEF Explained, CountInv, CountedIsCommitted
  <1> QED BY <1>2, <1>3, <1>4, <1>5

\* ... and the transaction stays in order, if a row that is counted as done adds
\* a change of its own to the session.
LEMMA CountedInOrder ==
    ASSUME TypeOK, CountInv, NEW e \in Executions, InRow(e),
           NEW o \in Outcomes \ {"none"}, Count(e, o),
           UNCHANGED <<file, status, from, closed, applied>>,
           session'[e] = session[e], flushed'[e] = flushed[e], pending[e] \subseteq pending'[e],
           \A c \in pending'[e] : \/ c \in pending[e]
                                  \/ /\ c.row = at[e] /\ c.key = Row(e, at[e]).key
                                     /\ c.op = "delete" => o = "deleted",
           o \in Done => \E c \in pending'[e] : c.row = at[e]
    PROVE  InOrder(e)'
  <1>1. /\ at'[e] = at[e] + 1 /\ outcome'[e][at[e]] = o
        /\ \A i \in 1..(at[e] - 1) : outcome'[e][i] = outcome[e][i]
    BY CountStep
  <1>2. /\ closed[e] \in Nat /\ at[e] \in Nat /\ closed[e] < at[e] /\ InOrder(e)
    BY Numbers DEF CountInv, Position, Placed, OpenTransaction
  <1>3. \A i : Row(e, i)' = Row(e, i)
    BY FileKept
  <1>4. applied'[e] \subseteq 1..closed'[e] /\ flushed'[e] \subseteq (closed'[e] + 1)..(at'[e] - 1)
    BY <1>1, <1>2 DEF InOrder
  <1>5. ASSUME NEW c \in pending'[e]
        PROVE  /\ c.row \in (closed'[e] + 1)..(at'[e] - 1)
               /\ c.key = Row(e, c.row).key
               /\ c.op = "delete" => outcome'[e][c.row] = "deleted"
    <2>1. CASE c \in pending[e]
      <3>1. c.row \in (closed[e] + 1)..(at[e] - 1)
        BY <1>2, <2>1 DEF InOrder
      <3>2. c.row \in 1..(at[e] - 1)
        BY <1>2, <3>1
      <3> QED BY <1>1, <1>2, <2>1, <3>1, <3>2 DEF InOrder
    <2>2. CASE c \notin pending[e]
      BY <1>1, <1>2, <2>2
    <2> QED BY <2>1, <2>2
  <1>6. ASSUME status'[e] = "running", session'[e] = "open",
               NEW i \in (closed'[e] + 1)..(at'[e] - 1), outcome'[e][i] \in Done
        PROVE  i \in flushed'[e] \/ \E c \in pending'[e] : c.row = i
    <2>1. CASE i = at[e]
      BY <1>1, <1>6, <2>1
    <2>2. CASE i # at[e]
      <3>1. i \in (closed[e] + 1)..(at[e] - 1) /\ i \in 1..(at[e] - 1)
        BY <1>1, <1>2, <2>2
      <3> QED BY <1>1, <1>2, <1>6, <3>1 DEF InOrder
    <2> QED BY <2>1, <2>2
  <1>7. ASSUME session'[e] = "aborted"
        PROVE  \E j \in (closed'[e] + 1)..(at'[e] - 1) :
                  outcome'[e][j] = "failed" /\ Row(e, j).kind = "unreadable"
    <2>1. PICK j \in (closed[e] + 1)..(at[e] - 1) :
             outcome[e][j] = "failed" /\ Row(e, j).kind = "unreadable"
      BY <1>2, <1>7 DEF InOrder
    <2>2. j \in (closed'[e] + 1)..(at'[e] - 1) /\ j \in 1..(at[e] - 1)
      BY <1>1, <1>2
    <2> QED BY <1>1, <2>1, <2>2
  <1> QED BY <1>3, <1>4, <1>5, <1>6, <1>7 DEF InOrder

\* The loop leaves a batch: import_data raised, the transaction is rolled back
\* (or was committed although the answer was lost).
LEMMA BatchRaisesStep ==
    ASSUME TypeOK, CountInv, NEW e \in Executions, BatchRaises(e), RollBack(e),
           UNCHANGED <<file, status>>, status[e] = "running",
           applied[e] \subseteq applied'[e], applied'[e] \subseteq applied[e] \union flushed[e]
    PROVE  Placed(e)' /\ InOrder(e)' /\ Explained(e)'
  <1>1. PICK j \in Rows(e) :
        /\ j >= from[e] /\ EndsBatch(e, j)
        /\ at' = [at EXCEPT ![e] = j + 1]
        /\ from' = [from EXCEPT ![e] = j + 1]
        /\ closed' = [closed EXCEPT ![e] = j]
        /\ outcome' = [outcome EXCEPT ![e] =
             [i \in 1..MaxRows |-> IF i \in from[e]..j THEN "failed" ELSE @[i]]]
    BY DEF BatchRaises
  <1>2. /\ from[e] \in Nat /\ closed[e] \in Nat /\ at[e] \in Nat
        /\ Size(e) \in Nat /\ Size(e) <= MaxRows /\ MaxRows \in Nat
        /\ j \in 1..Size(e) /\ j \in 1..MaxRows
    BY Numbers, FileFacts, Assumption DEF Rows
  <1>3. Placed(e) /\ InOrder(e) /\ Explained(e)
    BY DEF CountInv, Position, OpenTransaction, CountedIsCommitted
  <1>4. at[e] - 1 <= j
    <2> SUFFICES ASSUME j < at[e] - 1 PROVE FALSE
      BY <1>2
    <2>1. CASE j <= closed[e]
      <3>1. j \in from[e]..closed[e]
        BY <1>1, <1>2, <2>1
      <3> QED BY <1>1, <1>3, <3>1 DEF Placed
    <2>2. CASE j > closed[e]
      <3>1. j \in (closed[e] + 1)..(at[e] - 2)
        BY <1>2, <2>2
      <3> QED BY <1>1, <1>3, <3>1 DEF Placed, EndsSubBatch
    <2> QED BY <1>2, <2>1, <2>2
  <1>5. /\ at'[e] = j + 1 /\ from'[e] = j + 1 /\ closed'[e] = j
        /\ \A i \in 1..MaxRows : outcome'[e][i] = IF i \in from[e]..j THEN "failed" ELSE outcome[e][i]
    BY <1>1 DEF TypeOK
  <1>6. Placed(e)'
    <2>1. ASSUME NEW i \in 1..j PROVE outcome'[e][i] # "none"
      <3>1. CASE i \in from[e]..j
        BY <1>2, <1>5, <3>1
      <3>2. CASE i \notin from[e]..j
        <4>1. i \in 1..(at[e] - 1) /\ i \in 1..MaxRows
          BY <1>2, <1>3, <3>2 DEF Placed
        <4> QED BY <1>3, <1>5, <3>2, <4>1 DEF Placed
      <3> QED BY <3>1, <3>2
    <2>2. status'[e] = "running"
      OBVIOUS
    <2>3. from'[e]..closed'[e] = {} /\ (closed'[e] + 1)..(at'[e] - 2) = {}
      BY <1>2, <1>5
    <2> QED BY <1>2, <1>5, <2>1, <2>2, <2>3, FileKept DEF Placed
  <1>7. InOrder(e)'
    <2>1. applied'[e] \subseteq 1..j
      BY <1>2, <1>3, <1>4 DEF InOrder, Placed
    <2>2. pending'[e] = {} /\ flushed'[e] = {} /\ session'[e] = "open"
      BY DEF RollBack, TypeOK
    <2>3. (closed'[e] + 1)..(at'[e] - 1) = {}
      BY <1>2, <1>5
    <2> QED BY <1>5, <2>1, <2>2, <2>3 DEF InOrder
  <1>8. Explained(e)'
    <2> SUFFICES ASSUME NEW i \in 1..j, outcome'[e][i] \in Done, i \notin applied'[e]
                 PROVE  \E m \in 1..j : /\ outcome'[e][m] = "failed"
                                        /\ Row(e, m).kind = "unreadable"
                                        /\ SameSubBatch(e, i, m)
      <3>1. /\ \A m : Row(e, m)' = Row(e, m)
            /\ \A m, n : SameSubBatch(e, m, n)' <=> SameSubBatch(e, m, n)
        BY FileKept
      <3> QED BY <1>5, <3>1 DEF Explained
    <2>1. i \notin from[e]..j
      BY <1>2, <1>5 DEF Done
    <2>2. i \in 1..closed[e] /\ outcome[e][i] \in Done /\ i \notin applied[e]
      BY <1>2, <1>3, <1>5, <2>1 DEF Placed
    <2>3. PICK m \in 1..closed[e] : /\ outcome[e][m] = "failed"
                                    /\ Row(e, m).kind = "unreadable"
                                    /\ SameSubBatch(e, i, m)
      BY <1>3, <2>2 DEF Explained
    <2>4. m \in 1..j /\ m \in 1..MaxRows
      BY <1>2, <1>3, <1>4 DEF Placed
    <2> QED BY <1>5, <2>3, <2>4
  <1> QED BY <1>6, <1>7, <1>8

\* A transaction ends: what was flushed is in the table, or the database had
\* aborted it because of a row that is counted as failed.
LEMMA CommitStep ==
    ASSUME TypeOK, CountInv, NEW e \in Executions, Commit(e)
    PROVE  Placed(e)' /\ InOrder(e)' /\ Explained(e)'
  <1>1. /\ from[e] \in Nat /\ closed[e] \in Nat /\ at[e] \in Nat /\ Size(e) \in Nat
    BY Numbers
  <1>2. Placed(e) /\ InOrder(e) /\ Explained(e)
    BY DEF CountInv, Position, OpenTransaction, CountedIsCommitted
  <1>3. /\ closed'[e] = at[e] - 1 /\ at'[e] = at[e] /\ outcome' = outcome /\ status' = status
        /\ from'[e] = IF EndsBatch(e, at[e] - 1) THEN at[e] ELSE from[e]
        /\ applied'[e] = applied[e] \union flushed[e]
        /\ pending'[e] = {} /\ flushed'[e] = {} /\ session'[e] = "open"
    BY DEF Commit, RollBack, TypeOK
  <1>4. closed[e] < at[e] - 1 /\ status[e] = "running" /\ pending[e] = {} /\ UNCHANGED file
    BY DEF Commit, SubBatchOver
  <1>5. Placed(e)'
    <2>1. \A m \in from'[e]..closed'[e] : ~EndsBatch(e, m)
      <3> SUFFICES ASSUME NEW m \in from'[e]..(at[e] - 1) PROVE ~EndsBatch(e, m)
        BY <1>3
      <3>1. CASE EndsBatch(e, at[e] - 1)
        BY <1>1, <1>3, <3>1
      <3>2. CASE ~EndsBatch(e, at[e] - 1)
        <4>1. \/ m = at[e] - 1 \/ m \in from[e]..closed[e] \/ m \in (closed[e] + 1)..(at[e] - 2)
          BY <1>1, <1>3, <3>2
        <4> QED BY <1>2, <3>2, <4>1 DEF Placed, EndsSubBatch
      <3> QED BY <3>1, <3>2
    <2>2. (closed'[e] + 1)..(at'[e] - 2) = {}
      BY <1>1, <1>3
    <2>3. /\ 1 <= from'[e] /\ from'[e] <= closed'[e] + 1
          /\ closed'[e] < at'[e] /\ at'[e] <= Size(e) + 1
      BY <1>1, <1>2, <1>3, <1>4 DEF Placed
    <2>4. \A i \in 1..(at'[e] - 1) : outcome'[e][i] # "none"
      BY <1>2, <1>3 DEF Placed
    <2> QED BY <1>3, <1>4, <2>1, <2>2, <2>3, <2>4, FileKept DEF Placed
  <1>6. InOrder(e)'
    <2>1. applied'[e] \subseteq 1..closed'[e]
      BY <1>1, <1>2, <1>3, <1>4 DEF InOrder
    <2>2. (closed'[e] + 1)..(at'[e] - 1) = {}
      BY <1>1, <1>3
    <2> QED BY <1>3, <2>1, <2>2 DEF InOrder
  <1>7. Explained(e)'
    <2> SUFFICES ASSUME NEW i \in 1..(at[e] - 1), outcome[e][i] \in Done,
                        i \notin applied[e], i \notin flushed[e]
                 PROVE  \E j \in 1..(at[e] - 1) : /\ outcome[e][j] = "failed"
                                                  /\ Row(e, j).kind = "unreadable"
                                                  /\ SameSubBatch(e, i, j)
      <3>1. /\ \A m : Row(e, m)' = Row(e, m)
            /\ \A m, n : SameSubBatch(e, m, n)' <=> SameSubBatch(e, m, n)
        BY <1>4, FileKept
      <3> QED BY <1>3, <3>1 DEF Explained
    <2>1. CASE i <= closed[e]
      <3>1. PICK j \in 1..closed[e] : /\ outcome[e][j] = "failed"
                                      /\ Row(e, j).kind = "unreadable"
                                      /\ SameSubBatch(e, i, j)
        BY <1>1, <1>2, <2>1 DEF Explained
      <3> QED BY <1>1, <1>4, <3>1
    <2>2. CASE i > closed[e]
      <3>1. i \in (closed[e] + 1)..(at[e] - 1)
        BY <1>1, <2>2
      <3>2. session[e] = "aborted"
        BY <1>2, <1>4, <3>1 DEF InOrder, TypeOK
      <3>3. PICK j \in (closed[e] + 1)..(at[e] - 1) :
               outcome[e][j] = "failed" /\ Row(e, j).kind = "unreadable"
        BY <1>2, <3>2 DEF InOrder
      <3>4. (i..(j - 1)) \union (j..(i - 1)) \subseteq (closed[e] + 1)..(at[e] - 2)
        BY <1>1, <3>1
      <3>5. SameSubBatch(e, i, j)
        BY <1>2, <3>4 DEF Placed, SameSubBatch
      <3>6. j \in 1..(at[e] - 1)
        BY <1>1
      <3> QED BY <3>3, <3>5, <3>6
    <2> QED BY <1>1, <2>1, <2>2
  <1> QED BY <1>5, <1>6, <1>7

Action(e) == Start(e) \/ Step(e) \/ CannotConnect(e) \/ ConnectionLost(e) \/ Crash(e)

\* What a handler adds to the session.
LEMMA Added ==
    ASSUME TypeOK, NEW e \in Executions, NEW op, NEW id, NEW w, Add(e, op, id, w)
    PROVE  \E n \in pending'[e] : /\ pending'[e] = pending[e] \union {n}
                                  /\ n.row = at[e] /\ n.key = Row(e, at[e]).key /\ n.op = op
  <1> DEFINE n == [row |-> at[e], op |-> op, key |-> Row(e, at[e]).key, id |-> id, writes |-> w]
  <1>1. pending'[e] = pending[e] \union {n}
    BY DEF Add, TypeOK
  <1>2. n.row = at[e] /\ n.key = Row(e, at[e]).key /\ n.op = op
    OBVIOUS
  <1> HIDE DEF n
  <1> QED BY <1>1, <1>2

\* An execution keeps its own invariants.
LEMMA OwnStep ==
    ASSUME TypeOK, CountInv, NEW e \in Executions, Action(e)
    PROVE  Placed(e)' /\ InOrder(e)' /\ Explained(e)'
  <1>1. /\ from[e] \in Nat /\ closed[e] \in Nat /\ at[e] \in Nat /\ Size(e) \in Nat
    BY Numbers
  <1>2. Placed(e) /\ InOrder(e) /\ Explained(e)
    BY DEF CountInv, Position, OpenTransaction, CountedIsCommitted
  <1>3. CASE Start(e)
    <2>1. /\ UNCHANGED <<file, at, from, closed, sessionVars, outcome, applied>>
          /\ status'[e] \in {"running", "FAILED"} /\ status[e] = "waiting"
      BY <1>3 DEF Start, TypeOK
    <2>2. (closed[e] + 1)..(at[e] - 1) = {}
      BY <1>1, <1>2, <2>1 DEF Placed
    <2>3. InOrder(e)'
      <3>1. session[e] # "aborted" /\ pending[e] = {}
        BY <1>2, <2>2 DEF InOrder
      <3> QED BY <1>2, <2>1, <2>2, <3>1 DEF InOrder, sessionVars
    <2>4. Placed(e)'
      BY <1>2, <2>1, FileKept DEF Placed
    <2>5. Explained(e)'
      BY <1>2, <2>1, FileKept DEF Explained
    <2> QED BY <2>3, <2>4, <2>5
  <1>4. CASE RejectRow(e)
    <2>1. /\ InRow(e) /\ Count(e, "failed") /\ "failed" \in Outcomes \ {"none"} /\ "failed" \notin Done
          /\ UNCHANGED <<file, status, from, closed, applied, session, pending, flushed>>
      BY <1>4 DEF RejectRow, rowUnchanged, Outcomes, Done
    <2>2. InOrder(e)'
      BY <2>1, CountedInOrder
    <2> QED BY <2>1, <2>2, CountStep
  <1>5. CASE AddKeyless(e)
    <2>1. PICK o \in {"failed", "imported"} :
            /\ InRow(e) /\ Count(e, o)
            /\ UNCHANGED <<file, status, from, closed, applied, session, flushed>>
            /\ \/ o = "failed" /\ UNCHANGED pending
               \/ Add(e, "insert", <<e, at[e]>>, TRUE)
      BY <1>5 DEF AddKeyless, rowUnchanged
    <2>2. o \in Outcomes \ {"none"} /\ "failed" \notin Done
      BY DEF Outcomes, Done
    <2>3. /\ pending[e] \subseteq pending'[e]
          /\ \A c \in pending'[e] : c \in pending[e] \/ (/\ c.row = at[e] /\ c.key = Row(e, at[e]).key
                                                         /\ c.op # "delete")
          /\ o = "failed" \/ \E c \in pending'[e] : c.row = at[e]
      <3>1. CASE o = "failed" /\ UNCHANGED pending
        BY <3>1
      <3>2. CASE Add(e, "insert", <<e, at[e]>>, TRUE)
        <4>1. PICK n \in pending'[e] :
                 /\ pending'[e] = pending[e] \union {n}
                 /\ n.row = at[e] /\ n.key = Row(e, at[e]).key /\ n.op = "insert"
          BY <3>2, Added
        <4> QED BY <4>1
      <3> QED BY <2>1, <3>1, <3>2
    <2>4. InOrder(e)'
      BY <2>1, <2>2, <2>3, CountedInOrder
    <2> QED BY <2>1, <2>2, <2>4, CountStep
  <1>6. CASE LookupFails(e)
    <2>1. /\ InRow(e) /\ Count(e, "failed") /\ "failed" \in Outcomes \ {"none"}
          /\ UNCHANGED <<file, status, from, closed, applied, pending>>
          /\ pending[e] = {} /\ flushed'[e] = {} /\ session'[e] = "aborted"
          /\ session[e] = "aborted" \/ Row(e, at[e]).kind = "unreadable"
      BY <1>6 DEF LookupFails, LooksUp, Outcomes, TypeOK
    <2>2. /\ Placed(e)' /\ Explained(e)'
          /\ at'[e] = at[e] + 1 /\ outcome'[e][at[e]] = "failed"
          /\ \A i \in 1..(at[e] - 1) : outcome'[e][i] = outcome[e][i]
      BY <2>1, CountStep
    <2>3. \E j \in (closed[e] + 1)..at[e] : outcome'[e][j] = "failed" /\ Row(e, j).kind = "unreadable"
      <3>1. CASE session[e] = "aborted"
        <4>1. PICK j \in (closed[e] + 1)..(at[e] - 1) :
                 outcome[e][j] = "failed" /\ Row(e, j).kind = "unreadable"
          BY <1>2, <3>1 DEF InOrder
        <4>2. j \in (closed[e] + 1)..at[e] /\ j \in 1..(at[e] - 1)
          BY <1>1
        <4> QED BY <2>2, <4>1, <4>2
      <3>2. CASE Row(e, at[e]).kind = "unreadable"
        <4>1. at[e] \in (closed[e] + 1)..at[e]
          BY <1>1, <1>2 DEF Placed
        <4> QED BY <2>2, <3>2, <4>1
      <3> QED BY <2>1, <3>1, <3>2
    <2>4. (closed'[e] + 1)..(at'[e] - 1) = (closed[e] + 1)..at[e]
      BY <1>1, <2>1, <2>2
    <2>5. \A i : Row(e, i)' = Row(e, i)
      BY <2>1, FileKept
    <2>6. InOrder(e)'
      BY <1>2, <2>1, <2>3, <2>4, <2>5 DEF InOrder
    <2> QED BY <2>2, <2>6
  <1>7. CASE CannotConnect(e)
    <2>1. /\ InRow(e) /\ Count(e, "failed") /\ "failed" \in Outcomes \ {"none"} /\ "failed" \notin Done
          /\ UNCHANGED <<file, status, from, closed, applied, session, pending, flushed>>
      BY <1>7 DEF CannotConnect, LooksUp, sessionVars, Outcomes, Done
    <2>2. InOrder(e)'
      BY <2>1, CountedInOrder
    <2> QED BY <2>1, <2>2, CountStep
  <1>8. CASE ApplyRow(e)
    <2>1. PICK o \in Outcomes \ {"none"} :
            /\ InRow(e) /\ Count(e, o)
            /\ UNCHANGED <<file, status, from, closed, applied, session, flushed>>
            /\ \/ o \notin Done /\ UNCHANGED pending
               \/ \E op \in {"insert", "update", "delete"} : \E id, w :
                    Add(e, op, id, w) /\ (op = "delete" => o = "deleted")
      <3> DEFINE Rest == UNCHANGED <<file, status, from, closed, applied, session, flushed>>
                 Adds(op, o) == Count(e, o) /\ \E id, w : Add(e, op, id, w)
      <3>1. InRow(e) /\ Rest
        BY <1>8 DEF ApplyRow, LooksUp, rowUnchanged
      <3>2. \/ \E o \in {"failed", "skipped"} : Count(e, o) /\ UNCHANGED pending
            \/ Adds("delete", "deleted")
            \/ \E o \in {"failed", "updated"} : Adds("update", o)
            \/ Adds("insert", "imported")
        BY <1>8 DEF ApplyRow
      <3> HIDE DEF Rest
      <3> QED BY <3>1, <3>2 DEF Rest, Outcomes, Done
    <2>2. /\ pending[e] \subseteq pending'[e]
          /\ \A c \in pending'[e] : c \in pending[e] \/ (/\ c.row = at[e] /\ c.key = Row(e, at[e]).key
                                                         /\ c.op = "delete" => o = "deleted")
          /\ o \in Done => \E c \in pending'[e] : c.row = at[e]
      <3>1. CASE o \notin Done /\ UNCHANGED pending
        BY <3>1
      <3>2. ASSUME NEW op \in {"insert", "update", "delete"}, NEW id, NEW w,
                   Add(e, op, id, w), op = "delete" => o = "deleted"
            PROVE  /\ pending[e] \subseteq pending'[e]
                   /\ \A c \in pending'[e] : c \in pending[e] \/ (/\ c.row = at[e] /\ c.key = Row(e, at[e]).key
                                                                  /\ c.op = "delete" => o = "deleted")
                   /\ \E c \in pending'[e] : c.row = at[e]
        <4>1. PICK n \in pending'[e] :
                 /\ pending'[e] = pending[e] \union {n}
                 /\ n.row = at[e] /\ n.key = Row(e, at[e]).key /\ n.op = op
          BY <3>2, Added
        <4> QED BY <3>2, <4>1
      <3> QED BY <2>1, <3>1, <3>2
    <2>3. /\ InRow(e) /\ Count(e, o) /\ o \in Outcomes \ {"none"}
          /\ UNCHANGED <<file, status, from, closed, applied, session, flushed>>
      BY <2>1
    <2>4. session'[e] = session[e] /\ flushed'[e] = flushed[e]
      BY <2>3
    <2>5. InOrder(e)'
      BY <2>2, <2>3, <2>4, CountedInOrder
    <2> QED BY <2>3, <2>5, CountStep
  <1>9. CASE Flush(e)
    <2>1. /\ UNCHANGED <<file, status, at, from, closed, session, outcome, applied>>
          /\ pending'[e] = {} /\ flushed'[e] = flushed[e] \union {c.row : c \in pending[e]}
          /\ session[e] = "open"
      BY <1>9 DEF Flush, TypeOK
    <2>2. InOrder(e)'
      BY <1>2, <2>1 DEF InOrder
    <2>3. Placed(e)'
      BY <1>2, <2>1, FileKept DEF Placed
    <2>4. Explained(e)'
      <3>1. /\ \A m : Row(e, m)' = Row(e, m)
            /\ \A m, n : SameSubBatch(e, m, n)' <=> SameSubBatch(e, m, n)
        BY <2>1, FileKept
      <3> QED BY <1>2, <2>1, <3>1 DEF Explained
    <2> QED BY <2>2, <2>3, <2>4
  <1>10. CASE FlushFails(e)
    BY <1>10, BatchRaisesStep DEF FlushFails, MustFlush
  <1>11. CASE Commit(e)
    BY <1>11, CommitStep
  <1>12. CASE ConnectionLost(e)
    <2>1. applied[e] \subseteq applied'[e] /\ applied'[e] \subseteq applied[e] \union flushed[e]
      BY <1>12 DEF ConnectionLost, TypeOK
    <2> QED BY <1>12, <2>1, BatchRaisesStep DEF ConnectionLost
  <1>13. CASE Finish(e)
    <2>1. /\ UNCHANGED <<file, at, from, closed, session, pending, flushed, outcome, applied>>
          /\ status'[e] \in {"SUCCEEDED", "FAILED"} /\ closed[e] = Size(e)
          /\ status'[e] = "SUCCEEDED" => \A i \in Rows(e) : outcome[e][i] # "failed"
      BY <1>13 DEF Finish, sessionVars, TypeOK
    <2>2. /\ \A m : Row(e, m)' = Row(e, m)
          /\ \A m, n : SameSubBatch(e, m, n)' <=> SameSubBatch(e, m, n)
      BY <2>1, FileKept
    <2>3. Placed(e)'
      BY <1>2, <2>1, FileKept DEF Placed
    <2>4. InOrder(e)'
      BY <1>2, <2>1, <2>2 DEF InOrder
    <2>5. Explained(e)'
      BY <1>2, <2>1, <2>2 DEF Explained
    <2> QED BY <2>3, <2>4, <2>5
  <1>14. CASE Crash(e)
    <2>1. /\ UNCHANGED <<file, at, from, closed, outcome, applied>> /\ status'[e] = "crashed"
          /\ session'[e] = "open" /\ pending'[e] = {} /\ flushed'[e] = {}
      BY <1>14 DEF Crash, RollBack, TypeOK
    <2>2. /\ \A m : Row(e, m)' = Row(e, m)
          /\ \A m, n : SameSubBatch(e, m, n)' <=> SameSubBatch(e, m, n)
      BY <2>1, FileKept
    <2>3. Placed(e)'
      BY <1>2, <2>1, FileKept DEF Placed
    <2>4. InOrder(e)'
      BY <1>2, <2>1 DEF InOrder
    <2>5. Explained(e)'
      BY <1>2, <2>1, <2>2 DEF Explained
    <2> QED BY <2>3, <2>4, <2>5
  <1> QED BY <1>3, <1>4, <1>5, <1>6, <1>7, <1>8, <1>9, <1>10, <1>11, <1>12, <1>13, <1>14
          DEF Action, Step

\* A step of one execution leaves the own state of the others alone.
LEMMA OthersKept ==
    ASSUME TypeOK, NEW e \in Executions, Action(e), NEW x \in Executions, x # e
    PROVE  UNCHANGED <<file, status[x], at[x], from[x], closed[x], session[x], pending[x],
                       flushed[x], overlay[x], outcome[x], applied[x]>>
  <1> USE DEF TypeOK
  <1>1. CASE Start(e)
    BY <1>1 DEF Start, sessionVars
  <1>2. CASE RejectRow(e)
    BY <1>2 DEF RejectRow, Count, rowUnchanged
  <1>3. CASE AddKeyless(e)
    BY <1>3 DEF AddKeyless, Count, Add, rowUnchanged
  <1>4. CASE LookupFails(e)
    BY <1>4 DEF LookupFails, Count
  <1>5. CASE CannotConnect(e)
    BY <1>5 DEF CannotConnect, Count, sessionVars
  <1>6. CASE ApplyRow(e)
    BY <1>6 DEF ApplyRow, Count, Add, rowUnchanged
  <1>7. CASE Flush(e)
    BY <1>7 DEF Flush
  <1>8. CASE FlushFails(e)
    BY <1>8 DEF FlushFails, RollBack, BatchRaises
  <1>9. CASE Commit(e)
    BY <1>9 DEF Commit, RollBack
  <1>10. CASE ConnectionLost(e)
    BY <1>10 DEF ConnectionLost, RollBack, BatchRaises
  <1>11. CASE Finish(e)
    BY <1>11 DEF Finish, sessionVars
  <1>12. CASE Crash(e)
    BY <1>12 DEF Crash, RollBack
  <1> QED BY <1>1, <1>2, <1>3, <1>4, <1>5, <1>6, <1>7, <1>8, <1>9, <1>10, <1>11, <1>12
          DEF Action, Step

LEMMA CountInit == Init => CountInv
  <1> SUFFICES ASSUME Init, NEW e \in Executions PROVE Placed(e) /\ InOrder(e) /\ Explained(e)
    BY DEF CountInv, Position, OpenTransaction, CountedIsCommitted
  <1>1. TypeOK
    BY TypeInit
  <1>2. /\ at[e] = 1 /\ from[e] = 1 /\ closed[e] = 0 /\ status[e] = "waiting"
        /\ pending[e] = {} /\ flushed[e] = {} /\ applied[e] = {} /\ session[e] = "open"
        /\ Size(e) \in Nat
    BY <1>1, FileFacts DEF Init
  <1> QED BY <1>2 DEF Placed, InOrder, Explained

LEMMA CountStepAll ==
    ASSUME TypeOK, CountInv, [Next]_vars
    PROVE  CountInv'
  <1>1. CASE UNCHANGED vars
    <2> SUFFICES ASSUME NEW x \in Executions PROVE Placed(x)' /\ InOrder(x)' /\ Explained(x)'
      BY DEF CountInv, Position, OpenTransaction, CountedIsCommitted
    <2> QED BY <1>1, Bystander DEF vars, sessionVars
  <1>2. ASSUME NEW e \in Executions, Action(e) PROVE CountInv'
    <2> SUFFICES ASSUME NEW x \in Executions PROVE Placed(x)' /\ InOrder(x)' /\ Explained(x)'
      BY DEF CountInv, Position, OpenTransaction, CountedIsCommitted
    <2>1. CASE x = e
      BY <1>2, <2>1, OwnStep
    <2>2. CASE x # e
      BY <1>2, <2>2, OthersKept, Bystander
    <2> QED BY <2>1, <2>2
  <1> QED BY <1>1, <1>2 DEF Next, Action

LEMMA CountingInvariant == Spec => []CountingInv
  <1>1. Init => CountingInv
    BY TypeInit, CountInit DEF CountingInv
  <1>2. CountingInv /\ [Next]_vars => CountingInv'
    BY TypeStep, CountStepAll DEF CountingInv, CountInv
  <1> QED BY <1>1, <1>2, PTL DEF Spec

\* Every variable has its type; the loops stay within the file.
THEOREM TypeCorrect == Spec => []TypeOK
  <1>1. CountingInv => TypeOK
    BY DEF CountingInv
  <1> QED BY <1>1, CountingInvariant, PTL

\* A row that is counted and not in the table was lost with a row of its
\* sub-batch that could not be looked up (base.py:289-463).
THEOREM CountsAreExplained == Spec => []CountedIsCommitted
  <1>1. CountingInv => CountedIsCommitted
    BY DEF CountingInv, CountInv
  <1> QED BY <1>1, CountingInvariant, PTL

\* A run that succeeds has imported its file (job_runner.py:545-660).
THEOREM SuccessIsCommitted == Spec => []SucceededIsCommitted
  <1>1. CountingInv => SucceededIsCommitted
    <2> SUFFICES ASSUME CountingInv, NEW e \in Executions, status[e] = "SUCCEEDED",
                        NEW i \in Rows(e), outcome[e][i] # "skipped", i \notin applied[e]
                 PROVE  FALSE
      BY DEF SucceededIsCommitted
    <2>1. TypeOK /\ Placed(e) /\ Explained(e)
      BY DEF CountingInv, CountInv, Position, CountedIsCommitted
    <2>2. /\ closed[e] \in Nat /\ at[e] \in Nat /\ Size(e) \in Nat /\ Size(e) <= MaxRows
          /\ Rows(e) = 1..Size(e) /\ MaxRows \in Nat
      BY <2>1, Numbers, FileFacts, Assumption DEF Rows
    <2>3. closed[e] = Size(e) /\ \A j \in 1..closed[e] : outcome[e][j] # "failed"
      BY <2>1, <2>2 DEF Placed
    <2>4. i \in 1..closed[e] /\ i \in 1..(at[e] - 1) /\ i \in 1..MaxRows
      BY <2>1, <2>2, <2>3 DEF Placed
    <2>5. outcome[e][i] \in Outcomes /\ outcome[e][i] \notin {"none", "failed", "skipped"}
      BY <2>1, <2>3, <2>4 DEF Placed, TypeOK
    <2>6. outcome[e][i] \in Done
      BY <2>5 DEF Outcomes, Done
    <2> QED BY <2>1, <2>3, <2>4, <2>6 DEF Explained
  <1> QED BY <1>1, CountingInvariant, PTL

-----------------------------------------------------------------------------
\* No transaction replaces a row it has not deleted: LockInv.

\* What a step does to the table and to the locks.
Keeps(e) == /\ UNCHANGED <<table, overlay, flushed>>
            /\ \A j \in flushed[e] : outcome'[e][j] = outcome[e][j]

Drops(e) == table' = table /\ overlay' = [overlay EXCEPT ![e] = NoChange]

Publishes(e) == /\ table' = [k \in Keys |-> View(e, k)]
                /\ overlay' = [overlay EXCEPT ![e] = NoChange]
                /\ applied'[e] = applied[e] \union flushed[e]

LEMMA Counted ==
    ASSUME CountingInv, NEW e \in Executions, NEW o, Count(e, o),
           UNCHANGED <<table, overlay, flushed>>
    PROVE  Keeps(e)
  <1>1. at[e] \in Nat /\ closed[e] \in Nat /\ flushed[e] \subseteq (closed[e] + 1)..(at[e] - 1)
    BY Numbers DEF CountingInv, CountInv, OpenTransaction, InOrder
  <1>2. \A j \in flushed[e] : j # at[e]
    BY <1>1
  <1> QED BY <1>2 DEF Count, Keeps, CountingInv, TypeOK

LEMMA Kinds ==
    ASSUME CountingInv, NEW e \in Executions, Action(e)
    PROVE  Keeps(e) \/ Drops(e) \/ Publishes(e) \/ Flush(e)
  <1>1. CASE Start(e)
    BY <1>1 DEF Start, Keeps, sessionVars
  <1>2. CASE RejectRow(e)
    BY <1>2, Counted DEF RejectRow, rowUnchanged
  <1>3. CASE AddKeyless(e)
    BY <1>3, Counted DEF AddKeyless, rowUnchanged
  <1>4. CASE LookupFails(e)
    BY <1>4 DEF LookupFails, Drops
  <1>5. CASE CannotConnect(e)
    BY <1>5, Counted DEF CannotConnect, sessionVars
  <1>6. CASE ApplyRow(e)
    <2>1. UNCHANGED <<table, overlay, flushed>> /\ \E o : Count(e, o)
      BY <1>6 DEF ApplyRow, rowUnchanged
    <2> QED BY <2>1, Counted
  <1>7. CASE FlushFails(e)
    BY <1>7 DEF FlushFails, RollBack, Drops
  <1>8. CASE Commit(e)
    BY <1>8 DEF Commit, RollBack, Publishes, CountingInv, TypeOK
  <1>9. CASE ConnectionLost(e)
    BY <1>9 DEF ConnectionLost, RollBack, Drops, Publishes, CountingInv, TypeOK
  <1>10. CASE Finish(e)
    BY <1>10 DEF Finish, Keeps, sessionVars
  <1>11. CASE Crash(e)
    BY <1>11 DEF Crash, RollBack, Drops
  <1> QED BY <1>1, <1>2, <1>3, <1>4, <1>5, <1>6, <1>7, <1>8, <1>9, <1>10, <1>11
          DEF Action, Step

\* What a key of the overlay is after a flush.
LEMMA FlushedKey ==
    ASSUME CountingInv, NEW e \in Executions, Flush(e), NEW k \in Keys
    PROVE  \/ overlay'[e][k] = overlay[e][k]
           \/ \E c \in pending[e] : /\ c.key = k /\ Accepts(e, c)
                                    /\ overlay'[e][k] = Effect(e, c)
  <1>1. CASE \E c \in pending[e] : c.key = k
    <2> DEFINE c == CHOOSE c \in pending[e] : c.key = k
    <2>1. c \in pending[e] /\ c.key = k
      BY <1>1
    <2>2. overlay'[e][k] = Effect(e, c)
      BY <1>1 DEF Flush, CountingInv, TypeOK
    <2>3. Accepts(e, c)
      BY <2>1 DEF Flush
    <2> QED BY <2>1, <2>2, <2>3
  <1>2. CASE ~\E c \in pending[e] : c.key = k
    BY <1>2 DEF Flush, CountingInv, TypeOK
  <1> QED BY <1>1, <1>2

LEMMA FlushTraced ==
    ASSUME CountingInv, NEW e \in Executions, Flush(e), Traced(e)
    PROVE  Traced(e)'
  <1> DEFINE Deleted(k) == \E j \in flushed'[e] : Row(e, j).key = k /\ outcome[e][j] = "deleted"
  <1>1. /\ UNCHANGED <<file, table, outcome>>
        /\ flushed'[e] = flushed[e] \union {c.row : c \in pending[e]}
    BY DEF Flush, CountingInv, TypeOK
  <1>2. \A j : Row(e, j)' = Row(e, j)
    BY <1>1, FileKept
  <1>3. ASSUME NEW k \in Keys, overlay'[e][k] # Untouched, table[k] # Absent,
               overlay'[e][k] = Absent \/ overlay'[e][k].id # table[k].id
        PROVE  Deleted(k)
    <2>1. overlay[e][k] \in Versions \union {Absent, Untouched} /\ table[k] \in Versions
      BY <1>3 DEF CountingInv, TypeOK
    <2>2. /\ overlay[e][k] # Untouched
          /\ overlay[e][k] = Absent \/ overlay[e][k].id # table[k].id
          => Deleted(k)
      BY <1>1, <1>3 DEF Traced
    <2>3. CASE overlay'[e][k] = overlay[e][k]
      BY <1>3, <2>2, <2>3
    <2>4. ASSUME NEW c \in pending[e], c.key = k, Accepts(e, c), overlay'[e][k] = Effect(e, c)
          PROVE  Deleted(k)
      <3>1. c.id \in RowIds /\ c.op \in {"insert", "update", "delete"} /\ k # NoKey
        BY Assumption DEF CountingInv, TypeOK, Changes
      <3>2. CASE c.op = "insert"
        <4>1. View(e, k) = Absent
          BY <2>4, <3>1, <3>2 DEF Accepts, Present
        <4> QED BY <1>3, <2>1, <2>2, <4>1, Markers DEF View
      <3>3. CASE c.op = "update"
        <4>1. View(e, k) # Absent /\ View(e, k).id = c.id
          BY <2>4, <3>3 DEF Accepts, Present
        <4>2. \E v : overlay'[e][k] = [id |-> c.id, value |-> v]
          BY <2>4, <3>3 DEF Effect
        <4>3. overlay'[e][k] \in Versions /\ overlay'[e][k].id = c.id
          <5>1. overlay'[e][k].id = c.id
            BY <4>2
          <5>2. overlay'[e][k] \in Versions
            <6>1. c.row \in 1..Size(e) /\ c.op # "delete"
              BY <3>3, PendingRows DEF CountingInv, CountInv
            <6> QED BY <2>4, <6>1, EffectType DEF CountingInv
          <5> QED BY <5>1, <5>2
        <4>4. overlay'[e][k].id # table[k].id
          BY <1>3, <4>3, Markers
        <4> QED BY <1>3, <2>1, <2>2, <4>1, <4>3, <4>4, Markers DEF View
      <3>4. CASE c.op = "delete"
        <4>1. CASE overlay'[e][k] = overlay[e][k]
          BY <1>3, <2>2, <4>1
        <4>2. c.row \in flushed'[e] /\ Row(e, c.row).key = k /\ outcome[e][c.row] = "deleted"
          BY <1>1, <2>4, <3>4 DEF CountingInv, CountInv, OpenTransaction, InOrder
        <4> QED BY <4>2
      <3> QED BY <3>1, <3>2, <3>3, <3>4
    <2> QED BY <2>3, <2>4, FlushedKey
  <1> QED BY <1>1, <1>2, <1>3 DEF Traced

LEMMA FlushExclusive ==
    ASSUME CountingInv, NEW e \in Executions, Flush(e), Exclusive
    PROVE  Exclusive'
  <1>1. \A x \in Executions : x # e => overlay'[x] = overlay[x]
    BY DEF Flush, CountingInv, TypeOK
  <1>2. ASSUME NEW x \in Executions, x # e, NEW k \in Keys, overlay[x][k] # Untouched
        PROVE  overlay'[e][k] = Untouched
    <2>1. \A c \in pending[e] : c.key # k
      BY <1>2, Assumption DEF Flush, Waits
    <2>2. overlay'[e][k] = overlay[e][k]
      BY <2>1, FlushedKey
    <2> QED BY <1>2, <2>2 DEF Exclusive
  <1> QED BY <1>1, <1>2 DEF Exclusive

LEMMA LockStep ==
    ASSUME CountingInv, LockInv, NEW e \in Executions, Action(e)
    PROVE  LockInv'
  <1>1. \A x \in Executions : x # e => UNCHANGED <<file, flushed[x], overlay[x], outcome[x]>>
    BY OthersKept DEF CountingInv
  <1>2. file' = file
    BY Kinds DEF Action, Step, Start, RejectRow, AddKeyless, LookupFails, CannotConnect, ApplyRow,
       Flush, FlushFails, Commit, ConnectionLost, Finish, Crash, rowUnchanged
  <1>3. \A x, j : Row(x, j)' = Row(x, j)
    BY <1>2 DEF Row
  <1>4. CASE Flush(e)
    <2>1. table' = table /\ Exclusive' /\ Traced(e)'
      BY <1>4, FlushExclusive, FlushTraced DEF LockInv, Flush
    <2>2. \A x \in Executions : x # e => Traced(x)'
      BY <1>1, <1>3, <2>1 DEF LockInv, Traced
    <2> QED BY <2>1, <2>2 DEF LockInv
  <1>5. CASE Keeps(e)
    BY <1>1, <1>3, <1>5 DEF LockInv, Exclusive, Traced, Keeps
  <1>6. CASE Drops(e) \/ Publishes(e)
    <2>1. \A k \in Keys : overlay'[e][k] = Untouched
      BY <1>6 DEF Drops, Publishes, NoChange, CountingInv, TypeOK
    <2>2. Exclusive' /\ Traced(e)'
      BY <1>1, <2>1 DEF LockInv, Exclusive, Traced
    <2>3. ASSUME NEW x \in Executions, x # e PROVE Traced(x)'
      <3>1. \A k \in Keys : overlay[x][k] # Untouched => table'[k] = table[k]
        BY <1>6, <2>3 DEF Drops, Publishes, View, LockInv, Exclusive
      <3> QED BY <1>1, <1>3, <2>3, <3>1 DEF LockInv, Traced
    <2> QED BY <2>2, <2>3 DEF LockInv
  <1> QED BY <1>4, <1>5, <1>6, Kinds

LEMMA LockingInvariant == Spec => [](CountingInv /\ LockInv)
  <1>1. Init => LockInv
    BY DEF Init, LockInv, Exclusive, Traced, NoChange
  <1>2. CountingInv /\ LockInv /\ [Next]_vars => LockInv'
    <2>1. CASE UNCHANGED vars
      BY <2>1 DEF LockInv, Exclusive, Traced, Row, vars, sessionVars
    <2> QED BY <2>1, LockStep DEF Next, Action
  <1> QED BY <1>1, <1>2, CountingInvariant, PTL DEF Spec

\* An import replaces a row of the table by a row of its own only when it has
\* deleted the one that was there (base.py:410-432, models.py:89).
THEOREM InsertsNeverOverwrite == Spec => InsertNeverOverwrites
  <1>1. ASSUME CountingInv, LockInv, NEW e \in Executions, Action(e), NEW k \in Keys,
               table[k] # Absent, table'[k] # Absent, table'[k].id # table[k].id
        PROVE  \E j \in applied'[e] \ applied[e] : Row(e, j).key = k /\ outcome[e][j] = "deleted"
    <2>1. Publishes(e)
      BY <1>1, Kinds DEF Keeps, Drops, Flush
    <2>2. table'[k] = overlay[e][k] /\ overlay[e][k] # Untouched
      BY <1>1, <2>1 DEF Publishes, View
    <2>3. PICK j \in flushed[e] : Row(e, j).key = k /\ outcome[e][j] = "deleted"
      BY <1>1, <2>2 DEF LockInv, Traced
    <2>4. j \in applied'[e]
      BY <2>1 DEF Publishes
    <2>5. j \notin applied[e]
      <3>1. closed[e] \in Nat /\ at[e] \in Nat /\ InOrder(e)
        BY <1>1, Numbers DEF CountingInv, CountInv, OpenTransaction
      <3> QED BY <3>1 DEF InOrder
    <2> QED BY <2>3, <2>4, <2>5
  <1> DEFINE Over == \A k \in Keys : table[k] # Absent /\ table'[k] # Absent /\ table'[k].id # table[k].id =>
         \E e \in Executions : \E j \in applied'[e] \ applied[e] :
            Row(e, j).key = k /\ outcome[e][j] = "deleted"
  <1>2. CountingInv /\ LockInv /\ [Next]_vars => [Over]_vars
    BY <1>1 DEF Next, Action
  <1>3. InsertNeverOverwrites <=> [][Over]_vars
    BY DEF InsertNeverOverwrites
  <1> QED BY <1>2, <1>3, LockingInvariant, PTL DEF Spec

-----------------------------------------------------------------------------
(***************************************************************************)
(* A file of upserts and deletes may be delivered to any number of           *)
(* executions, overlapping or not: RedeliveryConverges, for any keys, files,  *)
(* batches and faults.                                                        *)
(*                                                                           *)
(* Only the last row of a key counts.  An execution that is past it has put   *)
(* the key right, or is about to, unless another one has interfered; and that *)
(* one either fails or still has the row before it.                           *)
(***************************************************************************)

\* All executions are deliveries of one file, which can be repeated.
Deliveries == \A x, y \in Executions : file[x] = file[y] /\ Repeatable(file[x])

\* The execution has failed, or will: a row was counted as failed.
Spoiled(x) ==
    \/ status[x] \in {"FAILED", "crashed"}
    \/ status[x] = "running" /\ \E m \in 1..(at[x] - 1) : outcome[x][m] = "failed"

\* What row i of x asks of its key; r is a row of the table, or none.
Wanted(x, i, r) ==
    IF Row(x, i).action = "delete" THEN r = Absent ELSE r # Absent /\ r.value = Row(x, i).value

Awaits(x, i) == \E c \in pending[x] : c.row = i

\* What x has made of key k in row i, or will with its next flush, is what the row
\* asks for.
Right(x, k, i) ==
    /\ ~Awaits(x, i) => Wanted(x, i, View(x, k))
    /\ \A c \in pending[x] : c.row = i =>
         /\ c.op = "delete" /\ Present(x, k) => View(x, k).id = c.id
         /\ c.op = "update" /\ ~c.writes => Wanted(x, i, View(x, k))

\* Row i of x is still to be committed.
Owes(x, k, i) == status[x] = "running" /\ closed[x] < i /\ (at[x] <= i \/ Right(x, k, i))

\* Another execution, not ended when x started, that fails or owes the row.
Interferes(y, x, k, i) == y # x /\ y \notin before[x] /\ (Spoiled(y) \/ Owes(y, k, i))

Passed(x, i) == status[x] \in {"running", "SUCCEEDED"} /\ ~Spoiled(x) /\ i < at[x]

\* Key k after its last row i.  A transaction that holds the key has what the row
\* asks for, or what the table has (an update that saw nothing to write).
Settled(x, k, i) ==
    Passed(x, i) =>
        /\ Right(x, k, i) \/ \E y \in Executions : Interferes(y, x, k, i)
        /\ closed[x] < i =>
             /\ overlay[x][k] # Untouched =>
                  \/ Right(x, k, i)
                  \/ ~Awaits(x, i) /\ Row(x, i).action # "delete" /\ overlay[x][k] = table[k]
             /\ Row(x, i).action # "delete" => overlay[x][k] # Untouched \/ Awaits(x, i)

\* Each row is flushed before the next one is looked up.
OnePending(x) ==
    /\ \A c \in pending[x] : /\ c.row = at[x] - 1
                             /\ (c.op = "delete") <=> (Row(x, c.row).action = "delete")
    /\ \A c, d \in pending[x] : c = d

\* A key is held by the transaction that has flushed a row of it.
Touched(x) == \A k \in Keys : overlay[x][k] # Untouched => \E j \in flushed[x] : Row(x, j).key = k

History == \A x \in Executions : Touched(x) /\ before[x] \subseteq {y \in Executions : Ended(y)}

Redelivered ==
    Deliveries => \A x \in Executions :
        /\ OnePending(x)
        /\ \A k \in Keys : \A i \in LastOf(file[x], k) : Settled(x, k, i)

BaseInv == CountingInv /\ LockInv /\ History

-----------------------------------------------------------------------------
(* The file.                                                                  *)

LEMMA LastRow ==
    ASSUME CountingInv, Deliveries, NEW x \in Executions, NEW k \in Keys, NEW i \in LastOf(file[x], k)
    PROVE  /\ i \in 1..Size(x) /\ i \in 1..MaxRows /\ Row(x, i).key = k
           /\ \A j \in 1..Size(x) : Row(x, j).key = k => j <= i
           /\ \A y \in Executions : /\ i \in LastOf(file[y], k) /\ Size(y) = Size(x)
                                    /\ \A j : Row(y, j) = Row(x, j)
  <1>1. file[x].rows \in Seq(RowType) /\ DOMAIN file[x].rows = 1..Size(x)
    BY Assumption DEF CountingInv, TypeOK, FileType, Size
  <1>2. i \in 1..MaxRows
    BY <1>1, FileFacts DEF LastOf, CountingInv
  <1>3. \A y \in Executions : file[y] = file[x]
    BY DEF Deliveries
  <1> QED BY <1>1, <1>2, <1>3 DEF LastOf, Row, Size

\* Every row is looked up, and asks for its own action.
LEMMA RepeatableRow ==
    ASSUME CountingInv, Deliveries, NEW x \in Executions, InRow(x)
    PROVE  /\ Row(x, at[x]).key \in Keys /\ Row(x, at[x]).kind = "good"
           /\ ActionOf(x, at[x]) = Row(x, at[x]).action
           /\ Row(x, at[x]).action \in {"upsert", "delete"}
           /\ ~Rejected(x, at[x])
  <1>1. /\ from[x] \in Nat /\ closed[x] \in Nat /\ at[x] \in Nat /\ Size(x) \in Nat
        /\ 1 <= from[x] /\ from[x] <= closed[x] + 1 /\ closed[x] < at[x] /\ at[x] <= Size(x)
    BY Numbers DEF CountingInv, CountInv, Position, Placed, InRow
  <1>2. from[x] \in 1..Size(x) /\ at[x] \in 1..Size(x)
    BY <1>1
  <1>3. DOMAIN file[x].rows = 1..Size(x)
    BY Assumption DEF CountingInv, TypeOK, FileType, Size
  <1>4. \A j \in 1..Size(x) : /\ Row(x, j).key # NoKey /\ Row(x, j).kind = "good"
                              /\ Row(x, j).action \in {"upsert", "delete"}
    BY <1>3 DEF Deliveries, Repeatable, Row
  <1>5. Row(x, at[x]).key \in Keys
    BY <1>2, <1>4, FileFacts DEF CountingInv, RowType
  <1> QED BY <1>2, <1>4, <1>5 DEF ActionOf, Rejected, Actions, Modes

-----------------------------------------------------------------------------
(* Who has ended stays so, and a transaction holds the keys it has flushed.   *)

LEMMA HistoryStep ==
    ASSUME CountingInv, History, NEW e \in Executions, Action(e)
    PROVE  History'
  <1>1. \A x \in Executions : x # e => UNCHANGED <<file, status[x], flushed[x], overlay[x]>>
    BY OthersKept DEF CountingInv
  <1>2. file' = file
    BY DEF Action, Step, Start, RejectRow, AddKeyless, LookupFails, CannotConnect, ApplyRow,
       Flush, FlushFails, Commit, ConnectionLost, Finish, Crash, rowUnchanged
  <1>3. \A x, j : Row(x, j)' = Row(x, j)
    BY <1>2 DEF Row
  <1>4. Touched(e)'
    <2>1. CASE Keeps(e)
      BY <1>3, <2>1 DEF Keeps, Touched, History
    <2>2. CASE Drops(e) \/ Publishes(e)
      BY <2>2 DEF Drops, Publishes, NoChange, Touched, CountingInv, TypeOK
    <2>3. CASE Flush(e)
      <3> SUFFICES ASSUME NEW k \in Keys, overlay'[e][k] # Untouched
                   PROVE  \E j \in flushed'[e] : Row(e, j).key = k
        BY <1>3 DEF Touched
      <3>1. flushed'[e] = flushed[e] \union {c.row : c \in pending[e]}
        BY <2>3 DEF Flush, CountingInv, TypeOK
      <3>2. CASE overlay'[e][k] = overlay[e][k]
        BY <3>1, <3>2 DEF History, Touched
      <3>3. ASSUME NEW c \in pending[e], c.key = k PROVE \E j \in flushed'[e] : Row(e, j).key = k
        BY <3>1, <3>3, PendingRows DEF CountingInv, CountInv
      <3> QED BY <2>3, <3>2, <3>3, FlushedKey
    <2> QED BY <2>1, <2>2, <2>3, Kinds
  <1>5. \A x \in Executions : Touched(x)'
    BY <1>1, <1>3, <1>4 DEF Touched, History
  <1>6. Ended(e) => FALSE
    BY DEF Ended, Action, Step, Start, RejectRow, AddKeyless, LookupFails, CannotConnect, ApplyRow,
       Flush, FlushFails, Commit, ConnectionLost, Finish, Crash, InRow, LooksUp, MustFlush
  <1>7. \A y \in Executions : Ended(y) => Ended(y)'
    BY <1>1, <1>6 DEF Ended
  <1>8. CASE Start(e)
    <2>1. before'[e] \subseteq {y \in Executions : Ended(y)}
          /\ \A x \in Executions : x # e => before'[x] = before[x]
      BY <1>8 DEF Start, CountingInv, TypeOK
    <2> QED BY <1>5, <1>7, <2>1 DEF History
  <1>9. CASE before' = before
    BY <1>5, <1>7, <1>9 DEF History
  <1> QED BY <1>8, <1>9 DEF Action, Step, RejectRow, AddKeyless, LookupFails, CannotConnect, ApplyRow,
       Flush, FlushFails, Commit, ConnectionLost, Finish, Crash, rowUnchanged

-----------------------------------------------------------------------------
(* What a step of z leaves to the others.                                     *)

\* What is said of x and a key depends on the own state of x and on that key.
LEMMA SameState ==
    ASSUME NEW x \in Executions, NEW k, NEW i, table'[k] = table[k],
           UNCHANGED <<file, status[x], at[x], closed[x], pending[x], overlay[x], outcome[x]>>
    PROVE  /\ Awaits(x, i)' <=> Awaits(x, i)
           /\ Right(x, k, i)' <=> Right(x, k, i)
           /\ Spoiled(x)' <=> Spoiled(x)
           /\ Owes(x, k, i)' <=> Owes(x, k, i)
           /\ Passed(x, i)' <=> Passed(x, i)
  <1>1. \A j : Row(x, j)' = Row(x, j)
    BY DEF Row
  <1>2. View(x, k)' = View(x, k) /\ (Present(x, k)' <=> Present(x, k))
    BY DEF View, Present
  <1>3. Awaits(x, i)' <=> Awaits(x, i)
    BY DEF Awaits
  <1>4. Wanted(x, i, View(x, k))' <=> Wanted(x, i, View(x, k))
    BY <1>1, <1>2 DEF Wanted
  <1>5. Right(x, k, i)' <=> Right(x, k, i)
    BY <1>2, <1>3, <1>4 DEF Right
  <1>6. Spoiled(x)' <=> Spoiled(x)
    BY DEF Spoiled
  <1>7. Owes(x, k, i)' <=> Owes(x, k, i)
    BY <1>5 DEF Owes
  <1> QED BY <1>3, <1>5, <1>6, <1>7 DEF Passed

\* What does not change the key, nor takes z off its debt, unsettles no other.
LEMMA OthersSettled ==
    ASSUME CountingInv, NEW z \in Executions, Action(z), NEW k, NEW i, table'[k] = table[k],
           Spoiled(z) \/ Owes(z, k, i) => Spoiled(z)' \/ Owes(z, k, i)',
           NEW x \in Executions, before'[x] = before[x]
    PROVE  /\ \A y \in Executions : Interferes(y, x, k, i) => Interferes(y, x, k, i)'
           /\ x # z /\ Settled(x, k, i) => Settled(x, k, i)'
  <1>1. \A y \in Executions : y # z =>
          UNCHANGED <<file, status[y], at[y], closed[y], pending[y], overlay[y], outcome[y]>>
    BY OthersKept DEF CountingInv
  <1>2. \A y \in Executions : Interferes(y, x, k, i) => Interferes(y, x, k, i)'
    <2> SUFFICES ASSUME NEW y \in Executions, Interferes(y, x, k, i)
                 PROVE  Interferes(y, x, k, i)'
      OBVIOUS
    <2>1. CASE y = z  BY <2>1 DEF Interferes
    <2>2. CASE y # z  BY <1>1, <2>2, SameState DEF Interferes
    <2> QED BY <2>1, <2>2
  <1>3. ASSUME x # z, Settled(x, k, i) PROVE Settled(x, k, i)'
    <2>1. /\ UNCHANGED <<file, closed[x], overlay[x]>>
          /\ (Awaits(x, i)' <=> Awaits(x, i)) /\ (Right(x, k, i)' <=> Right(x, k, i))
          /\ Passed(x, i)' <=> Passed(x, i)
      BY <1>1, <1>3, SameState
    <2>2. Row(x, i)' = Row(x, i)
      BY <2>1 DEF Row
    <2> QED BY <1>2, <1>3, <2>1, <2>2 DEF Settled
  <1> QED BY <1>2, <1>3

\* The key that a transaction holds is not changed by another one.
LEMMA HeldKey ==
    ASSUME CountingInv, LockInv, NEW z \in Executions, Action(z),
           NEW x \in Executions, x # z, NEW k \in Keys, overlay[x][k] # Untouched
    PROVE  table'[k] = table[k]
  <1>1. overlay[z][k] = Untouched
    BY DEF LockInv, Exclusive
  <1> QED BY <1>1, Kinds DEF Keeps, Drops, Publishes, Flush, View

\* A running execution that fails, or that has the row before it, is an excuse for
\* all the others.
LEMMA ExcuseSettles ==
    ASSUME BaseInv, NEW z \in Executions, Action(z), status[z] = "running", NEW i,
           NEW x \in Executions, before'[x] = before[x], NEW k \in Keys, Settled(x, k, i),
           Spoiled(z)' \/ (Owes(z, k, i)' /\ ~(i < at'[z]))
    PROVE  Settled(x, k, i)'
  <1>1. CASE x = z
    BY <1>1 DEF Settled, Passed
  <1>2. CASE x # z
    <2>1. UNCHANGED <<file, status[x], at[x], closed[x], pending[x], overlay[x], outcome[x]>>
      BY <1>2, OthersKept DEF BaseInv, CountingInv
    <2>2. z \notin before[x]
      BY DEF BaseInv, History, Ended
    <2>3. Interferes(z, x, k, i)'
      BY <1>2, <2>2 DEF Interferes
    <2>4. Row(x, i)' = Row(x, i) /\ (Awaits(x, i)' <=> Awaits(x, i))
      BY <2>1 DEF Row, Awaits
    <2>5. Passed(x, i)' <=> Passed(x, i)
      BY <2>1 DEF Passed, Spoiled
    <2>6. CASE overlay[x][k] # Untouched
      <3>1. table'[k] = table[k]
        BY <1>2, <2>6, HeldKey DEF BaseInv
      <3>2. Right(x, k, i)' <=> Right(x, k, i)
        BY <2>1, <3>1, SameState
      <3> QED BY <2>1, <2>3, <2>4, <2>5, <3>1, <3>2 DEF Settled
    <2>7. CASE overlay[x][k] = Untouched
      BY <2>1, <2>3, <2>4, <2>5, <2>7 DEF Settled
    <2> QED BY <2>6, <2>7
  <1> QED BY <1>1, <1>2

-----------------------------------------------------------------------------
(* The steps, when all executions are deliveries of the file.                 *)

\* What a step changes of the history.
LEMMA BeforeKept ==
    ASSUME CountingInv, NEW z \in Executions, Action(z), NEW x \in Executions
    PROVE  /\ file' = file
           /\ x # z \/ ~Start(z) => before'[x] = before[x]
  BY DEF Action, Step, Start, RejectRow, AddKeyless, LookupFails, CannotConnect, ApplyRow,
         Flush, FlushFails, Commit, ConnectionLost, Finish, Crash, rowUnchanged, CountingInv, TypeOK

\* A row that is counted as failed spoils its execution.
LEMMA CountSpoils ==
    ASSUME CountingInv, NEW z \in Executions, InRow(z), Count(z, "failed"), status' = status
    PROVE  Spoiled(z)'
  <1>1. at[z] \in 1..MaxRows /\ at[z] \in Nat
    BY Numbers, FileFacts DEF InRow, CountingInv, TypeOK
  <1>2. outcome'[z][at[z]] = "failed" /\ at'[z] = at[z] + 1
    BY <1>1 DEF Count, CountingInv, TypeOK
  <1>3. at[z] \in 1..(at'[z] - 1)
    BY <1>1, <1>2
  <1> QED BY <1>2, <1>3 DEF Spoiled, InRow

\* So does a batch that raises.
LEMMA BatchSpoils ==
    ASSUME CountingInv, NEW z \in Executions, BatchRaises(z), status[z] = "running", status' = status
    PROVE  Spoiled(z)'
  <1>1. PICK j \in Rows(z) :
          /\ j >= from[z]
          /\ at' = [at EXCEPT ![z] = j + 1]
          /\ outcome' = [outcome EXCEPT ![z] =
               [i \in 1..MaxRows |-> IF i \in from[z]..j THEN "failed" ELSE @[i]]]
    BY DEF BatchRaises
  <1>2. j \in 1..MaxRows /\ j \in Nat /\ from[z] \in Nat
    BY FileFacts, Numbers DEF Rows, CountingInv
  <1>3. outcome'[z][j] = "failed" /\ at'[z] = j + 1
    BY <1>1, <1>2 DEF CountingInv, TypeOK
  <1>4. j \in 1..(at'[z] - 1)
    BY <1>2, <1>3
  <1> QED BY <1>3, <1>4 DEF Spoiled

\* The steps that are neither a failure nor one of five.
LEMMA StepKinds ==
    ASSUME CountingInv, Deliveries, NEW z \in Executions, Action(z)
    PROVE  \/ status[z] = "running" /\ Spoiled(z)'
           \/ Start(z) \/ ApplyRow(z) \/ Flush(z) \/ Commit(z) \/ Finish(z)
  <1>1. CASE RejectRow(z)
    BY <1>1, RepeatableRow DEF RejectRow
  <1>2. CASE AddKeyless(z)
    BY <1>2, RepeatableRow, Assumption DEF AddKeyless
  <1>3. CASE LookupFails(z)
    BY <1>3, CountSpoils DEF LookupFails, LooksUp, InRow
  <1>4. CASE CannotConnect(z)
    BY <1>4, CountSpoils DEF CannotConnect, LooksUp, InRow
  <1>5. CASE FlushFails(z)
    BY <1>5, BatchSpoils DEF FlushFails, MustFlush
  <1>6. CASE ConnectionLost(z)
    BY <1>6, BatchSpoils DEF ConnectionLost
  <1>7. CASE Crash(z)
    BY <1>7 DEF Crash, Spoiled, CountingInv, TypeOK
  <1> QED BY <1>1, <1>2, <1>3, <1>4, <1>5, <1>6, <1>7 DEF Action, Step

LEMMA OnePendingStep ==
    ASSUME CountingInv, Deliveries, NEW z \in Executions, Action(z), OnePending(z)
    PROVE  OnePending(z)'
  <1>1. file' = file
    BY BeforeKept
  <1>2. \A j : Row(z, j)' = Row(z, j)
    BY <1>1 DEF Row
  <1>3. CASE pending'[z] = {}
    BY <1>3 DEF OnePending
  <1>4. CASE ApplyRow(z)
    <2>1. /\ pending[z] = {} /\ InRow(z) /\ at[z] \in Nat
          /\ at'[z] = at[z] + 1
      BY <1>4, Numbers DEF ApplyRow, LooksUp, Count, CountingInv, TypeOK
    <2>2. /\ ActionOf(z, at[z]) = Row(z, at[z]).action
          /\ Row(z, at[z]).action \in {"upsert", "delete"}
      BY <2>1, RepeatableRow
    <2>3. \/ pending' = pending
          \/ \E id, w : Row(z, at[z]).action = "delete" /\ Add(z, "delete", id, w)
          \/ \E op \in {"insert", "update"} : \E id, w :
                 Row(z, at[z]).action = "upsert" /\ Add(z, op, id, w)
      BY <1>4, <2>2 DEF ApplyRow
    <2>4. CASE pending' = pending
      BY <2>1, <2>4 DEF OnePending
    <2>5. ASSUME NEW op \in {"insert", "update", "delete"}, NEW id, NEW w, Add(z, op, id, w),
                 op = "delete" <=> Row(z, at[z]).action = "delete"
          PROVE  OnePending(z)'
      <3>1. pending'[z] = {[row |-> at[z], op |-> op, key |-> Row(z, at[z]).key,
                            id |-> id, writes |-> w]}
        BY <2>1, <2>5 DEF Add, CountingInv, TypeOK
      <3> QED BY <1>2, <2>1, <2>5, <3>1 DEF OnePending
    <2> QED BY <2>3, <2>4, <2>5
  <1>5. CASE pending'[z] = pending[z] /\ at'[z] = at[z]
    BY <1>2, <1>5 DEF OnePending
  <1>6. ~RejectRow(z) /\ ~AddKeyless(z)
    BY RepeatableRow, Assumption DEF RejectRow, AddKeyless
  <1>7. CASE Start(z) \/ Finish(z)
    BY <1>5, <1>7 DEF Start, Finish, sessionVars
  <1>8. CASE LookupFails(z) \/ CannotConnect(z)
    BY <1>3, <1>8 DEF LookupFails, CannotConnect, sessionVars
  <1>9. CASE Flush(z) \/ FlushFails(z) \/ Commit(z) \/ ConnectionLost(z) \/ Crash(z)
    BY <1>3, <1>9 DEF Flush, FlushFails, Commit, ConnectionLost, Crash, RollBack, CountingInv, TypeOK
  <1> QED BY <1>4, <1>6, <1>7, <1>8, <1>9 DEF Action, Step

\* An execution that starts has no row behind it.
LEMMA StartSettles ==
    ASSUME BaseInv, Deliveries, NEW z \in Executions, Start(z),
           NEW x \in Executions, NEW k \in Keys, NEW i \in LastOf(file[x], k), Settled(x, k, i)
    PROVE  Settled(x, k, i)'
  <1>1. table' = table /\ Action(z)
    BY DEF Start, Action
  <1>2. ~(Spoiled(z) \/ Owes(z, k, i))
    BY DEF Start, Spoiled, Owes
  <1>3. CASE x # z
    BY <1>1, <1>2, <1>3, BeforeKept, OthersSettled DEF BaseInv
  <1>4. CASE x = z
    <2>1. at'[z] = 1
      BY DEF Start, BaseInv, CountingInv, CountInv, Position, Placed
    <2>2. i \in Nat /\ ~(i < 1)
      BY LastRow DEF BaseInv
    <2> QED BY <1>4, <2>1, <2>2 DEF Settled, Passed
  <1> QED BY <1>3, <1>4

\* The end of an execution: it owes nothing, and fails if it is spoiled.
LEMMA FinishSettles ==
    ASSUME BaseInv, Deliveries, NEW z \in Executions, Finish(z),
           NEW x \in Executions, NEW k \in Keys, NEW i \in LastOf(file[x], k), Settled(x, k, i)
    PROVE  Settled(x, k, i)'
  <1>1. /\ UNCHANGED <<file, table, at, closed, pending, overlay, outcome, before>> /\ Action(z)
        /\ status[z] = "running" /\ closed[z] = Size(z)
    BY DEF Finish, Action, Step, sessionVars
  <1>2. i \in 1..Size(z) /\ closed[z] \in Nat /\ at[z] \in Nat /\ at[z] <= Size(z) + 1
        /\ Size(z) \in Nat
    BY LastRow, Numbers DEF BaseInv, CountingInv, CountInv, Position, Placed
  <1>3. ~Owes(z, k, i)
    BY <1>1, <1>2 DEF Owes
  <1>4. /\ Spoiled(z) => Spoiled(z)'
        /\ Spoiled(z) => status'[z] = "FAILED"
    <2>1. ASSUME NEW m \in 1..(at[z] - 1), outcome[z][m] = "failed" PROVE status'[z] = "FAILED"
      <3>1. m \in Rows(z)
        BY <1>2 DEF Rows
      <3> QED BY <2>1, <3>1 DEF Finish, BaseInv, CountingInv, TypeOK
    <2> QED BY <1>1, <2>1 DEF Spoiled
  <1>5. /\ \A y \in Executions : Interferes(y, x, k, i) => Interferes(y, x, k, i)'
        /\ x # z => Settled(x, k, i)'
    BY <1>1, <1>3, <1>4, OthersSettled DEF BaseInv
  <1>6. CASE x = z /\ Passed(x, i)'
    <2>1. Passed(z, i)
      BY <1>1, <1>4, <1>6 DEF Passed
    <2>2. Right(z, k, i)' <=> Right(z, k, i)
      BY <1>1 DEF Right, Awaits, Wanted, View, Present, Row
    <2>3. ~(closed'[z] < i)
      BY <1>1, <1>2
    <2> QED BY <1>5, <1>6, <2>1, <2>2, <2>3 DEF Settled
  <1> QED BY <1>5, <1>6 DEF Settled

\* What the lookup makes of a row of such a file.
LEMMA Looked ==
    ASSUME BaseInv, Deliveries, NEW z \in Executions, ApplyRow(z)
    PROVE  LET m == at[z]  k == Row(z, m).key  v == View(z, k) IN
           /\ InRow(z) /\ pending[z] = {} /\ at'[z] = m + 1 /\ m \in Nat
           /\ UNCHANGED <<file, table, status, closed, overlay, before>>
           /\ \A j \in 1..(m - 1) : outcome'[z][j] = outcome[z][j]
           /\ \/ /\ v # Absent /\ Row(z, m).action = "delete"
                 /\ pending'[z] = {[row |-> m, op |-> "delete", key |-> k, id |-> v.id, writes |-> TRUE]}
              \/ /\ v # Absent /\ Row(z, m).action = "upsert"
                 /\ pending'[z] = {[row |-> m, op |-> "update", key |-> k, id |-> v.id,
                                    writes |-> v.value # Row(z, m).value]}
              \/ /\ v = Absent /\ Row(z, m).action = "delete" /\ pending'[z] = {}
              \/ /\ v = Absent /\ Row(z, m).action = "upsert"
                 /\ pending'[z] = {[row |-> m, op |-> "insert", key |-> k, id |-> <<z, m>>, writes |-> TRUE]}
  <1>1. InRow(z) /\ pending[z] = {}
    BY DEF ApplyRow, LooksUp
  <1>2. /\ ActionOf(z, at[z]) = Row(z, at[z]).action
        /\ Row(z, at[z]).action \in {"upsert", "delete"} /\ Row(z, at[z]).kind = "good"
    BY <1>1, RepeatableRow DEF BaseInv
  <1>3. \E o : Count(z, o)
    BY DEF ApplyRow
  <1>4. /\ at'[z] = at[z] + 1 /\ at[z] \in Nat /\ at[z] \in 1..MaxRows
        /\ \A j \in 1..(at[z] - 1) : outcome'[z][j] = outcome[z][j]
    <2>1. PICK o : Count(z, o)
      BY <1>3
    <2>2. at[z] \in Nat /\ at[z] \in 1..MaxRows
      BY <1>1, Numbers, FileFacts DEF InRow, BaseInv, CountingInv, TypeOK
    <2> QED BY <2>1, <2>2 DEF Count, BaseInv, CountingInv, TypeOK
  <1>5. UNCHANGED <<file, table, status, closed, overlay, before>>
    BY DEF ApplyRow, rowUnchanged
  <1>6. \A op, id, w : Add(z, op, id, w) => pending'[z] =
          {[row |-> at[z], op |-> op, key |-> Row(z, at[z]).key, id |-> id, writes |-> w]}
    BY <1>1 DEF Add, BaseInv, CountingInv, TypeOK
  <1>7. CASE Present(z, Row(z, at[z]).key) /\ Row(z, at[z]).action = "delete"
    BY <1>1, <1>2, <1>4, <1>5, <1>6, <1>7 DEF ApplyRow, Present
  <1>8. CASE Present(z, Row(z, at[z]).key) /\ Row(z, at[z]).action = "upsert"
    <2>1. Add(z, "update", View(z, Row(z, at[z]).key).id,
              View(z, Row(z, at[z]).key).value # Row(z, at[z]).value)
      BY <1>2, <1>8 DEF ApplyRow
    <2> QED BY <1>1, <1>4, <1>5, <1>6, <1>8, <2>1 DEF Present
  <1>9. CASE ~Present(z, Row(z, at[z]).key) /\ Row(z, at[z]).action = "delete"
    <2>1. pending' = pending
      BY <1>2, <1>9 DEF ApplyRow
    <2> QED BY <1>1, <1>4, <1>5, <1>9, <2>1 DEF Present
  <1>10. CASE ~Present(z, Row(z, at[z]).key) /\ Row(z, at[z]).action = "upsert"
    <2>1. Add(z, "insert", <<z, at[z]>>, TRUE)
      BY <1>2, <1>10 DEF ApplyRow
    <2> QED BY <1>1, <1>4, <1>5, <1>6, <1>10, <2>1 DEF Present
  <1> QED BY <1>2, <1>7, <1>8, <1>9, <1>10

\* A looked-up row is awaited, or asks for what is there.
LEMMA ApplySettles ==
    ASSUME BaseInv, Deliveries, NEW z \in Executions, ApplyRow(z), ~Spoiled(z)',
           NEW x \in Executions, NEW k \in Keys, NEW i \in LastOf(file[x], k), Settled(x, k, i)
    PROVE  Settled(x, k, i)'
  <1> DEFINE m == at[z]
  <1>1. /\ Action(z) /\ status[z] = "running" /\ pending[z] = {} /\ at'[z] = m + 1 /\ m \in Nat
        /\ UNCHANGED <<file, table, status, closed, overlay, before>>
        /\ \A j \in 1..(m - 1) : outcome'[z][j] = outcome[z][j]
    BY Looked DEF Action, Step, InRow
  <1>2. i \in Nat /\ Row(z, i).key = k /\ \A j : Row(z, j)' = Row(z, j)
    BY <1>1, LastRow DEF BaseInv, Row
  <1>3. View(z, k)' = View(z, k) /\ (Present(z, k)' <=> Present(z, k))
    BY <1>1 DEF View, Present
  <1>4. \A r : Wanted(z, i, r)' <=> Wanted(z, i, r)
    BY <1>2 DEF Wanted
  <1>5. CASE m = i
    <2>1. Right(z, k, i)' /\ (Row(z, i).action # "delete" => Awaits(z, i)')
      <3> DEFINE v == View(z, k)  new == pending'[z]
      <3>1. \/ /\ v # Absent /\ Row(z, i).action = "delete"
               /\ new = {[row |-> i, op |-> "delete", key |-> k, id |-> v.id, writes |-> TRUE]}
            \/ /\ v # Absent /\ Row(z, i).action = "upsert"
               /\ new = {[row |-> i, op |-> "update", key |-> k, id |-> v.id,
                          writes |-> v.value # Row(z, i).value]}
            \/ v = Absent /\ Row(z, i).action = "delete" /\ new = {}
            \/ /\ v = Absent /\ Row(z, i).action = "upsert"
               /\ new = {[row |-> i, op |-> "insert", key |-> k, id |-> <<z, i>>, writes |-> TRUE]}
        BY Looked, <1>2, <1>5
      <3>2. Right(z, k, i)' <=>
              /\ ~(\E c \in new : c.row = i) => Wanted(z, i, v)
              /\ \A c \in new : c.row = i =>
                   /\ c.op = "delete" /\ v # Absent => v.id = c.id
                   /\ c.op = "update" /\ ~c.writes => Wanted(z, i, v)
        BY <1>3, <1>4 DEF Right, Awaits, Present
      <3>3. Awaits(z, i)' <=> \E c \in new : c.row = i
        BY DEF Awaits
      <3> HIDE DEF v, new
      <3>4. CASE new = {}
        BY <3>1, <3>2, <3>3, <3>4 DEF Wanted
      <3>5. ASSUME NEW c, new = {c}, c.row = i,
                   c.op = "delete" => v.id = c.id,
                   c.op = "update" /\ ~c.writes => Wanted(z, i, v)
            PROVE  Right(z, k, i)' /\ Awaits(z, i)'
        BY <3>2, <3>3, <3>5
      <3>6. CASE v # Absent /\ Row(z, i).action = "delete"
        BY <3>1, <3>5, <3>6
      <3>7. CASE v # Absent /\ Row(z, i).action = "upsert"
        <4>1. v.value = Row(z, i).value => Wanted(z, i, v)
          BY <3>7 DEF Wanted
        <4> QED BY <3>1, <3>5, <3>7, <4>1
      <3>8. CASE v = Absent
        BY <3>1, <3>4, <3>5, <3>8
      <3> QED BY <3>1, <3>6, <3>7, <3>8
    <2>2. Owes(z, k, i) => Owes(z, k, i)'
      BY <1>1, <2>1 DEF Owes
    <2> QED BY <1>1, <1>2, <2>1, <2>2, OthersSettled DEF BaseInv, Settled, Spoiled
  <1>6. CASE m < i
    <2>1. at'[z] <= i
      BY <1>1, <1>2, <1>6
    <2>2. Owes(z, k, i) => Owes(z, k, i)'
      BY <1>1, <2>1 DEF Owes
    <2>3. ~Passed(z, i)'
      BY <1>1, <1>2, <2>1 DEF Passed
    <2> QED BY <1>1, <2>2, <2>3, OthersSettled DEF BaseInv, Settled, Spoiled
  <1>7. CASE m > i
    <2>1. ~Awaits(z, i) /\ ~Awaits(z, i)' /\ \A c \in pending'[z] : c.row # i
      <3>1. \A c \in pending'[z] : c.row = m
        BY Looked
      <3> QED BY <1>1, <1>2, <1>7, <3>1 DEF Awaits
    <2>2. Right(z, k, i)' <=> Right(z, k, i)
      BY <1>1, <1>3, <1>4, <2>1 DEF Right
    <2>3. Owes(z, k, i) => Owes(z, k, i)'
      BY <1>1, <1>2, <1>7, <2>2 DEF Owes
    <2>4. Spoiled(z) => Spoiled(z)'
      BY <1>1 DEF Spoiled
    <2>5. /\ \A y \in Executions : Interferes(y, x, k, i) => Interferes(y, x, k, i)'
          /\ x # z => Settled(x, k, i)'
      BY <1>1, <2>3, <2>4, OthersSettled DEF BaseInv
    <2>6. ASSUME x = z PROVE Passed(z, i)' => Passed(z, i)
      BY <1>1, <1>2, <1>7, <2>4 DEF Passed
    <2> QED BY <1>1, <1>2, <2>1, <2>2, <2>5, <2>6 DEF Settled
  <1> QED BY <1>1, <1>2, <1>5, <1>6, <1>7

\* A flush makes of the key what the pending change says.
LEMMA Flushed ==
    ASSUME BaseInv, Deliveries, NEW z \in Executions, Flush(z), OnePending(z)
    PROVE  \E c \in pending[z] :
             /\ pending[z] = {c} /\ pending'[z] = {} /\ Accepts(z, c)
             /\ c.row \in 1..Size(z) /\ c.row = at[z] - 1 /\ c.row \in Nat
             /\ c.key = Row(z, c.row).key
             /\ c.op \in {"insert", "update", "delete"}
             /\ (c.op = "delete") <=> (Row(z, c.row).action = "delete")
             /\ c.op # "delete" => Effect(z, c) \in Versions
             /\ \A k \in Keys : overlay'[z][k] = IF c.key = k THEN Effect(z, c) ELSE overlay[z][k]
  <1>1. PICK c \in pending[z] : pending[z] = {c}
    BY DEF Flush, MustFlush, OnePending
  <1>2. /\ c.row \in 1..Size(z) /\ c.row = at[z] - 1 /\ c.row \in Nat
        /\ c.key = Row(z, c.row).key /\ c \in Changes
        /\ (c.op = "delete") <=> (Row(z, c.row).action = "delete")
    BY <1>1, PendingRows, Numbers DEF OnePending, BaseInv, CountingInv, CountInv
  <1>3. Accepts(z, c) /\ pending'[z] = {}
    BY <1>1 DEF Flush, BaseInv, CountingInv, TypeOK
  <1>4. c.key \in Keys
    <2>1. Row(z, c.row).key # NoKey
      BY <1>2, FileFacts, Assumption DEF Deliveries, Repeatable, Row, Size, BaseInv, CountingInv, FileType
    <2> QED BY <1>2, <2>1, FileFacts DEF BaseInv, CountingInv, RowType
  <1>5. c.op # "delete" => Effect(z, c) \in Versions
    BY <1>1, <1>2, <1>3, <1>4, EffectType DEF BaseInv, CountingInv
  <1>6. ASSUME NEW k \in Keys
        PROVE  overlay'[z][k] = IF c.key = k THEN Effect(z, c) ELSE overlay[z][k]
    <2>1. overlay'[z][k] = IF \E d \in pending[z] : d.key = k
                           THEN Effect(z, CHOOSE d \in pending[z] : d.key = k) ELSE overlay[z][k]
      BY DEF Flush, BaseInv, CountingInv, TypeOK
    <2>2. c.key = k => (CHOOSE d \in pending[z] : d.key = k) = c
      BY <1>1
    <2> QED BY <1>1, <2>1, <2>2
  <1> QED BY <1>1, <1>2, <1>3, <1>5, <1>6 DEF Changes

LEMMA FlushSettles ==
    ASSUME BaseInv, Deliveries, NEW z \in Executions, Flush(z), OnePending(z),
           NEW x \in Executions, NEW k \in Keys, NEW i \in LastOf(file[x], k), Settled(x, k, i)
    PROVE  Settled(x, k, i)'
  <1>1. /\ Action(z) /\ UNCHANGED <<file, table, status, at, closed, outcome, before>>
        /\ status[z] = "running" /\ at[z] \in Nat
    BY Numbers DEF Flush, MustFlush, Action, Step, BaseInv, CountingInv
  <1>2. /\ i \in Nat /\ i \in 1..Size(z) /\ Row(z, i).key = k
        /\ \A j \in 1..Size(z) : Row(z, j).key = k => j <= i
        /\ \A j : Row(z, j)' = Row(z, j)
    BY <1>1, LastRow DEF BaseInv, Row
  <1>3. PICK c \in pending[z] :
          /\ pending[z] = {c} /\ pending'[z] = {} /\ Accepts(z, c)
          /\ c.row \in 1..Size(z) /\ c.row = at[z] - 1 /\ c.row \in Nat
          /\ c.key = Row(z, c.row).key
          /\ c.op \in {"insert", "update", "delete"}
          /\ (c.op = "delete") <=> (Row(z, c.row).action = "delete")
          /\ c.op # "delete" => Effect(z, c) \in Versions
          /\ \A q \in Keys : overlay'[z][q] = IF c.key = q THEN Effect(z, c) ELSE overlay[z][q]
    BY Flushed
  <1>4. ~Awaits(z, i)' /\ (Awaits(z, i) <=> c.row = i) /\ \A r : Wanted(z, i, r)' <=> Wanted(z, i, r)
    BY <1>2, <1>3 DEF Awaits, Wanted
  <1>5. Right(z, k, i)' <=> Wanted(z, i, View(z, k)')
    BY <1>3, <1>4 DEF Right, Awaits
  <1>6. View(z, k)' = IF overlay'[z][k] = Untouched THEN table[k] ELSE overlay'[z][k]
    BY <1>1 DEF View
  <1>7. Absent \notin Versions /\ Untouched \notin Versions /\ Absent # Untouched
    BY Markers
  \* The change of row i.
  <1>8. ASSUME c.row = i
        PROVE  /\ Right(z, k, i) => Right(z, k, i)'
               /\ overlay[z][k] = Untouched /\ overlay'[z][k] # Untouched =>
                    \/ Right(z, k, i)'
                    \/ Row(z, i).action # "delete" /\ overlay'[z][k] = table[k]
               /\ Row(z, i).action # "delete" => overlay'[z][k] # Untouched
    <2>1. overlay'[z][k] = Effect(z, c) /\ c.key = k
      BY <1>2, <1>3, <1>8
    <2>2. CASE c.op = "insert"
      <3>1. Effect(z, c) = [id |-> c.id, value |-> Row(z, i).value]
        BY <1>8, <2>2 DEF Effect
      <3> QED BY <1>3, <1>5, <1>6, <1>7, <1>8, <2>1, <2>2, <3>1 DEF Wanted
    <2>3. CASE c.op = "update"
      <3>1. /\ Effect(z, c) = [id |-> c.id, value |-> IF c.writes THEN Row(z, i).value
                                                      ELSE View(z, k).value]
            /\ Row(z, i).action # "delete"
        BY <1>3, <1>8, <2>1, <2>3 DEF Effect
      <3>2. View(z, k) # Absent /\ View(z, k).id = c.id /\ View(z, k) \in Versions
        BY <1>3, <2>1, <2>3, ViewType DEF Accepts, Present, BaseInv, CountingInv
      <3>3. View(z, k)' = Effect(z, c) /\ Effect(z, c) # Absent /\ overlay'[z][k] # Untouched
        BY <1>3, <1>6, <1>7, <2>1, <2>3
      <3>4. CASE c.writes
        BY <1>5, <3>1, <3>3, <3>4 DEF Wanted
      <3>5. CASE ~c.writes
        <4>1. Right(z, k, i) => Wanted(z, i, View(z, k))
          BY <1>8, <2>3, <3>5 DEF Right
        <4>2. Effect(z, c) = View(z, k)
          BY <3>1, <3>2, <3>5 DEF Versions
        <4> QED BY <1>5, <2>1, <3>1, <3>3, <4>1, <4>2 DEF View
      <3> QED BY <3>4, <3>5
    <2>4. CASE c.op = "delete"
      <3>1. Effect(z, c) = IF Present(z, k) /\ View(z, k).id = c.id THEN Absent ELSE overlay[z][k]
        BY <2>1, <2>4 DEF Effect
      <3>2. Row(z, i).action = "delete"
        BY <1>3, <1>8, <2>4
      <3>3. Right(z, k, i) /\ Present(z, k) => View(z, k).id = c.id
        BY <1>8, <2>4 DEF Right
      <3>4. CASE Present(z, k) /\ View(z, k).id = c.id
        BY <1>5, <1>6, <1>7, <2>1, <3>1, <3>2, <3>4 DEF Wanted
      <3>5. CASE ~Present(z, k)
        BY <1>5, <1>6, <2>1, <3>1, <3>2, <3>5 DEF Wanted, Present, View
      <3> QED BY <2>1, <3>1, <3>2, <3>3, <3>4, <3>5
    <2> QED BY <1>3, <2>2, <2>3, <2>4
  \* The change of a later row is not of this key.
  <1>9. ASSUME c.row # i, i < at[z]
        PROVE  overlay'[z][k] = overlay[z][k] /\ (Right(z, k, i)' <=> Right(z, k, i))
    <2>1. c.key # k
      BY <1>1, <1>2, <1>3, <1>9
    <2>2. overlay'[z][k] = overlay[z][k] /\ View(z, k)' = View(z, k)
      BY <1>1, <1>3, <2>1 DEF View
    <2> QED BY <1>3, <1>4, <1>5, <1>9, <2>2 DEF Right
  <1>10. Owes(z, k, i) => Owes(z, k, i)'
    BY <1>1, <1>2, <1>3, <1>8, <1>9 DEF Owes
  <1>11. /\ \A y \in Executions : Interferes(y, x, k, i) => Interferes(y, x, k, i)'
         /\ x # z => Settled(x, k, i)'
    <2>1. Spoiled(z)' <=> Spoiled(z)
      BY <1>1 DEF Spoiled
    <2> QED BY <1>1, <1>10, <2>1, OthersSettled DEF BaseInv
  <1>12. ASSUME x = z, Passed(z, i)' PROVE Settled(z, k, i)'
    <2>1. Passed(z, i) /\ i < at[z]
      BY <1>1, <1>12 DEF Passed, Spoiled
    <2>2. CASE c.row = i
      BY <1>1, <1>2, <1>4, <1>8, <1>11, <1>12, <2>1, <2>2 DEF Settled
    <2>3. CASE c.row # i
      BY <1>1, <1>2, <1>4, <1>9, <1>11, <1>12, <2>1, <2>3 DEF Settled
    <2> QED BY <2>2, <2>3
  <1> QED BY <1>11, <1>12 DEF Settled

\* A commit publishes what the row asks for; or it changes nothing of the key, and
\* the excuse of z stands.
LEMMA CommitSettles ==
    ASSUME BaseInv, Deliveries, NEW z \in Executions, Commit(z), NEW k \in Keys, NEW i,
           NEW x \in Executions, OnePending(x), i \in LastOf(file[x], k),
           Settled(x, k, i), Settled(z, k, i)
    PROVE  Settled(x, k, i)'
  <1>1. /\ Action(z) /\ UNCHANGED <<file, status, at, outcome, before>>
        /\ status[z] = "running" /\ pending[z] = {} /\ pending'[z] = {}
        /\ closed'[z] = at[z] - 1 /\ overlay'[z][k] = Untouched /\ table'[k] = View(z, k)
    BY DEF Commit, RollBack, NoChange, Action, Step, BaseInv, CountingInv, TypeOK
  <1>2. /\ i \in Nat /\ i \in 1..Size(z)
        /\ \A y \in Executions : \A j \in 1..Size(y) : Row(y, j).key = k => j <= i
        /\ \A j : Row(z, j) = Row(x, j)
        /\ \A j : Row(x, j)' = Row(x, j) /\ Row(z, j)' = Row(z, j)
    <2>1. i \in Nat /\ \A y \in Executions : Size(y) = Size(x) /\ \A j : Row(y, j) = Row(x, j)
      BY LastRow DEF BaseInv
    <2>2. i \in 1..Size(x) /\ \A j \in 1..Size(x) : Row(x, j).key = k => j <= i
      BY LastRow DEF BaseInv
    <2> QED BY <1>1, <2>1, <2>2 DEF Row
  <1>3. \A y \in Executions : /\ at[y] \in Nat /\ closed[y] \in Nat /\ closed[y] < at[y]
                              /\ Size(y) \in Nat /\ at[y] <= Size(y) + 1
    BY Numbers DEF BaseInv, CountingInv, CountInv, Position, Placed
  \* A transaction holds no key whose last row is committed.
  <1>4. \A y \in Executions : ~(closed[y] < i) => overlay[y][k] = Untouched
    <2> SUFFICES ASSUME NEW y \in Executions, ~(closed[y] < i), overlay[y][k] # Untouched
                 PROVE  FALSE
      OBVIOUS
    <2>1. PICK j \in flushed[y] : Row(y, j).key = k
      BY DEF BaseInv, History, Touched
    <2>2. j \in (closed[y] + 1)..(at[y] - 1)
      BY DEF BaseInv, CountingInv, CountInv, OpenTransaction, InOrder
    <2>3. j \in 1..Size(y) /\ j > closed[y]
      BY <1>3, <2>2
    <2> QED BY <1>2, <1>3, <2>1, <2>3
  <1>5. Spoiled(z)' <=> Spoiled(z)
    BY <1>1 DEF Spoiled
  <1>6. /\ \A r : Wanted(z, i, r)' <=> Wanted(z, i, r)
        /\ \A r : Wanted(x, i, r)' <=> Wanted(x, i, r)
        /\ \A r : Wanted(x, i, r) <=> Wanted(z, i, r)
    BY <1>2 DEF Wanted
  <1>7. /\ ~Awaits(z, i) /\ ~Awaits(z, i)'
        /\ Right(z, k, i) <=> Wanted(z, i, View(z, k))
        /\ Right(z, k, i)' <=> Wanted(z, i, table'[k])
    BY <1>1, <1>6 DEF Awaits, Right, View
  <1>8. x # z => UNCHANGED <<file, status[x], at[x], closed[x], pending[x], overlay[x], outcome[x]>>
    BY <1>1, OthersKept DEF BaseInv, CountingInv
  <1>9. Passed(x, i)' <=> Passed(x, i)
    BY <1>1 DEF Passed, Spoiled
  <1>10. CASE Spoiled(z)
    BY <1>1, <1>5, <1>10, ExcuseSettles
  <1>11. CASE ~Spoiled(z) /\ ~(closed[z] < i)
    <2>1. overlay[z][k] = Untouched /\ table'[k] = table[k] /\ ~Owes(z, k, i)
      BY <1>1, <1>4, <1>11 DEF View, Owes
    <2>2. /\ \A y \in Executions : Interferes(y, x, k, i) => Interferes(y, x, k, i)'
          /\ x # z => Settled(x, k, i)'
      BY <1>1, <1>11, <2>1, OthersSettled DEF BaseInv
    <2>3. ASSUME x = z PROVE Settled(z, k, i)'
      <3>1. ~(closed'[z] < i)
        BY <1>1, <1>2, <1>3, <1>11
      <3>2. Right(z, k, i)' <=> Right(z, k, i)
        BY <1>1, <1>7
      <3> QED BY <1>9, <2>2, <2>3, <3>1, <3>2 DEF Settled
    <2> QED BY <2>2, <2>3
  <1>12. CASE closed[z] < i /\ ~(i < at[z])
    <2>1. closed'[z] < i /\ at'[z] <= i
      BY <1>1, <1>2, <1>3, <1>12
    <2>2. Owes(z, k, i)' /\ ~(i < at'[z])
      BY <1>1, <1>12, <2>1 DEF Owes
    <2> QED BY <1>1, <2>2, ExcuseSettles
  <1>13. CASE ~Spoiled(z) /\ closed[z] < i /\ i < at[z]
    <2>1. Passed(z, i) /\ ~(closed'[z] < i)
      BY <1>1, <1>2, <1>3, <1>13 DEF Passed
    <2>2. CASE Wanted(z, i, table'[k])
      <3>1. CASE x = z
        BY <1>7, <2>1, <2>2, <3>1 DEF Settled
      <3>2. ASSUME x # z, Passed(x, i) PROVE Settled(x, k, i)'
        <4>1. Awaits(x, i)' <=> Awaits(x, i)
          BY <1>8, <3>2 DEF Awaits
        <4>2. CASE overlay[x][k] = Untouched
          <5>1. View(x, k)' = table'[k] /\ (Present(x, k)' <=> table'[k] # Absent)
            BY <1>8, <3>2, <4>2 DEF View, Present
          <5>2. Wanted(x, i, table'[k])
            BY <1>6, <2>2
          <5>3. ASSUME NEW c \in pending'[x], c.row = i, c.op = "delete" PROVE table'[k] = Absent
            <6>1. Row(x, i).action = "delete"
              BY <1>8, <3>2, <5>3 DEF OnePending
            <6> QED BY <5>2, <6>1 DEF Wanted
          <5>4. Right(x, k, i)'
            BY <1>6, <5>1, <5>2, <5>3 DEF Right
          <5> QED BY <1>2, <1>8, <3>2, <4>1, <4>2, <5>4 DEF Settled
        <4>3. CASE overlay[x][k] # Untouched
          <5>1. table'[k] = table[k] /\ closed[x] < i
            BY <1>1, <1>4, <3>2, <4>3, HeldKey DEF BaseInv
          <5>2. Right(x, k, i)' <=> Right(x, k, i)
            BY <1>8, <3>2, <5>1, SameState
          <5>3. Right(x, k, i) \/ (~Awaits(x, i) /\ overlay[x][k] = table[k])
            BY <3>2, <4>3, <5>1 DEF Settled
          <5>4. Right(x, k, i)'
            <6>1. CASE ~Awaits(x, i) /\ overlay[x][k] = table[k]
              <7>1. Wanted(x, i, View(x, k))
                BY <1>6, <2>2, <4>3, <5>1, <6>1 DEF View
              <7> QED BY <5>2, <6>1, <7>1 DEF Right, Awaits
            <6> QED BY <5>2, <5>3, <6>1
          <5> QED BY <1>2, <1>8, <3>2, <4>1, <4>3, <5>4 DEF Settled
        <4> QED BY <4>2, <4>3
      <3> QED BY <1>9, <3>1, <3>2 DEF Settled
    <2>3. CASE ~Wanted(z, i, table'[k])
      <3>1. ~Right(z, k, i) /\ ~Owes(z, k, i)
        BY <1>1, <1>7, <1>2, <1>3, <1>13, <2>3 DEF Owes
      <3>2. table'[k] = table[k]
        BY <1>1, <1>13, <2>1, <3>1 DEF Settled, View
      <3>3. /\ \A y \in Executions : Interferes(y, x, k, i) => Interferes(y, x, k, i)'
            /\ x # z => Settled(x, k, i)'
        BY <1>1, <1>13, <3>1, <3>2, OthersSettled DEF BaseInv
      <3>4. x = z => Settled(x, k, i)'
        BY <2>1, <3>1, <3>3 DEF Settled
      <3> QED BY <3>3, <3>4
    <2> QED BY <2>2, <2>3
  <1> QED BY <1>10, <1>11, <1>12, <1>13

-----------------------------------------------------------------------------
LEMMA RedeliveryStep ==
    ASSUME BaseInv, Redelivered, [Next]_vars
    PROVE  History' /\ Redelivered'
  <1>1. CASE UNCHANGED vars
    <2>1. UNCHANGED <<file, table, status, at, closed, pending, flushed, overlay, outcome, before>>
      BY <1>1 DEF vars, sessionVars
    <2>2. History'
      BY <2>1 DEF BaseInv, History, Touched, Ended, Row
    <2>3. ASSUME Deliveries', NEW x \in Executions
          PROVE  OnePending(x)' /\ \A k \in Keys : \A i \in LastOf(file'[x], k) : Settled(x, k, i)'
      <3>1. Deliveries /\ OnePending(x) /\ \A k \in Keys : \A i \in LastOf(file[x], k) : Settled(x, k, i)
        BY <2>1, <2>3 DEF Deliveries, Redelivered
      <3>2. OnePending(x)'
        BY <2>1, <3>1 DEF OnePending, Row
      <3>3. ASSUME NEW k \in Keys, NEW i \in LastOf(file'[x], k) PROVE Settled(x, k, i)'
        <4>1. \A y \in Executions :
                /\ UNCHANGED <<file, status[y], at[y], closed[y], pending[y], overlay[y], outcome[y]>>
                /\ before'[y] = before[y]
          BY <2>1
        <4>2. table'[k] = table[k] /\ Settled(x, k, i) /\ Row(x, i)' = Row(x, i)
          BY <2>1, <3>1 DEF Row
        <4>3. /\ \A y \in Executions : Interferes(y, x, k, i) => Interferes(y, x, k, i)'
              /\ (Awaits(x, i)' <=> Awaits(x, i)) /\ (Right(x, k, i)' <=> Right(x, k, i))
              /\ Passed(x, i)' <=> Passed(x, i)
          BY <4>1, <4>2, SameState DEF Interferes
        <4> QED BY <4>1, <4>2, <4>3 DEF Settled
      <3> QED BY <3>2, <3>3
    <2> QED BY <2>2, <2>3 DEF Redelivered
  <1>2. ASSUME NEW z \in Executions, Action(z) PROVE History' /\ Redelivered'
    <2>1. History' /\ file' = file
      BY <1>2, HistoryStep, BeforeKept DEF BaseInv
    <2>2. ASSUME Deliveries, NEW x \in Executions PROVE OnePending(x)'
      <3>1. CASE x = z
        BY <1>2, <2>2, <3>1, OnePendingStep DEF BaseInv, Redelivered
      <3>2. CASE x # z
        <4>1. UNCHANGED <<file, at[x], pending[x]>>
          BY <1>2, <3>2, OthersKept DEF BaseInv, CountingInv
        <4> QED BY <2>2, <4>1 DEF Redelivered, OnePending, Row
      <3> QED BY <3>1, <3>2
    <2>3. ASSUME Deliveries, NEW x \in Executions, NEW k \in Keys, NEW i \in LastOf(file[x], k)
          PROVE  Settled(x, k, i)'
      <3>1. /\ OnePending(x) /\ OnePending(z) /\ Settled(x, k, i)
            /\ i \in LastOf(file[z], k) /\ Settled(z, k, i)
        BY <2>3, LastRow DEF BaseInv, Redelivered
      <3>2. CASE status[z] = "running" /\ Spoiled(z)'
        <4>1. before'[x] = before[x]
          BY <1>2, <3>2, BeforeKept DEF Start, BaseInv
        <4> QED BY <1>2, <3>1, <3>2, <4>1, ExcuseSettles
      <3>3. CASE ApplyRow(z) /\ ~Spoiled(z)'
        BY <2>3, <3>1, <3>3, ApplySettles
      <3>4. CASE ApplyRow(z) /\ Spoiled(z)'
        BY <3>2, <3>4 DEF ApplyRow, LooksUp, InRow
      <3>5. CASE Start(z)   BY <2>3, <3>1, <3>5, StartSettles
      <3>6. CASE Flush(z)   BY <2>3, <3>1, <3>6, FlushSettles
      <3>7. CASE Commit(z)  BY <2>3, <3>1, <3>7, CommitSettles
      <3>8. CASE Finish(z)  BY <2>3, <3>1, <3>8, FinishSettles
      <3> QED BY <1>2, <2>3, <3>2, <3>3, <3>4, <3>5, <3>6, <3>7, <3>8, StepKinds DEF BaseInv
    <2>4. Deliveries' => Deliveries
      BY <2>1 DEF Deliveries
    <2> QED BY <2>1, <2>2, <2>3, <2>4 DEF Redelivered
  <1> QED BY <1>1, <1>2 DEF Next, Action

LEMMA RedeliveryInvariant == Spec => [](BaseInv /\ Redelivered)
  <1>1. Init => History /\ Redelivered
    BY DEF Init, History, Redelivered, Touched, NoChange, OnePending, Settled, Passed
  <1>2. CountingInv /\ LockInv /\ History /\ Redelivered /\ [Next]_vars => History' /\ Redelivered'
    BY RedeliveryStep DEF BaseInv
  <1>3. CountingInv /\ LockInv /\ History /\ Redelivered => BaseInv /\ Redelivered
    BY DEF BaseInv
  <1> QED BY <1>1, <1>2, <1>3, LockingInvariant, PTL DEF Spec

\* Deliveries of one file of upserts and deletes leave the table as one import of it
\* does, when one of them succeeds and none of the others fails after it began
\* (base.py:257-484, job_runner.py:579-666).
THEOREM DeliveriesConverge == Spec => []RedeliveryConverges
  <1>1. BaseInv /\ Redelivered => RedeliveryConverges
    <2> SUFFICES ASSUME BaseInv, Redelivered, NEW e \in Executions,
                        status[e] = "SUCCEEDED", Repeatable(file[e]),
                        \A x \in Executions :
                            /\ file[x] = file[e]
                            /\ status[x] \in {"waiting", "SUCCEEDED"} \/ x \in before[e],
                        NEW k \in Keys, NEW i \in LastOf(file[e], k)
                 PROVE  Wanted(e, i, table[k])
      BY DEF RedeliveryConverges, Wanted
    <2>1. Deliveries
      BY DEF Deliveries
    <2>2. Settled(e, k, i) /\ i \in Nat /\ i \in 1..Size(e)
      BY <2>1, LastRow DEF BaseInv, Redelivered
    <2>3. /\ closed[e] = Size(e) /\ Size(e) \in Nat /\ at[e] = Size(e) + 1
      BY Numbers DEF BaseInv, CountingInv, CountInv, Position, Placed
    <2>4. pending[e] = {} /\ flushed[e] = {}
      BY <2>3 DEF BaseInv, CountingInv, CountInv, OpenTransaction, InOrder
    <2>5. View(e, k) = table[k]
      BY <2>4 DEF View, BaseInv, History, Touched
    <2>6. Passed(e, i)
      BY <2>2, <2>3 DEF Passed, Spoiled
    <2>7. ASSUME NEW y \in Executions, Interferes(y, e, k, i) PROVE FALSE
      BY <2>7 DEF Interferes, Spoiled, Owes
    <2>8. Right(e, k, i)
      BY <2>2, <2>6, <2>7 DEF Settled
    <2> QED BY <2>4, <2>5, <2>8 DEF Right, Awaits
  <1> QED BY <1>1, RedeliveryInvariant, PTL
=============================================================================
