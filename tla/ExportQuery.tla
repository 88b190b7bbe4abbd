------------------------------ MODULE ExportQuery ------------------------------
(***************************************************************************)
(* What an export selects, and in which order.  The query engine            *)
(* (app/infrastructure/query/engine.py) answers twice: the preview and JSON  *)
(* exports filter and sort all rows in memory, CSV exports translate the     *)
(* filter and the sort to SQL over the columns a handler knows.              *)
(*                                                                           *)
(* A row has one field of each kind the two treat differently.  Values are   *)
(* numbers.  Those of texts are in the order of their code points, which is   *)
(* Python's, and each text is contained in the later ones; the database        *)
(* arranges them by its collation.  A date is a text to Python.  Filters and  *)
(* groups are as the request orders them: their number matters.              *)
(***************************************************************************)
EXTENDS Integers, Sequences, FiniteSets

CONSTANTS
    Vendors,    \* rows of the vendor table, of all clients: [name |-> ...]
    Null,       \* a column without a value, or no filter
    Groups,     \* the filters of the requests, and the groups in them
    Depth,      \* how deep each of them nests, which is finite
    Wild,       \* a text that is a wildcard to LIKE and matches no other text
    MaxValue,   \* bound: the amounts and texts are 1..MaxValue
    Collation   \* the place of each of the texts 1..MaxValue in the collation

\* id is unique and a UUID, whose text is in the order of its value; address is a
\* field of the schema that _COLUMN_MAP lacks; vendor.name is a column of another
\* table.  amount is a number, the others are texts.
Fields    == {"id", "amount", "name", "vendor.name", "address"}
Binary    == {"lt", "lte", "gte"}
Operators == Binary \union {"eq", "ne", "in", "between", "contains"}
Filters   == {f \in [field : Fields, op : Operators, arg : Seq(Int \union {Null}),
                     relative : {"no", "known", "unknown"}] :
                /\ f.op # "in" => Len(f.arg) = IF f.op = "between" THEN 2 ELSE 1
                /\ f.op = "contains" => f.arg[1] # Null /\ f.relative # "known"
                /\ f.op = "in" => f.relative = "no"}

ASSUME QueryAssumption ==
    /\ MaxValue \in Nat /\ Wild \in Nat /\ Wild > MaxValue
    /\ Vendors \subseteq [name : Int] /\ Null \notin Vendors \union Groups \union Int
    /\ Collation \in [1..MaxValue -> 1..MaxValue]
    /\ \A x, y \in 1..MaxValue : Collation[x] = Collation[y] => x = y
    /\ Depth \in [Groups -> Nat]
    /\ \A g \in Groups :
         /\ g.op \in {"and", "or", "not"}
         /\ g.filters \in Seq(Filters) /\ g.groups \in Seq(Groups)
         /\ \A i \in DOMAIN g.groups : Depth[g.groups[i]] < Depth[g]

InSql(f)    == f # "address"
Nested(f)   == f = "vendor.name"
Text(f)     == f # "amount"
Collated(f) == f \in {"name", "vendor.name"}

\* Where the database puts a value among those of its column.
Place(f, x) == IF Collated(f) /\ x \in DOMAIN Collation THEN Collation[x] ELSE x

\* _get_nested_value, and the column of a joined vendor.
Value(row, f)       == IF ~Nested(f) THEN row[f]
                       ELSE IF row.vendor = Null THEN Null ELSE row.vendor.name
Column(row, v, f)   == IF Nested(f) THEN v.name ELSE row[f]

-----------------------------------------------------------------------------
(* Filters: [field, op, arg, relative].  A value may be null; the bounds of      *)
(* "between" are two.  relative says whether the value, or one of the bounds,     *)
(* is a relative date, and one that resolve_relative_date knows; arg is then what *)
(* it resolves to.  Groups: [op, filters, groups].                                *)

\* Two values that are not null.
Compare(op, x, y) ==
    CASE op = "eq"  -> x = y
      [] op = "ne"  -> x # y
      [] op = "lt"  -> x < y
      [] op = "lte" -> x <= y
      [] op = "gte" -> x >= y

\* _evaluate_filter on a value that is not null.  A comparison with a null is a
\* TypeError, which is caught.  A relative date is resolved and compared as a date,
\* but not the bounds of "between", which stay words that no date lies between.
Holds(x, f) ==
    LET null  == \E i \in DOMAIN f.arg : f.arg[i] = Null
        at(y) == IF f.relative = "known" THEN Place(f.field, y) ELSE y
    IN  CASE f.op = "eq" -> x = f.arg[1]
          [] f.op = "ne" -> x # f.arg[1]
          [] f.op = "in" -> \E i \in DOMAIN f.arg : x = f.arg[i]
          [] f.op \in Binary -> ~null /\ Compare(f.op, at(x), at(f.arg[1]))
          [] f.op = "between" -> /\ ~null /\ f.relative = "no"
                                 /\ f.arg[1] <= x /\ x <= f.arg[2]
          [] f.op = "contains" -> x >= f.arg[1]

\* Mutant of Evaluate: a missing value differs from every value.
EvaluateNullDiffers(row, f) ==
    LET x == Value(row, f.field) IN
    f.relative # "unknown" /\ IF x = Null THEN f.op = "ne" ELSE Holds(x, f)

\* _evaluate_filter: a missing value satisfies nothing.
Evaluate(row, f) ==
    LET x == Value(row, f.field) IN x # Null /\ f.relative # "unknown" /\ Holds(x, f)

\* _matches_filters
Matches(row, g) ==
    LET matches[h \in Groups] ==
            LET parts == {Evaluate(row, h.filters[i]) : i \in DOMAIN h.filters}
                            \union {matches[h.groups[i]] : i \in DOMAIN h.groups}
            IN  CASE h.op = "and" -> FALSE \notin parts
                  [] h.op = "or"  -> TRUE \in parts
                  [] h.op = "not" -> TRUE \notin parts
    IN  matches[g]

\* What _translate_filter makes an expression of; the rest it drops.
Translated(f) == InSql(f.field) /\ f.relative # "unknown"

\* _translate_filter_group: a group of which nothing is left is dropped too.
Kept[g \in Groups] ==
    \/ \E i \in DOMAIN g.filters : Translated(g.filters[i])
    \/ \E i \in DOMAIN g.groups : Kept[g.groups[i]]

\* The filters and the groups of g that are translated.
KeptFilters(g) == {i \in DOMAIN g.filters : Translated(g.filters[i])}
KeptGroups(g)  == {i \in DOMAIN g.groups : Kept[g.groups[i]]}

\* SQLAlchemy compares a NULL by equality alone; NOT takes exactly one expression.
Raises[g \in Groups] ==
    \/ \E i \in KeptFilters(g) : g.filters[i].op \in Binary /\ g.filters[i].arg[1] = Null
    \/ \E i \in DOMAIN g.groups : Raises[g.groups[i]]
    \/ g.op = "not" /\ Cardinality(KeptFilters(g)) + Cardinality(KeptGroups(g)) > 1

\* The three truth values of SQL.
AndOf(S) == IF "false" \in S THEN "false" ELSE IF "unknown" \in S THEN "unknown" ELSE "true"
OrOf(S) == IF "true" \in S THEN "true" ELSE IF "unknown" \in S THEN "unknown" ELSE "false"
NotOf(t) == CASE t = "true" -> "false" [] t = "false" -> "true" [] t = "unknown" -> "unknown"
Truth(b) == IF b THEN "true" ELSE "false"

\* A comparison with a NULL is neither true nor false.
SqlCompare(op, x, y) == IF x = Null \/ y = Null THEN "unknown" ELSE Truth(Compare(op, x, y))

\* Mutant of SqlFilter: NULL is compared as a value.
SqlFilterNullCompared(row, v, f) ==
    LET x == Column(row, v, f.field)
        at(y) == IF y = Null THEN Null ELSE Place(f.field, y)
    IN  CASE f.op = "eq" /\ f.arg[1] = Null -> Truth(x = Null)
          [] f.op = "ne" -> Truth(x # f.arg[1])
          [] f.op = "eq" /\ f.arg[1] # Null -> SqlCompare(f.op, x, f.arg[1])
          [] f.op \in Binary -> SqlCompare(f.op, at(x), at(f.arg[1]))
          [] f.op = "in" -> OrOf({SqlCompare("eq", x, f.arg[i]) : i \in DOMAIN f.arg})
          [] f.op = "between" -> AndOf({SqlCompare("gte", at(x), at(f.arg[1])),
                                      SqlCompare("lte", at(x), at(f.arg[2]))})
          [] f.op = "contains" -> IF f.arg[1] = Wild /\ x # Null THEN "true"
                                  ELSE SqlCompare("gte", x, f.arg[1])

\* _translate_filter: equality with null is IS NULL, and its negation IS NOT NULL;
\* what is ordered is ordered by the collation.
SqlFilter(row, v, f) ==
    LET x == Column(row, v, f.field)
        at(y) == IF y = Null THEN Null ELSE Place(f.field, y)
    IN  CASE f.op = "eq" /\ f.arg[1] = Null -> Truth(x = Null)
          [] f.op = "ne" /\ f.arg[1] = Null -> Truth(x # Null)
          [] f.op \in {"eq", "ne"} /\ f.arg[1] # Null -> SqlCompare(f.op, x, f.arg[1])
          [] f.op \in Binary -> SqlCompare(f.op, at(x), at(f.arg[1]))
          [] f.op = "in" -> OrOf({SqlCompare("eq", x, f.arg[i]) : i \in DOMAIN f.arg})
          [] f.op = "between" -> AndOf({SqlCompare("gte", at(x), at(f.arg[1])),
                                      SqlCompare("lte", at(x), at(f.arg[2]))})
          [] f.op = "contains" -> IF f.arg[1] = Wild /\ x # Null THEN "true"
                                  ELSE SqlCompare("gte", x, f.arg[1])

\* The WHERE clause on a row and the vendor row it is paired with.
SqlGroup(row, v, g) ==
    LET truth[h \in Groups] ==
            LET parts == {SqlFilter(row, v, h.filters[i]) : i \in KeptFilters(h)}
                            \union {truth[h.groups[i]] : i \in KeptGroups(h)}
            IN  CASE h.op = "and" -> AndOf(parts)
                  [] h.op = "or"  -> OrOf(parts)
                  [] h.op = "not" -> NotOf(AndOf(parts))
    IN  truth[g]

\* build_query selects from the table of the entity alone: a column of the
\* vendors in the WHERE clause adds their table without a condition.
NamesVendors[g \in Groups] ==
    \/ \E i \in KeptFilters(g) : Nested(g.filters[i].field)
    \/ \E i \in DOMAIN g.groups : NamesVendors[g.groups[i]]

Joined(g) == IF g # Null /\ NamesVendors[g] THEN Vendors ELSE {Null}

\* The rows of the answer: a row of the entity with a vendor row it is paired with.
Answer(table, g) ==
    {o \in (DOMAIN table) \X Joined(g) :
        g = Null \/ ~Kept[g] \/ SqlGroup(table[o[1]], o[2], g) = "true"}

\* The rows the engine selects in memory.
Selected(table, g) == {id \in DOMAIN table : g = Null \/ Matches(table[id], g)}

-----------------------------------------------------------------------------
(* Sorting: a sequence of [field, dir].                                       *)

LexLeq(p, q) == p = q \/ \E i \in DOMAIN p : p[i] < q[i] /\ \A j \in 1..(i - 1) : p[j] = q[j]

\* A missing value comes last when ascending and first when descending, in
\* PostgreSQL and by the infinities of _apply_sorting.  The numbers are the places
\* of the collation for the one, the code points for the other.
Rank(x, dir) == LET n == IF x = Null THEN MaxValue + 1 ELSE x IN IF dir = "asc" THEN n ELSE -n

\* Where the database puts a row by one of its columns.
Placed(row, v, f) ==
    LET x == Column(row, v, f) IN IF x = Null THEN Null ELSE Place(f, x)

\* The arrangements of S that rank in order.
Arrangements(S, RankOf(_)) ==
    {s \in [1..Cardinality(S) -> S] :
        /\ \A i, j \in DOMAIN s : i # j => s[i] # s[j]
        /\ \A i, j \in DOMAIN s : i < j => LexLeq(RankOf(s[i]), RankOf(s[j]))}

\* ORDER BY, of the columns the handler knows; PostgreSQL arranges ties as it likes.
SqlArrangements(table, S, sort) ==
    Arrangements(S, LAMBDA o : [i \in DOMAIN sort |->
                                  IF InSql(sort[i].field)
                                  THEN Rank(Placed(table[o[1]], o[2], sort[i].field), sort[i].dir)
                                  ELSE 0])

\* A column of the vendors in ORDER BY alone is an error of the database.
SortRaises(g, sort) == /\ \E i \in DOMAIN sort : Nested(sort[i].field)
                       /\ Joined(g) = {Null}

\* Rows that agree on the keys before the i-th compare a null with a text (or,
\* among raw values, with anything): Python raises.
Incomparable(table, S, sort, i, raw) ==
    \E a, b \in S :
        /\ \A j \in 1..(i - 1) : Value(table[a], sort[j].field) = Value(table[b], sort[j].field)
        /\ Value(table[a], sort[i].field) = Null /\ Value(table[b], sort[i].field) # Null
        /\ raw \/ Text(sort[i].field)

\* The first key that descends over texts, going by the first row of the sorted
\* data; 0 when there is none.
FirstDescendingText(sort, first) ==
    LET found == {i \in DOMAIN sort : /\ sort[i].dir = "desc" /\ Text(sort[i].field)
                                      /\ Value(first, sort[i].field) # Null}
    IN  IF found = {} THEN 0 ELSE CHOOSE i \in found : \A j \in found : i <= j

\* Mutant of Direction: the groups of descending texts are not reversed.
DirectionUnreversed(sort, i, at) == IF Text(sort[i].field) THEN "asc" ELSE sort[i].dir

\* The directions _apply_sorting ends up with.  From the key at on, it sorts the
\* texts ascending, the numbers as asked, and reverses the result; the groups
\* before it come in ascending order.
Direction(sort, i, at) ==
    IF at = 0 THEN (IF Text(sort[i].field) THEN "asc" ELSE sort[i].dir)
    ELSE IF i < at THEN "asc"
    ELSE IF Text(sort[i].field) \/ sort[i].dir = "asc" THEN "desc" ELSE "asc"

\* _apply_sorting; when it raises, the data stay as they were fetched.
MemoryArrangements(table, S, sort) ==
    LET by(at) == Arrangements(S, LAMBDA r : [i \in DOMAIN sort |->
                        Rank(Value(table[r], sort[i].field), Direction(sort, i, at))])
        anyhow == Arrangements(S, LAMBDA r : <<>>)
    IN  IF \E i \in DOMAIN sort : Incomparable(table, S, sort, i, FALSE) THEN anyhow
        ELSE UNION {LET at == IF s = <<>> THEN 0 ELSE FirstDescendingText(sort, table[s[1]]) IN
                    IF at = 0 THEN {s}
                    ELSE IF \E i \in DOMAIN sort : Incomparable(table, S, sort, i, TRUE)
                         THEN anyhow ELSE by(at) : s \in by(0)}

=============================================================================
