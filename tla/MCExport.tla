------------------------------- MODULE MCExport -------------------------------
(* Instances of Export for TLC. *)
EXTENDS Export, TLC

CONSTANTS e1, e2, i1, i2

VendorRows == {[name |-> 1], [name |-> 3]}

Row(id, amount, name, vendor, address) ==
    [id |-> id, amount |-> amount, name |-> name, address |-> address,
     vendor |-> IF vendor = 0 THEN Null ELSE [name |-> vendor]]

\* The texts are like "B", "aB" and "baB": lower case comes first in the collation,
\* and last among the code points.
Order == <<2, 1, 3>>

\* Three rows with ties, a missing amount, a missing name, no vendor.  The names of
\* Full and Gaps are in the same order for both, those of Mixed are not.
Full     == (1 :> Row(1, 2, 3, 1, 1)) @@ (3 :> Row(3, 1, 1, 3, 2)) @@ (4 :> Row(4, 2, 3, 3, 2))
Mixed    == (1 :> Row(1, 2, 3, 1, 1)) @@ (3 :> Row(3, 1, 2, 3, 2)) @@ (4 :> Row(4, 2, 1, 3, 2))
Gaps     == (1 :> Row(1, Null, 3, 0, Null)) @@ (2 :> Row(2, 1, Null, 3, 2)) @@ (3 :> Row(3, 2, 1, 1, 1))
Pair     == (1 :> Row(1, 2, 2, 1, 1)) @@ (3 :> Row(3, 1, 1, 3, 2))
Imported == (2 :> Row(2, 2, 3, 3, 2)) @@ (5 :> Row(5, 1, 1, 1, 1))

\* Filters.
Cond(field, op, arg)           == [field |-> field, op |-> op, arg |-> arg, relative |-> "no"]
Relative(field, op, arg, word) == [Cond(field, op, arg) EXCEPT !.relative = word]
Conditions ==
    {Cond("amount", "eq", <<2>>), Cond("amount", "ne", <<2>>), Cond("amount", "lt", <<2>>),
     Cond("amount", "between", <<2, 3>>), Cond("name", "in", <<1, 3>>), Cond("name", "lte", <<1>>),
     Cond("name", "lt", <<2>>), Cond("name", "contains", <<2>>), Cond("name", "contains", <<Wild>>),
     Cond("vendor.name", "eq", <<3>>), Cond("address", "eq", <<2>>)}
    \union {Cond("amount", "eq", <<Null>>), Cond("amount", "ne", <<Null>>),
            Cond("amount", "lt", <<Null>>), Cond("amount", "in", <<2, Null>>),
            Cond("amount", "between", <<2, Null>>)}
    \union {Relative("name", "gte", <<2>>, "known"), Relative("name", "gte", <<2>>, "unknown"),
            Relative("name", "between", <<1, 3>>, "known")}
Group(op, filters, groups) == [op |-> op, filters |-> filters, groups |-> groups]

Simple  == {Group(op, <<c>>, <<>>) : op \in {"and", "not"}, c \in Conditions}
Several == {Group(op, <<c, Cond("amount", "gte", <<2>>)>>, <<>>) :
                op \in {"and", "or", "not"}, c \in Conditions}
Deep    == {Group(op, <<Cond("name", "lt", <<3>>)>>, <<g>>) : op \in {"and", "or"}, g \in Simple}

Key(field, dir) == [field |-> field, dir |-> dir]
ById   == <<Key("id", "asc")>>
Orders == {<<>>, ById, <<Key("id", "desc")>>, <<Key("amount", "desc"), Key("id", "asc")>>,
           <<Key("name", "asc"), Key("amount", "desc"), Key("id", "asc")>>,
           <<Key("name", "desc"), Key("id", "asc")>>, <<Key("address", "asc"), Key("id", "asc")>>,
           <<Key("vendor.name", "asc"), Key("id", "asc")>>}

Request(format, filters, sort, limit, offset) ==
    [format |-> format, allowed |-> TRUE, filters |-> filters, sort |-> sort, limit |-> limit,
     offset |-> offset, storage |-> TRUE]

Scenario(request, rows, starts, changes, faults) ==
    [config |-> request, table |-> rows, starts |-> starts, changes |-> changes, faults |-> faults]

\* One undisturbed execution after a preview, of every filter and of every order.
Asked ==
    {Scenario(Request("csv", g, ById, Null, 0), rows, 1, 0, 0) :
        g \in Simple \union Several \union Deep, rows \in {Full, Gaps}}
    \union {Scenario(Request("csv", g, ById, Null, 0), Mixed, 1, 0, 0) : g \in Simple}
    \union {Scenario(Request("csv", Null, sort, Null, 0), rows, 1, 0, 0) :
        sort \in Orders, rows \in {Full, Gaps, Mixed}}

\* Two executions with faults and imports between the pages; one whose rows move
\* as their amounts change; slices; no storage; JSON; a field that is refused.
Tie  == Group("and", <<Cond("amount", "gte", <<1>>)>>, <<>>)
Busy ==
    {Scenario(Request("csv", Null, ById, Null, 0), Full, 2, 1, 1),
     Scenario(Request("csv", Tie, <<Key("amount", "asc"), Key("id", "desc")>>, Null, 0), Full, 1, 2, 0),
     Scenario(Request("csv", Null, ById, 1, 1), Full, 1, 1, 1),
     Scenario(Request("csv", Null, ById, Null, 1), Full, 1, 1, 1),
     Scenario([Request("csv", Null, ById, Null, 0) EXCEPT !.storage = FALSE], Pair, 2, 1, 1),
     Scenario([Request("csv", Null, ById, Null, 0) EXCEPT !.allowed = FALSE], Pair, 2, 0, 1),
     Scenario(Request("json", Null, ById, 1, 0), Pair, 2, 1, 1)}

AllGroups == Simple \union Several \union Deep \union {Tie}
Nesting   == [g \in AllGroups |-> Len(g.groups)]

Scenes == Asked \union Busy

Symmetry == Permutations({e1, e2}) \union Permutations({i1, i2})

\* A filter on a column of the vendors.
NestedScenes ==
    {Scenario(Request("csv", Group("and", <<Cond("vendor.name", "eq", <<3>>)>>, <<>>), ById, Null, 0),
              rows, 1, 0, 0) : rows \in {Full, Gaps, Pair}}
=============================================================================
