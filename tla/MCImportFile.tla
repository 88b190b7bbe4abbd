----------------------------- MODULE MCImportFile -----------------------------
(* Instances of ImportFile for TLC. *)
EXTENDS ImportFile

CONSTANTS k1, k2, v1, v2, e1, e2

row(a, k, kd, v) == [action |-> a, key |-> k, kind |-> kd, value |-> v]
ok(a, k, v) == row(a, k, "good", v)
csv(m, rows) == [csv |-> TRUE, mode |-> m, rows |-> rows]
json(m, rows) == [csv |-> FALSE, mode |-> m, rows |-> rows]

\* Sub-batches that take the keys in opposite orders, one in a second batch, and
\* a row that the database refuses.
AB == csv("upsert", <<ok("none", k1, v1), ok("none", k2, v1),
                      ok("none", k2, v2), ok("none", k1, v2), ok("none", k2, v1)>>)
BA == csv("upsert", <<ok("none", k2, v1), ok("none", k1, v1), row("none", k1, "refused", v2)>>)
\* Creations, one without a key and one repeated.
New == csv("create", <<ok("none", k1, v1), ok("none", NoKey, v1), ok("none", k1, v2)>>)
\* An action per row; the empty one passes the validation.
Mixed == csv("create", <<ok("delete", k1, v1), ok("upsert", k1, v2), ok("update", k2, v2),
                         row("blank", k2, "good", v1), row("upsert", k1, "incomplete", v1)>>)
Blank == csv("create", <<ok("delete", k1, v1), ok("create", k1, v2), ok("update", k2, v2),
                         row("blank", k2, "good", v1)>>)
\* JSON is not validated, and the first row decides whether actions count.
Late == json("update", <<ok("none", k1, v1), row("delete", k2, "unresolvable", v2)>>)
Hard == json("create", <<ok("upsert", k1, v1), row("upsert", k2, "unreadable", v1),
                         row("upsert", NoKey, "unresolvable", v1), row("none", k2, "good", v1)>>)
\* Upserts and deletes: delivered twice.
Twice == csv("create", <<ok("upsert", k1, v1), ok("upsert", k2, v1),
                         ok("delete", k2, v1), ok("upsert", k1, v2)>>)

AllFiles  == {AB, BA, New, Mixed, Blank, Late, Hard, Twice}
\* For the violation: a row that cannot be looked up.
UnreadableFile == {csv("upsert", <<ok("none", k1, v1), row("none", k2, "unreadable", v1)>>)}
=============================================================================
