---------------------------- MODULE MCImportUpload ----------------------------
(* An instance of ImportUpload for TLC. *)
EXTENDS ImportUpload, TLC

CONSTANTS h1, h2, p1, x1, x2, x3, i1

\* One instance: what another one does to its own files concerns nobody here.
OneInstance == [x \in {h1, h2, p1, x1, x2, x3} |-> i1]

Symmetry == Permutations({h1, h2}) \union Permutations({x1, x2, x3})
=============================================================================
