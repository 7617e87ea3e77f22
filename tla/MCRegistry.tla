------------------------------ MODULE MCRegistry ------------------------------
(* A small instance of Registry for TLC. *)
EXTENDS Registry, TLC

CONSTANTS h1, h2, h3, a, b

ListLetters == [n \in Names |-> IF n = "X" THEN "x" ELSE n]

In(list, name) == [list |-> list, name |-> name]
FromTheStart == {In(a, "y"), In(b, "y")}

Op(kind, row, list, names) == [kind |-> kind, row |-> row, list |-> list, names |-> names]
Old == <<NULL, In(a, "y")>>

\* Creations of one name in two spellings, a file with two names, changes of a row
\* that may be there from the start, by callers of either customer, and of one
\* that another request has created.
ListOps ==
  {Op("create", Old, a, {"x"}), Op("create", Old, a, {"X"}), Op("import", Old, a, {"x", "y"}),
   Op("update", Old, a, {"x"}), Op("update", Old, b, {"x"}), Op("update", Old, b, {}),
   Op("update", Old, a, {"y"}), Op("update", <<h1, In(a, "x")>>, a, {"y"})}

Symmetry == Permutations(Handlers \ {h1})
=============================================================================
