---------------------------- MODULE MCOrgWrites -----------------------------
EXTENDS OrgWrites

CONSTANTS p1, p2

MCListing == <<<<Headline("a"), Headline("b")>>, <<Headline("c")>>>>

Simple(kind, f, id) == [kind |-> kind, file |-> f, id |-> id, dst |-> f, subtree |-> FALSE]

MCOps == {Simple("append", 1, "a"), Simple("set", 1, "a"), Simple("create", 2, "n"),
          Simple("delete", 1, "b"), [Simple("delete", 1, "b") EXCEPT !.subtree = TRUE],
          [Simple("move", 1, "a") EXCEPT !.dst = 2],
          [Simple("move", 2, "c") EXCEPT !.dst = 1], Simple("move", 1, "a")}

Symmetry == Permutations(Procs)
=============================================================================
