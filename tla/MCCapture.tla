----------------------------- MODULE MCCapture ------------------------------
EXTENDS Capture

CONSTANTS c1, c2, c3

\* Every directory holds one file.
MCTree == [r \in FileRoots |-> <<"self", "f">>]

\* c2 and c3 are children of c1: the branch advances or is rewritten.
MCHistory == [c \in Commits |-> IF c = c1 THEN {c1} ELSE {c1, c}]

\* What c2 and c3 are called does not matter.
Symmetry == Permutations({c2, c3})

R(name) == [kind |-> "root", name |-> name]
S(name) == [kind |-> "store", name |-> name]
Bad(k)  == [kind |-> k, name |-> "bad"]

MCArgLists ==
    { <<>>, <<S("s")>>, <<Bad("unusable")>>, <<Bad("outside")>>, <<R("g")>>,
      <<Bad("unusable"), R("a")>>, <<R("g"), S("s"), R("a")>>, <<R("a"), R("b")>>, <<R("g"), R("a")>>,
      <<R("a"), R("a")>>, <<S("s"), S("s")>>, <<R("a"), S("s")>> }

MCPriorArgs == { <<R("g"), R("a")>> }

=============================================================================
