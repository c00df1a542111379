----------------------------- MODULE MCOrganize -----------------------------
EXTENDS Organize

MCListing ==
    [n \in 1..NNodes |-> [bucket |-> "d1", time |-> "t1",
                          tags |-> IF n = 1 THEN {"g"} ELSE {}]]

MCPlugins ==
    { [keyed |-> TRUE, clearable |-> FALSE, move |-> TRUE, clock |-> TRUE],
      [keyed |-> FALSE, clearable |-> TRUE, move |-> TRUE, clock |-> FALSE],
      [keyed |-> FALSE, clearable |-> FALSE, move |-> FALSE, clock |-> TRUE] }

B(name, text) == [name |-> name, text |-> text]

\* No box; a bare one; two bare boxes; twins; a named one and a bare one; one name
\* twice, in agreement and not.
MCBoxLists ==
    { <<>>, <<B(Bare, "x")>>, <<B(Bare, "x"), B(Bare, "y")>>, <<B(Bare, "x"), B(Bare, "x")>>,
      <<B("n", "x"), B(Bare, "x")>>, <<B("n", "x"), B("n", "x")>>, <<B("n", "x"), B("n", "y")>> }

=============================================================================
