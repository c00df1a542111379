---------------------------- MODULE MCYnabWrites ----------------------------
EXTENDS YnabWrites

Row(cleared) == [category |-> "c1", cleared |-> cleared, memo |-> "old", payee |-> "p1",
                 deleted |-> FALSE, v |-> 0]

MCTxns == {"t1", "t2", "t3"}
MCStartRow == [t \in MCTxns |-> Row(IF t = "t2" THEN "reconciled" ELSE "uncleared")]
MCStartPayee == [p \in {"p1", "p2", "p3"} |->
                    CASE p = "p1" -> "Cafe" [] p = "p2" -> "Bar" [] OTHER -> "Transfer"]

One(f, value) == [g \in {f} |-> value]
Patch(at, t, p) == [kind |-> "patch", at |-> at, txn |-> t, patch |-> p]
Rename(p, name) == [kind |-> "rename", payee |-> p, name |-> name]

MCRequests == {
    \* a field per operation, and a conflict
    <<Patch("name", "t1", One("memo", "new")), Patch("name", "t1", One("cleared", "cleared"))>>,
    <<Patch("name", "t1", One("memo", "null")), Patch("name", "t1", One("memo", "")),
      Patch("name", "t1", One("category", "c2"))>>,
    \* two spellings of the budget
    <<Patch("name", "t1", One("memo", "new")), Patch("id", "t1", One("cleared", "cleared"))>>,
    \* guards: reconciled, split, transfer, transfer payee; a listing for three targets
    <<Patch("name", "t2", One("cleared", "cleared")), Patch("name", "t1", One("cleared", "cleared")),
      Patch("name", "t3", One("category", "c2"))>>,
    <<Patch("name", "t2", One("category", "c2")), Patch("name", "t1", One("category", "c2"))>>,
    <<Patch("name", "t1", One("payee", "Bar")), Patch("name", "t2", One("payee", "Transfer")),
      Patch("name", "t3", One("payee", "p2"))>>,
    \* renames, unusable and empty patches
    <<Rename("p1", "Diner"), Patch("name", "t1", One("payee", "Bar")), Rename("p2", "Cafe")>>,
    <<Patch("name", "t1", One("cleared", "reconciled")), Patch("name", "t2", [f \in {} |-> ""]),
      Rename("p1", "Bar"), Rename("p3", "Diner")>>
}
=============================================================================
