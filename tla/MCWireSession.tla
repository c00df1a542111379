---------------------------- MODULE MCWireSession ----------------------------
(* Instances of WireSession for TLC.  Operations are interchangeable; ids of  *)
(* sessions are not (they are ordered).                                      *)
EXTENDS WireSession, TLC

CONSTANTS o1, o2, o3

Two == {o1, o2}
Three == {o1, o2, o3}
TwoSymmetry == Permutations(Two)

\* Operations are interchangeable: it is enough to look at the behaviours in which
\* they leave the host (or are refused) in the order of their names.
Left(o) == op[o].pc \in {"waiting", "done"}
InOrder == (Left(o2) => Left(o1)) /\ (Left(o3) => Left(o2))
OrderedFairSpec == Init /\ [][Next /\ InOrder']_vars /\ Fairness

=============================================================================
