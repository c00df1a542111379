--------------------------- MODULE MutationService --------------------------
(***************************************************************************)
(* What the traversal host promises the caller of a mutation (RFC 0013,    *)
(* adapter.go): each call takes effect at most once; it is answered with   *)
(* what happened, refused before anything happened, or lost.  A lost call  *)
(* may still take effect, later, but is never issued again.                *)
(***************************************************************************)
CONSTANT Calls

VARIABLES
    call,  \* [Calls -> Status]
    done   \* the calls that took effect

Status == {"new", "open", "ok", "rejected", "refused", "lost"}

Init == call = [c \in Calls |-> "new"] /\ done = {}

Becomes(c, from, to) ==
    call[c] \in from /\ call' = [call EXCEPT ![c] = to] /\ UNCHANGED done

Issue(c)  == Becomes(c, {"new"}, "open")
Refuse(c) == Becomes(c, {"new"}, "refused")
Lose(c)   == Becomes(c, {"new", "open"}, "lost")
Answer(c) == Becomes(c, {"open"}, IF c \in done THEN "ok" ELSE "rejected")

Effect(c) ==
    /\ call[c] \in {"open", "lost"} /\ c \notin done
    /\ done' = done \cup {c}
    /\ UNCHANGED call

Next == \E c \in Calls : Issue(c) \/ Refuse(c) \/ Lose(c) \/ Answer(c) \/ Effect(c)

Spec == Init /\ [][Next]_<<call, done>>
=============================================================================
