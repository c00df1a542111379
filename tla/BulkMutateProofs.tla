-------------------------- MODULE BulkMutateProofs --------------------------
(***************************************************************************)
(* Proofs about BulkMutate and about YnabWrites, where a bulk call of      *)
(* patches ends, for any sources, temp ids, addresses and number of        *)
(* groups, ops and mishaps, and any requests, transactions, payees,        *)
(* changes made in YNAB's app, reads and faults.                           *)
(*                                                                         *)
(* BulkMutate.  The call and the loop it started are two processes: a      *)
(* reply that is given up leaves a loop running behind the call.  So the   *)
(* invariant says of every group, not only of the current one, what its    *)
(* loop has written and reported, and which loops may still be running:    *)
(* the current one, and those of wire plugins that a call walked away from *)
(* when it was cancelled or the stream to the plugin broke.                *)
(*                                                                         *)
(* YnabWrites, in the second half.  The properties speak of what was       *)
(* written, reported and cached; the invariant follows each operation on   *)
(* its way there, through the queues of the call (Structure), each row and *)
(* list that was read until it is used (ReadsHold, ListHolds, BatchHolds), *)
(* and, while nobody else changes anything, each field that was asked for  *)
(* until it is in the row (NothingLost).                                   *)
(***************************************************************************)
EXTENDS BulkMutate, YnabWrites, SequenceTheorems, FiniteSetTheorems, TLAPS

-----------------------------------------------------------------------------
(* The inductive invariant.                                                 *)

\* What buildOp makes: a container's temp id only on a create that defines
\* one, and a create that defines none names an address of the caller's.
OpSound(op) ==
    /\ op.temp = NoTemp => op.inRef = NoTemp
    /\ op.temp # NoTemp => op.ref = NoTemp
    /\ (op.temp = NoTemp /\ op.kind = "create")
          => (op.ref = NoTemp /\ op.uri \in 1..Existing)

GroupSound(gr) ==
    IF gr.sweep THEN Len(gr.ops) > 0 /\ gr.ops[1].kind # "create"
    ELSE \A i \in 1..Len(gr.ops) : OpSound(gr.ops[i])

DraftSound ==
    draft # NoDraft =>
        /\ Len(groups) < MaxGroups
        /\ ~draft.sweep => \A i \in 1..Len(draft.ops) : OpSound(draft.ops[i])

GroupsSound == \A g \in 1..Len(groups) : GroupSound(groups[g])

RunOps ==
    \A g \in 1..MaxGroups : run[g] # NoRun =>
        \A i \in 1..Len(run[g].ops) : OpSound(run[g].ops[i])

\* Where the call is: nothing is dispatched before every group is built, and
\* groups are dispatched one after the other.
CallPhase ==
    /\ pc = "build" => /\ cur = 1 /\ host = "dispatch"
                       /\ \A g \in 1..MaxGroups : run[g] = NoRun
    /\ answer = "refused" => /\ pc = "done"
                             /\ \A g \in 1..MaxGroups : run[g] = NoRun
    /\ host # "dispatch" => pc = "apply" /\ cur <= Len(groups)
    /\ cur <= Len(groups) + 1
    /\ Len(views) = IF host = "forget" THEN cur ELSE cur - 1

Dispatched ==
    /\ \A g \in 1..MaxGroups : run[g] # NoRun =>
          g <= Len(groups) /\ g <= cur /\ (g = cur => host # "dispatch")
    /\ host = "wait" => run[cur] # NoRun

\* The call is past group g.
Past(g) == g < cur \/ (g = cur /\ host = "forget")

\* A loop the call is past and that still runs is a wire plugin's, given up
\* by a cancelled call or behind a stream that broke.
LeftRunning ==
    \A g \in 1..MaxGroups :
        (run[g].st = "running" /\ Past(g))
            => /\ Anchor(g) \in Wire /\ views[g].err
               /\ cancelled \/ Anchor(g) \in broken

\* An outcome agrees with what its op wrote, and every write has its outcome.
OutcomesTrue ==
    /\ \A e \in effects : run[e.g] # NoRun /\ e.i <= Len(run[e.g].outcomes)
    /\ \A g \in 1..MaxGroups : run[g] # NoRun =>
          \A i \in 1..Len(run[g].outcomes) :
              Agrees(run[g].outcomes[i].status, Landed(g, i))

EndedIsWhole ==
    \A g \in 1..MaxGroups :
        run[g].st = "ended" => Len(run[g].outcomes) = Len(run[g].ops)

ViewsTrue ==
    \A g \in 1..Len(views) : ~views[g].err =>
        run[g].st = "ended" /\ views[g].outcomes = run[g].outcomes

\* A write the caches do not know of yet is one of the group at hand, or of
\* a loop that was left running; when the session was replaced since, it was
\* for the group at hand, after which they are forgotten.
UnseenSound ==
    \A a \in Anchors : \A e \in unseen[a] :
        /\ run[e.g] # NoRun /\ Anchor(e.g) = a
        /\ \/ e.g = cur
           \/ /\ e.g < cur /\ a \in Wire /\ views[e.g].err
              /\ \/ cancelled \/ a \in broken
                 \/ host # "dispatch" /\ Anchor(cur) = a

\* A loop that still runs has the writes to its source to itself.
WritesInTurn ==
    \A f \in effects : \A h \in 1..(f.g - 1) :
        Anchor(h) = Anchor(f.g) => run[h].st # "running"

\* A created temp id names the address its create made, at which the node it
\* made is, or no node any more.
CreatedSound ==
    /\ fresh > Existing
    /\ \A g \in 1..MaxGroups : run[g] # NoRun =>
          \A t \in Temps : run[g].created[t] # Nothing =>
              /\ run[g].created[t] > Existing /\ run[g].created[t] < fresh
              /\ at[Anchor(g)][run[g].created[t]]
                    \in {Nothing, run[g].created[t]}
              /\ \E f \in effects : /\ f.g = g /\ run[g].ops[f.i].temp = t
                                    /\ run[g].outcomes[f.i].status = "applied"
                                    /\ f.node = run[g].created[t]

Phase == CallPhase /\ Dispatched

IInv ==
    /\ TypeOK
    /\ DraftSound /\ GroupsSound /\ RunOps
    /\ Phase
    /\ LeftRunning /\ OutcomesTrue /\ EndedIsWhole /\ ViewsTrue
    /\ UnseenSound /\ WritesInTurn
    /\ CreatedSound /\ TempIdsHold

-----------------------------------------------------------------------------
(* Facts about the state.                                                   *)

LEMMA Sizes ==
    /\ MaxGroups \in Nat /\ MaxAddr \in Nat /\ Existing \in Nat /\ MaxMishaps \in Nat
    /\ Existing <= MaxAddr /\ 1..Existing \subseteq Addr
    /\ NoTemp \notin Temps /\ Wire \subseteq Anchors
    /\ Addr \subseteq Nat /\ Nothing \notin Addr /\ Root \notin Addr
    /\ Nothing = 0 /\ Root # Nothing
    /\ OpKinds \subseteq Kind
BY ConstantsAssumption DEF Addr, Nothing, Root, Kind

LEMMA RunFacts ==
    ASSUME TypeOK, NEW g \in 1..MaxGroups, run[g] # NoRun
    PROVE  /\ run[g] \in Run
           /\ run[g].ops \in Seq(BulkOp) /\ run[g].outcomes \in Seq(Outcome)
           /\ run[g].created \in [Temps -> Addr \cup {Nothing}]
           /\ run[g].st \in {"running", "ended", "dead"}
           /\ Len(run[g].outcomes) \in Nat /\ Len(run[g].ops) \in Nat
           /\ Len(run[g].outcomes) <= Len(run[g].ops)
<1>1. run[g] \in Run
  BY DEF TypeOK
<1>2. Len(run[g].outcomes) <= Len(run[g].ops)
  BY DEF TypeOK
<1> QED BY <1>1, <1>2, LenProperties DEF Run

LEMMA NoRunHasNoLoop ==
    ASSUME TypeOK, NEW g \in 1..MaxGroups
    PROVE  (run[g].st \in {"running", "ended", "dead"}) <=> run[g] # NoRun
<1>1. CASE run[g] = NoRun
  BY <1>1 DEF NoRun
<1>2. CASE run[g] # NoRun
  BY <1>2, RunFacts
<1> QED BY <1>1, <1>2

LEMMA GroupFacts ==
    ASSUME TypeOK, NEW g \in 1..Len(groups)
    PROVE  /\ groups[g] \in Group /\ Anchor(g) \in Anchors
           /\ groups[g].ops \in Seq(BulkOp) /\ groups[g].sweep \in BOOLEAN
           /\ Len(groups) \in Nat /\ g \in 1..MaxGroups
<1>1. groups \in Seq(Group) /\ Len(groups) <= MaxGroups
  BY DEF TypeOK
<1>2. Len(groups) \in Nat
  BY <1>1, LenProperties
<1>3. groups[g] \in Group
  BY <1>1
<1>4. g \in 1..MaxGroups
  BY <1>1, <1>2, Sizes
<1> QED BY <1>2, <1>3, <1>4 DEF Group, Anchor

\* What a due op is.
LEMMA OpFacts ==
    ASSUME TypeOK, Dispatched, NEW g \in 1..MaxGroups, OpDue(g)
    PROVE  /\ run[g] # NoRun /\ g \in 1..Len(groups) /\ Anchor(g) \in Anchors
           /\ I(g) \in 1..Len(run[g].ops) /\ I(g) = Len(run[g].outcomes) + 1
           /\ Op(g) \in BulkOp /\ Op(g) = run[g].ops[I(g)]
           /\ Target(g) \in Addr \cup {Nothing}
           /\ Container(g) \in Addr \cup {Nothing, Root}
           /\ at[Anchor(g)] \in [Addr -> Addr \cup {Nothing}]
<1>1. run[g].st = "running" /\ Len(run[g].outcomes) < Len(run[g].ops)
  BY DEF OpDue
<1>2. run[g] # NoRun
  BY <1>1 DEF NoRun
<1>3. g \in 1..Len(groups) /\ Anchor(g) \in Anchors
  <2>1. g <= Len(groups) /\ Len(groups) \in Nat
    BY <1>2, LenProperties DEF Dispatched, TypeOK
  <2>2. g \in 1..Len(groups)
    BY <2>1, Sizes
  <2> QED BY <2>2, GroupFacts
<1>4. I(g) \in 1..Len(run[g].ops) /\ I(g) = Len(run[g].outcomes) + 1
  BY <1>1, <1>2, RunFacts DEF I
<1>5. Op(g) \in BulkOp /\ Op(g) = run[g].ops[I(g)]
  BY <1>2, <1>4, RunFacts DEF Op
<1>6. /\ Op(g).uri \in Addr \cup {Nothing} /\ Op(g).ref \in Temps \cup {NoTemp}
      /\ Op(g).inRef \in Temps \cup {NoTemp} /\ Op(g).in \in Addr \cup {Nothing, Root}
  BY <1>5 DEF BulkOp, TempRef
<1>7. \A t \in Temps : Created(g, t) \in Addr \cup {Nothing}
  BY <1>2, RunFacts DEF Created
<1>8. Target(g) \in Addr \cup {Nothing} /\ Container(g) \in Addr \cup {Nothing, Root}
  BY <1>6, <1>7 DEF Target, Container
<1>9. at[Anchor(g)] \in [Addr -> Addr \cup {Nothing}]
  BY <1>3 DEF TypeOK
<1> QED BY <1>2, <1>3, <1>4, <1>5, <1>8, <1>9

-----------------------------------------------------------------------------
(* The ops of the loop, as one step: an op that wrote nothing and one that  *)
(* wrote.                                                                   *)

\* The loop of g records the outcome o.
Recorded(g, o, created) ==
    run' = [run EXCEPT ![g] =
               [st |-> "running", ops |-> run[g].ops,
                outcomes |-> Append(run[g].outcomes, o), created |-> created]]

Silent(g) ==
    /\ OpDue(g)
    /\ \E o \in Outcome : /\ o.status \notin {"applied", "deleted"}
                          /\ Recorded(g, o, run[g].created)
    /\ UNCHANGED <<hostVars, sourceVars, broken, mishaps>>

\* What a write may do to the source of g: no node appears at an address that
\* was ever made by a create but the node that was made there.
SourceKept(g, source) ==
    \A x \in Addr : (x > Existing /\ x < fresh)
        => source[x] \in {at[Anchor(g)][x], Nothing}

\* created gains at most the address of a child that is made now, and that
\* is reported.
CreatedNow(g, status, source, created, node) ==
    \A t \in Temps :
        \/ created[t] = run[g].created[t]
        \/ /\ t = Op(g).temp /\ created[t] = fresh /\ node = fresh
           /\ status = "applied"
           /\ fresh' = fresh + 1 /\ source[fresh] = fresh

\* The node a temp id of the op stands for.
TempNode(g, t, node) ==
    t # NoTemp => /\ t \in Temps
                  /\ run[g].created[t] # Nothing /\ node = run[g].created[t]

\* A verb's write, whatever is reported of it.
VerbWrote(g, source, node, parent) ==
    /\ source \in [Addr -> Addr \cup {Nothing}] /\ node \in Addr
    /\ parent \in Addr \cup {Nothing, Root}
    /\ Write(g, source, node, parent)
    /\ SourceKept(g, source)
    /\ TempNode(g, Op(g).ref, node) /\ TempNode(g, Op(g).inRef, parent)
    /\ fresh' \in {fresh, fresh + 1} /\ fresh' \in 1..(MaxAddr + 1)

Wrote(g) ==
    /\ OpDue(g)
    /\ \E o \in Outcome, created \in [Temps -> Addr \cup {Nothing}] :
          \E source, node, parent :
              /\ o.status \in {"applied", "deleted", "failed"}
              /\ Recorded(g, o, created)
              /\ VerbWrote(g, source, node, parent)
              /\ CreatedNow(g, o.status, source, created, node)
    /\ UNCHANGED <<hostVars, broken, mishaps>>

LEMMA RecordIsRecorded ==
    ASSUME NEW g, NEW status, NEW uri, NEW created,
           Record(g, status, uri, created),
           TypeOK, g \in 1..MaxGroups
    PROVE  Recorded(g, [status |-> status, uri |-> uri], created)
BY DEF Record, Recorded, TypeOK

\* The node at the address of a temp id that was created.
LEMMA CreatedNode ==
    ASSUME TypeOK, CreatedSound, Dispatched, NEW g \in 1..MaxGroups, OpDue(g),
           NEW t \in Temps, Created(g, t) # Nothing,
           at[Anchor(g)][Created(g, t)] # Nothing
    PROVE  at[Anchor(g)][Created(g, t)] = run[g].created[t]
BY OpFacts DEF CreatedSound, Created

LEMMA SilentSteps ==
    ASSUME TypeOK, Dispatched, NEW g \in 1..MaxGroups,
           OpSkipped(g) \/ OpPatchNothing(g) \/ OpFails(g)
    PROVE  Silent(g)
<1>1. CASE OpSkipped(g)
  <2>1. OpDue(g) /\ Record(g, "skipped", Op(g).uri, run[g].created)
        /\ UNCHANGED <<hostVars, sourceVars, broken, mishaps>>
    BY <1>1 DEF OpSkipped
  <2>2. [status |-> "skipped", uri |-> Op(g).uri] \in Outcome
    BY <2>1, OpFacts DEF Outcome, Status, BulkOp
  <2>3. Recorded(g, [status |-> "skipped", uri |-> Op(g).uri], run[g].created)
    BY <2>1, RecordIsRecorded
  <2> QED BY <2>1, <2>2, <2>3 DEF Silent
<1>2. CASE OpPatchNothing(g)
  <2>1. OpDue(g) /\ Record(g, "patched_nothing", Target(g), run[g].created)
        /\ UNCHANGED <<hostVars, sourceVars, broken, mishaps>>
    BY <1>2 DEF OpPatchNothing, Found, Runs, PatchedNothingStatus
  <2>2. [status |-> "patched_nothing", uri |-> Target(g)] \in Outcome
    BY <2>1, OpFacts DEF Outcome, Status
  <2>3. Recorded(g, [status |-> "patched_nothing", uri |-> Target(g)],
                 run[g].created)
    BY <2>1, RecordIsRecorded
  <2> QED BY <2>1, <2>2, <2>3 DEF Silent
<1>3. CASE OpFails(g)
  <2>1. OpDue(g) /\ UNCHANGED <<hostVars, sourceVars, broken, mishaps>>
    BY <1>3 DEF OpFails, Runs
  <2>2. PICK status \in {"failed", "not_found"} :
            Record(g, status, Target(g), run[g].created)
    BY <1>3 DEF OpFails
  <2>3. [status |-> status, uri |-> Target(g)] \in Outcome
    BY <2>1, OpFacts DEF Outcome, Status, BulkOp
  <2>4. Recorded(g, [status |-> status, uri |-> Target(g)], run[g].created)
    BY <2>2, RecordIsRecorded
  <2> QED BY <2>1, <2>3, <2>4 DEF Silent
<1> QED BY <1>1, <1>2, <1>3

\* What an op that runs is addressed by, and what is there.
LEMMA RunningOp ==
    ASSUME IInv, NEW g \in 1..MaxGroups, Runs(g)
    PROVE  /\ OpDue(g) /\ OpSound(Op(g)) /\ Op(g) \in BulkOp
           /\ Op(g).temp = NoTemp => Target(g) \in Addr
           /\ Op(g).temp # NoTemp => Container(g) \in Addr \cup {Root}
           /\ Anchor(g) \in Anchors /\ at[Anchor(g)] \in [Addr -> Addr \cup {Nothing}]
           /\ Op(g).ref \in Temps \cup {NoTemp} /\ Op(g).inRef \in Temps \cup {NoTemp}
           /\ Op(g).temp \in Temps \cup {NoTemp}
           /\ Op(g).kind \in Kind /\ fresh \in Nat /\ fresh > Existing
           /\ run[g].created \in [Temps -> Addr \cup {Nothing}]
<1>1. OpDue(g) /\ ~Dependent(g)
  BY DEF Runs
<1>2. TypeOK /\ Dispatched /\ RunOps /\ CreatedSound
  BY DEF IInv, Phase
<1>3. OpSound(Op(g))
  BY <1>1, <1>2, OpFacts DEF RunOps
<1>4. fresh \in Nat /\ fresh > Existing
  BY <1>2, Sizes DEF TypeOK, CreatedSound
<1>5. run[g].created \in [Temps -> Addr \cup {Nothing}]
  BY <1>1, <1>2, OpFacts, RunFacts
<1> QED BY <1>1, <1>2, <1>3, <1>4, <1>5, OpFacts DEF Dependent, BulkOp, TempRef

LEMMA ChildMadeWrites ==
    ASSUME IInv, NEW g \in 1..MaxGroups, Runs(g), ChildMade(g)
    PROVE  \E source, parent :
              /\ VerbWrote(g, source, fresh, parent)
              /\ source[fresh] = fresh /\ fresh' = fresh + 1
<1> DEFINE c      == Container(g)
           source == [at[Anchor(g)] EXCEPT ![fresh] = fresh]
           parent == IF c = Root THEN Root ELSE at[Anchor(g)][c]
<1>1. /\ Op(g).temp # NoTemp /\ fresh <= MaxAddr
      /\ parent # Nothing /\ Write(g, source, fresh, parent)
      /\ fresh' = fresh + 1
  BY DEF ChildMade
<1>2. TypeOK /\ Dispatched /\ CreatedSound
  BY DEF IInv, Phase
<1>3. fresh \in Addr /\ fresh > Existing /\ fresh \in Nat
  BY <1>1, RunningOp, Sizes DEF Addr
<1>4. c \in Addr \cup {Root} /\ parent \in Addr \cup {Root}
  BY <1>1, RunningOp
<1>5. source \in [Addr -> Addr \cup {Nothing}] /\ source[fresh] = fresh
  BY <1>1, <1>3, RunningOp
<1>6. SourceKept(g, source)
  BY <1>1, <1>3, RunningOp DEF SourceKept
<1>7. TempNode(g, Op(g).ref, fresh)
  BY <1>1, RunningOp DEF OpSound, TempNode
<1>8. TempNode(g, Op(g).inRef, parent)
  <2>1. SUFFICES ASSUME Op(g).inRef # NoTemp
                 PROVE  /\ run[g].created[Op(g).inRef] # Nothing
                        /\ parent = run[g].created[Op(g).inRef]
    BY <1>1, RunningOp DEF TempNode
  <2>2. c = run[g].created[Op(g).inRef] /\ Op(g).inRef \in Temps
    BY <1>1, <2>1, RunningOp DEF Container, Created
  <2>3. c \in Addr /\ parent = at[Anchor(g)][c]
    BY <1>1, <1>4, <2>2, RunningOp, Sizes
  <2>4. /\ OpDue(g) /\ c = Created(g, Op(g).inRef) /\ c # Nothing
        /\ at[Anchor(g)][c] # Nothing
    BY <1>1, <2>2, <2>3, RunningOp, Sizes DEF Created
  <2>5. at[Anchor(g)][c] = run[g].created[Op(g).inRef]
    BY <1>2, <2>2, <2>4, CreatedNode
  <2> QED BY <1>1, <2>2, <2>3, <2>4, <2>5
<1>9. fresh' \in {fresh, fresh + 1} /\ fresh' \in 1..(MaxAddr + 1)
  BY <1>1, <1>3, Sizes
<1> HIDE DEF c, source, parent
<1> QED BY <1>1, <1>3, <1>4, <1>5, <1>6, <1>7, <1>8, <1>9 DEF VerbWrote

\* A create at an address of the caller's is not at one a create made.
LEMMA NodeMadeWrites ==
    ASSUME IInv, NEW g \in 1..MaxGroups, Runs(g), NodeMade(g)
    PROVE  \E source : VerbWrote(g, source, fresh, Nothing)
<1> DEFINE source == [at[Anchor(g)] EXCEPT ![Target(g)] = fresh]
<1>1. /\ Op(g).temp = NoTemp /\ Op(g).kind = "create"
      /\ fresh <= MaxAddr
      /\ Write(g, source, fresh, Nothing)
      /\ fresh' = fresh + 1
  BY DEF NodeMade
<1>2. fresh \in Addr /\ fresh > Existing /\ fresh \in Nat
  BY <1>1, RunningOp, Sizes DEF Addr
<1>3. Op(g).ref = NoTemp /\ Op(g).inRef = NoTemp /\ Target(g) \in 1..Existing
  BY <1>1, RunningOp DEF OpSound, Target
<1>4. source \in [Addr -> Addr \cup {Nothing}]
  BY <1>1, <1>2, RunningOp
<1>5. SourceKept(g, source)
  <2>1. \A x \in Addr : x # Target(g) => source[x] = at[Anchor(g)][x]
    BY <1>1, RunningOp
  <2>2. \A x \in Addr : x > Existing => x # Target(g)
    BY <1>3, Sizes DEF Addr
  <2> QED BY <2>1, <2>2 DEF SourceKept
<1>6. TempNode(g, Op(g).ref, fresh) /\ TempNode(g, Op(g).inRef, Nothing)
  BY <1>3 DEF TempNode
<1>7. fresh' \in {fresh, fresh + 1} /\ fresh' \in 1..(MaxAddr + 1)
  BY <1>1, <1>2, Sizes
<1> HIDE DEF source
<1> QED BY <1>1, <1>2, <1>4, <1>5, <1>6, <1>7 DEF VerbWrote

\* A verb on a node that is there: the node a temp id stands for, if the op
\* names one.
LEMMA FoundNode ==
    ASSUME IInv, NEW g \in 1..MaxGroups, Runs(g), NEW kinds, Found(g, kinds)
    PROVE  /\ Target(g) \in Addr
           /\ at[Anchor(g)][Target(g)] \in Addr
           /\ TempNode(g, Op(g).ref, at[Anchor(g)][Target(g)])
           /\ TempNode(g, Op(g).inRef, Nothing)
           /\ at[Anchor(g)] \in [Addr -> Addr \cup {Nothing}]
<1>1. Op(g).temp = NoTemp /\ at[Anchor(g)][Target(g)] # Nothing
  BY DEF Found
<1>2. TypeOK /\ Dispatched /\ CreatedSound
  BY DEF IInv, Phase
<1>3. Target(g) \in Addr /\ at[Anchor(g)][Target(g)] \in Addr
  BY <1>1, RunningOp
<1>4. Op(g).inRef = NoTemp
  BY <1>1, RunningOp DEF OpSound
<1>5. ASSUME Op(g).ref # NoTemp
      PROVE  /\ run[g].created[Op(g).ref] # Nothing
             /\ at[Anchor(g)][Target(g)] = run[g].created[Op(g).ref]
  <2>1. Target(g) = Created(g, Op(g).ref) /\ Op(g).ref \in Temps
    BY <1>1, <1>5, RunningOp DEF Target
  <2>2. Created(g, Op(g).ref) # Nothing
    BY <1>3, <2>1, Sizes
  <2> QED BY <1>1, <1>2, <2>1, <2>2, CreatedNode, RunningOp DEF Created
<1> QED BY <1>1, <1>3, <1>4, <1>5, RunningOp DEF TempNode

LEMMA OtherWrites ==
    ASSUME IInv, NEW g \in 1..MaxGroups, Runs(g),
           NodeWritten(g) \/ NodeMoved(g) \/ NodeDeleted(g)
    PROVE  \E source, node : VerbWrote(g, source, node, Nothing)
<1> DEFINE node == at[Anchor(g)][Target(g)]
<1>1. fresh \in 1..(MaxAddr + 1) /\ fresh \in Nat
  BY DEF IInv, TypeOK
<1>2. CASE NodeWritten(g)
  <2> DEFINE source == at[Anchor(g)]
  <2>1. Found(g, {"put", "patch"}) /\ Write(g, source, node, Nothing) /\ fresh' = fresh
    BY <1>2 DEF NodeWritten
  <2>2. SourceKept(g, source)
    BY DEF SourceKept
  <2>3. /\ node \in Addr /\ source \in [Addr -> Addr \cup {Nothing}]
        /\ TempNode(g, Op(g).ref, node) /\ TempNode(g, Op(g).inRef, Nothing)
    BY <2>1, FoundNode
  <2> HIDE DEF source, node
  <2> QED BY <1>1, <2>1, <2>2, <2>3 DEF VerbWrote
<1>3. CASE NodeMoved(g)
  <2> DEFINE source == [at[Anchor(g)] EXCEPT ![Target(g)] = Nothing,
                                             ![fresh] = node]
  <2>1. /\ Found(g, {"patch"}) /\ fresh <= MaxAddr
        /\ Write(g, source, node, Nothing) /\ fresh' = fresh + 1
    BY <1>3 DEF NodeMoved
  <2>2. /\ node \in Addr /\ at[Anchor(g)] \in [Addr -> Addr \cup {Nothing}]
        /\ TempNode(g, Op(g).ref, node) /\ TempNode(g, Op(g).inRef, Nothing)
    BY <2>1, FoundNode
  <2>3. source \in [Addr -> Addr \cup {Nothing}]
    BY <2>2
  <2>4. SourceKept(g, source)
    <3>1. \A x \in Addr : x # fresh => source[x] \in {at[Anchor(g)][x], Nothing}
      BY <2>2
    <3>2. \A x \in Addr : x < fresh => x # fresh
      BY <1>1, Sizes
    <3> HIDE DEF source
    <3> QED BY <3>1, <3>2 DEF SourceKept
  <2>5. fresh' \in 1..(MaxAddr + 1)
    BY <1>1, <2>1, Sizes
  <2> HIDE DEF source, node
  <2> QED BY <2>1, <2>2, <2>3, <2>4, <2>5 DEF VerbWrote
<1>4. CASE NodeDeleted(g)
  <2> DEFINE source == [at[Anchor(g)] EXCEPT ![Target(g)] = Nothing]
  <2>1. Found(g, {"delete"}) /\ Write(g, source, node, Nothing) /\ fresh' = fresh
    BY <1>4 DEF NodeDeleted
  <2>2. /\ node \in Addr /\ at[Anchor(g)] \in [Addr -> Addr \cup {Nothing}]
        /\ TempNode(g, Op(g).ref, node) /\ TempNode(g, Op(g).inRef, Nothing)
    BY <2>1, FoundNode
  <2>3. SourceKept(g, source) /\ source \in [Addr -> Addr \cup {Nothing}]
    BY <2>2 DEF SourceKept
  <2> HIDE DEF source, node
  <2> QED BY <1>1, <2>1, <2>2, <2>3 DEF VerbWrote
<1> QED BY <1>2, <1>3, <1>4

\* What a verb wrote, with a status that does not say it created a child.
LEMMA WroteOther ==
    ASSUME IInv, NEW g \in 1..MaxGroups, Runs(g),
           NEW source, NEW node, NEW parent, VerbWrote(g, source, node, parent),
           NEW status \in {"applied", "deleted", "failed"},
           Record(g, status, Target(g), run[g].created),
           UNCHANGED <<hostVars, broken, mishaps>>
    PROVE  Wrote(g)
<1>1. OpDue(g) /\ TypeOK /\ Dispatched
  BY DEF Runs, IInv, Phase
<1>2. PICK o \in Outcome : o = [status |-> status, uri |-> Target(g)]
  BY <1>1, OpFacts DEF Outcome, Status
<1>3. Recorded(g, o, run[g].created) /\ o.status = status
  BY <1>1, <1>2, RecordIsRecorded
<1>4. run[g].created \in [Temps -> Addr \cup {Nothing}]
  BY RunningOp
<1>5. CreatedNow(g, o.status, source, run[g].created, node)
  BY DEF CreatedNow
<1> QED BY <1>1, <1>2, <1>3, <1>4, <1>5 DEF Wrote

LEMMA WritingSteps ==
    ASSUME IInv, NEW g \in 1..MaxGroups,
           OpCreateChild(g) \/ OpApplied(g) \/ OpDelete(g) \/ OpFailsLate(g)
    PROVE  Wrote(g)
<1>1. Runs(g) /\ UNCHANGED <<hostVars, broken, mishaps>>
  BY DEF OpCreateChild, OpApplied, OpDelete, OpFailsLate
<1>2. CASE OpCreateChild(g)
  <2> DEFINE created == [run[g].created EXCEPT ![Op(g).temp] = fresh]
  <2>1. ChildMade(g) /\ Record(g, "applied", fresh, created)
    BY <1>2 DEF OpCreateChild
  <2>2. PICK source, parent : /\ VerbWrote(g, source, fresh, parent)
                              /\ source[fresh] = fresh /\ fresh' = fresh + 1
    BY <1>1, <2>1, ChildMadeWrites
  <2>3. OpDue(g) /\ TypeOK /\ fresh \in Addr
    BY <1>1, <2>2 DEF Runs, IInv, VerbWrote
  <2>4. created \in [Temps -> Addr \cup {Nothing}]
    BY <1>1, <2>1, <2>3, RunningOp DEF ChildMade
  <2>5. PICK o \in Outcome : o = [status |-> "applied", uri |-> fresh]
    BY <2>3 DEF Outcome, Status
  <2>6. Recorded(g, o, created) /\ o.status = "applied"
    BY <2>1, <2>3, <2>5, RecordIsRecorded
  <2>7. CreatedNow(g, o.status, source, created, fresh)
    <3>1. \A t \in Temps : created[t] = IF t = Op(g).temp THEN fresh
                                       ELSE run[g].created[t]
      BY <1>1, RunningOp
    <3> QED BY <2>2, <2>6, <3>1 DEF CreatedNow
  <2> HIDE DEF created
  <2> QED BY <1>1, <2>2, <2>3, <2>4, <2>5, <2>6, <2>7 DEF Wrote
<1>3. CASE ~OpCreateChild(g)
  <2>1. PICK status \in {"applied", "deleted", "failed"} :
            Record(g, status, Target(g), run[g].created)
    BY <1>3 DEF OpApplied, OpDelete, OpFailsLate
  <2>2. \/ ChildMade(g) \/ NodeMade(g) \/ NodeWritten(g) \/ NodeMoved(g)
        \/ NodeDeleted(g)
    BY <1>3 DEF OpApplied, OpDelete, OpFailsLate
  <2>3. PICK source, node, parent : VerbWrote(g, source, node, parent)
    BY <1>1, <2>2, ChildMadeWrites, NodeMadeWrites, OtherWrites
  <2> QED BY <1>1, <2>1, <2>3, WroteOther
<1> QED BY <1>2, <1>3

\* Every step of a loop is one of three.
LEMMA LoopSteps ==
    ASSUME IInv, NEW g \in 1..MaxGroups, Loop(g)
    PROVE  Silent(g) \/ Wrote(g) \/ LoopEnd(g)
BY SilentSteps, WritingSteps DEF Loop, IInv, Phase

-----------------------------------------------------------------------------
(* What a step of the loop leaves alone.                                    *)

\* A recorded outcome, field by field.
LEMMA RecordedFields ==
    ASSUME TypeOK, NEW g \in 1..MaxGroups, OpDue(g), NEW o \in Outcome,
           NEW created \in [Temps -> Addr \cup {Nothing}],
           Recorded(g, o, created)
    PROVE  /\ run' \in [1..MaxGroups -> Run \cup {NoRun}]
           /\ \A h \in 1..MaxGroups : h # g => run'[h] = run[h]
           /\ run'[g] # NoRun /\ run'[g].st = "running" /\ run[g].st = "running"
           /\ run'[g].ops = run[g].ops /\ run'[g].created = created
           /\ run'[g].outcomes = Append(run[g].outcomes, o)
           /\ Len(run'[g].outcomes) = Len(run[g].outcomes) + 1
           /\ Len(run'[g].outcomes) <= Len(run[g].ops)
           /\ run'[g].outcomes[Len(run[g].outcomes) + 1] = o
           /\ \A i \in 1..Len(run[g].outcomes) :
                 run'[g].outcomes[i] = run[g].outcomes[i]
<1> DEFINE r == [st |-> "running", ops |-> run[g].ops,
                 outcomes |-> Append(run[g].outcomes, o), created |-> created]
<1>1. run[g].st = "running" /\ Len(run[g].outcomes) < Len(run[g].ops)
  BY DEF OpDue
<1>2. run[g] # NoRun
  BY <1>1 DEF NoRun
<1>3. /\ run[g].ops \in Seq(BulkOp) /\ run[g].outcomes \in Seq(Outcome)
      /\ Len(run[g].outcomes) \in Nat /\ Len(run[g].ops) \in Nat
  BY <1>2, RunFacts
<1>4. /\ Append(run[g].outcomes, o) \in Seq(Outcome)
      /\ Len(Append(run[g].outcomes, o)) = Len(run[g].outcomes) + 1
      /\ Append(run[g].outcomes, o)[Len(run[g].outcomes) + 1] = o
      /\ \A i \in 1..Len(run[g].outcomes) :
            Append(run[g].outcomes, o)[i] = run[g].outcomes[i]
  BY <1>3, AppendProperties
<1>5. r \in Run
  BY <1>3, <1>4 DEF Run
<1>6. run \in [1..MaxGroups -> Run \cup {NoRun}] /\ run' = [run EXCEPT ![g] = r]
  BY DEF TypeOK, Recorded
<1>7. r # NoRun
  BY DEF NoRun
<1>8. run'[g] = r /\ \A h \in 1..MaxGroups : h # g => run'[h] = run[h]
  BY <1>6
<1>9. run' \in [1..MaxGroups -> Run \cup {NoRun}]
  BY <1>5, <1>6
<1>10. /\ run'[g].st = "running" /\ run'[g].ops = run[g].ops
       /\ run'[g].outcomes = Append(run[g].outcomes, o) /\ run'[g].created = created
  BY <1>8
<1>11. run'[g] # NoRun
  BY <1>7, <1>8
<1>12. Len(run[g].outcomes) + 1 <= Len(run[g].ops)
  BY <1>1, <1>3
<1> HIDE DEF r
<1>13. /\ Len(run'[g].outcomes) = Len(run[g].outcomes) + 1
       /\ run'[g].outcomes[Len(run[g].outcomes) + 1] = o
       /\ \A i \in 1..Len(run[g].outcomes) : run'[g].outcomes[i] = run[g].outcomes[i]
  BY <1>4, <1>10
<1>14. Len(run'[g].outcomes) <= Len(run[g].ops)
  BY <1>12, <1>13
<1> QED BY <1>1, <1>8, <1>9, <1>10, <1>11, <1>13, <1>14

LEMMA LoopEndFields ==
    ASSUME TypeOK, NEW g \in 1..MaxGroups, LoopEnd(g)
    PROVE  /\ run' \in [1..MaxGroups -> Run \cup {NoRun}]
           /\ \A h \in 1..MaxGroups : h # g => run'[h] = run[h]
           /\ run[g] # NoRun /\ run[g].st = "running"
           /\ run'[g] # NoRun /\ run'[g].st = "ended"
           /\ run'[g].ops = run[g].ops /\ run'[g].created = run[g].created
           /\ run'[g].outcomes = run[g].outcomes
           /\ Len(run[g].outcomes) = Len(run[g].ops)
<1>1. /\ run[g].st = "running" /\ Len(run[g].outcomes) = Len(run[g].ops)
      /\ run' = [run EXCEPT ![g].st = "ended"]
  BY DEF LoopEnd
<1>2. run[g] # NoRun
  BY <1>1 DEF NoRun
<1>3. run[g] \in Run /\ run \in [1..MaxGroups -> Run \cup {NoRun}]
  BY <1>2, RunFacts DEF TypeOK
<1>4. PICK r \in Run : r = [run[g] EXCEPT !.st = "ended"]
  BY <1>3 DEF Run
<1>5. /\ r.st = "ended" /\ r.ops = run[g].ops /\ r.created = run[g].created
      /\ r.outcomes = run[g].outcomes
  BY <1>3, <1>4 DEF Run
<1>6. r # NoRun
  BY <1>5 DEF NoRun
<1>7. run' = [run EXCEPT ![g] = r]
  BY <1>1, <1>3, <1>4
<1>8. run'[g] = r /\ \A h \in 1..MaxGroups : h # g => run'[h] = run[h]
  BY <1>3, <1>7
<1>9. run' \in [1..MaxGroups -> Run \cup {NoRun}]
  BY <1>3, <1>4, <1>7
<1> QED BY <1>1, <1>2, <1>5, <1>6, <1>8, <1>9

\* The end of a process ends loops and changes nothing else of them.
LEMMA KilledFields ==
    ASSUME TypeOK, NEW a, NEW runs, runs = Killed(a)
    PROVE  /\ runs \in [1..MaxGroups -> Run \cup {NoRun}]
           /\ \A g \in 1..MaxGroups :
                 \/ runs[g] = run[g] /\ (run[g].st = "running" => Anchor(g) # a)
                 \/ /\ run[g] # NoRun /\ runs[g] # NoRun
                    /\ runs[g].st = "dead"
                    /\ run[g].st = "running" \/ (g = cur /\ host = "wait")
                    /\ runs[g].ops = run[g].ops
                    /\ runs[g].created = run[g].created
                    /\ runs[g].outcomes = run[g].outcomes
<1> DEFINE Hit(g) == run[g] # NoRun /\ Anchor(g) = a
                     /\ (run[g].st = "running" \/ (g = cur /\ host = "wait"))
           After(g) == IF Hit(g) THEN [run[g] EXCEPT !.st = "dead"] ELSE run[g]
<1>1. runs = [g \in 1..MaxGroups |-> After(g)]
  BY DEF Killed
<1>2. ASSUME NEW g \in 1..MaxGroups, Hit(g)
      PROVE  /\ After(g) \in Run /\ After(g) # NoRun /\ After(g).st = "dead"
             /\ After(g).ops = run[g].ops /\ After(g).created = run[g].created
             /\ After(g).outcomes = run[g].outcomes
  <2>1. run[g] \in Run
    BY <1>2, RunFacts
  <2>2. After(g) = [run[g] EXCEPT !.st = "dead"]
    BY <1>2
  <2>3. PICK r \in Run : r = [run[g] EXCEPT !.st = "dead"]
    BY <2>1 DEF Run
  <2>4. /\ r.st = "dead" /\ r.ops = run[g].ops /\ r.created = run[g].created
        /\ r.outcomes = run[g].outcomes
    BY <2>1, <2>3 DEF Run
  <2>5. r # NoRun
    BY <2>4 DEF NoRun
  <2> QED BY <2>2, <2>3, <2>4, <2>5
<1>3. \A g \in 1..MaxGroups : ~Hit(g) => After(g) = run[g]
  OBVIOUS
<1>4. \A g \in 1..MaxGroups : runs[g] = After(g)
  BY <1>1
<1>5. \A g \in 1..MaxGroups : After(g) \in Run \cup {NoRun}
  BY <1>2, <1>3 DEF TypeOK
<1>6. runs \in [1..MaxGroups -> Run \cup {NoRun}]
  BY <1>1, <1>5
<1>7. ASSUME NEW g \in 1..MaxGroups
      PROVE  \/ runs[g] = run[g] /\ (run[g].st = "running" => Anchor(g) # a)
             \/ /\ run[g] # NoRun /\ runs[g] # NoRun
                /\ runs[g].st = "dead"
                /\ run[g].st = "running" \/ (g = cur /\ host = "wait")
                /\ runs[g].ops = run[g].ops
                /\ runs[g].created = run[g].created
                /\ runs[g].outcomes = run[g].outcomes
  <2>1. CASE Hit(g)
    <3>1. run[g] # NoRun /\ (run[g].st = "running" \/ (g = cur /\ host = "wait"))
      BY <2>1
    <3> HIDE DEF After
    <3> QED BY <1>2, <1>4, <2>1, <3>1
  <2>2. CASE ~Hit(g)
    <3>1. runs[g] = run[g]
      BY <1>3, <1>4, <2>2
    <3>2. run[g].st = "running" => run[g] # NoRun
      BY DEF NoRun
    <3> QED BY <2>2, <3>1, <3>2
  <2> QED BY <2>1, <2>2
<1> QED BY <1>6, <1>7

\* A loop is as it was, or dead.
Ended(g, runs) ==
    /\ run[g] # NoRun /\ runs[g] # NoRun
    /\ runs[g].st = "dead" /\ run[g].st = "running"
    /\ runs[g].ops = run[g].ops
    /\ runs[g].created = run[g].created
    /\ runs[g].outcomes = run[g].outcomes

\* Before a group is dispatched, the loops behind a broken stream to its
\* plugin die with their process.
LEMMA ReapedFields ==
    ASSUME TypeOK, host = "dispatch", NEW runs, runs = Reaped
    PROVE  /\ runs \in [1..MaxGroups -> Run \cup {NoRun}]
           /\ \A g \in 1..MaxGroups : runs[g] = run[g] \/ Ended(g, runs)
           /\ \A g \in 1..MaxGroups :
                 runs[g].st = "running" /\ Anchor(g) = Anchor(cur)
                     => Anchor(cur) \notin broken
<1>1. CASE Anchor(cur) \in broken
  <2>1. runs = Killed(Anchor(cur))
    BY <1>1 DEF Reaped
  <2>2. /\ runs \in [1..MaxGroups -> Run \cup {NoRun}]
        /\ \A g \in 1..MaxGroups :
              \/ runs[g] = run[g] /\ (run[g].st = "running" => Anchor(g) # Anchor(cur))
              \/ /\ run[g] # NoRun /\ runs[g] # NoRun
                 /\ runs[g].st = "dead"
                 /\ run[g].st = "running" \/ (g = cur /\ host = "wait")
                 /\ runs[g].ops = run[g].ops
                 /\ runs[g].created = run[g].created
                 /\ runs[g].outcomes = run[g].outcomes
    BY <2>1, KilledFields
  <2>3. \A g \in 1..MaxGroups :
            \/ runs[g] = run[g] /\ (run[g].st = "running" => Anchor(g) # Anchor(cur))
            \/ Ended(g, runs)
    BY <2>2 DEF Ended
  <2> QED BY <2>2, <2>3 DEF Ended
<1>2. CASE Anchor(cur) \notin broken
  BY <1>2 DEF Reaped, TypeOK
<1> QED BY <1>1, <1>2

-----------------------------------------------------------------------------
(* Building the groups: no loop runs and nothing is written.                *)

Quiet ==
    /\ \A g \in 1..MaxGroups : run[g] = NoRun
    /\ effects = {} /\ \A a \in Anchors : unseen[a] = {}

\* What the invariant says of loops, writes and views, of which there are
\* none yet.
LoopPart ==
    /\ RunOps /\ LeftRunning /\ OutcomesTrue /\ EndedIsWhole /\ ViewsTrue
    /\ UnseenSound /\ WritesInTurn /\ CreatedSound /\ TempIdsHold

LEMMA QuietIsSound ==
    ASSUME Quiet, fresh > Existing, Len(views) = 0
    PROVE  LoopPart
<1>1. \A g \in 1..MaxGroups : run[g].st = "none"
  BY DEF Quiet, NoRun
<1>2. RunOps /\ LeftRunning /\ OutcomesTrue /\ EndedIsWhole
  BY <1>1 DEF Quiet, RunOps, LeftRunning, OutcomesTrue, EndedIsWhole
<1>3. ViewsTrue /\ UnseenSound /\ WritesInTurn
  BY DEF Quiet, ViewsTrue, UnseenSound, WritesInTurn
<1>4. CreatedSound /\ TempIdsHold
  BY DEF Quiet, CreatedSound, TempIdsHold
<1> QED BY <1>2, <1>3, <1>4 DEF LoopPart

LEMMA NoLoopIsQuiet ==
    ASSUME IInv, \A g \in 1..MaxGroups : run[g] = NoRun
    PROVE  Quiet
<1>1. TypeOK /\ OutcomesTrue /\ UnseenSound
  BY DEF IInv
<1>2. effects = {}
  BY <1>1 DEF OutcomesTrue, TypeOK, Effect
<1>3. \A a \in Anchors : unseen[a] = {}
  <2>1. \A a \in Anchors : \A e \in unseen[a] : e.g \in 1..MaxGroups
    BY <1>1 DEF TypeOK, Effect
  <2> QED BY <1>1, <2>1 DEF UnseenSound
<1> QED BY <1>2, <1>3 DEF Quiet

LEMMA InitHolds == Init => IInv
<1> SUFFICES ASSUME Init PROVE IInv
  OBVIOUS
<1>1. TypeOK
  <2>1. /\ <<>> \in Seq(Group) /\ Len(<<>>) = 0 /\ <<>> \in Seq(View)
    OBVIOUS
  <2>2. run \in [1..MaxGroups -> Run \cup {NoRun}]
        /\ \A g \in 1..MaxGroups : run[g] = NoRun
    BY DEF Init
  <2>3. at \in [Anchors -> [Addr -> Addr \cup {Nothing}]]
    BY DEF Init
  <2>4. fresh \in 1..(MaxAddr + 1) /\ cur \in 1..(MaxGroups + 1)
    BY Sizes DEF Init
  <2>5. Len(groups) <= MaxGroups
    BY <2>1, Sizes DEF Init
  <2>6. mishaps \in 0..MaxMishaps /\ broken \subseteq Wire
    BY Sizes DEF Init
  <2>7. effects \subseteq Effect /\ unseen \in [Anchors -> SUBSET Effect]
    BY DEF Init
  <2> QED BY <2>1, <2>2, <2>3, <2>4, <2>5, <2>6, <2>7 DEF Init, TypeOK
<1>2. Quiet /\ fresh > Existing /\ Len(views) = 0
  BY Sizes DEF Init, Quiet
<1>3. LoopPart
  BY <1>2, QuietIsSound
<1>4. DraftSound /\ GroupsSound /\ Phase
  <2>1. Len(groups) = 0 /\ Len(views) = 0
    BY DEF Init
  <2>2. \A g \in 1..Len(groups) : FALSE
    BY <2>1
  <2> QED BY <1>2, <2>1, <2>2
          DEF Init, DraftSound, GroupsSound, Phase, CallPhase, Dispatched, Quiet
<1> QED BY <1>1, <1>3, <1>4 DEF IInv, LoopPart

\* The ops a caller can ask for.
LEMMA OpsTyped ==
    ASSUME TypeOK, draft # NoDraft, NEW op \in Ops
    PROVE  op \in BulkOp /\ OpSound(op)
<1>1. draft \in Group /\ draft.ops \in Seq(BulkOp)
  BY DEF TypeOK, Group
<1>2. Defined \subseteq Temps
  <2>1. \A i \in 1..Len(draft.ops) : draft.ops[i] \in BulkOp
    BY <1>1
  <2> QED BY <2>1 DEF Defined, BulkOp, TempRef
<1>3. /\ 1..Existing \subseteq Addr /\ NoTemp \notin Temps /\ Root # Nothing
      /\ OpKinds \subseteq Kind
  BY Sizes
<1>4. CASE op \in {UriOp(k, u) : k \in Kind, u \in 1..Existing}
  <2>1. PICK k \in Kind, u \in 1..Existing : op = UriOp(k, u)
    BY <1>4
  <2> QED BY <1>3, <2>1 DEF UriOp, BulkOp, OpSound, TempRef
<1>5. CASE op \in {RefOp(k, t) : k \in Kind \ {"create"}, t \in Defined}
  <2>1. PICK k \in Kind \ {"create"}, t \in Defined : op = RefOp(k, t)
    BY <1>5
  <2>2. op = [kind |-> k, uri |-> Nothing, temp |-> NoTemp, in |-> Nothing,
              inRef |-> NoTemp, ref |-> t]
    BY <2>1 DEF RefOp, UriOp
  <2> QED BY <1>2, <2>2 DEF BulkOp, OpSound, TempRef
<1>6. CASE op \in {ChildOp(t, x, NoTemp) :
                      t \in Temps \ Defined, x \in (1..Existing) \cup {Root}}
  <2>1. PICK t \in Temps, x \in (1..Existing) \cup {Root} :
            op = ChildOp(t, x, NoTemp)
    BY <1>6
  <2>2. op = [kind |-> "create", uri |-> Nothing, temp |-> t, in |-> x,
              inRef |-> NoTemp, ref |-> NoTemp]
    BY <2>1 DEF ChildOp, UriOp
  <2> QED BY <1>3, <2>2 DEF BulkOp, OpSound, TempRef, Kind
<1>7. CASE op \in {ChildOp(t, Nothing, c) : t \in Temps \ Defined, c \in Defined}
  <2>1. PICK t \in Temps, c \in Defined : op = ChildOp(t, Nothing, c)
    BY <1>7
  <2>2. op = [kind |-> "create", uri |-> Nothing, temp |-> t, in |-> Nothing,
              inRef |-> c, ref |-> NoTemp]
    BY <2>1 DEF ChildOp, UriOp
  <2> QED BY <1>2, <1>3, <2>2 DEF BulkOp, OpSound, TempRef, Kind
<1>8. {UriOp(k, u) : k \in OpKinds, u \in 1..Existing}
        \subseteq {UriOp(k, u) : k \in Kind, u \in 1..Existing}
  BY <1>3
<1>9. {RefOp(k, t) : k \in OpKinds \ {"create"}, t \in Defined}
        \subseteq {RefOp(k, t) : k \in Kind \ {"create"}, t \in Defined}
  BY <1>3
<1> QED BY <1>4, <1>5, <1>6, <1>7, <1>8, <1>9 DEF Ops

LEMMA BuildKeeps ==
    ASSUME IInv, Build
    PROVE  IInv'
<1>1. TypeOK /\ DraftSound /\ GroupsSound /\ CallPhase /\ Dispatched /\ pc = "build"
  BY DEF IInv, Phase, Build, BuildGroup, BuildOp, BuildSweep, GroupBuilt,
         BuildRefuse, BuildDone
<1>2. UNCHANGED <<host, cur, views, cancelled, run, at, fresh, effects, unseen, broken, mishaps>>
  BY DEF Build, BuildGroup, BuildOp, BuildSweep, GroupBuilt, BuildRefuse,
         BuildDone, sourceVars
<1>3. Quiet /\ fresh > Existing /\ Len(views) = 0 /\ cur = 1 /\ host = "dispatch"
      /\ answer # "refused"
  <2>1. cur = 1 /\ host = "dispatch" /\ Len(views) = 0 /\ answer # "refused"
    BY <1>1 DEF CallPhase
  <2> QED BY <1>1, <2>1, NoLoopIsQuiet DEF CallPhase, IInv, CreatedSound
<1>4. LoopPart'
  <2>1. Quiet' /\ (fresh > Existing)' /\ (Len(views) = 0)'
    BY <1>2, <1>3 DEF Quiet
  <2> QED BY <2>1, QuietIsSound, PTL
<1>5. groups \in Seq(Group) /\ Len(groups) \in Nat /\ Len(groups) <= MaxGroups
  BY <1>1 DEF TypeOK
<1>6. ASSUME draft # NoDraft
      PROVE  /\ draft \in Group /\ draft.ops \in Seq(BulkOp) /\ draft.sweep \in BOOLEAN
             /\ Len(draft.ops) \in Nat
  BY <1>1, <1>6 DEF TypeOK, Group
\* It is enough to show what the draft and the groups become.
<1>7. SUFFICES /\ draft' \in Group \cup {NoDraft} /\ groups' \in Seq(Group)
               /\ Len(groups') <= MaxGroups /\ Len(groups') \in Nat
               /\ DraftSound' /\ GroupsSound'
               /\ pc' \in {"build", "apply", "done"}
               /\ answer' \in {"none", "refused", "error", "nothing", "body"}
               /\ pc' # "done" => answer' # "refused"
  <2>1. TypeOK'
    BY <1>1, <1>2, <1>7 DEF TypeOK
  <2>2. CallPhase'
    BY <1>2, <1>3, <1>7 DEF CallPhase, Quiet
  <2>3. Dispatched'
    BY <1>2, <1>3, <1>7 DEF Dispatched, Quiet
  <2> QED BY <1>4, <1>7, <2>1, <2>2, <2>3 DEF IInv, Phase, LoopPart
<1>8. ASSUME UNCHANGED groups PROVE GroupsSound'
  BY <1>1, <1>8 DEF GroupsSound, GroupSound, OpSound
<1>9. CASE \E a \in Anchors, atomic, sweep \in BOOLEAN : BuildGroup(a, atomic, sweep)
  <2>1. PICK a \in Anchors, atomic \in BOOLEAN, sweep \in BOOLEAN :
            BuildGroup(a, atomic, sweep)
    BY <1>9
  <2>2. PICK d \in Group :
            d = [anchor |-> a, atomic |-> atomic, sweep |-> sweep, ops |-> <<>>]
    <3>1. <<>> \in Seq(BulkOp)
      OBVIOUS
    <3> QED BY <3>1 DEF Group
  <2>3. draft' = d /\ d.ops = <<>> /\ UNCHANGED <<groups, pc, answer>>
    BY <2>1, <2>2 DEF BuildGroup
  <2>4. DraftSound'
    <3>1. \A i \in 1..Len(d.ops) : FALSE
      BY <2>3
    <3> QED BY <2>1, <2>3, <3>1 DEF DraftSound, BuildGroup
  <2> QED BY <1>1, <1>3, <1>5, <1>8, <2>3, <2>4 DEF TypeOK
<1>10. CASE draft # NoDraft /\ \E op \in Ops : BuildOp(op)
  <2>1. PICK op \in Ops : BuildOp(op)
    BY <1>10
  <2>2. op \in BulkOp /\ OpSound(op)
    BY <1>1, <1>10, OpsTyped
  <2>3. PICK d \in Group : d = [draft EXCEPT !.ops = Append(@, op)]
    <3>1. Append(draft.ops, op) \in Seq(BulkOp)
      BY <1>6, <1>10, <2>2
    <3> QED BY <1>6, <1>10, <3>1 DEF Group
  <2>4. d.ops = Append(draft.ops, op) /\ d.sweep = draft.sweep /\ ~draft.sweep
    BY <1>6, <1>10, <2>1, <2>3 DEF Group, BuildOp
  <2>5. draft' = d /\ UNCHANGED <<groups, pc, answer>>
    BY <2>1, <2>3 DEF BuildOp
  <2>6. \A i \in 1..Len(d.ops) : OpSound(d.ops[i])
    <3>1. \A i \in 1..Len(draft.ops) : OpSound(draft.ops[i])
      BY <1>1, <1>10, <2>4 DEF DraftSound
    <3>2. /\ Len(d.ops) = Len(draft.ops) + 1
          /\ d.ops[Len(draft.ops) + 1] = op
          /\ \A i \in 1..Len(draft.ops) : d.ops[i] = draft.ops[i]
      BY <1>6, <1>10, <2>2, <2>4, AppendProperties
    <3> QED BY <1>6, <1>10, <2>2, <3>1, <3>2
  <2>7. DraftSound'
    BY <1>1, <1>10, <2>5, <2>6 DEF DraftSound, OpSound
  <2> QED BY <1>1, <1>3, <1>5, <1>8, <2>5, <2>7 DEF TypeOK
<1>11. CASE \E kind \in Kind : BuildSweep(kind)
  <2>1. PICK kind \in Kind : BuildSweep(kind)
    BY <1>11
  <2>2. UriOp(kind, Nothing) \in BulkOp
    BY DEF UriOp, BulkOp, TempRef
  <2>3. draft # NoDraft /\ draft.sweep /\ UNCHANGED <<groups, pc, answer>>
    BY <2>1 DEF BuildSweep
  <2>4. PICK d \in Group : d = [draft EXCEPT !.ops = <<UriOp(kind, Nothing)>>]
    <3>1. <<UriOp(kind, Nothing)>> \in Seq(BulkOp)
      BY <2>2
    <3> QED BY <1>6, <2>3, <3>1 DEF Group
  <2>5. draft' = d /\ d.sweep = draft.sweep
    BY <1>6, <2>1, <2>3, <2>4 DEF BuildSweep, Group
  <2>6. DraftSound'
    BY <1>1, <2>3, <2>5 DEF DraftSound
  <2> QED BY <1>1, <1>3, <1>5, <1>8, <2>3, <2>5, <2>6 DEF TypeOK
<1>12. CASE GroupBuilt
  <2>1. /\ draft # NoDraft /\ Valid /\ groups' = Append(groups, draft)
        /\ draft' = NoDraft /\ UNCHANGED <<pc, answer>>
    BY <1>12 DEF GroupBuilt
  <2>2. GroupSound(draft)
    BY <1>1, <1>6, <2>1 DEF Valid, GroupSound, DraftSound
  <2>3. /\ groups' \in Seq(Group) /\ Len(groups') = Len(groups) + 1
        /\ groups'[Len(groups) + 1] = draft
        /\ \A g \in 1..Len(groups) : groups'[g] = groups[g]
    BY <1>5, <1>6, <2>1, AppendProperties
  <2>4. \A g \in 1..Len(groups') : GroupSound(groups'[g])
    BY <1>1, <1>5, <2>2, <2>3 DEF GroupsSound
  <2>5. GroupsSound'
    BY <2>4 DEF GroupsSound, GroupSound, OpSound
  <2>6. Len(groups') <= MaxGroups
    BY <1>1, <1>5, <2>1, <2>3, Sizes DEF DraftSound
  <2> QED BY <1>1, <1>3, <1>5, <2>1, <2>3, <2>5, <2>6 DEF TypeOK, DraftSound
<1>13. CASE BuildRefuse
  BY <1>1, <1>5, <1>8, <1>13 DEF BuildRefuse, DraftSound
<1>14. CASE BuildDone
  <2>1. DraftSound'
    BY <1>1, <1>14 DEF BuildDone, DraftSound, OpSound
  <2> QED BY <1>1, <1>3, <1>5, <1>8, <1>14, <2>1 DEF BuildDone, TypeOK
<1>15. (\E kind \in OpKinds : BuildSweep(kind)) => \E kind \in Kind : BuildSweep(kind)
  BY Sizes
<1> QED BY <1>9, <1>10, <1>11, <1>12, <1>13, <1>14, <1>15 DEF Build

-----------------------------------------------------------------------------
(* Temp ids, write by write.                                                *)

\* The writes of e's group before e that made node for the temp id t.
MadeBefore(e, t, node) ==
    \E f \in effects : /\ f.g = e.g /\ f.i < e.i
                       /\ run[f.g].ops[f.i].temp = t
                       /\ run[f.g].outcomes[f.i].status = "applied"
                       /\ f.node = node

TempsOf(e) ==
    /\ run[e.g].ops[e.i].ref # NoTemp
          => MadeBefore(e, run[e.g].ops[e.i].ref, e.node)
    /\ run[e.g].ops[e.i].inRef # NoTemp
          => MadeBefore(e, run[e.g].ops[e.i].inRef, e.parent)

LEMMA TempIdsHoldOf == TempIdsHold <=> \A e \in effects : TempsOf(e)
BY DEF TempIdsHold, TempsOf, MadeBefore

\* What a write was made for does not change while loops keep their ops and
\* the outcomes of their writes.
LEMMA TempsKept ==
    ASSUME effects \subseteq effects',
           \A e \in effects : /\ run'[e.g].ops = run[e.g].ops
                              /\ run'[e.g].outcomes[e.i] = run[e.g].outcomes[e.i],
           NEW e \in effects, TempsOf(e)
    PROVE  TempsOf(e)'
<1>1. \A t, node : MadeBefore(e, t, node) => MadeBefore(e, t, node)'
  BY DEF MadeBefore
<1> QED BY <1>1 DEF TempsOf

LEMMA TempIdsKept ==
    ASSUME TempIdsHold, effects' = effects,
           \A e \in effects : /\ run'[e.g].ops = run[e.g].ops
                              /\ run'[e.g].outcomes[e.i] = run[e.g].outcomes[e.i]
    PROVE  TempIdsHold'
<1>1. \A e \in effects : TempsOf(e)
  BY TempIdsHoldOf
<1>2. \A e \in effects : TempsOf(e)'
  BY <1>1, TempsKept
<1>3. (\A e \in effects : TempsOf(e))'
  BY <1>2
<1> QED BY <1>3, TempIdsHoldOf, PTL

-----------------------------------------------------------------------------
(* Applying the groups, one after the other.                                *)

\* The groups do not change any more.
LEMMA GroupsKept ==
    ASSUME DraftSound, GroupsSound, UNCHANGED <<groups, draft>>
    PROVE  DraftSound' /\ GroupsSound'
BY DEF DraftSound, GroupsSound, GroupSound, OpSound

\* An expanded op: a sweep's template for each match of its listing, or the
\* ops of the group.
LEMMA OpsOfTyped ==
    ASSUME TypeOK, NEW gr \in Group, GroupSound(gr), NEW ops \in OpsOf(gr)
    PROVE  ops \in Seq(BulkOp) /\ \A i \in 1..Len(ops) : OpSound(ops[i])
<1>1. CASE ~gr.sweep
  BY <1>1 DEF OpsOf, GroupSound, Group
<1>2. CASE gr.sweep
  <2> DEFINE nodes == {x \in Addr : at[gr.anchor][x] # Nothing}
             kind == gr.ops[1].kind
  <2>1. kind \in Kind \ {"create"}
    <3>1. gr.ops \in Seq(BulkOp) /\ Len(gr.ops) > 0 /\ kind # "create"
      BY <1>2 DEF Group, GroupSound
    <3>2. gr.ops[1] \in BulkOp
      BY <3>1
    <3> QED BY <3>1, <3>2 DEF BulkOp
  <2>2. PICK m \in SetToAllKPermutations(nodes) :
            ops = [i \in DOMAIN m |-> UriOp(kind, m[i])]
    BY <1>2 DEF OpsOf
  <2>3. PICK s \in SUBSET nodes : m \in SetToSeqs(s)
    BY <2>2 DEF SetToAllKPermutations
  <2>4. IsFiniteSet(s)
    <3>1. IsFiniteSet(Addr)
      <4>1. 1 \in Int /\ MaxAddr \in Int
        BY Sizes
      <4>2. IsFiniteSet(1..MaxAddr)
        BY <4>1, FS_Interval
      <4> QED BY <4>2 DEF Addr
    <3> QED BY <2>3, <3>1, FS_Subset
  <2>5. PICK n \in Nat : n = Cardinality(s)
    BY <2>4, FS_CardinalityType
  <2>6. m \in [1..n -> Addr]
    BY <2>3, <2>5 DEF SetToSeqs
  <2>7. \A x \in Addr : UriOp(kind, x) \in BulkOp /\ OpSound(UriOp(kind, x))
    BY <2>1 DEF UriOp, BulkOp, TempRef, OpSound
  <2>8. ops = [i \in 1..n |-> UriOp(kind, m[i])]
    BY <2>2, <2>6
  <2> HIDE DEF kind
  <2>9. ops \in [1..n -> BulkOp]
    BY <2>6, <2>7, <2>8
  <2>10. ops \in Seq(BulkOp) /\ Len(ops) = n
    BY <2>5, <2>9
  <2> QED BY <2>6, <2>7, <2>8, <2>10
<1> QED BY <1>1, <1>2

LEMMA DispatchKeeps ==
    ASSUME IInv, Dispatch
    PROVE  IInv'
<1>1. /\ TypeOK /\ DraftSound /\ GroupsSound /\ RunOps /\ CallPhase /\ Dispatched
      /\ LeftRunning /\ OutcomesTrue /\ EndedIsWhole /\ ViewsTrue
      /\ UnseenSound /\ WritesInTurn /\ CreatedSound /\ TempIdsHold
  BY DEF IInv, Phase
<1>2. /\ pc = "apply" /\ host = "dispatch" /\ cur <= Len(groups)
      /\ host' = "wait"
      /\ UNCHANGED <<groups, draft, pc, cur, views, answer, cancelled>>
      /\ UNCHANGED <<at, fresh, effects, unseen, mishaps>>
      /\ broken' = broken \ {Anchor(cur)}
  BY DEF Dispatch, ToDispatch, AllBuilt, sourceVars
<1>3. cur \in 1..Len(groups) /\ cur \in 1..MaxGroups /\ groups[cur] \in Group
  <2>1. cur \in 1..(MaxGroups + 1) /\ Len(groups) \in Nat
    BY <1>1, LenProperties DEF TypeOK
  <2>2. cur \in 1..Len(groups)
    BY <1>2, <2>1, Sizes
  <2> QED BY <1>1, <2>2, GroupFacts
<1>4. PICK ops \in OpsOf(groups[cur]) :
          run' = [Reaped EXCEPT ![cur] =
                     [st |-> "running", ops |-> ops, outcomes |-> <<>>,
                      created |-> [t \in Temps |-> Nothing]]]
  BY DEF Dispatch
<1>5. ops \in Seq(BulkOp) /\ \A i \in 1..Len(ops) : OpSound(ops[i])
  BY <1>1, <1>3, OpsOfTyped DEF GroupsSound
<1>6. PICK r \in Run : r = [st |-> "running", ops |-> ops, outcomes |-> <<>>,
                            created |-> [t \in Temps |-> Nothing]]
  <2>1. <<>> \in Seq(Outcome)
    OBVIOUS
  <2> QED BY <1>5, <2>1 DEF Run
<1>7. /\ r.st = "running" /\ r.ops = ops /\ r.outcomes = <<>>
      /\ \A t \in Temps : r.created[t] = Nothing
  BY <1>6
<1>8. r # NoRun
  BY <1>7 DEF NoRun
<1>9. PICK runs : runs = Reaped
  OBVIOUS
<1>10. /\ runs \in [1..MaxGroups -> Run \cup {NoRun}]
       /\ \A g \in 1..MaxGroups : runs[g] = run[g] \/ Ended(g, runs)
       /\ \A g \in 1..MaxGroups :
             runs[g].st = "running" /\ Anchor(g) = Anchor(cur)
                 => Anchor(cur) \notin broken
  BY <1>1, <1>2, <1>9, ReapedFields
<1>11. /\ run' \in [1..MaxGroups -> Run \cup {NoRun}]
       /\ run'[cur] = r /\ \A g \in 1..MaxGroups : g # cur => run'[g] = runs[g]
  <2>1. run' = [runs EXCEPT ![cur] = r]
    BY <1>4, <1>6, <1>9
  <2> QED BY <1>3, <1>10, <2>1
<1>12. run[cur] = NoRun /\ \A g \in 1..MaxGroups : run[g] # NoRun => g < cur
  BY <1>1, <1>2, <1>3 DEF Dispatched
<1>13. Len(r.outcomes) = 0 /\ Len(r.ops) \in Nat
  BY <1>5, <1>7
\* What became of the other loops.
<1>27. \A g \in 1..MaxGroups : g # cur =>
          /\ run'[g] = NoRun <=> run[g] = NoRun
          /\ run'[g].st = "running" =>
                /\ run'[g] = run[g] /\ run[g].st = "running"
                /\ Anchor(g) = Anchor(cur) => Anchor(cur) \notin broken
          /\ run'[g].st = "ended" \/ run[g].st = "ended" => run'[g] = run[g]
  BY <1>10, <1>11 DEF Ended
<1>28. \A g \in 1..MaxGroups : g # cur =>
          /\ run'[g].ops = run[g].ops /\ run'[g].outcomes = run[g].outcomes
          /\ run'[g].created = run[g].created
  BY <1>10, <1>11 DEF Ended
<1>14. TypeOK'
  <2>1. \A g \in 1..MaxGroups : run'[g] # NoRun =>
            Len(run'[g].outcomes) <= Len(run'[g].ops)
    BY <1>1, <1>11, <1>13, <1>27, <1>28 DEF TypeOK
  <2> QED BY <1>1, <1>2, <1>11, <2>1 DEF TypeOK
<1>15. DraftSound' /\ GroupsSound'
  BY <1>1, <1>2, GroupsKept
<1>16. RunOps'
  BY <1>1, <1>5, <1>7, <1>11, <1>27, <1>28 DEF RunOps, OpSound
<1>17. CallPhase' /\ Dispatched'
  <2>1. CallPhase'
    BY <1>1, <1>2, <1>3 DEF CallPhase
  <2>2. Dispatched'
    BY <1>1, <1>2, <1>3, <1>8, <1>11, <1>12, <1>27 DEF Dispatched
  <2> QED BY <2>1, <2>2
\* The new loop is the current group's, the call is not past it.
<1>18. LeftRunning'
  <2>1. SUFFICES ASSUME NEW g \in 1..MaxGroups, run'[g].st = "running", Past(g)'
                 PROVE  /\ Anchor(g) \in Wire /\ views[g].err
                        /\ cancelled \/ Anchor(g) \in broken \ {Anchor(cur)}
    BY <1>2 DEF LeftRunning, Anchor
  <2>2. g < cur
    BY <1>2, <2>1 DEF Past
  <2>3. run[g].st = "running" /\ Past(g)
        /\ (Anchor(g) = Anchor(cur) => Anchor(cur) \notin broken)
    BY <1>3, <1>27, <2>1, <2>2, Sizes DEF Past
  <2> QED BY <1>1, <2>1, <2>3 DEF LeftRunning
<1>19. \A e \in effects :
          /\ e.g \in 1..MaxGroups /\ e.g < cur /\ e.g # cur /\ run'[e.g] # NoRun
          /\ run'[e.g].outcomes = run[e.g].outcomes /\ run'[e.g].ops = run[e.g].ops
  <2>1. \A e \in effects : e.g \in 1..MaxGroups /\ run[e.g] # NoRun
    BY <1>1 DEF OutcomesTrue, TypeOK, Effect
  <2>2. \A e \in effects : e.g < cur /\ e.g # cur
    BY <1>3, <1>12, <2>1, Sizes
  <2> QED BY <1>27, <1>28, <2>1, <2>2
<1>20. OutcomesTrue'
  <2>1. \A i \in 1..Len(r.outcomes) : FALSE
    BY <1>13
  <2>2. \A g \in 1..MaxGroups : run'[g] # NoRun =>
          \A i \in 1..Len(run'[g].outcomes) :
              Agrees(run'[g].outcomes[i].status, Landed(g, i))
    BY <1>1, <1>11, <1>27, <1>28, <2>1 DEF OutcomesTrue
  <2> QED BY <1>1, <1>2, <1>19, <2>2 DEF OutcomesTrue, Landed
<1>21. EndedIsWhole'
  BY <1>1, <1>7, <1>11, <1>27 DEF EndedIsWhole
<1>22. ViewsTrue'
  <2>1. \A g \in 1..Len(views) : g \in 1..MaxGroups /\ g # cur
    <3>1. Len(views) = cur - 1
      BY <1>1, <1>2 DEF CallPhase
    <3> QED BY <1>3, <3>1, Sizes
  <2> QED BY <1>1, <1>2, <1>27, <2>1 DEF ViewsTrue
<1>23. UnseenSound'
  <2>1. \A a \in Anchors : \A e \in unseen[a] : e.g \in 1..MaxGroups
    BY <1>1 DEF TypeOK, Effect
  <2>2. \A a \in Anchors : \A e \in unseen[a] : e.g # cur /\ run'[e.g] # NoRun
    BY <1>1, <1>12, <1>27, <2>1 DEF UnseenSound
  <2>3. SUFFICES ASSUME NEW a \in Anchors, NEW e \in unseen[a]
                 PROVE  /\ Anchor(e.g) = a /\ e.g < cur /\ a \in Wire /\ views[e.g].err
                        /\ \/ cancelled \/ a \in broken \ {Anchor(cur)}
                           \/ Anchor(cur) = a
    BY <1>2, <2>2 DEF UnseenSound, Anchor
  <2> QED BY <1>1, <1>2, <2>2, <2>3 DEF UnseenSound
<1>24. WritesInTurn'
  <2>1. \A f \in effects : \A h \in 1..(f.g - 1) : h \in 1..MaxGroups /\ h # cur
    BY <1>3, <1>19, Sizes
  <2> QED BY <1>1, <1>2, <1>27, <2>1 DEF WritesInTurn, Anchor
<1>25. CreatedSound'
  <2>1. ASSUME NEW g \in 1..MaxGroups, run'[g] # NoRun,
               NEW t \in Temps, run'[g].created[t] # Nothing
        PROVE  /\ run[g] # NoRun /\ run'[g].created = run[g].created
               /\ run'[g].ops = run[g].ops /\ run'[g].outcomes = run[g].outcomes
    BY <1>7, <1>11, <1>27, <1>28, <2>1
  <2> QED BY <1>1, <1>2, <2>1 DEF CreatedSound, Anchor
<1>26. TempIdsHold'
  BY <1>1, <1>2, <1>19, TempIdsKept
<1> QED BY <1>14, <1>15, <1>16, <1>17, <1>18, <1>20, <1>21, <1>22, <1>23, <1>24,
           <1>25, <1>26 DEF IInv, Phase

\* The call's own steps: nothing is written, and no loop moves or comes to
\* life; some may die with their process.
KeptRun ==
    /\ run' \in [1..MaxGroups -> Run \cup {NoRun}]
    /\ \A g \in 1..MaxGroups : run'[g] = run[g] \/ Ended(g, run')

CallOnly ==
    /\ KeptRun
    /\ broken' \subseteq Wire /\ mishaps' \in 0..MaxMishaps
    /\ UNCHANGED <<groups, draft, at, fresh, effects>>

LEMMA KeptRunFields ==
    ASSUME KeptRun
    PROVE  \A g \in 1..MaxGroups :
              /\ run'[g] = NoRun <=> run[g] = NoRun
              /\ run'[g].ops = run[g].ops /\ run'[g].outcomes = run[g].outcomes
              /\ run'[g].created = run[g].created
              /\ run'[g].st = "running" => run[g].st = "running"
              /\ run'[g].st = "ended" <=> run[g].st = "ended"
BY DEF KeptRun, Ended

LEMMA CallOnlyKeeps ==
    ASSUME IInv, CallOnly
    PROVE  /\ DraftSound' /\ GroupsSound' /\ RunOps' /\ OutcomesTrue'
           /\ EndedIsWhole' /\ WritesInTurn' /\ CreatedSound' /\ TempIdsHold'
<1>1. DraftSound' /\ GroupsSound'
  BY GroupsKept DEF IInv, CallOnly
<1>2. \A g \in 1..MaxGroups :
         /\ run'[g] = NoRun <=> run[g] = NoRun
         /\ run'[g].ops = run[g].ops /\ run'[g].outcomes = run[g].outcomes
         /\ run'[g].created = run[g].created
         /\ run'[g].st = "running" => run[g].st = "running"
         /\ run'[g].st = "ended" <=> run[g].st = "ended"
  BY KeptRunFields DEF CallOnly
<1>3. \A e \in effects : e.g \in 1..MaxGroups
  BY DEF IInv, TypeOK, Effect
<1>4. RunOps' /\ EndedIsWhole'
  BY <1>2 DEF IInv, RunOps, OpSound, EndedIsWhole
<1>5. OutcomesTrue'
  <2>1. \A g, i : Landed(g, i)' <=> Landed(g, i)
    BY DEF CallOnly, Landed
  <2>2. \A e \in effects : run'[e.g] # NoRun /\ e.i <= Len(run'[e.g].outcomes)
    BY <1>2, <1>3 DEF IInv, OutcomesTrue
  <2>3. \A g \in 1..MaxGroups : run'[g] # NoRun =>
            \A i \in 1..Len(run'[g].outcomes) :
                Agrees(run'[g].outcomes[i].status, Landed(g, i))
    BY <1>2 DEF IInv, OutcomesTrue
  <2> QED BY <2>1, <2>2, <2>3 DEF OutcomesTrue, CallOnly, Agrees
<1>6. WritesInTurn'
  <2>1. \A f \in effects : \A h \in 1..(f.g - 1) : h \in 1..MaxGroups
    BY <1>3, Sizes
  <2> QED BY <1>2, <2>1 DEF IInv, WritesInTurn, CallOnly, Anchor
<1>7. CreatedSound'
  BY <1>2 DEF IInv, CreatedSound, CallOnly, Anchor
<1>8. TempIdsHold'
  BY <1>2, <1>3, TempIdsKept DEF IInv, CallOnly
<1> QED BY <1>1, <1>4, <1>5, <1>6, <1>7, <1>8

LEMMA CallOnlyTyped ==
    ASSUME TypeOK, CallOnly
    PROVE  /\ run' \in [1..MaxGroups -> Run \cup {NoRun}]
           /\ \A g \in 1..MaxGroups :
                 run'[g] # NoRun => Len(run'[g].outcomes) <= Len(run'[g].ops)
BY KeptRunFields DEF TypeOK, CallOnly, KeptRun

\* A loop whose outcomes the call has seen has ended.
LEMMA ViewsKept ==
    ASSUME TypeOK, CallPhase, ViewsTrue, CallOnly, views' = views
    PROVE  ViewsTrue'
<1>1. cur \in 1..(MaxGroups + 1) /\ Len(groups) \in Nat /\ Len(groups) <= MaxGroups
  BY LenProperties DEF TypeOK
<1>2. \A g \in 1..Len(views) : g \in 1..MaxGroups
  BY <1>1, Sizes DEF CallPhase
<1> QED BY <1>2, KeptRunFields DEF ViewsTrue, CallOnly

\* The view of the current group is written down, with the outcomes of a
\* loop that has ended or as an error; a loop that is still running is then
\* one that the call walks away from, cancelled or behind a broken stream.
LEMMA ReviewKeeps ==
    ASSUME IInv, CallOnly, pc = "apply", host \in {"dispatch", "wait"},
           cur <= Len(groups), host' = "forget",
           UNCHANGED <<pc, cur, answer, cancelled, unseen>>,
           NEW v \in View, views' = Append(views, v),
           v.err \/ (run[cur].st = "ended" /\ v.outcomes = run[cur].outcomes),
           run'[cur].st = "running" => /\ Anchor(cur) \in Wire /\ v.err
                                       /\ cancelled \/ Anchor(cur) \in broken',
           broken \ {Anchor(cur)} \subseteq broken',
           \A g \in 1..MaxGroups :
              run'[g].st = "running" /\ Anchor(g) = Anchor(cur)
                 => (Anchor(g) \in broken => Anchor(g) \in broken')
    PROVE  IInv'
<1>1. /\ TypeOK /\ CallPhase /\ Dispatched /\ LeftRunning /\ ViewsTrue /\ UnseenSound
  BY DEF IInv, Phase
<1>2. cur \in 1..(MaxGroups + 1) /\ Len(groups) \in Nat /\ views \in Seq(View)
      /\ Len(groups) <= MaxGroups
  BY <1>1, LenProperties DEF TypeOK
<1>3. cur \in 1..Len(groups) /\ cur \in 1..MaxGroups
  BY <1>2, Sizes
<1>4. Len(views) = cur - 1
  BY <1>1 DEF CallPhase
<1>5. /\ views' \in Seq(View) /\ Len(views') = cur /\ views'[cur] = v
      /\ \A g \in 1..(cur - 1) : views'[g] = views[g]
  BY <1>2, <1>3, <1>4, AppendProperties
<1>12. \A g \in 1..MaxGroups :
         /\ run'[g] = NoRun <=> run[g] = NoRun
         /\ run'[g].ops = run[g].ops /\ run'[g].outcomes = run[g].outcomes
         /\ run'[g].created = run[g].created
         /\ run'[g].st = "running" => run[g].st = "running"
         /\ run'[g].st = "ended" <=> run[g].st = "ended"
  BY KeptRunFields DEF CallOnly
<1>6. TypeOK'
  BY <1>1, <1>5, CallOnlyTyped DEF TypeOK, CallOnly
<1>7. CallPhase'
  BY <1>1, <1>3, <1>5, <1>12 DEF CallPhase, CallOnly
<1>8. Dispatched'
  BY <1>1, <1>12 DEF Dispatched, CallOnly
<1>9. LeftRunning'
  <2>1. SUFFICES ASSUME NEW g \in 1..MaxGroups, run'[g].st = "running", Past(g)'
                 PROVE  /\ Anchor(g) \in Wire /\ views'[g].err
                        /\ cancelled \/ Anchor(g) \in broken'
    BY DEF LeftRunning, Anchor, CallOnly
  <2>2. CASE g = cur
    BY <1>5, <2>1, <2>2
  <2>3. CASE g # cur
    <3>1. g < cur /\ g \in 1..(cur - 1)
      BY <1>3, <2>1, <2>3, Sizes DEF Past
    <3> QED BY <1>1, <1>5, <1>12, <2>1, <3>1 DEF LeftRunning, Past
  <2> QED BY <2>2, <2>3
<1>10. ViewsTrue'
  <2>1. \A g \in 1..(cur - 1) : ~views'[g].err =>
            run[g].st = "ended" /\ views'[g].outcomes = run[g].outcomes
    BY <1>1, <1>4, <1>5 DEF ViewsTrue
  <2>2. \A g \in 1..cur : (g = cur \/ g \in 1..(cur - 1)) /\ g \in 1..MaxGroups
    BY <1>3, Sizes
  <2> QED BY <1>5, <1>12, <2>1, <2>2 DEF ViewsTrue, CallOnly
<1>11. UnseenSound'
  <2>1. \A a \in Anchors : \A e \in unseen[a] :
            /\ e.g \in 1..MaxGroups /\ run'[e.g] # NoRun /\ Anchor(e.g) = a
            /\ e.g < cur => e.g \in 1..(cur - 1)
    BY <1>1, <1>3, <1>12, Sizes DEF TypeOK, Effect, UnseenSound
  <2>2. SUFFICES ASSUME NEW a \in Anchors, NEW e \in unseen[a], e.g # cur
                 PROVE  /\ e.g < cur /\ a \in Wire /\ views'[e.g].err
                        /\ cancelled \/ a \in broken' \/ Anchor(cur) = a
    BY <2>1 DEF UnseenSound, Anchor, CallOnly
  <2> QED BY <1>1, <1>5, <2>1, <2>2 DEF UnseenSound
<1> QED BY <1>6, <1>7, <1>8, <1>9, <1>10, <1>11, CallOnlyKeeps DEF IInv, Phase

LEMMA ReviewSteps ==
    ASSUME IInv, DispatchRefused \/ Result \/ ReplyLost
    PROVE  IInv'
<1>1. /\ host' = "forget"
      /\ UNCHANGED <<pc, cur, answer, cancelled, unseen, groups, draft, at, fresh,
                     effects, mishaps>>
  BY DEF DispatchRefused, Result, ReplyLost, sourceVars
<1>2. TypeOK /\ CallPhase /\ Dispatched
  BY DEF IInv, Phase
<1>8. mishaps \in 0..MaxMishaps /\ broken \subseteq Wire
  BY <1>2 DEF TypeOK
<1>9. ASSUME UNCHANGED <<run, broken>> PROVE CallOnly
  BY <1>1, <1>2, <1>8, <1>9 DEF CallOnly, KeptRun, TypeOK
<1>3. /\ pc = "apply" /\ host \in {"dispatch", "wait"} /\ cur <= Len(groups)
      /\ cur \in 1..MaxGroups
  <2>1. pc = "apply" /\ host \in {"dispatch", "wait"} /\ cur <= Len(groups)
    BY <1>2 DEF DispatchRefused, Result, ReplyLost, ToDispatch, AllBuilt, CallPhase
  <2>2. cur \in 1..(MaxGroups + 1) /\ Len(groups) \in Nat /\ Len(groups) <= MaxGroups
    BY <1>2, LenProperties DEF TypeOK
  <2> QED BY <2>1, <2>2, Sizes
<1>4. PICK none \in View : none = [err |-> TRUE, outcomes |-> <<>>]
  <2>1. <<>> \in Seq(Outcome)
    OBVIOUS
  <2> QED BY <2>1 DEF View
<1>5. CASE DispatchRefused
  <2>1. views' = Append(views, none)
    BY <1>4, <1>5 DEF DispatchRefused, Reviewed
  <2>2. run[cur] = NoRun /\ host = "dispatch"
    BY <1>2, <1>3, <1>5 DEF DispatchRefused, ToDispatch, Dispatched
  <2>3. /\ CallOnly /\ run'[cur].st # "running"
        /\ broken \ {Anchor(cur)} \subseteq broken'
        /\ \A g \in 1..MaxGroups :
              run'[g].st = "running" /\ Anchor(g) = Anchor(cur)
                 => (Anchor(g) \in broken => Anchor(g) \in broken')
    <3>1. CASE UNCHANGED <<run, broken>>
      BY <1>9, <2>2, <3>1 DEF NoRun
    <3>2. CASE run' = Reaped /\ broken' = broken \ {Anchor(cur)}
      <4>1. KeptRun /\ \A g \in 1..MaxGroups :
                run'[g].st = "running" /\ Anchor(g) = Anchor(cur)
                    => Anchor(cur) \notin broken
        BY <1>2, <2>2, <3>2, ReapedFields DEF KeptRun
      <4>2. run'[cur] = NoRun
        BY <1>3, <2>2, <4>1, KeptRunFields
      <4> QED BY <1>1, <1>8, <3>2, <4>1, <4>2 DEF CallOnly, NoRun
    <3> QED BY <1>5, <3>1, <3>2 DEF DispatchRefused
  <2> QED BY <1>1, <1>3, <1>4, <2>1, <2>3, ReviewKeeps
<1>6. CASE Result
  <2>1. run[cur].st = "ended" /\ views' = Reviewed(FALSE, run[cur].outcomes)
    BY <1>6 DEF Result
  <2>2. run[cur].outcomes \in Seq(Outcome)
    BY <1>2, <1>3, <2>1, RunFacts, NoRunHasNoLoop
  <2>3. PICK v \in View : v = [err |-> FALSE, outcomes |-> run[cur].outcomes]
    BY <2>2 DEF View
  <2>4. views' = Append(views, v) /\ v.outcomes = run[cur].outcomes
    BY <2>1, <2>3 DEF Reviewed
  <2>5. UNCHANGED <<run, broken>> /\ CallOnly
    BY <1>6, <1>9 DEF Result
  <2> QED BY <1>1, <1>3, <2>1, <2>4, <2>5, ReviewKeeps
<1>7. CASE ReplyLost
  <2>1. views' = Append(views, none) /\ none.err
    BY <1>4, <1>7 DEF ReplyLost, Reviewed
  <2>2. run[cur].st = "running" =>
            Anchor(cur) \in Wire /\ (cancelled \/ Anchor(cur) \in broken)
    BY <1>7 DEF ReplyLost
  <2>3. UNCHANGED <<run, broken>> /\ CallOnly
    BY <1>7, <1>9 DEF ReplyLost
  <2> QED BY <1>1, <1>3, <2>1, <2>2, <2>3, ReviewKeeps
<1> QED BY <1>5, <1>6, <1>7

LEMMA ForgetKeeps ==
    ASSUME IInv, Forget
    PROVE  IInv'
<1>1. /\ TypeOK /\ CallPhase /\ Dispatched /\ LeftRunning /\ ViewsTrue /\ UnseenSound
  BY DEF IInv, Phase
<1>2. /\ CallOnly /\ host = "forget" /\ host' = "dispatch" /\ cur' = cur + 1
      /\ unseen' = [unseen EXCEPT ![Anchor(cur)] = {}]
      /\ UNCHANGED <<pc, views, answer, cancelled, run, broken>>
  BY <1>1 DEF Forget, Forgotten, CallOnly, KeptRun, TypeOK
<1>3. cur \in 1..(MaxGroups + 1) /\ Len(groups) \in Nat /\ Len(groups) <= MaxGroups
  BY <1>1, LenProperties DEF TypeOK
<1>4. pc = "apply" /\ cur \in 1..Len(groups) /\ cur \in 1..MaxGroups
  BY <1>1, <1>2, <1>3, Sizes DEF CallPhase
<1>5. Anchor(cur) \in Anchors
  BY <1>1, <1>4, GroupFacts
<1>6. \A a \in Anchors : unseen'[a] = IF a = Anchor(cur) THEN {} ELSE unseen[a]
  BY <1>1, <1>2 DEF TypeOK
<1>7. TypeOK'
  <2>1. unseen' \in [Anchors -> SUBSET Effect]
    BY <1>1, <1>2 DEF TypeOK
  <2>2. cur' \in 1..(MaxGroups + 1)
    BY <1>2, <1>4, Sizes
  <2> QED BY <1>1, <1>2, <2>1, <2>2 DEF TypeOK, CallOnly
<1>8. CallPhase'
  BY <1>1, <1>2, <1>3, <1>4 DEF CallPhase, CallOnly
<1>9. Dispatched'
  BY <1>1, <1>2, <1>4, Sizes DEF Dispatched, CallOnly
<1>10. LeftRunning'
  <2>1. \A g \in 1..MaxGroups : Past(g)' => Past(g)
    BY <1>2, <1>4, Sizes DEF Past
  <2> QED BY <1>1, <1>2, <2>1 DEF LeftRunning, Anchor, CallOnly
<1>11. ViewsTrue'
  BY <1>1, <1>2 DEF ViewsTrue, CallOnly
<1>12. UnseenSound'
  <2>1. SUFFICES ASSUME NEW a \in Anchors, NEW e \in unseen'[a]
                 PROVE  /\ run[e.g] # NoRun /\ Anchor(e.g) = a
                        /\ e.g < cur + 1 /\ a \in Wire /\ views[e.g].err
                        /\ cancelled \/ a \in broken
    BY <1>2 DEF UnseenSound, Anchor, CallOnly
  <2>2. a # Anchor(cur) /\ e \in unseen[a]
    BY <1>6, <2>1
  <2>3. /\ run[e.g] # NoRun /\ Anchor(e.g) = a
        /\ e.g < cur /\ a \in Wire /\ views[e.g].err
        /\ cancelled \/ a \in broken
    BY <1>1, <2>1, <2>2 DEF UnseenSound
  <2>4. e.g \in 1..MaxGroups
    BY <1>1, <2>2 DEF TypeOK, Effect
  <2> QED BY <1>4, <2>3, <2>4, Sizes
<1> QED BY <1>2, <1>7, <1>8, <1>9, <1>10, <1>11, <1>12, CallOnlyKeeps DEF IInv, Phase

\* The call answers, its context is cancelled, or a stream breaks.
LEMMA EndKeeps ==
    ASSUME IInv, Answer \/ Cancel \/ (\E a \in Wire : StreamBreaks(a))
    PROVE  IInv'
<1>1. /\ TypeOK /\ CallPhase /\ Dispatched /\ LeftRunning /\ ViewsTrue /\ UnseenSound
  BY DEF IInv, Phase
<1>2. /\ CallOnly /\ UNCHANGED <<host, cur, views, unseen>>
      /\ \/ pc' = pc /\ answer' = answer
         \/ pc = "apply" /\ pc' = "done" /\ host = "dispatch" /\ answer' = Reply
      /\ cancelled => cancelled'
      /\ cancelled' \in BOOLEAN
      /\ broken \subseteq broken' /\ run' = run
  <2>1. mishaps \in 0..MaxMishaps /\ broken \subseteq Wire /\ cancelled \in BOOLEAN
    BY <1>1 DEF TypeOK
  <2>2. KeptRun
    BY <1>1 DEF Answer, Cancel, StreamBreaks, KeptRun, TypeOK
  <2>3. mishaps' \in 0..MaxMishaps
    BY <2>1, Sizes DEF Answer, Cancel, StreamBreaks
  <2>4. broken' \subseteq Wire /\ broken \subseteq broken'
    BY <2>1 DEF Answer, Cancel, StreamBreaks
  <2>5. CASE Answer
    BY <2>1, <2>2, <2>3, <2>4, <2>5 DEF Answer, CallOnly, sourceVars
  <2>6. CASE Cancel
    BY <2>1, <2>2, <2>3, <2>4, <2>6 DEF Cancel, CallOnly, sourceVars
  <2>7. CASE \E a \in Wire : StreamBreaks(a)
    <3>1. PICK a \in Wire : StreamBreaks(a)
      BY <2>7
    <3>2. /\ UNCHANGED <<groups, draft, pc, host, cur, views, answer, cancelled>>
          /\ UNCHANGED <<at, fresh, effects, unseen>> /\ run' = run
      BY <3>1 DEF StreamBreaks, sourceVars, hostVars
    <3>3. CallOnly
      BY <2>2, <2>3, <2>4, <3>2 DEF CallOnly
    <3>4. pc' = pc /\ answer' = answer /\ host' = host /\ cancelled' = cancelled
          /\ UNCHANGED <<cur, views, unseen>>
      BY <3>2
    <3> QED BY <2>1, <2>4, <3>2, <3>3, <3>4
  <2> QED BY <2>5, <2>6, <2>7
<1>3. answer' \in {"none", "refused", "error", "nothing", "body"}
      /\ (answer' = "refused" => answer = "refused" /\ pc' = pc)
  BY <1>1, <1>2 DEF CallPhase, Reply, TypeOK
<1>4. TypeOK'
  BY <1>1, <1>2, <1>3, CallOnlyTyped DEF TypeOK, CallOnly
<1>5. CallPhase' /\ Dispatched'
  <2>1. \A g \in 1..MaxGroups : run'[g] = NoRun <=> run[g] = NoRun
    BY <1>2 DEF CallOnly, KeptRun, Ended
  <2>2. CallPhase'
    BY <1>1, <1>2, <1>3, <2>1 DEF CallPhase, CallOnly
  <2>3. host = "wait" => cur \in 1..MaxGroups
    <3>1. cur \in 1..(MaxGroups + 1) /\ Len(groups) \in Nat /\ Len(groups) <= MaxGroups
      BY <1>1, LenProperties DEF TypeOK
    <3> QED BY <1>1, <3>1, Sizes DEF CallPhase
  <2>4. Dispatched'
    BY <1>1, <1>2, <2>1, <2>3 DEF Dispatched, CallOnly
  <2> QED BY <2>2, <2>4
<1>6. LeftRunning'
  <2>1. \A g \in 1..MaxGroups : run'[g].st = "running" => run[g].st = "running"
    BY <1>2 DEF CallOnly, KeptRun, Ended
  <2> QED BY <1>1, <1>2, <2>1 DEF LeftRunning, Anchor, CallOnly, Past
<1>7. ViewsTrue'
  BY <1>1, <1>2, ViewsKept
<1>8. UnseenSound'
  <2>1. \A a \in Anchors : \A e \in unseen[a] : e.g \in 1..MaxGroups
    BY <1>1 DEF TypeOK, Effect
  <2>2. \A g \in 1..MaxGroups : run'[g] = NoRun <=> run[g] = NoRun
    BY <1>2 DEF CallOnly, KeptRun, Ended
  <2> QED BY <1>1, <1>2, <2>1, <2>2 DEF UnseenSound, Anchor, CallOnly
<1> QED BY <1>2, <1>4, <1>5, <1>6, <1>7, <1>8, CallOnlyKeeps DEF IInv, Phase

-----------------------------------------------------------------------------
(* The loops, and the processes that run them.                              *)

\* A loop keeps its ops and the outcomes it recorded, does not come back to life, and one that ended and
\* that the call is past does not change.
LoopsKept ==
    /\ UNCHANGED <<hostVars, broken>>
    /\ \A g \in 1..MaxGroups :
          /\ run[g] = NoRun => run'[g] = NoRun
          /\ run[g] # NoRun => run'[g] # NoRun /\ run'[g].ops = run[g].ops
          /\ run'[g].st = "running" => run[g].st = "running"
          /\ (run[g].st = "ended" /\ Past(g)) => run'[g] = run[g]
          /\ run[g] # NoRun => \A i \in 1..Len(run[g].outcomes) :
                                   run'[g].outcomes[i] = run[g].outcomes[i]

LEMMA LoopsKeptKeeps ==
    ASSUME IInv, LoopsKept
    PROVE  /\ DraftSound' /\ GroupsSound' /\ RunOps' /\ CallPhase' /\ Dispatched'
           /\ LeftRunning' /\ ViewsTrue'
<1>1. /\ TypeOK /\ DraftSound /\ GroupsSound /\ RunOps /\ CallPhase /\ Dispatched
      /\ LeftRunning /\ ViewsTrue
  BY DEF IInv, Phase
<1>2. UNCHANGED <<groups, draft, pc, host, cur, views, answer, cancelled, broken>>
  BY DEF LoopsKept, hostVars
<1>3. DraftSound' /\ GroupsSound'
  BY <1>1, <1>2, GroupsKept
<1>4. RunOps'
  BY <1>1 DEF LoopsKept, RunOps, OpSound
<1>5. CallPhase'
  BY <1>1, <1>2 DEF LoopsKept, CallPhase
<1>6. Dispatched'
  <2>1. ASSUME host = "wait" PROVE cur \in 1..MaxGroups
    <3>1. cur \in 1..(MaxGroups + 1) /\ Len(groups) \in Nat /\ cur <= Len(groups)
          /\ Len(groups) <= MaxGroups
      BY <1>1, <2>1, LenProperties DEF TypeOK, CallPhase
    <3> QED BY <3>1, Sizes
  <2> QED BY <1>1, <1>2, <2>1 DEF LoopsKept, Dispatched
<1>7. LeftRunning'
  BY <1>1, <1>2 DEF LoopsKept, LeftRunning, Past, Anchor
<1>8. \A g \in 1..Len(views) : g \in 1..MaxGroups /\ Past(g)
  <2>1. cur \in 1..(MaxGroups + 1) /\ Len(groups) \in Nat /\ Len(groups) <= MaxGroups
    BY <1>1, LenProperties DEF TypeOK
  <2>2. CASE host = "forget"
    BY <1>1, <2>1, <2>2, Sizes DEF CallPhase, Past
  <2>3. CASE host # "forget"
    BY <1>1, <2>1, <2>3, Sizes DEF CallPhase, Past
  <2> QED BY <2>2, <2>3
<1>9. ViewsTrue'
  BY <1>1, <1>2, <1>8 DEF LoopsKept, ViewsTrue
<1> QED BY <1>3, <1>4, <1>5, <1>6, <1>7, <1>9

\* A step of a loop that writes nothing.
NothingWritten ==
    /\ UNCHANGED <<at, fresh, effects, unseen>>
    /\ \A g \in 1..MaxGroups : run[g] # NoRun => run'[g].created = run[g].created

LEMMA NothingWrittenKeeps ==
    ASSUME IInv, LoopsKept, NothingWritten
    PROVE  UnseenSound' /\ WritesInTurn' /\ CreatedSound' /\ TempIdsHold'
<1>1. TypeOK /\ UnseenSound /\ WritesInTurn /\ CreatedSound /\ TempIdsHold
      /\ OutcomesTrue
  BY DEF IInv
<1>2. UNCHANGED <<groups, draft, pc, host, cur, views, answer, cancelled, broken>>
  BY DEF LoopsKept, hostVars
<1>3. \A e \in effects : e.g \in 1..MaxGroups /\ run[e.g] # NoRun
  BY <1>1 DEF TypeOK, Effect, OutcomesTrue
<1>8. \A e \in effects : e.i \in 1..Len(run[e.g].outcomes)
  <2>1. \A e \in effects : /\ e.i \in Nat \ {0} /\ e.i <= Len(run[e.g].outcomes)
                           /\ Len(run[e.g].outcomes) \in Nat
    BY <1>1, <1>3, RunFacts DEF TypeOK, Effect, OutcomesTrue
  <2> QED BY <2>1
<1>4. UnseenSound'
  <2>1. \A a \in Anchors : \A e \in unseen[a] : e.g \in 1..MaxGroups
    BY <1>1 DEF TypeOK, Effect
  <2> QED BY <1>1, <1>2, <2>1 DEF UnseenSound, LoopsKept, NothingWritten, Anchor
<1>5. WritesInTurn'
  <2>1. \A f \in effects : \A h \in 1..(f.g - 1) : h \in 1..MaxGroups
    BY <1>3, Sizes
  <2> QED BY <1>1, <1>2, <2>1 DEF WritesInTurn, LoopsKept, NothingWritten, Anchor
<1>6. CreatedSound'
  <2>1. \A g \in 1..MaxGroups : run'[g] # NoRun =>
            /\ run[g] # NoRun /\ run'[g].created = run[g].created
            /\ run'[g].ops = run[g].ops
    BY DEF LoopsKept, NothingWritten
  <2>2. \A f \in effects : run'[f.g].outcomes[f.i] = run[f.g].outcomes[f.i]
    BY <1>3, <1>8 DEF LoopsKept
  <2> QED BY <1>1, <1>2, <2>1, <2>2 DEF CreatedSound, NothingWritten, Anchor
<1>7. TempIdsHold'
  <2>1. \A e \in effects : /\ run'[e.g].ops = run[e.g].ops
                           /\ run'[e.g].outcomes[e.i] = run[e.g].outcomes[e.i]
    BY <1>3, <1>8 DEF LoopsKept
  <2>2. effects' = effects
    BY DEF NothingWritten
  <2> QED BY <1>1, <2>1, <2>2, TempIdsKept
<1> QED BY <1>4, <1>5, <1>6, <1>7

LEMMA SilentKeeps ==
    ASSUME IInv, NEW g \in 1..MaxGroups, Silent(g)
    PROVE  IInv'
<1>1. TypeOK /\ OutcomesTrue /\ EndedIsWhole /\ Dispatched
  BY DEF IInv, Phase
<1>2. OpDue(g) /\ UNCHANGED <<hostVars, sourceVars, broken, mishaps>>
  BY DEF Silent
<1>3. PICK o \in Outcome : /\ o.status \notin {"applied", "deleted"}
                           /\ Recorded(g, o, run[g].created)
  BY DEF Silent
<1>4. PICK n \in Nat : n = Len(run[g].outcomes)
  BY <1>1, <1>2, OpFacts, RunFacts
<1>5. run[g].created \in [Temps -> Addr \cup {Nothing}] /\ run[g] # NoRun
  BY <1>1, <1>2, OpFacts, RunFacts
<1>6. /\ run' \in [1..MaxGroups -> Run \cup {NoRun}]
      /\ \A h \in 1..MaxGroups : h # g => run'[h] = run[h]
      /\ run'[g] # NoRun /\ run'[g].st = "running" /\ run[g].st = "running"
      /\ run'[g].ops = run[g].ops /\ run'[g].created = run[g].created
      /\ Len(run'[g].outcomes) = n + 1
      /\ Len(run'[g].outcomes) <= Len(run[g].ops)
      /\ run'[g].outcomes[n + 1] = o
      /\ \A i \in 1..n : run'[g].outcomes[i] = run[g].outcomes[i]
  BY <1>1, <1>2, <1>3, <1>4, <1>5, RecordedFields
<1>7. LoopsKept /\ NothingWritten
  BY <1>2, <1>4, <1>5, <1>6 DEF LoopsKept, NothingWritten, sourceVars
<1>8. TypeOK'
  <2>1. \A h \in 1..MaxGroups : run'[h] # NoRun =>
            Len(run'[h].outcomes) <= Len(run'[h].ops)
    BY <1>1, <1>6 DEF TypeOK
  <2> QED BY <1>1, <1>2, <1>6, <2>1 DEF TypeOK, hostVars, sourceVars
<1>9. OutcomesTrue'
  <2>0. effects' = effects
    BY <1>2 DEF sourceVars
  <2>1. \A e \in effects : run'[e.g] # NoRun /\ e.i <= Len(run'[e.g].outcomes)
    <3>1. \A e \in effects : /\ e.g \in 1..MaxGroups /\ e.i \in Nat
                             /\ run[e.g] # NoRun /\ e.i <= Len(run[e.g].outcomes)
      BY <1>1 DEF TypeOK, Effect, OutcomesTrue
    <3> QED BY <1>4, <1>6, <3>1
  <2>2. ASSUME NEW i \in 1..(n + 1)
        PROVE  Agrees(run'[g].outcomes[i].status, Landed(g, i))
    <3>1. CASE i \in 1..n
      BY <1>1, <1>4, <1>5, <1>6, <3>1 DEF OutcomesTrue
    <3>2. CASE i = n + 1
      <4>1. \A e \in effects : e.g = g => e.i \in Nat /\ e.i <= n
        BY <1>1, <1>4 DEF OutcomesTrue, TypeOK, Effect
      <4>2. \A e \in effects : e.g = g => e.i # n + 1
        BY <4>1
      <4> QED BY <1>3, <1>6, <3>2, <4>2 DEF Agrees, Landed
    <3> QED BY <3>1, <3>2
  <2>3. \A h \in 1..MaxGroups : run'[h] # NoRun =>
          \A i \in 1..Len(run'[h].outcomes) :
              Agrees(run'[h].outcomes[i].status, Landed(h, i))
    BY <1>1, <1>6, <2>2 DEF OutcomesTrue
  <2> QED BY <2>0, <2>1, <2>3 DEF OutcomesTrue, Landed
<1>10. EndedIsWhole'
  BY <1>1, <1>6 DEF EndedIsWhole
<1> QED BY <1>7, <1>8, <1>9, <1>10, LoopsKeptKeeps, NothingWrittenKeeps DEF IInv, Phase

LEMMA LoopEndKeeps ==
    ASSUME IInv, NEW g \in 1..MaxGroups, LoopEnd(g)
    PROVE  IInv'
<1>1. TypeOK /\ OutcomesTrue /\ EndedIsWhole
  BY DEF IInv
<1>2. UNCHANGED <<hostVars, sourceVars, broken, mishaps>>
  BY DEF LoopEnd
<1>3. /\ run' \in [1..MaxGroups -> Run \cup {NoRun}]
      /\ \A h \in 1..MaxGroups : h # g => run'[h] = run[h]
      /\ run[g] # NoRun /\ run[g].st = "running"
      /\ run'[g] # NoRun /\ run'[g].st = "ended"
      /\ run'[g].ops = run[g].ops /\ run'[g].created = run[g].created
      /\ run'[g].outcomes = run[g].outcomes
      /\ Len(run[g].outcomes) = Len(run[g].ops)
  BY <1>1, LoopEndFields
<1>4. LoopsKept /\ NothingWritten
  BY <1>2, <1>3 DEF LoopsKept, NothingWritten, sourceVars
<1>5. TypeOK'
  <2>1. \A h \in 1..MaxGroups : run'[h] # NoRun =>
            Len(run'[h].outcomes) <= Len(run'[h].ops)
    BY <1>1, <1>3 DEF TypeOK
  <2> QED BY <1>1, <1>2, <1>3, <2>1 DEF TypeOK, hostVars, sourceVars
<1>6. OutcomesTrue'
  <2>1. \A e \in effects : e.g \in 1..MaxGroups
    BY <1>1 DEF TypeOK, Effect
  <2>2. \A h \in 1..MaxGroups :
            /\ run'[h].outcomes = run[h].outcomes
            /\ run'[h] = NoRun <=> run[h] = NoRun
    BY <1>3
  <2>3. \A h, i : Landed(h, i)' <=> Landed(h, i)
    BY <1>2 DEF Landed, sourceVars
  <2>4. \A e \in effects : run'[e.g] # NoRun /\ e.i <= Len(run'[e.g].outcomes)
    BY <1>1, <2>1, <2>2 DEF OutcomesTrue
  <2>5. \A h \in 1..MaxGroups : run'[h] # NoRun =>
            \A i \in 1..Len(run'[h].outcomes) :
                Agrees(run'[h].outcomes[i].status, Landed(h, i))
    BY <1>1, <2>2 DEF OutcomesTrue
  <2> QED BY <1>2, <2>3, <2>4, <2>5 DEF OutcomesTrue, Agrees, sourceVars
<1>7. EndedIsWhole'
  BY <1>1, <1>3 DEF EndedIsWhole
<1> QED BY <1>4, <1>5, <1>6, <1>7, LoopsKeptKeeps, NothingWrittenKeeps DEF IInv, Phase

LEMMA CrashKeeps ==
    ASSUME IInv, NEW a \in Wire, PluginCrash(a)
    PROVE  IInv'
<1>1. TypeOK /\ OutcomesTrue /\ EndedIsWhole
  BY DEF IInv
<1>2. /\ UNCHANGED <<hostVars, sourceVars, broken>> /\ mishaps' = mishaps + 1
      /\ mishaps < MaxMishaps /\ run' = Killed(a)
  BY DEF PluginCrash
<1>3. run' \in [1..MaxGroups -> Run \cup {NoRun}]
  BY <1>1, <1>2, KilledFields
<1>4. \A g \in 1..MaxGroups :
          \/ run'[g] = run[g]
          \/ /\ run[g] # NoRun /\ run'[g] # NoRun
             /\ run'[g].st = "dead"
             /\ run[g].st = "running" \/ (g = cur /\ host = "wait")
             /\ run'[g].ops = run[g].ops
             /\ run'[g].created = run[g].created
             /\ run'[g].outcomes = run[g].outcomes
  BY <1>1, <1>2, KilledFields
<1>5. LoopsKept /\ NothingWritten
  <2>1. \A g \in 1..MaxGroups : (g = cur /\ host = "wait") => ~Past(g)
    BY <1>1, Sizes DEF Past, TypeOK
  <2>2. LoopsKept
    BY <1>2, <1>4, <2>1 DEF LoopsKept
  <2>3. NothingWritten
    BY <1>2, <1>4 DEF NothingWritten, sourceVars
  <2> QED BY <2>2, <2>3
<1>6. \A h \in 1..MaxGroups :
          /\ run'[h].outcomes = run[h].outcomes /\ run'[h].ops = run[h].ops
          /\ run'[h] = NoRun <=> run[h] = NoRun
  BY <1>4
<1>7. TypeOK'
  <2>1. \A h \in 1..MaxGroups : run'[h] # NoRun =>
            Len(run'[h].outcomes) <= Len(run'[h].ops)
    BY <1>1, <1>6 DEF TypeOK
  <2>2. mishaps' \in 0..MaxMishaps
    BY <1>1, <1>2, Sizes DEF TypeOK
  <2> QED BY <1>1, <1>2, <1>3, <2>1, <2>2 DEF TypeOK, hostVars, sourceVars
<1>8. OutcomesTrue'
  <2>1. \A e \in effects : e.g \in 1..MaxGroups
    BY <1>1 DEF TypeOK, Effect
  <2>3. \A h, i : Landed(h, i)' <=> Landed(h, i)
    BY <1>2 DEF Landed, sourceVars
  <2>4. \A e \in effects : run'[e.g] # NoRun /\ e.i <= Len(run'[e.g].outcomes)
    BY <1>1, <2>1, <1>6 DEF OutcomesTrue
  <2>5. \A h \in 1..MaxGroups : run'[h] # NoRun =>
            \A i \in 1..Len(run'[h].outcomes) :
                Agrees(run'[h].outcomes[i].status, Landed(h, i))
    BY <1>1, <1>6 DEF OutcomesTrue
  <2> QED BY <1>2, <2>3, <2>4, <2>5 DEF OutcomesTrue, Agrees, sourceVars
<1>9. EndedIsWhole'
  BY <1>1, <1>4 DEF EndedIsWhole
<1> QED BY <1>5, <1>7, <1>8, <1>9, LoopsKeptKeeps, NothingWrittenKeeps DEF IInv, Phase

LEMMA WroteKeeps ==
    ASSUME IInv, NEW g \in 1..MaxGroups, Wrote(g)
    PROVE  IInv'
<1>1. /\ TypeOK /\ Dispatched /\ LeftRunning /\ OutcomesTrue /\ EndedIsWhole
      /\ UnseenSound /\ WritesInTurn /\ CreatedSound /\ TempIdsHold
  BY DEF IInv, Phase
<1>2. /\ OpDue(g) /\ UNCHANGED <<hostVars, broken, mishaps>>
      /\ fresh \in Nat
  BY <1>1 DEF Wrote, TypeOK
<1>24. PICK o \in Outcome, created \in [Temps -> Addr \cup {Nothing}] :
          \E source, node, parent :
              /\ o.status \in {"applied", "deleted", "failed"}
              /\ Recorded(g, o, created)
              /\ VerbWrote(g, source, node, parent)
              /\ CreatedNow(g, o.status, source, created, node)
  BY DEF Wrote
<1>25. PICK source, node, parent :
          /\ o.status \in {"applied", "deleted", "failed"}
          /\ Recorded(g, o, created)
          /\ VerbWrote(g, source, node, parent)
          /\ CreatedNow(g, o.status, source, created, node)
  BY <1>24
<1>3. /\ o.status \in {"applied", "deleted", "failed"}
      /\ source \in [Addr -> Addr \cup {Nothing}] /\ node \in Addr
      /\ parent \in Addr \cup {Nothing, Root}
      /\ Recorded(g, o, created)
      /\ Write(g, source, node, parent)
      /\ SourceKept(g, source)
      /\ CreatedNow(g, o.status, source, created, node)
      /\ TempNode(g, Op(g).ref, node) /\ TempNode(g, Op(g).inRef, parent)
      /\ fresh' \in {fresh, fresh + 1} /\ fresh' \in 1..(MaxAddr + 1)
  BY <1>25 DEF VerbWrote
<1>4. PICK n \in Nat : n = Len(run[g].outcomes)
  BY <1>1, <1>2, OpFacts, RunFacts
<1>5. /\ run[g] # NoRun /\ Anchor(g) \in Anchors /\ I(g) = n + 1
      /\ Op(g) = run[g].ops[n + 1] /\ run[g].st = "running" /\ Turn(g)
  BY <1>1, <1>2, <1>4, OpFacts DEF OpDue
<1>6. /\ run' \in [1..MaxGroups -> Run \cup {NoRun}]
      /\ \A h \in 1..MaxGroups : h # g => run'[h] = run[h]
      /\ run'[g] # NoRun /\ run'[g].st = "running"
      /\ run'[g].ops = run[g].ops /\ run'[g].created = created
      /\ Len(run'[g].outcomes) = n + 1
      /\ Len(run'[g].outcomes) <= Len(run[g].ops)
      /\ run'[g].outcomes[n + 1] = o
      /\ \A i \in 1..n : run'[g].outcomes[i] = run[g].outcomes[i]
  BY <1>1, <1>2, <1>3, <1>4, RecordedFields
<1>7. PICK w \in Effect : w = [g |-> g, i |-> n + 1, node |-> node, parent |-> parent]
  <2>1. n + 1 \in Nat \ {0}
    OBVIOUS
  <2> QED BY <1>3, <2>1 DEF Effect
<1>8. w.g = g /\ w.i = n + 1 /\ w.node = node /\ w.parent = parent
  BY <1>7
<1>9. /\ at' = [at EXCEPT ![Anchor(g)] = source]
      /\ effects' = effects \cup {w}
      /\ unseen' = [unseen EXCEPT ![Anchor(g)] = @ \cup {w}]
  BY <1>3, <1>5, <1>7 DEF Write
<1>10. UNCHANGED <<groups, draft, pc, host, cur, views, answer, cancelled>>
  BY <1>2 DEF hostVars
<1>11. LoopsKept
  BY <1>2, <1>4, <1>5, <1>6 DEF LoopsKept
<1>12. \A e \in effects : /\ e.g \in 1..MaxGroups /\ e.i \in Nat
                          /\ run[e.g] # NoRun /\ e.i <= Len(run[e.g].outcomes)
                          /\ run'[e.g].ops = run[e.g].ops
  <2>1. \A e \in effects : /\ e.g \in 1..MaxGroups /\ e.i \in Nat
                           /\ run[e.g] # NoRun /\ e.i <= Len(run[e.g].outcomes)
    BY <1>1 DEF TypeOK, Effect, OutcomesTrue
  <2> QED BY <1>6, <2>1
<1>13. \A e \in effects : e.g = g => e.i <= n
  BY <1>4, <1>12
<1>26. \A e \in effects : run'[e.g].outcomes[e.i] = run[e.g].outcomes[e.i]
  <2>1. \A e \in effects : e.i \in Nat \ {0}
    BY <1>1 DEF TypeOK, Effect
  <2>2. \A e \in effects : e.g = g => e.i \in 1..n
    BY <1>13, <2>1
  <2> QED BY <1>6, <1>12, <2>2
<1>14. TypeOK'
  <2>1. \A h \in 1..MaxGroups : run'[h] # NoRun =>
            Len(run'[h].outcomes) <= Len(run'[h].ops)
    BY <1>1, <1>6 DEF TypeOK
  <2>2. at' \in [Anchors -> [Addr -> Addr \cup {Nothing}]]
    BY <1>1, <1>3, <1>9 DEF TypeOK
  <2>3. effects' \subseteq Effect /\ unseen' \in [Anchors -> SUBSET Effect]
    BY <1>1, <1>7, <1>9 DEF TypeOK
  <2> QED BY <1>1, <1>2, <1>3, <1>6, <1>10, <2>1, <2>2, <2>3 DEF TypeOK
<1>15. OutcomesTrue'
  <2>1. \A e \in effects' : run'[e.g] # NoRun /\ e.i <= Len(run'[e.g].outcomes)
    <3>1. ASSUME NEW e \in effects
          PROVE  run'[e.g] # NoRun /\ e.i <= Len(run'[e.g].outcomes)
      <4>1. CASE e.g = g
        BY <1>4, <1>6, <1>12, <1>13, <4>1
      <4>2. CASE e.g # g
        BY <1>6, <1>12, <4>2
      <4> QED BY <4>1, <4>2
    <3>2. run'[w.g] # NoRun /\ w.i <= Len(run'[w.g].outcomes)
      BY <1>6, <1>8
    <3> QED BY <1>9, <3>1, <3>2
  <2>2. ASSUME NEW i \in 1..(n + 1)
        PROVE  Agrees(run'[g].outcomes[i].status, Landed(g, i)')
    <3>1. CASE i \in 1..n
      <4>1. Landed(g, i)' <=> Landed(g, i)
        BY <1>8, <1>9, <3>1 DEF Landed
      <4>2. Agrees(run[g].outcomes[i].status, Landed(g, i))
        BY <1>1, <1>4, <1>5, <3>1 DEF OutcomesTrue
      <4> QED BY <1>6, <3>1, <4>1, <4>2 DEF Agrees
    <3>2. CASE i = n + 1
      <4>1. Landed(g, i)'
        BY <1>8, <1>9, <3>2 DEF Landed
      <4> QED BY <1>3, <1>6, <3>2, <4>1 DEF Agrees
    <3> QED BY <3>1, <3>2
  <2>3. ASSUME NEW h \in 1..MaxGroups, h # g, run'[h] # NoRun,
               NEW i \in 1..Len(run'[h].outcomes)
        PROVE  Agrees(run'[h].outcomes[i].status, Landed(h, i)')
    <3>1. Landed(h, i)' <=> Landed(h, i)
      BY <1>8, <1>9, <2>3 DEF Landed
    <3>2. run'[h] = run[h]
      BY <1>6, <2>3
    <3>3. Agrees(run[h].outcomes[i].status, Landed(h, i))
      BY <1>1, <2>3, <3>2 DEF OutcomesTrue
    <3> QED BY <3>1, <3>2, <3>3 DEF Agrees
  <2>4. \A h \in 1..MaxGroups : run'[h] # NoRun =>
          \A i \in 1..Len(run'[h].outcomes) :
              Agrees(run'[h].outcomes[i].status, Landed(h, i)')
    <3>1. SUFFICES ASSUME NEW h \in 1..MaxGroups, run'[h] # NoRun,
                          NEW i \in 1..Len(run'[h].outcomes)
                   PROVE  Agrees(run'[h].outcomes[i].status, Landed(h, i)')
      OBVIOUS
    <3>2. CASE h = g
      <4>1. i \in 1..(n + 1)
        BY <1>6, <3>1, <3>2
      <4> QED BY <2>2, <3>2, <4>1
    <3>3. CASE h # g
      BY <2>3, <3>1, <3>3
    <3> QED BY <3>2, <3>3
  <2> QED BY <2>1, <2>4 DEF OutcomesTrue
<1>16. EndedIsWhole'
  BY <1>1, <1>6 DEF EndedIsWhole
<1>17. UnseenSound'
  <2>1. SUFFICES ASSUME NEW a \in Anchors, NEW e \in unseen'[a]
                 PROVE  /\ run'[e.g] # NoRun /\ Anchor(e.g) = a
                        /\ \/ e.g = cur
                           \/ /\ e.g < cur /\ a \in Wire /\ views[e.g].err
                              /\ \/ cancelled \/ a \in broken
                                 \/ host # "dispatch" /\ Anchor(cur) = a
    BY <1>2, <1>10 DEF UnseenSound, Anchor
  <2>2. CASE e \in unseen[a]
    <3>1. e.g \in 1..MaxGroups
      BY <1>1, <2>2 DEF TypeOK, Effect
    <3> QED BY <1>1, <1>6, <2>2, <3>1 DEF UnseenSound
  <2>3. CASE e \notin unseen[a]
    <3>1. a = Anchor(g) /\ e = w
      BY <1>1, <1>5, <1>9, <2>1, <2>3 DEF TypeOK
    <3>2. g <= cur /\ cur \in Nat
      BY <1>1, <1>5 DEF Dispatched, TypeOK
    <3>3. CASE g = cur
      BY <1>6, <1>8, <3>1, <3>3
    <3>4. CASE g # cur
      <4>1. g < cur
        BY <3>2, <3>4, Sizes
      <4>2. Anchor(g) \in Wire /\ views[g].err /\ (cancelled \/ Anchor(g) \in broken)
        BY <1>1, <1>5, <4>1 DEF LeftRunning, Past
      <4> QED BY <1>6, <1>8, <3>1, <4>1, <4>2
    <3> QED BY <3>3, <3>4
  <2> QED BY <2>2, <2>3
<1>18. WritesInTurn'
  <2>1. SUFFICES ASSUME NEW f \in effects', NEW h \in 1..(f.g - 1),
                        Anchor(h) = Anchor(f.g)
                 PROVE  run'[h].st # "running"
    BY <1>10 DEF WritesInTurn, Anchor
  <2>2. f.g \in 1..MaxGroups /\ h \in 1..MaxGroups
    <3>1. f.g \in 1..MaxGroups
      BY <1>8, <1>9, <1>12
    <3> QED BY <3>1, Sizes
  <2>3. run[h].st # "running"
    <3>1. CASE f \in effects
      BY <1>1, <2>1, <3>1 DEF WritesInTurn
    <3>2. CASE f = w
      BY <1>5, <1>8, <2>1, <3>2 DEF Turn
    <3> QED BY <1>9, <3>1, <3>2
  <2> QED BY <1>5, <1>6, <2>2, <2>3
<1>19. \A h \in 1..MaxGroups : run[h] # NoRun => Anchor(h) \in Anchors
  <2>1. \A h \in 1..MaxGroups : run[h] # NoRun => h \in 1..Len(groups)
    <3>1. Len(groups) \in Nat
      BY <1>1, LenProperties DEF TypeOK
    <3> QED BY <1>1, <3>1, Sizes DEF Dispatched
  <2> QED BY <1>1, <2>1, GroupFacts
\* The temp ids created before still name their nodes' addresses.
<1>20. ASSUME NEW h \in 1..MaxGroups, run[h] # NoRun, NEW t \in Temps,
              run[h].created[t] # Nothing
       PROVE  /\ run[h].created[t] > Existing /\ run[h].created[t] < fresh'
              /\ at'[Anchor(h)][run[h].created[t]] \in {Nothing, run[h].created[t]}
              /\ \E f \in effects : /\ f.g = h /\ run[h].ops[f.i].temp = t
                                    /\ run[h].outcomes[f.i].status = "applied"
                                    /\ f.node = run[h].created[t]
  <2>1. PICK c \in Addr : c = run[h].created[t]
    BY <1>1, <1>20, RunFacts
  <2>2. /\ c > Existing /\ c < fresh /\ at[Anchor(h)][c] \in {Nothing, c}
        /\ \E f \in effects : /\ f.g = h /\ run[h].ops[f.i].temp = t
                              /\ run[h].outcomes[f.i].status = "applied"
                              /\ f.node = c
    BY <1>1, <1>20, <2>1 DEF CreatedSound
  <2>3. c < fresh'
    <3>1. c \in Nat
      BY <2>1, Sizes
    <3> QED BY <1>2, <1>3, <2>2, <3>1
  <2>4. at'[Anchor(h)][c] \in {Nothing, c}
    <3>1. CASE Anchor(h) = Anchor(g)
      <4>1. at'[Anchor(h)] = source
        BY <1>1, <1>5, <1>9, <3>1 DEF TypeOK
      <4>2. source[c] \in {at[Anchor(g)][c], Nothing}
        BY <1>3, <2>2 DEF SourceKept
      <4> QED BY <2>2, <3>1, <4>1, <4>2
    <3>2. CASE Anchor(h) # Anchor(g)
      <4>1. at'[Anchor(h)] = at[Anchor(h)]
        BY <1>1, <1>9, <1>19, <1>20, <3>2 DEF TypeOK
      <4> QED BY <2>2, <4>1
    <3> QED BY <3>1, <3>2
  <2> QED BY <2>1, <2>2, <2>3, <2>4
<1>21. CreatedSound'
  <2>1. (fresh > Existing)'
    BY <1>1, <1>2, <1>3, Sizes DEF CreatedSound
  <2>2. ASSUME NEW h \in 1..MaxGroups, run'[h] # NoRun, NEW t \in Temps,
               run'[h].created[t] # Nothing
        PROVE  /\ run'[h].created[t] > Existing /\ run'[h].created[t] < fresh'
               /\ at'[Anchor(h)][run'[h].created[t]]
                     \in {Nothing, run'[h].created[t]}
               /\ \E f \in effects' : /\ f.g = h /\ run'[h].ops[f.i].temp = t
                                      /\ run'[h].outcomes[f.i].status = "applied"
                                      /\ f.node = run'[h].created[t]
    <3>1. run[h] # NoRun /\ run'[h].ops = run[h].ops
      BY <1>5, <1>6, <2>2
    <3>2. CASE run'[h].created[t] = run[h].created[t]
      BY <1>9, <1>20, <1>26, <2>2, <3>1, <3>2
    <3>3. CASE run'[h].created[t] # run[h].created[t]
      <4>1. h = g /\ t = Op(g).temp /\ created[t] = fresh /\ node = fresh
            /\ fresh' = fresh + 1 /\ source[fresh] = fresh /\ o.status = "applied"
        BY <1>3, <1>6, <3>3 DEF CreatedNow
      <4>2. at'[Anchor(g)] = source
        BY <1>1, <1>5, <1>9 DEF TypeOK
      <4>3. /\ w \in effects' /\ w.g = g /\ run'[g].ops[w.i].temp = t /\ w.node = fresh
            /\ run'[g].outcomes[w.i].status = "applied"
        BY <1>5, <1>6, <1>8, <1>9, <4>1
      <4>4. fresh > Existing /\ fresh < fresh'
        BY <1>1, <1>2, <4>1 DEF CreatedSound
      <4> QED BY <1>6, <4>1, <4>2, <4>3, <4>4
    <3> QED BY <3>2, <3>3
  <2> QED BY <1>10, <2>1, <2>2 DEF CreatedSound, Anchor
\* A temp id of the op stands for the node its create made.
<1>22. ASSUME NEW t, t # NoTemp, NEW m, TempNode(g, t, m)
       PROVE  MadeBefore(w, t, m)'
  <2>1. t \in Temps /\ run[g].created[t] # Nothing /\ m = run[g].created[t]
    BY <1>22 DEF TempNode
  <2>2. PICK f \in effects : /\ f.g = g /\ run[g].ops[f.i].temp = t /\ f.node = m
                            /\ run[g].outcomes[f.i].status = "applied"
    BY <1>1, <1>5, <2>1 DEF CreatedSound
  <2>3. f.i < n + 1
    <3>1. f.i \in Nat /\ f.i <= n
      BY <1>12, <1>13, <2>2
    <3> QED BY <3>1
  <2>4. /\ run'[f.g].ops[f.i].temp = t
        /\ run'[f.g].outcomes[f.i].status = "applied"
    BY <1>12, <1>26, <2>2
  <2> QED BY <1>8, <1>9, <2>2, <2>3, <2>4 DEF MadeBefore
<1>23. TempIdsHold'
  <2>1. \A e \in effects : TempsOf(e)
    BY <1>1, TempIdsHoldOf
  <2>2. \A e \in effects : TempsOf(e)'
    BY <1>9, <1>12, <1>26, <2>1, TempsKept
  <2>3. TempsOf(w)'
    <3>1. PICK op : op = Op(g)
      OBVIOUS
    <3>2. run'[w.g].ops[w.i] = op
      BY <1>5, <1>6, <1>8, <3>1
    <3>3. TempNode(g, op.ref, node) /\ TempNode(g, op.inRef, parent)
      BY <1>3, <3>1
    <3>4. op.ref # NoTemp => MadeBefore(w, op.ref, node)'
      BY <1>22, <3>3
    <3>5. op.inRef # NoTemp => MadeBefore(w, op.inRef, parent)'
      BY <1>22, <3>3
    <3> QED BY <1>8, <3>2, <3>4, <3>5 DEF TempsOf
  <2>4. (\A e \in effects : TempsOf(e))'
    BY <1>9, <2>2, <2>3
  <2> QED BY <2>4, TempIdsHoldOf, PTL
<1> QED BY <1>11, <1>14, <1>15, <1>16, <1>17, <1>18, <1>21, <1>23, LoopsKeptKeeps
        DEF IInv, Phase

-----------------------------------------------------------------------------
(* The theorems.                                                            *)

LEMMA StepHolds == IInv /\ [Next]_vars => IInv'
<1> SUFFICES ASSUME IInv, [Next]_vars PROVE IInv'
  OBVIOUS
<1>1. CASE Build
  BY <1>1, BuildKeeps
<1>2. CASE Apply
  BY <1>2, DispatchKeeps, ReviewSteps, ForgetKeeps, EndKeeps DEF Apply
<1>3. CASE \E g \in 1..MaxGroups : Loop(g)
  BY <1>3, LoopSteps, SilentKeeps, WroteKeeps, LoopEndKeeps
<1>4. CASE Cancel
  BY <1>4, EndKeeps
<1>5. CASE \E a \in Wire : PluginCrash(a) \/ StreamBreaks(a)
  BY <1>5, CrashKeeps, EndKeeps
<1>6. CASE UNCHANGED vars
  <2>1. CallOnly /\ UNCHANGED <<pc, host, cur, views, answer, cancelled, unseen, run,
                                broken, mishaps>>
    BY <1>6 DEF vars, hostVars, sourceVars, CallOnly, KeptRun, IInv, TypeOK
  <2>2. TypeOK'
    BY <2>1 DEF IInv, TypeOK, CallOnly
  <2>3. Phase'
    BY <2>1 DEF IInv, Phase, CallPhase, Dispatched, CallOnly
  <2>4. LeftRunning' /\ ViewsTrue' /\ UnseenSound'
    BY <2>1 DEF IInv, LeftRunning, ViewsTrue, UnseenSound, Past, Anchor, CallOnly
  <2> QED BY <2>1, <2>2, <2>3, <2>4, CallOnlyKeeps DEF IInv
<1> QED BY <1>1, <1>2, <1>3, <1>4, <1>5, <1>6 DEF Next

\* The invariant holds in every state of a call.
THEOREM InvariantHolds == Spec => []IInv
BY InitHolds, StepHolds, PTL DEF Spec

\* The state of the call, its loops and its sources keeps its types.
THEOREM TypeCorrect == Spec => []TypeOK
<1>1. IInv => TypeOK
  BY DEF IInv
<1> QED BY <1>1, InvariantHolds, PTL

\* What the caller is told is what happened: an outcome per op of a group in
\* request order, applied or deleted only when that op wrote, a patch that
\* landed nothing, a delete that found nothing or an op that was not run only
\* when it did not, and nothing written by a refused call; an op that failed
\* may have written (ApplyBulkOp, callMutateNodes).
THEOREM ReportsAreTrue == Spec => []ReportIsTrue
<1>1. IInv => ReportIsTrue
  <2> SUFFICES ASSUME IInv PROVE ReportIsTrue
    OBVIOUS
  <2>1. /\ TypeOK /\ CallPhase /\ OutcomesTrue /\ EndedIsWhole /\ ViewsTrue
    BY DEF IInv, Phase
  <2>2. RefusedWritesNothing
    <3>1. answer = "refused" => Quiet
      BY <2>1, NoLoopIsQuiet DEF CallPhase
    <3> QED BY <3>1 DEF RefusedWritesNothing, Quiet
  <2>3. ASSUME NEW g \in DOMAIN views, ~views[g].err
        PROVE  /\ Len(views[g].outcomes) = Len(run[g].ops)
               /\ \A i \in DOMAIN views[g].outcomes :
                     Agrees(views[g].outcomes[i].status, Landed(g, i))
    <3>1. g \in 1..Len(views) /\ g \in 1..MaxGroups
      <4>1. views \in Seq(View) /\ cur \in 1..(MaxGroups + 1) /\ groups \in Seq(Group)
            /\ Len(groups) <= MaxGroups
        BY <2>1 DEF TypeOK
      <4>2. g \in 1..Len(views) /\ Len(views) \in Nat /\ Len(groups) \in Nat
        BY <2>3, <4>1, LenProperties
      <4>3. Len(views) <= MaxGroups
        BY <2>1, <4>1, <4>2, Sizes DEF CallPhase
      <4> QED BY <4>2, <4>3, Sizes
    <3>2. run[g].st = "ended" /\ views[g].outcomes = run[g].outcomes
      BY <2>1, <2>3, <3>1 DEF ViewsTrue
    <3>3. run[g] # NoRun /\ Len(run[g].outcomes) = Len(run[g].ops)
      BY <2>1, <3>1, <3>2, NoRunHasNoLoop DEF EndedIsWhole
    <3>4. DOMAIN run[g].outcomes = 1..Len(run[g].outcomes)
      BY <2>1, <3>1, <3>3, RunFacts
    <3> QED BY <2>1, <3>1, <3>2, <3>3, <3>4 DEF OutcomesTrue
  <2> QED BY <2>2, <2>3 DEF ReportIsTrue
<1> QED BY <1>1, InvariantHolds, PTL

\* An op that names a temp id writes to, or creates below, the node that id's
\* create made and reported, or it writes nothing (createdURI,
\* applyTempCreate).
THEOREM TempIdsAreHeld == Spec => []TempIdsHold
<1>1. IInv => TempIdsHold
  BY DEF IInv
<1> QED BY <1>1, InvariantHolds, PTL

\* When the call has answered, the caches of every source it wrote to were
\* forgotten after the write, but for a wire batch that the call walked away
\* from, cancelled or behind a stream that broke and was not replaced since
\* (forgetWrittenSource).
THEOREM WrittenSourcesForgotten == Spec => []WritesForgotten
<1>1. IInv => WritesForgotten
  <2> SUFFICES ASSUME IInv, pc = "done", NEW a \in Anchors, NEW e \in unseen[a]
               PROVE  a \in Wire /\ views[e.g].err /\ (cancelled \/ a \in broken)
    BY DEF WritesForgotten
  <2>1. host = "dispatch" /\ e.g \in 1..MaxGroups /\ run[e.g] # NoRun
    BY DEF IInv, Phase, CallPhase, UnseenSound, TypeOK, Effect
  <2>2. e.g # cur
    BY <2>1 DEF IInv, Phase, Dispatched
  <2> QED BY <2>1, <2>2 DEF IInv, UnseenSound
<1> QED BY <1>1, InvariantHolds, PTL

\* The groups of one source are written in request order, op by op, also when
\* the call gave the first up and its process is still at it (serveLoop).
THEOREM SourceOrderHolds == Spec => SourceOrder
<1> DEFINE InOrder ==
        \A e \in effects' \ effects, f \in effects :
            Anchor(f.g) = Anchor(e.g) =>
                f.g < e.g \/ (f.g = e.g /\ f.i < e.i)
<1>1. ASSUME IInv, [Next]_vars PROVE InOrder
  <2>1. CASE effects' = effects
    BY <2>1
  <2>2. ASSUME NEW g \in 1..MaxGroups, Wrote(g) PROVE InOrder
    <3>1. TypeOK /\ Dispatched /\ OutcomesTrue /\ WritesInTurn
      BY <1>1 DEF IInv, Phase
    <3>2. OpDue(g) /\ run[g].st = "running"
      BY <2>2 DEF Wrote, OpDue
    <3>3. SUFFICES ASSUME NEW e \in effects' \ effects, NEW f \in effects,
                          Anchor(f.g) = Anchor(e.g)
                   PROVE  f.g < e.g \/ (f.g = e.g /\ f.i < e.i)
      OBVIOUS
    <3>4. e.g = g /\ e.i = Len(run[g].outcomes) + 1 /\ Len(run[g].outcomes) \in Nat
      BY <2>2, <3>1, <3>2, <3>3, OpFacts, RunFacts DEF Wrote, VerbWrote, Write
    <3>5. f.g \in 1..MaxGroups /\ f.i \in Nat /\ f.i <= Len(run[f.g].outcomes)
      BY <3>1 DEF TypeOK, Effect, OutcomesTrue
    <3>6. ~(g \in 1..(f.g - 1))
      BY <3>1, <3>2, <3>3, <3>4 DEF WritesInTurn
    <3> QED BY <3>4, <3>5, <3>6, Sizes
  <2>3. CASE \E g \in 1..MaxGroups : Loop(g)
    <3>1. PICK g \in 1..MaxGroups : Loop(g)
      BY <2>3
    <3>2. CASE Wrote(g)
      BY <2>2, <3>2
    <3>3. CASE Silent(g) \/ LoopEnd(g)
      BY <2>1, <3>3 DEF Silent, LoopEnd, sourceVars
    <3> QED BY <1>1, <3>1, <3>2, <3>3, LoopSteps
  <2>4. CASE Build
    <3>1. effects' = effects
      BY <2>4 DEF Build, BuildGroup, BuildOp, BuildSweep, GroupBuilt, BuildRefuse,
                  BuildDone, sourceVars
    <3> QED BY <2>1, <3>1
  <2>5. CASE Apply \/ Cancel
    <3>1. effects' = effects
      BY <2>5 DEF Apply, Dispatch, DispatchRefused, Result, ReplyLost, Forget,
                  Answer, Cancel, sourceVars
    <3> QED BY <2>1, <3>1
  <2>6. CASE \E a \in Wire : PluginCrash(a) \/ StreamBreaks(a)
    <3>1. effects' = effects
      BY <2>6 DEF PluginCrash, StreamBreaks, sourceVars
    <3> QED BY <2>1, <3>1
  <2>7. CASE UNCHANGED vars
    BY <2>1, <2>7 DEF vars, sourceVars
  <2> QED BY <1>1, <2>3, <2>4, <2>5, <2>6, <2>7 DEF Next
<1>2. IInv /\ [Next]_vars => [InOrder]_vars
  BY <1>1
<1>3. Spec => [][InOrder]_vars
  BY <1>2, InvariantHolds, PTL DEF Spec
<1> QED BY <1>3 DEF SourceOrder

-----------------------------------------------------------------------------
(* YnabWrites: the inductive invariant.                                     *)

Entries(s) == {s[k] : k \in DOMAIN s}
IsSeq(s)   == s \in Seq(Entries(s))
NsOf(s)    == {m.n : m \in Entries(s)}
TxnsOf(s)  == {m.txn : m \in Entries(s)}

OnePerOp(s)  == \A j, k \in DOMAIN s : s[j].n = s[k].n => j = k
OnePerTxn(s) == \A j, k \in DOMAIN s : s[j].txn = s[k].txn => j = k

InGroups(gs) == UNION {Entries(gs[g].members) : g \in DOMAIN gs}
Waiting(gs)  == {m.n : m \in InGroups(gs)}

\* The operations that are not claimed, that are not reported.
Early      == Waiting(call.groups) \cup NsOf(call.rest) \cup NsOf(call.merged)
Unreported == Early \cup NsOf(call.members) \cup NsOf(call.batch)

Logged     == {w.n : w \in log}
InFull     == {w.n : w \in {w \in log : DOMAIN w.entry = w.sent}}
LoggedTxns == {w.txn : w \in log}

CallFields == {"pc", "ops", "i", "groups", "claimed", "rest", "merged", "members", "rows",
               "batch", "list", "saved", "results", "start"}

Gathering == {"idle", "classify", "rename", "renamed"}

\* The operations are gone through before the first group, and the call then stands
\* behind the last one.
CallShape ==
    /\ DOMAIN call = CallFields
    /\ call.i \in Nat \ {0} /\ call.i <= Len(call.ops) + 1
    /\ IF call.pc = "idle" THEN call.ops = <<>> /\ call.results = {}
       ELSE call.ops \in Requests /\ DOMAIN call.start = {"row", "payee"}
    /\ call.pc = "idle" <=> call.start = None
    /\ call.pc \in {"rename", "renamed"} =>
          /\ call.i <= Len(call.ops) /\ ~IsPatch(call.ops[call.i])
    /\ call.pc = "renamed" => call.saved \in {"applied", "unknown"}
    /\ call.pc \notin Gathering => call.i = Len(call.ops) + 1

ServerShape ==
    /\ row = [t \in Txns |-> row[t]] /\ \A t \in Txns : IsRow(row[t])
    /\ payee = [p \in Payees |-> payee[p]]

\* A member stands for an operation the call has passed, and asks of a field what one of
\* the transaction's operations asks of it.
Stands(m) ==
    /\ m.n \in 1 .. call.i - 1 /\ IsPatch(call.ops[m.n]) /\ m.txn = call.ops[m.n].txn

Sound(m) ==
    /\ m = [n |-> m.n, txn |-> m.txn, patch |-> m.patch] /\ Stands(m)
    /\ \A f \in DOMAIN m.patch : \E n \in Setting(m.txn, f) : m.patch[f] = call.ops[n].patch[f]
    /\ "cleared" \in DOMAIN m.patch => m.patch["cleared"] # "reconciled"

AsAsked(m) == Sound(m) /\ m.patch = call.ops[m.n].patch

\* An operation is in one group, once.
Partition(gs) ==
    /\ IsSeq(gs)
    /\ \A g \in DOMAIN gs : /\ DOMAIN gs[g] = {"at", "members"}
                             /\ IsSeq(gs[g].members) /\ OnePerOp(gs[g].members)
    /\ \A g, h \in DOMAIN gs : g # h => NsOf(gs[g].members) \cap NsOf(gs[h].members) = {}

WaitingHolds == Partition(call.groups) /\ \A m \in InGroups(call.groups) : AsAsked(m)

\* An operation is in one place of the current group, once; a transaction is, once merged.
QueuesHold ==
    /\ IsSeq(call.rest) /\ OnePerOp(call.rest)
    /\ IsSeq(call.merged) /\ OnePerOp(call.merged) /\ OnePerTxn(call.merged)
    /\ IsSeq(call.members) /\ OnePerOp(call.members) /\ OnePerTxn(call.members)
    /\ IsSeq(call.batch) /\ OnePerOp(call.batch) /\ OnePerTxn(call.batch)
    /\ \A m \in Entries(call.rest) : AsAsked(m)
    /\ \A m \in Entries(call.merged) \cup Entries(call.members) : Sound(m)

QueuesApart ==
    /\ NsOf(call.rest) \cap NsOf(call.merged) = {}
    /\ NsOf(call.merged) \cap NsOf(call.members) = {}
    /\ NsOf(call.members) \cap NsOf(call.batch) = {}
    /\ TxnsOf(call.merged) \cap TxnsOf(call.members) = {}
    /\ TxnsOf(call.members) \cap TxnsOf(call.batch) = {}
    /\ Waiting(call.groups) \cap (NsOf(call.rest) \cup NsOf(call.merged)
                              \cup NsOf(call.members) \cup NsOf(call.batch)) = {}

\* Which parts of the call are in use at which step.
Phases ==
    /\ call.pc # "merge" => call.rest = <<>> /\ call.merged = <<>>
    /\ call.rest # <<>> => call.members = <<>>
    /\ call.pc \notin {"merge", "listing", "rows", "plan"} => call.members = <<>>
    /\ call.pc \notin {"rows", "plan", "send", "settle"} => DOMAIN call.rows = {}
    /\ call.pc \notin {"plan", "send", "settle"} => call.batch = <<>> /\ call.list = None
    /\ call.pc \in {"idle", "done"} => call.groups = <<>>
    /\ call.pc = "group" => call.groups # <<>>
    /\ call.pc = "send" => call.batch # <<>>
    /\ call.pc \in Gathering => log = {} /\ call.claimed = {}

\* Since it was read a row has changed only in the app.
AsRead(t, r) ==
    /\ IsRow(r)
    /\ \A f \in Fields : row[t][f] = r[f] \/ (f = "cleared" /\ row[t].cleared = "reconciled")
    /\ t \notin touched => row[t] = r

ReadsHold ==
    call.pc \in {"rows", "plan", "send"} =>
       /\ DOMAIN call.rows \subseteq Txns
       /\ \A t \in DOMAIN call.rows : call.rows[t] # None => AsRead(t, call.rows[t])
       /\ call.pc = "plan" => TxnsOf(call.members) \subseteq DOMAIN call.rows

\* The payees the members are planned against.
ListHolds ==
    call.list # None =>
       \/ \A p \in Payees : call.list.names[p] = Gone
       \/ touched \cap Payees = {} => call.list.names = payee

EntrySound(b) ==
    /\ Stands(b)
    /\ DOMAIN b.entry \in (SUBSET Fields) \ {{}}
    /\ \A f \in DOMAIN b.entry : Setting(b.txn, f) # {}

\* The guards, on the row the entry was planned against.
Guarded(b, r) ==
    /\ ~r.deleted
    /\ \A f \in DOMAIN b.entry : r[f] # b.entry[f]
    /\ "cleared" \in DOMAIN b.entry => /\ r.cleared # "reconciled"
                                       /\ b.entry["cleared"] # "reconciled"
    /\ "category" \in DOMAIN b.entry => b.txn \notin Split \cup Transfer
    /\ "payee" \in DOMAIN b.entry =>
          /\ b.entry["payee"] \in Payees \ OwnPayees
          /\ touched \cap Payees = {} => payee[b.entry["payee"]] # Gone

BatchHolds ==
    \A b \in Entries(call.batch) :
       /\ EntrySound(b)
       /\ call.pc \in {"plan", "send"} => /\ b.txn \in DOMAIN call.rows /\ call.rows[b.txn] # None
                                          /\ Guarded(b, call.rows[b.txn])

\* A transaction that was written is claimed, and nothing else of it is planned.
ClaimsHold ==
    /\ TxnsOf(call.members) \cup TxnsOf(call.batch) \cup LoggedTxns \subseteq call.claimed
    /\ TxnsOf(call.members) \cap LoggedTxns = {}
    /\ call.pc # "settle" => TxnsOf(call.batch) \cap LoggedTxns = {}

LogHolds ==
    /\ \A w \in log : Stands(w)
    /\ Logged \cap Early = {}

\* What is reported is not to be written any more.
ResultsHold ==
    \A x \in call.results :
       /\ x = Verdict(x.n, x.verdict)
       /\ x.verdict \in {"applied", "nothing"} \cup Failures
       /\ x.n \in 1 .. call.i - 1 /\ x.n \notin Unreported

\* A row of the answer shows an entry if and only if all of the entry was written.
AnswerHolds ==
    call.pc = "settle" /\ call.saved # None =>
       \A b \in Entries(call.batch) :
          b.txn \in DOMAIN call.saved.rows =>
             (Shows(call.saved.rows[b.txn], b.entry) <=> b.n \in InFull)

RenameChecked ==
    call.pc = "rename" =>
       \A q \in Payees \ {call.ops[call.i].payee} : payee[q] = call.ops[call.i].name => q \in touched

\* A read in flight carries rows that are no older than the writes that were over when it
\* began.
ReaderHolds ==
    reader # None /\ reader.kind = "txns" =>
       /\ DOMAIN reader.rows \subseteq Txns
       /\ \A t \in Txns : reader.began[t] \in Nat /\ reader.began[t] <= settled[t]
       /\ \A t \in DOMAIN reader.rows : /\ reader.rows[t].v \in Nat
                                        /\ reader.rows[t].v >= reader.began[t]

CacheHolds ==
    /\ settled = [t \in Txns |-> settled[t]]
    /\ \A t \in Txns : settled[t] \in Nat /\ settled[t] <= row[t].v
    /\ index = [t \in Txns |-> index[t]]
    /\ \A t \in Txns : index[t] # None => DOMAIN index[t] = {"row", "raced"} /\ index[t].row.v \in Nat
    /\ ReaderHolds
    /\ PreWriteOnlyRaced

\* When nobody else changes anything, what an operation asks of a field is: waiting or
\* merged, planned, sent with an answer that will be found wrong, or in the row, where
\* nothing else is planned for it.
InRow(t, f, n) == row[t][f] = Asked(f, call.ops[n].patch, payee)

Carries(m, t, f, n) == m.txn = t /\ f \in DOMAIN m.patch /\ m.patch[f] = call.ops[n].patch[f]

Plans(b, t, f, n) ==
    /\ b.txn = t
    /\ IF f \in DOMAIN b.entry THEN b.entry[f] = Asked(f, call.ops[n].patch, payee)
       ELSE InRow(t, f, n)

Doubtful(b, t) ==
    /\ b.txn = t
    /\ \/ call.saved = None
       \/ t \notin DOMAIN call.saved.rows
       \/ ~Shows(call.saved.rows[t], b.entry)

Accounted(t, f, n) ==
    \/ n \in Waiting(call.groups) \cup NsOf(call.rest)
    \/ \E m \in Entries(call.merged) \cup Entries(call.members) : Carries(m, t, f, n)
    \/ call.pc # "settle" /\ \E b \in Entries(call.batch) : Plans(b, t, f, n)
    \/ call.pc = "settle" /\ \E b \in Entries(call.batch) : Doubtful(b, t)
    \/ /\ InRow(t, f, n) /\ t \in call.claimed /\ t \notin TxnsOf(call.members)
       /\ call.pc # "settle" => t \notin TxnsOf(call.batch)

Spoilt(t) ==
    \E x \in call.results : call.ops[x.n].txn = t /\ x.verdict \notin {"applied", "nothing"}

NothingLost ==
    call.pc # "idle" /\ ~Renames /\ touched = {} =>
       \A t \in Txns : \A f \in Fields :
          /\ row[t][f] # call.start.row[t][f] => Setting(t, f) # {}
          /\ ~Spoilt(t) => \A n \in Setting(t, f) : n < call.i => Accounted(t, f, n)

\* Of the operations passed that set a field one is the last.
LastsHold ==
    \A t, f : \A n \in Setting(t, f) :
       n < call.i => \E last \in Setting(t, f) :
                        last < call.i /\ \A k \in Setting(t, f) : k < call.i => k <= last

Structure == CallShape /\ WaitingHolds /\ QueuesHold /\ QueuesApart /\ Phases /\ LastsHold

CallInv ==
    /\ Structure /\ ServerShape /\ ReadsHold /\ ListHolds /\ BatchHolds /\ ClaimsHold
    /\ LogHolds /\ OneWrite /\ ResultsHold /\ VerdictsAreTrue /\ AnswerHolds
    /\ RenameChecked /\ GuardsHold /\ NothingLost

Steps == {"idle", "classify", "rename", "renamed", "group", "merge", "listing", "rows", "plan",
          "send", "settle", "done"}

YnabInv == CallInv /\ CacheHolds /\ call.pc \in Steps

-----------------------------------------------------------------------------
(* Sequences of members.                                                    *)

LEMMA SeqFacts ==
    ASSUME NEW s, IsSeq(s)
    PROVE  /\ Len(s) \in Nat /\ DOMAIN s = 1 .. Len(s)
           /\ s # <<>> <=> Len(s) > 0
           /\ \A k \in DOMAIN s : s[k] \in Entries(s)
<1>1. s \in Seq(Entries(s))
  BY DEF IsSeq
<1>2. Len(s) \in Nat /\ DOMAIN s = 1 .. Len(s)
  BY <1>1, LenProperties
<1>3. s # <<>> <=> Len(s) > 0
  BY <1>1, <1>2, EmptySeq
<1>4. \A k \in DOMAIN s : s[k] \in Entries(s)
  BY DEF Entries
<1> QED BY <1>2, <1>3, <1>4

LEMMA EmptyFacts ==
    /\ IsSeq(<<>>) /\ OnePerOp(<<>>) /\ OnePerTxn(<<>>)
    /\ Entries(<<>>) = {} /\ NsOf(<<>>) = {} /\ TxnsOf(<<>>) = {}
<1>1. DOMAIN <<>> = {}
  OBVIOUS
<1>2. Entries(<<>>) = {}
  BY <1>1 DEF Entries
<1>3. IsSeq(<<>>)
  <2>1. <<>> \in Seq({})
    OBVIOUS
  <2> QED BY <1>2, <2>1 DEF IsSeq
<1>4. NsOf(<<>>) = {} /\ TxnsOf(<<>>) = {}
  BY <1>2 DEF NsOf, TxnsOf
<1>5. OnePerOp(<<>>) /\ OnePerTxn(<<>>)
  BY <1>1 DEF OnePerOp, OnePerTxn
<1> QED BY <1>2, <1>3, <1>4, <1>5

LEMMA AppendFacts ==
    ASSUME NEW s, IsSeq(s), NEW m
    PROVE  /\ IsSeq(Append(s, m)) /\ Append(s, m) # <<>>
           /\ Entries(Append(s, m)) = Entries(s) \cup {m}
           /\ NsOf(Append(s, m)) = NsOf(s) \cup {m.n}
           /\ TxnsOf(Append(s, m)) = TxnsOf(s) \cup {m.txn}
           /\ OnePerOp(s) /\ m.n \notin NsOf(s) => OnePerOp(Append(s, m))
           /\ OnePerTxn(s) /\ m.txn \notin TxnsOf(s) => OnePerTxn(Append(s, m))
<1> DEFINE S == Entries(s) \cup {m}
           a == Append(s, m)
<1>1. s \in Seq(S) /\ m \in S
  <2>1. s \in Seq(Entries(s))
    BY DEF IsSeq
  <2>2. \A k \in 1 .. Len(s) : s[k] \in S
    BY <2>1
  <2> QED BY <2>1, <2>2
<1>2. /\ a \in Seq(S) /\ Len(a) = Len(s) + 1 /\ a # <<>>
      /\ \A k \in 1 .. Len(s) : a[k] = s[k]
      /\ a[Len(s) + 1] = m
  BY <1>1, AppendProperties
<1>3. Len(s) \in Nat /\ DOMAIN s = 1 .. Len(s) /\ DOMAIN a = 1 .. Len(s) + 1
  BY <1>1, <1>2, LenProperties
<1> HIDE DEF a
<1>4. Entries(a) = S
  <2>1. \A k \in DOMAIN a : a[k] \in S
    BY <1>2, <1>3
  <2>2. \A e \in Entries(s) : \E k \in DOMAIN a : a[k] = e
    BY <1>2, <1>3 DEF Entries
  <2>3. \E k \in DOMAIN a : a[k] = m
    BY <1>2, <1>3
  <2> QED BY <2>1, <2>2, <2>3 DEF Entries
<1>5. IsSeq(a)
  BY <1>2, <1>4 DEF IsSeq
<1>6. NsOf(a) = NsOf(s) \cup {m.n} /\ TxnsOf(a) = TxnsOf(s) \cup {m.txn}
  BY <1>4 DEF NsOf, TxnsOf
<1>7. ASSUME OnePerOp(s), m.n \notin NsOf(s) PROVE OnePerOp(a)
  <2>1. \A k \in DOMAIN s : s[k].n # m.n
    BY <1>7 DEF NsOf, Entries
  <2>2. \A k \in DOMAIN a : (k \in DOMAIN s /\ a[k] = s[k]) \/ (k = Len(s) + 1 /\ a[k] = m)
    BY <1>2, <1>3
  <2> QED BY <2>1, <2>2, <1>7 DEF OnePerOp
<1>8. ASSUME OnePerTxn(s), m.txn \notin TxnsOf(s) PROVE OnePerTxn(a)
  <2>1. \A k \in DOMAIN s : s[k].txn # m.txn
    BY <1>8 DEF TxnsOf, Entries
  <2>2. \A k \in DOMAIN a : (k \in DOMAIN s /\ a[k] = s[k]) \/ (k = Len(s) + 1 /\ a[k] = m)
    BY <1>2, <1>3
  <2> QED BY <2>1, <2>2, <1>8 DEF OnePerTxn
<1> QED BY <1>2, <1>4, <1>5, <1>6, <1>7, <1>8 DEF a

LEMMA TailFacts ==
    ASSUME NEW s, IsSeq(s), s # <<>>
    PROVE  /\ IsSeq(Tail(s)) /\ Head(s) \in Entries(s)
           /\ Entries(s) = Entries(Tail(s)) \cup {Head(s)}
           /\ NsOf(s) = NsOf(Tail(s)) \cup {Head(s).n}
           /\ TxnsOf(s) = TxnsOf(Tail(s)) \cup {Head(s).txn}
           /\ OnePerOp(s) => OnePerOp(Tail(s)) /\ Head(s).n \notin NsOf(Tail(s))
           /\ OnePerTxn(s) => OnePerTxn(Tail(s)) /\ Head(s).txn \notin TxnsOf(Tail(s))
<1> DEFINE r == Tail(s)
<1>1. s \in Seq(Entries(s))
  BY DEF IsSeq
<1>2. /\ r \in Seq(Entries(s)) /\ Len(r) = Len(s) - 1 /\ Head(s) = s[1]
      /\ \A k \in 1 .. Len(r) : r[k] = s[k + 1]
  BY <1>1, HeadTailProperties
<1>3. Len(s) \in Nat /\ DOMAIN s = 1 .. Len(s) /\ Len(s) > 0 /\ Len(r) \in Nat /\ DOMAIN r = 1 .. Len(r)
  BY <1>1, <1>2, SeqFacts, LenProperties
<1> HIDE DEF r
<1>4. Head(s) = s[1] /\ 1 \in DOMAIN s
  BY <1>2, <1>3
<1>5. \A k \in DOMAIN r : r[k] = s[k + 1] /\ k + 1 \in DOMAIN s /\ k + 1 # 1
  BY <1>2, <1>3
<1>6. \A k \in DOMAIN s : k = 1 \/ (k - 1 \in DOMAIN r /\ r[k - 1] = s[k])
  BY <1>2, <1>3
<1>7. Entries(s) = Entries(r) \cup {Head(s)}
  <2>1. \A k \in DOMAIN s : s[k] \in Entries(r) \cup {Head(s)}
    BY <1>4, <1>6 DEF Entries
  <2>2. \A k \in DOMAIN r : r[k] \in Entries(s)
    BY <1>5 DEF Entries
  <2>3. Head(s) \in Entries(s)
    BY <1>4 DEF Entries
  <2> QED BY <2>1, <2>2, <2>3 DEF Entries
<1>8. IsSeq(r)
  <2>1. \A k \in 1 .. Len(r) : r[k] \in Entries(r)
    BY <1>3 DEF Entries
  <2> QED BY <1>2, <2>1 DEF IsSeq
<1>9. NsOf(s) = NsOf(r) \cup {Head(s).n} /\ TxnsOf(s) = TxnsOf(r) \cup {Head(s).txn}
  BY <1>7 DEF NsOf, TxnsOf
<1>10. ASSUME OnePerOp(s) PROVE OnePerOp(r) /\ Head(s).n \notin NsOf(r)
  <2>1. OnePerOp(r)
    <3>1. SUFFICES ASSUME NEW j \in DOMAIN r, NEW k \in DOMAIN r, r[j].n = r[k].n PROVE j = k
      BY DEF OnePerOp
    <3>2. j + 1 = k + 1
      BY <1>5, <1>10, <3>1 DEF OnePerOp
    <3> QED BY <1>3, <3>1, <3>2
  <2>2. \A k \in DOMAIN r : r[k].n # s[1].n
    BY <1>4, <1>5, <1>10 DEF OnePerOp
  <2> QED BY <1>4, <2>1, <2>2 DEF NsOf, Entries
<1>11. ASSUME OnePerTxn(s) PROVE OnePerTxn(r) /\ Head(s).txn \notin TxnsOf(r)
  <2>1. OnePerTxn(r)
    <3>1. SUFFICES ASSUME NEW j \in DOMAIN r, NEW k \in DOMAIN r, r[j].txn = r[k].txn PROVE j = k
      BY DEF OnePerTxn
    <3>2. j + 1 = k + 1
      BY <1>5, <1>11, <3>1 DEF OnePerTxn
    <3> QED BY <1>3, <3>1, <3>2
  <2>2. \A k \in DOMAIN r : r[k].txn # s[1].txn
    BY <1>4, <1>5, <1>11 DEF OnePerTxn
  <2> QED BY <1>4, <2>1, <2>2 DEF TxnsOf, Entries
<1> QED BY <1>7, <1>8, <1>9, <1>10, <1>11 DEF r

\* One element is replaced by one for the same operation and transaction.
LEMMA ReplaceFacts ==
    ASSUME NEW s, IsSeq(s), NEW k \in DOMAIN s, NEW m, m.n = s[k].n, m.txn = s[k].txn
    PROVE  LET r == [s EXCEPT ![k] = m]
           IN /\ IsSeq(r) /\ NsOf(r) = NsOf(s) /\ TxnsOf(r) = TxnsOf(s)
              /\ \A e \in Entries(r) : e \in Entries(s) \/ e = m
              /\ \A e \in Entries(s) : e \in Entries(r) \/ e = s[k]
              /\ m \in Entries(r)
              /\ OnePerOp(s) => OnePerOp(r)
              /\ OnePerTxn(s) => OnePerTxn(r)
<1> DEFINE r == [s EXCEPT ![k] = m]
<1>1. s \in Seq(Entries(s)) /\ Len(s) \in Nat /\ DOMAIN s = 1 .. Len(s)
  BY SeqFacts DEF IsSeq
<1>2. DOMAIN r = DOMAIN s /\ r[k] = m /\ \A j \in DOMAIN s : j # k => r[j] = s[j]
  BY <1>1
<1>3. r \in Seq(Entries(s) \cup {m})
  <2>1. s \in Seq(Entries(s) \cup {m}) /\ k \in 1 .. Len(s)
    <3>1. \A j \in 1 .. Len(s) : s[j] \in Entries(s) \cup {m}
      BY <1>1
    <3> QED BY <1>1, <3>1
  <2> QED BY <2>1, ExceptSeq
<1>4. Len(r) \in Nat /\ DOMAIN r = 1 .. Len(r)
  BY <1>3, LenProperties
<1> HIDE DEF r
<1>5. IsSeq(r)
  <2>1. \A j \in 1 .. Len(r) : r[j] \in Entries(r)
    BY <1>4 DEF Entries
  <2> QED BY <1>3, <2>1 DEF IsSeq
<1>6. \A j \in DOMAIN s : r[j].n = s[j].n /\ r[j].txn = s[j].txn
  BY <1>2
<1>7. NsOf(r) = NsOf(s) /\ TxnsOf(r) = TxnsOf(s)
  BY <1>2, <1>6 DEF NsOf, TxnsOf, Entries
<1>8. \A e \in Entries(r) : e \in Entries(s) \/ e = m
  BY <1>2 DEF Entries
<1>9. \A e \in Entries(s) : e \in Entries(r) \/ e = s[k]
  BY <1>2 DEF Entries
<1>10. m \in Entries(r)
  BY <1>2 DEF Entries
<1>11. (OnePerOp(s) => OnePerOp(r)) /\ (OnePerTxn(s) => OnePerTxn(r))
  BY <1>2, <1>6 DEF OnePerOp, OnePerTxn
<1> QED BY <1>5, <1>7, <1>8, <1>9, <1>10, <1>11 DEF r

-----------------------------------------------------------------------------
(* What the operators of the call return.                                   *)

LEMMA GroupedFacts ==
    ASSUME NEW gs, Partition(gs), NEW key, NEW m, m.n \notin Waiting(gs)
    PROVE  /\ Partition(Grouped(gs, key, m)) /\ Grouped(gs, key, m) # <<>>
           /\ InGroups(Grouped(gs, key, m)) = InGroups(gs) \cup {m}
<1> DEFINE found == {g \in DOMAIN gs : gs[g].at = key}
           new == [at |-> key, members |-> <<m>>]
<1>1. IsSeq(gs) /\ Len(gs) \in Nat /\ DOMAIN gs = 1 .. Len(gs) /\ gs \in Seq(Entries(gs))
  BY SeqFacts DEF Partition, IsSeq
<1>2. \A g \in DOMAIN gs : m.n \notin NsOf(gs[g].members)
  BY DEF Waiting, InGroups, NsOf
<1>3. IsSeq(<<m>>) /\ OnePerOp(<<m>>) /\ Entries(<<m>>) = {m} /\ NsOf(<<m>>) = {m.n}
  <2>1. <<m>> \in Seq({m}) /\ DOMAIN <<m>> = {1} /\ <<m>>[1] = m
    OBVIOUS
  <2>2. Entries(<<m>>) = {m}
    BY <2>1 DEF Entries
  <2>3. OnePerOp(<<m>>)
    BY <2>1 DEF OnePerOp
  <2> QED BY <2>1, <2>2, <2>3 DEF IsSeq, NsOf
<1>4. CASE found = {}
  <2> DEFINE r == Append(gs, new)
  <2>1. Grouped(gs, key, m) = r
    BY <1>4 DEF Grouped
  <2>2. IsSeq(r) /\ r # <<>>
    BY <1>1, AppendFacts
  <2>3. DOMAIN r = 1 .. Len(gs) + 1 /\ r[Len(gs) + 1] = new /\ \A g \in DOMAIN gs : r[g] = gs[g]
    <3>1. \A g \in 1 .. Len(gs) : gs[g] \in Entries(gs) \cup {new}
      BY <1>1
    <3>2. gs \in Seq(Entries(gs) \cup {new}) /\ new \in Entries(gs) \cup {new}
      BY <1>1, <3>1
    <3>3. /\ r \in Seq(Entries(gs) \cup {new}) /\ Len(r) = Len(gs) + 1
          /\ \A g \in 1 .. Len(gs) : r[g] = gs[g]
          /\ r[Len(gs) + 1] = new
      BY <3>2, AppendProperties
    <3> QED BY <1>1, <3>3, LenProperties
  <2> HIDE DEF r
  <2>4. new.members = <<m>> /\ DOMAIN new = {"at", "members"}
    OBVIOUS
  <2> HIDE DEF new
  <2>5. \A g \in DOMAIN r : (g \in DOMAIN gs /\ r[g] = gs[g]) \/ (g = Len(gs) + 1 /\ r[g] = new)
    BY <1>1, <2>3
  <2>6. \A g \in DOMAIN r : /\ DOMAIN r[g] = {"at", "members"} /\ IsSeq(r[g].members)
                            /\ OnePerOp(r[g].members)
    BY <1>3, <2>4, <2>5 DEF Partition
  <2>7. \A g, h \in DOMAIN r : g # h => NsOf(r[g].members) \cap NsOf(r[h].members) = {}
    BY <1>2, <1>3, <2>4, <2>5 DEF Partition
  <2>8. InGroups(r) = InGroups(gs) \cup {m}
    <3>1. DOMAIN gs \subseteq DOMAIN r /\ Len(gs) + 1 \in DOMAIN r
      BY <1>1, <2>3
    <3>2. Entries(r[Len(gs) + 1].members) = {m}
      BY <1>3, <2>3, <2>4
    <3>3. \A g \in DOMAIN r : Entries(r[g].members) \subseteq InGroups(gs) \cup {m}
      BY <1>3, <2>4, <2>5 DEF InGroups
    <3>4. \A g \in DOMAIN gs : Entries(gs[g].members) \subseteq InGroups(r)
      BY <2>3, <3>1 DEF InGroups
    <3>5. m \in InGroups(r)
      BY <3>1, <3>2 DEF InGroups
    <3>6. InGroups(r) \subseteq InGroups(gs) \cup {m}
      BY <3>3 DEF InGroups
    <3>7. InGroups(gs) \subseteq InGroups(r)
      BY <3>4 DEF InGroups
    <3> QED BY <3>5, <3>6, <3>7
  <2> QED BY <2>1, <2>2, <2>6, <2>7, <2>8 DEF Partition
<1>5. CASE found # {}
  <2> DEFINE g0 == CHOOSE g \in found : TRUE
             more == Append(gs[g0].members, m)
             r == [gs EXCEPT ![g0].members = more]
  <2>1. Grouped(gs, key, m) = r
    BY <1>5 DEF Grouped
  <2>2. g0 \in DOMAIN gs
    BY <1>5
  <2> HIDE DEF g0
  <2>3. DOMAIN gs[g0] = {"at", "members"} /\ IsSeq(gs[g0].members) /\ OnePerOp(gs[g0].members)
    BY <2>2 DEF Partition
  <2>4. /\ IsSeq(more) /\ OnePerOp(more) /\ Entries(more) = Entries(gs[g0].members) \cup {m}
        /\ NsOf(more) = NsOf(gs[g0].members) \cup {m.n}
    BY <1>2, <2>2, <2>3, AppendFacts
  <2> HIDE DEF more
  <2>5. DOMAIN r = DOMAIN gs /\ \A g \in DOMAIN gs : g # g0 => r[g] = gs[g]
    BY <1>1
  <2>6. r[g0] = [gs[g0] EXCEPT !.members = more]
    BY <1>1, <2>2
  <2>7. DOMAIN r[g0] = {"at", "members"} /\ r[g0].members = more
    BY <2>3, <2>6
  <2>8. IsSeq(r) /\ r # <<>>
    <3>1. r = [gs EXCEPT ![g0] = [gs[g0] EXCEPT !.members = more]]
      BY <1>1, <2>2
    <3> DEFINE e == [gs[g0] EXCEPT !.members = more]
               E2 == Entries(gs) \cup {e}
    <3> HIDE DEF e
    <3>2. \A g \in 1 .. Len(gs) : gs[g] \in E2
      BY <1>1
    <3>3. gs \in Seq(E2) /\ g0 \in 1 .. Len(gs) /\ e \in E2
      BY <1>1, <2>2, <3>2
    <3>4. [gs EXCEPT ![g0] = e] \in Seq(E2)
      BY <3>3, ExceptSeq
    <3>5. r \in Seq(E2)
      BY <3>1, <3>4 DEF e
    <3> HIDE DEF r
    <3>6. Len(r) \in Nat /\ DOMAIN r = 1 .. Len(r)
      BY <3>5, LenProperties
    <3>7. \A g \in 1 .. Len(r) : r[g] \in Entries(r)
      BY <3>6 DEF Entries
    <3>8. r \in Seq(Entries(r))
      BY <3>5, <3>7
    <3>9. r # <<>>
      BY <2>2, <2>5, <3>5
    <3> QED BY <3>8, <3>9 DEF IsSeq
  <2> HIDE DEF r
  <2>9. \A g \in DOMAIN r : /\ DOMAIN r[g] = {"at", "members"} /\ IsSeq(r[g].members)
                            /\ OnePerOp(r[g].members)
    BY <2>4, <2>5, <2>7 DEF Partition
  <2>10. \A g \in DOMAIN gs : NsOf(r[g].members) \subseteq NsOf(gs[g].members) \cup {m.n}
    BY <2>4, <2>5, <2>7
  <2>11. \A g, h \in DOMAIN r : g # h => NsOf(r[g].members) \cap NsOf(r[h].members) = {}
    <3>1. SUFFICES ASSUME NEW g \in DOMAIN gs, NEW h \in DOMAIN gs, g # h
                   PROVE  NsOf(r[g].members) \cap NsOf(r[h].members) = {}
      BY <2>5
    <3>2. NsOf(gs[g].members) \cap NsOf(gs[h].members) = {}
      BY <3>1 DEF Partition
    <3>3. CASE g = g0
      <4>1. r[h] = gs[h]
        BY <2>5, <3>1, <3>3
      <4> QED BY <1>2, <2>10, <3>2, <4>1
    <3>4. CASE g # g0
      <4>1. r[g] = gs[g]
        BY <2>5, <3>4
      <4> QED BY <1>2, <2>10, <3>2, <4>1
    <3> QED BY <3>3, <3>4
  <2>12. InGroups(r) = InGroups(gs) \cup {m}
    <3>1. \A g \in DOMAIN r : Entries(r[g].members) \subseteq InGroups(gs) \cup {m}
      BY <2>2, <2>4, <2>5, <2>7 DEF InGroups
    <3>2. \A g \in DOMAIN gs : Entries(gs[g].members) \subseteq Entries(r[g].members)
      BY <2>4, <2>5, <2>7
    <3>3. m \in Entries(r[g0].members) /\ g0 \in DOMAIN r
      BY <2>2, <2>4, <2>5, <2>7
    <3>4. InGroups(r) \subseteq InGroups(gs) \cup {m}
      BY <3>1 DEF InGroups
    <3>5. InGroups(gs) \subseteq InGroups(r)
      BY <2>5, <3>2 DEF InGroups
    <3>6. m \in InGroups(r)
      BY <3>3 DEF InGroups
    <3> QED BY <3>4, <3>5, <3>6
  <2> QED BY <2>1, <2>8, <2>9, <2>11, <2>12 DEF Partition
<1> QED BY <1>4, <1>5

\* The first group leaves the others.
LEMMA FirstGroup ==
    ASSUME NEW gs, Partition(gs), gs # <<>>
    PROVE  /\ Partition(Tail(gs))
           /\ IsSeq(Head(gs).members) /\ OnePerOp(Head(gs).members)
           /\ InGroups(gs) = InGroups(Tail(gs)) \cup Entries(Head(gs).members)
           /\ Waiting(gs) = Waiting(Tail(gs)) \cup NsOf(Head(gs).members)
           /\ Waiting(Tail(gs)) \cap NsOf(Head(gs).members) = {}
<1> DEFINE r == Tail(gs)
           first == Head(gs)
<1>1. IsSeq(gs) /\ Len(gs) \in Nat /\ DOMAIN gs = 1 .. Len(gs) /\ Len(gs) > 0
  BY SeqFacts DEF Partition
<1>2. /\ Len(r) = Len(gs) - 1 /\ first = gs[1]
      /\ \A k \in 1 .. Len(r) : r[k] = gs[k + 1]
  BY <1>1, HeadTailProperties DEF IsSeq
<1>3. IsSeq(r)
  BY <1>1, TailFacts
<1>4. Len(r) \in Nat /\ DOMAIN r = 1 .. Len(r)
  BY <1>3, SeqFacts
<1> HIDE DEF r, first
<1>5. first = gs[1] /\ 1 \in DOMAIN gs
  BY <1>1, <1>2
<1>6. \A k \in DOMAIN r : r[k] = gs[k + 1] /\ k + 1 \in DOMAIN gs /\ k + 1 # 1
  BY <1>1, <1>2, <1>4
<1>7. \A k \in DOMAIN gs : k = 1 \/ (k - 1 \in DOMAIN r /\ r[k - 1] = gs[k])
  BY <1>1, <1>2, <1>4
<1>8. IsSeq(first.members) /\ OnePerOp(first.members)
  BY <1>5 DEF Partition
<1>9. Partition(r)
  <2>1. ASSUME NEW g \in DOMAIN r, NEW h \in DOMAIN r, g # h
        PROVE  NsOf(r[g].members) \cap NsOf(r[h].members) = {}
    <3>1. g + 1 # h + 1
      BY <1>4, <2>1
    <3> QED BY <1>6, <2>1, <3>1 DEF Partition
  <2>2. \A g \in DOMAIN r : /\ DOMAIN r[g] = {"at", "members"}
                            /\ IsSeq(r[g].members) /\ OnePerOp(r[g].members)
    BY <1>6 DEF Partition
  <2> QED BY <1>3, <2>1, <2>2 DEF Partition
<1>10. InGroups(gs) = InGroups(r) \cup Entries(first.members)
  <2>1. \A g \in DOMAIN gs : Entries(gs[g].members) \subseteq InGroups(r) \cup Entries(first.members)
    BY <1>5, <1>7 DEF InGroups
  <2>2. \A g \in DOMAIN r : Entries(r[g].members) \subseteq InGroups(gs)
    BY <1>6 DEF InGroups
  <2>3. Entries(first.members) \subseteq InGroups(gs)
    BY <1>5 DEF InGroups
  <2>4. InGroups(gs) \subseteq InGroups(r) \cup Entries(first.members)
    BY <2>1 DEF InGroups
  <2>5. InGroups(r) \subseteq InGroups(gs)
    BY <2>2 DEF InGroups
  <2> QED BY <2>3, <2>4, <2>5
<1>11. Waiting(gs) = Waiting(r) \cup NsOf(first.members)
  BY <1>10 DEF Waiting, NsOf
<1>12. Waiting(r) \cap NsOf(first.members) = {}
  <2>1. \A g \in DOMAIN r : NsOf(r[g].members) \cap NsOf(first.members) = {}
    BY <1>5, <1>6 DEF Partition
  <2>2. \A n \in Waiting(r) : \E g \in DOMAIN r : n \in NsOf(r[g].members)
    BY DEF Waiting, InGroups, NsOf
  <2> QED BY <2>1, <2>2
<1> QED BY <1>8, <1>9, <1>10, <1>11, <1>12 DEF r, first

LEMMA NoGroups == Partition(<<>>) /\ InGroups(<<>>) = {} /\ Waiting(<<>>) = {}
<1>1. DOMAIN <<>> = {}
  OBVIOUS
<1>2. InGroups(<<>>) = {}
  BY <1>1 DEF InGroups
<1>3. Waiting(<<>>) = {}
  BY <1>2 DEF Waiting
<1> QED BY <1>1, <1>2, <1>3, EmptyFacts DEF Partition

\* A payee that resolves is a live one of the list, and not one of the account's own.
LEMMA ResolvedPayee ==
    ASSUME NEW list, NEW ref, resolvePayeeRef(list, ref) # Gone
    PROVE  /\ resolvePayeeRef(list, ref) \in Payees \ OwnPayees
           /\ list[resolvePayeeRef(list, ref)] # Gone
<1> DEFINE found == PayeesNamed(list, ref)
           p == CHOOSE p \in found : TRUE
<1>1. Cardinality(found) = 1 /\ found \cap OwnPayees = {} /\ resolvePayeeRef(list, ref) = p
  BY DEF resolvePayeeRef
<1>2. found # {}
  <2>1. SUFFICES ASSUME found = {} PROVE FALSE
    OBVIOUS
  <2>2. Cardinality(found) = 0
    BY <2>1, FS_EmptySet
  <2> QED BY <1>1, <2>2
<1>3. p \in found
  BY <1>2
<1> HIDE DEF p
<1>4. \A q \in found : q \in Payees /\ list[q] # Gone
  BY DEF PayeesNamed
<1> QED BY <1>1, <1>3, <1>4

LEMMA EntryFacts ==
    ASSUME NEW r, NEW patch, NEW list
    PROVE  /\ DOMAIN PlannedEntry(r, patch, list) \subseteq DOMAIN patch
           /\ \A f \in DOMAIN PlannedEntry(r, patch, list) :
                 /\ PlannedEntry(r, patch, list)[f] = Asked(f, patch, list)
                 /\ r[f] # PlannedEntry(r, patch, list)[f]
           /\ \A f \in DOMAIN patch \ DOMAIN PlannedEntry(r, patch, list) :
                 r[f] = Asked(f, patch, list)
  BY DEF PlannedEntry

LEMMA MergedFacts ==
    ASSUME NEW a, NEW b
    PROVE  /\ DOMAIN MergedPatch(a, b) = DOMAIN a \cup DOMAIN b
           /\ \A f \in DOMAIN b : MergedPatch(a, b)[f] = b[f]
           /\ \A f \in DOMAIN a \ DOMAIN b : MergedPatch(a, b)[f] = a[f]
           /\ ~Conflicts(a, b) => \A f \in DOMAIN a : MergedPatch(a, b)[f] = a[f]
  BY DEF MergedPatch, Conflicts

LEMMA VerdictFacts ==
    /\ \A n, v : Verdict(n, v).n = n /\ Verdict(n, v).verdict = v /\ DOMAIN Verdict(n, v) = {"n", "verdict"}
    /\ \A s, v : \A x \in Verdicts(s, v) : \E m \in Entries(s) : x = Verdict(m.n, v)
    /\ \A s, v : \A m \in Entries(s) : Verdict(m.n, v) \in Verdicts(s, v)
  BY DEF Verdict, Verdicts, Entries

-----------------------------------------------------------------------------
(* What each step of the call changes.                                      *)

SameQueues == UNCHANGED <<call.rest, call.merged, call.members, call.batch>>
SameReads  == UNCHANGED <<call.rows, call.list, call.saved>>
SameOps    == UNCHANGED <<call.ops, call.start>>
SameElse   == UNCHANGED <<server, caches, reader, changes, reads>>

LEMMA BeginEffect ==
    ASSUME NEW ops \in Requests, Begin(ops)
    PROVE  /\ call.pc = "idle" /\ DOMAIN call' = CallFields
           /\ call'.pc = "classify" /\ call'.ops = ops /\ call'.i = 1
           /\ call'.start = [row |-> row, payee |-> payee]
           /\ call'.groups = <<>> /\ call'.claimed = {} /\ call'.results = {}
           /\ call'.rest = <<>> /\ call'.merged = <<>> /\ call'.members = <<>> /\ call'.batch = <<>>
           /\ call'.list = None /\ call'.saved = None /\ DOMAIN call'.rows = {}
           /\ touched' = {}
           /\ UNCHANGED <<server, caches, reader, log, settled, changes, reads, faults>>
  BY DEF Begin, NoCall, CallFields

LEMMA ClassifyEffect ==
    ASSUME CallShape, Classify
    PROVE  /\ call.pc = "classify" /\ call.i <= Len(call.ops) /\ IsPatch(call.ops[call.i])
           /\ DOMAIN call' = CallFields /\ call'.i = call.i + 1
           /\ UNCHANGED <<call.pc, call.claimed>> /\ SameOps /\ SameQueues /\ SameReads
           /\ SameElse /\ UNCHANGED <<ghosts, faults>>
           /\ \/ /\ Unusable(call.ops[call.i].patch)
                 /\ call'.results = call.results \cup {Verdict(call.i, "refused")}
                 /\ UNCHANGED call.groups
              \/ /\ DOMAIN call.ops[call.i].patch = {}
                 /\ call'.results = call.results \cup {Verdict(call.i, "nothing")}
                 /\ UNCHANGED call.groups
              \/ /\ ~Unusable(call.ops[call.i].patch)
                 /\ call'.groups = Grouped(call.groups, call.ops[call.i].at,
                                           [n |-> call.i, txn |-> call.ops[call.i].txn,
                                            patch |-> call.ops[call.i].patch])
                 /\ UNCHANGED call.results
  BY DEF Classify, CallShape, CallFields, SameOps, SameQueues, SameReads, SameElse, server, caches

LEMMA ClassifiedEffect ==
    ASSUME CallShape, Classified
    PROVE  /\ call.pc = "classify" /\ call.i > Len(call.ops) /\ DOMAIN call' = CallFields
           /\ call'.pc = IF call.groups = <<>> THEN "done" ELSE "group"
           /\ UNCHANGED <<call.i, call.claimed, call.groups, call.results>>
           /\ SameOps /\ SameQueues /\ SameReads
           /\ SameElse /\ UNCHANGED <<ghosts, faults>>
  BY DEF Classified, CallShape, CallFields, SameOps, SameQueues, SameReads, SameElse

LEMMA RenameReadEffect ==
    ASSUME CallShape, RenameRead
    PROVE  /\ call.pc = "classify" /\ call.i <= Len(call.ops) /\ ~IsPatch(call.ops[call.i])
           /\ DOMAIN call' = CallFields
           /\ UNCHANGED <<call.claimed, call.groups>>
           /\ SameOps /\ SameQueues /\ SameReads /\ SameElse /\ UNCHANGED ghosts
           /\ \/ /\ call'.i = call.i + 1 /\ call'.pc = call.pc
                 /\ \E v \in {"unread", "refused", "nothing"} :
                       call'.results = call.results \cup {Verdict(call.i, v)}
              \/ /\ ~RenameRefused(payee, call.ops[call.i])
                 /\ call'.pc = "rename" /\ UNCHANGED <<call.i, call.results>>
<1> DEFINE o == call.ops[call.i]
<1>1. /\ call.pc = "classify" /\ call.i <= Len(call.ops) /\ ~IsPatch(o)
      /\ SameElse /\ UNCHANGED ghosts
  BY DEF RenameRead, SameElse
<1>2. \/ \E v \in {"unread", "refused", "nothing"} :
            call' = [call EXCEPT !.i = @ + 1, !.results = @ \cup {Verdict(call.i, v)}]
      \/ ~RenameRefused(payee, o) /\ call' = [call EXCEPT !.pc = "rename"]
  BY DEF RenameRead, FreshPayees
<1>3. DOMAIN call = CallFields
  BY DEF CallShape
<1>4. ASSUME NEW v \in {"unread", "refused", "nothing"},
             call' = [call EXCEPT !.i = @ + 1, !.results = @ \cup {Verdict(call.i, v)}]
      PROVE  /\ DOMAIN call' = CallFields /\ UNCHANGED <<call.claimed, call.groups, call.pc>>
             /\ SameOps /\ SameQueues /\ SameReads /\ call'.i = call.i + 1
             /\ call'.results = call.results \cup {Verdict(call.i, v)}
  BY <1>3, <1>4 DEF CallFields, SameOps, SameQueues, SameReads
<1>5. ASSUME call' = [call EXCEPT !.pc = "rename"]
      PROVE  /\ DOMAIN call' = CallFields
             /\ UNCHANGED <<call.claimed, call.groups, call.i, call.results>>
             /\ SameOps /\ SameQueues /\ SameReads /\ call'.pc = "rename"
  BY <1>3, <1>5 DEF CallFields, SameOps, SameQueues, SameReads
<1> QED BY <1>1, <1>2, <1>4, <1>5

LEMMA RenameSendEffect ==
    ASSUME CallShape, RenameSend
    PROVE  /\ call.pc = "rename" /\ DOMAIN call' = CallFields /\ call'.pc = "renamed"
           /\ call'.saved \in {"applied", "unknown"}
           /\ payee' \in {payee, [payee EXCEPT ![call.ops[call.i].payee] = call.ops[call.i].name]}
           /\ UNCHANGED <<call.i, call.claimed, call.groups, call.results, call.rows, call.list>>
           /\ SameOps /\ SameQueues /\ UNCHANGED <<row, live, caches, reader, ghosts, changes, reads>>
<1>1. DOMAIN call = CallFields
  BY DEF CallShape
<1>2. /\ call.pc = "rename"
      /\ payee' \in {payee, [payee EXCEPT ![call.ops[call.i].payee] = call.ops[call.i].name]}
      /\ UNCHANGED <<row, live, caches, reader, ghosts, changes, reads>>
      /\ \E v \in {"applied", "unknown"} : call' = [call EXCEPT !.pc = "renamed", !.saved = v]
  BY DEF RenameSend
<1>3. PICK v \in {"applied", "unknown"} : call' = [call EXCEPT !.pc = "renamed", !.saved = v]
  BY <1>2
<1>4. /\ DOMAIN call' = CallFields /\ call'.pc = "renamed" /\ call'.saved = v
      /\ UNCHANGED <<call.i, call.claimed, call.groups, call.results, call.rows, call.list>>
      /\ SameOps /\ SameQueues
  BY <1>1, <1>3 DEF CallFields, SameOps, SameQueues
<1> QED BY <1>2, <1>4

LEMMA RenameSettleEffect ==
    ASSUME CallShape, RenameSettle
    PROVE  /\ call.pc = "renamed" /\ DOMAIN call' = CallFields /\ call'.pc = "classify"
           /\ call'.i = call.i + 1 /\ call'.results = call.results \cup {Verdict(call.i, call.saved)}
           /\ index' = Invalidated
           /\ UNCHANGED <<call.claimed, call.groups, call.rows, call.list>>
           /\ SameOps /\ SameQueues /\ UNCHANGED <<server, reader, ghosts, changes, reads, faults>>
  BY DEF RenameSettle, CallShape, CallFields, SameOps, SameQueues

\* applyBulkGroup returns: the next group, or the end.
Returned ==
    /\ call'.pc = IF call'.groups = <<>> THEN "done" ELSE "group"
    /\ call'.batch = <<>> /\ call'.list = None /\ call'.saved = None /\ DOMAIN call'.rows = {}

LEMMA NextGroupEffect ==
    ASSUME NEW c, DOMAIN c = CallFields
    PROVE  /\ DOMAIN NextGroup(c) = CallFields
           /\ NextGroup(c).pc = IF c.groups = <<>> THEN "done" ELSE "group"
           /\ NextGroup(c).batch = <<>> /\ NextGroup(c).list = None /\ NextGroup(c).saved = None
           /\ DOMAIN NextGroup(c).rows = {}
           /\ NextGroup(c).ops = c.ops /\ NextGroup(c).i = c.i /\ NextGroup(c).groups = c.groups
           /\ NextGroup(c).claimed = c.claimed /\ NextGroup(c).rest = c.rest
           /\ NextGroup(c).merged = c.merged /\ NextGroup(c).members = c.members
           /\ NextGroup(c).results = c.results /\ NextGroup(c).start = c.start
  BY DEF NextGroup, CallFields

LEMMA OpenGroupEffect ==
    ASSUME CallShape, OpenGroup
    PROVE  /\ call.pc = "group" /\ DOMAIN call' = CallFields /\ call'.groups = Tail(call.groups)
           /\ UNCHANGED <<call.i, call.claimed, call.merged, call.members>> /\ SameOps
           /\ SameElse /\ UNCHANGED ghosts
           /\ \/ /\ call'.results = call.results \cup Verdicts(Head(call.groups).members, "unread")
                 /\ UNCHANGED call.rest /\ Returned
              \/ /\ call'.pc = "merge" /\ call'.rest = Head(call.groups).members
                 /\ SameReads /\ UNCHANGED <<call.results, call.batch>>
<1> DEFINE next == [call EXCEPT !.groups = Tail(@)]
           vs == Verdicts(Head(call.groups).members, "unread")
           failed == [next EXCEPT !.results = @ \cup vs]
<1>1. DOMAIN call = CallFields
  BY DEF CallShape
<1>2. call.pc = "group" /\ SameElse /\ UNCHANGED ghosts
  BY DEF OpenGroup, SameElse
<1>3. \/ call' = NextGroup(failed)
      \/ call' = [next EXCEPT !.pc = "merge", !.rest = Head(call.groups).members]
  BY DEF OpenGroup
<1> HIDE DEF vs
<1>4. /\ DOMAIN failed = CallFields /\ failed.groups = Tail(call.groups)
      /\ failed.results = call.results \cup vs
      /\ failed.i = call.i /\ failed.claimed = call.claimed /\ failed.rest = call.rest
      /\ failed.merged = call.merged /\ failed.members = call.members
      /\ failed.ops = call.ops /\ failed.start = call.start
  BY <1>1 DEF CallFields
<1>5. CASE call' = NextGroup(failed)
  <2> HIDE DEF failed
  <2> QED BY <1>2, <1>4, <1>5, NextGroupEffect DEF Returned, SameOps, vs
<1>6. CASE call' = [next EXCEPT !.pc = "merge", !.rest = Head(call.groups).members]
  <2>1. /\ DOMAIN call' = CallFields /\ call'.groups = Tail(call.groups)
        /\ UNCHANGED <<call.i, call.claimed, call.merged, call.members>> /\ SameOps
        /\ call'.pc = "merge" /\ call'.rest = Head(call.groups).members
        /\ SameReads /\ UNCHANGED <<call.results, call.batch>>
    BY <1>1, <1>6 DEF CallFields, SameOps, SameReads
  <2> QED BY <1>2, <2>1
<1> QED BY <1>3, <1>5, <1>6

\* The first of the members to be merged.
LEMMA MergeMemberEffect ==
    ASSUME CallShape, IsSeq(call.merged), \A m \in Entries(call.merged) : Sound(m), MergeMember
    PROVE  /\ call.pc = "merge" /\ call.rest # <<>> /\ DOMAIN call' = CallFields
           /\ call'.rest = Tail(call.rest)
           /\ UNCHANGED <<call.pc, call.i, call.claimed, call.groups, call.members, call.batch>>
           /\ SameOps /\ SameReads /\ SameElse /\ UNCHANGED <<ghosts, faults>>
           /\ \/ /\ Head(call.rest).txn \notin TxnsOf(call.merged)
                 /\ call'.merged = Append(call.merged, Head(call.rest)) /\ UNCHANGED call.results
              \/ \E k \in DOMAIN call.merged :
                    /\ call.merged[k].txn = Head(call.rest).txn
                    /\ \/ /\ call'.results = call.results \cup {Verdict(Head(call.rest).n, "conflict")}
                          /\ UNCHANGED call.merged
                       \/ /\ ~Conflicts(call.merged[k].patch, Head(call.rest).patch)
                          /\ call'.merged = [call.merged EXCEPT ![k] =
                                [n |-> call.merged[k].n, txn |-> call.merged[k].txn,
                                 patch |-> MergedPatch(call.merged[k].patch, Head(call.rest).patch)]]
                          /\ UNCHANGED call.results
<1> DEFINE m    == Head(call.rest)
           same   == {j \in DOMAIN call.merged : call.merged[j].txn = m.txn}
           k    == CHOOSE j \in same : TRUE
           next == [call EXCEPT !.rest = Tail(@)]
<1>1. DOMAIN call = CallFields
  BY DEF CallShape
<1>2. call.pc = "merge" /\ call.rest # <<>> /\ SameElse /\ UNCHANGED <<ghosts, faults>>
  BY DEF MergeMember, SameElse
<1>3. call' = IF same = {} THEN [next EXCEPT !.merged = Append(@, m)]
              ELSE IF Conflicts(call.merged[k].patch, m.patch)
              THEN [next EXCEPT !.results = @ \cup {Verdict(m.n, "conflict")}]
              ELSE [next EXCEPT !.merged[k].patch = MergedPatch(@, m.patch)]
  BY DEF MergeMember
<1> DEFINE Common ==
      /\ DOMAIN call' = CallFields /\ call'.rest = Tail(call.rest)
      /\ UNCHANGED <<call.pc, call.i, call.claimed, call.groups, call.members, call.batch>>
      /\ SameOps /\ SameReads
<1>4. CASE same = {}
  <2>1. call' = [next EXCEPT !.merged = Append(@, m)]
    BY <1>3, <1>4
  <2>2. Common /\ call'.merged = Append(call.merged, m) /\ UNCHANGED call.results
    BY <1>1, <2>1 DEF CallFields, SameOps, SameReads
  <2>3. m.txn \notin TxnsOf(call.merged)
    BY <1>4 DEF TxnsOf, Entries
  <2> QED BY <1>2, <2>2, <2>3
<1>5. CASE same # {}
  <2>1. k \in DOMAIN call.merged /\ call.merged[k].txn = m.txn
    BY <1>5
  <2>2. CASE Conflicts(call.merged[k].patch, m.patch)
    <3>1. call' = [next EXCEPT !.results = @ \cup {Verdict(m.n, "conflict")}]
      BY <1>3, <1>5, <2>2
    <3>2. /\ Common /\ UNCHANGED call.merged
          /\ call'.results = call.results \cup {Verdict(m.n, "conflict")}
      BY <1>1, <3>1 DEF CallFields, SameOps, SameReads
    <3> QED BY <1>2, <2>1, <3>2
  <2>3. CASE ~Conflicts(call.merged[k].patch, m.patch)
    <3> DEFINE p == MergedPatch(call.merged[k].patch, m.patch)
               e == [n |-> call.merged[k].n, txn |-> call.merged[k].txn, patch |-> p]
    <3>1. call' = [next EXCEPT !.merged[k].patch = MergedPatch(@, m.patch)]
      BY <1>3, <1>5, <2>3
    <3>2. next.merged = call.merged
      BY <1>1 DEF CallFields
    <3>3. call' = [next EXCEPT !.merged = [call.merged EXCEPT ![k] = [call.merged[k] EXCEPT !.patch = p]]]
      BY <1>1, <2>1, <3>1, <3>2 DEF CallFields
    <3> HIDE DEF p
    <3>4. [call.merged[k] EXCEPT !.patch = p] = e
      <4>1. call.merged[k] = [n |-> call.merged[k].n, txn |-> call.merged[k].txn,
                              patch |-> call.merged[k].patch]
        BY <2>1 DEF Entries, Sound
      <4>2. PICK old, q, a, b, c : /\ old = call.merged[k] /\ q = p /\ a = call.merged[k].n
                                   /\ b = call.merged[k].txn /\ c = call.merged[k].patch
        OBVIOUS
      <4>3. old = [n |-> a, txn |-> b, patch |-> c]
        BY <4>1, <4>2
      <4>4. [old EXCEPT !.patch = q] = [n |-> a, txn |-> b, patch |-> q]
        BY <4>3
      <4> QED BY <4>2, <4>4
    <3> HIDE DEF e
    <3>5. call' = [next EXCEPT !.merged = [call.merged EXCEPT ![k] = e]]
      BY <3>3, <3>4
    <3>6. Common /\ UNCHANGED call.results /\ call'.merged = [call.merged EXCEPT ![k] = e]
      BY <1>1, <3>5 DEF CallFields, SameOps, SameReads
    <3> QED BY <1>2, <2>1, <2>3, <3>6 DEF e, p
  <2> QED BY <2>2, <2>3
<1> QED BY <1>4, <1>5

LEMMA ClaimMemberEffect ==
    ASSUME CallShape, ClaimMember
    PROVE  /\ call.pc = "merge" /\ call.rest = <<>> /\ call.merged # <<>> /\ DOMAIN call' = CallFields
           /\ call'.merged = Tail(call.merged)
           /\ UNCHANGED <<call.pc, call.i, call.groups, call.rest, call.batch>>
           /\ SameOps /\ SameReads /\ SameElse /\ UNCHANGED <<ghosts, faults>>
           /\ \/ /\ Head(call.merged).txn \in call.claimed
                 /\ call'.results = call.results \cup {Verdict(Head(call.merged).n, "twice")}
                 /\ UNCHANGED <<call.claimed, call.members>>
              \/ /\ Head(call.merged).txn \notin call.claimed
                 /\ call'.claimed = call.claimed \cup {Head(call.merged).txn}
                 /\ call'.members = Append(call.members, Head(call.merged))
                 /\ UNCHANGED call.results
<1> DEFINE m    == Head(call.merged)
           next == [call EXCEPT !.merged = Tail(@)]
<1>1. DOMAIN call = CallFields
  BY DEF CallShape
<1>2. /\ call.pc = "merge" /\ call.rest = <<>> /\ call.merged # <<>>
      /\ SameElse /\ UNCHANGED <<ghosts, faults>>
      /\ call' = IF m.txn \in call.claimed
                 THEN [next EXCEPT !.results = @ \cup {Verdict(m.n, "twice")}]
                 ELSE [next EXCEPT !.claimed = @ \cup {m.txn}, !.members = Append(@, m)]
  BY DEF ClaimMember, SameElse
<1>3. CASE m.txn \in call.claimed
  <2>1. call' = [next EXCEPT !.results = @ \cup {Verdict(m.n, "twice")}]
    BY <1>2, <1>3
  <2>2. /\ DOMAIN call' = CallFields /\ call'.merged = Tail(call.merged)
        /\ UNCHANGED <<call.pc, call.i, call.groups, call.rest, call.batch, call.claimed, call.members>>
        /\ SameOps /\ SameReads /\ call'.results = call.results \cup {Verdict(m.n, "twice")}
    BY <1>1, <2>1 DEF CallFields, SameOps, SameReads
  <2> QED BY <1>2, <1>3, <2>2
<1>4. CASE m.txn \notin call.claimed
  <2>1. call' = [next EXCEPT !.claimed = @ \cup {m.txn}, !.members = Append(@, m)]
    BY <1>2, <1>4
  <2>2. /\ DOMAIN call' = CallFields /\ call'.merged = Tail(call.merged)
        /\ UNCHANGED <<call.pc, call.i, call.groups, call.rest, call.batch, call.results>>
        /\ SameOps /\ SameReads /\ call'.claimed = call.claimed \cup {m.txn}
        /\ call'.members = Append(call.members, m)
    BY <1>1, <2>1 DEF CallFields, SameOps, SameReads
  <2> QED BY <1>2, <1>4, <2>2
<1> QED BY <1>3, <1>4

LEMMA ClaimedEffect ==
    ASSUME CallShape, Claimed
    PROVE  /\ call.pc = "merge" /\ call.rest = <<>> /\ call.merged = <<>> /\ DOMAIN call' = CallFields
           /\ UNCHANGED <<call.i, call.claimed, call.groups, call.results, call.rest, call.merged,
                          call.members>>
           /\ SameOps /\ SameElse /\ UNCHANGED <<ghosts, faults>>
           /\ \/ call.members = <<>> /\ Returned
              \/ call.members # <<>> /\ call'.pc = "listing" /\ SameReads /\ UNCHANGED call.batch
<1>1. DOMAIN call = CallFields
  BY DEF CallShape
<1>2. /\ call.pc = "merge" /\ call.rest = <<>> /\ call.merged = <<>>
      /\ SameElse /\ UNCHANGED <<ghosts, faults>>
      /\ call' = IF call.members = <<>> THEN NextGroup(call) ELSE [call EXCEPT !.pc = "listing"]
  BY DEF Claimed, SameElse
<1>3. CASE call.members = <<>>
  <2>1. call' = NextGroup(call)
    BY <1>2, <1>3
  <2> QED BY <1>1, <1>2, <1>3, <2>1, NextGroupEffect DEF Returned, SameOps
<1>4. CASE call.members # <<>>
  <2>1. call' = [call EXCEPT !.pc = "listing"]
    BY <1>2, <1>4
  <2>2. /\ DOMAIN call' = CallFields /\ call'.pc = "listing"
        /\ UNCHANGED <<call.i, call.claimed, call.groups, call.results, call.rest, call.merged,
                       call.members, call.batch>>
        /\ SameOps /\ SameReads
    BY <1>1, <2>1 DEF CallFields, SameOps, SameReads
  <2> QED BY <1>2, <1>4, <2>2
<1> QED BY <1>3, <1>4

SameCall == UNCHANGED <<call.i, call.claimed, call.groups, call.results>> /\ SameOps /\ SameQueues

LEMMA FreshListingEffect ==
    ASSUME CallShape, FreshListing
    PROVE  /\ call.pc = "listing" /\ DOMAIN call' = CallFields /\ call'.pc = "rows"
           /\ SameCall /\ UNCHANGED <<call.list, call.saved>>
           /\ SameElse /\ UNCHANGED ghosts
           /\ \/ UNCHANGED call.rows
              \/ /\ DOMAIN call'.rows \subseteq TxnsOf(call.members)
                 /\ \A t \in DOMAIN call'.rows : call'.rows[t] = row[t]
<1>1. DOMAIN call = CallFields
  BY DEF CallShape
<1>2. /\ call.pc = "listing" /\ SameElse /\ UNCHANGED ghosts
      /\ \/ call' = [call EXCEPT !.rows = [t \in Listed |-> FreshRow(t)], !.pc = "rows"]
         \/ call' = [call EXCEPT !.pc = "rows"]
  BY DEF FreshListing, SameElse
<1>3. Listed \subseteq TxnsOf(call.members)
  BY DEF Listed, Targets, TxnsOf, Entries
<1>4. CASE call' = [call EXCEPT !.rows = [t \in Listed |-> FreshRow(t)], !.pc = "rows"]
  <2>1. /\ DOMAIN call' = CallFields /\ call'.pc = "rows"
        /\ SameCall /\ UNCHANGED <<call.list, call.saved>>
        /\ call'.rows = [t \in Listed |-> FreshRow(t)]
    BY <1>1, <1>4 DEF CallFields, SameCall, SameOps, SameQueues
  <2>2. DOMAIN call'.rows = Listed /\ \A t \in Listed : call'.rows[t] = row[t]
    BY <2>1 DEF FreshRow
  <2> QED BY <1>2, <1>3, <2>1, <2>2
<1>5. CASE call' = [call EXCEPT !.pc = "rows"]
  <2>1. /\ DOMAIN call' = CallFields /\ call'.pc = "rows"
        /\ SameCall /\ UNCHANGED <<call.list, call.saved, call.rows>>
    BY <1>1, <1>5 DEF CallFields, SameCall, SameOps, SameQueues
  <2> QED BY <1>2, <2>1
<1> QED BY <1>2, <1>4, <1>5

LEMMA StragglerEffect ==
    ASSUME CallShape, Straggler
    PROVE  /\ call.pc = "rows" /\ DOMAIN call' = CallFields
           /\ SameCall /\ UNCHANGED <<call.list, call.saved>>
           /\ SameElse /\ UNCHANGED ghosts
           /\ \/ /\ TxnsOf(call.members) \subseteq DOMAIN call.rows /\ call'.pc = "plan"
                 /\ UNCHANGED call.rows
              \/ /\ call'.pc = "rows"
                 /\ \E t \in TxnsOf(call.members) :
                       /\ DOMAIN call'.rows = DOMAIN call.rows \cup {t}
                       /\ call'.rows[t] \in {row[t], None}
                       /\ \A u \in DOMAIN call.rows : u # t => call'.rows[u] = call.rows[u]
<1> DEFINE missing == Targets \ DOMAIN call.rows
           m == CHOOSE m \in {call.members[k] : k \in DOMAIN call.members} : m.txn \in missing
           With(value) == [t \in DOMAIN call.rows \cup {m.txn} |->
                              IF t = m.txn THEN value ELSE call.rows[t]]
<1>1. DOMAIN call = CallFields
  BY DEF CallShape
<1>2. /\ call.pc = "rows" /\ SameElse /\ UNCHANGED ghosts
      /\ \/ missing = {} /\ call' = [call EXCEPT !.pc = "plan"]
         \/ /\ missing # {}
            /\ \E value \in {row[m.txn], None} : call' = [call EXCEPT !.rows = With(value)]
  BY DEF Straggler, SameElse, FreshRow
<1>3. Targets = TxnsOf(call.members)
  BY DEF Targets, TxnsOf, Entries
<1>4. CASE missing = {} /\ call' = [call EXCEPT !.pc = "plan"]
  <2>1. /\ DOMAIN call' = CallFields /\ call'.pc = "plan"
        /\ SameCall /\ UNCHANGED <<call.list, call.saved, call.rows>>
    BY <1>1, <1>4 DEF CallFields, SameCall, SameOps, SameQueues
  <2> QED BY <1>2, <1>3, <1>4, <2>1
<1>5. ASSUME missing # {}, NEW value \in {row[m.txn], None}, call' = [call EXCEPT !.rows = With(value)]
      PROVE  /\ DOMAIN call' = CallFields
             /\ SameCall /\ UNCHANGED <<call.list, call.saved>>
             /\ call'.pc = "rows"
             /\ \E t \in TxnsOf(call.members) :
                   /\ DOMAIN call'.rows = DOMAIN call.rows \cup {t}
                   /\ call'.rows[t] \in {row[t], None}
                   /\ \A u \in DOMAIN call.rows : u # t => call'.rows[u] = call.rows[u]
  <2>1. m.txn \in TxnsOf(call.members)
    <3>1. \E e \in {call.members[k] : k \in DOMAIN call.members} : e.txn \in missing
      BY <1>5 DEF Targets
    <3>2. m.txn \in missing
      BY <3>1
    <3> QED BY <1>3, <3>2
  <2> HIDE DEF m
  <2>2. /\ DOMAIN call' = CallFields
        /\ SameCall /\ UNCHANGED <<call.list, call.saved>>
        /\ call'.pc = call.pc /\ call'.rows = With(value)
    BY <1>1, <1>5 DEF CallFields, SameCall, SameOps, SameQueues
  <2>3. /\ DOMAIN call'.rows = DOMAIN call.rows \cup {m.txn}
        /\ call'.rows[m.txn] = value
        /\ \A u \in DOMAIN call.rows : u # m.txn => call'.rows[u] = call.rows[u]
    BY <2>2
  <2> QED BY <1>2, <1>5, <2>1, <2>2, <2>3
<1> QED BY <1>2, <1>4, <1>5

\* A patch that is not refused passes the guards.
Passes(t, r, patch, list) ==
    /\ ~r.deleted
    /\ "category" \in DOMAIN patch => t \notin Split \cup Transfer
    /\ "cleared" \in DOMAIN patch => r.cleared # "reconciled"
    /\ "payee" \in DOMAIN patch => resolvePayeeRef(list, patch["payee"]) # Gone

LEMMA NotRefusedPasses ==
    ASSUME NEW t, NEW r, NEW patch, NEW cats, NEW list, ~PatchRefused(t, r, patch, cats, list)
    PROVE  Passes(t, r, patch, list)
  BY DEF PatchRefused, RefusedSoFar, NoCategory, Passes

\* The list the members are planned against.
PlannedWith(list) == \/ call.list = None /\ list = payee
                     \/ call.list # None /\ list = call.list.names

LEMMA PlanMemberEffect ==
    ASSUME CallShape, PlanMember
    PROVE  LET m == Head(call.members)
               r == call.rows[m.txn]
           IN /\ call.pc = "plan" /\ call.members # <<>> /\ DOMAIN call' = CallFields
              /\ call'.members = Tail(call.members)
              /\ UNCHANGED <<call.pc, call.i, call.claimed, call.groups, call.rest, call.merged,
                             call.rows, call.saved>>
              /\ SameOps /\ UNCHANGED <<server, index, reader, ghosts, changes, reads>>
              /\ \/ UNCHANGED call.list
                 \/ call'.list # None /\ PlannedWith(call'.list.names)
                 \/ call'.list # None /\ \A p \in Payees : call'.list.names[p] = Gone
              /\ \/ /\ \E v \in {"unread", "refused"} :
                          call'.results = call.results \cup {Verdict(m.n, v)}
                    /\ UNCHANGED call.batch
                 \/ \E list :
                       /\ r # None /\ PlannedWith(list) /\ Passes(m.txn, r, m.patch, list)
                       /\ \/ /\ DOMAIN PlannedEntry(r, m.patch, list) = {}
                             /\ call'.results = call.results \cup {Verdict(m.n, "nothing")}
                             /\ UNCHANGED call.batch
                          \/ /\ DOMAIN PlannedEntry(r, m.patch, list) # {}
                             /\ call'.batch = Append(call.batch,
                                   [n |-> m.n, txn |-> m.txn, entry |-> PlannedEntry(r, m.patch, list)])
                             /\ UNCHANGED call.results
<1> DEFINE m     == Head(call.members)
           r     == call.rows[m.txn]
           read  == r # None
           cats  == IF tree = None THEN live ELSE tree.cats
           list  == IF call.list = None THEN payee ELSE call.list.names
           looksUpTree == read /\ "category" \in DOMAIN m.patch /\ ~NoCategory(m.txn, r)
           looksUpList == read /\ "payee" \in DOMAIN m.patch /\ ~RefusedSoFar(m.txn, r, m.patch, cats)
           entry == PlannedEntry(r, m.patch, list)
           next  == [call EXCEPT !.members = Tail(@)]
           known == [next EXCEPT !.list = IF looksUpList THEN [names |-> list] ELSE @]
           gone  == [next EXCEPT !.list = [names |-> [p \in Payees |-> Gone]]]
           Report(c, verdict) == [c EXCEPT !.results = @ \cup {Verdict(m.n, verdict)}]
<1>1. DOMAIN call = CallFields
  BY DEF CallShape
<1>2. /\ call.pc = "plan" /\ call.members # <<>>
      /\ UNCHANGED <<server, index, reader, ghosts, changes, reads>>
      /\ \/ call' = Report(next, "unread")
         \/ call' = Report(gone, "unread")
         \/ read /\ call' = IF PatchRefused(m.txn, r, m.patch, cats, list) THEN Report(known, "refused")
                            ELSE IF DOMAIN entry = {} THEN Report(known, "nothing")
                            ELSE [known EXCEPT !.batch = Append(@, [n |-> m.n, txn |-> m.txn,
                                                                    entry |-> entry])]
  BY DEF PlanMember
<1> DEFINE Common ==
      /\ DOMAIN call' = CallFields /\ call'.members = Tail(call.members)
      /\ UNCHANGED <<call.pc, call.i, call.claimed, call.groups, call.rest, call.merged,
                     call.rows, call.saved>>
      /\ SameOps
<1>3. PlannedWith(list)
  BY DEF PlannedWith
<1>4. CASE call' = Report(next, "unread")
  <2>1. /\ Common /\ UNCHANGED <<call.list, call.batch>>
        /\ call'.results = call.results \cup {Verdict(m.n, "unread")}
    BY <1>1, <1>4 DEF CallFields, SameOps
  <2> QED BY <1>2, <2>1
<1>5. CASE call' = Report(gone, "unread")
  <2>1. /\ Common /\ UNCHANGED call.batch /\ call'.list = [names |-> [p \in Payees |-> Gone]]
        /\ call'.results = call.results \cup {Verdict(m.n, "unread")}
    BY <1>1, <1>5 DEF CallFields, SameOps
  <2>2. call'.list # None /\ \A p \in Payees : call'.list.names[p] = Gone
    BY <2>1 DEF None
  <2> QED BY <1>2, <2>1, <2>2
<1>6. CASE read /\ call' = IF PatchRefused(m.txn, r, m.patch, cats, list) THEN Report(known, "refused")
                           ELSE IF DOMAIN entry = {} THEN Report(known, "nothing")
                           ELSE [known EXCEPT !.batch = Append(@, [n |-> m.n, txn |-> m.txn,
                                                                   entry |-> entry])]
  <2> DEFINE shown == IF looksUpList THEN [names |-> list] ELSE call.list
             added == [n |-> m.n, txn |-> m.txn, entry |-> entry]
  <2>1. known = [next EXCEPT !.list = shown]
    BY <1>1 DEF CallFields
  <2>2. shown = call.list \/ (shown # None /\ shown.names = list)
    <3>1. [names |-> list] # None /\ [names |-> list].names = list
      BY DEF None
    <3> HIDE DEF looksUpList
    <3> QED BY <3>1
  <2> HIDE DEF known, list, added, shown
  <2>3. CASE PatchRefused(m.txn, r, m.patch, cats, list)
    <3>1. call' = Report(known, "refused")
      BY <1>6, <2>3
    <3>2. /\ Common /\ UNCHANGED call.batch /\ call'.list = shown
          /\ call'.results = call.results \cup {Verdict(m.n, "refused")}
      BY <1>1, <2>1, <3>1 DEF CallFields, SameOps
    <3> QED BY <1>2, <1>3, <2>2, <3>2
  <2>4. CASE ~PatchRefused(m.txn, r, m.patch, cats, list)
    <3>1. Passes(m.txn, r, m.patch, list)
      BY <2>4, NotRefusedPasses
    <3>2. CASE DOMAIN entry = {}
      <4>1. call' = Report(known, "nothing")
        BY <1>6, <2>4, <3>2
      <4>2. /\ Common /\ UNCHANGED call.batch /\ call'.list = shown
            /\ call'.results = call.results \cup {Verdict(m.n, "nothing")}
        BY <1>1, <2>1, <4>1 DEF CallFields, SameOps
      <4> QED BY <1>2, <1>3, <1>6, <2>2, <3>1, <3>2, <4>2
    <3>3. CASE DOMAIN entry # {}
      <4>1. call' = [known EXCEPT !.batch = Append(@, added)]
        BY <1>6, <2>4, <3>3 DEF added
      <4>2. /\ Common /\ UNCHANGED call.results /\ call'.list = shown
            /\ call'.batch = Append(call.batch, added)
        BY <1>1, <2>1, <4>1 DEF CallFields, SameOps
      <4> QED BY <1>2, <1>3, <1>6, <2>2, <3>1, <3>3, <4>2 DEF added
    <3> QED BY <3>2, <3>3
  <2> QED BY <2>3, <2>4
<1> QED BY <1>2, <1>4, <1>5, <1>6

LEMMA PlannedEffect ==
    ASSUME CallShape, Planned
    PROVE  /\ call.pc = "plan" /\ call.members = <<>> /\ DOMAIN call' = CallFields
           /\ UNCHANGED <<call.i, call.claimed, call.groups, call.results, call.rest, call.merged,
                          call.members>>
           /\ SameOps /\ SameElse /\ UNCHANGED <<ghosts, faults>>
           /\ \/ call.batch = <<>> /\ Returned
              \/ call.batch # <<>> /\ call'.pc = "send" /\ SameReads /\ UNCHANGED call.batch
<1>1. DOMAIN call = CallFields
  BY DEF CallShape
<1>2. /\ call.pc = "plan" /\ call.members = <<>> /\ SameElse /\ UNCHANGED <<ghosts, faults>>
      /\ call' = IF call.batch = <<>> THEN NextGroup(call) ELSE [call EXCEPT !.pc = "send"]
  BY DEF Planned, SameElse
<1>3. CASE call.batch = <<>>
  <2>1. call' = NextGroup(call)
    BY <1>2, <1>3
  <2> QED BY <1>1, <1>2, <1>3, <2>1, NextGroupEffect DEF Returned, SameOps
<1>4. CASE call.batch # <<>>
  <2>1. call' = [call EXCEPT !.pc = "send"]
    BY <1>2, <1>4
  <2>2. /\ DOMAIN call' = CallFields /\ call'.pc = "send"
        /\ UNCHANGED <<call.i, call.claimed, call.groups, call.results, call.rest, call.merged,
                       call.members, call.batch>>
        /\ SameOps /\ SameReads
    BY <1>1, <2>1 DEF CallFields, SameOps, SameReads
  <2> QED BY <1>2, <1>4, <2>2
<1> QED BY <1>3, <1>4

\* Some entries of the batch, with some of their fields.
IsPart(part) ==
    /\ \A m \in part : \E b \in Entries(call.batch) :
          /\ m.n = b.n /\ m.txn = b.txn /\ m.sent = DOMAIN b.entry
          /\ DOMAIN m.entry \in (SUBSET DOMAIN b.entry) \ {{}}
          /\ \A f \in DOMAIN m.entry : m.entry[f] = b.entry[f]
    /\ \A m1, m2 \in part : m1.txn = m2.txn => m1 = m2

\* The answer shows some of the rows, as they are.
AnsweredWith(rows) ==
    /\ call'.saved # None
    /\ \A t \in DOMAIN call'.saved.rows : call'.saved.rows[t] = rows[t]

LEMMA PartIsPart ==
    ASSUME OnePerTxn(call.batch), NEW asks
    PROVE  IsPart(Part(asks))
<1>1. Batch = Entries(call.batch)
  BY DEF Batch, Entries
<1>2. \A b, c \in Batch : b.txn = c.txn => b = c
  BY DEF OnePerTxn, Batch
<1>3. ASSUME NEW m \in Part(asks)
      PROVE  \E b \in Batch : m = [n |-> b.n, txn |-> b.txn, sent |-> DOMAIN b.entry,
                                   entry |-> [f \in SavedFields(b, asks) |-> b.entry[f]]]
                              /\ SavedFields(b, asks) # {}
  BY DEF Part
<1>4. ASSUME NEW m \in Part(asks)
      PROVE  \E b \in Batch :
                /\ m.n = b.n /\ m.txn = b.txn /\ m.sent = DOMAIN b.entry
                /\ DOMAIN m.entry \in (SUBSET DOMAIN b.entry) \ {{}}
                /\ \A f \in DOMAIN m.entry : m.entry[f] = b.entry[f]
  <2>1. PICK b \in Batch : /\ m = [n |-> b.n, txn |-> b.txn, sent |-> DOMAIN b.entry,
                                   entry |-> [f \in SavedFields(b, asks) |-> b.entry[f]]]
                           /\ SavedFields(b, asks) # {}
    BY <1>3
  <2>2. m.n = b.n /\ m.txn = b.txn /\ m.sent = DOMAIN b.entry
        /\ m.entry = [f \in SavedFields(b, asks) |-> b.entry[f]]
    BY <2>1
  <2>3. DOMAIN m.entry = SavedFields(b, asks) /\ \A f \in DOMAIN m.entry : m.entry[f] = b.entry[f]
    BY <2>2
  <2>4. SavedFields(b, asks) \subseteq DOMAIN b.entry
    BY DEF SavedFields
  <2> QED BY <2>1, <2>2, <2>3, <2>4
<1>5. ASSUME NEW m1 \in Part(asks), NEW m2 \in Part(asks), m1.txn = m2.txn PROVE m1 = m2
  <2>1. PICK b \in Batch : m1 = [n |-> b.n, txn |-> b.txn, sent |-> DOMAIN b.entry,
                                 entry |-> [f \in SavedFields(b, asks) |-> b.entry[f]]]
    BY <1>3
  <2>2. PICK c \in Batch : m2 = [n |-> c.n, txn |-> c.txn, sent |-> DOMAIN c.entry,
                                 entry |-> [f \in SavedFields(c, asks) |-> c.entry[f]]]
    BY <1>3
  <2>3. b.txn = c.txn
    BY <1>5, <2>1, <2>2
  <2> QED BY <1>2, <2>1, <2>2, <2>3
<1> QED BY <1>1, <1>4, <1>5 DEF IsPart

LEMMA SendEffect ==
    ASSUME CallShape, OnePerTxn(call.batch), Send
    PROVE  /\ call.pc = "send" /\ DOMAIN call' = CallFields /\ call'.pc = "settle"
           /\ SameCall /\ UNCHANGED <<call.rows, call.list>>
           /\ UNCHANGED <<payee, live, caches, reader, settled, touched, changes, reads>>
           /\ \E part : IsPart(part) /\ Writes(part)
           /\ call'.saved = None \/ AnsweredWith(row')
<1>1. DOMAIN call = CallFields
  BY DEF CallShape
<1>2. call.pc = "send" /\ UNCHANGED <<payee, live, caches, reader, settled, touched, changes, reads>>
  BY DEF Send
<1>3. PICK asks \in SUBSET Asks :
         /\ Writes(Part(asks))
         /\ \E saved : /\ \/ saved = None \/ saved = [rows |-> row']
                          \/ \E txns \in SUBSET {b.txn : b \in Batch} :
                                saved = [rows |-> [t \in txns |-> row'[t]]]
                       /\ call' = [call EXCEPT !.pc = "settle", !.saved = saved]
  BY DEF Send
<1>4. PICK saved : /\ \/ saved = None \/ saved = [rows |-> row']
                      \/ \E txns \in SUBSET {b.txn : b \in Batch} :
                            saved = [rows |-> [t \in txns |-> row'[t]]]
                   /\ call' = [call EXCEPT !.pc = "settle", !.saved = saved]
  BY <1>3
<1>5. /\ DOMAIN call' = CallFields /\ call'.pc = "settle" /\ call'.saved = saved
      /\ SameCall /\ UNCHANGED <<call.rows, call.list>>
  BY <1>1, <1>4 DEF CallFields, SameCall, SameOps, SameQueues
<1>6. saved = None \/ (saved # None /\ \A t \in DOMAIN saved.rows : saved.rows[t] = row'[t])
  <2>1. CASE saved = [rows |-> row']
    BY <2>1 DEF None
  <2>2. CASE \E txns \in SUBSET {b.txn : b \in Batch} : saved = [rows |-> [t \in txns |-> row'[t]]]
    <3>1. PICK txns : saved = [rows |-> [t \in txns |-> row'[t]]]
      BY <2>2
    <3>2. saved.rows = [t \in txns |-> row'[t]] /\ saved # None
      BY <3>1 DEF None
    <3> QED BY <3>2
  <2> QED BY <1>4, <2>1, <2>2
<1>7. \E part : IsPart(part) /\ Writes(part)
  BY <1>3, PartIsPart
<1> QED BY <1>2, <1>5, <1>6, <1>7 DEF AnsweredWith

LEMMA SettleEffect ==
    ASSUME CallShape, Settle
    PROVE  /\ call.pc = "settle" /\ DOMAIN call' = CallFields
           /\ UNCHANGED <<call.i, call.claimed, call.groups, call.rest, call.merged, call.members>>
           /\ SameOps /\ Returned
           /\ call'.results = call.results \cup {Verdict(b.n, VerdictOf(b)) : b \in Entries(call.batch)}
           /\ index' = Invalidated
           /\ settled' = [t \in Txns |-> IF t \in TxnsOf(call.batch) THEN row[t].v ELSE settled[t]]
           /\ UNCHANGED <<server, payeeList, tree, reader, log, touched, changes, reads, faults>>
<1> DEFINE vs == {Verdict(b.n, VerdictOf(b)) : b \in Entries(call.batch)}
           c  == [call EXCEPT !.results = @ \cup vs]
<1>1. DOMAIN call = CallFields /\ Batch = Entries(call.batch)
  BY DEF CallShape, Batch, Entries
<1>2. /\ call.pc = "settle" /\ index' = Invalidated
      /\ UNCHANGED <<server, payeeList, tree, reader, log, touched, changes, reads, faults>>
  BY DEF Settle, AfterWrite
<1>3. settled' = [t \in Txns |-> IF t \in TxnsOf(call.batch) THEN row[t].v ELSE settled[t]]
  <2>1. \A t : t \in TxnsOf(call.batch) <=> \E b \in Batch : b.txn = t
    BY <1>1 DEF TxnsOf
  <2>2. settled' = [t \in Txns |-> IF \E b \in Batch : b.txn = t THEN row[t].v ELSE settled[t]]
    BY DEF Settle
  <2> QED BY <2>1, <2>2
<1>4. call' = NextGroup(c)
  <2>1. {Verdict(b.n, VerdictOf(b)) : b \in Batch} = vs
    BY <1>1
  <2> HIDE DEF vs
  <2> QED BY <2>1 DEF Settle
<1> HIDE DEF vs
<1>5. /\ DOMAIN c = CallFields /\ c.results = call.results \cup vs
      /\ c.i = call.i /\ c.claimed = call.claimed /\ c.groups = call.groups
      /\ c.rest = call.rest /\ c.merged = call.merged /\ c.members = call.members
      /\ c.ops = call.ops /\ c.start = call.start
  BY <1>1 DEF CallFields
<1> HIDE DEF c
<1> QED BY <1>1, <1>2, <1>3, <1>4, <1>5, NextGroupEffect DEF Returned, SameOps, vs

-----------------------------------------------------------------------------
(* The operations and where they are.                                       *)

LEMMA OpsFacts ==
    ASSUME CallShape
    PROVE  /\ Len(call.ops) \in Nat /\ DOMAIN call.ops = 1 .. Len(call.ops)
           /\ \A n \in DOMAIN call.ops : IsOp(call.ops[n])
           /\ call.i \in Nat
<1>1. CASE call.pc = "idle"
  <2>1. call.ops = <<>>
    BY <1>1 DEF CallShape
  <2>2. Len(<<>>) = 0 /\ DOMAIN <<>> = {}
    OBVIOUS
  <2> QED BY <2>1, <2>2 DEF CallShape
<1>2. CASE call.pc # "idle"
  <2>1. call.ops \in Requests
    BY <1>2 DEF CallShape
  <2>2. call.ops \in Seq(Range(call.ops)) /\ \A k \in DOMAIN call.ops : IsOp(call.ops[k])
    BY <2>1, YnabAssumption
  <2> QED BY <2>2, LenProperties DEF CallShape
<1> QED BY <1>1, <1>2

\* What is said of members stays true while the call goes on.
LEMMA SoundKept ==
    ASSUME CallShape, SameOps, call'.i \in Nat, call.i <= call'.i
    PROVE  /\ \A t, f : Setting(t, f)' = Setting(t, f)
           /\ \A m : Stands(m) => Stands(m)'
           /\ \A m : Sound(m) => Sound(m)'
           /\ \A m : AsAsked(m) => AsAsked(m)'
           /\ \A b : EntrySound(b) => EntrySound(b)'
<1>1. call'.ops = call.ops /\ call.i \in Nat
  BY DEF SameOps, CallShape
<1>2. \A t, f : Setting(t, f)' = Setting(t, f)
  BY <1>1 DEF Setting
<1>3. \A n : n \in 1 .. call.i - 1 => n \in 1 .. call'.i - 1
  BY <1>1
<1>4. \A m : Stands(m) => Stands(m)'
  BY <1>1, <1>3 DEF Stands
<1>5. \A m : Sound(m) => Sound(m)'
  BY <1>1, <1>2, <1>4 DEF Sound
<1>6. \A m : AsAsked(m) => AsAsked(m)'
  BY <1>1, <1>5 DEF AsAsked
<1>7. \A b : EntrySound(b) => EntrySound(b)'
  BY <1>2, <1>4 DEF EntrySound
<1> QED BY <1>2, <1>4, <1>5, <1>6, <1>7

LEMMA LastsStep ==
    ASSUME CallShape, LastsHold, SameOps, call'.i \in {call.i, call.i + 1}
    PROVE  LastsHold'
<1>1. \A t, f : Setting(t, f)' = Setting(t, f)
  BY DEF Setting, SameOps
<1>2. \A t, f : Setting(t, f) \subseteq Nat
  BY OpsFacts DEF Setting
<1>3. CASE call'.i = call.i
  BY <1>1, <1>3 DEF LastsHold
<1>4. CASE call'.i = call.i + 1
  <2>1. SUFFICES ASSUME NEW t, NEW f, NEW n \in Setting(t, f), n < call.i + 1
                 PROVE  \E last \in Setting(t, f) :
                           last < call.i + 1 /\ \A k \in Setting(t, f) : k < call.i + 1 => k <= last
    BY <1>1, <1>4 DEF LastsHold
  <2>2. call.i \in Nat
    BY OpsFacts
  <2>3. CASE call.i \in Setting(t, f)
    <3>1. \A k \in Setting(t, f) : k < call.i + 1 => k <= call.i
      BY <1>2, <2>2
    <3>2. call.i < call.i + 1
      BY <2>2
    <3> QED BY <2>3, <3>1, <3>2
  <2>4. CASE call.i \notin Setting(t, f)
    <3>1. \A k \in Setting(t, f) : k < call.i + 1 <=> k < call.i
      BY <1>2, <2>2, <2>4
    <3>2. n < call.i
      BY <2>1, <3>1
    <3> QED BY <3>1, <3>2 DEF LastsHold
  <2> QED BY <2>3, <2>4
<1> QED BY <1>3, <1>4

LEMMA QueuesKept ==
    ASSUME CallShape, SameOps, SameQueues, UNCHANGED call.groups, call'.i \in Nat, call.i <= call'.i,
           WaitingHolds, QueuesHold, QueuesApart
    PROVE  WaitingHolds' /\ QueuesHold' /\ QueuesApart'
<1>1. /\ call'.groups = call.groups /\ call'.rest = call.rest /\ call'.merged = call.merged
      /\ call'.members = call.members /\ call'.batch = call.batch
  BY DEF SameQueues
<1>2. /\ \A m : Sound(m) => Sound(m)'
      /\ \A m : AsAsked(m) => AsAsked(m)'
  BY SoundKept
<1>3. WaitingHolds'
  BY <1>1, <1>2 DEF WaitingHolds
<1>4. QueuesHold'
  BY <1>1, <1>2 DEF QueuesHold
<1>5. QueuesApart'
  BY <1>1 DEF QueuesApart
<1> QED BY <1>3, <1>4, <1>5

LEMMA UnchangedStructure ==
    ASSUME Structure, UNCHANGED call, UNCHANGED log
    PROVE  Structure'
<1>1. call' = call /\ log' = log
  OBVIOUS
<1>2. \A t, f : Setting(t, f)' = Setting(t, f)
  BY <1>1 DEF Setting
<1>3. \A m : (Sound(m) => Sound(m)') /\ (AsAsked(m) => AsAsked(m)')
  BY <1>1, <1>2 DEF Sound, AsAsked, Stands
<1>4. CallShape' /\ Phases'
  BY <1>1 DEF Structure, CallShape, Phases
<1>5. WaitingHolds' /\ QueuesHold' /\ QueuesApart'
  BY <1>1, <1>3 DEF Structure, WaitingHolds, QueuesHold, QueuesApart
<1>6. LastsHold'
  BY <1>1, <1>2 DEF Structure, LastsHold
<1> QED BY <1>4, <1>5, <1>6 DEF Structure

LEMMA BeginStructure ==
    ASSUME Structure, NEW ops \in Requests, Begin(ops)
    PROVE  Structure'
<1>1. /\ call.pc = "idle" /\ DOMAIN call' = CallFields
      /\ call'.pc = "classify" /\ call'.ops = ops /\ call'.i = 1
      /\ call'.start = [row |-> row, payee |-> payee]
      /\ call'.groups = <<>> /\ call'.claimed = {} /\ call'.results = {}
      /\ call'.rest = <<>> /\ call'.merged = <<>> /\ call'.members = <<>> /\ call'.batch = <<>>
      /\ call'.list = None /\ call'.saved = None /\ DOMAIN call'.rows = {}
      /\ log' = log
  BY BeginEffect
<1>2. Len(ops) \in Nat /\ DOMAIN ops = 1 .. Len(ops)
  BY YnabAssumption, LenProperties
<1>3. CallShape'
  <2>1. call'.start # None /\ DOMAIN call'.start = {"row", "payee"}
    BY <1>1 DEF None
  <2>2. call'.i \in Nat \ {0} /\ call'.i <= Len(call'.ops) + 1
    BY <1>1, <1>2
  <2> QED BY <1>1, <2>1, <2>2 DEF CallShape, Gathering
<1>4. WaitingHolds'
  BY <1>1, NoGroups DEF WaitingHolds
<1>5. QueuesHold'
  BY <1>1, EmptyFacts DEF QueuesHold
<1>6. QueuesApart'
  BY <1>1, EmptyFacts, NoGroups DEF QueuesApart
<1>7. Phases'
  <2>1. log = {}
    BY <1>1 DEF Structure, Phases, Gathering
  <2> QED BY <1>1, <2>1 DEF Phases, Gathering
<1>8. LastsHold'
  <2>1. \A t, f : \A n \in Setting(t, f)' : n \in Nat /\ ~(n < 1)
    BY <1>1, <1>2 DEF Setting
  <2> QED BY <1>1, <2>1 DEF LastsHold
<1> QED BY <1>3, <1>4, <1>5, <1>6, <1>7, <1>8 DEF Structure

\* The numbers of what is in a group, or is past its group, are smaller than that of the
\* next operation.
LEMMA PassedNumbers ==
    ASSUME CallShape, WaitingHolds, QueuesHold, BatchHolds
    PROVE  Unreported \subseteq 1 .. call.i - 1
<1>1. \A m \in InGroups(call.groups) : m.n \in 1 .. call.i - 1
  BY DEF WaitingHolds, AsAsked, Sound, Stands
<1>2. \A m \in Entries(call.rest) \cup Entries(call.merged) \cup Entries(call.members) : m.n \in 1 .. call.i - 1
  BY DEF QueuesHold, AsAsked, Sound, Stands
<1>3. \A b \in Entries(call.batch) : b.n \in 1 .. call.i - 1
  BY DEF BatchHolds, EntrySound, Stands
<1> QED BY <1>1, <1>2, <1>3 DEF Unreported, Early, Waiting, NsOf

LEMMA ClassifyStructure ==
    ASSUME Structure, BatchHolds, Classify
    PROVE  Structure'
<1> DEFINE o == call.ops[call.i]
           m == [n |-> call.i, txn |-> o.txn, patch |-> o.patch]
<1>1. /\ call.pc = "classify" /\ call.i <= Len(call.ops) /\ IsPatch(o)
      /\ DOMAIN call' = CallFields /\ call'.i = call.i + 1
      /\ UNCHANGED <<call.pc, call.claimed>> /\ SameOps /\ SameQueues /\ SameReads
      /\ log' = log
      /\ \/ call'.groups = call.groups
         \/ ~Unusable(o.patch) /\ call'.groups = Grouped(call.groups, o.at, m)
  BY ClassifyEffect DEF Structure, ghosts
<1> HIDE DEF m
<1>2. call.i \in Nat /\ call.i >= 1 /\ Len(call.ops) \in Nat /\ DOMAIN call.ops = 1 .. Len(call.ops)
  BY OpsFacts DEF Structure, CallShape
<1>3. /\ call'.pc = "classify" /\ call'.ops = call.ops /\ call'.start = call.start
      /\ call'.rest = call.rest /\ call'.merged = call.merged /\ call'.members = call.members
      /\ call'.batch = call.batch /\ call'.list = call.list /\ call'.rows = call.rows
      /\ call'.claimed = call.claimed
  BY <1>1 DEF SameOps, SameQueues, SameReads
<1>4. CallShape'
  <2>1. call'.i \in Nat \ {0} /\ call'.i <= Len(call'.ops) + 1
    BY <1>1, <1>2, <1>3
  <2> QED BY <1>1, <1>3, <2>1 DEF Structure, CallShape, Gathering
<1>5. Phases'
  BY <1>1, <1>3 DEF Structure, Phases, Gathering
<1>6. LastsHold'
  BY <1>1, LastsStep DEF Structure
<1>7. call'.i \in Nat /\ call.i <= call'.i
  BY <1>1, <1>2
<1>8. CASE call'.groups = call.groups
  <2>1. WaitingHolds' /\ QueuesHold' /\ QueuesApart'
    BY <1>1, <1>7, <1>8, QueuesKept DEF Structure
  <2> QED BY <1>4, <1>5, <1>6, <2>1 DEF Structure
<1>9. CASE ~Unusable(o.patch) /\ call'.groups = Grouped(call.groups, o.at, m)
  <2>1. PICK mm, p, j : mm = m /\ p = o /\ j = call.i
    OBVIOUS
  <2>2. /\ mm = [n |-> j, txn |-> p.txn, patch |-> p.patch] /\ j = call.i /\ p = call.ops[j]
        /\ call'.groups = Grouped(call.groups, p.at, mm) /\ ~Unusable(p.patch) /\ IsPatch(p)
    BY <1>1, <1>9, <2>1 DEF m
  <2>3. mm.n = j /\ mm.txn = p.txn /\ mm.patch = p.patch
    BY <2>2
  <2>4. mm = [n |-> mm.n, txn |-> mm.txn, patch |-> mm.patch]
    BY <2>2
  <2>5. j \notin Unreported
    <3>1. call.i \notin 1 .. call.i - 1
      BY <1>2
    <3> QED BY <2>2, <3>1, PassedNumbers DEF Structure
  <2>6. Partition(call'.groups) /\ InGroups(call'.groups) = InGroups(call.groups) \cup {mm}
    <3>1. Partition(call.groups) /\ mm.n \notin Waiting(call.groups)
      BY <2>3, <2>5 DEF Structure, WaitingHolds, Unreported, Early
    <3>2. PICK gs, key : gs = call.groups /\ key = p.at
      OBVIOUS
    <3>3. /\ Partition(Grouped(gs, key, mm))
          /\ InGroups(Grouped(gs, key, mm)) = InGroups(gs) \cup {mm}
      BY <3>1, <3>2, GroupedFacts
    <3> QED BY <2>2, <3>2, <3>3
  <2>7. AsAsked(mm)'
    <3>1. j \in 1 .. call'.i - 1 /\ j \in DOMAIN call'.ops /\ p = call'.ops[j]
      BY <1>1, <1>2, <1>3, <2>2
    <3>2. \A f \in DOMAIN mm.patch : j \in Setting(mm.txn, f)'
      BY <2>2, <2>3, <3>1 DEF Setting
    <3>3. "cleared" \in DOMAIN mm.patch => mm.patch["cleared"] # "reconciled"
      BY <2>2, <2>3 DEF Unusable
    <3>4. Stands(mm)'
      BY <2>2, <2>3, <3>1 DEF Stands
    <3>5. mm.patch = call'.ops[mm.n].patch
      BY <2>3, <3>1
    <3>6. \A f \in DOMAIN mm.patch : \E n \in Setting(mm.txn, f)' : mm.patch[f] = call'.ops[n].patch[f]
      BY <2>3, <3>2, <3>5
    <3>7. Sound(mm)'
      BY <2>4, <3>3, <3>4, <3>6 DEF Sound
    <3> QED BY <3>5, <3>7 DEF AsAsked
  <2>8. WaitingHolds'
    <3>1. \A e : AsAsked(e) => AsAsked(e)'
      BY <1>1, <1>7, SoundKept DEF Structure
    <3> QED BY <2>6, <2>7, <3>1 DEF Structure, WaitingHolds
  <2>9. QueuesHold'
    <3>1. \A e : (AsAsked(e) => AsAsked(e)') /\ (Sound(e) => Sound(e)')
      BY <1>1, <1>7, SoundKept DEF Structure
    <3> QED BY <1>3, <3>1 DEF Structure, QueuesHold
  <2>10. QueuesApart'
    <3>1. Waiting(call'.groups) = Waiting(call.groups) \cup {j}
      BY <2>3, <2>6 DEF Waiting
    <3>2. j \notin NsOf(call.rest) \cup NsOf(call.merged) \cup NsOf(call.members) \cup NsOf(call.batch)
      BY <2>5 DEF Unreported, Early
    <3> QED BY <1>3, <3>1, <3>2 DEF Structure, QueuesApart
  <2> QED BY <1>4, <1>5, <1>6, <2>8, <2>9, <2>10 DEF Structure
<1> QED BY <1>1, <1>8, <1>9

\* A step after the operations were gone through.
LEMMA LateShape ==
    ASSUME CallShape, call.pc \notin Gathering, call'.pc \notin Gathering, DOMAIN call' = CallFields,
           UNCHANGED call.i, SameOps
    PROVE  CallShape'
<1>1. /\ call'.ops = call.ops /\ call'.start = call.start /\ call'.i = call.i
      /\ call.pc # "idle" /\ call'.pc \notin {"idle", "rename", "renamed"}
  BY DEF SameOps, Gathering
<1> QED BY <1>1 DEF CallShape

\* The groups and the queues are as they were.
LEMMA StructureKept ==
    ASSUME Structure, SameOps, SameQueues, UNCHANGED call.groups, call'.i \in {call.i, call.i + 1},
           CallShape', Phases'
    PROVE  Structure'
<1>1. call'.i \in Nat /\ call.i \in Nat /\ call.i <= call'.i
  BY OpsFacts DEF Structure
<1>2. WaitingHolds' /\ QueuesHold' /\ QueuesApart'
  BY <1>1, QueuesKept DEF Structure
<1>3. LastsHold'
  BY LastsStep DEF Structure
<1> QED BY <1>2, <1>3 DEF Structure

LEMMA ClassifiedStructure ==
    ASSUME Structure, Classified
    PROVE  Structure'
<1>1. /\ call.pc = "classify" /\ call.i > Len(call.ops) /\ DOMAIN call' = CallFields
      /\ call'.pc = IF call.groups = <<>> THEN "done" ELSE "group"
      /\ UNCHANGED <<call.i, call.claimed, call.groups>>
      /\ SameOps /\ SameQueues /\ SameReads /\ log' = log
  BY ClassifiedEffect DEF Structure, ghosts
<1>2. call'.pc \in {"done", "group"} /\ call'.i = call.i /\ call'.ops = call.ops /\ call'.start = call.start
  BY <1>1 DEF SameOps
<1>3. call.i = Len(call.ops) + 1 /\ call'.i \in {call.i, call.i + 1}
  BY <1>1, <1>2, OpsFacts DEF Structure, CallShape
<1>4. CallShape'
  BY <1>1, <1>2, <1>3 DEF Structure, CallShape, Gathering
<1>5. Phases'
  <2>1. /\ call.rest = <<>> /\ call.merged = <<>> /\ call.members = <<>> /\ call.batch = <<>>
        /\ call.list = None /\ DOMAIN call.rows = {}
    BY <1>1 DEF Structure, Phases
  <2>2. /\ call'.rest = <<>> /\ call'.merged = <<>> /\ call'.members = <<>> /\ call'.batch = <<>>
        /\ call'.list = None /\ DOMAIN call'.rows = {}
    BY <1>1, <2>1 DEF SameQueues, SameReads
  <2>3. (call'.pc = "done" => call'.groups = <<>>) /\ (call'.pc = "group" => call'.groups # <<>>)
    BY <1>1
  <2> QED BY <1>2, <2>2, <2>3 DEF Phases, Gathering
<1> QED BY <1>1, <1>3, <1>4, <1>5, StructureKept

LEMMA RenameReadStructure ==
    ASSUME Structure, RenameRead
    PROVE  Structure'
<1>1. /\ call.pc = "classify" /\ call.i <= Len(call.ops) /\ ~IsPatch(call.ops[call.i])
      /\ DOMAIN call' = CallFields
      /\ UNCHANGED <<call.claimed, call.groups>>
      /\ SameOps /\ SameQueues /\ SameReads /\ log' = log
      /\ \/ call'.i = call.i + 1 /\ call'.pc = "classify"
         \/ call'.i = call.i /\ call'.pc = "rename"
  BY RenameReadEffect DEF Structure, ghosts
<1>2. call'.ops = call.ops /\ call'.start = call.start
  BY <1>1 DEF SameOps
<1>3. call.i \in Nat \ {0} /\ Len(call.ops) \in Nat
  BY OpsFacts DEF Structure, CallShape
<1>4. CallShape'
  <2>1. call'.i \in Nat \ {0} /\ call'.i <= Len(call'.ops) + 1
    BY <1>1, <1>2, <1>3
  <2> QED BY <1>1, <1>2, <2>1 DEF Structure, CallShape, Gathering
<1>5. Phases'
  <2>1. /\ call'.rest = call.rest /\ call'.merged = call.merged /\ call'.members = call.members
        /\ call'.batch = call.batch /\ call'.rows = call.rows /\ call'.list = call.list
        /\ call'.claimed = call.claimed
    BY <1>1 DEF SameQueues, SameReads
  <2> QED BY <1>1, <2>1 DEF Structure, Phases, Gathering
<1> QED BY <1>1, <1>4, <1>5, StructureKept

LEMMA RenameSendStructure ==
    ASSUME Structure, RenameSend
    PROVE  Structure'
<1>1. /\ call.pc = "rename" /\ DOMAIN call' = CallFields /\ call'.pc = "renamed"
      /\ call'.saved \in {"applied", "unknown"}
      /\ UNCHANGED <<call.i, call.claimed, call.groups, call.rows, call.list>>
      /\ SameOps /\ SameQueues /\ log' = log
  BY RenameSendEffect DEF Structure, ghosts
<1>2. call'.ops = call.ops /\ call'.start = call.start /\ call'.i = call.i
  BY <1>1 DEF SameOps
<1>3. CallShape'
  BY <1>1, <1>2 DEF Structure, CallShape, Gathering
<1>4. Phases'
  <2>1. /\ call'.rest = call.rest /\ call'.merged = call.merged /\ call'.members = call.members
        /\ call'.batch = call.batch
    BY <1>1 DEF SameQueues
  <2> QED BY <1>1, <2>1 DEF Structure, Phases, Gathering
<1> QED BY <1>1, <1>2, <1>3, <1>4, StructureKept

LEMMA RenameSettleStructure ==
    ASSUME Structure, RenameSettle
    PROVE  Structure'
<1>1. /\ call.pc = "renamed" /\ DOMAIN call' = CallFields /\ call'.pc = "classify"
      /\ call'.i = call.i + 1
      /\ UNCHANGED <<call.claimed, call.groups, call.rows, call.list>>
      /\ SameOps /\ SameQueues /\ log' = log
  BY RenameSettleEffect DEF Structure, ghosts
<1>2. call'.ops = call.ops /\ call'.start = call.start
  BY <1>1 DEF SameOps
<1>3. CallShape'
  <2>1. call.i \in Nat \ {0} /\ Len(call.ops) \in Nat /\ call.i <= Len(call.ops)
    BY <1>1, OpsFacts DEF Structure, CallShape
  <2>2. call'.i \in Nat \ {0} /\ call'.i <= Len(call'.ops) + 1
    BY <1>1, <1>2, <2>1
  <2> QED BY <1>1, <1>2, <2>2 DEF Structure, CallShape, Gathering
<1>4. Phases'
  <2>1. /\ call'.rest = call.rest /\ call'.merged = call.merged /\ call'.members = call.members
        /\ call'.batch = call.batch
    BY <1>1 DEF SameQueues
  <2> QED BY <1>1, <2>1 DEF Structure, Phases, Gathering
<1> QED BY <1>1, <1>3, <1>4, StructureKept

LEMMA OpenGroupStructure ==
    ASSUME Structure, OpenGroup
    PROVE  Structure'
<1> DEFINE first == Head(call.groups).members
<1>1. /\ call.pc = "group" /\ DOMAIN call' = CallFields /\ call'.groups = Tail(call.groups)
      /\ UNCHANGED <<call.i, call.claimed, call.merged, call.members>> /\ SameOps
      /\ \/ UNCHANGED call.rest /\ Returned
         \/ call'.pc = "merge" /\ call'.rest = first /\ SameReads /\ UNCHANGED call.batch
  BY OpenGroupEffect DEF Structure
<1>2. /\ call.rest = <<>> /\ call.merged = <<>> /\ call.members = <<>> /\ call.batch = <<>>
      /\ call.list = None /\ DOMAIN call.rows = {} /\ call.groups # <<>>
  BY <1>1 DEF Structure, Phases
<1>3. /\ call'.merged = <<>> /\ call'.members = <<>> /\ call'.batch = <<>>
      /\ call'.list = None /\ DOMAIN call'.rows = {}
      /\ \/ call'.rest = <<>> /\ call'.pc = IF call'.groups = <<>> THEN "done" ELSE "group"
         \/ call'.rest = first /\ call'.pc = "merge"
  BY <1>1, <1>2 DEF Returned, SameReads
<1>4. /\ Partition(call'.groups) /\ IsSeq(first) /\ OnePerOp(first)
      /\ InGroups(call.groups) = InGroups(call'.groups) \cup Entries(first)
      /\ Waiting(call'.groups) \cap NsOf(first) = {}
  <2>1. PICK gs : gs = call.groups
    OBVIOUS
  <2>2. Partition(gs) /\ gs # <<>>
    BY <1>2, <2>1 DEF Structure, WaitingHolds
  <2> QED BY <1>1, <2>1, <2>2, FirstGroup
<1> HIDE DEF first
<1>5. call'.i = call.i /\ call'.i \in Nat /\ call.i <= call'.i
  BY <1>1, OpsFacts DEF Structure
<1>6. \A m : AsAsked(m) => AsAsked(m)'
  BY <1>1, <1>5, SoundKept DEF Structure
<1>7. CallShape'
  BY <1>1, <1>3, LateShape DEF Structure, Gathering
<1>8. WaitingHolds'
  BY <1>4, <1>6 DEF Structure, WaitingHolds
<1>9. QueuesHold'
  <2>1. \A m \in Entries(first) : AsAsked(m)'
    BY <1>4, <1>6 DEF Structure, WaitingHolds
  <2> QED BY <1>3, <1>4, <2>1, EmptyFacts DEF QueuesHold
<1>10. QueuesApart'
  BY <1>3, <1>4, EmptyFacts DEF QueuesApart
<1>11. Phases'
  BY <1>3 DEF Phases, Gathering
<1>12. LastsHold'
  BY <1>1, <1>5, LastsStep DEF Structure
<1> QED BY <1>7, <1>8, <1>9, <1>10, <1>11, <1>12 DEF Structure

\* A merged patch asks what one of the two asked.
LEMMA MergedSound ==
    ASSUME NEW a, NEW m, NEW e, Sound(a), Sound(m), a.txn = m.txn,
           e = [n |-> a.n, txn |-> a.txn, patch |-> MergedPatch(a.patch, m.patch)]
    PROVE  Sound(e)
<1>1. e.n = a.n /\ e.txn = a.txn /\ e.patch = MergedPatch(a.patch, m.patch)
  OBVIOUS
<1>2. e = [n |-> e.n, txn |-> e.txn, patch |-> e.patch]
  BY <1>1
<1>3. \A f \in DOMAIN e.patch : \/ f \in DOMAIN a.patch /\ e.patch[f] = a.patch[f]
                                \/ f \in DOMAIN m.patch /\ e.patch[f] = m.patch[f]
  <2>1. PICK p, q, pq : p = a.patch /\ q = m.patch /\ pq = MergedPatch(p, q)
    OBVIOUS
  <2>2. /\ DOMAIN pq = DOMAIN p \cup DOMAIN q
        /\ \A f \in DOMAIN q : pq[f] = q[f]
        /\ \A f \in DOMAIN p \ DOMAIN q : pq[f] = p[f]
    BY <2>1 DEF MergedPatch
  <2> QED BY <1>1, <2>1, <2>2
<1>4. Stands(e)
  BY <1>1 DEF Sound, Stands
<1>5. \A f \in DOMAIN e.patch : \E n \in Setting(e.txn, f) : e.patch[f] = call.ops[n].patch[f]
  BY <1>1, <1>3 DEF Sound
<1>6. "cleared" \in DOMAIN e.patch => e.patch["cleared"] # "reconciled"
  BY <1>3 DEF Sound
<1> QED BY <1>2, <1>4, <1>5, <1>6 DEF Sound

LEMMA MergeMemberStructure ==
    ASSUME Structure, MergeMember
    PROVE  Structure'
<1>1. PICK m, rest, merged : m = Head(call.rest) /\ rest = call.rest /\ merged = call.merged
  OBVIOUS
<1>2. /\ call.pc = "merge" /\ rest # <<>> /\ DOMAIN call' = CallFields /\ call'.rest = Tail(rest)
      /\ UNCHANGED <<call.pc, call.i, call.claimed, call.groups, call.members, call.batch>>
      /\ SameOps /\ SameReads /\ log' = log
      /\ \/ m.txn \notin TxnsOf(merged) /\ call'.merged = Append(merged, m)
         \/ call'.merged = merged
         \/ \E k \in DOMAIN merged :
               /\ merged[k].txn = m.txn
               /\ call'.merged = [merged EXCEPT ![k] =
                     [n |-> merged[k].n, txn |-> merged[k].txn,
                      patch |-> MergedPatch(merged[k].patch, m.patch)]]
  <2>1. IsSeq(call.merged) /\ \A e \in Entries(call.merged) : Sound(e)
    BY DEF Structure, QueuesHold
  <2> QED BY <1>1, <2>1, MergeMemberEffect DEF Structure, ghosts
<1>3. /\ IsSeq(Tail(rest)) /\ m \in Entries(rest) /\ Entries(Tail(rest)) \subseteq Entries(rest)
      /\ NsOf(Tail(rest)) \subseteq NsOf(rest) /\ m.n \in NsOf(rest)
      /\ OnePerOp(Tail(rest)) /\ m.n \notin NsOf(Tail(rest))
  <2>1. IsSeq(rest) /\ OnePerOp(rest)
    BY <1>1 DEF Structure, QueuesHold
  <2>2. /\ IsSeq(Tail(rest)) /\ Head(rest) \in Entries(rest)
        /\ Entries(rest) = Entries(Tail(rest)) \cup {Head(rest)}
        /\ NsOf(rest) = NsOf(Tail(rest)) \cup {Head(rest).n}
        /\ (OnePerOp(rest) => OnePerOp(Tail(rest)) /\ Head(rest).n \notin NsOf(Tail(rest)))
    BY <1>2, <2>1, TailFacts
  <2> QED BY <1>1, <2>1, <2>2
<1>4. call.members = <<>> /\ call.batch = <<>>
  BY <1>1, <1>2 DEF Structure, Phases
<1>5. call'.members = <<>> /\ call'.batch = <<>> /\ call'.groups = call.groups /\ call'.i = call.i
  BY <1>2, <1>4
<1>6. AsAsked(m) /\ \A e \in Entries(merged) : Sound(e)
  BY <1>1, <1>3 DEF Structure, QueuesHold
<1>7. m.n \notin NsOf(merged) /\ NsOf(rest) \cap NsOf(merged) = {} /\ IsSeq(merged)
      /\ OnePerOp(merged) /\ OnePerTxn(merged)
  BY <1>1, <1>3 DEF Structure, QueuesHold, QueuesApart
<1> DEFINE Fine(q) == /\ IsSeq(q) /\ OnePerOp(q) /\ OnePerTxn(q)
                      /\ NsOf(q) \subseteq NsOf(merged) \cup {m.n}
                      /\ \A e \in Entries(q) : Sound(e)
<1>8. Fine(call'.merged)
  <2>1. CASE m.txn \notin TxnsOf(merged) /\ call'.merged = Append(merged, m)
    <3>1. /\ IsSeq(Append(merged, m)) /\ Entries(Append(merged, m)) = Entries(merged) \cup {m}
          /\ NsOf(Append(merged, m)) = NsOf(merged) \cup {m.n}
          /\ OnePerOp(Append(merged, m)) /\ OnePerTxn(Append(merged, m))
      BY <1>7, <2>1, AppendFacts
    <3>2. Sound(m)
      BY <1>6 DEF AsAsked
    <3> QED BY <1>6, <2>1, <3>1, <3>2
  <2>2. CASE call'.merged = merged
    BY <1>6, <1>7, <2>2
  <2>3. ASSUME NEW k \in DOMAIN merged, merged[k].txn = m.txn,
               call'.merged = [merged EXCEPT ![k] =
                  [n |-> merged[k].n, txn |-> merged[k].txn,
                   patch |-> MergedPatch(merged[k].patch, m.patch)]]
        PROVE  Fine(call'.merged)
    <3>1. PICK a, e : /\ a = merged[k]
                      /\ e = [n |-> a.n, txn |-> a.txn, patch |-> MergedPatch(a.patch, m.patch)]
      OBVIOUS
    <3>2. a \in Entries(merged) /\ Sound(a) /\ Sound(m)
      BY <1>6, <3>1 DEF Entries, AsAsked
    <3>3. Sound(e)
      BY <2>3, <3>1, <3>2, MergedSound
    <3>4. e.n = merged[k].n /\ e.txn = merged[k].txn
      BY <3>1
    <3>5. call'.merged = [merged EXCEPT ![k] = e]
      BY <2>3, <3>1
    <3>6. PICK new : new = call'.merged
      OBVIOUS
    <3>7. /\ IsSeq(new) /\ NsOf(new) = NsOf(merged)
          /\ \A x \in Entries(new) : x \in Entries(merged) \/ x = e
          /\ OnePerOp(merged) => OnePerOp(new)
          /\ OnePerTxn(merged) => OnePerTxn(new)
      <4>1. new = [merged EXCEPT ![k] = e]
        BY <3>5, <3>6
      <4>2. IsSeq(merged) /\ e.n = merged[k].n /\ e.txn = merged[k].txn
        BY <1>7, <3>4
      <4>3. LET r == [merged EXCEPT ![k] = e]
            IN /\ IsSeq(r) /\ NsOf(r) = NsOf(merged) /\ TxnsOf(r) = TxnsOf(merged)
               /\ \A x \in Entries(r) : x \in Entries(merged) \/ x = e
               /\ \A x \in Entries(merged) : x \in Entries(r) \/ x = merged[k]
               /\ e \in Entries(r)
               /\ OnePerOp(merged) => OnePerOp(r)
               /\ OnePerTxn(merged) => OnePerTxn(r)
        BY <4>2, ReplaceFacts
      <4> QED BY <4>1, <4>3
    <3>8. \A x \in Entries(new) : Sound(x)
      BY <1>6, <3>3, <3>7
    <3> QED BY <1>7, <3>6, <3>7, <3>8
  <2> QED BY <1>2, <2>1, <2>2, <2>3
<1>9. /\ \A e : Sound(e) => Sound(e)'
      /\ \A e : AsAsked(e) => AsAsked(e)'
  BY <1>2, <1>5, OpsFacts, SoundKept DEF Structure
<1>10. CallShape'
  BY <1>2, LateShape DEF Structure, Gathering
<1>11. WaitingHolds'
  BY <1>5, <1>9 DEF Structure, WaitingHolds
<1>12. QueuesHold'
  <2>1. \A e \in Entries(Tail(rest)) : AsAsked(e)
    BY <1>1, <1>3 DEF Structure, QueuesHold
  <2> QED BY <1>2, <1>3, <1>5, <1>8, <1>9, <2>1, EmptyFacts DEF QueuesHold
<1>13. QueuesApart'
  <2>1. Waiting(call.groups) \cap (NsOf(rest) \cup NsOf(merged)) = {}
    BY <1>1 DEF Structure, QueuesApart
  <2> QED BY <1>2, <1>3, <1>5, <1>7, <1>8, <2>1, EmptyFacts DEF QueuesApart
<1>14. Phases'
  <2>1. DOMAIN call'.rows = {} /\ call'.list = None /\ call'.pc = "merge"
    BY <1>2 DEF Structure, Phases, SameReads
  <2> QED BY <1>5, <2>1 DEF Phases, Gathering
<1>15. LastsHold'
  BY <1>2, <1>5, LastsStep DEF Structure
<1> QED BY <1>10, <1>11, <1>12, <1>13, <1>14, <1>15 DEF Structure

LEMMA ClaimMemberStructure ==
    ASSUME Structure, ClaimsHold, ClaimMember
    PROVE  Structure'
<1>1. PICK m, merged, members : m = Head(call.merged) /\ merged = call.merged /\ members = call.members
  OBVIOUS
<1>2. /\ call.pc = "merge" /\ call.rest = <<>> /\ merged # <<>> /\ DOMAIN call' = CallFields
      /\ call'.merged = Tail(merged)
      /\ UNCHANGED <<call.pc, call.i, call.groups, call.rest, call.batch>>
      /\ SameOps /\ SameReads /\ log' = log
      /\ \/ call'.members = members
         \/ m.txn \notin call.claimed /\ call'.members = Append(members, m)
  BY <1>1, ClaimMemberEffect DEF Structure, ghosts
<1>3. /\ IsSeq(Tail(merged)) /\ OnePerOp(Tail(merged)) /\ OnePerTxn(Tail(merged))
      /\ Entries(merged) = Entries(Tail(merged)) \cup {m}
      /\ NsOf(merged) = NsOf(Tail(merged)) \cup {m.n} /\ TxnsOf(merged) = TxnsOf(Tail(merged)) \cup {m.txn}
      /\ m.n \notin NsOf(Tail(merged)) /\ m.txn \notin TxnsOf(Tail(merged))
  <2>1. IsSeq(merged) /\ OnePerOp(merged) /\ OnePerTxn(merged)
    BY <1>1 DEF Structure, QueuesHold
  <2> QED BY <1>1, <1>2, <2>1, TailFacts
<1>4. call.batch = <<>>
  BY <1>2 DEF Structure, Phases
<1>5. /\ call'.rest = <<>> /\ call'.batch = <<>> /\ call'.groups = call.groups /\ call'.i = call.i
      /\ call'.pc = "merge"
  BY <1>2, <1>4
<1>6. /\ \A e \in Entries(merged) \cup Entries(members) : Sound(e)
      /\ IsSeq(members) /\ OnePerOp(members) /\ OnePerTxn(members)
      /\ NsOf(merged) \cap NsOf(members) = {} /\ TxnsOf(merged) \cap TxnsOf(members) = {}
      /\ Waiting(call.groups) \cap (NsOf(merged) \cup NsOf(members)) = {}
  BY <1>1 DEF Structure, QueuesHold, QueuesApart
<1>7. /\ IsSeq(call'.members) /\ OnePerOp(call'.members) /\ OnePerTxn(call'.members)
      /\ Entries(call'.members) \subseteq Entries(members) \cup {m}
      /\ NsOf(call'.members) \subseteq NsOf(members) \cup {m.n}
      /\ TxnsOf(call'.members) \subseteq TxnsOf(members) \cup {m.txn}
  <2>1. CASE call'.members = members
    BY <1>6, <2>1
  <2>2. CASE call'.members = Append(members, m)
    <3>1. m.n \notin NsOf(members) /\ m.txn \notin TxnsOf(members)
      BY <1>3, <1>6
    <3> QED BY <1>6, <2>2, <3>1, AppendFacts
  <2> QED BY <1>2, <2>1, <2>2
<1>8. /\ \A e : Sound(e) => Sound(e)'
      /\ \A e : AsAsked(e) => AsAsked(e)'
  BY <1>2, <1>5, OpsFacts, SoundKept DEF Structure
<1>9. CallShape'
  BY <1>2, LateShape DEF Structure, Gathering
<1>10. WaitingHolds'
  BY <1>5, <1>8 DEF Structure, WaitingHolds
<1>11. QueuesHold'
  <2>1. \A e \in Entries(call'.merged) \cup Entries(call'.members) : Sound(e)'
    BY <1>2, <1>3, <1>6, <1>7, <1>8
  <2> QED BY <1>2, <1>3, <1>5, <1>7, <2>1, EmptyFacts DEF QueuesHold
<1>12. QueuesApart'
  BY <1>2, <1>3, <1>5, <1>6, <1>7, EmptyFacts DEF QueuesApart
<1>13. Phases'
  <2>1. DOMAIN call'.rows = {} /\ call'.list = None
    BY <1>2 DEF Structure, Phases, SameReads
  <2> QED BY <1>5, <2>1 DEF Phases, Gathering
<1>14. LastsHold'
  BY <1>2, <1>5, LastsStep DEF Structure
<1> QED BY <1>9, <1>10, <1>11, <1>12, <1>13, <1>14 DEF Structure

LEMMA ClaimedStructure ==
    ASSUME Structure, Claimed
    PROVE  Structure'
<1>1. /\ call.pc = "merge" /\ call.rest = <<>> /\ call.merged = <<>> /\ DOMAIN call' = CallFields
      /\ UNCHANGED <<call.i, call.claimed, call.groups, call.rest, call.merged, call.members>>
      /\ SameOps /\ log' = log
      /\ \/ call.members = <<>> /\ Returned
         \/ call.members # <<>> /\ call'.pc = "listing" /\ SameReads /\ UNCHANGED call.batch
  BY ClaimedEffect DEF Structure, ghosts
<1>2. call.batch = <<>> /\ call.list = None /\ DOMAIN call.rows = {}
  BY <1>1 DEF Structure, Phases
<1>3. /\ call'.batch = <<>> /\ call'.list = None /\ DOMAIN call'.rows = {}
      /\ \/ call'.members = <<>> /\ call'.pc = IF call'.groups = <<>> THEN "done" ELSE "group"
         \/ call'.pc = "listing"
  BY <1>1, <1>2 DEF Returned, SameReads
<1>4. CallShape'
  BY <1>1, <1>3, LateShape DEF Structure, Gathering
<1>5. Phases'
  BY <1>1, <1>3 DEF Phases, Gathering
<1>6. SameQueues /\ call'.i = call.i
  BY <1>1, <1>2, <1>3 DEF SameQueues
<1> QED BY <1>1, <1>4, <1>5, <1>6, StructureKept

LEMMA ReadingStructure ==
    ASSUME Structure, call.pc \in {"listing", "rows"}, call'.pc \in {"rows", "plan"},
           DOMAIN call' = CallFields, SameCall, UNCHANGED call.list, UNCHANGED log
    PROVE  Structure'
<1>1. /\ call'.rest = call.rest /\ call'.merged = call.merged /\ call'.members = call.members
      /\ call'.batch = call.batch /\ SameOps /\ SameQueues /\ call'.i = call.i
      /\ call'.groups = call.groups /\ call'.list = call.list
  BY DEF SameCall, SameQueues
<1>2. CallShape'
  BY <1>1, LateShape DEF Structure, Gathering
<1>3. /\ call'.rest = <<>> /\ call'.merged = <<>> /\ call'.batch = <<>> /\ call'.list = None
  BY <1>1 DEF Structure, Phases
<1>4. Phases'
  BY <1>3 DEF Phases, Gathering
<1> QED BY <1>1, <1>2, <1>4, StructureKept

LEMMA FreshListingStructure ==
    ASSUME Structure, FreshListing
    PROVE  Structure'
<1>1. /\ call.pc = "listing" /\ DOMAIN call' = CallFields /\ call'.pc = "rows"
      /\ SameCall /\ UNCHANGED call.list /\ UNCHANGED log
  BY FreshListingEffect DEF Structure, ghosts
<1> QED BY <1>1, ReadingStructure

LEMMA StragglerStructure ==
    ASSUME Structure, Straggler
    PROVE  Structure'
<1>1. /\ call.pc = "rows" /\ DOMAIN call' = CallFields /\ call'.pc \in {"rows", "plan"}
      /\ SameCall /\ UNCHANGED call.list /\ UNCHANGED log
  BY StragglerEffect DEF Structure, ghosts
<1> QED BY <1>1, ReadingStructure

LEMMA PlanMemberStructure ==
    ASSUME Structure, PlanMember
    PROVE  Structure'
<1>1. PICK m, members, batch : m = Head(call.members) /\ members = call.members /\ batch = call.batch
  OBVIOUS
<1>2. /\ call.pc = "plan" /\ members # <<>> /\ DOMAIN call' = CallFields
      /\ call'.members = Tail(members)
      /\ UNCHANGED <<call.pc, call.i, call.claimed, call.groups, call.rest, call.merged, call.rows>>
      /\ SameOps /\ log' = log
      /\ \/ call'.batch = batch
         \/ \E entry : call'.batch = Append(batch, [n |-> m.n, txn |-> m.txn, entry |-> entry])
  BY <1>1, PlanMemberEffect DEF Structure, ghosts
<1>3. /\ IsSeq(Tail(members)) /\ OnePerOp(Tail(members)) /\ OnePerTxn(Tail(members))
      /\ Entries(members) = Entries(Tail(members)) \cup {m}
      /\ NsOf(members) = NsOf(Tail(members)) \cup {m.n} /\ TxnsOf(members) = TxnsOf(Tail(members)) \cup {m.txn}
      /\ m.n \notin NsOf(Tail(members)) /\ m.txn \notin TxnsOf(Tail(members))
  <2>1. IsSeq(members) /\ OnePerOp(members) /\ OnePerTxn(members)
    BY <1>1 DEF Structure, QueuesHold
  <2> QED BY <1>1, <1>2, <2>1, TailFacts
<1>4. call.rest = <<>> /\ call.merged = <<>>
  BY <1>2 DEF Structure, Phases
<1>5. /\ call'.rest = <<>> /\ call'.merged = <<>> /\ call'.groups = call.groups /\ call'.i = call.i
      /\ call'.pc = "plan"
  BY <1>2, <1>4
<1>6. /\ \A e \in Entries(members) : Sound(e)
      /\ IsSeq(batch) /\ OnePerOp(batch) /\ OnePerTxn(batch)
      /\ NsOf(members) \cap NsOf(batch) = {} /\ TxnsOf(members) \cap TxnsOf(batch) = {}
      /\ Waiting(call.groups) \cap (NsOf(members) \cup NsOf(batch)) = {}
  BY <1>1 DEF Structure, QueuesHold, QueuesApart
<1>7. /\ IsSeq(call'.batch) /\ OnePerOp(call'.batch) /\ OnePerTxn(call'.batch)
      /\ NsOf(call'.batch) \subseteq NsOf(batch) \cup {m.n}
      /\ TxnsOf(call'.batch) \subseteq TxnsOf(batch) \cup {m.txn}
  <2>1. CASE call'.batch = batch
    BY <1>6, <2>1
  <2>2. ASSUME NEW entry, call'.batch = Append(batch, [n |-> m.n, txn |-> m.txn, entry |-> entry])
        PROVE  /\ IsSeq(call'.batch) /\ OnePerOp(call'.batch) /\ OnePerTxn(call'.batch)
               /\ NsOf(call'.batch) \subseteq NsOf(batch) \cup {m.n}
               /\ TxnsOf(call'.batch) \subseteq TxnsOf(batch) \cup {m.txn}
    <3>1. PICK b : b = [n |-> m.n, txn |-> m.txn, entry |-> entry]
      OBVIOUS
    <3>2. b.n = m.n /\ b.txn = m.txn /\ call'.batch = Append(batch, b)
      BY <2>2, <3>1
    <3>3. b.n \notin NsOf(batch) /\ b.txn \notin TxnsOf(batch)
      BY <1>3, <1>6, <3>2
    <3> QED BY <1>6, <3>2, <3>3, AppendFacts
  <2> QED BY <1>2, <2>1, <2>2
<1>8. /\ \A e : Sound(e) => Sound(e)'
      /\ \A e : AsAsked(e) => AsAsked(e)'
  BY <1>2, <1>5, OpsFacts, SoundKept DEF Structure
<1>9. CallShape'
  BY <1>2, LateShape DEF Structure, Gathering
<1>10. WaitingHolds'
  BY <1>5, <1>8 DEF Structure, WaitingHolds
<1>11. QueuesHold'
  <2>1. \A e \in Entries(call'.members) : Sound(e)'
    BY <1>2, <1>3, <1>6, <1>8
  <2> QED BY <1>2, <1>3, <1>5, <1>7, <2>1, EmptyFacts DEF QueuesHold
<1>12. QueuesApart'
  BY <1>2, <1>3, <1>5, <1>6, <1>7, EmptyFacts DEF QueuesApart
<1>13. Phases'
  BY <1>5 DEF Phases, Gathering
<1>14. LastsHold'
  BY <1>2, <1>5, LastsStep DEF Structure
<1> QED BY <1>9, <1>10, <1>11, <1>12, <1>13, <1>14 DEF Structure

LEMMA PlannedStructure ==
    ASSUME Structure, Planned
    PROVE  Structure'
<1>1. /\ call.pc = "plan" /\ call.members = <<>> /\ DOMAIN call' = CallFields
      /\ UNCHANGED <<call.i, call.claimed, call.groups, call.rest, call.merged, call.members>>
      /\ SameOps /\ log' = log
      /\ \/ call.batch = <<>> /\ Returned
         \/ call.batch # <<>> /\ call'.pc = "send" /\ SameReads /\ UNCHANGED call.batch
  BY PlannedEffect DEF Structure, ghosts
<1>2. call.rest = <<>> /\ call.merged = <<>>
  BY <1>1 DEF Structure, Phases
<1>3. /\ call'.rest = <<>> /\ call'.merged = <<>> /\ call'.members = <<>> /\ call'.batch = call.batch
      /\ \/ /\ call'.pc = IF call'.groups = <<>> THEN "done" ELSE "group"
            /\ call'.batch = <<>> /\ call'.list = None /\ DOMAIN call'.rows = {}
         \/ call'.pc = "send" /\ call'.batch # <<>>
  BY <1>1, <1>2 DEF Returned, SameReads
<1>4. CallShape'
  BY <1>1, <1>3, LateShape DEF Structure, Gathering
<1>5. Phases'
  BY <1>3 DEF Phases, Gathering
<1>6. SameQueues /\ call'.i = call.i
  BY <1>1, <1>3 DEF SameQueues
<1> QED BY <1>1, <1>4, <1>5, <1>6, StructureKept

LEMMA SendStructure ==
    ASSUME Structure, Send
    PROVE  Structure'
<1>1. /\ call.pc = "send" /\ DOMAIN call' = CallFields /\ call'.pc = "settle" /\ SameCall
  BY SendEffect DEF Structure, QueuesHold
<1>2. /\ call'.rest = call.rest /\ call'.merged = call.merged /\ call'.members = call.members
      /\ SameOps /\ SameQueues /\ call'.i = call.i /\ call'.groups = call.groups
  BY <1>1 DEF SameCall, SameQueues
<1>3. CallShape'
  BY <1>1, <1>2, LateShape DEF Structure, Gathering
<1>4. Phases'
  <2>1. call'.rest = <<>> /\ call'.merged = <<>> /\ call'.members = <<>>
    BY <1>1, <1>2 DEF Structure, Phases
  <2> QED BY <1>1, <2>1 DEF Phases, Gathering
<1> QED BY <1>2, <1>3, <1>4, StructureKept

LEMMA SettleStructure ==
    ASSUME Structure, Settle
    PROVE  Structure'
<1>1. /\ call.pc = "settle" /\ DOMAIN call' = CallFields
      /\ UNCHANGED <<call.i, call.claimed, call.groups, call.rest, call.merged, call.members>>
      /\ SameOps /\ Returned /\ log' = log
  BY SettleEffect DEF Structure
<1>2. call.rest = <<>> /\ call.merged = <<>> /\ call.members = <<>>
  BY <1>1 DEF Structure, Phases
<1>3. /\ call'.rest = <<>> /\ call'.merged = <<>> /\ call'.members = <<>> /\ call'.batch = <<>>
      /\ call'.groups = call.groups /\ call'.i = call.i
      /\ call'.pc = IF call'.groups = <<>> THEN "done" ELSE "group"
      /\ call'.list = None /\ DOMAIN call'.rows = {}
  BY <1>1, <1>2 DEF Returned
<1>4. call'.pc \in {"done", "group"}
  BY <1>3
<1>5. CallShape'
  BY <1>1, <1>4, LateShape DEF Structure, Gathering
<1>6. Phases'
  BY <1>3, <1>4 DEF Phases, Gathering
<1>7. \A e : AsAsked(e) => AsAsked(e)'
  BY <1>1, <1>3, OpsFacts, SoundKept DEF Structure
<1>8. WaitingHolds'
  BY <1>3, <1>7 DEF Structure, WaitingHolds
<1>9. QueuesHold'
  BY <1>3, EmptyFacts DEF QueuesHold
<1>10. QueuesApart'
  BY <1>3, EmptyFacts DEF QueuesApart
<1>11. LastsHold'
  BY <1>1, <1>3, LastsStep DEF Structure
<1> QED BY <1>5, <1>6, <1>8, <1>9, <1>10, <1>11 DEF Structure

-----------------------------------------------------------------------------
(* What readers, time and YNAB's app do.                                    *)

\* Nothing happens to the call; a row changes only in the app, by being reconciled or deleted.
Outside ==
    /\ UNCHANGED <<call, log, settled>>
    /\ touched \subseteq touched' /\ ServerShape'
    /\ \A t \in Txns : /\ row[t].v <= row'[t].v
                       /\ t \notin touched' => row'[t] = row[t]
                       /\ \A f \in Fields : \/ row'[t][f] = row[t][f]
                                            \/ f = "cleared" /\ row'[t].cleared = "reconciled"
    /\ \A p \in Payees : p \notin touched' => payee'[p] = payee[p]

LEMMA QuietOutside ==
    ASSUME ServerShape, UNCHANGED <<server, call, log, settled, touched>>
    PROVE  Outside
<1>1. row' = row /\ payee' = payee /\ touched' = touched
  BY DEF server
<1>2. \A t \in Txns : row[t].v \in Nat
  BY DEF ServerShape, IsRow
<1>3. \A t \in Txns : row[t].v <= row[t].v
  BY <1>2
<1> QED BY <1>1, <1>3 DEF Outside, ServerShape

\* A row after a change in the app.
LEMMA ChangedRow ==
    ASSUME NEW r, IsRow(r), NEW s, DOMAIN s = DOMAIN r, s = [f \in DOMAIN s |-> s[f]],
           s.v = r.v + 1, s.deleted \in BOOLEAN, \A f \in Fields : f # "cleared" => s[f] = r[f]
    PROVE  IsRow(s) /\ r.v <= s.v
<1>1. r.v \in Nat /\ DOMAIN r = Fields \cup {"deleted", "v"}
  BY DEF IsRow
<1>2. r.v + 1 \in Nat /\ r.v <= r.v + 1
  BY <1>1
<1> QED BY <1>1, <1>2 DEF IsRow

\* One row is changed in the app.
LEMMA RowOutside ==
    ASSUME ServerShape, NEW t \in Txns, App(t), UNCHANGED payee,
           NEW r, IsRow(r), row' = [u \in Txns |-> row'[u]], row'[t] = r,
           \A u \in Txns : u # t => row'[u] = row[u], row[t].v <= r.v,
           \A f \in Fields : r[f] = row[t][f] \/ (f = "cleared" /\ r.cleared = "reconciled")
    PROVE  Outside
<1>1. /\ call' = call /\ log' = log /\ settled' = settled /\ touched' = touched \cup {t}
  BY DEF App
<1>2. row = [u \in Txns |-> row[u]] /\ \A u \in Txns : IsRow(row[u])
  BY DEF ServerShape
<1>3. /\ row' = [u \in Txns |-> row'[u]] /\ row'[t] = r
      /\ \A u \in Txns : u # t => row'[u] = row[u]
  BY <1>2
<1>4. ServerShape'
  <2>1. \A u \in Txns : IsRow(row'[u])
    BY <1>2, <1>3
  <2> QED BY <1>3, <2>1 DEF ServerShape, IsRow
<1>5. \A u \in Txns : row[u].v <= row[u].v
  <2>1. \A u \in Txns : row[u].v \in Nat
    BY <1>2 DEF IsRow
  <2> QED BY <2>1
<1>6. \A u \in Txns : /\ row[u].v <= row'[u].v
                      /\ u \notin touched' => row'[u] = row[u]
                      /\ \A f \in Fields : \/ row'[u][f] = row[u][f]
                                           \/ f = "cleared" /\ row'[u].cleared = "reconciled"
  BY <1>1, <1>3, <1>5
<1> QED BY <1>1, <1>4, <1>6 DEF Outside

LEMMA ReconcileOutside ==
    ASSUME ServerShape, NEW t \in Txns, Reconcile(t)
    PROVE  Outside
<1>1. row = [u \in Txns |-> row[u]] /\ IsRow(row[t])
  BY DEF ServerShape
<1>2. row' = [row EXCEPT ![t] = [row[t] EXCEPT !.cleared = "reconciled", !.v = @ + 1]]
  <2>1. row' = [row EXCEPT ![t].cleared = "reconciled", ![t].v = @ + 1]
    BY DEF Reconcile
  <2> QED BY <1>1, <2>1, Zenon
<1>3. PICK old, s : old = row[t] /\ s = [old EXCEPT !.cleared = "reconciled", !.v = @ + 1]
  OBVIOUS
<1>4. /\ row' = [u \in Txns |-> row'[u]] /\ row'[t] = s
      /\ \A u \in Txns : u # t => row'[u] = row[u]
  BY <1>1, <1>2, <1>3
<1>5. DOMAIN old = Fields \cup {"deleted", "v"} /\ old.deleted \in BOOLEAN
  BY <1>1, <1>3 DEF IsRow
<1>6. /\ DOMAIN s = DOMAIN old /\ s = [f \in DOMAIN s |-> s[f]] /\ s.v = old.v + 1
      /\ s.deleted = old.deleted /\ s.cleared = "reconciled"
      /\ \A f \in Fields : f # "cleared" => s[f] = old[f]
  BY <1>3, <1>5 DEF Fields
<1>7. IsRow(s) /\ old.v <= s.v
  <2>1. IsRow(old)
    BY <1>1, <1>3
  <2>2. s.deleted \in BOOLEAN /\ \A f \in Fields : f # "cleared" => s[f] = old[f]
    BY <1>5, <1>6
  <2> QED BY <1>6, <2>1, <2>2, ChangedRow
<1>8. App(t) /\ UNCHANGED payee
  BY DEF Reconcile
<1> QED BY <1>3, <1>4, <1>6, <1>7, <1>8, RowOutside

LEMMA DeleteOutside ==
    ASSUME ServerShape, NEW t \in Txns, Delete(t)
    PROVE  Outside
<1>1. row = [u \in Txns |-> row[u]] /\ IsRow(row[t])
  BY DEF ServerShape
<1>2. row' = [row EXCEPT ![t] = [row[t] EXCEPT !.deleted = TRUE, !.v = @ + 1]]
  <2>1. row' = [row EXCEPT ![t].deleted = TRUE, ![t].v = @ + 1]
    BY DEF Delete
  <2> QED BY <1>1, <2>1, Zenon
<1>3. PICK old, s : old = row[t] /\ s = [old EXCEPT !.deleted = TRUE, !.v = @ + 1]
  OBVIOUS
<1>4. /\ row' = [u \in Txns |-> row'[u]] /\ row'[t] = s
      /\ \A u \in Txns : u # t => row'[u] = row[u]
  BY <1>1, <1>2, <1>3
<1>5. DOMAIN old = Fields \cup {"deleted", "v"} /\ old.deleted \in BOOLEAN
  BY <1>1, <1>3 DEF IsRow
<1>6. /\ DOMAIN s = DOMAIN old /\ s = [f \in DOMAIN s |-> s[f]] /\ s.v = old.v + 1
      /\ s.deleted = TRUE
      /\ \A f \in Fields : s[f] = old[f]
  BY <1>3, <1>5 DEF Fields
<1>7. IsRow(s) /\ old.v <= s.v
  <2>1. IsRow(old)
    BY <1>1, <1>3
  <2>2. s.deleted \in BOOLEAN /\ \A f \in Fields : f # "cleared" => s[f] = old[f]
    BY <1>5, <1>6
  <2> QED BY <1>6, <2>1, <2>2, ChangedRow
<1>8. App(t) /\ UNCHANGED payee
  BY DEF Delete
<1>9. \A f \in Fields : s[f] = row[t][f] \/ (f = "cleared" /\ s.cleared = "reconciled")
  BY <1>3, <1>6
<1>10. row'[t] = s /\ row[t].v <= s.v /\ IsRow(s)
  BY <1>3, <1>4, <1>7
<1> QED BY <1>4, <1>8, <1>9, <1>10, RowOutside

LEMMA NamePayeeOutside ==
    ASSUME ServerShape, NEW p \in Payees, NEW name, NamePayee(p, name)
    PROVE  Outside
<1>1. /\ call' = call /\ log' = log /\ settled' = settled /\ touched' = touched \cup {p}
      /\ row' = row /\ payee' = [payee EXCEPT ![p] = name]
  BY DEF NamePayee, App
<1>2. payee = [q \in Payees |-> payee[q]] /\ \A t \in Txns : IsRow(row[t])
  BY DEF ServerShape
<1>3. payee' = [q \in Payees |-> payee'[q]] /\ \A q \in Payees : q # p => payee'[q] = payee[q]
  BY <1>1, <1>2
<1>4. ServerShape'
  BY <1>1, <1>3 DEF ServerShape
<1>5. \A t \in Txns : row[t].v <= row[t].v
  <2>1. \A t \in Txns : row[t].v \in Nat
    BY <1>2 DEF IsRow
  <2> QED BY <2>1
<1> QED BY <1>1, <1>3, <1>4, <1>5 DEF Outside

LEMMA HideCategoryOutside ==
    ASSUME ServerShape, NEW c, HideCategory(c)
    PROVE  Outside
<1>1. /\ call' = call /\ log' = log /\ settled' = settled /\ touched' = touched \cup {c}
      /\ row' = row /\ payee' = payee
  BY DEF HideCategory, App
<1>2. \A t \in Txns : row[t].v <= row[t].v
  <2>1. \A t \in Txns : row[t].v \in Nat
    BY DEF ServerShape, IsRow
  <2> QED BY <2>1
<1> QED BY <1>1, <1>2 DEF Outside, ServerShape

LEMMA OutsideReads ==
    ASSUME CallInv, Outside
    PROVE  ReadsHold' /\ ListHolds' /\ BatchHolds' /\ RenameChecked' /\ GuardsHold'
<1>1. /\ call' = call /\ log' = log /\ touched \subseteq touched'
      /\ row = [t \in Txns |-> row[t]] /\ row' = [t \in Txns |-> row'[t]]
      /\ payee = [p \in Payees |-> payee[p]] /\ payee' = [p \in Payees |-> payee'[p]]
  BY DEF Outside, CallInv, ServerShape
<1>2. /\ \A t \in Txns : /\ t \notin touched' => row'[t] = row[t]
                         /\ \A f \in Fields : \/ row'[t][f] = row[t][f]
                                              \/ f = "cleared" /\ row'[t].cleared = "reconciled"
      /\ \A p \in Payees : p \notin touched' => payee'[p] = payee[p]
  BY DEF Outside
<1>3. touched' \cap Payees = {} => payee' = payee /\ touched \cap Payees = {}
  <2>1. touched' \cap Payees = {} => \A p \in Payees : payee'[p] = payee[p]
    BY <1>2
  <2> QED BY <1>1, <2>1
<1>4. ASSUME NEW t \in Txns, NEW r, AsRead(t, r) PROVE AsRead(t, r)'
  <2>1. \A f \in Fields : row'[t][f] = r[f] \/ (f = "cleared" /\ row'[t].cleared = "reconciled")
    <3>1. SUFFICES ASSUME NEW f \in Fields
                   PROVE  row'[t][f] = r[f] \/ (f = "cleared" /\ row'[t].cleared = "reconciled")
      OBVIOUS
    <3>2. row'[t][f] = row[t][f] \/ (f = "cleared" /\ row'[t].cleared = "reconciled")
      BY <1>2
    <3>3. row[t][f] = r[f] \/ (f = "cleared" /\ row[t].cleared = "reconciled")
      BY <1>4 DEF AsRead
    <3> QED BY <3>2, <3>3
  <2>2. t \notin touched' => row'[t] = r
    BY <1>1, <1>2, <1>4 DEF AsRead
  <2> QED BY <1>4, <2>1, <2>2 DEF AsRead
<1>5. ReadsHold'
  <2>1. SUFFICES ASSUME call.pc \in {"rows", "plan", "send"}
                 PROVE  /\ DOMAIN call.rows \subseteq Txns
                        /\ \A t \in DOMAIN call.rows : call.rows[t] # None => AsRead(t, call.rows[t])'
                        /\ call.pc = "plan" => TxnsOf(call.members) \subseteq DOMAIN call.rows
    BY <1>1 DEF ReadsHold
  <2>2. ASSUME NEW t \in DOMAIN call.rows, call.rows[t] # None PROVE AsRead(t, call.rows[t])'
    <3>1. PICK r : r = call.rows[t]
      OBVIOUS
    <3>2. t \in Txns /\ AsRead(t, r)
      BY <2>1, <2>2, <3>1 DEF CallInv, ReadsHold
    <3>3. AsRead(t, r)' /\ r = call'.rows[t]
      BY <1>1, <1>4, <3>1, <3>2
    <3> QED BY <3>3
  <2> QED BY <2>1, <2>2 DEF CallInv, ReadsHold
<1>6. ListHolds'
  BY <1>1, <1>3 DEF CallInv, ListHolds
<1>7. ASSUME NEW b, NEW r, Guarded(b, r) PROVE Guarded(b, r)'
  BY <1>3, <1>7 DEF Guarded
<1>8. \A t, f : Setting(t, f)' = Setting(t, f)
  BY <1>1 DEF Setting
<1>9. \A b : EntrySound(b) => EntrySound(b)'
  BY <1>1, <1>8 DEF EntrySound, Stands
<1>10. BatchHolds'
  <2>1. SUFFICES ASSUME NEW b \in Entries(call.batch)
                 PROVE  /\ EntrySound(b)'
                        /\ call.pc \in {"plan", "send"} => /\ b.txn \in DOMAIN call.rows
                                                           /\ call.rows[b.txn] # None
                                                           /\ Guarded(b, call.rows[b.txn])'
    <3>1. Entries(call'.batch) = Entries(call.batch)
      BY <1>1
    <3> QED BY <1>1, <3>1 DEF BatchHolds
  <2>2. PICK r : r = call.rows[b.txn]
    OBVIOUS
  <2>3. /\ EntrySound(b)
        /\ call.pc \in {"plan", "send"} => b.txn \in DOMAIN call.rows /\ r # None /\ Guarded(b, r)
    BY <2>2 DEF CallInv, BatchHolds
  <2>4. /\ EntrySound(b)'
        /\ call.pc \in {"plan", "send"} => b.txn \in DOMAIN call.rows /\ r # None /\ Guarded(b, r)'
    BY <1>7, <1>9, <2>3
  <2>5. r = call'.rows[b.txn]
    BY <1>1, <2>2
  <2>6. Guarded(b, r)' => Guarded(b, call.rows[b.txn])'
    BY <2>5
  <2> QED BY <2>2, <2>4, <2>6
<1>11. RenameChecked'
  BY <1>1, <1>2 DEF CallInv, RenameChecked
<1>12. GuardsHold'
  <2>1. NoNewCollision'
    <3>1. SUFFICES ASSUME call.start # None, NEW p \in Payees, NEW q \in Payees,
                          p # q, payee'[p] = payee'[q], payee'[p] # Gone, {p, q} \cap touched' = {}
                   PROVE  call.start.payee[p] = call.start.payee[q]
      BY <1>1 DEF NoNewCollision
    <3>2. payee[p] = payee[q] /\ payee[p] # Gone /\ {p, q} \cap touched = {}
      BY <1>1, <1>2, <3>1
    <3> QED BY <3>1, <3>2 DEF CallInv, GuardsHold, NoNewCollision
  <2> QED BY <1>1, <2>1 DEF CallInv, GuardsHold
<1> QED BY <1>5, <1>6, <1>10, <1>11, <1>12

LEMMA OutsideElse ==
    ASSUME CallInv, Outside
    PROVE  /\ Structure' /\ ServerShape' /\ ClaimsHold' /\ LogHolds' /\ OneWrite' /\ ResultsHold'
           /\ VerdictsAreTrue' /\ AnswerHolds' /\ NothingLost'
<1>1. call' = call /\ log' = log /\ touched \subseteq touched' /\ ServerShape'
  BY DEF Outside
<1>2. Structure'
  BY <1>1, UnchangedStructure DEF CallInv
<1>3. /\ call'.pc = call.pc /\ call'.members = call.members /\ call'.batch = call.batch
      /\ call'.claimed = call.claimed /\ Early' = Early /\ Unreported' = Unreported
      /\ call'.results = call.results /\ call'.i = call.i /\ call'.ops = call.ops
  BY <1>1 DEF Unreported, Early
<1>4. Logged' = Logged /\ LoggedTxns' = LoggedTxns
  BY <1>1 DEF Logged, LoggedTxns
<1>5. ClaimsHold'
  BY <1>3, <1>4 DEF CallInv, ClaimsHold
<1>6. LogHolds'
  BY <1>1, <1>3, <1>4 DEF CallInv, LogHolds, Stands
<1>7. OneWrite'
  BY <1>1 DEF CallInv, OneWrite
<1>8. ResultsHold'
  BY <1>3 DEF CallInv, ResultsHold
<1>9. VerdictsAreTrue'
  BY <1>1 DEF CallInv, VerdictsAreTrue
<1>10. AnswerHolds'
  <2>1. InFull' = InFull
    BY <1>1 DEF InFull
  <2> QED BY <1>1, <2>1 DEF CallInv, AnswerHolds
<1>11. NothingLost'
  <2>1. CASE touched' # {}
    BY <2>1 DEF NothingLost
  <2>2. CASE touched' = {}
    <3>1. touched = {}
      BY <1>1, <2>2
    <3>2. row' = row
      <4>1. \A t \in Txns : row'[t] = row[t]
        BY <2>2 DEF Outside
      <4> QED BY <1>1, <4>1 DEF CallInv, ServerShape
    <3>3. payee' = payee
      <4>1. \A p \in Payees : payee'[p] = payee[p]
        BY <2>2 DEF Outside
      <4> QED BY <1>1, <4>1 DEF CallInv, ServerShape
    <3>4. \A t, f : Setting(t, f)' = Setting(t, f)
      BY <1>1 DEF Setting
    <3>5. \A t : Spoilt(t)' = Spoilt(t)
      BY <1>1 DEF Spoilt
    <3>6. \A t, f, n : Accounted(t, f, n)' = Accounted(t, f, n)
      BY <1>1, <3>2, <3>3 DEF Accounted, Carries, Plans, Doubtful, InRow
    <3>7. Renames' = Renames
      BY <1>1 DEF Renames
    <3> QED BY <1>1, <2>2, <3>1, <3>2, <3>4, <3>5, <3>6, <3>7 DEF CallInv, NothingLost
  <2> QED BY <2>1, <2>2
<1> QED BY <1>1, <1>2, <1>5, <1>6, <1>7, <1>8, <1>9, <1>10, <1>11

-----------------------------------------------------------------------------
(* What the call read, and what it plans.                                   *)

LEMMA NotReading ==
    ASSUME Structure', call'.pc \notin {"rows", "plan", "send", "settle"}
    PROVE  ReadsHold' /\ ListHolds' /\ BatchHolds' /\ AnswerHolds'
<1>1. call'.batch = <<>> /\ call'.list = None
  BY DEF Structure, Phases
<1>2. Entries(call'.batch) = {}
  BY <1>1, EmptyFacts
<1> QED BY <1>1, <1>2 DEF ReadsHold, ListHolds, BatchHolds, AnswerHolds

\* The rows read are the server's, as long as nothing was done to it.
LEMMA ReadsStep ==
    ASSUME CallInv, UNCHANGED server, UNCHANGED touched,
           call'.pc = "plan" => TxnsOf(call'.members) \subseteq DOMAIN call'.rows,
           DOMAIN call'.rows \subseteq Txns,
           \A t \in DOMAIN call'.rows :
              \/ call'.rows[t] \in {row[t], None}
              \/ call.pc \in {"rows", "plan"} /\ t \in DOMAIN call.rows /\ call'.rows[t] = call.rows[t]
    PROVE  ReadsHold'
<1>1. row' = row /\ touched' = touched
  BY DEF server
<1>2. ASSUME NEW t \in DOMAIN call'.rows, call'.rows[t] # None PROVE AsRead(t, call'.rows[t])
  <2>1. CASE call'.rows[t] = row[t]
    BY <2>1 DEF AsRead, CallInv, ServerShape
  <2>2. CASE call.pc \in {"rows", "plan"} /\ t \in DOMAIN call.rows /\ call'.rows[t] = call.rows[t]
    BY <1>2, <2>2 DEF CallInv, ReadsHold
  <2> QED BY <1>2, <2>1, <2>2
<1>3. \A t, r : AsRead(t, r) => AsRead(t, r)'
  BY <1>1 DEF AsRead
<1>4. ASSUME NEW t \in DOMAIN call'.rows, call'.rows[t] # None PROVE AsRead(t, call.rows[t])'
  <2>1. PICK r : r = call'.rows[t]
    OBVIOUS
  <2>2. AsRead(t, r)'
    BY <1>2, <1>3, <1>4, <2>1
  <2> QED BY <2>1, <2>2
<1> QED BY <1>4 DEF ReadsHold

LEMMA MembersKnown ==
    ASSUME Structure
    PROVE  TxnsOf(call.members) \subseteq Txns
<1>1. \A m \in Entries(call.members) : m.txn \in Txns
  <2>1. SUFFICES ASSUME NEW m \in Entries(call.members) PROVE m.txn \in Txns
    OBVIOUS
  <2>2. Stands(m)
    BY DEF Structure, QueuesHold, Sound
  <2>3. m.n \in DOMAIN call.ops
    BY <2>2, OpsFacts DEF Structure, CallShape, Stands
  <2> QED BY <2>2, <2>3, OpsFacts DEF Structure, Stands, IsOp
<1> QED BY <1>1 DEF TxnsOf

LEMMA FreshListingReads ==
    ASSUME CallInv, FreshListing
    PROVE  ReadsHold' /\ ListHolds' /\ BatchHolds' /\ AnswerHolds'
<1>1. /\ call.pc = "listing" /\ call'.pc = "rows" /\ SameCall /\ UNCHANGED <<call.list, call.saved>>
      /\ UNCHANGED server /\ UNCHANGED touched
      /\ \A t \in DOMAIN call'.rows : t \in Txns /\ call'.rows[t] = row[t]
  <2>1. DOMAIN call.rows = {}
    <3>1. call.pc = "listing"
      BY FreshListingEffect DEF CallInv, Structure
    <3> QED BY <3>1 DEF CallInv, Structure, Phases
  <2> QED BY <2>1, FreshListingEffect, MembersKnown DEF CallInv, Structure, SameElse, ghosts
<1>2. ReadsHold'
  BY <1>1, ReadsStep
<1>3. call'.list = None /\ call'.batch = <<>>
  BY <1>1 DEF SameCall, SameQueues, CallInv, Structure, Phases
<1>4. ListHolds' /\ BatchHolds'
  BY <1>3, EmptyFacts DEF ListHolds, BatchHolds
<1>5. AnswerHolds'
  BY <1>1 DEF AnswerHolds
<1> QED BY <1>2, <1>4, <1>5

LEMMA StragglerReads ==
    ASSUME CallInv, Straggler
    PROVE  ReadsHold' /\ ListHolds' /\ BatchHolds' /\ AnswerHolds'
<1>1. /\ call.pc = "rows" /\ SameCall /\ UNCHANGED <<call.list, call.saved>>
      /\ UNCHANGED server /\ UNCHANGED touched
      /\ \/ /\ TxnsOf(call.members) \subseteq DOMAIN call.rows /\ call'.pc = "plan"
            /\ UNCHANGED call.rows
         \/ /\ call'.pc = "rows"
            /\ \E t \in TxnsOf(call.members) :
                  /\ DOMAIN call'.rows = DOMAIN call.rows \cup {t}
                  /\ call'.rows[t] \in {row[t], None}
                  /\ \A u \in DOMAIN call.rows : u # t => call'.rows[u] = call.rows[u]
  BY StragglerEffect DEF CallInv, Structure, SameElse, ghosts
<1>2. call'.members = call.members /\ call'.batch = call.batch
  BY <1>1 DEF SameCall, SameQueues
<1>3. DOMAIN call.rows \subseteq Txns /\ TxnsOf(call.members) \subseteq Txns
  BY <1>1, MembersKnown DEF CallInv, ReadsHold
<1>4. ReadsHold'
  BY <1>1, <1>2, <1>3, ReadsStep
<1>5. call'.list = None /\ call'.batch = <<>>
  BY <1>1, <1>2 DEF CallInv, Structure, Phases
<1>6. ListHolds' /\ BatchHolds'
  BY <1>5, EmptyFacts DEF ListHolds, BatchHolds
<1>7. AnswerHolds'
  BY <1>1 DEF AnswerHolds
<1> QED BY <1>4, <1>6, <1>7

LEMMA PatchFields ==
    ASSUME CallInv, NEW m, Sound(m)
    PROVE  /\ DOMAIN m.patch \subseteq Fields
           /\ \A f \in DOMAIN m.patch : Setting(m.txn, f) # {}
<1>1. ASSUME NEW f \in DOMAIN m.patch PROVE f \in Fields /\ Setting(m.txn, f) # {}
  <2>1. PICK n \in Setting(m.txn, f) : TRUE
    BY DEF Sound
  <2>2. n \in DOMAIN call.ops /\ IsPatch(call.ops[n]) /\ f \in DOMAIN call.ops[n].patch
    BY <2>1 DEF Setting
  <2>3. IsOp(call.ops[n])
    BY <2>2, OpsFacts DEF CallInv, Structure
  <2>4. f \in Fields
    BY <2>2, <2>3 DEF IsOp
  <2> QED BY <2>1, <2>4
<1> QED BY <1>1

\* What is planned respects the guards on the row it is planned against.
LEMMA PlannedGuarded ==
    ASSUME CallInv, NEW m, Sound(m), NEW r, NEW list, PlannedWith(list), NEW entry,
           entry = PlannedEntry(r, m.patch, list), Passes(m.txn, r, m.patch, list), DOMAIN entry # {},
           NEW b, b.n = m.n, b.txn = m.txn, b.entry = entry
    PROVE  EntrySound(b) /\ Guarded(b, r)
<1>1. PICK patch : patch = m.patch
  OBVIOUS
<1>2. /\ DOMAIN entry \subseteq DOMAIN patch
      /\ \A f \in DOMAIN entry : entry[f] = Asked(f, patch, list) /\ r[f] # entry[f]
  BY <1>1, EntryFacts
<1>3. EntrySound(b)
  <2>1. Stands(b)
    BY DEF Sound, Stands
  <2>2. DOMAIN patch \subseteq Fields /\ \A f \in DOMAIN patch : Setting(m.txn, f) # {}
    BY <1>1, PatchFields
  <2> QED BY <1>2, <2>1, <2>2 DEF EntrySound
<1>4. "cleared" \in DOMAIN entry => r.cleared # "reconciled" /\ entry["cleared"] # "reconciled"
  <2>1. SUFFICES ASSUME "cleared" \in DOMAIN entry
                 PROVE  r.cleared # "reconciled" /\ entry["cleared"] # "reconciled"
    OBVIOUS
  <2>2. entry["cleared"] = patch["cleared"]
    BY <1>2, <2>1 DEF Asked, Stored
  <2> QED BY <1>1, <1>2, <2>1, <2>2 DEF Passes, Sound
<1>5. "category" \in DOMAIN entry => m.txn \notin Split \cup Transfer
  BY <1>1, <1>2 DEF Passes
<1>6. "payee" \in DOMAIN entry =>
         /\ entry["payee"] \in Payees \ OwnPayees
         /\ touched \cap Payees = {} => payee[entry["payee"]] # Gone
  <2>1. SUFFICES ASSUME "payee" \in DOMAIN entry
                 PROVE  /\ entry["payee"] \in Payees \ OwnPayees
                        /\ touched \cap Payees = {} => payee[entry["payee"]] # Gone
    OBVIOUS
  <2>2. PICK ref, p : ref = patch["payee"] /\ p = resolvePayeeRef(list, ref)
    OBVIOUS
  <2>3. entry["payee"] = p
    BY <1>2, <2>1, <2>2 DEF Asked
  <2>4. p # Gone
    BY <1>1, <1>2, <2>1, <2>2 DEF Passes
  <2>5. p \in Payees \ OwnPayees /\ list[p] # Gone
    BY <2>2, <2>4, ResolvedPayee
  <2>6. touched \cap Payees = {} => list = payee
    <3>1. CASE call.list = None
      BY <3>1 DEF PlannedWith
    <3>2. CASE call.list # None
      BY <2>5, <3>2 DEF PlannedWith, CallInv, ListHolds
    <3> QED BY <3>1, <3>2
  <2> QED BY <2>3, <2>5, <2>6
<1>7. ~r.deleted
  BY DEF Passes
<1> QED BY <1>2, <1>3, <1>4, <1>5, <1>6, <1>7 DEF Guarded

\* What planning the next member does.
Planning(m, r, patch) ==
    /\ m = Head(call.members) /\ r = call.rows[m.txn] /\ patch = m.patch
    /\ m \in Entries(call.members) /\ Sound(m)
    /\ call.pc = "plan" /\ call'.pc = "plan" /\ call'.members = Tail(call.members)
    /\ m.txn \in DOMAIN call.rows /\ m.txn \in Txns
    /\ call'.i = call.i /\ call'.claimed = call.claimed /\ call'.groups = call.groups
    /\ call'.rows = call.rows /\ call'.rest = <<>> /\ call'.merged = <<>>
    /\ SameOps /\ UNCHANGED <<server, ghosts, index, reader>>
    /\ IsSeq(call.batch) /\ IsSeq(Tail(call.members))
    /\ Entries(call.members) = Entries(Tail(call.members)) \cup {m}
    /\ NsOf(call.members) = NsOf(Tail(call.members)) \cup {m.n}
    /\ TxnsOf(call.members) = TxnsOf(Tail(call.members)) \cup {m.txn}
    /\ m.n \notin NsOf(Tail(call.members)) /\ m.txn \notin TxnsOf(Tail(call.members))
    /\ m.n \notin NsOf(call.batch) /\ m.txn \notin TxnsOf(call.batch)
    /\ \/ UNCHANGED call.list
       \/ call'.list # None /\ PlannedWith(call'.list.names)
       \/ call'.list # None /\ \A p \in Payees : call'.list.names[p] = Gone
    /\ \/ /\ \E v \in {"unread", "refused"} :
                call'.results = call.results \cup {Verdict(m.n, v)}
          /\ UNCHANGED call.batch
       \/ \E list, entry :
             /\ r # None /\ PlannedWith(list) /\ Passes(m.txn, r, patch, list)
             /\ entry = PlannedEntry(r, patch, list)
             /\ \/ /\ DOMAIN entry = {}
                   /\ call'.results = call.results \cup {Verdict(m.n, "nothing")}
                   /\ UNCHANGED call.batch
                \/ /\ DOMAIN entry # {}
                   /\ call'.batch = Append(call.batch, [n |-> m.n, txn |-> m.txn, entry |-> entry])
                   /\ UNCHANGED call.results

LEMMA PlanMemberSummary ==
    ASSUME CallInv, PlanMember
    PROVE  \E m, r, patch : Planning(m, r, patch)
<1>1. PICK m, r, patch : m = Head(call.members) /\ r = call.rows[m.txn] /\ patch = m.patch
  OBVIOUS
<1>2. CallShape
  BY DEF CallInv, Structure
<1>3. /\ call.pc = "plan" /\ call.members # <<>> /\ call'.members = Tail(call.members)
      /\ UNCHANGED <<call.pc, call.i, call.claimed, call.groups, call.rest, call.merged, call.rows>>
      /\ SameOps /\ UNCHANGED <<server, index, reader, ghosts>>
      /\ \/ UNCHANGED call.list
         \/ call'.list # None /\ PlannedWith(call'.list.names)
         \/ call'.list # None /\ \A p \in Payees : call'.list.names[p] = Gone
  BY <1>2, PlanMemberEffect
<1>4. \/ /\ \E v \in {"unread", "refused"} :
               call'.results = call.results \cup {Verdict(m.n, v)}
         /\ UNCHANGED call.batch
      \/ \E list :
            /\ r # None /\ PlannedWith(list) /\ Passes(m.txn, r, patch, list)
            /\ \/ /\ DOMAIN PlannedEntry(r, patch, list) = {}
                  /\ call'.results = call.results \cup {Verdict(m.n, "nothing")}
                  /\ UNCHANGED call.batch
               \/ /\ DOMAIN PlannedEntry(r, patch, list) # {}
                  /\ call'.batch = Append(call.batch,
                        [n |-> m.n, txn |-> m.txn, entry |-> PlannedEntry(r, patch, list)])
                  /\ UNCHANGED call.results
  BY <1>1, <1>2, PlanMemberEffect
<1>5. PICK members : members = call.members
  OBVIOUS
<1>6. IsSeq(members) /\ OnePerOp(members) /\ OnePerTxn(members) /\ members # <<>>
  BY <1>3, <1>5 DEF CallInv, Structure, QueuesHold
<1>7. /\ m \in Entries(members) /\ IsSeq(Tail(members))
      /\ Entries(members) = Entries(Tail(members)) \cup {m}
      /\ NsOf(members) = NsOf(Tail(members)) \cup {m.n}
      /\ TxnsOf(members) = TxnsOf(Tail(members)) \cup {m.txn}
      /\ m.n \notin NsOf(Tail(members)) /\ m.txn \notin TxnsOf(Tail(members))
  BY <1>1, <1>5, <1>6, TailFacts
<1>8. Sound(m) /\ IsSeq(call.batch) /\ m.n \notin NsOf(call.batch) /\ m.txn \notin TxnsOf(call.batch)
  BY <1>5, <1>7 DEF CallInv, Structure, QueuesHold, QueuesApart
<1>9. m.txn \in DOMAIN call.rows /\ m.txn \in Txns
  BY <1>3, <1>5, <1>7 DEF CallInv, ReadsHold
<1>10. call'.rest = <<>> /\ call'.merged = <<>>
  BY <1>3 DEF CallInv, Structure, Phases
<1>11. \/ /\ \E v \in {"unread", "refused"} :
                call'.results = call.results \cup {Verdict(m.n, v)}
          /\ UNCHANGED call.batch
       \/ \E list, entry :
             /\ r # None /\ PlannedWith(list) /\ Passes(m.txn, r, patch, list)
             /\ entry = PlannedEntry(r, patch, list)
             /\ \/ /\ DOMAIN entry = {}
                   /\ call'.results = call.results \cup {Verdict(m.n, "nothing")}
                   /\ UNCHANGED call.batch
                \/ /\ DOMAIN entry # {}
                   /\ call'.batch = Append(call.batch, [n |-> m.n, txn |-> m.txn, entry |-> entry])
                   /\ UNCHANGED call.results
  BY <1>4
<1>12. Planning(m, r, patch)
  BY <1>1, <1>3, <1>5, <1>7, <1>8, <1>9, <1>10, <1>11 DEF Planning
<1> QED BY <1>12

LEMMA PlanMemberReads ==
    ASSUME CallInv, PlanMember
    PROVE  ReadsHold' /\ ListHolds' /\ BatchHolds' /\ AnswerHolds'
<1>0. PICK m, r, patch : Planning(m, r, patch)
  BY PlanMemberSummary
<1>1. /\ m = Head(call.members) /\ r = call.rows[m.txn] /\ patch = m.patch
      /\ m \in Entries(call.members) /\ Sound(m)
       /\ call.pc = "plan" /\ call'.pc = "plan" /\ call'.members = Tail(call.members)
       /\ m.txn \in DOMAIN call.rows /\ call'.i = call.i
       /\ call'.rows = call.rows /\ SameOps /\ UNCHANGED <<server, ghosts>>
       /\ IsSeq(call.batch)
       /\ TxnsOf(call.members) = TxnsOf(Tail(call.members)) \cup {m.txn}
       /\ \/ UNCHANGED call.list
          \/ call'.list # None /\ PlannedWith(call'.list.names)
          \/ call'.list # None /\ \A p \in Payees : call'.list.names[p] = Gone
       /\ \/ UNCHANGED call.batch
          \/ \E list, entry :
                /\ r # None /\ PlannedWith(list) /\ Passes(m.txn, r, patch, list)
                /\ entry = PlannedEntry(r, patch, list) /\ DOMAIN entry # {}
                /\ call'.batch = Append(call.batch, [n |-> m.n, txn |-> m.txn, entry |-> entry])
  BY <1>0 DEF Planning
<1>2. /\ call'.pc = call.pc /\ payee' = payee /\ touched' = touched
      /\ call'.ops = call.ops
  BY <1>1 DEF server, ghosts, SameOps
<1>3. ReadsHold'
  <2>1. TxnsOf(call'.members) \subseteq DOMAIN call'.rows /\ DOMAIN call'.rows \subseteq Txns
    BY <1>1 DEF CallInv, ReadsHold
  <2>2. UNCHANGED server /\ UNCHANGED touched
    BY <1>1, <1>2
  <2> QED BY <1>1, <2>1, <2>2, ReadsStep
<1>4. ListHolds'
  <2>1. CASE UNCHANGED call.list
    BY <1>2, <2>1 DEF CallInv, ListHolds
  <2>2. CASE call'.list # None /\ PlannedWith(call'.list.names)
    BY <1>2, <2>2 DEF CallInv, ListHolds, PlannedWith
  <2>3. CASE call'.list # None /\ \A p \in Payees : call'.list.names[p] = Gone
    BY <2>3 DEF ListHolds
  <2> QED BY <1>1, <2>1, <2>2, <2>3
<1>5. ASSUME NEW b \in Entries(call'.batch)
      PROVE  EntrySound(b) /\ b.txn \in DOMAIN call.rows /\ call.rows[b.txn] # None
             /\ Guarded(b, call.rows[b.txn])
  <2>1. CASE b \in Entries(call.batch)
    BY <1>1, <2>1 DEF CallInv, BatchHolds
  <2>2. CASE b \notin Entries(call.batch)
    <3>0. call'.batch # call.batch
      BY <2>2
    <3>1. PICK list, entry :
             /\ r # None /\ PlannedWith(list) /\ Passes(m.txn, r, patch, list)
             /\ entry = PlannedEntry(r, patch, list) /\ DOMAIN entry # {}
             /\ call'.batch = Append(call.batch, [n |-> m.n, txn |-> m.txn, entry |-> entry])
      BY <1>1, <3>0
    <3>9. PICK new : new = [n |-> m.n, txn |-> m.txn, entry |-> entry]
      OBVIOUS
    <3>2. b = new
      <4>1. PICK batch : batch = call.batch
        OBVIOUS
      <4>2. Entries(Append(batch, new)) = Entries(batch) \cup {new}
        BY <1>1, <4>1, AppendFacts
      <4> QED BY <2>2, <3>1, <3>9, <4>1, <4>2
    <3>3. b.n = m.n /\ b.txn = m.txn /\ b.entry = entry
      BY <3>2, <3>9
    <3>4. EntrySound(b) /\ Guarded(b, r)
      BY <1>1, <3>1, <3>3, PlannedGuarded
    <3> QED BY <1>1, <3>1, <3>3, <3>4
  <2> QED BY <2>1, <2>2
<1>6. \A b, q : Guarded(b, q) => Guarded(b, q)'
  BY <1>2 DEF Guarded
<1>7. \A b : EntrySound(b) => EntrySound(b)'
  BY <1>1, OpsFacts, SoundKept DEF CallInv, Structure
<1>8. BatchHolds'
  <2>1. ASSUME NEW b \in Entries(call'.batch) PROVE Guarded(b, call.rows[b.txn])'
    <3>1. PICK q : q = call.rows[b.txn]
      OBVIOUS
    <3>2. Guarded(b, q)' /\ q = call'.rows[b.txn]
      BY <1>1, <1>5, <1>6, <3>1
    <3> QED BY <3>2
  <2> QED BY <1>1, <1>5, <1>7, <2>1 DEF BatchHolds
<1>9. AnswerHolds'
  BY <1>1 DEF AnswerHolds
<1> QED BY <1>3, <1>4, <1>8, <1>9

LEMMA PlannedReads ==
    ASSUME CallInv, Planned, Structure'
    PROVE  ReadsHold' /\ ListHolds' /\ BatchHolds' /\ AnswerHolds'
<1>1. /\ call.pc = "plan" /\ call'.members = call.members /\ call.members = <<>> /\ call'.i = call.i
      /\ SameOps /\ UNCHANGED <<server, ghosts>>
      /\ \/ Returned
         \/ call'.pc = "send" /\ SameReads /\ UNCHANGED call.batch
  BY PlannedEffect DEF CallInv, Structure, SameElse
<1>2. CASE Returned
  BY <1>2, NotReading DEF Returned
<1>3. CASE call'.pc = "send" /\ SameReads /\ UNCHANGED call.batch
  <2>1. /\ payee' = payee /\ touched' = touched /\ UNCHANGED server
        /\ call'.batch = call.batch /\ call'.rows = call.rows /\ call'.list = call.list
    BY <1>1, <1>3 DEF server, ghosts, SameReads
  <2>2. ReadsHold'
    <3>1. call'.pc # "plan" /\ DOMAIN call'.rows \subseteq Txns
      BY <1>1, <1>3, <2>1 DEF CallInv, ReadsHold
    <3> QED BY <1>1, <2>1, <3>1, ReadsStep
  <2>3. ListHolds'
    BY <2>1 DEF CallInv, ListHolds
  <2>4. BatchHolds'
    <3>1. \A b, q : Guarded(b, q) => Guarded(b, q)'
      BY <2>1 DEF Guarded
    <3>2. \A b : EntrySound(b) => EntrySound(b)'
      BY <1>1, OpsFacts, SoundKept DEF CallInv, Structure
    <3>3. ASSUME NEW b \in Entries(call'.batch)
          PROVE  EntrySound(b) /\ b.txn \in DOMAIN call.rows /\ call.rows[b.txn] # None
                 /\ Guarded(b, call.rows[b.txn])
      BY <1>1, <2>1 DEF CallInv, BatchHolds
    <3>4. ASSUME NEW b \in Entries(call'.batch) PROVE Guarded(b, call.rows[b.txn])'
      <4>1. PICK q : q = call.rows[b.txn]
        OBVIOUS
      <4>2. Guarded(b, q)' /\ q = call'.rows[b.txn]
        BY <2>1, <3>1, <3>3, <4>1
      <4> QED BY <4>2
    <3> QED BY <2>1, <3>2, <3>3, <3>4 DEF BatchHolds
  <2>5. AnswerHolds'
    BY <1>3 DEF AnswerHolds
  <2> QED BY <2>2, <2>3, <2>4, <2>5
<1> QED BY <1>1, <1>2, <1>3

\* What the request writes.
LEMMA WritesFacts ==
    ASSUME CallInv, NEW sent, IsPart(sent), Writes(sent)
    PROVE  /\ ServerShape' \/ payee' # payee
           /\ row' = [t \in Txns |-> row'[t]]
           /\ \A t \in Txns : IsRow(row'[t]) /\ row[t].v <= row'[t].v
           /\ \A t \in Txns : (\A b \in sent : b.txn # t) => row'[t] = row[t]
           /\ \A b \in Entries(call.batch) : b.txn \in Txns
           /\ \A b \in sent : b.txn \in Txns
           /\ \A b \in sent : \A f \in Fields :
                 row'[b.txn][f] = IF f \in DOMAIN b.entry THEN b.entry[f] ELSE row[b.txn][f]
           /\ log' = log \cup {[n |-> b.n, txn |-> b.txn, entry |-> b.entry, sent |-> b.sent,
                                before |-> row[b.txn], payees |-> payee, touched |-> touched] :
                                  b \in sent}
<1>1. /\ row' = Updated(sent)
      /\ log' = log \cup {[n |-> b.n, txn |-> b.txn, entry |-> b.entry, sent |-> b.sent,
                           before |-> row[b.txn], payees |-> payee, touched |-> touched] :
                             b \in sent}
  BY DEF Writes
<1>2. /\ \A t \in Txns : IsRow(row[t])
      /\ payee = [p \in Payees |-> payee[p]]
  BY DEF CallInv, ServerShape
<1>3. ASSUME NEW b \in Entries(call.batch)
      PROVE  b.txn \in Txns /\ DOMAIN b.entry \subseteq Fields
  <2>1. EntrySound(b)
    BY DEF CallInv, BatchHolds
  <2>2. b.n \in DOMAIN call.ops
    BY <2>1, OpsFacts DEF CallInv, Structure, CallShape, EntrySound, Stands
  <2> QED BY <2>1, <2>2, OpsFacts DEF CallInv, Structure, EntrySound, Stands, IsOp
<1>4. \A b, c \in sent : b.txn = c.txn => b = c
  BY DEF IsPart
<1>11. ASSUME NEW m \in sent
       PROVE  m.txn \in Txns /\ DOMAIN m.entry \subseteq Fields
  <2>1. PICK b \in Entries(call.batch) : m.txn = b.txn /\ DOMAIN m.entry \subseteq DOMAIN b.entry
    BY <1>11 DEF IsPart
  <2> QED BY <1>3, <2>1
<1>5. row' = [t \in Txns |-> row'[t]]
  BY <1>1 DEF Updated
<1>6. ASSUME NEW t \in Txns, \A b \in sent : b.txn # t
      PROVE  row'[t] = row[t]
  <2>1. {b \in sent : b.txn = t} = {}
    BY <1>6
  <2> QED BY <1>1, <2>1 DEF Updated
<1>7. ASSUME NEW b \in sent
      PROVE  row'[b.txn] = [f \in DOMAIN row[b.txn] |-> IF f \in DOMAIN b.entry THEN b.entry[f]
                               ELSE IF f = "v" THEN row[b.txn].v + 1 ELSE row[b.txn][f]]
  <2>1. PICK t : t = b.txn /\ t \in Txns
    BY <1>11
  <2>2. {c \in sent : c.txn = t} = {b}
    BY <1>4, <2>1
  <2>3. (CHOOSE c \in {b} : TRUE) = b
    OBVIOUS
  <2>4. row'[t] = [f \in DOMAIN row[t] |-> IF f \in DOMAIN b.entry THEN b.entry[f]
                               ELSE IF f = "v" THEN row[t].v + 1 ELSE row[t][f]]
    BY <1>1, <2>1, <2>2, <2>3 DEF Updated
  <2> QED BY <2>1, <2>4
<1>8. ASSUME NEW b \in sent
      PROVE  /\ IsRow(row'[b.txn]) /\ row[b.txn].v <= row'[b.txn].v
             /\ \A f \in Fields :
                   row'[b.txn][f] = IF f \in DOMAIN b.entry THEN b.entry[f] ELSE row[b.txn][f]
  <2>1. PICK old, new : old = row[b.txn] /\ new = row'[b.txn]
    OBVIOUS
  <2>2. IsRow(old) /\ DOMAIN b.entry \subseteq Fields
    BY <1>2, <1>11, <2>1
  <2>3. new = [f \in DOMAIN old |-> IF f \in DOMAIN b.entry THEN b.entry[f]
                               ELSE IF f = "v" THEN old.v + 1 ELSE old[f]]
    BY <1>7, <2>1
  <2>4. DOMAIN old = Fields \cup {"deleted", "v"} /\ old.v \in Nat /\ old.deleted \in BOOLEAN
    BY <2>2 DEF IsRow
  <2>5. /\ DOMAIN new = Fields \cup {"deleted", "v"} /\ new.v = old.v + 1 /\ new.deleted = old.deleted
        /\ \A f \in Fields : new[f] = IF f \in DOMAIN b.entry THEN b.entry[f] ELSE old[f]
    BY <2>2, <2>3, <2>4 DEF Fields
  <2>6. new = [f \in DOMAIN new |-> new[f]]
    BY <2>3
  <2>7. new.v \in Nat /\ old.v <= new.v
    BY <2>4, <2>5
  <2>8. IsRow(new)
    BY <2>4, <2>5, <2>6, <2>7 DEF IsRow
  <2> QED BY <2>1, <2>5, <2>7, <2>8
<1>9. ASSUME NEW t \in Txns PROVE IsRow(row'[t]) /\ row[t].v <= row'[t].v
  <2>1. CASE \E b \in sent : b.txn = t
    BY <1>8, <2>1
  <2>2. CASE \A b \in sent : b.txn # t
    <3>1. row'[t] = row[t] /\ row[t].v \in Nat
      BY <1>2, <1>6, <2>2 DEF IsRow
    <3> QED BY <1>2, <3>1
  <2> QED BY <2>1, <2>2
<1>10. ServerShape' \/ payee' # payee
  BY <1>2, <1>5, <1>9 DEF ServerShape
<1> QED BY <1>1, <1>3, <1>5, <1>6, <1>8, <1>9, <1>10, <1>11

LEMMA SendSummary ==
    ASSUME CallInv, Send
    PROVE  /\ call.pc = "send" /\ call'.pc = "settle"
           /\ SameCall /\ SameOps /\ call'.rows = call.rows /\ call'.list = call.list
           /\ call'.batch = call.batch /\ call'.i = call.i /\ call'.groups = call.groups
           /\ call'.results = call.results /\ call'.claimed = call.claimed
           /\ call'.rest = <<>> /\ call'.merged = <<>> /\ call'.members = <<>>
           /\ call.rest = <<>> /\ call.merged = <<>> /\ call.members = <<>>
           /\ payee' = payee /\ settled' = settled /\ touched' = touched
           /\ index' = index /\ reader' = reader
           /\ \E part : IsPart(part) /\ Writes(part)
           /\ call'.saved = None \/ AnsweredWith(row')
<1>1. CallShape /\ OnePerTxn(call.batch)
  BY DEF CallInv, Structure, QueuesHold
<1>2. /\ call.pc = "send" /\ call'.pc = "settle"
      /\ SameCall /\ call'.rows = call.rows /\ call'.list = call.list
      /\ payee' = payee /\ settled' = settled /\ touched' = touched
      /\ index' = index /\ reader' = reader
      /\ \E part : IsPart(part) /\ Writes(part)
      /\ call'.saved = None \/ AnsweredWith(row')
  BY <1>1, SendEffect DEF caches
<1>3. call.rest = <<>> /\ call.merged = <<>> /\ call.members = <<>>
  BY <1>2 DEF CallInv, Structure, Phases
<1>4. /\ SameOps /\ call'.batch = call.batch /\ call'.i = call.i /\ call'.groups = call.groups
      /\ call'.results = call.results /\ call'.claimed = call.claimed
      /\ call'.rest = call.rest /\ call'.merged = call.merged /\ call'.members = call.members
  BY <1>2 DEF SameCall, SameQueues
<1> QED BY <1>2, <1>3, <1>4

\* What is saved of a transaction is part of its entry.
LEMMA PartFacts ==
    ASSUME CallInv, NEW part, IsPart(part)
    PROVE  \A m \in part : \A b \in Entries(call.batch) : (m.txn = b.txn \/ m.n = b.n) =>
              /\ m.n = b.n /\ m.txn = b.txn /\ m.sent = DOMAIN b.entry
              /\ DOMAIN m.entry \subseteq DOMAIN b.entry
              /\ \A f \in DOMAIN m.entry : m.entry[f] = b.entry[f]
<1> SUFFICES ASSUME NEW m \in part, NEW b \in Entries(call.batch), m.txn = b.txn \/ m.n = b.n
             PROVE  /\ m.n = b.n /\ m.txn = b.txn /\ m.sent = DOMAIN b.entry
                    /\ DOMAIN m.entry \subseteq DOMAIN b.entry
                    /\ \A f \in DOMAIN m.entry : m.entry[f] = b.entry[f]
  OBVIOUS
<1>1. PICK c \in Entries(call.batch) :
         /\ m.n = c.n /\ m.txn = c.txn /\ m.sent = DOMAIN c.entry
         /\ DOMAIN m.entry \in (SUBSET DOMAIN c.entry) \ {{}}
         /\ \A f \in DOMAIN m.entry : m.entry[f] = c.entry[f]
  BY DEF IsPart
<1>2. b = c
  BY <1>1 DEF CallInv, Structure, QueuesHold, OnePerTxn, OnePerOp, Entries
<1> QED BY <1>1, <1>2

\* What the log gains.
LEMMA PartLogged ==
    ASSUME CallInv, NEW part, IsPart(part), Writes(part)
    PROVE  /\ log \subseteq log'
           /\ \A m \in part : \E w \in log' :
                 w.n = m.n /\ w.txn = m.txn /\ w.entry = m.entry /\ w.sent = m.sent
           /\ \A w \in log' : w \in log \/ \E m \in part :
                 /\ w = [n |-> m.n, txn |-> m.txn, entry |-> m.entry, sent |-> m.sent,
                         before |-> row[m.txn], payees |-> payee, touched |-> touched]
                 /\ w.n = m.n /\ w.txn = m.txn /\ w.entry = m.entry /\ w.sent = m.sent
                 /\ w.before = row[m.txn] /\ w.payees = payee /\ w.touched = touched
<1>1. log' = log \cup {[n |-> b.n, txn |-> b.txn, entry |-> b.entry, sent |-> b.sent,
                        before |-> row[b.txn], payees |-> payee, touched |-> touched] : b \in part}
  BY WritesFacts
<1>2. ASSUME NEW m \in part
      PROVE  \E w \in log' :
                w.n = m.n /\ w.txn = m.txn /\ w.entry = m.entry /\ w.sent = m.sent
  <2>1. PICK w : w = [n |-> m.n, txn |-> m.txn, entry |-> m.entry, sent |-> m.sent,
                      before |-> row[m.txn], payees |-> payee, touched |-> touched]
    OBVIOUS
  <2>2. w \in log'
    BY <1>1, <1>2, <2>1
  <2> QED BY <2>1, <2>2
<1>3. ASSUME NEW w \in log', w \notin log
      PROVE  \E m \in part :
                /\ w = [n |-> m.n, txn |-> m.txn, entry |-> m.entry, sent |-> m.sent,
                        before |-> row[m.txn], payees |-> payee, touched |-> touched]
                /\ w.n = m.n /\ w.txn = m.txn /\ w.entry = m.entry /\ w.sent = m.sent
                /\ w.before = row[m.txn] /\ w.payees = payee /\ w.touched = touched
  <2>1. PICK m \in part :
            w = [n |-> m.n, txn |-> m.txn, entry |-> m.entry, sent |-> m.sent,
                 before |-> row[m.txn], payees |-> payee, touched |-> touched]
    BY <1>1, <1>3
  <2> QED BY <2>1
<1> QED BY <1>1, <1>2, <1>3

\* A member of the batch is not written yet, and its row does not show what it asks.
LEMMA BatchUnwritten ==
    ASSUME CallInv, call.pc = "send", NEW b \in Entries(call.batch)
    PROVE  /\ b.txn \in Txns /\ b.txn \notin LoggedTxns /\ b.n \notin Logged
           /\ AsRead(b.txn, call.rows[b.txn]) /\ Guarded(b, call.rows[b.txn]) /\ EntrySound(b)
           /\ \A f \in DOMAIN b.entry : row[b.txn][f] # b.entry[f]
<1>1. PICK r : r = call.rows[b.txn]
  OBVIOUS
<1>2. EntrySound(b) /\ b.txn \in DOMAIN call.rows /\ r # None /\ Guarded(b, r)
  BY <1>1 DEF CallInv, BatchHolds
<1>3. b.txn \in Txns /\ AsRead(b.txn, r)
  BY <1>1, <1>2 DEF CallInv, ReadsHold
<1>4. b.txn \notin LoggedTxns
  BY DEF CallInv, ClaimsHold, TxnsOf
<1>5. b.n \notin Logged
  <2>1. \A w \in log : w.n = b.n => w.txn = b.txn
    BY <1>2 DEF CallInv, LogHolds, EntrySound, Stands
  <2> QED BY <1>4, <2>1 DEF Logged, LoggedTxns
<1>6. \A f \in DOMAIN b.entry : row[b.txn][f] # b.entry[f]
  <2>1. SUFFICES ASSUME NEW f \in DOMAIN b.entry PROVE row[b.txn][f] # b.entry[f]
    OBVIOUS
  <2>2. f \in Fields
    BY <1>2 DEF EntrySound
  <2>3. r[f] # b.entry[f] /\ (f = "cleared" => b.entry[f] # "reconciled")
    BY <1>2 DEF Guarded
  <2>4. row[b.txn][f] = r[f] \/ (f = "cleared" /\ row[b.txn].cleared = "reconciled")
    BY <1>3, <2>2 DEF AsRead
  <2> QED BY <2>3, <2>4
<1> QED BY <1>1, <1>2, <1>3, <1>4, <1>5, <1>6

LEMMA SendReads ==
    ASSUME CallInv, Send
    PROVE  ReadsHold' /\ ListHolds' /\ BatchHolds' /\ AnswerHolds' /\ RenameChecked'
<1>1. /\ call.pc = "send" /\ call'.pc = "settle" /\ SameOps
      /\ call'.batch = call.batch /\ call'.i = call.i /\ call'.list = call.list
      /\ payee' = payee /\ touched' = touched
      /\ call'.saved = None \/ AnsweredWith(row')
  BY SendSummary
<1>2. PICK sent : IsPart(sent) /\ Writes(sent)
  BY SendSummary
<1>3. ReadsHold' /\ RenameChecked'
  BY <1>1 DEF ReadsHold, RenameChecked
<1>4. ListHolds'
  BY <1>1 DEF CallInv, ListHolds
<1>5. BatchHolds'
  <2>1. \A b : EntrySound(b) => EntrySound(b)'
    BY <1>1, OpsFacts, SoundKept DEF CallInv, Structure
  <2> QED BY <1>1, <2>1 DEF CallInv, BatchHolds
<1>8. \A q \in sent : \A b \in Entries(call.batch) : (q.txn = b.txn \/ q.n = b.n) =>
         /\ q.n = b.n /\ q.txn = b.txn /\ q.sent = DOMAIN b.entry
         /\ DOMAIN q.entry \subseteq DOMAIN b.entry
         /\ \A f \in DOMAIN q.entry : q.entry[f] = b.entry[f]
  BY <1>2, PartFacts
<1>6. ASSUME NEW b \in Entries(call.batch) PROVE Shows(row'[b.txn], b.entry) <=> b.n \in InFull'
  <2>1. /\ b.txn \in Txns /\ b.n \notin Logged /\ DOMAIN b.entry \in (SUBSET Fields) \ {{}}
        /\ \A f \in DOMAIN b.entry : row[b.txn][f] # b.entry[f]
    BY <1>1, BatchUnwritten DEF EntrySound
  <2>2. \A w \in log : w.n # b.n
    BY <2>1 DEF Logged
  <2>3. CASE \E m \in sent : m.txn = b.txn
    <3>1. PICK m \in sent : m.txn = b.txn
      BY <2>3
    <3>2. /\ m.n = b.n /\ m.sent = DOMAIN b.entry /\ DOMAIN m.entry \subseteq DOMAIN b.entry
          /\ \A f \in DOMAIN m.entry : m.entry[f] = b.entry[f]
      BY <1>8, <3>1
    <3>3. \A f \in Fields :
             row'[b.txn][f] = IF f \in DOMAIN m.entry THEN m.entry[f] ELSE row[b.txn][f]
      BY <1>2, <3>1, WritesFacts
    <3>4. CASE DOMAIN m.entry = m.sent
      <4>1. PICK w \in log' : w.n = b.n /\ DOMAIN w.entry = w.sent
        BY <1>2, <3>2, <3>4, PartLogged
      <4>2. b.n \in InFull'
        BY <4>1 DEF InFull
      <4>3. Shows(row'[b.txn], b.entry)
        BY <2>1, <3>2, <3>3, <3>4 DEF Shows
      <4> QED BY <4>2, <4>3
    <3>5. CASE DOMAIN m.entry # m.sent
      <4>1. PICK f \in DOMAIN b.entry : f \notin DOMAIN m.entry
        BY <3>2, <3>5
      <4>2. row'[b.txn][f] # b.entry[f]
        BY <2>1, <3>3, <4>1
      <4>3. ASSUME NEW w \in log', w.n = b.n PROVE DOMAIN w.entry # w.sent
        <5>1. PICK c \in sent : w.n = c.n /\ w.entry = c.entry /\ w.sent = c.sent
          BY <1>2, <2>2, <4>3, PartLogged
        <5>2. c.txn = b.txn
          BY <1>8, <4>3, <5>1
        <5>3. c = m
          BY <1>2, <3>1, <5>2 DEF IsPart
        <5> QED BY <3>5, <5>1, <5>3
      <4> QED BY <4>1, <4>2, <4>3 DEF Shows, InFull
    <3> QED BY <3>4, <3>5
  <2>4. CASE \A m \in sent : m.txn # b.txn
    <3>1. row'[b.txn] = row[b.txn]
      BY <1>2, <2>1, <2>4, WritesFacts
    <3>2. ~Shows(row'[b.txn], b.entry)
      <4>1. PICK f \in DOMAIN b.entry : TRUE
        BY <2>1
      <4> QED BY <2>1, <3>1, <4>1 DEF Shows
    <3>3. ASSUME NEW w \in log' PROVE w.n # b.n
      <4>1. CASE w \in log
        BY <2>2, <4>1
      <4>2. ASSUME NEW m \in sent, w.n = m.n PROVE w.n # b.n
        <5>1. m.n = b.n => m.txn = b.txn
          BY <1>8
        <5> QED BY <2>4, <4>2, <5>1
      <4> QED BY <1>2, <4>1, <4>2, PartLogged
    <3> QED BY <3>2, <3>3 DEF InFull
  <2> QED BY <2>3, <2>4
<1>7. AnswerHolds'
  BY <1>1, <1>6 DEF AnswerHolds, AnsweredWith
<1> QED BY <1>3, <1>4, <1>5, <1>7

LEMMA SendLog ==
    ASSUME CallInv, Send
    PROVE  ClaimsHold' /\ LogHolds' /\ OneWrite' /\ GuardsHold' /\ ResultsHold' /\ VerdictsAreTrue'
<1>1. /\ call.pc = "send" /\ call'.pc = "settle" /\ SameOps
      /\ call'.batch = call.batch /\ call'.i = call.i /\ call'.groups = call.groups
      /\ call'.results = call.results /\ call'.claimed = call.claimed
      /\ call'.rest = <<>> /\ call'.merged = <<>> /\ call'.members = <<>>
      /\ call.rest = <<>> /\ call.merged = <<>> /\ call.members = <<>>
      /\ payee' = payee /\ touched' = touched
  BY SendSummary
<1>2. PICK sent : IsPart(sent) /\ Writes(sent)
  BY SendSummary
<1>3. /\ log \subseteq log'
      /\ \A w \in log' : w \in log \/ \E b \in sent :
            /\ w = [n |-> b.n, txn |-> b.txn, entry |-> b.entry, sent |-> b.sent,
                    before |-> row[b.txn], payees |-> payee, touched |-> touched]
            /\ w.n = b.n /\ w.txn = b.txn /\ w.entry = b.entry
            /\ w.before = row[b.txn] /\ w.payees = payee /\ w.touched = touched
  BY <1>2, PartLogged
<1>13. \A m \in sent : \E b \in Entries(call.batch) :
          /\ m.n = b.n /\ m.txn = b.txn /\ DOMAIN m.entry \subseteq DOMAIN b.entry
          /\ \A f \in DOMAIN m.entry : m.entry[f] = b.entry[f]
  <2>1. ASSUME NEW m \in sent
        PROVE  \E b \in Entries(call.batch) :
                  /\ m.n = b.n /\ m.txn = b.txn /\ DOMAIN m.entry \subseteq DOMAIN b.entry
                  /\ \A f \in DOMAIN m.entry : m.entry[f] = b.entry[f]
    <3>3. \A q \in sent : \E b \in Entries(call.batch) :
             /\ q.n = b.n /\ q.txn = b.txn /\ q.sent = DOMAIN b.entry
             /\ DOMAIN q.entry \in (SUBSET DOMAIN b.entry) \ {{}}
             /\ \A f \in DOMAIN q.entry : q.entry[f] = b.entry[f]
      BY <1>2 DEF IsPart
    <3>1. PICK b \in Entries(call.batch) :
             /\ m.n = b.n /\ m.txn = b.txn /\ m.sent = DOMAIN b.entry
             /\ DOMAIN m.entry \in (SUBSET DOMAIN b.entry) \ {{}}
             /\ \A f \in DOMAIN m.entry : m.entry[f] = b.entry[f]
      BY <2>1, <3>3
    <3>2. DOMAIN m.entry \subseteq DOMAIN b.entry
      BY <3>1
    <3> QED BY <3>1, <3>2
  <2> QED BY <2>1
<1>4. Early' = Early /\ Unreported' = Unreported
  BY <1>1 DEF Early, Unreported
<1>5. /\ Logged' \subseteq Logged \cup NsOf(call.batch)
      /\ LoggedTxns' \subseteq LoggedTxns \cup TxnsOf(call.batch)
  BY <1>3, <1>13 DEF Logged, LoggedTxns, NsOf, TxnsOf
<1>6. ClaimsHold'
  BY <1>1, <1>5, EmptyFacts DEF CallInv, ClaimsHold
<1>7. \A m : Stands(m) => Stands(m)'
  BY <1>1, OpsFacts, SoundKept DEF CallInv, Structure
<1>8. LogHolds'
  <2>1. \A w \in log' : Stands(w)
    <3>1. ASSUME NEW b \in sent, NEW w, w.n = b.n, w.txn = b.txn PROVE Stands(w)
      <4>1. PICK c \in Entries(call.batch) : b.n = c.n /\ b.txn = c.txn
        BY <1>13, <3>1
      <4> QED BY <1>1, <3>1, <4>1, BatchUnwritten DEF EntrySound, Stands
    <3> QED BY <1>3, <3>1 DEF CallInv, LogHolds
  <2>2. NsOf(call.batch) \cap Early = {}
    BY <1>1, EmptyFacts DEF Early, CallInv, Structure, QueuesApart
  <2> QED BY <1>4, <1>5, <1>7, <2>1, <2>2 DEF CallInv, LogHolds
<1>9. OneWrite'
  <2>1. SUFFICES ASSUME NEW w1 \in log', NEW w2 \in log', w1.txn = w2.txn PROVE w1 = w2
    BY DEF OneWrite
  <2>2. \A w \in log : \A b \in sent : w.txn # b.txn
    <3>1. \A b \in Entries(call.batch) : b.txn \notin LoggedTxns
      BY <1>1, BatchUnwritten
    <3> QED BY <1>13, <3>1 DEF LoggedTxns
  <2>3. \A b, c \in sent : b.txn = c.txn => b = c
    BY <1>2 DEF IsPart
  <2> QED BY <1>3, <2>1, <2>2, <2>3 DEF CallInv, OneWrite
<1>10. GuardsHold'
  <2>1. NoNewCollision'
    BY <1>1 DEF CallInv, GuardsHold, NoNewCollision, SameOps
  <2>2. ASSUME NEW w \in log'
        PROVE  /\ w.txn \notin w.touched =>
                     /\ ~w.before.deleted
                     /\ "cleared" \in DOMAIN w.entry => w.before.cleared # "reconciled"
                     /\ \A f \in DOMAIN w.entry : w.before[f] # w.entry[f]
               /\ "category" \in DOMAIN w.entry => w.txn \notin Split \cup Transfer
               /\ "payee" \in DOMAIN w.entry /\ w.touched \cap Payees = {} =>
                     w.payees[w.entry["payee"]] # Gone /\ w.entry["payee"] \notin OwnPayees
    <3>1. CASE w \in log
      BY <3>1 DEF CallInv, GuardsHold
    <3>2. ASSUME NEW b \in sent, w.n = b.n, w.txn = b.txn, w.entry = b.entry,
                 w.before = row[b.txn], w.payees = payee, w.touched = touched
          PROVE  /\ w.txn \notin w.touched =>
                       /\ ~w.before.deleted
                       /\ "cleared" \in DOMAIN w.entry => w.before.cleared # "reconciled"
                       /\ \A f \in DOMAIN w.entry : w.before[f] # w.entry[f]
                 /\ "category" \in DOMAIN w.entry => w.txn \notin Split \cup Transfer
                 /\ "payee" \in DOMAIN w.entry /\ w.touched \cap Payees = {} =>
                       w.payees[w.entry["payee"]] # Gone /\ w.entry["payee"] \notin OwnPayees
      <4>1. PICK c \in Entries(call.batch) :
                /\ b.txn = c.txn /\ DOMAIN b.entry \subseteq DOMAIN c.entry
                /\ \A f \in DOMAIN b.entry : b.entry[f] = c.entry[f]
        BY <1>13, <3>2
      <4>2. PICK r : r = call.rows[c.txn]
        OBVIOUS
      <4>3. AsRead(c.txn, r) /\ Guarded(c, r)
        BY <1>1, <4>1, <4>2, BatchUnwritten
      <4>4. b.txn \notin touched => row[b.txn] = r
        BY <4>1, <4>3 DEF AsRead
      <4> QED BY <3>2, <4>1, <4>3, <4>4 DEF Guarded
    <3> QED BY <1>3, <3>1, <3>2
  <2> QED BY <2>1, <2>2 DEF GuardsHold
<1>11. ResultsHold'
  BY <1>1, <1>4 DEF CallInv, ResultsHold, SameOps
<1>12. VerdictsAreTrue'
  <2>1. ASSUME NEW x \in call.results PROVE {w \in log' : w.n = x.n} = {w \in log : w.n = x.n}
    <3>1. x.n \notin NsOf(call.batch)
      BY DEF CallInv, ResultsHold, Unreported
    <3>2. \A b \in sent : b.n # x.n
      BY <1>13, <3>1 DEF NsOf
    <3> QED BY <1>3, <3>2
  <2> QED BY <1>1, <2>1 DEF CallInv, VerdictsAreTrue, SameOps
<1> QED BY <1>6, <1>8, <1>9, <1>10, <1>11, <1>12

-----------------------------------------------------------------------------
(* What is written and what is reported.                                    *)

Truthful(x) ==
    /\ x.verdict = "applied" => x.n \in InFull
    /\ x.verdict \in {"nothing"} \cup Unsent => x.n \notin Logged
    /\ x.verdict = "unreflected" => x.n \notin InFull

\* A report of an operation the call is through with.
Report(x) ==
    /\ x = Verdict(x.n, x.verdict) /\ x.verdict \in {"applied", "nothing"} \cup Failures
    /\ x.n \in 1 .. call'.i - 1 /\ x.n \notin Unreported'
    /\ IsPatch(call.ops[x.n]) => Truthful(x)

\* A step that writes nothing.
LEMMA LogKept ==
    ASSUME CallInv, UNCHANGED log, SameOps, call'.i \in {call.i, call.i + 1},
           Early' \subseteq Early \cup {call.i}, Unreported' \subseteq Unreported \cup {call.i},
           NEW new, call'.results = call.results \cup new, \A x \in new : Report(x)
    PROVE  LogHolds' /\ OneWrite' /\ ResultsHold' /\ VerdictsAreTrue'
<1>1. call.i \in Nat /\ call'.i \in Nat /\ call.i <= call'.i /\ call'.ops = call.ops
  BY OpsFacts DEF CallInv, Structure, SameOps
<1>2. Logged' = Logged
  BY DEF Logged
<1>3. LogHolds'
  <2>1. \A m : Stands(m) => Stands(m)'
    BY <1>1, SoundKept DEF CallInv, Structure
  <2>2. call.i \notin Logged
    <3>1. \A w \in log : w.n # call.i
      BY <1>1 DEF CallInv, LogHolds, Stands
    <3> QED BY <3>1 DEF Logged
  <2> QED BY <1>2, <2>1, <2>2 DEF CallInv, LogHolds
<1>4. OneWrite'
  BY DEF CallInv, OneWrite
<1>5. ResultsHold'
  <2>1. SUFFICES ASSUME NEW x \in call'.results
                 PROVE  /\ x = Verdict(x.n, x.verdict)
                        /\ x.verdict \in {"applied", "nothing"} \cup Failures
                        /\ x.n \in 1 .. call'.i - 1 /\ x.n \notin Unreported'
    BY DEF ResultsHold
  <2>2. CASE x \in call.results
    <3>1. /\ x = Verdict(x.n, x.verdict)
          /\ x.verdict \in {"applied", "nothing"} \cup Failures
          /\ x.n \in 1 .. call.i - 1 /\ x.n \notin Unreported
      BY <2>2 DEF CallInv, ResultsHold
    <3>2. x.n \in 1 .. call'.i - 1 /\ x.n # call.i
      BY <1>1, <3>1
    <3> QED BY <3>1, <3>2
  <2>3. CASE x \in new
    BY <2>3 DEF Report
  <2> QED BY <2>1, <2>2, <2>3
<1>6. VerdictsAreTrue'
  <2>1. SUFFICES ASSUME NEW x \in call'.results, IsPatch(call.ops[x.n])
                 PROVE  /\ x.verdict = "applied" =>
                              {w \in {w \in log : w.n = x.n} : DOMAIN w.entry = w.sent} # {}
                        /\ x.verdict \in {"nothing"} \cup Unsent => {w \in log : w.n = x.n} = {}
                        /\ x.verdict = "unreflected" =>
                              {w \in {w \in log : w.n = x.n} : DOMAIN w.entry = w.sent} = {}
    BY <1>1 DEF VerdictsAreTrue
  <2>2. CASE x \in call.results
    BY <2>1, <2>2 DEF CallInv, VerdictsAreTrue
  <2>3. CASE x \in new
    <3>1. Truthful(x)
      BY <2>1, <2>3 DEF Report
    <3>2. x.n \in InFull <=> {w \in {w \in log : w.n = x.n} : DOMAIN w.entry = w.sent} # {}
      BY DEF InFull
    <3>3. x.n \in Logged <=> {w \in log : w.n = x.n} # {}
      BY DEF Logged
    <3> QED BY <3>1, <3>2, <3>3 DEF Truthful
  <2> QED BY <2>1, <2>2, <2>3
<1> QED BY <1>3, <1>4, <1>5, <1>6

LEMMA NothingReported ==
    ASSUME CallInv, UNCHANGED log, SameOps, call'.i \in {call.i, call.i + 1},
           Early' \subseteq Early \cup {call.i}, Unreported' \subseteq Unreported \cup {call.i},
           call'.results = call.results
    PROVE  LogHolds' /\ OneWrite' /\ ResultsHold' /\ VerdictsAreTrue'
<1>1. PICK new : new = {}
  OBVIOUS
<1>2. call'.results = call.results \cup new /\ \A x \in new : Report(x)
  BY <1>1
<1> QED BY <1>2, LogKept

LEMMA OneReported ==
    ASSUME CallInv, UNCHANGED log, SameOps, call'.i \in {call.i, call.i + 1},
           Early' \subseteq Early \cup {call.i}, Unreported' \subseteq Unreported \cup {call.i},
           NEW n, NEW v, call'.results = call.results \cup {Verdict(n, v)}, Report(Verdict(n, v))
    PROVE  LogHolds' /\ OneWrite' /\ ResultsHold' /\ VerdictsAreTrue'
<1>1. PICK new : new = {Verdict(n, v)}
  OBVIOUS
<1>2. call'.results = call.results \cup new /\ \A x \in new : Report(x)
  BY <1>1
<1> QED BY <1>2, LogKept

\* What is reported of an operation that was not written.
LEMMA Unwritten ==
    ASSUME NEW n, NEW v \in {"refused", "nothing", "unread", "conflict", "twice"},
           n \in 1 .. call'.i - 1, n \notin Unreported', n \notin Logged
    PROVE  Report(Verdict(n, v))
<1>1. PICK x : x = Verdict(n, v)
  OBVIOUS
<1>2. x.n = n /\ x.verdict = v /\ x = Verdict(x.n, x.verdict)
  BY <1>1 DEF Verdict
<1>3. v \in {"applied", "nothing"} \cup Failures /\ v \notin {"applied", "unreflected"}
  BY DEF Failures, Unsent
<1>4. Report(x)
  BY <1>2, <1>3 DEF Report, Truthful
<1> QED BY <1>1, <1>4

\* Of a rename the log says nothing.
LEMMA RenameReport ==
    ASSUME NEW n, NEW v \in {"refused", "nothing", "unread", "applied", "unknown"},
           n \in 1 .. call'.i - 1, n \notin Unreported', ~IsPatch(call.ops[n])
    PROVE  Report(Verdict(n, v))
<1>1. PICK x : x = Verdict(n, v)
  OBVIOUS
<1>2. x.n = n /\ x.verdict = v /\ x = Verdict(x.n, x.verdict)
  BY <1>1 DEF Verdict
<1>3. v \in {"applied", "nothing"} \cup Failures
  BY DEF Failures, Unsent
<1>4. Report(x)
  BY <1>2, <1>3 DEF Report
<1> QED BY <1>1, <1>4

LEMMA GuardsKept ==
    ASSUME CallInv, UNCHANGED <<log, touched, payee>>, call'.start = call.start, call'.pc # "rename"
    PROVE  GuardsHold' /\ RenameChecked'
  BY DEF CallInv, GuardsHold, NoNewCollision, RenameChecked

LEMMA NextNumber ==
    ASSUME CallInv
    PROVE  call.i \in Nat /\ call.i >= 1 /\ call.i \notin Unreported /\ call.i \notin Logged
<1>1. call.i \in Nat /\ call.i >= 1 /\ call.i \notin 1 .. call.i - 1
  BY OpsFacts DEF CallInv, Structure, CallShape
<1>2. call.i \notin Unreported
  BY <1>1, PassedNumbers DEF CallInv, Structure
<1>3. \A w \in log : w.n # call.i
  BY <1>1 DEF CallInv, LogHolds, Stands
<1> QED BY <1>1, <1>2, <1>3 DEF Logged

\* What the call keeps of the operations it is through with.
Records ==
    /\ ClaimsHold /\ LogHolds /\ OneWrite /\ ResultsHold /\ VerdictsAreTrue
    /\ GuardsHold /\ RenameChecked

LEMMA BeginRecords ==
    ASSUME CallInv, NEW ops \in Requests, Begin(ops)
    PROVE  Records'
<1>1. /\ call.pc = "idle" /\ call'.pc = "classify" /\ call'.start = [row |-> row, payee |-> payee]
      /\ call'.results = {} /\ call'.members = <<>> /\ call'.batch = <<>>
      /\ payee' = payee /\ log' = log
  BY BeginEffect DEF server
<1>2. log = {} /\ log' = {}
  BY <1>1 DEF CallInv, Structure, Phases, Gathering
<1>3. Logged' = {} /\ LoggedTxns' = {}
  BY <1>2 DEF Logged, LoggedTxns
<1>4. ClaimsHold'
  BY <1>1, <1>3, EmptyFacts DEF ClaimsHold
<1>5. LogHolds' /\ OneWrite'
  BY <1>2, <1>3 DEF LogHolds, OneWrite
<1>6. ResultsHold' /\ VerdictsAreTrue' /\ RenameChecked'
  BY <1>1 DEF ResultsHold, VerdictsAreTrue, RenameChecked
<1>7. GuardsHold'
  <2>1. call'.start.payee = payee'
    BY <1>1
  <2> QED BY <1>2, <2>1 DEF GuardsHold, NoNewCollision
<1> QED BY <1>4, <1>5, <1>6, <1>7 DEF Records

LEMMA ClassifyRecords ==
    ASSUME CallInv, Classify, Structure'
    PROVE  Records'
<1> DEFINE o == call.ops[call.i]
           m == [n |-> call.i, txn |-> o.txn, patch |-> o.patch]
<1>1. /\ call.pc = "classify" /\ call'.pc = call.pc /\ call'.i = call.i + 1
      /\ call'.claimed = call.claimed /\ SameOps /\ SameQueues /\ SameElse
      /\ log' = log /\ touched' = touched
      /\ \/ /\ \E v \in {"refused", "nothing"} : call'.results = call.results \cup {Verdict(call.i, v)}
            /\ call'.groups = call.groups
         \/ call'.groups = Grouped(call.groups, o.at, m) /\ call'.results = call.results
  BY ClassifyEffect DEF CallInv, Structure, ghosts
<1>2. /\ call'.rest = call.rest /\ call'.merged = call.merged /\ call'.members = call.members
      /\ call'.batch = call.batch /\ call'.start = call.start /\ payee' = payee
  BY <1>1 DEF SameQueues, SameOps, SameElse, server
<1>3. GuardsHold' /\ RenameChecked'
  BY <1>1, <1>2, GuardsKept
<1>4. ClaimsHold'
  BY <1>1, <1>2 DEF CallInv, ClaimsHold, LoggedTxns
<1>5. LogHolds' /\ OneWrite' /\ ResultsHold' /\ VerdictsAreTrue'
  <2>1. CASE call'.groups = call.groups
             /\ \E v \in {"refused", "nothing"} : call'.results = call.results \cup {Verdict(call.i, v)}
    <3>1. Early' = Early /\ Unreported' = Unreported
      BY <1>2, <2>1 DEF Early, Unreported
    <3>2. PICK n, v : /\ v \in {"refused", "nothing"} /\ n = call.i
                      /\ call'.results = call.results \cup {Verdict(n, v)}
      <4>1. PICK v \in {"refused", "nothing"} : call'.results = call.results \cup {Verdict(call.i, v)}
        BY <2>1
      <4> QED BY <4>1
    <3>3. n \in 1 .. call'.i - 1 /\ n \notin Unreported' /\ n \notin Logged
      BY <1>1, <3>1, <3>2, NextNumber
    <3>4. Report(Verdict(n, v))
      BY <3>2, <3>3, Unwritten
    <3>5. /\ UNCHANGED log /\ SameOps /\ call'.i \in {call.i, call.i + 1}
          /\ Early' \subseteq Early \cup {call.i} /\ Unreported' \subseteq Unreported \cup {call.i}
      BY <1>1, <3>1
    <3> QED BY <3>2, <3>4, <3>5, OneReported
  <2>2. CASE call'.groups = Grouped(call.groups, o.at, m) /\ call'.results = call.results
    <3>1. PICK gs, key, mm : gs = call.groups /\ key = o.at /\ mm = m
      OBVIOUS
    <3>2. mm.n = call.i
      BY <3>1
    <3>3. Partition(gs) /\ mm.n \notin Waiting(gs)
      BY <3>1, <3>2, NextNumber DEF CallInv, Structure, WaitingHolds, Unreported, Early
    <3>4. InGroups(Grouped(gs, key, mm)) = InGroups(gs) \cup {mm}
      BY <3>3, GroupedFacts
    <3>5. Waiting(call'.groups) = Waiting(call.groups) \cup {call.i}
      BY <2>2, <3>1, <3>2, <3>4 DEF Waiting
    <3>6. Early' \subseteq Early \cup {call.i} /\ Unreported' \subseteq Unreported \cup {call.i}
      BY <1>2, <3>5 DEF Early, Unreported
    <3>7. /\ UNCHANGED log /\ SameOps /\ call'.i \in {call.i, call.i + 1}
          /\ call'.results = call.results
      BY <1>1, <2>2
    <3> QED BY <3>6, <3>7, NothingReported
  <2> QED BY <1>1, <2>1, <2>2
<1> QED BY <1>3, <1>4, <1>5 DEF Records

LEMMA RenameReadRecords ==
    ASSUME CallInv, RenameRead
    PROVE  Records'
<1>1. /\ call.pc = "classify" /\ call.i <= Len(call.ops) /\ ~IsPatch(call.ops[call.i])
      /\ call'.claimed = call.claimed /\ call'.groups = call.groups
      /\ SameOps /\ SameQueues /\ SameElse
      /\ log' = log /\ touched' = touched
      /\ \/ /\ call'.i = call.i + 1 /\ call'.pc = call.pc
            /\ \E v \in {"unread", "refused", "nothing"} :
                  call'.results = call.results \cup {Verdict(call.i, v)}
         \/ /\ ~RenameRefused(payee, call.ops[call.i])
            /\ call'.pc = "rename" /\ call'.i = call.i /\ call'.results = call.results
  BY RenameReadEffect DEF CallInv, Structure, ghosts
<1>2. /\ call'.rest = call.rest /\ call'.merged = call.merged /\ call'.members = call.members
      /\ call'.batch = call.batch /\ call'.start = call.start /\ call'.ops = call.ops /\ payee' = payee
  BY <1>1 DEF SameQueues, SameOps, SameElse, server
<1>3. Early' = Early /\ Unreported' = Unreported
  BY <1>1, <1>2 DEF Early, Unreported
<1>4. GuardsHold'
  BY <1>1, <1>2 DEF CallInv, GuardsHold, NoNewCollision
<1>5. RenameChecked'
  <2>1. CASE call'.pc # "rename"
    BY <2>1 DEF RenameChecked
  <2>2. CASE call'.pc = "rename"
    <3>1. ~RenameRefused(payee, call.ops[call.i]) /\ call'.i = call.i
      BY <1>1, <2>2
    <3>2. \A q \in Payees \ {call.ops[call.i].payee} : payee[q] # call.ops[call.i].name
      BY <3>1 DEF RenameRefused
    <3> QED BY <1>2, <3>1, <3>2 DEF RenameChecked
  <2> QED BY <2>1, <2>2
<1>6. ClaimsHold'
  BY <1>1, <1>2 DEF CallInv, ClaimsHold, LoggedTxns
<1>7. LogHolds' /\ OneWrite' /\ ResultsHold' /\ VerdictsAreTrue'
  <2>1. CASE call'.i = call.i /\ call'.results = call.results
    BY <1>1, <1>3, <2>1, NothingReported
  <2>2. CASE call'.i = call.i + 1 /\ \E v \in {"unread", "refused", "nothing"} :
                  call'.results = call.results \cup {Verdict(call.i, v)}
    <3>1. PICK n, v : /\ v \in {"refused", "nothing", "unread", "applied", "unknown"}
                      /\ call'.results = call.results \cup {Verdict(n, v)} /\ n = call.i
      <4>1. PICK v \in {"unread", "refused", "nothing"} :
               call'.results = call.results \cup {Verdict(call.i, v)}
        BY <2>2
      <4> QED BY <4>1
    <3>2. n \in 1 .. call'.i - 1 /\ n \notin Unreported' /\ ~IsPatch(call.ops[n])
      BY <1>1, <1>3, <2>2, <3>1, NextNumber
    <3>3. Report(Verdict(n, v))
      BY <3>1, <3>2, RenameReport
    <3> QED BY <1>1, <1>3, <2>2, <3>1, <3>3, OneReported
  <2> QED BY <1>1, <2>1, <2>2
<1> QED BY <1>4, <1>5, <1>6, <1>7 DEF Records

LEMMA RenameSendRecords ==
    ASSUME CallInv, RenameSend
    PROVE  Records'
<1> DEFINE o == call.ops[call.i]
<1>1. /\ call.pc = "rename" /\ call'.pc = "renamed"
      /\ payee' \in {payee, [payee EXCEPT ![o.payee] = o.name]}
      /\ call'.i = call.i /\ call'.claimed = call.claimed /\ call'.groups = call.groups
      /\ call'.results = call.results /\ SameOps /\ SameQueues
      /\ log' = log /\ touched' = touched
  BY RenameSendEffect DEF CallInv, Structure, ghosts
<1>2. /\ call'.rest = call.rest /\ call'.merged = call.merged /\ call'.members = call.members
      /\ call'.batch = call.batch /\ call'.start = call.start
  BY <1>1 DEF SameQueues, SameOps
<1>3. Early' = Early /\ Unreported' = Unreported
  BY <1>1, <1>2 DEF Early, Unreported
<1>4. RenameChecked'
  BY <1>1 DEF RenameChecked
<1>5. GuardsHold'
  <2>1. PICK p, name : p = o.payee /\ name = o.name
    OBVIOUS
  <2>2. payee = [q \in Payees |-> payee[q]]
    BY DEF CallInv, ServerShape
  <2>3. payee' = payee \/ \A q \in Payees : payee'[q] = IF q = p THEN name ELSE payee[q]
    <3>1. CASE payee' = payee
      BY <3>1
    <3>2. CASE payee' = [payee EXCEPT ![p] = name]
      BY <2>2, <3>2
    <3> QED BY <1>1, <2>1, <3>1, <3>2
  <2>4. \A q \in Payees : q # p /\ payee[q] = name => q \in touched
    BY <1>1, <2>1 DEF CallInv, RenameChecked
  <2>5. NoNewCollision'
    <3>1. SUFFICES ASSUME call.start # None, NEW a \in Payees, NEW b \in Payees,
                          a # b, payee'[a] = payee'[b], payee'[a] # Gone, {a, b} \cap touched = {}
                   PROVE  call.start.payee[a] = call.start.payee[b]
      BY <1>1, <1>2 DEF NoNewCollision
    <3>2. payee[a] = payee[b] /\ payee[a] # Gone
      BY <2>3, <2>4, <3>1
    <3> QED BY <3>1, <3>2 DEF CallInv, GuardsHold, NoNewCollision
  <2> QED BY <1>1, <2>5 DEF CallInv, GuardsHold
<1>6. ClaimsHold'
  BY <1>1, <1>2 DEF CallInv, ClaimsHold, LoggedTxns
<1>7. LogHolds' /\ OneWrite' /\ ResultsHold' /\ VerdictsAreTrue'
  BY <1>1, <1>3, NothingReported
<1> QED BY <1>4, <1>5, <1>6, <1>7 DEF Records

LEMMA RenameSettleRecords ==
    ASSUME CallInv, RenameSettle
    PROVE  Records'
<1>1. /\ call.pc = "renamed" /\ call'.pc = "classify" /\ call'.i = call.i + 1
      /\ call'.results = call.results \cup {Verdict(call.i, call.saved)}
      /\ call'.claimed = call.claimed /\ call'.groups = call.groups
      /\ SameOps /\ SameQueues /\ log' = log /\ touched' = touched /\ payee' = payee
  BY RenameSettleEffect DEF CallInv, Structure, ghosts, server
<1>2. /\ call'.rest = call.rest /\ call'.merged = call.merged /\ call'.members = call.members
      /\ call'.batch = call.batch /\ call'.start = call.start
  BY <1>1 DEF SameQueues, SameOps
<1>3. Early' = Early /\ Unreported' = Unreported
  BY <1>1, <1>2 DEF Early, Unreported
<1>4. GuardsHold' /\ RenameChecked'
  BY <1>1, <1>2, GuardsKept
<1>5. ClaimsHold'
  BY <1>1, <1>2 DEF CallInv, ClaimsHold, LoggedTxns
<1>6. LogHolds' /\ OneWrite' /\ ResultsHold' /\ VerdictsAreTrue'
  <2>1. PICK n, v : n = call.i /\ v = call.saved
    OBVIOUS
  <2>2. v \in {"applied", "unknown"} /\ ~IsPatch(call.ops[n])
    BY <1>1, <2>1 DEF CallInv, Structure, CallShape
  <2>3. n \in 1 .. call'.i - 1 /\ n \notin Unreported'
    BY <1>1, <1>3, <2>1, NextNumber
  <2>4. Report(Verdict(n, v))
    BY <2>2, <2>3, RenameReport
  <2>5. call'.results = call.results \cup {Verdict(n, v)}
    BY <1>1, <2>1
  <2> QED BY <1>1, <1>3, <2>4, <2>5, OneReported
<1> QED BY <1>4, <1>5, <1>6 DEF Records

\* The call goes on with the same queues and reports nothing.
LEMMA QuietRecords ==
    ASSUME CallInv, UNCHANGED <<call.i, call.claimed, call.groups, call.results>>, SameOps, SameQueues,
           UNCHANGED <<log, touched, payee>>, call'.pc \notin {"rename", "settle"}, call.pc # "settle"
    PROVE  Records'
<1>1. /\ call'.rest = call.rest /\ call'.merged = call.merged /\ call'.members = call.members
      /\ call'.batch = call.batch /\ call'.start = call.start /\ call'.claimed = call.claimed
  BY DEF SameQueues, SameOps
<1>2. Early' = Early /\ Unreported' = Unreported
  BY <1>1 DEF Early, Unreported
<1>3. GuardsHold' /\ RenameChecked'
  BY <1>1, GuardsKept
<1>4. ClaimsHold'
  BY <1>1 DEF CallInv, ClaimsHold, LoggedTxns
<1>5. LogHolds' /\ OneWrite' /\ ResultsHold' /\ VerdictsAreTrue'
  BY <1>2, NothingReported
<1> QED BY <1>3, <1>4, <1>5 DEF Records

LEMMA WaitRecords ==
    ASSUME CallInv, Classified \/ Claimed \/ FreshListing \/ Straggler \/ Planned
    PROVE  Records'
<1>1. CASE Classified
  <2>1. /\ call.pc = "classify" /\ call'.pc \in {"done", "group"}
        /\ UNCHANGED <<call.i, call.claimed, call.groups, call.results>>
        /\ SameOps /\ SameQueues /\ SameElse /\ UNCHANGED ghosts
    BY <1>1, ClassifiedEffect DEF CallInv, Structure
  <2>2. UNCHANGED <<log, touched, payee>>
    BY <2>1 DEF SameElse, server, ghosts
  <2> QED BY <2>1, <2>2, QuietRecords
<1>2. CASE Claimed
  <2>1. /\ call.pc = "merge"
        /\ UNCHANGED <<call.i, call.claimed, call.groups, call.results, call.rest, call.merged,
                       call.members>>
        /\ SameOps /\ SameElse /\ UNCHANGED ghosts
        /\ \/ Returned
           \/ call'.pc = "listing" /\ SameReads /\ UNCHANGED call.batch
    BY <1>2, ClaimedEffect DEF CallInv, Structure
  <2>2. call.batch = <<>>
    BY <2>1 DEF CallInv, Structure, Phases
  <2>3. SameQueues /\ call'.pc \notin {"rename", "settle"}
    BY <2>1, <2>2 DEF SameQueues, Returned
  <2>4. UNCHANGED <<log, touched, payee>>
    BY <2>1 DEF SameElse, server, ghosts
  <2> QED BY <2>1, <2>3, <2>4, QuietRecords
<1>3. CASE FreshListing
  <2>1. call.pc = "listing" /\ call'.pc = "rows" /\ SameCall /\ SameElse /\ UNCHANGED ghosts
    BY <1>3, FreshListingEffect DEF CallInv, Structure
  <2>2. UNCHANGED <<log, touched, payee>>
    BY <2>1 DEF SameElse, server, ghosts
  <2> QED BY <2>1, <2>2, QuietRecords DEF SameCall
<1>4. CASE Straggler
  <2>1. call.pc = "rows" /\ call'.pc \in {"rows", "plan"} /\ SameCall /\ SameElse /\ UNCHANGED ghosts
    BY <1>4, StragglerEffect DEF CallInv, Structure
  <2>2. UNCHANGED <<log, touched, payee>>
    BY <2>1 DEF SameElse, server, ghosts
  <2> QED BY <2>1, <2>2, QuietRecords DEF SameCall
<1>5. CASE Planned
  <2>1. /\ call.pc = "plan"
        /\ UNCHANGED <<call.i, call.claimed, call.groups, call.results, call.rest, call.merged,
                       call.members>>
        /\ SameOps /\ SameElse /\ UNCHANGED ghosts
        /\ \/ call.batch = <<>> /\ Returned
           \/ call'.pc = "send" /\ SameReads /\ UNCHANGED call.batch
    BY <1>5, PlannedEffect DEF CallInv, Structure
  <2>2. SameQueues /\ call'.pc \notin {"rename", "settle"}
    BY <2>1 DEF SameQueues, Returned
  <2>3. UNCHANGED <<log, touched, payee>>
    BY <2>1 DEF SameElse, server, ghosts
  <2> QED BY <2>1, <2>2, <2>3, QuietRecords
<1> QED BY <1>1, <1>2, <1>3, <1>4, <1>5

LEMMA OpenGroupRecords ==
    ASSUME CallInv, OpenGroup
    PROVE  Records'
<1>1. PICK gs, first : gs = call.groups /\ first = Head(gs).members
  OBVIOUS
<1>2. /\ call.pc = "group" /\ call'.groups = Tail(gs)
      /\ UNCHANGED <<call.i, call.claimed, call.merged, call.members>> /\ SameOps
      /\ SameElse /\ UNCHANGED ghosts
      /\ \/ /\ call'.results = call.results \cup Verdicts(first, "unread")
            /\ UNCHANGED call.rest /\ Returned
         \/ /\ call'.pc = "merge" /\ call'.rest = first
            /\ UNCHANGED <<call.results, call.batch>>
  BY <1>1, OpenGroupEffect DEF CallInv, Structure
<1>3. /\ call.rest = <<>> /\ call.merged = <<>> /\ call.members = <<>> /\ call.batch = <<>>
      /\ gs # <<>>
  BY <1>1, <1>2 DEF CallInv, Structure, Phases
<1>4. /\ call'.merged = <<>> /\ call'.members = <<>> /\ call'.batch = <<>> /\ call'.i = call.i
      /\ call'.claimed = call.claimed /\ call'.start = call.start
      /\ log' = log /\ touched' = touched /\ payee' = payee
  BY <1>2, <1>3 DEF Returned, SameElse, SameOps, server, ghosts
<1>5. /\ Waiting(gs) = Waiting(call'.groups) \cup NsOf(first)
      /\ Waiting(call'.groups) \cap NsOf(first) = {}
  <2>1. Partition(gs)
    BY <1>1 DEF CallInv, Structure, WaitingHolds
  <2> QED BY <1>1, <1>2, <1>3, <2>1, FirstGroup
<1>6. GuardsHold' /\ RenameChecked'
  <2>1. call'.pc # "rename"
    BY <1>2 DEF Returned
  <2> QED BY <1>4, <2>1, GuardsKept
<1>7. ClaimsHold'
  BY <1>4, EmptyFacts DEF CallInv, ClaimsHold, LoggedTxns
<1>8. CASE call'.rest = first /\ call'.results = call.results
  <2>1. Early' = Early /\ Unreported' = Unreported
    BY <1>1, <1>3, <1>4, <1>5, <1>8, EmptyFacts DEF Early, Unreported
  <2>2. LogHolds' /\ OneWrite' /\ ResultsHold' /\ VerdictsAreTrue'
    BY <1>2, <1>4, <1>8, <2>1, NothingReported
  <2> QED BY <1>6, <1>7, <2>2 DEF Records
<1>9. CASE call'.rest = <<>> /\ call'.results = call.results \cup Verdicts(first, "unread")
  <2>1. Unreported' = Waiting(call'.groups) /\ Early' = Waiting(call'.groups)
    BY <1>4, <1>9, EmptyFacts DEF Early, Unreported
  <2>2. Waiting(gs) \subseteq Early /\ Waiting(gs) \subseteq Unreported
    BY <1>1 DEF Early, Unreported
  <2>3. ASSUME NEW x \in Verdicts(first, "unread") PROVE Report(x)
    <3>1. PICK n : n \in NsOf(first) /\ x = Verdict(n, "unread")
      BY VerdictFacts DEF NsOf
    <3>2. n \in Early /\ n \in Unreported
      BY <1>5, <2>2, <3>1
    <3>3. n \in 1 .. call.i - 1
      BY <3>2, PassedNumbers DEF CallInv, Structure
    <3>4. n \notin Logged /\ n \notin Unreported'
      BY <1>5, <2>1, <3>1, <3>2 DEF CallInv, LogHolds
    <3> QED BY <1>4, <3>1, <3>3, <3>4, Unwritten
  <2>4. PICK new : new = Verdicts(first, "unread")
    OBVIOUS
  <2>5. /\ UNCHANGED log /\ SameOps /\ call'.i \in {call.i, call.i + 1}
        /\ Early' \subseteq Early \cup {call.i} /\ Unreported' \subseteq Unreported \cup {call.i}
        /\ call'.results = call.results \cup new /\ \A x \in new : Report(x)
    BY <1>2, <1>4, <1>5, <1>9, <2>1, <2>2, <2>3, <2>4
  <2>6. LogHolds' /\ OneWrite' /\ ResultsHold' /\ VerdictsAreTrue'
    BY <2>5, LogKept
  <2> QED BY <1>6, <1>7, <2>6 DEF Records
<1> QED BY <1>2, <1>3, <1>8, <1>9

LEMMA MergeMemberRecords ==
    ASSUME CallInv, MergeMember
    PROVE  Records'
<1>1. PICK m, rest, merged : m = Head(call.rest) /\ rest = call.rest /\ merged = call.merged
  OBVIOUS
<1>2. /\ call.pc = "merge" /\ rest # <<>> /\ call'.rest = Tail(rest)
      /\ UNCHANGED <<call.pc, call.i, call.claimed, call.groups, call.members, call.batch>>
      /\ SameOps /\ SameElse /\ UNCHANGED ghosts
      /\ \/ m.txn \notin TxnsOf(merged) /\ call'.merged = Append(merged, m) /\ UNCHANGED call.results
         \/ /\ call'.results = call.results \cup {Verdict(m.n, "conflict")}
            /\ UNCHANGED call.merged
         \/ \E k \in DOMAIN merged : \E e :
               /\ e.n = merged[k].n /\ e.txn = merged[k].txn
               /\ call'.merged = [merged EXCEPT ![k] = e]
               /\ UNCHANGED call.results
  <2>1. CallShape /\ IsSeq(call.merged) /\ \A e \in Entries(call.merged) : Sound(e)
    BY DEF CallInv, Structure, QueuesHold
  <2>2. /\ call.pc = "merge" /\ rest # <<>> /\ call'.rest = Tail(rest)
        /\ UNCHANGED <<call.pc, call.i, call.claimed, call.groups, call.members, call.batch>>
        /\ SameOps /\ SameElse /\ UNCHANGED ghosts
    BY <1>1, <2>1, MergeMemberEffect
  <2>3. \/ m.txn \notin TxnsOf(merged) /\ call'.merged = Append(merged, m) /\ UNCHANGED call.results
        \/ /\ call'.results = call.results \cup {Verdict(m.n, "conflict")}
           /\ UNCHANGED call.merged
        \/ \E k \in DOMAIN merged :
              /\ call'.merged = [merged EXCEPT ![k] =
                    [n |-> merged[k].n, txn |-> merged[k].txn,
                     patch |-> MergedPatch(merged[k].patch, m.patch)]]
              /\ UNCHANGED call.results
    BY <1>1, <2>1, MergeMemberEffect
  <2>4. ASSUME NEW k \in DOMAIN merged,
               call'.merged = [merged EXCEPT ![k] =
                    [n |-> merged[k].n, txn |-> merged[k].txn,
                     patch |-> MergedPatch(merged[k].patch, m.patch)]]
        PROVE  \E e : /\ e.n = merged[k].n /\ e.txn = merged[k].txn
                      /\ call'.merged = [merged EXCEPT ![k] = e]
    <3>1. PICK e : e = [n |-> merged[k].n, txn |-> merged[k].txn,
                        patch |-> MergedPatch(merged[k].patch, m.patch)]
      OBVIOUS
    <3>2. e.n = merged[k].n /\ e.txn = merged[k].txn /\ call'.merged = [merged EXCEPT ![k] = e]
      BY <2>4, <3>1
    <3> QED BY <3>2
  <2> QED BY <2>2, <2>3, <2>4
<1>3. /\ m.n \in NsOf(rest) /\ m.n \notin NsOf(Tail(rest)) /\ NsOf(Tail(rest)) \subseteq NsOf(rest)
  <2>1. IsSeq(rest) /\ OnePerOp(rest)
    BY <1>1 DEF CallInv, Structure, QueuesHold
  <2> QED BY <1>1, <1>2, <2>1, TailFacts
<1>4. /\ call.members = <<>> /\ call.batch = <<>> /\ call'.members = <<>> /\ call'.batch = <<>>
      /\ call'.groups = call.groups /\ call'.i = call.i /\ call'.start = call.start
      /\ log' = log /\ touched' = touched /\ payee' = payee
      /\ call'.claimed = call.claimed
  BY <1>1, <1>2 DEF CallInv, Structure, Phases, SameElse, SameOps, server, ghosts
<1>5. /\ NsOf(rest) \cap NsOf(merged) = {} /\ IsSeq(merged)
      /\ Waiting(call.groups) \cap (NsOf(rest) \cup NsOf(merged)) = {}
  BY <1>1 DEF CallInv, Structure, QueuesHold, QueuesApart
<1>6. GuardsHold' /\ RenameChecked'
  <2>1. call'.pc # "rename"
    BY <1>2
  <2> QED BY <1>4, <2>1, GuardsKept
<1>7. ClaimsHold'
  BY <1>4, EmptyFacts DEF CallInv, ClaimsHold, LoggedTxns
<1>8. CASE call'.results = call.results /\ NsOf(call'.merged) \subseteq NsOf(merged) \cup {m.n}
  <2>1. Early' \subseteq Early /\ Unreported' \subseteq Unreported
    BY <1>1, <1>2, <1>3, <1>4, <1>8, EmptyFacts DEF Early, Unreported
  <2>2. LogHolds' /\ OneWrite' /\ ResultsHold' /\ VerdictsAreTrue'
    BY <1>2, <1>4, <1>8, <2>1, NothingReported
  <2> QED BY <1>6, <1>7, <2>2 DEF Records
<1>9. CASE call'.results = call.results \cup {Verdict(m.n, "conflict")} /\ call'.merged = merged
  <2>1. Early' \subseteq Early /\ Unreported' \subseteq Unreported
    BY <1>1, <1>2, <1>3, <1>4, <1>9, EmptyFacts DEF Early, Unreported
  <2>2. PICK n, v : n = m.n /\ v = "conflict"
    OBVIOUS
  <2>3. n \in Early /\ n \in Unreported
    BY <1>1, <1>3, <2>2 DEF Early, Unreported
  <2>4. n \notin Unreported'
    BY <1>2, <1>3, <1>4, <1>5, <1>9, <2>2, EmptyFacts DEF Early, Unreported
  <2>5. n \in 1 .. call'.i - 1 /\ n \notin Logged
    BY <1>4, <2>3, PassedNumbers DEF CallInv, Structure, LogHolds
  <2>6. Report(Verdict(n, v))
    BY <2>2, <2>4, <2>5, Unwritten
  <2>7. LogHolds' /\ OneWrite' /\ ResultsHold' /\ VerdictsAreTrue'
    BY <1>2, <1>4, <1>9, <2>1, <2>2, <2>6, OneReported
  <2> QED BY <1>6, <1>7, <2>7 DEF Records
<1>10. ASSUME NEW k \in DOMAIN merged, NEW e, e.n = merged[k].n, e.txn = merged[k].txn,
              call'.merged = [merged EXCEPT ![k] = e]
       PROVE  NsOf(call'.merged) = NsOf(merged)
  <2>1. LET r == [merged EXCEPT ![k] = e]
        IN /\ IsSeq(r) /\ NsOf(r) = NsOf(merged) /\ TxnsOf(r) = TxnsOf(merged)
           /\ \A x \in Entries(r) : x \in Entries(merged) \/ x = e
           /\ \A x \in Entries(merged) : x \in Entries(r) \/ x = merged[k]
           /\ e \in Entries(r)
           /\ OnePerOp(merged) => OnePerOp(r)
           /\ OnePerTxn(merged) => OnePerTxn(r)
    BY <1>5, <1>10, ReplaceFacts
  <2> QED BY <1>10, <2>1
<1>11. NsOf(Append(merged, m)) = NsOf(merged) \cup {m.n}
  BY <1>5, AppendFacts
<1> QED BY <1>1, <1>2, <1>8, <1>9, <1>10, <1>11

LEMMA ClaimMemberRecords ==
    ASSUME CallInv, ClaimMember
    PROVE  Records'
<1>1. PICK m, merged, members : m = Head(call.merged) /\ merged = call.merged /\ members = call.members
  OBVIOUS
<1>2. /\ call.pc = "merge" /\ call.rest = <<>> /\ merged # <<>> /\ call'.merged = Tail(merged)
      /\ UNCHANGED <<call.pc, call.i, call.groups, call.rest, call.batch>>
      /\ SameOps /\ SameElse /\ UNCHANGED ghosts
      /\ \/ /\ call'.results = call.results \cup {Verdict(m.n, "twice")}
            /\ UNCHANGED <<call.claimed, call.members>>
         \/ /\ m.txn \notin call.claimed
            /\ call'.claimed = call.claimed \cup {m.txn}
            /\ call'.members = Append(members, m)
            /\ UNCHANGED call.results
  BY <1>1, ClaimMemberEffect DEF CallInv, Structure
<1>3. /\ m.n \in NsOf(merged) /\ m.n \notin NsOf(Tail(merged)) /\ NsOf(Tail(merged)) \subseteq NsOf(merged)
  <2>1. IsSeq(merged) /\ OnePerOp(merged)
    BY <1>1 DEF CallInv, Structure, QueuesHold
  <2> QED BY <1>1, <1>2, <2>1, TailFacts
<1>4. /\ call.batch = <<>> /\ call'.batch = <<>> /\ call'.rest = <<>>
      /\ call'.groups = call.groups /\ call'.i = call.i /\ call'.start = call.start
      /\ log' = log /\ touched' = touched /\ payee' = payee
  BY <1>2 DEF CallInv, Structure, Phases, SameElse, SameOps, server, ghosts
<1>5. /\ NsOf(merged) \cap NsOf(members) = {} /\ IsSeq(members)
      /\ Waiting(call.groups) \cap NsOf(merged) = {}
  BY <1>1 DEF CallInv, Structure, QueuesHold, QueuesApart
<1>6. GuardsHold' /\ RenameChecked'
  <2>1. call'.pc # "rename"
    BY <1>2
  <2> QED BY <1>4, <2>1, GuardsKept
<1>7. LoggedTxns' = LoggedTxns
  BY <1>4 DEF LoggedTxns
<1>8. CASE /\ call'.results = call.results \cup {Verdict(m.n, "twice")}
           /\ call'.claimed = call.claimed /\ call'.members = members
  <2>1. ClaimsHold'
    BY <1>1, <1>4, <1>7, <1>8, EmptyFacts DEF CallInv, ClaimsHold
  <2>2. Early' \subseteq Early /\ Unreported' \subseteq Unreported
    BY <1>1, <1>2, <1>3, <1>4, <1>8 DEF Early, Unreported
  <2>3. PICK n, v : n = m.n /\ v = "twice"
    OBVIOUS
  <2>4. n \in Early /\ n \in Unreported
    BY <1>1, <1>3, <2>3 DEF Early, Unreported
  <2>5. n \notin Unreported'
    BY <1>2, <1>3, <1>4, <1>5, <1>8, <2>3, EmptyFacts DEF Early, Unreported
  <2>6. n \in 1 .. call'.i - 1 /\ n \notin Logged
    BY <1>4, <2>4, PassedNumbers DEF CallInv, Structure, LogHolds
  <2>7. Report(Verdict(n, v))
    BY <2>3, <2>5, <2>6, Unwritten
  <2>8. LogHolds' /\ OneWrite' /\ ResultsHold' /\ VerdictsAreTrue'
    BY <1>2, <1>4, <1>8, <2>2, <2>3, <2>7, OneReported
  <2> QED BY <1>6, <2>1, <2>8 DEF Records
<1>9. CASE /\ m.txn \notin call.claimed
           /\ call'.claimed = call.claimed \cup {m.txn}
           /\ call'.members = Append(members, m)
           /\ call'.results = call.results
  <2>1. NsOf(call'.members) = NsOf(members) \cup {m.n} /\ TxnsOf(call'.members) = TxnsOf(members) \cup {m.txn}
    BY <1>5, <1>9, AppendFacts
  <2>2. ClaimsHold'
    BY <1>1, <1>4, <1>7, <1>9, <2>1, EmptyFacts DEF CallInv, ClaimsHold
  <2>3. Early' \subseteq Early /\ Unreported' \subseteq Unreported
    BY <1>1, <1>2, <1>3, <1>4, <2>1 DEF Early, Unreported
  <2>4. LogHolds' /\ OneWrite' /\ ResultsHold' /\ VerdictsAreTrue'
    BY <1>2, <1>4, <1>9, <2>3, NothingReported
  <2> QED BY <1>6, <2>2, <2>4 DEF Records
<1> QED BY <1>1, <1>2, <1>8, <1>9

LEMMA PlanMemberRecords ==
    ASSUME CallInv, PlanMember
    PROVE  Records'
<1>0. PICK m, r, patch : Planning(m, r, patch)
  BY PlanMemberSummary
<1>1. PICK members, batch : members = call.members /\ batch = call.batch
  OBVIOUS
<1>2. /\ m \in Entries(members) /\ Sound(m) /\ call.pc = "plan" /\ call'.pc = "plan"
      /\ call'.members = Tail(members) /\ call'.i = call.i /\ call'.claimed = call.claimed
      /\ call'.groups = call.groups /\ call'.rest = <<>> /\ call'.merged = <<>>
      /\ SameOps /\ UNCHANGED <<server, ghosts>> /\ IsSeq(batch)
      /\ NsOf(members) = NsOf(Tail(members)) \cup {m.n}
      /\ TxnsOf(members) = TxnsOf(Tail(members)) \cup {m.txn}
      /\ m.n \notin NsOf(Tail(members)) /\ m.txn \notin TxnsOf(Tail(members))
      /\ m.n \notin NsOf(batch)
  BY <1>0, <1>1 DEF Planning
<1>3. \/ /\ \E v \in {"unread", "refused", "nothing"} : call'.results = call.results \cup {Verdict(m.n, v)}
         /\ call'.batch = batch
      \/ /\ \E entry : call'.batch = Append(batch, [n |-> m.n, txn |-> m.txn, entry |-> entry])
         /\ call'.results = call.results
  BY <1>0, <1>1 DEF Planning
<1>4. /\ call'.start = call.start /\ log' = log /\ touched' = touched /\ payee' = payee
      /\ call.rest = <<>> /\ call.merged = <<>>
  BY <1>2 DEF SameOps, server, ghosts, CallInv, Structure, Phases
<1>5. GuardsHold' /\ RenameChecked'
  <2>1. call'.pc # "rename"
    BY <1>2
  <2> QED BY <1>4, <2>1, GuardsKept
<1>6. LoggedTxns' = LoggedTxns /\ Early' = Early
  BY <1>2, <1>4 DEF LoggedTxns, Early
<1>7. Waiting(call.groups) \cap NsOf(members) = {}
  BY <1>1 DEF CallInv, Structure, QueuesApart
<1>8. CASE /\ \E v \in {"unread", "refused", "nothing"} : call'.results = call.results \cup {Verdict(m.n, v)}
           /\ call'.batch = batch
  <2>1. ClaimsHold'
    BY <1>1, <1>2, <1>6, <1>8 DEF CallInv, ClaimsHold
  <2>2. Unreported' \subseteq Unreported
    BY <1>1, <1>2, <1>6, <1>8 DEF Unreported
  <2>3. PICK n, v : /\ v \in {"unread", "refused", "nothing"} /\ n = m.n
                    /\ call'.results = call.results \cup {Verdict(n, v)}
    <3>1. PICK v \in {"unread", "refused", "nothing"} : call'.results = call.results \cup {Verdict(m.n, v)}
      BY <1>8
    <3> QED BY <3>1
  <2>4. n \in Unreported
    BY <1>1, <1>2, <2>3 DEF Unreported
  <2>5. n \notin Unreported'
    BY <1>2, <1>7, <1>8, <2>3, EmptyFacts DEF Early, Unreported
  <2>6. n \notin Logged
    <3>1. \A w \in log : w.n = m.n => w.txn = m.txn
      BY <1>2 DEF CallInv, LogHolds, Sound, Stands
    <3>2. m.txn \notin LoggedTxns
      BY <1>1, <1>2 DEF CallInv, ClaimsHold
    <3> QED BY <2>3, <3>1, <3>2 DEF Logged, LoggedTxns
  <2>7. n \in 1 .. call'.i - 1
    BY <1>2, <2>4, PassedNumbers DEF CallInv, Structure
  <2>8. Report(Verdict(n, v))
    BY <2>3, <2>5, <2>6, <2>7, Unwritten
  <2>9. LogHolds' /\ OneWrite' /\ ResultsHold' /\ VerdictsAreTrue'
    BY <1>2, <1>4, <1>6, <2>2, <2>3, <2>8, OneReported
  <2> QED BY <1>5, <2>1, <2>9 DEF Records
<1>9. CASE /\ \E entry : call'.batch = Append(batch, [n |-> m.n, txn |-> m.txn, entry |-> entry])
           /\ call'.results = call.results
  <2>1. PICK entry : call'.batch = Append(batch, [n |-> m.n, txn |-> m.txn, entry |-> entry])
    BY <1>9
  <2>2. PICK b : b = [n |-> m.n, txn |-> m.txn, entry |-> entry]
    OBVIOUS
  <2>3. b.n = m.n /\ b.txn = m.txn /\ call'.batch = Append(batch, b)
    BY <2>1, <2>2
  <2>4. NsOf(call'.batch) = NsOf(batch) \cup {m.n} /\ TxnsOf(call'.batch) = TxnsOf(batch) \cup {m.txn}
    <3>1. IsSeq(batch)
      BY <1>2
    <3>2. /\ NsOf(Append(batch, b)) = NsOf(batch) \cup {b.n}
          /\ TxnsOf(Append(batch, b)) = TxnsOf(batch) \cup {b.txn}
      BY <3>1, AppendFacts
    <3> QED BY <2>3, <3>2
  <2>5. ClaimsHold'
    BY <1>1, <1>2, <1>6, <2>4 DEF CallInv, ClaimsHold
  <2>6. Unreported' \subseteq Unreported
    BY <1>1, <1>2, <1>6, <2>4 DEF Unreported
  <2>7. LogHolds' /\ OneWrite' /\ ResultsHold' /\ VerdictsAreTrue'
    BY <1>2, <1>4, <1>6, <1>9, <2>6, NothingReported
  <2> QED BY <1>5, <2>5, <2>7 DEF Records
<1> QED BY <1>3, <1>8, <1>9

LEMMA SettleRecords ==
    ASSUME CallInv, Settle
    PROVE  Records'
<1>1. /\ call.pc = "settle"
      /\ UNCHANGED <<call.i, call.claimed, call.groups, call.rest, call.merged, call.members>>
      /\ SameOps /\ Returned
      /\ call'.results = call.results \cup {Verdict(b.n, VerdictOf(b)) : b \in Entries(call.batch)}
      /\ UNCHANGED <<server, log, touched>>
  BY SettleEffect DEF CallInv, Structure
<1>2. call.rest = <<>> /\ call.merged = <<>> /\ call.members = <<>>
  BY <1>1 DEF CallInv, Structure, Phases
<1>3. /\ call'.rest = <<>> /\ call'.merged = <<>> /\ call'.members = <<>> /\ call'.batch = <<>>
      /\ call'.groups = call.groups /\ call'.i = call.i /\ call'.claimed = call.claimed
      /\ call'.start = call.start /\ log' = log /\ touched' = touched /\ payee' = payee
      /\ call'.pc \in {"done", "group"}
  BY <1>1, <1>2 DEF Returned, SameOps, server
<1>4. GuardsHold' /\ RenameChecked'
  BY <1>3, GuardsKept
<1>5. ClaimsHold'
  BY <1>3, EmptyFacts DEF CallInv, ClaimsHold, LoggedTxns
<1>6. /\ Early' = Early /\ Unreported' = Waiting(call.groups) /\ Unreported' \subseteq Unreported
      /\ Unreported' \cap NsOf(call.batch) = {} /\ NsOf(call.batch) \subseteq Unreported
  <2>1. Waiting(call.groups) \cap NsOf(call.batch) = {}
    BY DEF CallInv, Structure, QueuesApart
  <2> QED BY <1>2, <1>3, <2>1, EmptyFacts DEF Early, Unreported
<1>7. ASSUME NEW b \in Entries(call.batch) PROVE Report(Verdict(b.n, VerdictOf(b)))
  <2>1. PICK n, v, x : n = b.n /\ v = VerdictOf(b) /\ x = Verdict(n, v)
    OBVIOUS
  <2>2. x.n = n /\ x.verdict = v /\ x = Verdict(x.n, x.verdict)
    BY <2>1 DEF Verdict
  <2>3. n \in NsOf(call.batch)
    BY <2>1 DEF NsOf
  <2>4. n \in 1 .. call'.i - 1 /\ n \notin Unreported'
    BY <1>3, <1>6, <2>3, PassedNumbers DEF CallInv, Structure
  <2>5. v \in {"unknown", "applied", "unconfirmed", "unreflected"}
    BY <2>1 DEF VerdictOf
  <2>6. (v = "applied" => n \in InFull) /\ (v = "unreflected" => n \notin InFull)
    <3>1. call.saved # None /\ b.txn \in DOMAIN call.saved.rows
            => (Shows(call.saved.rows[b.txn], b.entry) <=> b.n \in InFull)
      BY <1>1 DEF CallInv, AnswerHolds
    <3> QED BY <2>1, <3>1 DEF VerdictOf, verify
  <2>7. Truthful(x)
    <3>1. v \notin {"nothing"} \cup Unsent
      BY <2>5 DEF Unsent
    <3> QED BY <2>2, <2>6, <3>1 DEF Truthful
  <2>8. v \in {"applied", "nothing"} \cup Failures
    BY <2>5 DEF Failures
  <2>9. Report(x)
    BY <2>2, <2>4, <2>7, <2>8 DEF Report
  <2> QED BY <2>1, <2>9
<1>8. PICK new : new = {Verdict(b.n, VerdictOf(b)) : b \in Entries(call.batch)}
  OBVIOUS
<1>9. /\ UNCHANGED log /\ SameOps /\ call'.i \in {call.i, call.i + 1}
      /\ Early' \subseteq Early \cup {call.i} /\ Unreported' \subseteq Unreported \cup {call.i}
      /\ call'.results = call.results \cup new /\ \A x \in new : Report(x)
  BY <1>1, <1>3, <1>6, <1>7, <1>8
<1>10. LogHolds' /\ OneWrite' /\ ResultsHold' /\ VerdictsAreTrue'
  BY <1>9, LogKept
<1> QED BY <1>4, <1>5, <1>10 DEF Records

-----------------------------------------------------------------------------
(* YnabWrites: nothing that was asked is lost.                              *)

\* The step leaves an operation accounted for, or its transaction spoilt.
Kept(t, f, n) ==
    touched = {} /\ ~Spoilt(t)' /\ n < call'.i /\ (n < call.i => Accounted(t, f, n))
        => Accounted(t, f, n)'

LEMMA NothingLostStep ==
    ASSUME CallInv, call.pc # "idle", SameOps, UNCHANGED touched, call'.i \in {call.i, call.i + 1},
           call.results \subseteq call'.results,
           \A t \in Txns : \A f \in Fields : row'[t][f] # row[t][f] => Setting(t, f) # {},
           ~Renames => \A t \in Txns : \A f \in Fields : \A n \in Setting(t, f) : Kept(t, f, n)
    PROVE  NothingLost'
<1>1. SUFFICES ASSUME ~Renames', touched' = {}, NEW t \in Txns, NEW f \in Fields
               PROVE  /\ row'[t][f] # call'.start.row[t][f] => Setting(t, f)' # {}
                      /\ ~Spoilt(t)' => \A n \in Setting(t, f)' : n < call'.i => Accounted(t, f, n)'
  BY DEF NothingLost
<1>2. CallShape /\ call.i \in Nat /\ call'.i \in Nat /\ call.i <= call'.i
  BY OpsFacts DEF CallInv, Structure
<1>3. Setting(t, f)' = Setting(t, f)
  BY <1>2, SoundKept
<1>4. ~Renames /\ touched = {} /\ call'.start = call.start
  BY <1>1 DEF Renames, SameOps
<1>5. /\ row[t][f] # call.start.row[t][f] => Setting(t, f) # {}
      /\ ~Spoilt(t) => \A n \in Setting(t, f) : n < call.i => Accounted(t, f, n)
  BY <1>4 DEF CallInv, NothingLost
<1>6. Spoilt(t) => Spoilt(t)'
  BY DEF Spoilt, SameOps
<1>7. row'[t][f] # call'.start.row[t][f] => Setting(t, f)' # {}
  BY <1>3, <1>4, <1>5
<1>8. ASSUME ~Spoilt(t)', NEW n \in Setting(t, f), n < call'.i
      PROVE  Accounted(t, f, n)'
  BY <1>4, <1>5, <1>6, <1>8 DEF Kept
<1> QED BY <1>3, <1>7, <1>8

\* A step that leaves the server and the queues alone.
LEMMA SameAccounts ==
    ASSUME CallInv, call.pc \notin {"idle", "settle"}, call'.pc # "settle", SameOps, SameQueues,
           UNCHANGED <<call.i, call.groups, call.claimed, call.results>>,
           UNCHANGED <<server, touched>>
    PROVE  NothingLost'
<1>1. row' = row /\ payee' = payee /\ call'.ops = call.ops
  BY DEF server, SameOps
<1>2. ASSUME NEW t \in Txns, NEW f \in Fields, NEW n \in Setting(t, f)
      PROVE  Kept(t, f, n)
  <2>1. Accounted(t, f, n) => Accounted(t, f, n)'
    BY <1>1 DEF Accounted, InRow, Plans, Carries, SameQueues
  <2> QED BY <2>1 DEF Kept
<1> QED BY <1>1, <1>2, NothingLostStep

\* A report of a failure spoils the operation's transaction.
LEMMA Spoils ==
    ASSUME NEW n, NEW v, NEW t, Verdict(n, v) \in call'.results, SameOps, call.ops[n].txn = t,
           v \notin {"applied", "nothing"}
    PROVE  Spoilt(t)'
<1>1. PICK x : x = Verdict(n, v)
  OBVIOUS
<1>2. x.n = n /\ x.verdict = v
  BY <1>1, VerdictFacts
<1>3. x \in call'.results /\ call'.ops[x.n].txn = t
  BY <1>1, <1>2 DEF SameOps
<1> QED BY <1>2, <1>3 DEF Spoilt

LEMMA BeginLost ==
    ASSUME CallInv, NEW ops \in Requests, Begin(ops)
    PROVE  NothingLost'
<1>1. call'.i = 1 /\ call'.start = [row |-> row, payee |-> payee] /\ row' = row
  BY BeginEffect DEF server
<1>2. call'.ops = ops /\ ops \in Seq(Range(ops))
  BY BeginEffect, YnabAssumption
<1>3. DOMAIN call'.ops = 1 .. Len(call'.ops) /\ Len(call'.ops) \in Nat
  BY <1>2
<1>4. ASSUME NEW t \in Txns, NEW f \in Fields
      PROVE  \A n \in Setting(t, f)' : ~(n < call'.i)
  BY <1>1, <1>3 DEF Setting
<1> QED BY <1>1, <1>4 DEF NothingLost

LEMMA WaitLost ==
    ASSUME CallInv, Classified \/ Claimed \/ FreshListing \/ Straggler \/ Planned
    PROVE  NothingLost'
<1>1. CallShape
  BY DEF CallInv, Structure
<1>2. /\ call.pc \notin {"idle", "settle"} /\ call'.pc # "settle" /\ SameOps /\ SameQueues
      /\ UNCHANGED <<call.i, call.groups, call.claimed, call.results>>
      /\ UNCHANGED <<server, touched>>
  <2>1. CASE Classified
    BY <1>1, <2>1, ClassifiedEffect DEF SameElse, ghosts
  <2>2. CASE Claimed
    <3>1. call.batch = <<>>
      BY <1>1, <2>2, ClaimedEffect DEF CallInv, Structure, Phases
    <3> QED BY <1>1, <2>2, <3>1, ClaimedEffect DEF SameElse, ghosts, SameQueues, Returned
  <2>3. CASE FreshListing
    BY <1>1, <2>3, FreshListingEffect DEF SameElse, SameCall, ghosts
  <2>4. CASE Straggler
    BY <1>1, <2>4, StragglerEffect DEF SameElse, SameCall, ghosts
  <2>5. CASE Planned
    BY <1>1, <2>5, PlannedEffect DEF SameElse, ghosts, SameQueues, Returned
  <2> QED BY <2>1, <2>2, <2>3, <2>4, <2>5
<1> QED BY <1>2, SameAccounts

\* A call that renames is out of the property's scope.
LEMMA RenameLost ==
    ASSUME CallInv, RenameRead \/ RenameSend \/ RenameSettle
    PROVE  NothingLost'
<1>1. CallShape
  BY DEF CallInv, Structure
<1>2. call.i <= Len(call.ops) /\ ~IsPatch(call.ops[call.i]) /\ call'.ops = call.ops
  <2>1. CASE RenameRead
    BY <1>1, <2>1, RenameReadEffect DEF SameOps
  <2>2. CASE RenameSend
    BY <1>1, <2>2, RenameSendEffect DEF SameOps, CallShape
  <2>3. CASE RenameSettle
    BY <1>1, <2>3, RenameSettleEffect DEF SameOps, CallShape
  <2> QED BY <2>1, <2>2, <2>3
<1>3. call.i \in DOMAIN call.ops
  BY <1>1, <1>2, OpsFacts DEF CallShape
<1> QED BY <1>2, <1>3 DEF NothingLost, Renames

LEMMA ClassifyLost ==
    ASSUME CallInv, Classify
    PROVE  NothingLost'
<1>1. PICK i, o, m : /\ i = call.i /\ o = call.ops[call.i]
                     /\ m = [n |-> call.i, txn |-> call.ops[call.i].txn, patch |-> call.ops[call.i].patch]
  OBVIOUS
<1>2. CallShape /\ i \in Nat
  BY <1>1, OpsFacts DEF CallInv, Structure
<1>3. /\ call.pc = "classify" /\ call'.pc = "classify" /\ call'.i = i + 1 /\ call'.claimed = call.claimed
      /\ SameOps /\ SameQueues /\ UNCHANGED <<server, touched>>
      /\ \/ /\ call'.results = call.results \cup {Verdict(i, "refused")} /\ call'.groups = call.groups
         \/ /\ DOMAIN o.patch = {}
            /\ call'.results = call.results \cup {Verdict(i, "nothing")} /\ call'.groups = call.groups
         \/ /\ call'.groups = Grouped(call.groups, o.at, m) /\ call'.results = call.results
  BY <1>1, <1>2, ClassifyEffect DEF SameElse, ghosts
<1>4. row' = row /\ payee' = payee /\ call'.ops = call.ops /\ touched' = touched
  BY <1>3 DEF server, SameOps
<1>5. Waiting(call.groups) \subseteq Waiting(call'.groups)
  <2>1. m.n \notin Waiting(call.groups)
    BY <1>1, NextNumber DEF Unreported, Early
  <2>2. Partition(call.groups)
    BY DEF CallInv, Structure, WaitingHolds
  <2>3. CASE call'.groups = Grouped(call.groups, o.at, m)
    <3>1. InGroups(call'.groups) = InGroups(call.groups) \cup {m}
      BY <2>1, <2>2, <2>3, GroupedFacts
    <3> QED BY <3>1 DEF Waiting
  <2> QED BY <1>3, <2>3
<1>6. ASSUME NEW t \in Txns, NEW f \in Fields, NEW n \in Setting(t, f)
      PROVE  Kept(t, f, n)
  <2>1. Accounted(t, f, n) => Accounted(t, f, n)'
    BY <1>3, <1>4, <1>5 DEF Accounted, InRow, Plans, Carries, SameQueues
  <2>2. n \in Nat /\ call.ops[n].txn = t /\ f \in DOMAIN call.ops[n].patch
    BY <1>2, OpsFacts DEF Setting
  <2>3. n < i + 1 => n < i \/ n = i
    BY <1>2, <2>2
  <2>4. CASE n = i /\ call'.results = call.results \cup {Verdict(i, "refused")}
    <3>1. PICK v : v = "refused"
      OBVIOUS
    <3>2. Spoilt(t)'
      BY <1>3, <2>2, <2>4, <3>1, Spoils
    <3> QED BY <3>2 DEF Kept
  <2>5. CASE n = i /\ call'.groups = Grouped(call.groups, o.at, m)
    <3>1. m.n \notin Waiting(call.groups) /\ m.n = i
      BY <1>1, NextNumber DEF Unreported, Early
    <3>2. Partition(call.groups)
      BY DEF CallInv, Structure, WaitingHolds
    <3>3. InGroups(call'.groups) = InGroups(call.groups) \cup {m}
      BY <2>5, <3>1, <3>2, GroupedFacts
    <3>4. n \in Waiting(call'.groups)
      BY <2>5, <3>1, <3>3 DEF Waiting
    <3> QED BY <3>4 DEF Kept, Accounted
  <2>6. n = i => DOMAIN o.patch # {}
    BY <1>1, <2>2
  <2> QED BY <1>1, <1>3, <2>1, <2>3, <2>4, <2>5, <2>6 DEF Kept
<1> QED BY <1>1, <1>3, <1>4, <1>6, NothingLostStep

LEMMA OpenGroupLost ==
    ASSUME CallInv, OpenGroup
    PROVE  NothingLost'
<1>1. PICK gs, first : gs = call.groups /\ first = Head(gs).members
  OBVIOUS
<1>2. /\ call.pc = "group" /\ call'.groups = Tail(gs)
      /\ UNCHANGED <<call.i, call.claimed, call.merged, call.members>> /\ SameOps
      /\ UNCHANGED <<server, touched>>
      /\ \/ /\ call'.results = call.results \cup Verdicts(first, "unread")
            /\ UNCHANGED call.rest /\ Returned
         \/ /\ call'.pc = "merge" /\ call'.rest = first
            /\ UNCHANGED <<call.results, call.batch>>
  BY <1>1, OpenGroupEffect DEF CallInv, Structure, SameElse, ghosts
<1>3. /\ call.rest = <<>> /\ call.merged = <<>> /\ call.members = <<>> /\ call.batch = <<>>
      /\ gs # <<>>
  BY <1>1, <1>2 DEF CallInv, Structure, Phases
<1>4. /\ call'.merged = <<>> /\ call'.members = <<>> /\ call'.batch = <<>> /\ call'.pc # "settle"
      /\ call'.claimed = call.claimed /\ call'.ops = call.ops /\ row' = row /\ payee' = payee
  BY <1>2, <1>3 DEF Returned, SameOps, server
<1>5. Waiting(gs) = Waiting(call'.groups) \cup NsOf(first)
  <2>1. Partition(gs)
    BY <1>1 DEF CallInv, Structure, WaitingHolds
  <2> QED BY <1>1, <1>2, <1>3, <2>1, FirstGroup
<1>6. NsOf(call.rest) = {}
  BY <1>3, EmptyFacts
<1>7. ASSUME NEW t \in Txns, NEW f \in Fields, NEW n \in Setting(t, f)
      PROVE  Kept(t, f, n)
  <2>1. CASE n \in Waiting(call'.groups) \cup NsOf(call'.rest)
    BY <2>1 DEF Kept, Accounted
  <2>2. CASE n \notin Waiting(gs)
    <3>1. Accounted(t, f, n) => Accounted(t, f, n)'
      BY <1>1, <1>2, <1>3, <1>4, <1>6, <2>2 DEF Accounted, InRow, Plans, Carries
    <3> QED BY <1>2, <3>1 DEF Kept
  <2>3. CASE n \in NsOf(first) /\ call'.results = call.results \cup Verdicts(first, "unread")
    <3>1. PICK m, v : m \in Entries(first) /\ n = m.n /\ v = "unread"
      BY <2>3 DEF NsOf
    <3>2. Verdict(n, v) \in call'.results
      BY <2>3, <3>1, VerdictFacts
    <3>3. call.ops[n].txn = t
      BY DEF Setting
    <3>4. Spoilt(t)'
      BY <1>2, <3>1, <3>2, <3>3, Spoils
    <3> QED BY <3>4 DEF Kept
  <2> QED BY <1>2, <1>5, <2>1, <2>2, <2>3
<1>8. call.results \subseteq call'.results /\ touched' = touched
  BY <1>2
<1> QED BY <1>2, <1>4, <1>7, <1>8, NothingLostStep

LEMMA MergeMemberLost ==
    ASSUME CallInv, MergeMember
    PROVE  NothingLost'
<1>1. PICK m, rest, merged : m = Head(call.rest) /\ rest = call.rest /\ merged = call.merged
  OBVIOUS
<1>2. CallShape /\ IsSeq(merged) /\ IsSeq(rest) /\ \A e \in Entries(merged) : Sound(e)
  BY <1>1 DEF CallInv, Structure, QueuesHold
<1>3. /\ call.pc = "merge" /\ call'.pc = "merge" /\ rest # <<>> /\ call'.rest = Tail(rest)
      /\ UNCHANGED <<call.i, call.claimed, call.groups, call.members, call.batch>>
      /\ SameOps /\ UNCHANGED <<server, touched>>
  BY <1>1, <1>2, MergeMemberEffect DEF SameElse, ghosts
<1>4. \/ call'.merged = Append(merged, m) /\ call'.results = call.results
      \/ call'.results = call.results \cup {Verdict(m.n, "conflict")} /\ call'.merged = merged
      \/ /\ \E k \in DOMAIN merged :
               /\ merged[k].txn = m.txn
               /\ ~Conflicts(merged[k].patch, m.patch)
               /\ call'.merged = [merged EXCEPT ![k] =
                     [n |-> merged[k].n, txn |-> merged[k].txn,
                      patch |-> MergedPatch(merged[k].patch, m.patch)]]
         /\ call'.results = call.results
  BY <1>1, <1>2, MergeMemberEffect
<1>5. m \in Entries(rest) /\ NsOf(rest) = NsOf(Tail(rest)) \cup {m.n}
  BY <1>1, <1>2, <1>3, TailFacts
<1>6. m.txn = call.ops[m.n].txn /\ m.patch = call.ops[m.n].patch
  BY <1>1, <1>5 DEF CallInv, Structure, QueuesHold, AsAsked, Sound, Stands
<1>7. row' = row /\ payee' = payee /\ call'.ops = call.ops /\ touched' = touched
  BY <1>3 DEF server, SameOps
<1>8. ASSUME \A t, f, n : (\E e \in Entries(merged) : Carries(e, t, f, n))
                              => \E e \in Entries(call'.merged) : Carries(e, t, f, n)'
      PROVE  \A t \in Txns : \A f \in Fields : \A n \in Setting(t, f) :
                n = m.n \/ (Accounted(t, f, n) => Accounted(t, f, n)')
  <2>1. SUFFICES ASSUME NEW t, NEW f, NEW n, n # m.n, Accounted(t, f, n)
                 PROVE  Accounted(t, f, n)'
    OBVIOUS
  <2>2. CASE n \in Waiting(call.groups) \cup NsOf(rest)
    BY <1>3, <1>5, <2>1, <2>2 DEF Accounted
  <2>3. CASE \E e \in Entries(merged) : Carries(e, t, f, n)
    BY <1>8, <2>3 DEF Accounted
  <2>4. \A e : Carries(e, t, f, n) => Carries(e, t, f, n)'
    BY <1>7 DEF Carries
  <2>5. CASE \E e \in Entries(call.members) : Carries(e, t, f, n)
    BY <1>3, <2>4, <2>5 DEF Accounted
  <2>6. InRow(t, f, n)' = InRow(t, f, n)
    BY <1>7 DEF InRow
  <2>7. \A b : Plans(b, t, f, n) => Plans(b, t, f, n)'
    BY <1>7, <2>6 DEF Plans
  <2> QED BY <1>1, <1>3, <2>1, <2>2, <2>3, <2>5, <2>6, <2>7 DEF Accounted
<1>9. \A t, f, n : n \in Setting(t, f) => call.ops[n].txn = t /\ f \in DOMAIN call.ops[n].patch
  BY DEF Setting
<1>10. CASE call'.merged = Append(merged, m) /\ call'.results = call.results
  <2>1. Entries(call'.merged) = Entries(merged) \cup {m}
    BY <1>2, <1>10, AppendFacts
  <2>2. \A t, f, n : (\E e \in Entries(merged) : Carries(e, t, f, n))
                              => \E e \in Entries(call'.merged) : Carries(e, t, f, n)'
    BY <1>7, <2>1 DEF Carries
  <2>3. ASSUME NEW t \in Txns, NEW f \in Fields, NEW n \in Setting(t, f), n = m.n
        PROVE  Accounted(t, f, n)'
    <3>1. Carries(m, t, f, n)' /\ m \in Entries(call'.merged)
      BY <1>6, <1>7, <1>9, <2>1, <2>3 DEF Carries
    <3> QED BY <3>1 DEF Accounted
  <2>4. \A t \in Txns : \A f \in Fields : \A n \in Setting(t, f) : Kept(t, f, n)
    BY <1>3, <1>8, <2>2, <2>3 DEF Kept
  <2> QED BY <1>3, <1>7, <1>10, <2>4, NothingLostStep
<1>11. CASE call'.results = call.results \cup {Verdict(m.n, "conflict")} /\ call'.merged = merged
  <2>1. \A t, f, n : (\E e \in Entries(merged) : Carries(e, t, f, n))
                              => \E e \in Entries(call'.merged) : Carries(e, t, f, n)'
    BY <1>7, <1>11 DEF Carries
  <2>2. PICK v : v = "conflict"
    OBVIOUS
  <2>3. ASSUME NEW t \in Txns, NEW f \in Fields, NEW n \in Setting(t, f), n = m.n
        PROVE  Spoilt(t)'
    <3>1. Verdict(n, v) \in call'.results
      BY <1>11, <2>2, <2>3
    <3> QED BY <1>3, <1>9, <2>2, <2>3, <3>1, Spoils
  <2>4. \A t \in Txns : \A f \in Fields : \A n \in Setting(t, f) : Kept(t, f, n)
    BY <1>3, <1>8, <2>1, <2>3 DEF Kept
  <2>5. call.results \subseteq call'.results
    BY <1>11
  <2> QED BY <1>3, <1>7, <2>4, <2>5, NothingLostStep
<1>12. ASSUME NEW k \in DOMAIN merged, merged[k].txn = m.txn, ~Conflicts(merged[k].patch, m.patch),
              call'.merged = [merged EXCEPT ![k] =
                     [n |-> merged[k].n, txn |-> merged[k].txn,
                      patch |-> MergedPatch(merged[k].patch, m.patch)]],
              call'.results = call.results
       PROVE  NothingLost'
  <2>1. PICK a, e : /\ a = merged[k]
                    /\ e = [n |-> a.n, txn |-> a.txn, patch |-> MergedPatch(a.patch, m.patch)]
    OBVIOUS
  <2>2. /\ e.n = a.n /\ e.txn = a.txn /\ e.patch = MergedPatch(a.patch, m.patch)
        /\ call'.merged = [merged EXCEPT ![k] = e] /\ a.txn = m.txn /\ ~Conflicts(a.patch, m.patch)
    BY <1>12, <2>1
  <2>3. LET r == [merged EXCEPT ![k] = e]
        IN /\ IsSeq(r) /\ NsOf(r) = NsOf(merged) /\ TxnsOf(r) = TxnsOf(merged)
           /\ \A x \in Entries(r) : x \in Entries(merged) \/ x = e
           /\ \A x \in Entries(merged) : x \in Entries(r) \/ x = merged[k]
           /\ e \in Entries(r)
           /\ OnePerOp(merged) => OnePerOp(r)
           /\ OnePerTxn(merged) => OnePerTxn(r)
    <3>1. e.n = merged[k].n /\ e.txn = merged[k].txn
      BY <2>1, <2>2
    <3> QED BY <1>2, <3>1, ReplaceFacts
  <2>4. /\ e \in Entries(call'.merged)
        /\ \A x \in Entries(merged) : x \in Entries(call'.merged) \/ x = a
    BY <2>1, <2>2, <2>3
  <2>5. /\ DOMAIN e.patch = DOMAIN a.patch \cup DOMAIN m.patch
        /\ \A f \in DOMAIN m.patch : e.patch[f] = m.patch[f]
        /\ \A f \in DOMAIN a.patch : e.patch[f] = a.patch[f]
    <3>1. PICK p, q : p = a.patch /\ q = m.patch
      OBVIOUS
    <3>2. /\ DOMAIN MergedPatch(p, q) = DOMAIN p \cup DOMAIN q
          /\ \A f \in DOMAIN q : MergedPatch(p, q)[f] = q[f]
          /\ \A f \in DOMAIN p \ DOMAIN q : MergedPatch(p, q)[f] = p[f]
          /\ ~Conflicts(p, q) => \A f \in DOMAIN p : MergedPatch(p, q)[f] = p[f]
      BY MergedFacts, Zenon
    <3> QED BY <2>2, <3>1, <3>2
  <2>6. \A t, f, n : Carries(a, t, f, n) => Carries(e, t, f, n)'
    BY <1>7, <2>2, <2>5 DEF Carries
  <2>7. \A x, t, f, n : Carries(x, t, f, n) => Carries(x, t, f, n)'
    BY <1>7 DEF Carries
  <2>8. \A t, f, n : (\E x \in Entries(merged) : Carries(x, t, f, n))
                              => \E x \in Entries(call'.merged) : Carries(x, t, f, n)'
    BY <2>4, <2>6, <2>7
  <2>9. ASSUME NEW t \in Txns, NEW f \in Fields, NEW n \in Setting(t, f), n = m.n
        PROVE  Accounted(t, f, n)'
    <3>1. Carries(e, t, f, n)'
      BY <1>6, <1>7, <1>9, <2>2, <2>5, <2>9 DEF Carries
    <3> QED BY <2>4, <3>1 DEF Accounted
  <2>10. \A t \in Txns : \A f \in Fields : \A n \in Setting(t, f) : Kept(t, f, n)
    BY <1>3, <1>8, <2>8, <2>9 DEF Kept
  <2> QED BY <1>3, <1>7, <1>12, <2>10, NothingLostStep
<1> QED BY <1>4, <1>10, <1>11, <1>12

LEMMA ClaimMemberLost ==
    ASSUME CallInv, ClaimMember
    PROVE  NothingLost'
<1>1. PICK m, merged, members : m = Head(call.merged) /\ merged = call.merged /\ members = call.members
  OBVIOUS
<1>2. /\ call.pc = "merge" /\ call'.pc = "merge" /\ merged # <<>> /\ call'.merged = Tail(merged)
      /\ UNCHANGED <<call.i, call.groups, call.rest, call.batch>>
      /\ SameOps /\ UNCHANGED <<server, touched>>
      /\ \/ /\ call'.results = call.results \cup {Verdict(m.n, "twice")}
            /\ UNCHANGED <<call.claimed, call.members>>
         \/ /\ m.txn \notin call.claimed
            /\ call'.claimed = call.claimed \cup {m.txn}
            /\ call'.members = Append(members, m)
            /\ UNCHANGED call.results
  BY <1>1, ClaimMemberEffect DEF CallInv, Structure, SameElse, ghosts
<1>3. IsSeq(merged) /\ IsSeq(members) /\ \A e \in Entries(merged) : Sound(e)
  BY <1>1 DEF CallInv, Structure, QueuesHold
<1>4. m \in Entries(merged) /\ Entries(merged) = Entries(Tail(merged)) \cup {m}
  BY <1>1, <1>2, <1>3, TailFacts
<1>5. m.txn = call.ops[m.n].txn
  BY <1>3, <1>4 DEF Sound, Stands
<1>6. row' = row /\ payee' = payee /\ call'.ops = call.ops /\ touched' = touched
  BY <1>2 DEF server, SameOps
<1>7. CASE /\ call'.results = call.results \cup {Verdict(m.n, "twice")}
           /\ call'.claimed = call.claimed /\ call'.members = members
  <2>1. PICK n, v : n = m.n /\ v = "twice"
    OBVIOUS
  <2>2. Spoilt(m.txn)'
    <3>1. Verdict(n, v) \in call'.results /\ call.ops[n].txn = m.txn
      BY <1>5, <1>7, <2>1
    <3> QED BY <1>2, <2>1, <3>1, Spoils
  <2>3. ASSUME NEW t \in Txns, NEW f \in Fields, NEW k \in Setting(t, f)
        PROVE  Kept(t, f, k)
    <3>1. CASE t = m.txn
      BY <2>2, <3>1 DEF Kept
    <3>2. CASE t # m.txn
      <4>1. Accounted(t, f, k) => Accounted(t, f, k)'
        BY <1>1, <1>2, <1>4, <1>6, <1>7, <3>2 DEF Accounted, InRow, Plans, Carries
      <4> QED BY <1>2, <4>1 DEF Kept
    <3> QED BY <3>1, <3>2
  <2>4. call.results \subseteq call'.results
    BY <1>7
  <2> QED BY <1>2, <1>6, <2>3, <2>4, NothingLostStep
<1>8. CASE /\ m.txn \notin call.claimed
           /\ call'.claimed = call.claimed \cup {m.txn}
           /\ call'.members = Append(members, m)
           /\ call'.results = call.results
  <2>1. /\ Entries(call'.members) = Entries(members) \cup {m}
        /\ TxnsOf(call'.members) = TxnsOf(members) \cup {m.txn}
    BY <1>3, <1>8, AppendFacts
  <2>2. ASSUME NEW t \in Txns, NEW f \in Fields, NEW k \in Setting(t, f)
        PROVE  Kept(t, f, k)
    <3>1. Accounted(t, f, k) => Accounted(t, f, k)'
      BY <1>1, <1>2, <1>4, <1>6, <1>8, <2>1 DEF Accounted, InRow, Plans, Carries
    <3> QED BY <1>2, <3>1 DEF Kept
  <2> QED BY <1>2, <1>6, <1>8, <2>2, NothingLostStep
<1> QED BY <1>1, <1>2, <1>7, <1>8

LEMMA SettleLost ==
    ASSUME CallInv, Settle
    PROVE  NothingLost'
<1>1. /\ call.pc = "settle"
      /\ UNCHANGED <<call.i, call.claimed, call.groups, call.rest, call.merged, call.members>>
      /\ SameOps /\ Returned
      /\ call'.results = call.results \cup {Verdict(b.n, VerdictOf(b)) : b \in Entries(call.batch)}
      /\ UNCHANGED <<server, touched>>
  BY SettleEffect DEF CallInv, Structure
<1>2. /\ row' = row /\ payee' = payee /\ call'.ops = call.ops /\ touched' = touched
      /\ call'.pc # "settle" /\ TxnsOf(call'.batch) = {} /\ call'.i = call.i
  BY <1>1, EmptyFacts DEF Returned, SameOps, server
<1>3. ASSUME NEW b \in Entries(call.batch), NEW t, Doubtful(b, t) PROVE Spoilt(t)'
  <2>1. PICK n, v : n = b.n /\ v = VerdictOf(b)
    OBVIOUS
  <2>2. v \notin {"applied", "nothing"}
    BY <1>3, <2>1 DEF VerdictOf, verify, Doubtful
  <2>3. Verdict(n, v) \in call'.results
    BY <1>1, <2>1
  <2>4. call.ops[n].txn = t
    BY <1>3, <2>1 DEF CallInv, BatchHolds, EntrySound, Stands, Doubtful
  <2> QED BY <1>1, <2>2, <2>3, <2>4, Spoils
<1>4. ASSUME NEW t \in Txns, NEW f \in Fields, NEW n \in Setting(t, f)
      PROVE  Kept(t, f, n)
  <2>1. Accounted(t, f, n) => Accounted(t, f, n)' \/ Spoilt(t)'
    BY <1>1, <1>2, <1>3 DEF Accounted, InRow, Carries
  <2> QED BY <1>2, <2>1 DEF Kept
<1>5. call.results \subseteq call'.results
  BY <1>1
<1> QED BY <1>1, <1>2, <1>4, <1>5, NothingLostStep

\* What a member asks with the payees it is planned against is what its operation asks.
LEMMA AskedNow ==
    ASSUME CallInv, touched = {}, NEW list, PlannedWith(list), NEW patch, NEW t, NEW r,
           Passes(t, r, patch, list), NEW f \in DOMAIN patch, NEW asked, asked[f] = patch[f]
    PROVE  Asked(f, patch, list) = Asked(f, asked, payee)
<1>1. CASE f # "payee"
  BY <1>1 DEF Asked
<1>2. CASE f = "payee"
  <2>1. PICK p : p = resolvePayeeRef(list, patch["payee"])
    OBVIOUS
  <2>2. p # Gone
    BY <1>2, <2>1 DEF Passes
  <2>3. p \in Payees /\ list[p] # Gone
    BY <2>1, <2>2, ResolvedPayee
  <2>4. ~\A q \in Payees : list[q] = Gone
    BY <2>3
  <2>5. list = payee
    BY <2>4 DEF CallInv, ListHolds, PlannedWith
  <2> QED BY <1>2, <2>5 DEF Asked
<1> QED BY <1>1, <1>2

LEMMA PlanMemberLost ==
    ASSUME CallInv, PlanMember
    PROVE  NothingLost'
<1>0. PICK m, r, patch : Planning(m, r, patch)
  BY PlanMemberSummary
<1>1. PICK members, batch : members = call.members /\ batch = call.batch
  OBVIOUS
<1>2. /\ m \in Entries(members) /\ Sound(m) /\ call.pc = "plan" /\ call'.pc = "plan"
      /\ call'.members = Tail(members) /\ call'.i = call.i /\ call'.claimed = call.claimed
      /\ call'.groups = call.groups /\ call'.rest = <<>> /\ call'.merged = <<>>
      /\ m.txn \in DOMAIN call.rows /\ m.txn \in Txns
      /\ SameOps /\ IsSeq(batch)
      /\ Entries(members) = Entries(Tail(members)) \cup {m}
      /\ TxnsOf(members) = TxnsOf(Tail(members)) \cup {m.txn}
      /\ m.txn \notin TxnsOf(Tail(members)) /\ m.txn \notin TxnsOf(batch)
      /\ patch = m.patch /\ r = call.rows[m.txn]
  BY <1>0, <1>1 DEF Planning
<1>3. /\ row' = row /\ payee' = payee /\ call'.ops = call.ops /\ touched' = touched
      /\ call.rest = <<>> /\ call.merged = <<>>
  BY <1>0, <1>2 DEF Planning, SameOps, server, ghosts, CallInv, Structure, Phases
<1>4. \/ /\ \E v \in {"unread", "refused"} : call'.results = call.results \cup {Verdict(m.n, v)}
         /\ call'.batch = batch
      \/ \E list, entry :
            /\ r # None /\ PlannedWith(list) /\ Passes(m.txn, r, patch, list)
            /\ entry = PlannedEntry(r, patch, list)
            /\ \/ /\ DOMAIN entry = {}
                  /\ call'.results = call.results \cup {Verdict(m.n, "nothing")}
                  /\ call'.batch = batch
               \/ /\ DOMAIN entry # {} /\ call'.results = call.results
                  /\ call'.batch = Append(batch, [n |-> m.n, txn |-> m.txn, entry |-> entry])
  BY <1>0, <1>1 DEF Planning
<1>5. call.results \subseteq call'.results
  BY <1>4
<1>6. m.txn = call.ops[m.n].txn
  BY <1>2 DEF Sound, Stands
<1>7. m.txn \in call.claimed
  BY <1>1, <1>2 DEF CallInv, ClaimsHold
<1>8. Entries(batch) \subseteq Entries(call'.batch) /\ TxnsOf(call'.batch) \subseteq TxnsOf(batch) \cup {m.txn}
  <2>1. CASE call'.batch = batch
    BY <2>1
  <2>2. ASSUME NEW entry, call'.batch = Append(batch, [n |-> m.n, txn |-> m.txn, entry |-> entry])
        PROVE  /\ Entries(batch) \subseteq Entries(call'.batch)
               /\ TxnsOf(call'.batch) \subseteq TxnsOf(batch) \cup {m.txn}
    <3>1. PICK b : b = [n |-> m.n, txn |-> m.txn, entry |-> entry]
      OBVIOUS
    <3>2. b.txn = m.txn /\ call'.batch = Append(batch, b)
      BY <2>2, <3>1
    <3>3. /\ Entries(Append(batch, b)) = Entries(batch) \cup {b}
          /\ TxnsOf(Append(batch, b)) = TxnsOf(batch) \cup {b.txn}
      BY <1>2, AppendFacts
    <3> QED BY <3>2, <3>3
  <2> QED BY <1>4, <2>1, <2>2
<1>9. ASSUME NEW t, NEW f, NEW n, Accounted(t, f, n), ~Carries(m, t, f, n)
      PROVE  Accounted(t, f, n)'
  <2>1. InRow(t, f, n)' = InRow(t, f, n)
    BY <1>3 DEF InRow
  <2>2. \A b : Plans(b, t, f, n) => Plans(b, t, f, n)'
    BY <1>3, <2>1 DEF Plans
  <2>3. \A e : Carries(e, t, f, n) => Carries(e, t, f, n)'
    BY <1>3 DEF Carries
  <2>4. CASE n \in Waiting(call.groups) \cup NsOf(call.rest)
    BY <1>2, <1>3, <2>4 DEF Accounted
  <2>5. CASE \E e \in Entries(call.merged) \cup Entries(members) : Carries(e, t, f, n)
    <3>1. \E e \in Entries(Tail(members)) : Carries(e, t, f, n)
      BY <1>2, <1>3, <1>9, <2>5, EmptyFacts
    <3> QED BY <1>2, <2>3, <3>1 DEF Accounted
  <2>6. CASE \E b \in Entries(batch) : Plans(b, t, f, n)
    BY <1>2, <1>8, <2>2, <2>6 DEF Accounted
  <2>7. CASE InRow(t, f, n) /\ t \in call.claimed /\ t \notin TxnsOf(members) /\ t \notin TxnsOf(batch)
    <3>1. t \notin TxnsOf(call'.members) /\ t \notin TxnsOf(call'.batch)
      BY <1>2, <1>8, <2>7
    <3> QED BY <1>2, <2>1, <2>7, <3>1 DEF Accounted
  <2> QED BY <1>1, <1>2, <1>9, <2>4, <2>5, <2>6, <2>7 DEF Accounted
<1>10. CASE \E v \in {"unread", "refused"} : call'.results = call.results \cup {Verdict(m.n, v)}
  <2>1. PICK v \in {"unread", "refused"} : call'.results = call.results \cup {Verdict(m.n, v)}
    BY <1>10
  <2>2. Verdict(m.n, v) \in call'.results /\ v \notin {"applied", "nothing"}
    BY <2>1
  <2>3. Spoilt(m.txn)'
    BY <1>2, <1>6, <2>2, Spoils
  <2>4. \A t \in Txns : \A f \in Fields : \A n \in Setting(t, f) : Kept(t, f, n)
    BY <1>2, <1>9, <2>3 DEF Kept, Carries
  <2> QED BY <1>2, <1>3, <1>5, <2>4, NothingLostStep
<1>11. ASSUME NEW list, NEW entry, r # None, PlannedWith(list), Passes(m.txn, r, patch, list),
              entry = PlannedEntry(r, patch, list),
              \/ /\ DOMAIN entry = {} /\ call'.batch = batch
              \/ call'.batch = Append(batch, [n |-> m.n, txn |-> m.txn, entry |-> entry])
       PROVE  NothingLost'
  <2>1. ASSUME NEW t \in Txns, NEW f \in Fields, NEW n \in Setting(t, f), touched = {},
               Carries(m, t, f, n)
        PROVE  Accounted(t, f, n)'
    <3>1. PICK want : want = Asked(f, call.ops[n].patch, payee)
      OBVIOUS
    <3>2. t = m.txn /\ f \in DOMAIN patch /\ patch[f] = call.ops[n].patch[f]
      BY <1>2, <2>1 DEF Carries
    <3>3. Asked(f, patch, list) = want
      BY <1>11, <2>1, <3>1, <3>2, AskedNow
    <3>4. row[t] = r
      BY <1>2, <1>11, <2>1, <3>2 DEF CallInv, ReadsHold, AsRead
    <3>5. /\ f \in DOMAIN entry => entry[f] = want
          /\ f \notin DOMAIN entry => r[f] = want
      BY <1>11, <3>2, <3>3, EntryFacts
    <3>6. (row'[t][f] = want) => InRow(t, f, n)'
      BY <1>3, <3>1 DEF InRow
    <3>7. CASE DOMAIN entry = {} /\ call'.batch = batch
      <4>1. InRow(t, f, n)'
        BY <1>3, <3>4, <3>5, <3>6, <3>7
      <4> QED BY <1>2, <1>7, <3>2, <3>7, <4>1 DEF Accounted
    <3>8. CASE call'.batch = Append(batch, [n |-> m.n, txn |-> m.txn, entry |-> entry])
      <4>1. PICK b : b = [n |-> m.n, txn |-> m.txn, entry |-> entry]
        OBVIOUS
      <4>2. b.txn = m.txn /\ b.entry = entry /\ call'.batch = Append(batch, b)
        BY <3>8, <4>1
      <4>3. b \in Entries(call'.batch)
        BY <1>2, <4>2, AppendFacts
      <4>4. Plans(b, t, f, n)'
        BY <1>3, <3>1, <3>2, <3>4, <3>5, <3>6, <4>2 DEF Plans
      <4> QED BY <1>2, <4>3, <4>4 DEF Accounted
    <3> QED BY <1>11, <3>7, <3>8
  <2>2. \A t \in Txns : \A f \in Fields : \A n \in Setting(t, f) : Kept(t, f, n)
    BY <1>2, <1>9, <2>1 DEF Kept
  <2> QED BY <1>2, <1>3, <1>5, <2>2, NothingLostStep
<1> QED BY <1>4, <1>10, <1>11

LEMMA SendLost ==
    ASSUME CallInv, Send
    PROVE  NothingLost'
<1>1. PICK sent : IsPart(sent) /\ Writes(sent)
  BY SendSummary
<1>2. /\ call.pc = "send" /\ call'.pc = "settle" /\ SameOps /\ call'.i = call.i
      /\ call'.batch = call.batch /\ call'.groups = call.groups /\ call'.results = call.results
      /\ call'.claimed = call.claimed /\ call'.rest = call.rest /\ call'.merged = <<>>
      /\ call'.members = <<>> /\ call.merged = <<>> /\ call.members = <<>>
      /\ payee' = payee /\ touched' = touched /\ call'.ops = call.ops
      /\ call'.saved = None \/ AnsweredWith(row')
  BY SendSummary DEF SameOps
<1>3. /\ \A t \in Txns : (\A b \in sent : b.txn # t) => row'[t] = row[t]
      /\ \A b \in sent : \A f \in Fields :
            row'[b.txn][f] = IF f \in DOMAIN b.entry THEN b.entry[f] ELSE row[b.txn][f]
  BY <1>1, WritesFacts
<1>4. \A b \in Entries(call.batch) : /\ EntrySound(b) /\ b.txn \in call.claimed
                                     /\ b.txn \in TxnsOf(call.batch) /\ b.txn \in Txns
                                     /\ \A f \in DOMAIN b.entry : row[b.txn][f] # b.entry[f]
  BY <1>2, BatchUnwritten DEF CallInv, ClaimsHold, TxnsOf
<1>5. ASSUME NEW m \in sent
      PROVE  \E b \in Entries(call.batch) : m.txn = b.txn /\ DOMAIN m.entry \subseteq DOMAIN b.entry
  BY <1>1 DEF IsPart
<1>6. ASSUME NEW t \in Txns, NEW f \in Fields, row'[t][f] # row[t][f] PROVE Setting(t, f) # {}
  <2>1. PICK b \in sent : b.txn = t
    BY <1>3, <1>6
  <2>2. f \in DOMAIN b.entry
    BY <1>3, <1>6, <2>1
  <2>3. PICK c \in Entries(call.batch) : b.txn = c.txn /\ DOMAIN b.entry \subseteq DOMAIN c.entry
    BY <1>5
  <2> QED BY <1>4, <2>1, <2>2, <2>3 DEF EntrySound
<1>7. ASSUME NEW t \in Txns, NEW f \in Fields, NEW n \in Setting(t, f), Accounted(t, f, n)
      PROVE  Accounted(t, f, n)'
  <2>1. PICK want : want = Asked(f, call.ops[n].patch, payee)
    OBVIOUS
  <2>2. (row'[t][f] = want) => InRow(t, f, n)'
    BY <1>2, <2>1 DEF InRow
  <2>3. CASE n \in Waiting(call.groups) \cup NsOf(call.rest)
    BY <1>2, <2>3 DEF Accounted
  <2>4. ~\E e \in Entries(call.merged) \cup Entries(call.members) : Carries(e, t, f, n)
    BY <1>2, EmptyFacts
  <2>5. TxnsOf(call'.members) = {}
    BY <1>2, EmptyFacts
  \* A transaction whose row shows the whole entry afterwards has what was asked of it.
  <2>6. ASSUME NEW b \in Entries(call.batch), Plans(b, t, f, n), Shows(row'[t], b.entry)
        PROVE  Accounted(t, f, n)'
    <3>1. b.txn = t /\ IF f \in DOMAIN b.entry THEN b.entry[f] = want ELSE row[t][f] = want
      BY <2>1, <2>6 DEF Plans, InRow
    <3>2. row'[t][f] = want
      <4>1. CASE f \in DOMAIN b.entry
        BY <2>6, <3>1, <4>1 DEF Shows
      <4>2. CASE f \notin DOMAIN b.entry
        <5>3. \A q \in sent : \A c \in Entries(call.batch) : (q.txn = c.txn \/ q.n = c.n) =>
                 /\ q.n = c.n /\ q.txn = c.txn /\ q.sent = DOMAIN c.entry
                 /\ DOMAIN q.entry \subseteq DOMAIN c.entry
                 /\ \A g \in DOMAIN q.entry : q.entry[g] = c.entry[g]
          BY <1>1, PartFacts
        <5>1. ASSUME NEW m \in sent, m.txn = t PROVE f \notin DOMAIN m.entry
          BY <5>3, <3>1, <4>2, <5>1
        <5>2. row'[t][f] = row[t][f]
          BY <1>3, <5>1
        <5> QED BY <3>1, <4>2, <5>2
      <4> QED BY <4>1, <4>2
    <3> QED BY <1>2, <1>4, <2>2, <2>5, <3>1, <3>2 DEF Accounted
  <2>7. ASSUME NEW b \in Entries(call.batch), Plans(b, t, f, n), ~Shows(row'[t], b.entry)
        PROVE  Accounted(t, f, n)'
    <3>1. b.txn = t
      BY <2>7 DEF Plans
    <3>2. Doubtful(b, t)'
      BY <1>2, <2>7, <3>1 DEF Doubtful, AnsweredWith
    <3> QED BY <1>2, <3>2 DEF Accounted
  <2>8. CASE InRow(t, f, n) /\ t \in call.claimed /\ t \notin TxnsOf(call.batch)
    <3>1. row'[t] = row[t]
      <4>1. \A m \in sent : m.txn \in TxnsOf(call.batch)
        BY <1>4, <1>5
      <4> QED BY <1>3, <2>8, <4>1
    <3>2. row'[t][f] = want
      BY <2>1, <2>8, <3>1 DEF InRow
    <3> QED BY <1>2, <2>2, <2>5, <2>8, <3>2 DEF Accounted
  <2> QED BY <1>2, <1>7, <2>3, <2>4, <2>6, <2>7, <2>8 DEF Accounted
<1>8. \A t \in Txns : \A f \in Fields : \A n \in Setting(t, f) : Kept(t, f, n)
  BY <1>2, <1>7 DEF Kept
<1> QED BY <1>2, <1>6, <1>8, NothingLostStep

-----------------------------------------------------------------------------
(* YnabWrites: the steps of the call, put together.                         *)

\* Some of a call's operations are left to YNAB.
ServerKept == ServerShape' /\ \A t \in Txns : row[t].v <= row'[t].v

LEMMA SameServer ==
    ASSUME ServerShape, UNCHANGED server
    PROVE  ServerKept
<1>1. row' = row /\ payee' = payee
  BY DEF server
<1>2. \A t \in Txns : row[t].v \in Nat
  BY DEF ServerShape, IsRow
<1>3. \A t \in Txns : row[t].v <= row[t].v
  BY <1>2
<1> QED BY <1>1, <1>3 DEF ServerKept, ServerShape

LEMMA RenameSendServer ==
    ASSUME CallInv, RenameSend
    PROVE  ServerKept
<1>1. ServerShape /\ CallShape
  BY DEF CallInv, Structure
<1>2. PICK p, name : payee' \in {payee, [payee EXCEPT ![p] = name]} /\ row' = row
  <2>1. PICK p, name : p = call.ops[call.i].payee /\ name = call.ops[call.i].name
    OBVIOUS
  <2>2. payee' \in {payee, [payee EXCEPT ![p] = name]} /\ row' = row
    BY <1>1, <2>1, RenameSendEffect
  <2> QED BY <2>2
<1>3. payee' = [q \in Payees |-> payee'[q]]
  BY <1>1, <1>2 DEF ServerShape
<1>4. \A t \in Txns : row[t].v \in Nat
  BY <1>1 DEF ServerShape, IsRow
<1>5. \A t \in Txns : row[t].v <= row[t].v
  BY <1>4
<1> QED BY <1>1, <1>2, <1>3, <1>5 DEF ServerKept, ServerShape

LEMMA SendServer ==
    ASSUME CallInv, Send
    PROVE  ServerKept
<1>1. PICK sent : IsPart(sent) /\ Writes(sent)
  BY SendSummary
<1>2. payee' = payee
  BY SendSummary
<1>3. (ServerShape' \/ payee' # payee) /\ \A t \in Txns : row[t].v <= row'[t].v
  BY <1>1, WritesFacts
<1> QED BY <1>2, <1>3 DEF ServerKept

\* A step of the call.
CallStep ==
    \/ \E ops \in Requests : Begin(ops)
    \/ Classify \/ Classified \/ RenameRead \/ RenameSend \/ RenameSettle
    \/ OpenGroup \/ MergeMember \/ ClaimMember \/ Claimed \/ FreshListing \/ Straggler
    \/ PlanMember \/ Planned \/ Send \/ Settle

\* What a step of the call establishes.
Established ==
    /\ Structure' /\ ReadsHold' /\ ListHolds' /\ BatchHolds' /\ AnswerHolds'
    /\ Records' /\ NothingLost' /\ ServerKept /\ call'.pc \in Steps

LEMMA BeginStep ==
    ASSUME CallInv, NEW ops \in Requests, Begin(ops)
    PROVE  Established
<1>1. Structure /\ ServerShape
  BY DEF CallInv
<1>2. Structure' /\ call'.pc = "classify" /\ UNCHANGED server
  BY <1>1, BeginStructure, BeginEffect
<1>3. ReadsHold' /\ ListHolds' /\ BatchHolds' /\ AnswerHolds'
  BY <1>2, NotReading
<1>4. Records' /\ NothingLost' /\ ServerKept
  BY <1>1, <1>2, BeginRecords, BeginLost, SameServer
<1> QED BY <1>2, <1>3, <1>4 DEF Established, Steps

LEMMA ClassifyStep ==
    ASSUME CallInv, Classify \/ Classified
    PROVE  Established
<1>1. Structure /\ ServerShape /\ CallShape /\ BatchHolds
  BY DEF CallInv, Structure
<1>2. Structure' /\ UNCHANGED server /\ call'.pc \in {"classify", "done", "group"}
  <2>1. CASE Classify
    BY <1>1, <2>1, ClassifyStructure, ClassifyEffect DEF SameElse
  <2>2. CASE Classified
    BY <1>1, <2>2, ClassifiedStructure, ClassifiedEffect DEF SameElse
  <2> QED BY <2>1, <2>2
<1>3. ReadsHold' /\ ListHolds' /\ BatchHolds' /\ AnswerHolds'
  BY <1>2, NotReading
<1>4. Records' /\ NothingLost'
  <2>1. CASE Classify
    BY <1>2, <2>1, ClassifyRecords, ClassifyLost
  <2>2. CASE Classified
    BY <2>2, WaitRecords, WaitLost
  <2> QED BY <2>1, <2>2
<1>5. ServerKept
  BY <1>1, <1>2, SameServer
<1> QED BY <1>2, <1>3, <1>4, <1>5 DEF Established, Steps

LEMMA RenameStep ==
    ASSUME CallInv, RenameRead \/ RenameSend \/ RenameSettle
    PROVE  Established
<1>1. Structure /\ ServerShape /\ CallShape
  BY DEF CallInv, Structure
<1>2. /\ Structure' /\ call'.pc \in {"classify", "rename", "renamed"}
      /\ Records' /\ ServerKept
  <2>1. CASE RenameRead
    <3>1. Structure' /\ Records'
      BY <1>1, <2>1, RenameReadStructure, RenameReadRecords
    <3>2. call'.pc \in {"classify", "rename"} /\ UNCHANGED server
      BY <1>1, <2>1, RenameReadEffect DEF SameElse
    <3> QED BY <1>1, <3>1, <3>2, SameServer
  <2>2. CASE RenameSend
    BY <1>1, <2>2, RenameSendStructure, RenameSendRecords, RenameSendServer, RenameSendEffect
  <2>3. CASE RenameSettle
    <3>1. Structure' /\ Records'
      BY <1>1, <2>3, RenameSettleStructure, RenameSettleRecords
    <3>2. call'.pc = "classify" /\ UNCHANGED server
      BY <1>1, <2>3, RenameSettleEffect
    <3> QED BY <1>1, <3>1, <3>2, SameServer
  <2> QED BY <2>1, <2>2, <2>3
<1>3. ReadsHold' /\ ListHolds' /\ BatchHolds' /\ AnswerHolds'
  BY <1>2, NotReading
<1>4. NothingLost'
  BY RenameLost
<1> QED BY <1>2, <1>3, <1>4 DEF Established, Steps

LEMMA GroupStep ==
    ASSUME CallInv, OpenGroup \/ MergeMember \/ ClaimMember \/ Claimed
    PROVE  Established
<1>1. Structure /\ ServerShape /\ CallShape /\ ClaimsHold
  BY DEF CallInv, Structure
<1>2. /\ Structure' /\ call'.pc \in {"merge", "listing", "done", "group"} /\ UNCHANGED server
      /\ Records' /\ NothingLost'
  <2>1. CASE OpenGroup
    <3>1. call'.pc \in {"merge", "done", "group"} /\ UNCHANGED server
      BY <1>1, <2>1, OpenGroupEffect DEF SameElse, Returned
    <3> QED BY <1>1, <2>1, <3>1, OpenGroupStructure, OpenGroupRecords, OpenGroupLost
  <2>2. CASE MergeMember
    <3>1. IsSeq(call.merged) /\ \A m \in Entries(call.merged) : Sound(m)
      BY <1>1 DEF Structure, QueuesHold
    <3>2. call.pc = "merge" /\ call'.pc = call.pc /\ UNCHANGED server
      BY <1>1, <2>2, <3>1, MergeMemberEffect DEF SameElse
    <3> QED BY <1>1, <2>2, <3>2, MergeMemberStructure, MergeMemberRecords, MergeMemberLost
  <2>3. CASE ClaimMember
    <3>1. call.pc = "merge" /\ call'.pc = call.pc /\ UNCHANGED server
      BY <1>1, <2>3, ClaimMemberEffect DEF SameElse
    <3> QED BY <1>1, <2>3, <3>1, ClaimMemberStructure, ClaimMemberRecords, ClaimMemberLost
  <2>4. CASE Claimed
    <3>1. call'.pc \in {"listing", "done", "group"} /\ UNCHANGED server
      BY <1>1, <2>4, ClaimedEffect DEF SameElse, Returned
    <3> QED BY <1>1, <2>4, <3>1, ClaimedStructure, WaitRecords, WaitLost
  <2> QED BY <2>1, <2>2, <2>3, <2>4
<1>3. ReadsHold' /\ ListHolds' /\ BatchHolds' /\ AnswerHolds'
  BY <1>2, NotReading
<1>4. ServerKept
  BY <1>1, <1>2, SameServer
<1> QED BY <1>2, <1>3, <1>4 DEF Established, Steps

LEMMA ReadStep ==
    ASSUME CallInv, FreshListing \/ Straggler \/ PlanMember \/ Planned
    PROVE  Established
<1>1. Structure /\ ServerShape /\ CallShape
  BY DEF CallInv, Structure
<1>2. /\ Structure' /\ call'.pc \in {"rows", "plan", "send", "done", "group"} /\ UNCHANGED server
      /\ Records' /\ NothingLost'
      /\ ReadsHold' /\ ListHolds' /\ BatchHolds' /\ AnswerHolds'
  <2>1. CASE FreshListing
    <3>1. call'.pc = "rows" /\ UNCHANGED server
      BY <1>1, <2>1, FreshListingEffect DEF SameElse
    <3> QED BY <1>1, <2>1, <3>1, FreshListingStructure, FreshListingReads, WaitRecords, WaitLost
  <2>2. CASE Straggler
    <3>1. call'.pc \in {"rows", "plan"} /\ UNCHANGED server
      BY <1>1, <2>2, StragglerEffect DEF SameElse
    <3> QED BY <1>1, <2>2, <3>1, StragglerStructure, StragglerReads, WaitRecords, WaitLost
  <2>3. CASE PlanMember
    <3>1. PICK m, r, patch : Planning(m, r, patch)
      BY <2>3, PlanMemberSummary
    <3>2. call'.pc = "plan" /\ UNCHANGED server
      BY <3>1 DEF Planning
    <3> QED BY <1>1, <2>3, <3>2, PlanMemberStructure, PlanMemberReads, PlanMemberRecords, PlanMemberLost
  <2>4. CASE Planned
    <3>1. call'.pc \in {"send", "done", "group"} /\ UNCHANGED server
      BY <1>1, <2>4, PlannedEffect DEF SameElse, Returned
    <3>2. Structure'
      BY <1>1, <2>4, PlannedStructure
    <3> QED BY <2>4, <3>1, <3>2, PlannedReads, WaitRecords, WaitLost
  <2> QED BY <2>1, <2>2, <2>3, <2>4
<1>3. ServerKept
  BY <1>1, <1>2, SameServer
<1> QED BY <1>2, <1>3 DEF Established, Steps

LEMMA WriteStep ==
    ASSUME CallInv, Send \/ Settle
    PROVE  Established
<1>1. Structure /\ ServerShape /\ CallShape
  BY DEF CallInv, Structure
<1>2. CASE Send
  <2>1. Structure' /\ call'.pc = "settle" /\ ServerKept /\ NothingLost'
    BY <1>1, <1>2, SendStructure, SendSummary, SendServer, SendLost
  <2>2. ReadsHold' /\ ListHolds' /\ BatchHolds' /\ AnswerHolds' /\ Records'
    BY <1>2, SendReads, SendLog DEF Records
  <2> QED BY <2>1, <2>2 DEF Established, Steps
<1>3. CASE Settle
  <2>1. call'.pc \in {"done", "group"} /\ UNCHANGED server
    BY <1>1, <1>3, SettleEffect DEF Returned
  <2>2. Structure' /\ Records' /\ NothingLost' /\ ServerKept
    BY <1>1, <1>3, <2>1, SettleStructure, SettleRecords, SettleLost, SameServer
  <2>3. ReadsHold' /\ ListHolds' /\ BatchHolds' /\ AnswerHolds'
    BY <2>1, <2>2, NotReading
  <2> QED BY <2>1, <2>2, <2>3 DEF Established, Steps
<1> QED BY <1>2, <1>3

LEMMA CallStepHolds ==
    ASSUME CallInv, CallStep
    PROVE  CallInv' /\ ServerKept /\ call'.pc \in Steps
<1>1. Established
  BY BeginStep, ClassifyStep, RenameStep, GroupStep, ReadStep, WriteStep DEF CallStep
<1> QED BY <1>1 DEF Established, Records, CallInv, ServerKept

-----------------------------------------------------------------------------
(* YnabWrites: the cache.                                                   *)

LEMMA CacheQuiet ==
    ASSUME CacheHolds, ServerShape, ServerKept, UNCHANGED <<settled, index, reader>>
    PROVE  CacheHolds'
<1>1. ASSUME NEW t \in Txns PROVE settled[t] \in Nat /\ settled[t] <= row'[t].v
  <2>1. row[t].v \in Nat /\ row'[t].v \in Nat /\ row[t].v <= row'[t].v
    BY DEF ServerShape, ServerKept, IsRow
  <2>2. settled[t] \in Nat /\ settled[t] <= row[t].v
    BY DEF CacheHolds
  <2> QED BY <2>1, <2>2
<1>2. ReaderHolds'
  BY DEF CacheHolds, ReaderHolds
<1>3. PreWriteOnlyRaced'
  BY DEF CacheHolds, PreWriteOnlyRaced
<1> QED BY <1>1, <1>2, <1>3 DEF CacheHolds

LEMMA CacheDropped ==
    ASSUME CacheHolds, UNCHANGED <<row, settled, reader>>, index' = Invalidated
    PROVE  CacheHolds'
<1>1. \A t \in Txns : index'[t] = None
  BY DEF Invalidated
<1>2. index' = [t \in Txns |-> index'[t]]
  BY DEF Invalidated
<1>3. ReaderHolds'
  BY DEF CacheHolds, ReaderHolds
<1>4. PreWriteOnlyRaced'
  BY <1>1 DEF PreWriteOnlyRaced
<1> QED BY <1>1, <1>2, <1>3, <1>4 DEF CacheHolds

\* A read that begins now has seen every write that is over.
LEMMA ReadFetchCache ==
    ASSUME CacheHolds, ServerShape, NEW which \in SUBSET Txns, ReadFetch(which)
    PROVE  CacheHolds'
<1>1. PICK rows : rows = [t \in which |-> row[t]]
  OBVIOUS
<1>2. /\ reader' = [kind |-> "txns", rows |-> rows, began |-> settled]
      /\ row' = row /\ settled' = settled /\ index' = index
  BY <1>1 DEF ReadFetch, server, caches, ghosts
<1>3. reader'.rows = rows /\ reader'.began = settled
  BY <1>2
<1>4. DOMAIN rows \subseteq Txns /\ \A t \in DOMAIN rows : rows[t] = row[t]
  BY <1>1
<1>5. \A t \in Txns : settled[t] \in Nat /\ settled[t] <= row[t].v /\ row[t].v \in Nat
  BY DEF CacheHolds, ServerShape, IsRow
<1>6. \A t \in Txns : settled[t] <= settled[t] /\ row[t].v >= settled[t]
  BY <1>5
<1>7. ReaderHolds'
  BY <1>2, <1>3, <1>4, <1>5, <1>6 DEF ReaderHolds
<1>8. PreWriteOnlyRaced'
  BY <1>2 DEF CacheHolds, PreWriteOnlyRaced
<1> QED BY <1>2, <1>7, <1>8 DEF CacheHolds

\* A read that no write overtook stores rows that are no older than the writes.
LEMMA ReadStoreCache ==
    ASSUME CacheHolds, ReadStore
    PROVE  CacheHolds'
<1>1. PICK rows, began : rows = reader.rows /\ began = reader.began
  OBVIOUS
<1>2. /\ index' = Put(rows, began) /\ reader' = None /\ reader # None /\ reader.kind = "txns"
      /\ row' = row /\ settled' = settled
  BY <1>1 DEF ReadStore, server, ghosts
<1>3. \A t \in DOMAIN rows : rows[t].v \in Nat /\ rows[t].v >= began[t]
  BY <1>1, <1>2 DEF CacheHolds, ReaderHolds
<1>4. index' = [t \in Txns |-> index'[t]]
  BY <1>2 DEF Put
<1>5. ASSUME NEW t \in Txns, index'[t] # None
      PROVE  /\ DOMAIN index'[t] = {"row", "raced"} /\ index'[t].row.v \in Nat
             /\ ~index'[t].raced => index'[t].row.v >= settled[t]
  <2>1. CASE t \in DOMAIN rows
    <3>1. index'[t] = [row |-> rows[t], raced |-> settled # began]
      BY <1>2, <2>1 DEF Put
    <3>2. /\ DOMAIN index'[t] = {"row", "raced"} /\ index'[t].row = rows[t]
          /\ index'[t].raced = (settled # began)
      BY <3>1
    <3>3. ~index'[t].raced => settled = began
      BY <3>2, Zenon
    <3> QED BY <1>3, <2>1, <3>2, <3>3
  <2>2. CASE t \notin DOMAIN rows
    <3>1. index'[t] = index[t]
      BY <1>2, <2>2 DEF Put
    <3> QED BY <1>5, <3>1 DEF CacheHolds, PreWriteOnlyRaced
  <2> QED BY <2>1, <2>2
<1>6. ReaderHolds'
  BY <1>2 DEF ReaderHolds
<1>7. PreWriteOnlyRaced'
  BY <1>2, <1>5 DEF PreWriteOnlyRaced
<1> QED BY <1>2, <1>4, <1>5, <1>6, <1>7 DEF CacheHolds

LEMMA ListsCache ==
    ASSUME CacheHolds, ListsFetch \/ ListsStore
    PROVE  CacheHolds'
<1>1. /\ row' = row /\ settled' = settled /\ index' = index
      /\ reader' # None => reader'.kind # "txns"
  BY DEF ListsFetch, ListsStore, server, caches, ghosts
<1>2. ReaderHolds'
  BY <1>1 DEF ReaderHolds
<1>3. PreWriteOnlyRaced'
  BY <1>1 DEF CacheHolds, PreWriteOnlyRaced
<1> QED BY <1>1, <1>2, <1>3 DEF CacheHolds

LEMMA SettleCache ==
    ASSUME CallInv, CacheHolds, Settle
    PROVE  CacheHolds'
<1>1. /\ index' = Invalidated /\ row' = row /\ reader' = reader
      /\ settled' = [t \in Txns |-> IF t \in TxnsOf(call.batch) THEN row[t].v ELSE settled[t]]
  BY SettleEffect DEF CallInv, Structure, server
<1>2. \A t \in Txns : index'[t] = None
  BY <1>1 DEF Invalidated
<1>3. index' = [t \in Txns |-> index'[t]]
  BY <1>1 DEF Invalidated
<1>4. ASSUME NEW t \in Txns
      PROVE  settled'[t] \in Nat /\ settled'[t] <= row[t].v /\ settled[t] <= settled'[t]
  <2>1. settled[t] \in Nat /\ settled[t] <= row[t].v /\ row[t].v \in Nat
    BY DEF CacheHolds, CallInv, ServerShape, IsRow
  <2>2. settled'[t] \in {row[t].v, settled[t]}
    BY <1>1
  <2> QED BY <2>1, <2>2
<1>5. ReaderHolds'
  <2>1. SUFFICES ASSUME reader # None, reader.kind = "txns"
                 PROVE  /\ DOMAIN reader.rows \subseteq Txns
                        /\ \A t \in Txns : reader.began[t] \in Nat /\ reader.began[t] <= settled'[t]
                        /\ \A t \in DOMAIN reader.rows : /\ reader.rows[t].v \in Nat
                                                         /\ reader.rows[t].v >= reader.began[t]
    BY <1>1 DEF ReaderHolds
  <2>2. /\ DOMAIN reader.rows \subseteq Txns
        /\ \A t \in Txns : reader.began[t] \in Nat /\ reader.began[t] <= settled[t]
        /\ \A t \in DOMAIN reader.rows : /\ reader.rows[t].v \in Nat
                                         /\ reader.rows[t].v >= reader.began[t]
    BY <2>1 DEF CacheHolds, ReaderHolds
  <2>3. ASSUME NEW t \in Txns PROVE reader.began[t] <= settled'[t]
    <3>1. settled[t] \in Nat /\ settled'[t] \in Nat /\ settled[t] <= settled'[t]
      BY <1>4 DEF CacheHolds
    <3>2. reader.began[t] \in Nat /\ reader.began[t] <= settled[t]
      BY <2>2
    <3> QED BY <3>1, <3>2
  <2> QED BY <2>2, <2>3
<1>6. PreWriteOnlyRaced'
  BY <1>2 DEF PreWriteOnlyRaced
<1>7. settled' = [t \in Txns |-> settled'[t]]
  BY <1>1
<1> QED BY <1>1, <1>2, <1>3, <1>4, <1>5, <1>6, <1>7 DEF CacheHolds

LEMMA CallStepCache ==
    ASSUME CallInv, CacheHolds, CallStep
    PROVE  CacheHolds'
<1>1. ServerShape /\ CallShape /\ ServerKept
  BY CallStepHolds DEF CallInv, Structure
<1>2. CASE UNCHANGED <<settled, index, reader>>
  BY <1>1, <1>2, CacheQuiet
<1>3. CASE RenameSettle
  <2>1. index' = Invalidated /\ UNCHANGED <<row, settled, reader>>
    BY <1>1, <1>3, RenameSettleEffect DEF server, ghosts
  <2> QED BY <2>1, CacheDropped
<1>4. CASE Settle
  BY <1>4, SettleCache
<1>5. ASSUME NEW ops \in Requests, Begin(ops) PROVE UNCHANGED <<settled, index, reader>>
  BY <1>5, BeginEffect DEF caches
<1>6. CASE Classify
  BY <1>1, <1>2, <1>6, ClassifyEffect DEF SameElse, caches, ghosts
<1>7. CASE Classified
  BY <1>1, <1>2, <1>7, ClassifiedEffect DEF SameElse, caches, ghosts
<1>8. CASE RenameRead
  BY <1>1, <1>2, <1>8, RenameReadEffect DEF SameElse, caches, ghosts
<1>9. CASE RenameSend
  BY <1>1, <1>2, <1>9, RenameSendEffect DEF caches, ghosts
<1>10. CASE OpenGroup
  BY <1>1, <1>2, <1>10, OpenGroupEffect DEF SameElse, caches, ghosts
<1>11. CASE MergeMember
  BY <1>2, <1>11 DEF MergeMember, caches, ghosts
<1>12. CASE ClaimMember
  BY <1>1, <1>2, <1>12, ClaimMemberEffect DEF SameElse, caches, ghosts
<1>13. CASE Claimed
  BY <1>1, <1>2, <1>13, ClaimedEffect DEF SameElse, caches, ghosts
<1>14. CASE FreshListing
  BY <1>1, <1>2, <1>14, FreshListingEffect DEF SameElse, caches, ghosts
<1>15. CASE Straggler
  BY <1>1, <1>2, <1>15, StragglerEffect DEF SameElse, caches, ghosts
<1>16. CASE PlanMember
  <2>1. PICK m, r, patch : Planning(m, r, patch)
    BY <1>16, PlanMemberSummary
  <2>2. UNCHANGED <<settled, index, reader>>
    BY <2>1 DEF Planning, ghosts
  <2> QED BY <1>2, <2>2
<1>17. CASE Planned
  BY <1>1, <1>2, <1>17, PlannedEffect DEF SameElse, caches, ghosts
<1>18. CASE Send
  BY <1>2, <1>18, SendSummary
<1> QED BY <1>2, <1>3, <1>4, <1>5, <1>6, <1>7, <1>8, <1>9, <1>10, <1>11, <1>12, <1>13, <1>14,
           <1>15, <1>16, <1>17, <1>18 DEF CallStep

-----------------------------------------------------------------------------
(* YnabWrites: the invariant holds.                                         *)

LEMMA InitialCall ==
    ASSUME YnabInit
    PROVE  /\ DOMAIN call = CallFields /\ call.pc = "idle" /\ call.ops = <<>> /\ call.i = 1
           /\ call.groups = <<>> /\ call.claimed = {} /\ call.rest = <<>> /\ call.merged = <<>>
           /\ call.members = <<>> /\ call.batch = <<>> /\ call.list = None /\ call.saved = None
           /\ call.results = {} /\ call.start = None /\ DOMAIN call.rows = {}
<1>1. PICK rows : rows = [t \in {} |-> None]
  OBVIOUS
<1>2. DOMAIN rows = {}
  BY <1>1
<1>3. call = [pc |-> "idle", ops |-> <<>>, i |-> 1, groups |-> <<>>, claimed |-> {}, rest |-> <<>>,
              merged |-> <<>>, members |-> <<>>, rows |-> rows, batch |-> <<>>, list |-> None,
              saved |-> None, results |-> {}, start |-> None]
  BY <1>1 DEF YnabInit, NoCall
<1> QED BY <1>2, <1>3 DEF CallFields

LEMMA InitialStructure ==
    ASSUME YnabInit
    PROVE  Structure
<1>1. Len(call.ops) = 0 /\ DOMAIN call.ops = {}
  BY InitialCall
<1>2. CallShape
  BY <1>1, InitialCall DEF CallShape, Gathering
<1>3. WaitingHolds /\ QueuesHold /\ QueuesApart
  BY InitialCall, EmptyFacts, NoGroups DEF WaitingHolds, QueuesHold, QueuesApart
<1>4. Phases
  BY InitialCall DEF Phases, Gathering, YnabInit
<1>5. LastsHold
  BY <1>1 DEF LastsHold, Setting
<1> QED BY <1>2, <1>3, <1>4, <1>5 DEF Structure

LEMMA InitialCallInv ==
    ASSUME YnabInit
    PROVE  CallInv
<1>1. Structure
  BY InitialStructure
<1>2. ServerShape
  BY YnabAssumption DEF YnabInit, ServerShape
<1>3. ReadsHold /\ ListHolds /\ BatchHolds /\ AnswerHolds /\ NothingLost /\ RenameChecked
  BY InitialCall, EmptyFacts DEF ReadsHold, ListHolds, BatchHolds, AnswerHolds, NothingLost, RenameChecked
<1>4. ClaimsHold /\ LogHolds /\ OneWrite /\ ResultsHold /\ VerdictsAreTrue
  BY InitialCall, EmptyFacts
     DEF YnabInit, ClaimsHold, LogHolds, OneWrite, ResultsHold, VerdictsAreTrue, LoggedTxns, Logged
<1>5. GuardsHold
  BY InitialCall DEF YnabInit, GuardsHold, NoNewCollision
<1> QED BY <1>1, <1>2, <1>3, <1>4, <1>5 DEF CallInv

LEMMA InitialCache ==
    ASSUME YnabInit
    PROVE  CacheHolds
<1>1. index = [t \in Txns |-> None] /\ settled = [t \in Txns |-> 0] /\ reader = None /\ row = StartRow
  BY DEF YnabInit, Invalidated
<1>2. ReaderHolds
  BY <1>1 DEF ReaderHolds
<1>3. PreWriteOnlyRaced
  BY <1>1 DEF PreWriteOnlyRaced
<1>4. \A t \in Txns : settled[t] \in Nat /\ settled[t] <= row[t].v
  BY <1>1, YnabAssumption DEF IsRow
<1> QED BY <1>1, <1>2, <1>3, <1>4 DEF CacheHolds

LEMMA OutsideHolds ==
    ASSUME CallInv, Outside, call.pc \in Steps
    PROVE  CallInv' /\ ServerKept /\ call'.pc \in Steps
<1>1. CallInv'
  BY OutsideReads, OutsideElse DEF CallInv
<1>2. ServerKept
  BY DEF Outside, ServerKept
<1> QED BY <1>1, <1>2 DEF Outside

\* The readers, the clock, YNAB's app.
LEMMA OutsideStep ==
    ASSUME YnabInv, [YnabNext]_ynabVars, ~CallStep
    PROVE  YnabInv'
<1>1. CallInv /\ CacheHolds /\ ServerShape /\ call.pc \in Steps
  BY DEF YnabInv, CallInv
<1>2. ASSUME Outside, UNCHANGED <<settled, index, reader>> PROVE YnabInv'
  BY <1>1, <1>2, OutsideHolds, CacheQuiet DEF YnabInv
<1>3. ASSUME UNCHANGED <<server, call, log, settled, touched>>, CacheHolds' PROVE YnabInv'
  BY <1>1, <1>3, QuietOutside, OutsideHolds DEF YnabInv
<1>4. ASSUME NEW which \in SUBSET Txns, ReadFetch(which) PROVE YnabInv'
  <2>1. UNCHANGED <<server, call, log, settled, touched>>
    BY <1>4 DEF ReadFetch, ghosts
  <2> QED BY <1>1, <1>3, <1>4, <2>1, ReadFetchCache
<1>5. CASE ReadStore
  <2>1. UNCHANGED <<server, call, log, settled, touched>>
    BY <1>5 DEF ReadStore, ghosts
  <2> QED BY <1>1, <1>3, <1>5, <2>1, ReadStoreCache
<1>6. CASE ListsFetch \/ ListsStore
  <2>1. UNCHANGED <<server, call, log, settled, touched>>
    BY <1>6 DEF ListsFetch, ListsStore, ghosts
  <2> QED BY <1>1, <1>3, <1>6, <2>1, ListsCache
<1>7. CASE Expire
  <2>1. UNCHANGED <<server, call, log, settled, touched>>
    BY <1>7 DEF Expire, ghosts
  <2>2. index' = Invalidated /\ UNCHANGED <<row, settled, reader>>
    BY <1>7, <2>1 DEF Expire, server
  <2> QED BY <1>1, <1>3, <2>1, <2>2, CacheDropped
<1>8. ASSUME NEW c, App(c) PROVE UNCHANGED <<settled, index, reader>>
  BY <1>8 DEF App, caches
<1>9. ASSUME NEW t \in Txns, Reconcile(t) \/ Delete(t) PROVE YnabInv'
  <2>1. Outside
    BY <1>1, <1>9, ReconcileOutside, DeleteOutside
  <2>2. App(t)
    BY <1>9 DEF Reconcile, Delete
  <2> QED BY <1>2, <1>8, <2>1, <2>2
<1>10. ASSUME NEW p \in Payees, NEW name, NamePayee(p, name) PROVE YnabInv'
  <2>1. Outside
    BY <1>1, <1>10, NamePayeeOutside
  <2>2. App(p)
    BY <1>10 DEF NamePayee
  <2> QED BY <1>2, <1>8, <2>1, <2>2
<1>11. ASSUME NEW c, HideCategory(c) PROVE YnabInv'
  <2>1. Outside
    BY <1>1, <1>11, HideCategoryOutside
  <2>2. App(c)
    BY <1>11 DEF HideCategory
  <2> QED BY <1>2, <1>8, <2>1, <2>2
<1>12. CASE UNCHANGED ynabVars
  <2>1. UNCHANGED <<server, call, log, settled, touched>> /\ UNCHANGED <<settled, index, reader>>
    BY <1>12 DEF ynabVars, server
  <2> QED BY <1>1, <1>2, <2>1, QuietOutside
<1>13. \A which \in {Txns \ Old} \cup {{t} : t \in Txns} : which \in SUBSET Txns
  OBVIOUS
<1> QED BY <1>4, <1>5, <1>6, <1>7, <1>9, <1>10, <1>11, <1>12, <1>13 DEF YnabNext, CallStep, Done

\* The inductive invariant: what the call has queued, planned, sent and reported, and what
\* the cache and a read in flight hold, fit the server and the log.
THEOREM YnabInvariantHolds == YnabSpec => []YnabInv
<1>1. YnabInit => YnabInv
  BY InitialCallInv, InitialCache, InitialCall DEF YnabInv, Steps
<1>2. YnabInv /\ [YnabNext]_ynabVars => YnabInv'
  BY CallStepHolds, CallStepCache, OutsideStep DEF YnabInv
<1> QED BY <1>1, <1>2, PTL DEF YnabSpec

\* The call's steps, its reports, its batches and the cached rows are of the code's kinds.
THEOREM YnabTypeCorrect == YnabSpec => []YnabTypeOK
<1>1. ASSUME YnabInv PROVE YnabTypeOK
  <2>1. CallInv /\ CacheHolds /\ call.pc \in Steps
    BY <1>1 DEF YnabInv
  <2>2. /\ DOMAIN call.ops = 1 .. Len(call.ops) /\ Len(call.ops) \in Nat
        /\ call.i \in Nat /\ call.i <= Len(call.ops) + 1
    BY <2>1, OpsFacts DEF CallInv, Structure, CallShape
  <2>3. ASSUME NEW x \in call.results
        PROVE  x \in [n : DOMAIN call.ops, verdict : {"applied", "nothing"} \cup Failures]
    <3>1. /\ x = [n |-> x.n, verdict |-> x.verdict] /\ x.n \in 1 .. call.i - 1
          /\ x.verdict \in {"applied", "nothing"} \cup Failures
      BY <2>1 DEF CallInv, ResultsHold, Verdict
    <3>2. x.n \in DOMAIN call.ops
      BY <2>2, <3>1
    <3> QED BY <3>1, <3>2
  <2>4. call.pc = "send" => call.batch # <<>>
    BY <2>1 DEF CallInv, Structure, Phases
  <2>5. \A t \in Txns : /\ index[t] = None \/ DOMAIN index[t] = {"row", "raced"}
                        /\ row[t].v \in Nat
    BY <2>1 DEF CacheHolds, CallInv, ServerShape, IsRow
  <2>6. \A k \in DOMAIN call.batch : DOMAIN call.batch[k].entry \in (SUBSET Fields) \ {{}}
    BY <2>1 DEF CallInv, BatchHolds, EntrySound, Entries
  <2> QED BY <2>1, <2>3, <2>4, <2>5, <2>6 DEF YnabTypeOK, Steps
<1> QED BY <1>1, YnabInvariantHolds, PTL

\* planTransactionPatch's guards hold of every row at the moment it is written, unless
\* YNAB's app changed it since it was read; a rename takes no name in use.
THEOREM GuardsAlwaysHold == YnabSpec => []GuardsHold
<1>1. YnabInv => GuardsHold
  BY DEF YnabInv, CallInv
<1> QED BY <1>1, YnabInvariantHolds, PTL

\* What bulkOps reports of a patch is what became of it: applied means written, and a
\* failure other than a lost answer means not written.
THEOREM VerdictsAlwaysTrue == YnabSpec => []VerdictsAreTrue
<1>1. YnabInv => VerdictsAreTrue
  BY DEF YnabInv, CallInv
<1> QED BY <1>1, YnabInvariantHolds, PTL

\* mergeMembers: a transaction patched by several operations ends as if they had been
\* applied one after the other, in one write.
THEOREM MergesAreSequential == YnabSpec => []MergedIsSequential
<1>1. ASSUME YnabInv PROVE MergedIsSequential
  <2>1. CallInv /\ OneWrite
    BY <1>1 DEF YnabInv, CallInv
  <2>2. SUFFICES ASSUME call.pc = "done", ~Renames, touched = {}, NEW t \in Txns,
                        \A x \in call.results :
                           call.ops[x.n].txn = t => x.verdict \in {"applied", "nothing"},
                        NEW f \in Fields
                 PROVE  row[t][f] = Sequentially(t, f)
    BY <2>1 DEF MergedIsSequential
  <2>3. ~Spoilt(t)
    BY <2>2 DEF Spoilt
  <2>4. /\ row[t][f] # call.start.row[t][f] => Setting(t, f) # {}
        /\ \A n \in Setting(t, f) : n < call.i => Accounted(t, f, n)
    BY <2>1, <2>2, <2>3 DEF CallInv, NothingLost
  <2>5. ASSUME NEW n \in Setting(t, f) PROVE n < call.i
    <3>1. call.i = Len(call.ops) + 1 /\ DOMAIN call.ops = 1 .. Len(call.ops) /\ Len(call.ops) \in Nat
      BY <2>1, <2>2, OpsFacts DEF CallInv, Structure, CallShape, Gathering
    <3> QED BY <3>1 DEF Setting
  <2>6. ASSUME NEW n \in Setting(t, f) PROVE InRow(t, f, n)
    <3>1. /\ call.groups = <<>> /\ call.rest = <<>> /\ call.merged = <<>> /\ call.members = <<>>
          /\ call.batch = <<>>
      BY <2>1, <2>2 DEF CallInv, Structure, Phases
    <3>2. Accounted(t, f, n)
      BY <2>4, <2>5
    <3> QED BY <2>2, <3>1, <3>2, EmptyFacts, NoGroups DEF Accounted
  <2>7. CASE Setting(t, f) = {}
    BY <2>4, <2>7 DEF Sequentially
  <2>8. CASE Setting(t, f) # {}
    <3>1. PICK last \in Setting(t, f) : \A k \in Setting(t, f) : k <= last
      BY <2>1, <2>5, <2>8 DEF CallInv, Structure, LastsHold
    <3>2. PICK n : n = CHOOSE j \in Setting(t, f) : \A k \in Setting(t, f) : k <= j
      OBVIOUS
    <3>3. n \in Setting(t, f)
      BY <3>1, <3>2
    <3>4. InRow(t, f, n)
      BY <2>6, <3>3
    <3> QED BY <2>8, <3>2, <3>4 DEF InRow, Sequentially
  <2> QED BY <2>7, <2>8
<1> QED BY <1>1, YnabInvariantHolds, PTL

\* patchTransactions: a cached row that is older than a write that is over was fetched by a
\* read the write overtook.
THEOREM OnlyRacedRowsAreOld == YnabSpec => []PreWriteOnlyRaced
<1>1. YnabInv => PreWriteOnlyRaced
  BY DEF YnabInv, CacheHolds
<1> QED BY <1>1, YnabInvariantHolds, PTL

=============================================================================
