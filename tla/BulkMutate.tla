----------------------------- MODULE BulkMutate -----------------------------
(***************************************************************************)
(* One mutate_nodes call (internal/mcp/mutate_nodes.go): its groups are    *)
(* built and validated, dispatched one after the other to their plugins,   *)
(* applied op by op by the best-effort loop                                *)
(* (internal/cutting_garden_plugins/bulk_dispatch.go, bulk_progress.go,    *)
(* bulk_mutate.go), the read caches are forgotten and the call answers.    *)
(*                                                                         *)
(* A linked plugin runs the loop in the call.  A wire plugin runs it in    *)
(* its own process (traversal_serve/adapter.go BulkMutate), one request at *)
(* a time; the call waits for the reply and loses it when the process      *)
(* dies, when the stream to it breaks, or when its own context is          *)
(* cancelled, and in the last two cases the process carries on.            *)
(*                                                                         *)
(* Abstractions.  A source is a map from addresses to nodes; addresses and *)
(* node identities are numbers, never reused.  Bodies and fields are left  *)
(* out: a patch lands some field, none, or one that moves the node to a    *)
(* new address (PatchDetail.NewURI).  A verb that succeeds did what it is  *)
(* named for, and one whose address names no node does not succeed; a verb *)
(* that fails may have done it nevertheless.  A failed outcome whose Err   *)
(* says that the op was not run has the status "skipped" here.  The lists  *)
(* of a BulkResult are read off its outcomes' statuses, with which they    *)
(* are always appended.  No plugin of the model transacts: an atomic group *)
(* is refused at dispatch.                                                 *)
(***************************************************************************)
EXTENDS Integers, Sequences, FiniteSets, SequencesExt

CONSTANTS
    Anchors,     \* group anchors, each in a source of its own
    Wire,        \* anchors whose plugin is a WirePlugin
    Temps,       \* temp ids
    NoTemp,      \* no temp id
    Existing,    \* the addresses 1..Existing hold a node at the start
    MaxAddr,     \* bound: addresses ever used
    OpKinds,     \* bound: kinds of op the caller sends
    MaxGroups,   \* bound: groups of the call
    MaxOps,      \* bound: ops of the call
    MaxMishaps   \* bound: processes that die, streams that break, cancels

ASSUME ConstantsAssumption ==
    /\ Wire \subseteq Anchors /\ NoTemp \notin Temps
    /\ OpKinds \subseteq {"create", "put", "patch", "delete"}
    /\ Existing \in Nat /\ MaxAddr \in Nat /\ Existing <= MaxAddr
    /\ MaxGroups \in Nat /\ MaxOps \in Nat /\ MaxMishaps \in Nat

VARIABLES
    groups,     \* the groups built so far
    draft,      \* the group being built
    pc,         \* "build", "apply" or "done"
    host,       \* where applyMutateGroup is: "dispatch", "wait", "forget"
    cur,        \* the group being applied
    run,        \* per group: the best-effort loop over its ops
    views,      \* the mutateGroupViews of the groups applied
    answer,     \* what the call returned
    cancelled,  \* the call's context is cancelled
    at,         \* per source: the node at each address
    fresh,      \* the next unused number
    effects,    \* history: what was written
    unseen,     \* history, per source: writes since its caches were forgotten
    broken,     \* the wire anchors whose stream broke and whose process lives
    mishaps     \* processes that died, streams that broke, cancels

hostVars == <<groups, draft, pc, host, cur, views, answer, cancelled>>
sourceVars == <<at, fresh, effects, unseen>>
vars == <<hostVars, run, sourceVars, broken, mishaps>>

Addr    == 1..MaxAddr
Nothing == 0     \* no node, no address
Root    == -1    \* the anchor itself, as a container
TempRef == Temps \cup {NoTemp}
Kind    == {"create", "put", "patch", "delete"}

\* BulkOp: addressed by exactly one of uri, temp (a server-assigned create in
\* the container in or inRef) and ref.
BulkOp == [kind : Kind, uri : Addr \cup {Nothing}, temp : TempRef,
           in : Addr \cup {Nothing, Root}, inRef : TempRef, ref : TempRef]

UriOp(kind, uri) ==
    [kind |-> kind, uri |-> uri, temp |-> NoTemp, in |-> Nothing,
     inRef |-> NoTemp, ref |-> NoTemp]

RefOp(kind, t) == [UriOp(kind, Nothing) EXCEPT !.ref = t]

ChildOp(t, in, inRef) ==
    [UriOp("create", Nothing) EXCEPT !.temp = t, !.in = in, !.inRef = inRef]

Group   == [anchor : Anchors, atomic : BOOLEAN, sweep : BOOLEAN,
            ops : Seq(BulkOp)]
NoDraft == [ops |-> <<>>]

\* "skipped" is an OutcomeFailed with notAttemptedReason or dependentFailure.
Status  == {"applied", "patched_nothing", "failed", "skipped", "deleted",
            "not_found"}
Outcome == [status : Status, uri : Addr \cup {Nothing}]

\* The loop: its ops, the outcomes so far and BulkResult.Created.
Run   == [st : {"running", "ended", "dead"}, ops : Seq(BulkOp),
          outcomes : Seq(Outcome), created : [Temps -> Addr \cup {Nothing}]]
NoRun == [st |-> "none"]

View == [err : BOOLEAN, outcomes : Seq(Outcome)]

\* Op i of group g wrote to node, a create below the node parent.
Effect == [g : 1..MaxGroups, i : Nat \ {0}, node : Addr,
           parent : Addr \cup {Nothing, Root}]

TypeOK ==
    /\ groups \in Seq(Group) /\ Len(groups) <= MaxGroups
    /\ draft \in Group \cup {NoDraft}
    /\ pc \in {"build", "apply", "done"}
    /\ host \in {"dispatch", "wait", "forget"}
    /\ cur \in 1..(MaxGroups + 1)
    /\ run \in [1..MaxGroups -> Run \cup {NoRun}]
    /\ \A g \in 1..MaxGroups :
          run[g] # NoRun => Len(run[g].outcomes) <= Len(run[g].ops)
    /\ views \in Seq(View)
    /\ answer \in {"none", "refused", "error", "nothing", "body"}
    /\ cancelled \in BOOLEAN
    /\ at \in [Anchors -> [Addr -> Addr \cup {Nothing}]]
    /\ fresh \in 1..(MaxAddr + 1)
    /\ effects \subseteq Effect
    /\ unseen \in [Anchors -> SUBSET Effect]
    /\ broken \subseteq Wire
    /\ mishaps \in 0..MaxMishaps

Init ==
    /\ groups = <<>> /\ draft = NoDraft
    /\ pc = "build" /\ host = "dispatch" /\ cur = 1
    /\ run = [g \in 1..MaxGroups |-> NoRun]
    /\ views = <<>> /\ answer = "none" /\ cancelled = FALSE
    /\ at = [a \in Anchors |->
                [x \in Addr |-> IF x <= Existing THEN x ELSE Nothing]]
    /\ fresh = Existing + 1
    /\ effects = {} /\ unseen = [a \in Anchors |-> {}]
    /\ broken = {} /\ mishaps = 0

-----------------------------------------------------------------------------
(* buildMutateGroup.  The caller's ops are chosen as they are built.        *)

OpCount ==
    FoldLeft(LAMBDA n, gr : n + Len(gr.ops), Len(draft.ops), groups)

\* The temp ids the draft's creates have defined.
Defined == {draft.ops[i].temp : i \in 1..Len(draft.ops)} \ {NoTemp}

\* buildOp and setContainer: the op that a caller's kind, id and in stand for.
Ops ==
    {UriOp(k, u) : k \in OpKinds, u \in 1..Existing}
      \cup {RefOp(k, t) : k \in OpKinds \ {"create"}, t \in Defined}
      \cup {ChildOp(t, x, NoTemp) : t \in Temps \ Defined, x \in (1..Existing) \cup {Root}}
      \cup {ChildOp(t, Nothing, c) : t \in Temps \ Defined, c \in Defined}

\* BulkRequest.Validate: ops or a sweep, no create in a sweep, no temp id in
\* an atomic request.
Valid ==
    /\ Len(draft.ops) > 0
    /\ draft.sweep => draft.ops[1].kind # "create"
    /\ draft.atomic => Defined = {}

BuildGroup(a, atomic, sweep) ==
    /\ pc = "build" /\ draft = NoDraft
    /\ Len(groups) < MaxGroups
    /\ OpCount < MaxOps
    /\ draft' = [anchor |-> a, atomic |-> atomic, sweep |-> sweep, ops |-> <<>>]
    /\ UNCHANGED <<groups, pc, host, cur, views, answer, cancelled>>
    /\ UNCHANGED <<run, sourceVars, broken, mishaps>>

BuildOp(op) ==
    /\ pc = "build" /\ draft # NoDraft /\ ~draft.sweep
    /\ OpCount < MaxOps
    /\ draft' = [draft EXCEPT !.ops = Append(@, op)]
    /\ UNCHANGED <<groups, pc, host, cur, views, answer, cancelled>>
    /\ UNCHANGED <<run, sourceVars, broken, mishaps>>

\* The sweep's op template; its uri is ignored.
BuildSweep(kind) ==
    /\ pc = "build" /\ draft # NoDraft /\ draft.sweep
    /\ draft.ops = <<>> /\ OpCount < MaxOps
    /\ draft' = [draft EXCEPT !.ops = <<UriOp(kind, Nothing)>>]
    /\ UNCHANGED <<groups, pc, host, cur, views, answer, cancelled>>
    /\ UNCHANGED <<run, sourceVars, broken, mishaps>>

GroupBuilt ==
    /\ pc = "build" /\ draft # NoDraft /\ Valid
    /\ groups' = Append(groups, draft)
    /\ draft' = NoDraft
    /\ UNCHANGED <<pc, host, cur, views, answer, cancelled>>
    /\ UNCHANGED <<run, sourceVars, broken, mishaps>>

\* No plugin takes the anchor, an op does not build (an id that does not
\* resolve, a temp id defined twice or used before its create, a type the
\* plugin does not create, an in on another op) or the group is not valid:
\* the whole call is refused.
BuildRefuse ==
    /\ pc = "build"
    /\ pc' = "done" /\ answer' = "refused"
    /\ draft' = NoDraft
    /\ UNCHANGED <<groups, host, cur, views, cancelled>>
    /\ UNCHANGED <<run, sourceVars, broken, mishaps>>

BuildDone ==
    /\ pc = "build" /\ draft = NoDraft /\ groups # <<>>
    /\ pc' = "apply"
    /\ UNCHANGED <<groups, draft, host, cur, views, answer, cancelled>>
    /\ UNCHANGED <<run, sourceVars, broken, mishaps>>

-----------------------------------------------------------------------------
(* applyMutateGroup and dispatchMutateGroup.                                *)

Anchor(g) == groups[g].anchor

\* Every group is built before any is dispatched.
AllBuilt == pc = "apply"

ToDispatch == AllBuilt /\ host = "dispatch" /\ cur <= Len(groups)

\* The group's ops, or for a sweep the template for each match, in the order
\* of the listing.
OpsOf(gr) ==
    IF ~gr.sweep THEN {gr.ops}
    ELSE LET nodes == {x \in Addr : at[gr.anchor][x] # Nothing}
         IN  {[i \in DOMAIN m |-> UriOp(gr.ops[1].kind, m[i])] :
                 m \in SetToAllKPermutations(nodes)}

\* The process of anchor a is gone, with the request at hand, the queued ones
\* and any reply not read.
Killed(a) ==
    [g \in 1..MaxGroups |->
        IF run[g] # NoRun /\ Anchor(g) = a
           /\ (run[g].st = "running" \/ (g = cur /\ host = "wait"))
        THEN [run[g] EXCEPT !.st = "dead"] ELSE run[g]]

\* liveSession: a session whose stream broke is closed and its process reaped.
Reaped == IF Anchor(cur) \in broken THEN Killed(Anchor(cur)) ELSE run

Dispatch ==
    /\ ToDispatch
    /\ ~groups[cur].atomic
    /\ \E ops \in OpsOf(groups[cur]) :
          run' = [Reaped EXCEPT ![cur] =
                     [st |-> "running", ops |-> ops, outcomes |-> <<>>,
                      created |-> [t \in Temps |-> Nothing]]]
    /\ broken' = broken \ {Anchor(cur)}
    /\ host' = "wait"
    /\ UNCHANGED <<groups, draft, pc, cur, views, answer, cancelled>>
    /\ UNCHANGED <<sourceVars, mishaps>>

Reviewed(err, outcomes) == Append(views, [err |-> err, outcomes |-> outcomes])

\* An atomic group, a plugin that cannot write or sweep or be reached, or a
\* sweep whose listing failed or declined: nothing is sent, though the plugin
\* may have been reached to find that out.
DispatchRefused ==
    /\ ToDispatch
    /\ views' = Reviewed(TRUE, <<>>)
    /\ host' = "forget"
    /\ \/ UNCHANGED <<run, broken>>
       \/ run' = Reaped /\ broken' = broken \ {Anchor(cur)}
    /\ UNCHANGED <<groups, draft, pc, cur, answer, cancelled>>
    /\ UNCHANGED <<sourceVars, mishaps>>

\* The loop has returned, or its reply has arrived.
Result ==
    /\ host = "wait" /\ run[cur].st = "ended" /\ Anchor(cur) \notin broken
    /\ views' = Reviewed(FALSE, run[cur].outcomes)
    /\ host' = "forget"
    /\ UNCHANGED <<groups, draft, pc, cur, answer, cancelled>>
    /\ UNCHANGED <<run, sourceVars, broken, mishaps>>

\* The plugin process died under the call, the stream to it broke (a line that
\* does not parse or exceeds the bound) or the call's context was cancelled:
\* Peer.Call gives the answer up.
ReplyLost ==
    /\ host = "wait" /\ Anchor(cur) \in Wire
    /\ run[cur].st = "dead" \/ Anchor(cur) \in broken \/ cancelled
    /\ views' = Reviewed(TRUE, <<>>)
    /\ host' = "forget"
    /\ UNCHANGED <<groups, draft, pc, cur, answer, cancelled>>
    /\ UNCHANGED <<run, sourceVars, broken, mishaps>>

\* forgetWrittenSource, after a failed dispatch too.
ForgottenOnSuccess ==
    IF views[cur].err THEN unseen ELSE [unseen EXCEPT ![Anchor(cur)] = {}]

Forgotten == [unseen EXCEPT ![Anchor(cur)] = {}]

Forget ==
    /\ host = "forget"
    /\ unseen' = Forgotten
    /\ host' = "dispatch" /\ cur' = cur + 1
    /\ UNCHANGED <<groups, draft, pc, views, answer, cancelled>>
    /\ UNCHANGED <<run, at, fresh, effects, broken, mishaps>>

Some(status) ==
    \E g \in DOMAIN views : \E i \in DOMAIN views[g].outcomes :
        views[g].outcomes[i].status \in status

Refused == \E g \in DOMAIN views : views[g].err

\* The end of callMutateNodes.
Reply ==
    IF Len(groups) = 1 /\ Refused THEN "error"
    ELSE IF /\ ~Some({"applied", "deleted"})
            /\ Refused \/ Some({"failed", "skipped", "not_found", "patched_nothing"})
         THEN "nothing"
    ELSE "body"

Answer ==
    /\ pc = "apply" /\ host = "dispatch" /\ cur > Len(groups)
    /\ pc' = "done" /\ answer' = Reply
    /\ UNCHANGED <<groups, draft, host, cur, views, cancelled>>
    /\ UNCHANGED <<run, sourceVars, broken, mishaps>>

-----------------------------------------------------------------------------
(* BulkBestEffortOps, BulkBestEffortSweep: applyBulkOpInOrder, ApplyBulkOp. *)

\* A plugin process handles one request at a time, in order; the linked loop
\* is the call itself.
TurnAny(g) == TRUE

Turn(g) ==
    \A h \in 1..(g - 1) : Anchor(h) = Anchor(g) => run[h].st # "running"

OpDue(g) ==
    /\ run[g].st = "running" /\ Turn(g)
    /\ Len(run[g].outcomes) < Len(run[g].ops)

I(g)  == Len(run[g].outcomes) + 1
Op(g) == run[g].ops[I(g)]

\* Only the linked loop sees the call's context: the wire carries no cancel.
CutOff(g) == cancelled /\ Anchor(g) \notin Wire

\* createdURI.
CreatedLatest(g, t) ==
    LET made == {run[g].created[x] : x \in Temps}
    IN  CHOOSE x \in made : \A y \in made : y <= x

Created(g, t) == run[g].created[t]

Target(g)    == IF Op(g).ref # NoTemp THEN Created(g, Op(g).ref) ELSE Op(g).uri
Container(g) == IF Op(g).inRef # NoTemp THEN Created(g, Op(g).inRef)
                ELSE Op(g).in

\* An op that names a temp id whose create failed.
Dependent(g) == IF Op(g).temp # NoTemp THEN Container(g) = Nothing
                ELSE Target(g) = Nothing

Record(g, status, uri, created) ==
    run' = [run EXCEPT ![g] =
               [st |-> "running", ops |-> @.ops,
                outcomes |-> Append(@.outcomes, [status |-> status, uri |-> uri]),
                created |-> created]]

\* The op writes to a node: at becomes source.
Write(g, source, node, parent) ==
    LET e == [g |-> g, i |-> I(g), node |-> node, parent |-> parent]
    IN  /\ at' = [at EXCEPT ![Anchor(g)] = source]
        /\ effects' = effects \cup {e}
        /\ unseen' = [unseen EXCEPT ![Anchor(g)] = @ \cup {e}]

\* The op is refused without running: the context is cancelled, or it
\* depends on a failed create.
OpSkipped(g) ==
    /\ OpDue(g)
    /\ CutOff(g) \/ Dependent(g)
    /\ Record(g, "skipped", Op(g).uri, run[g].created)
    /\ UNCHANGED <<hostVars, sourceVars, broken, mishaps>>

\* What runs: neither cut off nor dependent.
Runs(g) == OpDue(g) /\ ~CutOff(g) /\ ~Dependent(g)

Found(g, kinds) ==
    /\ Op(g).temp = NoTemp /\ Op(g).kind \in kinds
    /\ at[Anchor(g)][Target(g)] # Nothing

\* What each verb does to the source.  CreateChild: the source names the child.
ChildMade(g) ==
    /\ Op(g).temp # NoTemp
    /\ fresh <= MaxAddr
    /\ LET c      == Container(g)
           source == at[Anchor(g)]
           parent == IF c = Root THEN Root ELSE source[c]
       IN  /\ parent # Nothing
           /\ Write(g, [source EXCEPT ![fresh] = fresh], fresh, parent)
    /\ fresh' = fresh + 1

\* CreateNode at an address of the caller's.
NodeMade(g) ==
    /\ Op(g).temp = NoTemp /\ Op(g).kind = "create"
    /\ fresh <= MaxAddr
    /\ LET source == at[Anchor(g)]
       IN  /\ source[Target(g)] = Nothing
           /\ Write(g, [source EXCEPT ![Target(g)] = fresh], fresh, Nothing)
    /\ fresh' = fresh + 1

\* PutNode, or PatchNode with a field landed.
NodeWritten(g) ==
    /\ Found(g, {"put", "patch"})
    /\ Write(g, at[Anchor(g)], at[Anchor(g)][Target(g)], Nothing)
    /\ UNCHANGED fresh

\* PatchNodeDetail with a NewURI: the node is at another address afterwards.
NodeMoved(g) ==
    /\ Found(g, {"patch"})
    /\ fresh <= MaxAddr
    /\ LET source == at[Anchor(g)]
           node   == source[Target(g)]
       IN  Write(g, [source EXCEPT ![Target(g)] = Nothing, ![fresh] = node],
                 node, Nothing)
    /\ fresh' = fresh + 1

NodeDeleted(g) ==
    /\ Found(g, {"delete"})
    /\ LET source == at[Anchor(g)]
       IN  Write(g, [source EXCEPT ![Target(g)] = Nothing],
                 source[Target(g)], Nothing)
    /\ UNCHANGED fresh

\* applyTempCreate.
OpCreateChild(g) ==
    /\ Runs(g) /\ ChildMade(g)
    /\ Record(g, "applied", fresh, [run[g].created EXCEPT ![Op(g).temp] = fresh])
    /\ UNCHANGED <<hostVars, broken, mishaps>>

OpApplied(g) ==
    /\ Runs(g) /\ (NodeMade(g) \/ NodeWritten(g) \/ NodeMoved(g))
    /\ Record(g, "applied", Target(g), run[g].created)
    /\ UNCHANGED <<hostVars, broken, mishaps>>

OpDelete(g) ==
    /\ Runs(g) /\ NodeDeleted(g)
    /\ Record(g, "deleted", Target(g), run[g].created)
    /\ UNCHANGED <<hostVars, broken, mishaps>>

\* A patch that was accepted and landed no field.
PatchedNothingStatusLost == "applied"

PatchedNothingStatus == "patched_nothing"

OpPatchNothing(g) ==
    /\ Runs(g) /\ Found(g, {"patch"})
    /\ Record(g, PatchedNothingStatus, Target(g), run[g].created)
    /\ UNCHANGED <<hostVars, sourceVars, broken, mishaps>>

\* The verb returns an error, or names no created child, and has written
\* nothing; a delete may say that there was no such node.
OpFails(g) ==
    /\ Runs(g)
    /\ \E status \in IF Op(g).kind = "delete" THEN {"failed", "not_found"}
                     ELSE {"failed"} :
          Record(g, status, Target(g), run[g].created)
    /\ UNCHANGED <<hostVars, sourceVars, broken, mishaps>>

\* The verb returns an error, or names no created child, after its write
\* landed: a timeout, a read-back that failed, an answer that was cut.
OpFailsLate(g) ==
    /\ Runs(g)
    /\ ChildMade(g) \/ NodeMade(g) \/ NodeWritten(g) \/ NodeMoved(g) \/ NodeDeleted(g)
    /\ Record(g, "failed", Target(g), run[g].created)
    /\ UNCHANGED <<hostVars, broken, mishaps>>

LoopEnd(g) ==
    /\ run[g].st = "running" /\ Turn(g)
    /\ Len(run[g].outcomes) = Len(run[g].ops)
    /\ run' = [run EXCEPT ![g].st = "ended"]
    /\ UNCHANGED <<hostVars, sourceVars, broken, mishaps>>

-----------------------------------------------------------------------------
(* What happens around the call.                                            *)

\* The client hangs up or cancels.
Cancel ==
    /\ pc = "apply" /\ ~cancelled
    /\ mishaps < MaxMishaps
    /\ cancelled' = TRUE /\ mishaps' = mishaps + 1
    /\ UNCHANGED <<groups, draft, pc, host, cur, views, answer>>
    /\ UNCHANGED <<run, sourceVars, broken>>

Reached(a) == \E g \in 1..MaxGroups : run[g] # NoRun /\ Anchor(g) = a

PluginCrash(a) ==
    /\ mishaps < MaxMishaps /\ Reached(a)
    /\ mishaps' = mishaps + 1
    /\ run' = Killed(a)
    /\ UNCHANGED <<hostVars, sourceVars, broken>>

\* readLoop ends on a line it cannot take: every call waiting is released and
\* no reply is read any more, but the process lives on with the requests it
\* was sent.
StreamBreaks(a) ==
    /\ mishaps < MaxMishaps /\ Reached(a)
    /\ mishaps' = mishaps + 1
    /\ broken' = broken \cup {a}
    /\ UNCHANGED <<hostVars, run, sourceVars>>

Build ==
    \/ \E a \in Anchors, atomic, sweep \in BOOLEAN : BuildGroup(a, atomic, sweep)
    \/ draft # NoDraft /\ \E op \in Ops : BuildOp(op)
    \/ \E kind \in OpKinds : BuildSweep(kind)
    \/ GroupBuilt
    \/ BuildRefuse
    \/ BuildDone

Apply == Dispatch \/ DispatchRefused \/ Result \/ ReplyLost \/ Forget \/ Answer

Loop(g) ==
    \/ OpSkipped(g) \/ OpCreateChild(g) \/ OpApplied(g) \/ OpDelete(g)
    \/ OpPatchNothing(g) \/ OpFails(g) \/ OpFailsLate(g) \/ LoopEnd(g)

Next ==
    \/ Build
    \/ Apply
    \/ \E g \in 1..MaxGroups : Loop(g)
    \/ Cancel
    \/ \E a \in Wire : PluginCrash(a) \/ StreamBreaks(a)

Spec == Init /\ [][Next]_vars

-----------------------------------------------------------------------------
(* Properties.                                                              *)

\* A call refused because one of its groups is malformed has written nothing,
\* whichever group it was (callMutateNodes builds every group first).
RefusedWritesNothing == answer = "refused" => effects = {}

Landed(g, i) == \E e \in effects : e.g = g /\ e.i = i

\* What a status says of an op that landed, or did not.
Agrees(status, landed) ==
    /\ status \in {"applied", "deleted"} => landed
    /\ status \in {"patched_nothing", "not_found", "skipped"} => ~landed

\* What the caller is told of a group is what happened: one outcome per op in
\* request order; an op reported as applied or deleted wrote, and one reported
\* as skipped (cancelled, or dependent on a create that failed), as not found
\* or as a patch that landed nothing did not, so that sending it again does
\* not do it twice.  Of an op whose verb failed nothing is claimed.  A refused
\* call wrote nothing.
ReportIsTrue ==
    /\ RefusedWritesNothing
    /\ \A g \in DOMAIN views : ~views[g].err =>
          /\ Len(views[g].outcomes) = Len(run[g].ops)
          /\ \A i \in DOMAIN views[g].outcomes :
                Agrees(views[g].outcomes[i].status, Landed(g, i))

\* An op that names a temp id writes to, or creates below, the node that id's
\* create made and reported, or it writes nothing: a moved node is never
\* mistaken for another, and the dependents of a create that failed, whether
\* or not it left a node behind, do not run.
TempIdsHold ==
    \A e \in effects :
        LET op == run[e.g].ops[e.i]
            Made(t, node) ==
                \E f \in effects : /\ f.g = e.g /\ f.i < e.i
                                   /\ run[f.g].ops[f.i].temp = t
                                   /\ run[f.g].outcomes[f.i].status = "applied"
                                   /\ f.node = node
        IN  /\ op.ref # NoTemp => Made(op.ref, e.node)
            /\ op.inRef # NoTemp => Made(op.inRef, e.parent)

\* When the call has answered, the caches of every source it wrote to were
\* forgotten after the write, even if the dispatch failed; the one exception
\* is a wire batch the call walked away from while its process lived on: the
\* call was cancelled, or the stream broke and nothing has been sent to the
\* plugin since (forgetWrittenSource).
WritesForgotten ==
    pc = "done" =>
        \A a \in Anchors : \A e \in unseen[a] :
            a \in Wire /\ views[e.g].err /\ (cancelled \/ a \in broken)

\* The groups of one source are written in request order, also when the first
\* was given up by the call and its process is still at it (serveLoop).
SourceOrder ==
    [][\A e \in effects' \ effects, f \in effects :
          Anchor(f.g) = Anchor(e.g) =>
              f.g < e.g \/ (f.g = e.g /\ f.i < e.i)]_vars

-----------------------------------------------------------------------------
\* "Nothing landed in any group": the call says so only when nothing did.
NothingAppliedIsTrue == answer = "nothing" => effects = {}

\* OutcomeFailed's comment: "the op did not apply, or was never attempted".
FailedDidNotApply ==
    \A g \in DOMAIN views : \A i \in DOMAIN views[g].outcomes :
        views[g].outcomes[i].status = "failed" => ~Landed(g, i)

=============================================================================
