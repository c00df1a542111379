------------------------------ MODULE Capture -------------------------------
(***************************************************************************)
(* The capture command (internal/capture) over the file and git plugins:   *)
(* arguments are planned into store groups, each group's roots are         *)
(* captured into its blob store, a success receipt and, when something     *)
(* failed, a failure receipt are written per group, and the journal        *)
(* captures.log is appended once, at the end.                              *)
(*                                                                         *)
(* Invocations follow one another over the same stores and journal.  The   *)
(* branch a git root names is pushed to, also by force, at any moment; a   *)
(* signal cancels the context; the process dies anywhere; entries, remote  *)
(* calls, blob writes, the spill and the journal append fail.              *)
(*                                                                         *)
(* Abstractions.  A blob is its content, which is what content addressing  *)
(* makes of it; time stamps are left out of it.  A commit stands for its   *)
(* commit, tree and blob objects.  Packing, which only changes how a store *)
(* keeps its blobs, and rendering are left out.                            *)
(***************************************************************************)
EXTENDS Naturals, Sequences, FiniteSets, SequencesExt

CONSTANTS
    Stores,      \* blob store ids; DefaultStore is one
    FileRoots,   \* directories, as arguments
    GitRoots,    \* git:...#branch arguments
    Tree,        \* [FileRoots -> Seq of names], in walk order; the first is the root itself
    Commits,     \* commits of the branch
    History,     \* [Commits -> SUBSET Commits]: the commits reachable from one
    ArgLists,    \* command lines
    MaxSpillSuffix, \* bound of the suffix search
    MaxRuns,     \* bound: invocations
    MaxPushes,   \* bound: pushes to the branch
    MaxFaults    \* bound: operations that fail

DefaultStore == "default"
Pwd          == "."          \* the implicit root
None         == [kind |-> "none"]
Torn         == [kind |-> "torn"]

Roots == FileRoots \cup GitRoots

\* Arguments, by what they are taken for; nobody names the default store.
Args == [kind : {"root"}, name : Roots]
   \cup [kind : {"store"}, name : Stores \ {DefaultStore}]
   \cup [kind : {"unusable", "outside"}, name : STRING]

ASSUME CaptureAssumption ==
    /\ DefaultStore \in Stores /\ Pwd \in FileRoots
    /\ FileRoots \cap GitRoots = {}
    /\ ArgLists \subseteq Seq(Args)
    /\ \A r \in FileRoots :
          /\ Tree[r] \in Seq(STRING) /\ Tree[r] # <<>>
          /\ \A i, j \in DOMAIN Tree[r] : Tree[r][i] = Tree[r][j] => i = j
    /\ History \in [Commits -> SUBSET Commits]
    /\ \A c \in Commits : /\ c \in History[c]
                          /\ \A b \in History[c] : History[b] \subseteq History[c]
    /\ MaxSpillSuffix \in Nat /\ MaxRuns \in Nat /\ MaxPushes \in Nat /\ MaxFaults \in Nat

VARIABLES
    tip,      \* the branch, at the remote
    blobs,    \* [Stores -> set of blobs]
    journal,  \* captures.log: its lines
    logged,   \* FALSE: the last append to captures.log failed, with a notice
    spills,   \* failures/<ts>[-N].ndjson of one second, in suffix order
    pc,
    run,      \* what the process holds in memory
    told,     \* what this invocation reported: failures and failure receipts
    lastExit, \* exit of the last invocation that ended by itself
    runs, pushes, faults

vars == <<tip, blobs, journal, logged, spills, pc, run, told, lastExit, runs, pushes, faults>>

(***************************************************************************)
(* Blobs.                                                                  *)
(***************************************************************************)
FileBlob(root, name) == [kind |-> "file", root |-> root, name |-> name]
Object(c)            == [kind |-> "object", commit |-> c]

\* An EntryV1; a directory has no blob.
Entry(root, name) ==
    [root |-> root, path |-> name,
     blob |-> IF name = Head(Tree[root]) THEN None ELSE FileBlob(root, name)]

FsReceipt(entries)  == [kind |-> "fs", entries |-> entries]
GitReceipt(c, objs) == [kind |-> "git", tip |-> c, objects |-> objs]

Failure(root, path, op) == [root |-> root, path |-> path, op |-> op]

\* A journal line.
LogLine(receipt, store, roots) ==
    [kind |-> "line", receipt |-> receipt, store |-> store, roots |-> roots,
     outcome |-> "", failures |-> None]

(***************************************************************************)
(* Planning the arguments.                                                 *)
(***************************************************************************)
Group(store, roots) == [store |-> store, roots |-> roots]

\* Two roots of one group that are the same path.
Collide(roots) == \E i, j \in DOMAIN roots : i < j /\ roots[i] = roots[j]

(***************************************************************************)
(* The process.                                                            *)
(***************************************************************************)
NoRun ==
    [args |-> <<>>, todo |-> <<>>, current |-> Group(DefaultStore, <<>>), plan |-> <<>>,
     groups |-> <<>>, group |-> Group(DefaultStore, <<>>), number |-> 0, roots |-> <<>>,
     carry |-> {}, failures |-> {}, entries |-> {}, entryRoots |-> 0, protocolReceipts |-> 0,
     walk |-> <<>>, prior |-> None, live |-> "", objects |-> {}, delta |-> {},
     receipt |-> None, logIdx |-> 0, lines |-> <<>>, failCount |-> 0, aborted |-> FALSE]

Init ==
    /\ tip \in Commits
    /\ blobs = [s \in Stores |-> {}]
    /\ journal = <<>> /\ logged = TRUE /\ spills = <<>>
    /\ pc = "idle" /\ run = NoRun /\ told = {} /\ lastExit = "none"
    /\ runs = 0 /\ pushes = 0 /\ faults = 0

Store == run.group.store
RootsOf(group) == ToSet(group.roots)

\* A fault happens where the model says one may, while the bound lasts.
Faulty(n) == faults + n <= MaxFaults /\ faults' = faults + n

\* A remote call fails by itself, or because the context is cancelled.
CallFails == IF run.aborted THEN UNCHANGED faults ELSE Faulty(1)

\* A failure is counted, kept for the group's failure receipt and reported.
Failing(f) ==
    [run EXCEPT !.failures = @ \cup {f}, !.failCount = @ + 1]

Tell(f) == told' = told \cup {[group |-> run.number, what |-> f, where |-> "events"]}

Put(b) == blobs' = [blobs EXCEPT ![Store] = @ \cup b]

\* A single store argument, or none at all: the working directory is the root.
ImplicitRoot(args) == args = <<>> \/ (Len(args) = 1 /\ args[1].kind = "store")

Start(args) ==
    /\ pc = "idle" /\ runs < MaxRuns
    /\ runs' = runs + 1
    /\ pc' = "plan" /\ told' = {}
    /\ run' = IF ImplicitRoot(args)
              THEN [NoRun EXCEPT !.args = args,
                                 !.current = Group(IF args = <<>> THEN DefaultStore
                                                   ELSE args[1].name, <<Pwd>>)]
              ELSE [NoRun EXCEPT !.args = args, !.todo = args]
    /\ UNCHANGED <<tip, blobs, journal, logged, spills, lastExit, pushes, faults>>

\* The arguments make no plan: the invocation ends before anything is captured.
PlanFails ==
    pc' = "idle" /\ run' = NoRun /\ told' = {} /\ lastExit' = "usage"

\* A store switch forgets the group before it.
FlushForgets(r) == r

\* The group under way is complete.
Flush(r) == [r EXCEPT !.plan = Append(@, r.current)]

\* An argument that is no source is a failure of the first group, a root joins the group
\* under way, a store ends it.
planCapture ==
    LET a     == Head(run.todo)
        after == [run EXCEPT !.todo = Tail(@)]
    IN /\ pc = "plan" /\ run.todo # <<>>
       /\ \/ /\ a.kind \in {"unusable", "outside"}
             /\ IF a.kind = "unusable" /\ Len(run.args) = 1
                THEN PlanFails
                ELSE /\ run' = [after EXCEPT !.carry = @ \cup {Failure("", a.name, "plugin")},
                                             !.failCount = @ + 1]
                     /\ UNCHANGED <<pc, told, lastExit>>
          \/ /\ a.kind = "root"
             /\ run' = [after EXCEPT !.current.roots = Append(@, a.name)]
             /\ UNCHANGED <<pc, told, lastExit>>
          \/ /\ a.kind = "store"
             /\ IF \/ run.current.roots = <<>> /\ run.current.store # DefaultStore
                   \/ Collide(run.current.roots)
                THEN PlanFails
                ELSE /\ run' = [(IF run.current.roots = <<>> THEN after ELSE Flush(after))
                                   EXCEPT !.current = Group(a.name, <<>>)]
                     /\ UNCHANGED <<pc, told, lastExit>>
       /\ UNCHANGED <<tip, blobs, journal, logged, spills, runs, pushes, faults>>

\* What planning collected goes to the groups; the failures are reported.
Planned(r) ==
    /\ run' = [r EXCEPT !.groups = r.plan, !.current = Group(DefaultStore, <<>>)]
    /\ told' = {[group |-> 1, what |-> f, where |-> "events"] : f \in run.carry}
    /\ pc' = "groups" /\ UNCHANGED lastExit

PlanEnd ==
    /\ pc = "plan" /\ run.todo = <<>>
    /\ IF run.current.roots # <<>>
       THEN IF Collide(run.current.roots) THEN PlanFails ELSE Planned(Flush(run))
       ELSE IF run.current.store # DefaultStore \/ (run.plan = <<>> /\ run.failCount = 0)
            THEN PlanFails ELSE Planned(run)
    /\ UNCHANGED <<tip, blobs, journal, logged, spills, runs, pushes, faults>>

\* They are dropped.
CarriedNot == {}

\* The failures carried into the group.
Carried == run.carry

BeginGroup ==
    /\ pc = "groups" /\ run.groups # <<>>
    /\ run' = [run EXCEPT !.group = Head(run.groups), !.groups = Tail(@), !.number = @ + 1,
                          !.roots = Head(run.groups).roots,
                          !.failures = Carried, !.carry = {},
                          !.entries = {}, !.entryRoots = 0, !.protocolReceipts = 0,
                          !.receipt = None, !.logIdx = 0]
    /\ pc' = "roots"
    /\ UNCHANGED <<tip, blobs, journal, logged, spills, told, lastExit, runs, pushes, faults>>

\* The root is done; what it left behind in memory is dropped.
NextRoot(r) ==
    [r EXCEPT !.roots = Tail(@), !.walk = <<>>, !.prior = None, !.live = "",
              !.objects = {}, !.delta = {}]

(***************************************************************************)
(* A directory: the file plugin walks it.                                  *)
(***************************************************************************)
Walking == pc = "roots" /\ run.roots # <<>> /\ Head(run.roots) \in FileRoots
Root    == Head(run.roots)

CaptureRoot ==
    /\ Walking
    /\ run' = [run EXCEPT !.walk = Tree[Root]]
    /\ pc' = "walk"
    /\ UNCHANGED <<tip, blobs, journal, logged, spills, told, lastExit, runs, pushes, faults>>

\* One call of the WalkDir callback.  A cancelled context ends the walk as one failure; an
\* entry that cannot be read is a failure, and a directory's is that of all it holds.
WalkEntry ==
    LET name == Head(run.walk)
        e    == Entry(Root, name)
        f    == Failure(Root, name, "walk")
        rest == IF e.blob = None THEN <<>> ELSE Tail(run.walk)
    IN /\ pc = "walk" /\ run.walk # <<>>
       /\ \/ /\ run.aborted
             /\ LET g == Failure(Root, Root, "walk")
                IN run' = [Failing(g) EXCEPT !.walk = <<>>] /\ Tell(g)
             /\ UNCHANGED <<blobs, faults>>
          \/ /\ ~run.aborted
             /\ run' = [run EXCEPT !.entries = @ \cup {e}, !.walk = Tail(@)]
             /\ Put({e.blob} \ {None})
             /\ UNCHANGED <<told, faults>>
          \/ /\ ~run.aborted /\ Faulty(1)
             /\ run' = [Failing(f) EXCEPT !.walk = rest] /\ Tell(f)
             /\ UNCHANGED blobs
       /\ UNCHANGED <<tip, journal, logged, spills, pc, lastExit, runs, pushes>>

WalkDone ==
    /\ pc = "walk" /\ run.walk = <<>>
    /\ run' = [NextRoot(run) EXCEPT !.entryRoots = @ + 1]
    /\ pc' = "roots"
    /\ UNCHANGED <<tip, blobs, journal, logged, spills, told, lastExit, runs, pushes, faults>>

(***************************************************************************)
(* A git branch: the git plugin writes a receipt of its own.               *)
(***************************************************************************)

\* findPriorReceipt: the last line about the root, as far as the log can be decoded.
findPriorReceipt(store, root) ==
    LET torn  == {i \in DOMAIN journal : journal[i].kind = "torn"}
        about == {i \in DOMAIN journal : /\ \A t \in torn : i < t
                                         /\ journal[i].store = store
                                         /\ root \in journal[i].roots}
    IN IF about = {} THEN None
       ELSE journal[CHOOSE i \in about : \A j \in about : j <= i].receipt

\* loadReceiptPayload: a prior that is a git receipt of this store.
Usable(prior) == prior.kind = "git" /\ prior \in blobs[Store]

CaptureProtocol ==
    LET prior == findPriorReceipt(Store, Root)
    IN /\ pc = "roots" /\ run.roots # <<>> /\ Root \in GitRoots
       /\ \/ /\ Usable(prior)
             /\ run' = [run EXCEPT !.prior = prior] /\ pc' = "list"
             /\ UNCHANGED faults
          \/ /\ IF Usable(prior) THEN Faulty(1) ELSE UNCHANGED faults
             /\ pc' = "clone" /\ UNCHANGED run
       /\ UNCHANGED <<tip, blobs, journal, logged, spills, told, lastExit, runs, pushes>>

\* The root failed: reported, and the next root is captured.
ProtocolFails ==
    LET f == Failure(Root, Root, "plugin")
    IN run' = NextRoot(Failing(f)) /\ Tell(f) /\ pc' = "roots"

listRemoteTip ==
    /\ pc = "list"
    /\ \/ /\ CallFails /\ ProtocolFails
       \/ /\ IF tip = run.prior.tip
             THEN /\ run' = [run EXCEPT !.live = tip, !.objects = run.prior.objects]
                  /\ pc' = "payload"
             ELSE run' = [run EXCEPT !.live = tip] /\ pc' = "fetch"
          /\ UNCHANGED <<told, faults>>
    /\ UNCHANGED <<tip, blobs, journal, logged, spills, lastExit, runs, pushes>>

\* The live tip is not looked up among what was fetched.
isFastForwardUnfetched(prior, live, held) == prior.tip \in History[live]

\* The prior tip is an ancestor of the live one, and both are held.
isFastForward(prior, live, held) == live \in held /\ prior.tip \in History[live]

\* What a fast-forward adds to the prior objects, walked in what is held.
Delta(prior, live, held) == (History[live] \cap held) \ History[prior.tip]

\* What the seeded storer holds after the fetch: the prior objects and the branch as it is
\* by then.
Seeded(prior) == prior.objects \cup History[tip]

\* The storer is seeded with the prior objects, where a blob that cannot be read fails the
\* root; a failed fetch and a branch that is no fast-forward are left to a full clone.
fetchBranchInto ==
    /\ pc = "fetch"
    /\ \/ /\ CallFails
          /\ pc' = "clone" /\ UNCHANGED <<run, told>>
       \/ /\ Faulty(1) /\ ProtocolFails
       \/ /\ IF isFastForward(run.prior, run.live, Seeded(run.prior))
             THEN LET delta == Delta(run.prior, run.live, Seeded(run.prior))
                  IN /\ run' = [run EXCEPT !.delta = delta,
                                           !.objects = run.prior.objects \cup delta]
                     /\ pc' = "objects"
             ELSE pc' = "clone" /\ UNCHANGED run
          /\ UNCHANGED <<told, faults>>
    /\ UNCHANGED <<tip, blobs, journal, logged, spills, lastExit, runs, pushes>>

cloneBranchToMemory ==
    /\ pc = "clone"
    /\ \/ /\ CallFails /\ ProtocolFails
       \/ /\ run' = [run EXCEPT !.live = tip, !.objects = History[tip], !.delta = History[tip]]
          /\ pc' = "objects"
          /\ UNCHANGED <<told, faults>>
    /\ UNCHANGED <<tip, blobs, journal, logged, spills, lastExit, runs, pushes>>

\* storeAllObjects, storeDeltaObjects; a failed write leaves what was written before it.
StoreObjects ==
    /\ pc = "objects"
    /\ \/ /\ CallFails /\ ProtocolFails
          /\ \E d \in SUBSET run.delta : d # run.delta /\ Put({Object(c) : c \in d})
       \/ /\ Put({Object(c) : c \in run.delta})
          /\ pc' = "payload"
          /\ UNCHANGED <<run, told, faults>>
    /\ UNCHANGED <<tip, journal, logged, spills, lastExit, runs, pushes>>

writeGitReceipt ==
    LET r == GitReceipt(run.live, run.objects)
    IN /\ pc = "payload"
       /\ \/ /\ CallFails /\ ProtocolFails /\ UNCHANGED blobs
          \/ /\ Put({r})
             /\ run' = [NextRoot(run) EXCEPT !.protocolReceipts = @ + 1,
                                             !.lines = Append(@, LogLine(r, Store, {Root}))]
             /\ pc' = "roots"
             /\ UNCHANGED <<told, faults>>
       /\ UNCHANGED <<tip, journal, logged, spills, lastExit, runs, pushes>>

(***************************************************************************)
(* The group's receipts.                                                   *)
(***************************************************************************)

\* The entries of a single root are recorded under ".".
Collapsed ==
    IF run.entryRoots = 1 THEN {[e EXCEPT !.root = "."] : e \in run.entries}
    ELSE run.entries

\* The line lists every root of the group, those with receipts of their own included.
GroupLine(receipt) == LogLine(receipt, Store, RootsOf(run.group))

WriteReceipt ==
    LET f == Failure("", "(receipt)", "receipt")
        r == FsReceipt(Collapsed)
    IN /\ pc = "roots" /\ run.roots = <<>>
       /\ \/ /\ run.entries = {}
             /\ UNCHANGED <<run, blobs, told, faults>>
          \/ /\ run.entries # {}
             /\ Put({r})
             /\ run' = [run EXCEPT !.receipt = r, !.lines = Append(@, GroupLine(r)),
                                   !.logIdx = Len(run.lines) + 1]
             /\ UNCHANGED <<told, faults>>
          \/ /\ run.entries # {} /\ Faulty(1)
             /\ run' = Failing(f) /\ Tell(f)
             /\ UNCHANGED blobs
       /\ pc' = "failures"
       /\ UNCHANGED <<tip, journal, logged, spills, lastExit, runs, pushes>>

buildFailureReceipt ==
    [kind |-> "failures", outcome |-> IF run.aborted THEN "aborted" ELSE "failures",
     receipt |-> run.receipt, roots |-> RootsOf(run.group),
     captured |-> Cardinality(run.entries), failures |-> run.failures]

\* The last line is taken for the group's.
AnnotatedLast(v, id) ==
    IF run.lines = <<>>
    THEN Append(run.lines, [GroupLine(None) EXCEPT !.outcome = v.outcome, !.failures = id])
    ELSE [run.lines EXCEPT ![Len(run.lines)].outcome = v.outcome,
                           ![Len(run.lines)].failures = id]

\* The journal lines once the failure receipt v was written with this id (None: spilled).
Annotated(v, id) ==
    IF run.logIdx > 0
    THEN [run.lines EXCEPT ![run.logIdx].outcome = v.outcome, ![run.logIdx].failures = id]
    ELSE IF id = None THEN run.lines
    ELSE Append(run.lines, [GroupLine(None) EXCEPT !.outcome = v.outcome, !.failures = id])

Filed(where, v) ==
    told' = told \cup {[group |-> run.number, what |-> v, where |-> where]}

\* spillFailureReceipt: the first free suffix, with O_EXCL.
Spilled(v) == Append(spills, v)

SpillFull == Len(spills) > MaxSpillSuffix

\* Nothing to record; or the failure receipt goes to the store, or to the spill, or is
\* lost with a notice.
RecordFailures ==
    LET v == buildFailureReceipt
        none == run.failures = {} /\ ~run.aborted
    IN /\ pc = "failures"
       /\ \/ /\ none
             /\ UNCHANGED <<blobs, spills, run, told, faults>>
          \/ /\ ~none
             /\ Put({v}) /\ Filed("store", v)
             /\ run' = [run EXCEPT !.lines = Annotated(v, v)]
             /\ UNCHANGED <<spills, faults>>
          \/ /\ ~none /\ Faulty(1) /\ ~SpillFull
             /\ spills' = Spilled(v) /\ Filed("spill", v)
             /\ run' = [run EXCEPT !.lines = Annotated(v, None)]
             /\ UNCHANGED blobs
          \/ /\ ~none /\ IF SpillFull THEN Faulty(1) ELSE Faulty(2)
             /\ Filed("lost", v)
             /\ UNCHANGED <<blobs, spills, run>>
       /\ pc' = "groups"
       /\ UNCHANGED <<tip, journal, logged, lastExit, runs, pushes>>

(***************************************************************************)
(* The end of the run, and what happens around it.                         *)
(***************************************************************************)

\* appendCaptureLog; a failed write leaves the lines before it, and perhaps part of one.
AppendLog(lines) ==
    \/ journal' = journal \o lines /\ logged' = TRUE /\ UNCHANGED faults
    \/ /\ lines # <<>> /\ Faulty(1) /\ logged' = FALSE
       /\ \E n \in 0..(Len(lines) - 1), torn \in {<<>>, <<Torn>>} :
             journal' = journal \o SubSeq(lines, 1, n) \o torn

Finish ==
    /\ pc = "groups" /\ run.groups = <<>>
    /\ AppendLog(run.lines)
    /\ lastExit' = IF run.failCount > 0 \/ run.aborted THEN "failed" ELSE "ok"
    /\ pc' = "ended" /\ UNCHANGED <<run, told>>
    /\ UNCHANGED <<tip, blobs, spills, runs, pushes>>

Exit ==
    /\ pc = "ended"
    /\ pc' = "idle" /\ run' = NoRun /\ told' = {} /\ logged' = TRUE
    /\ UNCHANGED <<tip, blobs, journal, spills, lastExit, runs, pushes, faults>>

Signal ==
    /\ pc \notin {"idle", "ended"} /\ ~run.aborted
    /\ run' = [run EXCEPT !.aborted = TRUE]
    /\ UNCHANGED <<tip, blobs, journal, logged, spills, pc, told, lastExit, runs, pushes, faults>>

\* The process is killed, or a cancelled context unwinds it: what it held is gone.
Crash ==
    /\ pc \notin {"idle", "ended"}
    /\ pc' = "idle" /\ run' = NoRun /\ told' = {}
    /\ UNCHANGED <<tip, blobs, journal, logged, spills, lastExit, runs, pushes, faults>>

Push ==
    /\ pushes < MaxPushes /\ pushes' = pushes + 1
    /\ tip' \in Commits \ {tip}
    /\ UNCHANGED <<blobs, journal, logged, spills, pc, run, told, lastExit, runs, faults>>

Next ==
    \/ \E args \in ArgLists : Start(args)
    \/ planCapture \/ PlanEnd
    \/ BeginGroup
    \/ CaptureRoot \/ WalkEntry \/ WalkDone
    \/ CaptureProtocol \/ listRemoteTip \/ fetchBranchInto \/ cloneBranchToMemory
    \/ StoreObjects \/ writeGitReceipt
    \/ WriteReceipt \/ RecordFailures
    \/ Finish \/ Exit \/ Signal \/ Crash \/ Push

Spec == Init /\ [][Next]_vars

(***************************************************************************)
(* Properties.                                                             *)
(***************************************************************************)
TypeOK ==
    /\ tip \in Commits
    /\ \A s \in Stores : \A b \in blobs[s] :
          b.kind \in {"file", "object", "fs", "git", "failures"}
    /\ \A i \in DOMAIN journal : journal[i].kind \in {"line", "torn"}
    /\ logged \in BOOLEAN
    /\ Len(spills) <= MaxSpillSuffix + 1
    /\ pc \in {"idle", "plan", "groups", "roots", "walk", "list", "fetch", "clone", "objects",
               "payload", "failures", "ended"}
    /\ \A t \in told : t.where \in {"events", "store", "spill", "lost"}
    /\ run.logIdx \in 0..Len(run.lines)
    /\ pc # "plan" => run.number + Len(run.groups) = Len(run.plan)
    /\ lastExit \in {"none", "ok", "failed", "usage"}
    /\ runs \in 0..MaxRuns /\ pushes \in 0..MaxPushes /\ faults \in 0..MaxFaults

\* Whatever was pushed, signalled or killed while it was made, a receipt in a store is whole:
\* a git receipt lists exactly the objects reachable from its tip, as a full clone would
\* (0006-git-plugin.md: an incremental re-capture is byte-identical to a full one), every
\* object and file it names is in the same store, and no two entries share a root and path.
ReceiptsComplete ==
    \A s \in Stores : \A r \in blobs[s] :
        /\ r.kind = "git" => /\ r.objects = History[r.tip]
                             /\ \A c \in r.objects : Object(c) \in blobs[s]
        /\ r.kind = "fs" =>
              /\ \A e \in r.entries : e.blob = None \/ e.blob \in blobs[s]
              /\ \A e, f \in r.entries : e.root = f.root /\ e.path = f.path => e = f

\* Every line of captures.log leads somewhere, whenever the process dies: its receipts are
\* in the store it names, and the failure receipt is the one of the same receipt, roots and
\* outcome; a line without a receipt has a failure receipt.
JournalSound ==
    \A i \in DOMAIN journal :
        LET l == journal[i]
        IN l.kind = "line" =>
              /\ l.receipt # None => l.receipt \in blobs[l.store]
              /\ l.receipt = None => l.failures # None
              /\ l.failures # None =>
                    /\ l.failures \in blobs[l.store]
                    /\ l.failures.receipt = l.receipt
                    /\ l.failures.roots = l.roots /\ l.failures.outcome = l.outcome

Reported(g) == {t \in told : t.group = g /\ t.where = "events"}
FiledOf(g)  == {t \in told : t.group = g /\ t.where # "events"}
Lost(g)     == \E u \in FiledOf(g) : u.where = "lost"

\* The failure receipt u of group g is where the report says.
InPlace(g, u) ==
    \/ u.where = "store" /\ u.what \in blobs[run.plan[g].store]
    \/ u.where = "spill" /\ \E i \in DOMAIN spills : spills[i] = u.what

\* Once its group is over, a failure that was reported is in the failure receipt reported
\* for the group, and that receipt is in place, unless neither the store nor the spill
\* would take it, of which there is a notice.  Then the exit code is all that is left: an
\* invocation that reported anything does not exit well.
FailuresFiled ==
    pc \in {"groups", "ended"} =>
       /\ \A g \in 1..run.number : \A t \in Reported(g) :
              Lost(g) \/ \E u \in FiledOf(g) : t.what \in u.what.failures /\ InPlace(g, u)
       /\ run.failCount > 0 <=> \E t \in told : t.where = "events"
       /\ pc = "ended" /\ lastExit = "ok" => told = {}

\* The journal's lines of this invocation.
NewLines == {i \in DOMAIN journal : i > Len(journal) - Len(run.lines)}

\* The lines an invocation appended to captures.log lead to each failure receipt it stored
\* (capture.go: "so the log still leads triage to the failure receipt"), and the line of a
\* receipt tells how its group went also when the failure receipt was spilled.
LinesLeadToFailures ==
    pc = "ended" /\ logged =>
        \A g \in DOMAIN run.plan : \A u \in FiledOf(g) :
            u.where = "store" \/ (u.where = "spill" /\ u.what.receipt # None) =>
                \E i \in NewLines :
                    /\ journal[i].kind = "line"
                    /\ journal[i].store = run.plan[g].store
                    /\ journal[i].roots = RootsOf(run.plan[g])
                    /\ journal[i].receipt = u.what.receipt
                    /\ journal[i].outcome = u.what.outcome
                    /\ u.where = "store" => journal[i].failures = u.what

\* A failure that was reported reaches the failure receipt, the exit code and the journal
\* (RecordFailures, Finish), whatever else fails in between; where the failure receipt or
\* the journal cannot be written there is a notice, and the exit code still tells.
FailuresAccounted == FailuresFiled /\ LinesLeadToFailures

\* What a command line asks for: each root, in the store named last before it.
StoreAt(args, i) ==
    LET named == {j \in 1..(i - 1) : args[j].kind = "store"}
    IN IF named = {} THEN DefaultStore
       ELSE args[CHOOSE j \in named : \A k \in named : k <= j].name

Asked(args) ==
    LET roots == {i \in DOMAIN args : args[i].kind = "root"}
    IN IF roots = {} THEN {<<StoreAt(args, Len(args) + 1), Pwd>>}
       ELSE {<<StoreAt(args, i), args[i].name>> : i \in roots}

\* An invocation that exits well has captured all that its arguments ask for: every git
\* root has a receipt of its own, every directory is in a receipt with all its files, in
\* the store named before it.
OkMeansCaptured ==
    pc = "ended" /\ lastExit = "ok" =>
        \A a \in Asked(run.args) :
            \E l \in ToSet(run.lines) :
                /\ l.store = a[1] /\ a[2] \in l.roots /\ l.receipt \in blobs[a[1]]
                /\ a[2] \in GitRoots => l.receipt.kind = "git"
                /\ a[2] \in FileRoots =>
                      /\ l.receipt.kind = "fs"
                      /\ \A i \in 2..Len(Tree[a[2]]) :
                            \E e \in l.receipt.entries : e.blob = FileBlob(a[2], Tree[a[2]][i])

\* 0006-git-plugin.md: "When the orchestrator finds a prior receipt for the same
\* git:...#branch in captures.log, it passes it to the plugin, which re-captures
\* incrementally instead of re-cloning".
PriorIsFound ==
    pc = "clone" /\ run.prior = None =>
        ~ \E i \in DOMAIN journal : /\ journal[i].kind = "line"
                                    /\ journal[i].store = Store
                                    /\ Root \in journal[i].roots
                                    /\ journal[i].receipt.kind = "git"

\* capture_log.go: "Outcome is "" for a clean capture": so does the line of a receipt whose
\* failure receipt was lost (capture.go:796), although its group had failures.
EmptyOutcomeIsClean ==
    pc = "ended" /\ logged =>
        \A g \in DOMAIN run.plan : \A u \in FiledOf(g) : \A i \in NewLines :
            /\ journal[i].kind = "line" /\ journal[i].receipt = u.what.receipt
            /\ journal[i].roots = RootsOf(run.plan[g])
            => journal[i].outcome # ""

=============================================================================
