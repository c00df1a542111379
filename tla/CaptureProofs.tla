---------------------------- MODULE CaptureProofs ----------------------------
(***************************************************************************)
(* Proofs about the capture command (Capture): what a store, the journal   *)
(* and the reports of an invocation hold, for every tree, history, command *)
(* line and bound.                                                         *)
(***************************************************************************)
EXTENDS Capture, SequenceTheorems, TLAPS

(***************************************************************************)
(* The process's memory as a record.                                       *)
(***************************************************************************)
Fields ==
    {"args", "todo", "current", "plan", "groups", "group", "number", "roots", "carry",
     "failures", "entries", "entryRoots", "protocolReceipts", "walk", "prior", "live",
     "objects", "delta", "receipt", "logIdx", "lines", "failCount", "aborted"}

RunShape == run = [f \in Fields |-> run[f]]

\* The step leaves these fields alone.
Keeps(F) == \A f \in F : run'[f] = run[f]

(***************************************************************************)
(* The inductive invariant.                                                *)
(***************************************************************************)
GroupType == [store : Stores, roots : Seq(Roots)]

InGroup ==
    pc \in {"roots", "walk", "list", "fetch", "clone", "objects", "payload", "failures"}

\* The remote, the stores, the journal and the counters.
WorldTyped ==
    /\ tip \in Commits
    /\ blobs = [s \in Stores |-> blobs[s]]
    /\ journal \in Seq(ToSet(journal)) /\ spills \in Seq(ToSet(spills))
    /\ pc \in {"idle", "plan", "groups", "roots", "walk", "list", "fetch", "clone",
               "objects", "payload", "failures", "ended"}

\* The fields of the process's memory that planning and the group loop use.
MemoryTyped ==
    /\ RunShape
    /\ run.args \in Seq(Args) /\ run.todo \in Seq(Args)
    /\ run.current \in GroupType /\ run.group \in GroupType
    /\ run.plan \in Seq(GroupType) /\ run.groups \in Seq(GroupType)
    /\ run.roots \in Seq(Roots) /\ run.walk \in Seq(STRING)
    /\ run.number \in Nat /\ run.entryRoots \in Nat /\ run.failCount \in Nat
    /\ run.aborted \in BOOLEAN
    /\ run.lines \in Seq(ToSet(run.lines))

\* The group loop: the groups left are the rest of the plan.
Loop ==
    /\ pc = "idle" => run = NoRun /\ told = {}
    /\ pc = "plan" => /\ run.groups = <<>> /\ run.number = 0 /\ run.lines = <<>>
                      /\ run.failures = {} /\ told = {}
    /\ pc # "plan" => /\ run.number + Len(run.groups) = Len(run.plan)
                      /\ \A i \in 1..Len(run.groups) :
                            run.groups[i] = run.plan[run.number + i]
                      /\ run.number > 0 => run.group = run.plan[run.number]
    /\ InGroup => run.number > 0
    /\ pc = "ended" => run.groups = <<>>

\* Which root is being captured, and by which plugin.
RootPhase ==
    /\ pc = "walk" => run.roots # <<>> /\ Root \in FileRoots
    /\ pc \in {"list", "fetch", "clone", "objects", "payload"} =>
          run.roots # <<>> /\ Root \in GitRoots
    /\ pc = "failures" => run.roots = <<>>

\* An entry is determined by its root and name, and its file is stored.  The entries of one
\* root are recorded under ".", so they must all be of that root.
EntriesSound ==
    /\ \A e \in run.entries :
          /\ e.root \in FileRoots /\ e = Entry(e.root, e.path)
          /\ e.blob = None \/ e.blob \in blobs[Store]
    /\ run.entryRoots = 0 /\ pc # "walk" => run.entries = {}
    /\ run.entryRoots = 0 /\ pc = "walk" => \A e \in run.entries : e.root = Root
    /\ run.entryRoots = 1 /\ pc # "walk" => \A e, f \in run.entries : e.root = f.root

\* What the git plugin holds on its way to a receipt.
GitSound ==
    /\ pc \in {"list", "fetch"} => run.prior.kind = "git" /\ run.prior \in blobs[Store]
    /\ pc = "fetch" => run.live \in Commits
    /\ pc \in {"objects", "payload"} =>
          run.live \in Commits /\ run.objects = History[run.live]
    /\ pc = "objects" => \A c \in run.objects \ run.delta : Object(c) \in blobs[Store]
    /\ pc = "payload" => \A c \in run.objects : Object(c) \in blobs[Store]

\* A journal line leads to what its store holds.
LineSound(l) ==
    /\ l.kind = "line" /\ l.store \in Stores
    /\ l.receipt # None => l.receipt \in blobs[l.store]
    /\ l.receipt = None => l.failures # None
    /\ l.failures # None =>
          /\ l.failures \in blobs[l.store]
          /\ l.failures.receipt = l.receipt
          /\ l.failures.roots = l.roots /\ l.failures.outcome = l.outcome

\* The journal's lines are, except where a write stopped in the middle of one.
JournalLines == \A l \in ToSet(journal) : l = Torn \/ LineSound(l)

\* The lines to be journalled are sound, and logIdx is the one of the group's receipt.
LinesSound ==
    /\ \A l \in ToSet(run.lines) : LineSound(l)
    /\ run.logIdx \in 0..Len(run.lines)
    /\ InGroup /\ pc # "failures" => run.logIdx = 0 /\ run.receipt = None
    /\ pc = "failures" =>
          IF run.logIdx = 0 THEN run.receipt = None
          ELSE /\ run.lines[run.logIdx] = GroupLine(run.receipt)
               /\ run.receipt \in blobs[Store] /\ run.receipt.kind = "fs"

\* A reported failure is on its way to a failure receipt, or there.
FailuresHeld ==
    /\ pc # "plan" =>
          \A t \in told :
             /\ t.where \in {"events", "store", "spill", "lost"}
             /\ t.group \in Nat /\ t.group > 0
             /\ t.where = "events" =>
                   IF run.number = 0 THEN t.group = 1 /\ t.what \in run.carry
                   ELSE t.group <= run.number
    /\ pc # "plan" => (run.failCount > 0 <=> \E t \in told : t.where = "events")
    /\ pc = "plan" => (run.failCount > 0 <=> run.carry # {})
    /\ InGroup => \A t \in Reported(run.number) : t.what \in run.failures

\* The groups that are over.
Over == {g \in 1..run.number : g < run.number \/ ~InGroup}

FailuresFiledSoFar ==
    pc # "plan" =>
       /\ \A t \in told : t.where # "events" =>
             /\ t.group \in Over
             /\ t.where = "store" => t.what \in blobs[run.plan[t.group].store]
             /\ t.where = "spill" => \E i \in DOMAIN spills : spills[i] = t.what
             /\ t.what.outcome \in {"failures", "aborted"}
       /\ \A g \in Over : \A t \in Reported(g) :
             \E u \in FiledOf(g) : t.what \in u.what.failures

\* The line l leads to what u says was filed for a group with this store and these roots.
LeadsTo(l, u, group) ==
    /\ l.store = group.store /\ l.roots = RootsOf(group)
    /\ l.receipt = u.what.receipt /\ l.outcome = u.what.outcome
    /\ u.where = "store" => l.failures = u.what

LinesLead ==
    pc # "plan" =>
       \A u \in told :
          u.where = "store" \/ (u.where = "spill" /\ u.what.receipt # None) =>
             \E l \in ToSet(run.lines) : LeadsTo(l, u, run.plan[u.group])

\* How far planning has come: each root met is in the plan, in the store named before it.
Met == Len(run.args) - Len(run.todo)

InPlan(store, root) ==
    \/ \E g \in 1..Len(run.plan) : run.plan[g].store = store /\ root \in RootsOf(run.plan[g])
    \/ run.current.store = store /\ root \in RootsOf(run.current)

PlanSound ==
    pc = "plan" =>
       IF ImplicitRoot(run.args)
       THEN /\ run.todo = <<>> /\ run.plan = <<>>
            /\ run.current = Group(StoreAt(run.args, Len(run.args) + 1), <<Pwd>>)
       ELSE /\ Met \in 0..Len(run.args)
            /\ \A j \in 1..Len(run.todo) : run.todo[j] = run.args[Met + j]
            /\ run.current.store = StoreAt(run.args, Met + 1)
            /\ \A i \in 1..Met :
                  run.args[i].kind = "root" =>
                     InPlan(StoreAt(run.args, i), run.args[i].name)
            /\ (\A i \in 1..Met : run.args[i].kind # "root") =>
                  run.current.roots = <<>> /\ run.plan = <<>>
            /\ run.failCount = 0 => \A i \in 1..Met : run.args[i].kind \in {"root", "store"}

\* Without a failure, the plan is what was asked for.
PlanCovers ==
    pc \notin {"idle", "plan"} /\ run.failCount = 0 =>
       \A a \in Asked(run.args) :
          \E g \in 1..Len(run.plan) :
             run.plan[g].store = a[1] /\ a[2] \in RootsOf(run.plan[g])

\* Nothing has gone wrong so far.
Clean == run.failCount = 0 /\ ~run.aborted

Captures(l, s, r) ==
    /\ l.store = s /\ r \in l.roots /\ l.receipt \in blobs[s]
    /\ r \in GitRoots => l.receipt.kind = "git"
    /\ r \in FileRoots =>
          /\ l.receipt.kind = "fs"
          /\ \A i \in 2..Len(Tree[r]) :
                \E e \in l.receipt.entries : e.blob = FileBlob(r, Tree[r][i])

Captured(s, r) == \E l \in ToSet(run.lines) : Captures(l, s, r)

\* The first n names of the directory's walk are among the entries.
Walked(r, n) ==
    /\ n > 0 => run.entries # {}
    /\ \A i \in 2..n : \E e \in run.entries : e.blob = FileBlob(r, Tree[r][i])

Steps == Len(Tree[Root]) - Len(run.walk)
Done  == Len(run.group.roots) - Len(run.roots)

GroupsCaptured ==
    \A g \in Over : \A r \in RootsOf(run.plan[g]) : Captured(run.plan[g].store, r)

\* The roots left are the rest of the group's, and the names left the rest of the tree.
RootsLeft ==
    /\ Done \in 0..Len(run.group.roots)
    /\ \A j \in 1..Len(run.roots) : run.roots[j] = run.group.roots[Done + j]

NamesLeft ==
    /\ Steps \in 0..Len(Tree[Root])
    /\ \A j \in 1..Len(run.walk) : run.walk[j] = Tree[Root][Steps + j]

RootCaptured(r) ==
    /\ r \in GitRoots => Captured(Store, r)
    /\ r \in FileRoots => IF pc = "failures" THEN Captured(Store, r)
                          ELSE Walked(r, Len(Tree[r]))

RootsCaptured == \A i \in 1..Done : RootCaptured(run.group.roots[i])

\* Without a failure, every root is captured before the next one.
CaptureSound ==
    Clean =>
       /\ run.failures = {} /\ run.carry = {}
       /\ GroupsCaptured
       /\ InGroup => RootsLeft /\ RootsCaptured
       /\ pc = "walk" => NamesLeft /\ Walked(Root, Steps)

EndSound == pc = "ended" /\ lastExit = "ok" => Clean

IInv ==
    /\ WorldTyped /\ MemoryTyped /\ Loop /\ RootPhase
    /\ ReceiptsComplete /\ EntriesSound /\ GitSound
    /\ JournalLines /\ LinesSound
    /\ FailuresHeld /\ FailuresFiledSoFar /\ LinesLead
    /\ PlanSound /\ PlanCovers /\ CaptureSound /\ EndSound

\* The fields of an empty memory.
LEMMA NoRunFields ==
    /\ NoRun = [f \in Fields |-> NoRun[f]]
    /\ NoRun.args = <<>> /\ NoRun.todo = <<>> /\ NoRun.plan = <<>> /\ NoRun.groups = <<>>
    /\ NoRun.current = Group(DefaultStore, <<>>) /\ NoRun.group = Group(DefaultStore, <<>>)
    /\ NoRun.number = 0 /\ NoRun.roots = <<>> /\ NoRun.carry = {} /\ NoRun.failures = {}
    /\ NoRun.entries = {} /\ NoRun.entryRoots = 0 /\ NoRun.walk = <<>> /\ NoRun.prior = None
    /\ NoRun.live = "" /\ NoRun.objects = {} /\ NoRun.delta = {} /\ NoRun.receipt = None
    /\ NoRun.logIdx = 0 /\ NoRun.lines = <<>> /\ NoRun.failCount = 0
BY DEF NoRun, Fields

LEMMA NoRunGoesOn == NoRun.aborted \in BOOLEAN /\ ~NoRun.aborted
BY DEF NoRun

\* What planning one argument writes.
LEMMA PlanCaptureFields ==
    ASSUME RunShape, planCapture, pc' = "plan"
    PROVE  /\ RunShape'
           /\ Keeps(Fields \ {"todo", "carry", "failCount", "current", "plan"})
           /\ run'.todo = Tail(run.todo)
BY DEF planCapture, PlanFails, RunShape, Keeps, Fields, Flush

\* Planning ends, and its failures are reported.
LEMMA PlanEndFields ==
    ASSUME RunShape, PlanEnd, pc' = "groups"
    PROVE  /\ RunShape'
           /\ Keeps(Fields \ {"current", "plan", "groups"})
           /\ run'.current = Group(DefaultStore, <<>>)
           /\ run'.groups = run'.plan
           /\ run'.plan = IF run.current.roots # <<>> THEN Append(run.plan, run.current)
                          ELSE run.plan
<1> DEFINE r == IF run.current.roots # <<>> THEN Flush(run) ELSE run
<1>1. /\ run' = [r EXCEPT !.groups = r.plan, !.current = Group(DefaultStore, <<>>)]
      /\ run.current.roots # <<>> => r = Flush(run)
  BY DEF PlanEnd, PlanFails, Planned
<1>2. /\ r = [f \in Fields |-> r[f]]
      /\ \A f \in Fields \ {"plan"} : r[f] = run[f]
      /\ r.plan = IF run.current.roots # <<>> THEN Append(run.plan, run.current)
                  ELSE run.plan
  BY DEF Flush, RunShape, Fields
<1> HIDE DEF r
<1> QED BY <1>1, <1>2 DEF RunShape, Keeps, Fields

LEMMA BeginGroupFields ==
    ASSUME RunShape, BeginGroup
    PROVE  /\ RunShape'
           /\ Keeps({"args", "todo", "current", "plan", "walk", "prior", "live", "objects",
                     "delta", "lines", "failCount", "aborted"})
           /\ run'.group = Head(run.groups) /\ run'.groups = Tail(run.groups)
           /\ run'.number = run.number + 1 /\ run'.roots = Head(run.groups).roots
           /\ run'.failures = run.carry /\ run'.carry = {}
           /\ run'.entries = {} /\ run'.entryRoots = 0
           /\ run'.receipt = None /\ run'.logIdx = 0
BY DEF BeginGroup, Carried, RunShape, Keeps, Fields

\* What dropping the root's memory leaves alone.
RootFields == {"roots", "walk", "prior", "live", "objects", "delta"}

LEMMA CaptureRootFields ==
    ASSUME RunShape, CaptureRoot
    PROVE  RunShape' /\ Keeps(Fields \ {"walk"}) /\ run'.walk = Tree[Root]
BY DEF CaptureRoot, RunShape, Keeps, Fields

\* The entry's name: what WalkEntry is called with.
Name == Head(run.walk)

LEMMA WalkEntryFields ==
    ASSUME RunShape, WalkEntry
    PROVE  /\ RunShape'
           /\ Keeps(Fields \ {"failures", "failCount", "walk", "entries"})
           /\ \/ /\ run.aborted
                 /\ LET g == Failure(Root, Root, "walk")
                    IN /\ run'.failures = run.failures \cup {g} /\ Tell(g)
                 /\ run'.failCount = run.failCount + 1 /\ run'.walk = <<>>
                 /\ run'.entries = run.entries
              \/ /\ ~run.aborted
                 /\ run'.failures = run.failures /\ run'.failCount = run.failCount
                 /\ run'.walk = Tail(run.walk)
                 /\ run'.entries = run.entries \cup {Entry(Root, Name)}
                 /\ told' = told
              \/ /\ ~run.aborted
                 /\ LET f == Failure(Root, Name, "walk")
                    IN /\ run'.failures = run.failures \cup {f} /\ Tell(f)
                 /\ run'.failCount = run.failCount + 1
                 /\ run'.walk = <<>> \/ run'.walk = Tail(run.walk)
                 /\ run'.entries = run.entries
BY DEF WalkEntry, Failing, Name, RunShape, Keeps, Fields

LEMMA WalkDoneFields ==
    ASSUME RunShape, WalkDone
    PROVE  /\ RunShape' /\ Keeps(Fields \ (RootFields \cup {"entryRoots"}))
           /\ run'.roots = Tail(run.roots) /\ run'.walk = <<>>
           /\ run'.entryRoots = run.entryRoots + 1
BY DEF WalkDone, NextRoot, RunShape, Keeps, Fields, RootFields

LEMMA CaptureProtocolFields ==
    ASSUME RunShape, CaptureProtocol
    PROVE  /\ RunShape' /\ Keeps(Fields \ {"prior"})
           /\ pc' = "list" => Usable(run'.prior)
BY DEF CaptureProtocol, RunShape, Keeps, Fields, Usable, Store

\* A git root that fails, whichever step of it does.
LEMMA ProtocolFailsFields ==
    ASSUME RunShape, ProtocolFails
    PROVE  /\ RunShape'
           /\ Keeps(Fields \ (RootFields \cup {"failures", "failCount"}))
           /\ run'.roots = Tail(run.roots) /\ run'.walk = <<>>
           /\ run'.failures = run.failures \cup {Failure(Root, Root, "plugin")}
           /\ run'.failCount = run.failCount + 1
           /\ Tell(Failure(Root, Root, "plugin")) /\ pc' = "roots"
BY DEF ProtocolFails, NextRoot, Failing, RunShape, Keeps, Fields, RootFields

LEMMA ListFields ==
    ASSUME RunShape, listRemoteTip, ~ProtocolFails
    PROVE  /\ RunShape' /\ Keeps(Fields \ {"live", "objects"})
           /\ run'.live = tip
           /\ \/ /\ tip = run.prior.tip /\ run'.objects = run.prior.objects
                 /\ pc' = "payload"
              \/ pc' = "fetch"
           /\ told' = told
BY DEF listRemoteTip, RunShape, Keeps, Fields

LEMMA FetchFields ==
    ASSUME RunShape, fetchBranchInto, ~ProtocolFails
    PROVE  /\ RunShape' /\ Keeps(Fields \ {"delta", "objects"})
           /\ \/ /\ isFastForward(run.prior, run.live, Seeded(run.prior))
                 /\ run'.delta = Delta(run.prior, run.live, Seeded(run.prior))
                 /\ run'.objects = run.prior.objects \cup run'.delta
                 /\ pc' = "objects"
              \/ pc' = "clone"
           /\ told' = told
BY DEF fetchBranchInto, RunShape, Keeps, Fields

LEMMA CloneFields ==
    ASSUME RunShape, cloneBranchToMemory, ~ProtocolFails
    PROVE  /\ RunShape' /\ Keeps(Fields \ {"live", "delta", "objects"})
           /\ run'.live = tip /\ run'.objects = History[tip] /\ run'.delta = History[tip]
           /\ pc' = "objects" /\ told' = told
BY DEF cloneBranchToMemory, RunShape, Keeps, Fields

LEMMA WriteGitFields ==
    ASSUME RunShape, writeGitReceipt, ~ProtocolFails
    PROVE  /\ RunShape'
           /\ Keeps(Fields \ (RootFields \cup {"protocolReceipts", "lines"}))
           /\ run'.roots = Tail(run.roots) /\ run'.walk = <<>>
           /\ run'.lines = Append(run.lines, LogLine(GitReceipt(run.live, run.objects),
                                                     Store, {Root}))
           /\ Put({GitReceipt(run.live, run.objects)})
           /\ pc' = "roots" /\ told' = told
BY DEF writeGitReceipt, NextRoot, RunShape, Keeps, Fields, RootFields

LEMMA WriteReceiptFields ==
    ASSUME RunShape, WriteReceipt
    PROVE  /\ RunShape'
           /\ Keeps(Fields \ {"receipt", "lines", "logIdx", "failures", "failCount"})
           /\ \/ run.entries = {} /\ UNCHANGED <<run, told, blobs>>
              \/ /\ run.entries # {} /\ Put({FsReceipt(Collapsed)})
                 /\ run'.receipt = FsReceipt(Collapsed)
                 /\ run'.lines = Append(run.lines, GroupLine(FsReceipt(Collapsed)))
                 /\ run'.logIdx = Len(run.lines) + 1
                 /\ run'.failures = run.failures /\ run'.failCount = run.failCount
                 /\ told' = told
              \/ /\ run.entries # {}
                 /\ run'.receipt = run.receipt /\ run'.lines = run.lines
                 /\ run'.logIdx = run.logIdx
                 /\ run'.failures = run.failures \cup {Failure("", "(receipt)", "receipt")}
                 /\ run'.failCount = run.failCount + 1
                 /\ Tell(Failure("", "(receipt)", "receipt")) /\ blobs' = blobs
BY DEF WriteReceipt, Failing, RunShape, Keeps, Fields

LEMMA RecordFailuresFields ==
    ASSUME RunShape, RecordFailures
    PROVE  /\ RunShape' /\ Keeps(Fields \ {"lines"})
           /\ \/ /\ run.failures = {} /\ ~run.aborted
                 /\ run'.lines = run.lines /\ UNCHANGED <<blobs, spills, told>>
              \/ /\ Put({buildFailureReceipt}) /\ Filed("store", buildFailureReceipt)
                 /\ run'.lines = Annotated(buildFailureReceipt, buildFailureReceipt)
                 /\ spills' = spills
                 /\ run.failures # {} \/ run.aborted
              \/ /\ Filed("spill", buildFailureReceipt)
                 /\ run'.lines = Annotated(buildFailureReceipt, None)
                 /\ spills' = Spilled(buildFailureReceipt) /\ blobs' = blobs
                 /\ run.failures # {} \/ run.aborted
              \/ /\ Filed("lost", buildFailureReceipt)
                 /\ run'.lines = run.lines /\ UNCHANGED <<blobs, spills>>
                 /\ run.failures # {} \/ run.aborted
BY DEF RecordFailures, RunShape, Keeps, Fields

LEMMA SignalFields ==
    ASSUME RunShape, Signal
    PROVE  RunShape' /\ Keeps(Fields \ {"aborted"}) /\ run'.aborted = TRUE
BY DEF Signal, RunShape, Keeps, Fields


(***************************************************************************)
(* Sequences and stores.                                                   *)
(***************************************************************************)

\* A sequence is one over its own elements.
LEMMA SeqOfSet ==
    ASSUME NEW S, NEW s \in Seq(S)
    PROVE  /\ s \in Seq(ToSet(s)) /\ ToSet(s) = {s[i] : i \in 1..Len(s)}
           /\ ToSet(s) \subseteq S
<1>1. DOMAIN s = 1..Len(s) /\ s = [i \in 1..Len(s) |-> s[i]] /\ Len(s) \in Nat
  OBVIOUS
<1>2. \A i \in 1..Len(s) : s[i] \in S /\ s[i] \in ToSet(s)
  BY <1>1 DEF ToSet
<1> QED BY <1>1, <1>2 DEF ToSet

\* What Append does to the elements.
LEMMA AppendSet ==
    ASSUME NEW s, s \in Seq(ToSet(s)), NEW e
    PROVE  /\ Append(s, e) \in Seq(ToSet(Append(s, e)))
           /\ ToSet(Append(s, e)) = ToSet(s) \cup {e}
           /\ Len(Append(s, e)) = Len(s) + 1
           /\ Append(s, e)[Len(s) + 1] = e
           /\ \A i \in 1..Len(s) : Append(s, e)[i] = s[i]
<1> DEFINE T == ToSet(s) \cup {e}
           t == Append(s, e)
<1>1. s \in Seq(T) /\ e \in T
  BY SeqMonotonic
<1>2. /\ t \in Seq(T) /\ Len(t) = Len(s) + 1
      /\ \A i \in 1..Len(s) : t[i] = s[i]
      /\ t[Len(s) + 1] = e
  BY <1>1, AppendProperties
<1>3. t \in Seq(ToSet(t)) /\ ToSet(t) = {t[i] : i \in 1..Len(t)}
  BY <1>2, SeqOfSet
<1>4. ToSet(s) = {s[i] : i \in 1..Len(s)} /\ Len(s) \in Nat
  BY SeqOfSet
<1>5. ToSet(t) = ToSet(s) \cup {e}
  <2> HIDE DEF t
  <2>1. ToSet(t) \subseteq ToSet(s) \cup {e}
    BY <1>2, SeqOfSet
  <2>2. \A i \in 1..Len(s) : s[i] \in ToSet(t)
    <3> TAKE i \in 1..Len(s)
    <3>1. i \in 1..Len(t) /\ t[i] = s[i]
      BY <1>2, <1>4
    <3> QED BY <3>1, <1>3
  <2>3. e \in ToSet(t)
    <3>1. Len(t) \in 1..Len(t) /\ t[Len(t)] = e
      BY <1>2, <1>4
    <3> QED BY <3>1, <1>3
  <2> QED BY <2>1, <2>2, <2>3, <1>4
<1> QED BY <1>2, <1>3, <1>5

\* One element of a sequence becomes another.
LEMMA OneReplaced ==
    ASSUME NEW S, NEW s \in Seq(S), NEW n \in 1..Len(s), NEW x, NEW t,
           t = [i \in 1..Len(s) |-> IF i = n THEN x ELSE s[i]]
    PROVE  t \in Seq(S \cup {x}) /\ Len(t) = Len(s)
<1>1. Len(s) \in Nat /\ \A i \in 1..Len(s) : s[i] \in S
  OBVIOUS
<1>2. t \in [1..Len(s) -> S \cup {x}]
  BY <1>1
<1> QED BY <1>1, <1>2

\* What replacing one element does.
LEMMA ReplaceSet ==
    ASSUME NEW s, s \in Seq(ToSet(s)), NEW n \in 1..Len(s), NEW T, NEW t \in Seq(T),
           Len(t) = Len(s), \A i \in 1..Len(s) : i # n => t[i] = s[i]
    PROVE  /\ t \in Seq(ToSet(t))
           /\ ToSet(t) \subseteq ToSet(s) \cup {t[n]}
           /\ \A l \in ToSet(s) : l = s[n] \/ l \in ToSet(t)
           /\ t[n] \in ToSet(t)
<1>1. ToSet(s) = {s[i] : i \in 1..Len(s)}
  BY SeqOfSet
<1>2. Len(s) \in Nat
  OBVIOUS
<1>3. t \in Seq(ToSet(t)) /\ ToSet(t) = {t[i] : i \in 1..Len(t)}
  BY SeqOfSet
<1> QED BY <1>1, <1>2, <1>3

\* Blobs are only ever added to a store.
Grown == \A s \in Stores : blobs[s] \subseteq blobs'[s]

LEMMA PutGrows ==
    ASSUME WorldTyped, MemoryTyped, NEW b, Put(b)
    PROVE  /\ blobs' = [s \in Stores |-> blobs'[s]]
           /\ Store \in Stores /\ blobs'[Store] = blobs[Store] \cup b
           /\ \A s \in Stores : s # Store => blobs'[s] = blobs[s]
           /\ Grown
BY DEF WorldTyped, MemoryTyped, Put, Store, GroupType, Grown

\* The actions that touch the stores.
LEMMA StepGrows ==
    ASSUME WorldTyped, MemoryTyped, Next
    PROVE  blobs' = [s \in Stores |-> blobs'[s]] /\ Grown
<1>1. (\E b : Put(b)) \/ blobs' = blobs
  BY DEF Next, Start, planCapture, PlanEnd, BeginGroup, CaptureRoot, WalkEntry, WalkDone,
     CaptureProtocol, listRemoteTip, fetchBranchInto, cloneBranchToMemory, StoreObjects,
     writeGitReceipt, WriteReceipt, RecordFailures, Finish, Exit, Signal, Crash, Push
<1> QED BY <1>1, PutGrows DEF WorldTyped, Grown


\* What the journal holds after the lines were appended, or the write failed.
LEMMA AppendLogAdds ==
    ASSUME journal \in Seq(ToSet(journal)), NEW lines, lines \in Seq(ToSet(lines)),
           AppendLog(lines)
    PROVE  /\ journal' \in Seq(ToSet(journal'))
           /\ ToSet(journal') \subseteq ToSet(journal) \cup ToSet(lines) \cup {Torn}
<1> DEFINE U == ToSet(journal) \cup ToSet(lines) \cup {Torn}
<1>1. journal \in Seq(U) /\ lines \in Seq(U)
  BY SeqMonotonic
<1>2. journal' \in Seq(U)
  <2>1. CASE journal' = journal \o lines
    BY <1>1, <2>1, ConcatProperties
  <2>2. CASE \E n \in 0..(Len(lines) - 1), torn \in {<<>>, <<Torn>>} :
                journal' = journal \o SubSeq(lines, 1, n) \o torn
    <3>1. PICK n \in 0..(Len(lines) - 1), torn \in {<<>>, <<Torn>>} :
             journal' = journal \o SubSeq(lines, 1, n) \o torn
      BY <2>2
    <3>2. n \in Int /\ \A i \in 1..n : lines[i] \in U
      BY <1>1, LenProperties
    <3>3. SubSeq(lines, 1, n) \in Seq(U)
      BY <3>2, SubSeqProperties
    <3>4. torn \in Seq(U)
      <4>1. <<>> \in Seq(U)
        OBVIOUS
      <4>2. <<Torn>> \in Seq(U)
        OBVIOUS
      <4> QED BY <4>1, <4>2, <3>1
    <3>5. journal \o SubSeq(lines, 1, n) \in Seq(U)
      BY <1>1, <3>3, ConcatProperties
    <3> QED BY <3>1, <3>4, <3>5, ConcatProperties
  <2> QED BY <2>1, <2>2 DEF AppendLog
<1> QED BY <1>2, SeqOfSet

\* The world keeps its types.
LEMMA WorldKept ==
    ASSUME WorldTyped, MemoryTyped, Next
    PROVE  WorldTyped'
<1> USE DEF WorldTyped
<1>1. blobs' = [s \in Stores |-> blobs'[s]]
  BY StepGrows
<1>2. CASE Finish
  <2>1. journal' \in Seq(ToSet(journal'))
    BY <1>2, AppendLogAdds DEF Finish, MemoryTyped
  <2> QED BY <1>1, <1>2, <2>1 DEF Finish
<1>3. CASE RecordFailures
  <2>1. spills' \in Seq(ToSet(spills'))
    <3>1. spills' = spills \/ spills' = Append(spills, buildFailureReceipt)
      BY <1>3 DEF RecordFailures, Spilled
    <3>2. Append(spills, buildFailureReceipt)
             \in Seq(ToSet(Append(spills, buildFailureReceipt)))
      BY AppendSet
    <3> QED BY <3>1, <3>2
  <2> QED BY <1>1, <1>3, <2>1 DEF RecordFailures
<1>4. CASE \/ \E args \in ArgLists : Start(args)
           \/ planCapture \/ PlanEnd \/ BeginGroup \/ CaptureRoot \/ WalkEntry \/ WalkDone
           \/ CaptureProtocol \/ WriteReceipt \/ Exit \/ Signal \/ Crash \/ Push
  BY <1>1, <1>4 DEF Start, planCapture, PlanEnd, PlanFails, Planned, BeginGroup, CaptureRoot,
     WalkEntry, WalkDone, CaptureProtocol, WriteReceipt, Exit, Signal, Crash, Push
<1>5. CASE \/ listRemoteTip \/ fetchBranchInto \/ cloneBranchToMemory \/ StoreObjects
           \/ writeGitReceipt
  BY <1>1, <1>5 DEF listRemoteTip, fetchBranchInto, cloneBranchToMemory, StoreObjects,
     writeGitReceipt, ProtocolFails
<1> QED BY <1>2, <1>3, <1>4, <1>5 DEF Next

LEMMA DefaultGroup == Group(DefaultStore, <<>>) \in GroupType
BY CaptureAssumption DEF Group, GroupType

\* An empty memory is well typed.
LEMMA NoRunTyped == run' = NoRun => MemoryTyped'
<1> SUFFICES ASSUME run' = NoRun PROVE MemoryTyped'
  OBVIOUS
<1>1. /\ <<>> \in Seq(Args) /\ <<>> \in Seq(GroupType) /\ <<>> \in Seq(Roots)
      /\ <<>> \in Seq(STRING) /\ <<>> \in Seq(ToSet(<<>>))
  OBVIOUS
<1>2. RunShape'
  BY NoRunFields DEF RunShape
<1>3. /\ run'.args \in Seq(Args) /\ run'.todo \in Seq(Args)
      /\ run'.plan \in Seq(GroupType) /\ run'.groups \in Seq(GroupType)
      /\ run'.roots \in Seq(Roots) /\ run'.walk \in Seq(STRING)
  BY NoRunFields, <1>1
<1>5. /\ run'.current \in GroupType /\ run'.group \in GroupType
  BY NoRunFields, DefaultGroup
<1>6. run'.number \in Nat /\ run'.entryRoots \in Nat /\ run'.failCount \in Nat
  <2>1. run'.number = 0 /\ run'.entryRoots = 0 /\ run'.failCount = 0
    BY NoRunFields
  <2> QED BY <2>1
<1>7. run'.aborted \in BOOLEAN
  BY NoRunGoesOn
<1>4. run'.lines \in Seq(ToSet(run'.lines))
  BY NoRunFields, <1>1
<1> QED BY <1>2, <1>3, <1>4, <1>5, <1>6, <1>7 DEF MemoryTyped


\* The lines once a failure receipt was written: the group's is annotated, or added.
LEMMA AnnotatedTyped ==
    ASSUME MemoryTyped, LinesSound, NEW v, NEW id
    PROVE  Annotated(v, id) \in Seq(ToSet(Annotated(v, id)))
<1> DEFINE t == Annotated(v, id)
<1>1. CASE run.logIdx > 0
  <2>1. run.logIdx \in 1..Len(run.lines)
    BY <1>1 DEF LinesSound, MemoryTyped
  <2> DEFINE u == [run.lines EXCEPT ![run.logIdx].outcome = v.outcome]
  <2>2. t = [u EXCEPT ![run.logIdx].failures = id]
    BY <1>1 DEF Annotated
  <2>3. /\ run.lines = [i \in 1..Len(run.lines) |-> run.lines[i]]
        /\ run.lines \in Seq(ToSet(run.lines))
    BY DEF MemoryTyped
  <2>4. u = [i \in 1..Len(run.lines) |-> IF i = run.logIdx THEN u[run.logIdx] ELSE run.lines[i]]
    BY <2>1, <2>3
  <2> HIDE DEF t, u
  <2>5. t = [i \in 1..Len(run.lines) |-> IF i = run.logIdx THEN t[run.logIdx] ELSE run.lines[i]]
    BY <2>1, <2>2, <2>4
  <2>6. t \in Seq(ToSet(run.lines) \cup {t[run.logIdx]})
    BY <2>1, <2>3, <2>5, OneReplaced
  <2>7. t \in Seq(ToSet(t))
    BY <2>6, SeqOfSet
  <2> QED BY <2>7 DEF t
<1>2. CASE ~(run.logIdx > 0) /\ id = None
  BY <1>2 DEF Annotated, MemoryTyped
<1>3. CASE ~(run.logIdx > 0) /\ id # None
  BY <1>3, AppendSet DEF Annotated, MemoryTyped
<1> QED BY <1>1, <1>2, <1>3

\* The process's memory keeps its types.
LEMMA MemoryKept ==
    ASSUME WorldTyped, MemoryTyped, RootPhase, LinesSound, Next
    PROVE  MemoryTyped'
<1> USE DEF MemoryTyped
<1> DEFINE Rest(F) == Keeps(Fields \ F)
\* The lines grow by one.
<1>0. ASSUME NEW l, run'.lines = Append(run.lines, l)
      PROVE  run'.lines \in Seq(ToSet(run'.lines))
  <2>1. Append(run.lines, l) \in Seq(ToSet(Append(run.lines, l)))
    BY AppendSet
  <2> QED BY <1>0, <2>1
\* A root is done.
<1>t. ASSUME run.roots # <<>> PROVE Tail(run.roots) \in Seq(Roots)
  BY <1>t, HeadTailProperties
<1>1. CASE \E args \in ArgLists : Start(args)
  <2>1. PICK args \in ArgLists : Start(args)
    BY <1>1
  <2>2. args \in Seq(Args)
    BY CaptureAssumption
  <2> DEFINE g == Group(IF args = <<>> THEN DefaultStore ELSE args[1].name, <<Pwd>>)
  <2>3. ImplicitRoot(args) => g \in GroupType
    <3> SUFFICES ASSUME ImplicitRoot(args) PROVE g \in GroupType
      OBVIOUS
    <3>1. <<Pwd>> \in Seq(Roots)
      BY CaptureAssumption DEF Roots
    <3>2. args # <<>> => args[1].name \in Stores
      <4> SUFFICES ASSUME args # <<>> PROVE args[1].name \in Stores
        OBVIOUS
      <4>1. Len(args) = 1 /\ args[1].kind = "store"
        BY DEF ImplicitRoot
      <4>2. args[1] \in Args
        BY <2>2, <4>1, ElementOfSeq
      <4> QED BY <4>1, <4>2 DEF Args
    <3> QED BY <3>1, <3>2, CaptureAssumption DEF Group, GroupType
  <2>4. /\ <<>> \in Seq(Args) /\ <<>> \in Seq(GroupType) /\ <<>> \in Seq(Roots)
        /\ <<>> \in Seq(STRING) /\ <<>> \in Seq(ToSet(<<>>))
    OBVIOUS
  <2>5. run' = IF ImplicitRoot(args)
               THEN [NoRun EXCEPT !.args = args, !.current = g]
               ELSE [NoRun EXCEPT !.args = args, !.todo = args]
    BY <2>1 DEF Start
  <2> HIDE DEF g
  <2>6. /\ RunShape' /\ run'.args = args
        /\ run'.todo = IF ImplicitRoot(args) THEN <<>> ELSE args
        /\ run'.current = IF ImplicitRoot(args) THEN g ELSE Group(DefaultStore, <<>>)
        /\ \A f \in Fields \ {"args", "todo", "current"} : run'[f] = NoRun[f]
    BY <2>5, NoRunFields DEF RunShape, Fields
  <2>7. /\ run'.plan = <<>> /\ run'.groups = <<>> /\ run'.roots = <<>> /\ run'.walk = <<>>
        /\ run'.group = Group(DefaultStore, <<>>) /\ run'.lines = <<>>
        /\ run'.number = 0 /\ run'.entryRoots = 0 /\ run'.failCount = 0
        /\ run'.aborted = NoRun.aborted
    BY <2>6, NoRunFields DEF Fields
  <2>8. /\ run'.args \in Seq(Args) /\ run'.todo \in Seq(Args)
        /\ run'.plan \in Seq(GroupType) /\ run'.groups \in Seq(GroupType)
        /\ run'.roots \in Seq(Roots) /\ run'.walk \in Seq(STRING)
    BY <2>2, <2>4, <2>6, <2>7
  <2>9. run'.current \in GroupType /\ run'.group \in GroupType
    BY <2>3, <2>6, <2>7, DefaultGroup
  <2>10. run'.number \in Nat /\ run'.entryRoots \in Nat /\ run'.failCount \in Nat
    BY <2>7
  <2>11. run'.aborted \in BOOLEAN
    BY <2>7, NoRunGoesOn
  <2>12. run'.lines \in Seq(ToSet(run'.lines))
    BY <2>4, <2>7
  <2> QED BY <2>6, <2>8, <2>9, <2>10, <2>11, <2>12
<1>2. CASE planCapture
  <2>1. CASE PlanFails
    BY <2>1, NoRunTyped DEF PlanFails
  <2> SUFFICES ASSUME ~PlanFails PROVE MemoryTyped'
    BY <2>1
  <2>2. pc' = "plan" /\ run.todo # <<>>
    BY <1>2 DEF planCapture
  <2>3. /\ RunShape' /\ Rest({"todo", "carry", "failCount", "current", "plan"})
        /\ run'.todo = Tail(run.todo)
    BY <1>2, <2>2, PlanCaptureFields
  <2> DEFINE a == Head(run.todo)
  <2>4. a \in Args /\ Tail(run.todo) \in Seq(Args)
    BY <2>2, HeadTailProperties
  <2>5. /\ run'.failCount \in Nat
        /\ run'.current \in GroupType /\ run'.plan \in Seq(GroupType)
    <3>1. CASE a.kind \in {"unusable", "outside"}
      <4>1. run'.failCount = run.failCount + 1 /\ run'.current = run.current
            /\ run'.plan = run.plan
        BY <1>2, <3>1 DEF planCapture, RunShape, Fields
      <4> QED BY <4>1
    <3>2. CASE a.kind = "root"
      <4>1. run'.failCount = run.failCount /\ run'.plan = run.plan
            /\ run'.current = [run.current EXCEPT !.roots = Append(@, a.name)]
        BY <1>2, <3>2 DEF planCapture, RunShape, Fields
      <4>2. a.name \in Roots
        BY <2>4, <3>2 DEF Args
      <4>3. Append(run.current.roots, a.name) \in Seq(Roots)
        BY <4>2 DEF GroupType
      <4> QED BY <4>1, <4>3 DEF GroupType
    <3>3. CASE a.kind = "store"
      <4>1. /\ run'.failCount = run.failCount /\ run'.current = Group(a.name, <<>>)
            /\ run'.plan = run.plan \/ run'.plan = Append(run.plan, run.current)
        BY <1>2, <3>3 DEF planCapture, Flush, RunShape, Fields
      <4>2. a.name \in Stores
        BY <2>4, <3>3 DEF Args
      <4>3. Append(run.plan, run.current) \in Seq(GroupType)
        OBVIOUS
      <4>4. <<>> \in Seq(Roots)
        OBVIOUS
      <4>5. Group(a.name, <<>>) \in GroupType
        BY <4>2, <4>4 DEF GroupType, Group
      <4> QED BY <4>1, <4>3, <4>5
    <3> QED BY <1>2, <3>1, <3>2, <3>3 DEF planCapture
  <2> QED BY <2>3, <2>4, <2>5 DEF Keeps, Fields
<1>3. CASE PlanEnd
  <2>1. CASE PlanFails
    BY <2>1, NoRunTyped DEF PlanFails
  <2>2. CASE pc' = "groups"
    <3>1. Append(run.plan, run.current) \in Seq(GroupType)
      OBVIOUS
    <3> QED BY <1>3, <2>2, <3>1, PlanEndFields, DefaultGroup DEF Keeps, Fields
  <2> QED BY <1>3, <2>1, <2>2 DEF PlanEnd, Planned
<1>4. CASE BeginGroup
  <2>1. run.groups # <<>>
    BY <1>4 DEF BeginGroup
  <2>2. Head(run.groups) \in GroupType /\ Tail(run.groups) \in Seq(GroupType)
    BY <2>1, HeadTailProperties
  <2>3. Head(run.groups).roots \in Seq(Roots)
    BY <2>2 DEF GroupType
  <2>4. run.number + 1 \in Nat
    OBVIOUS
  <2>5. /\ run'.args = run.args /\ run'.todo = run.todo /\ run'.current = run.current
        /\ run'.plan = run.plan /\ run'.walk = run.walk /\ run'.lines = run.lines
        /\ run'.failCount = run.failCount /\ run'.aborted = run.aborted
    BY <1>4, BeginGroupFields DEF Keeps
  <2>6. 0 \in Nat
    OBVIOUS
  <2>7. /\ run'.group \in GroupType /\ run'.groups \in Seq(GroupType)
        /\ run'.roots \in Seq(Roots) /\ run'.number \in Nat /\ run'.entryRoots \in Nat
    BY <1>4, <2>2, <2>3, <2>4, <2>6, BeginGroupFields
  <2> QED BY <1>4, <2>5, <2>7, BeginGroupFields
<1>5. CASE CaptureRoot
  <2>1. Tree[Root] \in Seq(STRING)
    <3>1. Root \in FileRoots
      BY <1>5 DEF CaptureRoot, Walking, Root
    <3> QED BY <3>1, CaptureAssumption
  <2> QED BY <1>5, <2>1, CaptureRootFields DEF Keeps, Fields
<1>6. CASE WalkEntry
  <2>1. run.walk # <<>>
    BY <1>6 DEF WalkEntry
  <2>2. Tail(run.walk) \in Seq(STRING)
    BY <2>1, HeadTailProperties
  <2>3. <<>> \in Seq(STRING)
    OBVIOUS
  <2>4. run'.walk \in Seq(STRING)
    BY <1>6, <2>2, <2>3, WalkEntryFields
  <2>6. run'.failCount = run.failCount \/ run'.failCount = run.failCount + 1
    BY <1>6, WalkEntryFields
  <2>7. run'.failCount \in Nat
    BY <2>6
  <2>5. /\ run'.args = run.args /\ run'.todo = run.todo /\ run'.current = run.current
        /\ run'.group = run.group /\ run'.plan = run.plan /\ run'.groups = run.groups
        /\ run'.roots = run.roots /\ run'.number = run.number
        /\ run'.entryRoots = run.entryRoots /\ run'.aborted = run.aborted
        /\ run'.lines = run.lines
    BY <1>6, WalkEntryFields DEF Keeps, Fields
  <2> QED BY <1>6, <2>4, <2>5, <2>7, WalkEntryFields
<1>7. CASE WalkDone
  <2>1. run.roots # <<>>
    BY <1>7 DEF WalkDone, RootPhase
  <2>2. <<>> \in Seq(STRING)
    OBVIOUS
  <2>3. /\ run'.args = run.args /\ run'.todo = run.todo /\ run'.current = run.current
        /\ run'.group = run.group /\ run'.plan = run.plan /\ run'.groups = run.groups
        /\ run'.number = run.number /\ run'.failCount = run.failCount
        /\ run'.aborted = run.aborted /\ run'.lines = run.lines
    BY <1>7, WalkDoneFields DEF Keeps, Fields, RootFields
  <2>4. run'.roots \in Seq(Roots) /\ run'.walk \in Seq(STRING)
    BY <1>7, <1>t, <2>1, <2>2, WalkDoneFields
  <2>5. run'.entryRoots = run.entryRoots + 1
    BY <1>7, WalkDoneFields
  <2>6. run'.entryRoots \in Nat
    BY <2>5
  <2> QED BY <1>7, <2>3, <2>4, <2>6, WalkDoneFields
<1>8. CASE CaptureProtocol
  BY <1>8, CaptureProtocolFields DEF Keeps, Fields
<1>9. CASE ProtocolFails /\ pc \in {"list", "fetch", "clone", "objects", "payload"}
  <2>1. run.roots # <<>>
    BY <1>9 DEF RootPhase
  <2>2. <<>> \in Seq(STRING)
    OBVIOUS
  <2>3. /\ run'.args = run.args /\ run'.todo = run.todo /\ run'.current = run.current
        /\ run'.group = run.group /\ run'.plan = run.plan /\ run'.groups = run.groups
        /\ run'.number = run.number /\ run'.entryRoots = run.entryRoots
        /\ run'.aborted = run.aborted /\ run'.lines = run.lines
    BY <1>9, ProtocolFailsFields DEF Keeps, Fields, RootFields
  <2>4. run'.roots \in Seq(Roots) /\ run'.walk \in Seq(STRING)
    BY <1>9, <1>t, <2>1, <2>2, ProtocolFailsFields
  <2>5. run'.failCount = run.failCount + 1
    BY <1>9, ProtocolFailsFields
  <2>6. run'.failCount \in Nat
    BY <2>5
  <2> QED BY <1>9, <2>3, <2>4, <2>6, ProtocolFailsFields
<1>10. CASE listRemoteTip /\ ~ProtocolFails
  BY <1>10, ListFields DEF Keeps, Fields
<1>11. CASE fetchBranchInto /\ ~ProtocolFails
  BY <1>11, FetchFields DEF Keeps, Fields
<1>12. CASE cloneBranchToMemory /\ ~ProtocolFails
  BY <1>12, CloneFields DEF Keeps, Fields
<1>13. CASE StoreObjects /\ ~ProtocolFails
  <2>1. run' = run
    BY <1>13 DEF StoreObjects
  <2> QED BY <2>1 DEF RunShape
<1>14. CASE writeGitReceipt /\ ~ProtocolFails
  <2>1. run.roots # <<>>
    BY <1>14 DEF RootPhase, writeGitReceipt
  <2>2. <<>> \in Seq(STRING)
    OBVIOUS
  <2>3. run'.lines \in Seq(ToSet(run'.lines))
    BY <1>14, <1>0, WriteGitFields
  <2>4. /\ run'.args = run.args /\ run'.todo = run.todo /\ run'.current = run.current
        /\ run'.group = run.group /\ run'.plan = run.plan /\ run'.groups = run.groups
        /\ run'.number = run.number /\ run'.entryRoots = run.entryRoots
        /\ run'.failCount = run.failCount /\ run'.aborted = run.aborted
    BY <1>14, WriteGitFields DEF Keeps, Fields, RootFields
  <2>5. run'.roots \in Seq(Roots) /\ run'.walk \in Seq(STRING)
    BY <1>14, <1>t, <2>1, <2>2, WriteGitFields
  <2> QED BY <1>14, <2>3, <2>4, <2>5, WriteGitFields
<1>15. CASE WriteReceipt
  <2>1. run'.lines \in Seq(ToSet(run'.lines))
    <3>1. CASE run'.lines = run.lines
      BY <3>1
    <3>2. CASE run'.lines = Append(run.lines, GroupLine(FsReceipt(Collapsed)))
      BY <3>2, <1>0
    <3> QED BY <1>15, <3>1, <3>2, WriteReceiptFields
  <2>2. /\ run'.args = run.args /\ run'.todo = run.todo /\ run'.current = run.current
        /\ run'.group = run.group /\ run'.plan = run.plan /\ run'.groups = run.groups
        /\ run'.roots = run.roots /\ run'.walk = run.walk /\ run'.number = run.number
        /\ run'.entryRoots = run.entryRoots /\ run'.aborted = run.aborted
    BY <1>15, WriteReceiptFields DEF Keeps, Fields
  <2>4. run'.failCount = run.failCount \/ run'.failCount = run.failCount + 1
    BY <1>15, WriteReceiptFields
  <2>3. run'.failCount \in Nat
    BY <2>4
  <2> QED BY <1>15, <2>1, <2>2, <2>3, WriteReceiptFields
<1>16. CASE RecordFailures
  <2>1. /\ run'.args = run.args /\ run'.todo = run.todo /\ run'.current = run.current
        /\ run'.group = run.group /\ run'.plan = run.plan /\ run'.groups = run.groups
        /\ run'.roots = run.roots /\ run'.walk = run.walk /\ run'.number = run.number
        /\ run'.entryRoots = run.entryRoots /\ run'.failCount = run.failCount
        /\ run'.aborted = run.aborted
    BY <1>16, RecordFailuresFields DEF Keeps, Fields
  <2>2. run'.lines \in Seq(ToSet(run'.lines))
    BY <1>16, AnnotatedTyped, RecordFailuresFields
  <2> QED BY <1>16, <2>1, <2>2, RecordFailuresFields
<1>17. CASE Finish \/ Push
  <2>1. run' = run
    BY <1>17 DEF Finish, Push
  <2> QED BY <2>1 DEF RunShape
<1>18. CASE Exit \/ Crash
  BY <1>18, NoRunTyped DEF Exit, Crash
<1>19. CASE Signal
  BY <1>19, SignalFields DEF Keeps, Fields
<1> QED BY <1>1, <1>2, <1>3, <1>4, <1>5, <1>6, <1>7, <1>8, <1>9, <1>10, <1>11, <1>12, <1>13,
           <1>14, <1>15, <1>16, <1>17, <1>18, <1>19
        DEF Next, listRemoteTip, fetchBranchInto, cloneBranchToMemory, StoreObjects,
            writeGitReceipt


\* Ending the process leaves nothing in memory.
LEMMA NoRunLoop == pc' = "idle" /\ run' = NoRun /\ told' = {} => Loop' /\ RootPhase'
<1> SUFFICES ASSUME pc' = "idle", run' = NoRun, told' = {} PROVE Loop' /\ RootPhase'
  OBVIOUS
<1>1. Len(<<>>) = 0
  OBVIOUS
<1>2. run'.number = 0 /\ run'.groups = <<>> /\ run'.plan = <<>>
  BY NoRunFields
<1>3. run'.number + Len(run'.groups) = Len(run'.plan) /\ 1..Len(run'.groups) = {}
  BY <1>1, <1>2
<1> QED BY <1>2, <1>3 DEF Loop, RootPhase, InGroup

\* The group loop goes from one group to the next of the plan.
LEMMA LoopKept ==
    ASSUME WorldTyped, MemoryTyped, Loop, RootPhase, Next
    PROVE  Loop'
<1>0. ASSUME RunShape, Keeps({"groups", "number", "plan", "group"}),
             pc \notin {"idle", "plan"},
             pc' \in {"roots", "walk", "list", "fetch", "clone", "objects", "payload",
                      "failures"} => InGroup,
             pc' \notin {"idle", "plan"}, pc' = "ended" => run.groups = <<>>
      PROVE  Loop'
  <2>1. /\ run'.groups = run.groups /\ run'.number = run.number /\ run'.plan = run.plan
        /\ run'.group = run.group
    BY <1>0 DEF Keeps
  <2> QED BY <1>0, <2>1 DEF Loop, InGroup
<1>1. CASE \E args \in ArgLists : Start(args)
  <2>1. PICK args \in ArgLists : Start(args)
    BY <1>1
  <2>2. /\ run'.groups = <<>> /\ run'.number = 0 /\ run'.lines = <<>> /\ run'.failures = {}
    BY <2>1, NoRunFields DEF Start, Fields
  <2> QED BY <2>1, <2>2 DEF Start, Loop, InGroup
<1>2. CASE planCapture
  <2>1. CASE PlanFails
    BY <2>1, NoRunLoop DEF PlanFails
  <2>2. CASE ~PlanFails
    <3>1. pc' = "plan" /\ told' = told /\ pc = "plan"
      BY <1>2, <2>2 DEF planCapture
    <3>2. /\ run'.groups = run.groups /\ run'.number = run.number
          /\ run'.lines = run.lines /\ run'.failures = run.failures
      BY <1>2, <3>1, PlanCaptureFields DEF MemoryTyped, Keeps, Fields
    <3> QED BY <3>1, <3>2 DEF Loop, InGroup
  <2> QED BY <2>1, <2>2
<1>3. CASE PlanEnd
  <2>1. CASE PlanFails
    BY <2>1, NoRunLoop DEF PlanFails
  <2>2. CASE ~PlanFails
    <3>1. pc' = "groups" /\ pc = "plan"
      BY <1>3, <2>2 DEF PlanEnd, Planned
    <3>2. run'.groups = run'.plan /\ run'.number = 0
      BY <1>3, <3>1, PlanEndFields DEF MemoryTyped, Keeps, Fields, Loop
    <3>3. Len(run'.plan) \in Nat
      <4>1. Append(run.plan, run.current) \in Seq(GroupType)
        BY DEF MemoryTyped
      <4>2. run'.plan \in Seq(GroupType)
        BY <1>3, <3>1, <4>1, PlanEndFields DEF MemoryTyped
      <4> QED BY <4>2, LenProperties
    <3>4. run'.number + Len(run'.groups) = Len(run'.plan)
      BY <3>2, <3>3
    <3>5. \A i \in 1..Len(run'.groups) : run'.groups[i] = run'.plan[run'.number + i]
      BY <3>2, <3>3
    <3> QED BY <3>1, <3>2, <3>4, <3>5 DEF Loop, InGroup
  <2> QED BY <2>1, <2>2
<1>4. CASE BeginGroup
  <2>1. run.groups # <<>> /\ pc = "groups" /\ pc' = "roots"
    BY <1>4 DEF BeginGroup
  <2>2. /\ run'.groups = Tail(run.groups) /\ run'.number = run.number + 1
        /\ run'.group = Head(run.groups) /\ run'.plan = run.plan
    BY <1>4, BeginGroupFields DEF MemoryTyped, Keeps
  <2>3. /\ Len(Tail(run.groups)) = Len(run.groups) - 1 /\ Head(run.groups) = run.groups[1]
        /\ \A i \in 1..Len(Tail(run.groups)) : Tail(run.groups)[i] = run.groups[i + 1]
        /\ Len(run.groups) \in Nat /\ Len(run.groups) > 0
    <3>1. run.groups \in Seq(GroupType)
      BY DEF MemoryTyped
    <3> QED BY <2>1, <3>1, HeadTailProperties, EmptySeq
  <2>4. /\ run.number + Len(run.groups) = Len(run.plan)
        /\ \A i \in 1..Len(run.groups) : run.groups[i] = run.plan[run.number + i]
        /\ run.number \in Nat
    BY <2>1 DEF Loop, MemoryTyped
  <2>5. run'.number + Len(run'.groups) = Len(run'.plan)
    BY <2>2, <2>3, <2>4
  <2>6. \A i \in 1..Len(run'.groups) : run'.groups[i] = run'.plan[run'.number + i]
    <3> TAKE i \in 1..Len(run'.groups)
    <3>1. i + 1 \in 1..Len(run.groups) /\ run.number + (i + 1) = run'.number + i
      BY <2>2, <2>3, <2>4
    <3>2. run'.groups[i] = run.groups[i + 1]
      BY <2>2, <2>3
    <3> QED BY <2>2, <2>4, <3>1, <3>2
  <2>7. run'.group = run'.plan[run'.number] /\ run'.number > 0
    BY <2>2, <2>3, <2>4
  <2> QED BY <2>1, <2>5, <2>6, <2>7 DEF Loop, InGroup
<1>5. CASE CaptureRoot
  BY <1>0, <1>5, CaptureRootFields DEF CaptureRoot, Walking, MemoryTyped, InGroup, Keeps, Fields
<1>6. CASE WalkEntry
  <2>1. pc = "walk" /\ pc' = pc
    BY <1>6 DEF WalkEntry
  <2> QED BY <1>0, <1>6, <2>1, WalkEntryFields DEF MemoryTyped, InGroup, Keeps, Fields
<1>7. CASE WalkDone
  <2>1. pc = "walk" /\ pc' = "roots"
    BY <1>7 DEF WalkDone
  <2> QED BY <1>0, <1>7, <2>1, WalkDoneFields DEF MemoryTyped, InGroup, Keeps, Fields, RootFields
<1>8. CASE CaptureProtocol
  <2>1. pc = "roots" /\ pc' \in {"list", "clone"}
    BY <1>8 DEF CaptureProtocol
  <2> QED BY <1>0, <1>8, <2>1, CaptureProtocolFields DEF MemoryTyped, InGroup, Keeps, Fields
<1>9. CASE ProtocolFails /\ pc \in {"list", "fetch", "clone", "objects", "payload"}
  <2>1. pc' = "roots"
    BY <1>9, ProtocolFailsFields DEF MemoryTyped
  <2> QED BY <1>0, <1>9, <2>1, ProtocolFailsFields
      DEF MemoryTyped, InGroup, Keeps, Fields, RootFields
<1>10. CASE listRemoteTip /\ ~ProtocolFails
  <2>1. pc = "list" /\ pc' \in {"payload", "fetch"}
    BY <1>10, ListFields DEF MemoryTyped, listRemoteTip
  <2> QED BY <1>0, <1>10, <2>1, ListFields DEF MemoryTyped, InGroup, Keeps, Fields
<1>11. CASE fetchBranchInto /\ ~ProtocolFails
  <2>1. pc = "fetch" /\ pc' \in {"objects", "clone"}
    BY <1>11, FetchFields DEF MemoryTyped, fetchBranchInto
  <2> QED BY <1>0, <1>11, <2>1, FetchFields DEF MemoryTyped, InGroup, Keeps, Fields
<1>12. CASE cloneBranchToMemory /\ ~ProtocolFails
  <2>1. pc = "clone" /\ pc' = "objects"
    BY <1>12, CloneFields DEF MemoryTyped, cloneBranchToMemory
  <2> QED BY <1>0, <1>12, <2>1, CloneFields DEF MemoryTyped, InGroup, Keeps, Fields
<1>13. CASE StoreObjects /\ ~ProtocolFails
  <2>1. pc = "objects" /\ pc' = "payload" /\ run' = run
    BY <1>13 DEF StoreObjects
  <2> QED BY <1>0, <2>1 DEF MemoryTyped, InGroup, Keeps
<1>14. CASE writeGitReceipt /\ ~ProtocolFails
  <2>1. pc = "payload" /\ pc' = "roots"
    BY <1>14, WriteGitFields DEF MemoryTyped, writeGitReceipt
  <2> QED BY <1>0, <1>14, <2>1, WriteGitFields DEF MemoryTyped, InGroup, Keeps, Fields, RootFields
<1>15. CASE WriteReceipt
  <2>1. pc = "roots" /\ pc' = "failures"
    BY <1>15 DEF WriteReceipt
  <2> QED BY <1>0, <1>15, <2>1, WriteReceiptFields DEF MemoryTyped, InGroup, Keeps, Fields
<1>16. CASE RecordFailures
  <2>1. pc = "failures" /\ pc' = "groups"
    BY <1>16 DEF RecordFailures
  <2> QED BY <1>0, <1>16, <2>1, RecordFailuresFields DEF MemoryTyped, InGroup, Keeps, Fields
<1>17. CASE Finish
  <2>1. pc = "groups" /\ pc' = "ended" /\ run' = run /\ run.groups = <<>>
    BY <1>17 DEF Finish
  <2> QED BY <1>0, <2>1 DEF MemoryTyped, Keeps
<1>18. CASE Exit \/ Crash
  BY <1>18, NoRunLoop DEF Exit, Crash
<1>19. CASE Signal
  <2>1. pc \notin {"idle", "ended"} /\ pc' = pc /\ told' = told
    BY <1>19 DEF Signal
  <2>2. CASE pc = "plan"
    <3>1. /\ run'.groups = run.groups /\ run'.number = run.number
          /\ run'.lines = run.lines /\ run'.failures = run.failures
      BY <1>19, SignalFields DEF MemoryTyped, Keeps, Fields
    <3> QED BY <2>1, <2>2, <3>1 DEF Loop, InGroup
  <2>3. CASE pc # "plan"
    BY <1>0, <1>19, <2>1, <2>3, SignalFields DEF MemoryTyped, InGroup, Keeps, Fields
  <2> QED BY <2>2, <2>3
<1>20. CASE Push
  BY <1>20 DEF Push, Loop, InGroup
<1> QED BY <1>1, <1>2, <1>3, <1>4, <1>5, <1>6, <1>7, <1>8, <1>9, <1>10, <1>11, <1>12, <1>13,
           <1>14, <1>15, <1>16, <1>17, <1>18, <1>19, <1>20
        DEF Next, listRemoteTip, fetchBranchInto, cloneBranchToMemory, StoreObjects,
            writeGitReceipt


\* The git root in progress failed.
GitFails == ProtocolFails /\ pc \in {"list", "fetch", "clone", "objects", "payload"}

\* Where each step of a root leads.
LEMMA RootSteps ==
    ASSUME MemoryTyped
    PROVE  /\ CaptureRoot => pc = "roots" /\ pc' = "walk" /\ run.roots # <<>>
                             /\ Root \in FileRoots
           /\ WalkEntry => pc = "walk" /\ pc' = "walk" /\ run.walk # <<>>
           /\ WalkDone => pc = "walk" /\ pc' = "roots" /\ run.walk = <<>>
           /\ CaptureProtocol => /\ pc = "roots" /\ pc' \in {"list", "clone"}
                                 /\ run.roots # <<>> /\ Root \in GitRoots
           /\ GitFails => pc' = "roots"
           /\ listRemoteTip => pc = "list" /\ (~ProtocolFails => pc' \in {"payload", "fetch"})
           /\ fetchBranchInto =>
                 pc = "fetch" /\ (~ProtocolFails => pc' \in {"objects", "clone"})
           /\ cloneBranchToMemory => pc = "clone" /\ (~ProtocolFails => pc' = "objects")
           /\ StoreObjects =>
                 pc = "objects" /\ (~ProtocolFails => pc' = "payload" /\ run' = run)
           /\ writeGitReceipt => pc = "payload" /\ (~ProtocolFails => pc' = "roots")
           /\ WriteReceipt => pc = "roots" /\ pc' = "failures" /\ run.roots = <<>>
           /\ RecordFailures => pc = "failures" /\ pc' = "groups"
<1>1. /\ CaptureRoot => pc = "roots" /\ pc' = "walk" /\ run.roots # <<>>
                        /\ Root \in FileRoots
      /\ WalkEntry => pc = "walk" /\ pc' = "walk" /\ run.walk # <<>>
      /\ WalkDone => pc = "walk" /\ pc' = "roots" /\ run.walk = <<>>
      /\ CaptureProtocol => /\ pc = "roots" /\ pc' \in {"list", "clone"}
                            /\ run.roots # <<>> /\ Root \in GitRoots
  BY DEF CaptureRoot, Walking, Root, WalkEntry, WalkDone, CaptureProtocol
<1>2. /\ GitFails => pc' = "roots"
      /\ listRemoteTip => pc = "list" /\ (~ProtocolFails => pc' \in {"payload", "fetch"})
      /\ fetchBranchInto =>
            pc = "fetch" /\ (~ProtocolFails => pc' \in {"objects", "clone"})
  BY ListFields, FetchFields
     DEF GitFails, ProtocolFails, MemoryTyped, listRemoteTip, fetchBranchInto
<1>3. /\ cloneBranchToMemory => pc = "clone" /\ (~ProtocolFails => pc' = "objects")
      /\ StoreObjects => pc = "objects" /\ (~ProtocolFails => pc' = "payload" /\ run' = run)
      /\ writeGitReceipt => pc = "payload" /\ (~ProtocolFails => pc' = "roots")
  BY DEF cloneBranchToMemory, StoreObjects, writeGitReceipt
<1>4. /\ WriteReceipt => pc = "roots" /\ pc' = "failures" /\ run.roots = <<>>
      /\ RecordFailures => pc = "failures" /\ pc' = "groups"
  BY DEF WriteReceipt, RecordFailures
<1> QED BY <1>1, <1>2, <1>3, <1>4

\* The steps of the process while it captures the roots of a group.
RootStep ==
    \/ CaptureRoot \/ WalkEntry \/ WalkDone \/ CaptureProtocol \/ GitFails
    \/ listRemoteTip /\ ~ProtocolFails
    \/ fetchBranchInto /\ ~ProtocolFails
    \/ cloneBranchToMemory /\ ~ProtocolFails
    \/ StoreObjects /\ ~ProtocolFails
    \/ writeGitReceipt /\ ~ProtocolFails

\* The process ends, or has nothing in memory yet.
Ends == pc' = "idle" /\ run' = NoRun /\ told' = {}

\* The planning steps that lead on.
PlanStep ==
    \/ planCapture /\ pc = "plan" /\ pc' = "plan" /\ told' = told
    \/ PlanEnd /\ pc = "plan" /\ pc' = "groups"

\* The steps as the proofs take them apart.
LEMMA StepKinds ==
    ASSUME Next
    PROVE  \/ \E args \in ArgLists : Start(args)
           \/ PlanStep
           \/ BeginGroup \/ RootStep \/ WriteReceipt \/ RecordFailures \/ Finish
           \/ Ends /\ UNCHANGED <<tip, blobs, journal, spills>>
           \/ Signal \/ Push
<1>1. planCapture \/ PlanEnd => PlanStep \/ (Ends /\ UNCHANGED <<tip, blobs, journal, spills>>)
  BY DEF planCapture, PlanEnd, PlanFails, Planned, PlanStep, Ends
<1>2. Exit \/ Crash => Ends /\ UNCHANGED <<tip, blobs, journal, spills>>
  BY DEF Exit, Crash, Ends
<1>3. listRemoteTip \/ fetchBranchInto \/ cloneBranchToMemory \/ StoreObjects
         \/ writeGitReceipt => RootStep
  BY DEF RootStep, GitFails, listRemoteTip, fetchBranchInto, cloneBranchToMemory,
     StoreObjects, writeGitReceipt
<1> QED BY <1>1, <1>2, <1>3 DEF Next, RootStep

\* Starting an invocation with this memory.
LEMMA StartFields ==
    ASSUME NEW args \in ArgLists, Start(args)
    PROVE  /\ pc = "idle" /\ pc' = "plan" /\ told' = {}
           /\ run'.args = args
           /\ run'.todo = IF ImplicitRoot(args) THEN <<>> ELSE args
           /\ run'.current = IF ImplicitRoot(args)
                             THEN Group(IF args = <<>> THEN DefaultStore ELSE args[1].name,
                                        <<Pwd>>)
                             ELSE Group(DefaultStore, <<>>)
           /\ \A f \in Fields \ {"args", "todo", "current"} : run'[f] = NoRun[f]
<1> DEFINE g == Group(IF args = <<>> THEN DefaultStore ELSE args[1].name, <<Pwd>>)
<1>1. run' = IF ImplicitRoot(args)
             THEN [NoRun EXCEPT !.args = args, !.current = g]
             ELSE [NoRun EXCEPT !.args = args, !.todo = args]
  BY DEF Start
<1> HIDE DEF g
<1>2. /\ run'.args = args
      /\ run'.todo = IF ImplicitRoot(args) THEN <<>> ELSE args
      /\ run'.current = IF ImplicitRoot(args) THEN g ELSE Group(DefaultStore, <<>>)
      /\ \A f \in Fields \ {"args", "todo", "current"} : run'[f] = NoRun[f]
  BY <1>1, NoRunFields DEF Fields
<1> QED BY <1>2 DEF Start, g

\* Which root is being captured stays what the program counter says.
LEMMA RootPhaseKept ==
    ASSUME WorldTyped, MemoryTyped, Loop, RootPhase, Next
    PROVE  RootPhase'
<1>1. CASE PlanStep \/ BeginGroup \/ Finish \/ \E args \in ArgLists : Start(args)
  BY <1>1 DEF PlanStep, BeginGroup, Finish, Start, RootPhase
<1>2. CASE RootStep
  <2>1. CASE pc' = "roots"
    BY <2>1 DEF RootPhase
  <2>2. CASE pc' # "roots"
    <3>1. run'.roots = run.roots
      BY <1>2, <2>2, RootSteps, CaptureRootFields, WalkEntryFields, CaptureProtocolFields,
         ListFields, FetchFields, CloneFields DEF RootStep, MemoryTyped, Keeps, Fields
    <3>2. Root' = Root
      BY <3>1 DEF Root
    <3> QED BY <1>2, <2>2, <3>1, <3>2, RootSteps DEF RootStep, RootPhase
  <2> QED BY <2>1, <2>2
<1>3. CASE WriteReceipt
  BY <1>3, RootSteps, WriteReceiptFields DEF MemoryTyped, RootPhase, Keeps, Fields
<1>4. CASE RecordFailures
  BY <1>4, RootSteps DEF RootPhase
<1>5. CASE Ends
  BY <1>5 DEF Ends, RootPhase
<1>6. CASE Signal
  <2>1. run'.roots = run.roots /\ pc' = pc
    BY <1>6, SignalFields DEF MemoryTyped, Keeps, Fields, Signal
  <2> QED BY <2>1 DEF RootPhase, Root
<1>7. CASE Push
  BY <1>7 DEF Push, RootPhase, Root
<1> QED BY <1>1, <1>2, <1>3, <1>4, <1>5, <1>6, <1>7, StepKinds


(***************************************************************************)
(* Receipts.                                                               *)
(***************************************************************************)

\* What a root's step leaves alone outside the root's own memory.
LEMMA RootStepKeeps ==
    ASSUME MemoryTyped, RootStep
    PROVE  /\ run'.group = run.group /\ run'.number = run.number /\ run'.plan = run.plan
           /\ run'.args = run.args /\ run'.carry = run.carry /\ run'.groups = run.groups
           /\ run'.receipt = run.receipt /\ run'.logIdx = run.logIdx
           /\ run'.aborted = run.aborted /\ run'.todo = run.todo
           /\ run'.current = run.current
           /\ InGroup /\ InGroup' /\ pc # "failures" /\ pc' # "failures"
<1>1. /\ run'.group = run.group /\ run'.number = run.number /\ run'.plan = run.plan
      /\ run'.args = run.args /\ run'.carry = run.carry /\ run'.groups = run.groups
  BY CaptureRootFields, WalkEntryFields, WalkDoneFields, CaptureProtocolFields,
     ProtocolFailsFields, ListFields, FetchFields, CloneFields, WriteGitFields, RootSteps
     DEF RootStep, GitFails, MemoryTyped, Keeps, Fields, RootFields
<1>2. /\ run'.receipt = run.receipt /\ run'.logIdx = run.logIdx
      /\ run'.aborted = run.aborted /\ run'.todo = run.todo
      /\ run'.current = run.current
  BY CaptureRootFields, WalkEntryFields, WalkDoneFields, CaptureProtocolFields,
     ProtocolFailsFields, ListFields, FetchFields, CloneFields, WriteGitFields, RootSteps
     DEF RootStep, GitFails, MemoryTyped, Keeps, Fields, RootFields
<1>3. InGroup /\ InGroup' /\ pc # "failures" /\ pc' # "failures"
  BY RootSteps DEF RootStep, GitFails, InGroup
<1> QED BY <1>1, <1>2, <1>3

\* An entry that was just read.
LEMMA EntryFacts ==
    ASSUME NEW root \in FileRoots, NEW name
    PROVE  LET e == Entry(root, name)
           IN /\ e.root = root /\ e.path = name /\ e = Entry(e.root, e.path)
              /\ e.blob = None \/ e.blob = FileBlob(root, name)
BY DEF Entry

\* The entries stay those of the group's directories.
LEMMA EntriesKept ==
    ASSUME WorldTyped, MemoryTyped, Loop, RootPhase, EntriesSound, Next
    PROVE  EntriesSound'
<1>g. Grown
  BY StepGrows
<1>0. ASSUME run'.entries = run.entries, run'.group = run.group,
             run'.entryRoots = run.entryRoots, pc' = "walk" <=> pc = "walk",
             pc = "walk" => run'.roots = run.roots
      PROVE  EntriesSound'
  <2>1. Store' = Store /\ Store \in Stores
    BY <1>0 DEF Store, MemoryTyped, GroupType
  <2>2. \A e \in run'.entries :
           /\ e.root \in FileRoots /\ e = Entry(e.root, e.path)
           /\ e.blob = None \/ e.blob \in blobs'[Store']
    BY <1>g, <1>0, <2>1 DEF EntriesSound, Grown
  <2>3. pc = "walk" => Root' = Root
    BY <1>0 DEF Root
  <2> QED BY <1>0, <2>2, <2>3 DEF EntriesSound
<1>1. ASSUME run'.entries = {} PROVE EntriesSound'
  BY <1>1 DEF EntriesSound
<1>2. CASE \E args \in ArgLists : Start(args)
  <2>1. run'.entries = {}
    BY <1>2, StartFields, NoRunFields DEF Fields
  <2> QED BY <1>1, <2>1
<1>3. CASE PlanStep
  <2>1. /\ run'.entries = run.entries /\ run'.group = run.group
        /\ run'.entryRoots = run.entryRoots /\ pc' # "walk" /\ pc # "walk"
    BY <1>3, PlanCaptureFields, PlanEndFields DEF PlanStep, MemoryTyped, Keeps, Fields
  <2> QED BY <1>0, <2>1
<1>4. CASE BeginGroup
  BY <1>1, <1>4, BeginGroupFields DEF MemoryTyped
<1>5. CASE Ends
  BY <1>1, <1>5, NoRunFields DEF Ends
<1>6. CASE WalkEntry
  <2>1. /\ run'.group = run.group /\ run'.roots = run.roots
        /\ run'.entryRoots = run.entryRoots /\ pc = "walk" /\ pc' = "walk"
    BY <1>6, RootSteps, WalkEntryFields DEF MemoryTyped, Keeps, Fields
  <2>2. CASE run'.entries = run.entries
    BY <1>0, <2>1, <2>2
  <2> DEFINE e0 == Entry(Root, Name)
  <2>3. CASE run'.entries = run.entries \cup {e0} /\ run'.entries # run.entries
    <3>1. Root' = Root /\ Store' = Store /\ Root \in FileRoots /\ Store \in Stores
      BY <2>1 DEF Root, Store, RootPhase, MemoryTyped, GroupType
    <3>2. Put({e0.blob} \ {None})
      BY <1>6, <2>3 DEF WalkEntry, Name, Failing, MemoryTyped, RunShape, Fields
    <3>3. blobs'[Store] = blobs[Store] \cup ({e0.blob} \ {None})
      BY <3>2, PutGrows
    <3>4. /\ e0.root \in FileRoots /\ e0 = Entry(e0.root, e0.path) /\ e0.root = Root
      BY <3>1, EntryFacts
    <3> HIDE DEF e0
    <3>5. \A e \in run'.entries :
             /\ e.root \in FileRoots /\ e = Entry(e.root, e.path)
             /\ e.blob = None \/ e.blob \in blobs'[Store']
      BY <2>3, <3>1, <3>3, <3>4 DEF EntriesSound
    <3>6. run'.entryRoots = 0 => \A e \in run'.entries : e.root = Root'
      BY <2>1, <2>3, <3>1, <3>4 DEF EntriesSound
    <3> QED BY <2>1, <3>5, <3>6 DEF EntriesSound
  <2> QED BY <1>6, <2>2, <2>3, WalkEntryFields DEF MemoryTyped
<1>7. CASE WalkDone
  <2>1. /\ run'.entries = run.entries /\ run'.group = run.group
        /\ run'.entryRoots = run.entryRoots + 1 /\ pc = "walk" /\ pc' = "roots"
    BY <1>7, RootSteps, WalkDoneFields DEF MemoryTyped, Keeps, Fields, RootFields
  <2>2. Store' = Store /\ Store \in Stores
    BY <2>1 DEF Store, MemoryTyped, GroupType
  <2>3. \A e \in run'.entries :
           /\ e.root \in FileRoots /\ e = Entry(e.root, e.path)
           /\ e.blob = None \/ e.blob \in blobs'[Store']
    BY <1>g, <2>1, <2>2 DEF EntriesSound, Grown
  <2>4. run'.entryRoots # 0 /\ (run'.entryRoots = 1 => run.entryRoots = 0)
    BY <2>1 DEF MemoryTyped
  <2> QED BY <2>1, <2>3, <2>4 DEF EntriesSound
<1>8. CASE CaptureRoot
  <2>1. /\ run'.entries = run.entries /\ run'.group = run.group /\ run'.roots = run.roots
        /\ run'.entryRoots = run.entryRoots /\ pc = "roots" /\ pc' = "walk"
    BY <1>8, RootSteps, CaptureRootFields DEF MemoryTyped, Keeps, Fields
  <2>2. Store' = Store /\ Store \in Stores
    BY <2>1 DEF Store, MemoryTyped, GroupType
  <2>3. \A e \in run'.entries :
           /\ e.root \in FileRoots /\ e = Entry(e.root, e.path)
           /\ e.blob = None \/ e.blob \in blobs'[Store']
    BY <1>g, <2>1, <2>2 DEF EntriesSound, Grown
  <2> QED BY <2>1, <2>3 DEF EntriesSound
<1>9. CASE RootStep /\ ~WalkEntry /\ ~WalkDone /\ ~CaptureRoot
  <2>1. /\ run'.entries = run.entries /\ run'.entryRoots = run.entryRoots
        /\ pc # "walk" /\ pc' # "walk"
    BY <1>9, CaptureProtocolFields, RootSteps,
       ProtocolFailsFields, ListFields, FetchFields, CloneFields, WriteGitFields
       DEF RootStep, GitFails, MemoryTyped, Keeps, Fields, RootFields
  <2> QED BY <1>0, <1>9, <2>1, RootStepKeeps
<1>10. CASE WriteReceipt \/ RecordFailures
  <2>1. /\ run'.entries = run.entries /\ run'.entryRoots = run.entryRoots
        /\ run'.group = run.group /\ pc # "walk" /\ pc' # "walk"
    BY <1>10, RootSteps, WriteReceiptFields, RecordFailuresFields
       DEF MemoryTyped, Keeps, Fields
  <2> QED BY <1>0, <2>1
<1>11. CASE Finish \/ Push
  <2>1. run' = run /\ (pc' = "walk" <=> pc = "walk")
    BY <1>11 DEF Finish, Push
  <2> QED BY <1>0, <2>1
<1>12. CASE Signal
  <2>1. /\ run'.entries = run.entries /\ run'.entryRoots = run.entryRoots
        /\ run'.group = run.group /\ run'.roots = run.roots /\ pc' = pc
    BY <1>12, SignalFields DEF Signal, MemoryTyped, Keeps, Fields
  <2> QED BY <1>0, <2>1
<1> QED BY <1>2, <1>3, <1>4, <1>5, <1>6, <1>7, <1>8, <1>9, <1>10, <1>11, <1>12, StepKinds


\* A receipt is whole: what ReceiptsComplete says of the blob r of store s.
Complete(s, r) ==
    /\ r.kind = "git" => /\ r.objects = History[r.tip]
                         /\ \A c \in r.objects : Object(c) \in blobs[s]
    /\ r.kind = "fs" =>
          /\ \A e \in r.entries : e.blob = None \/ e.blob \in blobs[s]
          /\ \A e, f \in r.entries : e.root = f.root /\ e.path = f.path => e = f

LEMMA ReceiptsCompleteIff ==
    ReceiptsComplete <=> \A s \in Stores : \A r \in blobs[s] : Complete(s, r)
BY DEF ReceiptsComplete, Complete

\* What the git plugin holds stays true; a fast-forward's objects are those of the live tip.
LEMMA GitKept ==
    ASSUME WorldTyped, MemoryTyped, Loop, RootPhase, ReceiptsComplete, GitSound, Next
    PROVE  GitSound'
<1>g. Grown
  BY StepGrows
<1>s. Store \in Stores
  BY DEF Store, MemoryTyped, GroupType
<1>p. pc \in {"list", "fetch"} =>
         /\ run.prior.objects = History[run.prior.tip]
         /\ \A c \in run.prior.objects : Object(c) \in blobs[Store]
  BY <1>s DEF GitSound, ReceiptsComplete
<1>1. CASE pc' \notin {"list", "fetch", "objects", "payload"}
  BY <1>1 DEF GitSound
<1>2. CASE CaptureProtocol
  <2>1. pc' \in {"list", "clone"} /\ run'.group = run.group /\ blobs' = blobs
        /\ (pc' = "list" => Usable(run'.prior))
    BY <1>2, RootSteps, CaptureProtocolFields DEF CaptureProtocol, MemoryTyped, Keeps, Fields
  <2>2. Store' = Store
    BY <2>1 DEF Store
  <2> QED BY <2>1, <2>2 DEF GitSound, Usable
<1>3. CASE listRemoteTip /\ ~ProtocolFails
  <2>1. /\ pc = "list" /\ run'.group = run.group /\ run'.prior = run.prior /\ blobs' = blobs
        /\ run'.live = tip /\ tip \in Commits
        /\ \/ /\ tip = run.prior.tip /\ run'.objects = run.prior.objects
              /\ pc' = "payload"
           \/ pc' = "fetch"
    BY <1>3, RootSteps, ListFields
       DEF listRemoteTip, MemoryTyped, WorldTyped, Keeps, Fields
  <2>2. Store' = Store
    BY <2>1 DEF Store
  <2> QED BY <1>p, <2>1, <2>2 DEF GitSound
<1>4. CASE fetchBranchInto /\ ~ProtocolFails /\ pc' # "clone"
  <2>1. /\ pc = "fetch" /\ pc' = "objects" /\ run'.group = run.group /\ blobs' = blobs
        /\ run'.live = run.live /\ run.live \in Commits
        /\ isFastForward(run.prior, run.live, Seeded(run.prior))
        /\ run'.delta = Delta(run.prior, run.live, Seeded(run.prior))
        /\ run'.objects = run.prior.objects \cup run'.delta
    BY <1>4, RootSteps, FetchFields DEF fetchBranchInto, MemoryTyped, GitSound, Keeps, Fields
  <2>2. Store' = Store
    BY <2>1 DEF Store
  <2>3. run.prior.tip \in History[run.live]
    BY <2>1 DEF isFastForward
  <2>4. History[run.prior.tip] \subseteq History[run.live]
    BY <2>1, <2>3, CaptureAssumption
  <2>7. run.prior.tip \in Commits /\ run.live \in Seeded(run.prior) /\ tip \in Commits
    BY <2>1, <2>3, CaptureAssumption DEF isFastForward, WorldTyped
  <2>8. History[run.live] \subseteq Seeded(run.prior)
    BY <1>p, <2>1, <2>7, CaptureAssumption DEF Seeded
  <2>5. run'.objects = History[run'.live]
    BY <1>p, <2>1, <2>4, <2>8 DEF Delta
  <2>6. \A c \in run'.objects \ run'.delta : Object(c) \in blobs[Store]
    BY <1>p, <2>1
  <2> QED BY <2>1, <2>2, <2>5, <2>6 DEF GitSound
<1>5. CASE cloneBranchToMemory /\ ~ProtocolFails
  <2>1. /\ pc' = "objects" /\ run'.live = tip /\ run'.objects = History[tip]
        /\ run'.delta = History[tip] /\ tip \in Commits
    BY <1>5, CloneFields DEF MemoryTyped, WorldTyped
  <2> QED BY <2>1 DEF GitSound
<1>6. CASE StoreObjects /\ ~ProtocolFails
  <2>1. pc = "objects" /\ pc' = "payload" /\ run' = run
        /\ Put({Object(c) : c \in run.delta})
    BY <1>6, RootSteps DEF StoreObjects
  <2>2. Store' = Store
    BY <2>1 DEF Store
  <2>3. blobs'[Store] = blobs[Store] \cup {Object(c) : c \in run.delta}
    BY <2>1, PutGrows
  <2> QED BY <2>1, <2>2, <2>3 DEF GitSound
<1>7. CASE Signal
  <2>1. /\ run'.group = run.group /\ run'.prior = run.prior /\ run'.live = run.live
        /\ run'.objects = run.objects /\ run'.delta = run.delta
        /\ pc' = pc /\ blobs' = blobs
    BY <1>7, SignalFields DEF Signal, MemoryTyped, Keeps, Fields
  <2>2. Store' = Store
    BY <2>1 DEF Store
  <2> QED BY <2>1, <2>2 DEF GitSound
<1>8. CASE Push
  BY <1>8 DEF Push, GitSound, Store
<1>9. CASE Finish \/ Ends \/ PlanStep \/ BeginGroup \/ WriteReceipt \/ RecordFailures
           \/ \E args \in ArgLists : Start(args)
  <2>1. pc' \notin {"list", "fetch", "objects", "payload"}
    BY <1>9 DEF Finish, Ends, PlanStep, BeginGroup, WriteReceipt, RecordFailures, Start
  <2> QED BY <1>1, <2>1
<1> QED BY <1>1, <1>2, <1>3, <1>4, <1>5, <1>6, <1>7, <1>8, <1>9, StepKinds, RootSteps
        DEF RootStep

\* Receipts stay whole in a store that grows.
LEMMA CompleteStays ==
    ASSUME Grown, NEW s \in Stores, NEW r, Complete(s, r)
    PROVE  Complete(s, r)'
BY DEF Complete, Grown

\* What the process is about to write is whole.
LEMMA CollapsedIsWhole ==
    ASSUME WorldTyped, MemoryTyped, EntriesSound, pc = "roots"
    PROVE  Complete(Store, FsReceipt(Collapsed))
<1> DEFINE r == FsReceipt(Collapsed)
<1>1. r.kind = "fs" /\ r.entries = Collapsed
  BY DEF FsReceipt
<1>2. \A e \in run.entries :
         /\ e.root \in FileRoots /\ e = Entry(e.root, e.path)
         /\ e.blob = None \/ e.blob \in blobs[Store]
  BY DEF EntriesSound
<1>3. CASE run.entryRoots # 1
  <2>1. Collapsed = run.entries
    BY <1>3 DEF Collapsed
  <2> QED BY <1>1, <1>2, <2>1 DEF Complete
<1>4. CASE run.entryRoots = 1
  <2>1. Collapsed = {[e EXCEPT !.root = "."] : e \in run.entries}
    BY <1>4 DEF Collapsed
  <2>2. \A e, f \in run.entries : e.root = f.root
    BY <1>4 DEF EntriesSound
  <2>3. \A e \in run.entries :
           /\ [e EXCEPT !.root = "."].blob = e.blob
           /\ [e EXCEPT !.root = "."].path = e.path
    <3> SUFFICES ASSUME NEW e \in run.entries
                 PROVE  /\ [e EXCEPT !.root = "."].blob = e.blob
                        /\ [e EXCEPT !.root = "."].path = e.path
      OBVIOUS
    <3>1. e = Entry(e.root, e.path)
      BY <1>2
    <3>2. DOMAIN e = {"root", "path", "blob"}
      BY <3>1 DEF Entry
    <3> QED BY <3>2
  <2>4. ASSUME NEW x \in Collapsed PROVE x.blob = None \/ x.blob \in blobs[Store]
    <3>1. PICK e \in run.entries : x = [e EXCEPT !.root = "."]
      BY <2>1
    <3>2. x.blob = e.blob
      BY <2>3, <3>1
    <3> QED BY <1>2, <3>2
  <2>5. ASSUME NEW x \in Collapsed, NEW y \in Collapsed, x.path = y.path PROVE x = y
    <3>1. PICK e \in run.entries : x = [e EXCEPT !.root = "."]
      BY <2>1
    <3>2. PICK f \in run.entries : y = [f EXCEPT !.root = "."]
      BY <2>1
    <3>3. e.path = f.path /\ e.root = f.root
      BY <2>2, <2>3, <2>5, <3>1, <3>2
    <3>4. e = Entry(e.root, e.path) /\ f = Entry(f.root, f.path)
      BY <1>2
    <3>5. e = f
      BY <3>3, <3>4
    <3> QED BY <3>1, <3>2, <3>5
  <2> QED BY <1>1, <2>4, <2>5 DEF Complete
<1> QED BY <1>3, <1>4

\* Every receipt stays whole.
LEMMA ReceiptsKept ==
    ASSUME WorldTyped, MemoryTyped, Loop, RootPhase, ReceiptsComplete, EntriesSound, GitSound,
           Next
    PROVE  ReceiptsComplete'
<1>g. Grown /\ blobs' = [s \in Stores |-> blobs'[s]]
  BY StepGrows
<1>0. ASSUME \A s \in Stores : \A r \in blobs'[s] \ blobs[s] : Complete(s, r)'
      PROVE  ReceiptsComplete'
  <2>1. \A s \in Stores : \A r \in blobs'[s] : Complete(s, r)'
    BY <1>0, <1>g, CompleteStays, ReceiptsCompleteIff
  <2> QED BY <2>1 DEF ReceiptsComplete, Complete
<1>1. ASSUME NEW b, Put(b), \A r \in b : r.kind \notin {"git", "fs"}
      PROVE  ReceiptsComplete'
  <2>1. \A s \in Stores : \A r \in blobs'[s] \ blobs[s] : r \in b
    BY <1>1, PutGrows
  <2>2. \A s \in Stores : \A r \in blobs'[s] \ blobs[s] : Complete(s, r)'
    BY <1>1, <2>1 DEF Complete
  <2> QED BY <1>0, <2>2
<1>2. ASSUME blobs' = blobs PROVE ReceiptsComplete'
  BY <1>0, <1>2
<1>3. ASSUME NEW r0, Put({r0}), Complete(Store, r0)
      PROVE  ReceiptsComplete'
  <2>1. PICK s : s = Store
    OBVIOUS
  <2>2. PICK r : r = r0
    OBVIOUS
  <2>3. s \in Stores /\ Complete(s, r)
    BY <1>3, <2>1, <2>2, PutGrows
  <2>4. Complete(s, r)'
    BY <1>g, <2>3, CompleteStays
  <2>5. \A t \in Stores : \A x \in blobs'[t] \ blobs[t] : t = s /\ x = r
    BY <1>3, <2>1, <2>2, PutGrows
  <2> QED BY <1>0, <2>4, <2>5
<1>4. CASE WalkEntry
  <2> DEFINE e0 == Entry(Root, Name)
  <2>1. blobs' = blobs \/ Put({e0.blob} \ {None})
    BY <1>4 DEF WalkEntry, Name
  <2>2. \A r \in {e0.blob} \ {None} : r.kind \notin {"git", "fs"}
    BY DEF Entry, FileBlob
  <2> HIDE DEF e0
  <2> QED BY <1>1, <1>2, <2>1, <2>2
<1>5. CASE StoreObjects
  <2>1. PICK d : Put({Object(c) : c \in d})
    BY <1>5 DEF StoreObjects
  <2>2. \A r \in {Object(c) : c \in d} : r.kind \notin {"git", "fs"}
    BY DEF Object
  <2> QED BY <1>1, <2>1, <2>2
<1>6. CASE writeGitReceipt
  <2>1. CASE blobs' = blobs
    BY <1>2, <2>1
  <2> DEFINE r0 == GitReceipt(run.live, run.objects)
  <2>2. CASE Put({r0})
    <3>1. r0.kind = "git" /\ r0.objects = run.objects /\ r0.tip = run.live
      BY DEF GitReceipt
    <3>2. Complete(Store, r0)
      BY <1>6, <3>1 DEF Complete, writeGitReceipt, GitSound
    <3> QED BY <1>3, <2>2, <3>2
  <2> QED BY <1>6, <2>1, <2>2 DEF writeGitReceipt
<1>7. CASE WriteReceipt
  <2>1. CASE blobs' = blobs
    BY <1>2, <2>1
  <2>2. CASE Put({FsReceipt(Collapsed)})
    <3>1. Complete(Store, FsReceipt(Collapsed))
      BY <1>7, CollapsedIsWhole DEF WriteReceipt
    <3> QED BY <1>3, <2>2, <3>1
  <2> QED BY <1>7, <2>1, <2>2, WriteReceiptFields DEF MemoryTyped
<1>8. CASE RecordFailures
  <2>1. CASE blobs' = blobs
    BY <1>2, <2>1
  <2>2. CASE Put({buildFailureReceipt})
    <3>1. \A r \in {buildFailureReceipt} : r.kind \notin {"git", "fs"}
      BY DEF buildFailureReceipt
    <3> QED BY <1>1, <2>2, <3>1
  <2> QED BY <1>8, <2>1, <2>2 DEF RecordFailures
<1>9. CASE ~(WalkEntry \/ StoreObjects \/ writeGitReceipt \/ WriteReceipt \/ RecordFailures)
  <2>1. blobs' = blobs
    BY <1>9 DEF Next, Start, planCapture, PlanEnd, BeginGroup, CaptureRoot, WalkDone,
       CaptureProtocol, listRemoteTip, fetchBranchInto, cloneBranchToMemory, Finish, Exit,
       Signal, Crash, Push
  <2> QED BY <1>2, <2>1
<1> QED BY <1>4, <1>5, <1>6, <1>7, <1>8, <1>9



(***************************************************************************)
(* The journal and the lines for it.                                       *)
(***************************************************************************)

\* A line stays sound in stores that grow.
LEMMA LineStays ==
    ASSUME Grown, NEW l, LineSound(l)
    PROVE  LineSound(l)'
BY DEF LineSound, Grown

\* The line of a group that failed: its failure receipt v has this id.
Note(receipt, v, id) ==
    [kind |-> "line", receipt |-> receipt, store |-> Store, roots |-> RootsOf(run.group),
     outcome |-> v.outcome, failures |-> id]

\* What recording the failure receipt v does to the lines: the group's line is annotated, a
\* line is added, or nothing tells of it.
LEMMA AnnotatedLines ==
    ASSUME MemoryTyped, LinesSound, pc = "failures", NEW v, NEW id
    PROVE  LET t == Annotated(v, id)
           IN \/ run.receipt = None /\ id = None /\ t = run.lines
              \/ /\ t \in Seq(ToSet(t)) /\ Len(t) \in Nat /\ Len(t) >= Len(run.lines)
                 /\ Note(run.receipt, v, id) \in ToSet(t)
                 /\ ToSet(t) \subseteq ToSet(run.lines) \cup {Note(run.receipt, v, id)}
                 /\ \A l \in ToSet(run.lines) : l \in ToSet(t) \/ l = GroupLine(run.receipt)
                 /\ run.receipt = None => id # None
<1> DEFINE t == Annotated(v, id)
<1>t. run.lines \in Seq(ToSet(run.lines)) /\ Len(run.lines) \in Nat
  BY DEF MemoryTyped
<1>1. CASE run.logIdx > 0
  <2>1. run.logIdx \in 1..Len(run.lines) /\ run.lines[run.logIdx] = GroupLine(run.receipt)
        /\ run.receipt.kind = "fs"
    BY <1>1 DEF LinesSound, MemoryTyped
  <2> DEFINE u == [run.lines EXCEPT ![run.logIdx].outcome = v.outcome]
  <2>2. t = [u EXCEPT ![run.logIdx].failures = id]
    BY <1>1 DEF Annotated
  <2>3. run.lines = [i \in 1..Len(run.lines) |-> run.lines[i]]
    BY DEF MemoryTyped
  <2>4. /\ u = [i \in 1..Len(run.lines) |-> IF i = run.logIdx THEN u[run.logIdx]
                                            ELSE run.lines[i]]
        /\ u[run.logIdx] = [run.lines[run.logIdx] EXCEPT !.outcome = v.outcome]
    BY <2>1, <2>3
  <2> HIDE DEF t, u
  <2>5. /\ t = [i \in 1..Len(run.lines) |-> IF i = run.logIdx THEN t[run.logIdx]
                                            ELSE run.lines[i]]
        /\ t[run.logIdx] = [u[run.logIdx] EXCEPT !.failures = id]
    BY <2>1, <2>2, <2>4
  <2>6. t[run.logIdx] = Note(run.receipt, v, id)
    <3>1. u[run.logIdx] = [GroupLine(run.receipt) EXCEPT !.outcome = v.outcome]
      BY <2>1, <2>4
    <3>2. u[run.logIdx] = [kind |-> "line", receipt |-> run.receipt, store |-> Store,
                           roots |-> RootsOf(run.group), outcome |-> v.outcome,
                           failures |-> None]
      BY <3>1 DEF GroupLine, LogLine
    <3> QED BY <2>5, <3>2 DEF Note
  <2> DEFINE T == ToSet(run.lines) \cup {t[run.logIdx]}
  <2>7. t \in Seq(T) /\ Len(t) = Len(run.lines)
    BY <1>t, <2>1, <2>5, OneReplaced
  <2>8. \A i \in 1..Len(run.lines) : i # run.logIdx => t[i] = run.lines[i]
    BY <2>5
  <2>9. /\ t \in Seq(ToSet(t))
        /\ ToSet(t) \subseteq ToSet(run.lines) \cup {t[run.logIdx]}
        /\ \A l \in ToSet(run.lines) : l = run.lines[run.logIdx] \/ l \in ToSet(t)
        /\ t[run.logIdx] \in ToSet(t)
    <3> HIDE DEF T
    <3> QED BY <1>t, <2>1, <2>7, <2>8, ReplaceSet
  <2>10. run.receipt # None
    BY <2>1 DEF None
  <2>11. Len(t) \in Nat /\ Len(t) >= Len(run.lines)
    BY <1>t, <2>7
  <2> QED BY <2>1, <2>6, <2>9, <2>10, <2>11 DEF t
<1>2. CASE ~(run.logIdx > 0)
  <2>1. run.logIdx = 0 /\ run.receipt = None
    BY <1>2 DEF LinesSound, MemoryTyped
  <2>2. CASE id = None
    BY <1>2, <2>1, <2>2 DEF Annotated
  <2>3. CASE id # None
    <3>5. PICK g : g = GroupLine(run.receipt)
      OBVIOUS
    <3>7. [g EXCEPT !.outcome = v.outcome, !.failures = id] = Note(run.receipt, v, id)
      <4>1. [g EXCEPT !.outcome = v.outcome, !.failures = id]
               = [[g EXCEPT !.outcome = v.outcome] EXCEPT !.failures = id]
        OBVIOUS
      <4>2. PICK h : h = [g EXCEPT !.outcome = v.outcome]
        OBVIOUS
      <4>3. h = [kind |-> "line", receipt |-> run.receipt, store |-> Store,
                 roots |-> RootsOf(run.group), outcome |-> v.outcome, failures |-> None]
        BY <3>5, <4>2 DEF GroupLine, LogLine
      <4>4. [h EXCEPT !.failures = id] = Note(run.receipt, v, id)
        BY <4>3 DEF Note
      <4> QED BY <4>1, <4>2, <4>4
    <3>4. [GroupLine(None) EXCEPT !.outcome = v.outcome, !.failures = id]
             = Note(run.receipt, v, id)
      BY <2>1, <3>5, <3>7
    <3>1. t = Append(run.lines, Note(run.receipt, v, id))
      BY <1>2, <2>3, <3>4 DEF Annotated
    <3>2. /\ t \in Seq(ToSet(t)) /\ Len(t) = Len(run.lines) + 1
          /\ ToSet(t) = ToSet(run.lines) \cup {Note(run.receipt, v, id)}
      BY <1>t, <3>1, AppendSet
    <3>3. Len(t) \in Nat /\ Len(t) >= Len(run.lines)
      BY <1>t, <3>2
    <3> QED BY <2>3, <3>2, <3>3
  <2> QED BY <2>2, <2>3
<1> QED BY <1>1, <1>2

\* A failure receipt is none of the process's markers.
LEMMA FailureReceiptFacts ==
    /\ buildFailureReceipt # None
    /\ buildFailureReceipt.receipt = run.receipt
    /\ buildFailureReceipt.roots = RootsOf(run.group)
    /\ buildFailureReceipt.failures = run.failures
    /\ buildFailureReceipt.outcome = IF run.aborted THEN "aborted" ELSE "failures"
<1>1. buildFailureReceipt.kind = "failures"
  BY DEF buildFailureReceipt
<1>2. buildFailureReceipt # None
  BY <1>1 DEF None
<1> QED BY <1>2 DEF buildFailureReceipt

\* The lines lead to what is stored.
LEMMA LinesKept ==
    ASSUME WorldTyped, MemoryTyped, Loop, RootPhase, LinesSound, Next
    PROVE  LinesSound'
<1>g. Grown
  BY StepGrows
<1>s. Store \in Stores
  BY DEF Store, MemoryTyped, GroupType
<1>l. \A l \in ToSet(run.lines) : LineSound(l)'
  <2>1. ASSUME NEW l \in ToSet(run.lines) PROVE LineSound(l)'
    BY <1>g, <2>1, LineStays DEF LinesSound
  <2> QED BY <2>1
<1>0. ASSUME run'.lines = run.lines, run'.logIdx = run.logIdx, run'.receipt = run.receipt,
             run'.group = run.group, pc' = "failures" => pc = "failures",
             InGroup' => InGroup /\ (pc = "failures" => pc' = "failures")
      PROVE  LinesSound'
  <2>1. Store' = Store
    BY <1>0 DEF Store
  <2>2. run.logIdx # 0 /\ pc' = "failures" =>
           /\ run'.lines[run'.logIdx] = GroupLine(run.receipt)'
           /\ run'.receipt \in blobs'[Store'] /\ run'.receipt.kind = "fs"
    BY <1>0, <1>g, <1>s, <2>1 DEF LinesSound, Grown, GroupLine
  <2>3. run'.logIdx \in 0..Len(run'.lines)
    BY <1>0 DEF LinesSound
  <2>4. InGroup' /\ pc' # "failures" => run'.logIdx = 0 /\ run'.receipt = None
    BY <1>0 DEF LinesSound
  <2>5. pc' = "failures" /\ run'.logIdx = 0 => run'.receipt = None
    BY <1>0 DEF LinesSound
  <2>6. \A l \in ToSet(run'.lines) : LineSound(l)'
    BY <1>0, <1>l
  <2> QED BY <1>0, <2>2, <2>3, <2>4, <2>5, <2>6 DEF LinesSound
<1>1. ASSUME run'.lines = <<>>, run'.logIdx = 0, ~InGroup' PROVE LinesSound'
  <2>1. ToSet(run'.lines) = {} /\ Len(run'.lines) = 0
    BY <1>1 DEF ToSet
  <2>2. pc' # "failures" /\ run'.logIdx \in 0..Len(run'.lines)
    BY <1>1, <2>1 DEF InGroup
  <2> QED BY <1>1, <2>1, <2>2 DEF LinesSound
<1>2. CASE \E args \in ArgLists : Start(args)
  <2>1. run'.lines = <<>> /\ run'.logIdx = 0 /\ ~InGroup'
    BY <1>2, StartFields, NoRunFields DEF Fields, InGroup
  <2> QED BY <1>1, <2>1
<1>3. CASE PlanStep
  <2>1. /\ run'.lines = run.lines /\ run'.logIdx = run.logIdx /\ run'.receipt = run.receipt
        /\ run'.group = run.group /\ ~InGroup' /\ pc' # "failures"
    BY <1>3, PlanCaptureFields, PlanEndFields
       DEF PlanStep, MemoryTyped, Keeps, Fields, InGroup
  <2> QED BY <1>0, <2>1
<1>4. CASE BeginGroup
  <2>1. /\ run'.lines = run.lines /\ run'.logIdx = 0 /\ run'.receipt = None
        /\ pc' = "roots"
    BY <1>4, BeginGroupFields DEF BeginGroup, MemoryTyped, Keeps
  <2>2. run'.logIdx \in 0..Len(run'.lines)
    <3>1. Len(run'.lines) \in Nat
      BY <2>1 DEF MemoryTyped
    <3> QED BY <2>1, <3>1
  <2>3. \A l \in ToSet(run'.lines) : LineSound(l)'
    BY <1>l, <2>1
  <2> QED BY <2>1, <2>2, <2>3 DEF LinesSound
<1>5. CASE Ends
  <2>1. run'.lines = <<>> /\ run'.logIdx = 0 /\ ~InGroup'
    BY <1>5, NoRunFields DEF Ends, InGroup
  <2> QED BY <1>1, <2>1
<1>6. CASE RootStep /\ ~(writeGitReceipt /\ ~ProtocolFails)
  <2>1. run'.lines = run.lines
    BY <1>6, CaptureRootFields, WalkEntryFields, WalkDoneFields, CaptureProtocolFields,
       ProtocolFailsFields, ListFields, FetchFields, CloneFields, RootSteps
       DEF RootStep, GitFails, MemoryTyped, Keeps, Fields, RootFields
  <2> QED BY <1>0, <1>6, <2>1, RootStepKeeps
<1>7. CASE writeGitReceipt /\ ~ProtocolFails
  <2> DEFINE r == GitReceipt(run.live, run.objects)
             n == LogLine(r, Store, {Root})
  <2>1. /\ run'.lines = Append(run.lines, n) /\ Put({r}) /\ pc' = "roots"
    BY <1>7, WriteGitFields DEF MemoryTyped
  <2>2. run'.logIdx = 0 /\ run'.receipt = None
    BY <1>7, RootStepKeeps DEF RootStep, LinesSound
  <2>3. r \in blobs'[Store]
    BY <2>1, PutGrows
  <2>4. r # None
    <3>1. r.kind = "git"
      BY DEF GitReceipt
    <3> QED BY <3>1 DEF None
  <2> HIDE DEF r
  <2>5. /\ n.kind = "line" /\ n.store = Store /\ n.receipt = r /\ n.failures = None
    BY DEF LogLine
  <2> HIDE DEF n
  <2>6. PICK l : l = n
    OBVIOUS
  <2>7. LineSound(l)'
    BY <1>s, <2>3, <2>4, <2>5, <2>6 DEF LineSound
  <2>8. /\ ToSet(run'.lines) = ToSet(run.lines) \cup {l} /\ Len(run'.lines) = Len(run.lines) + 1
    BY <2>1, <2>6, AppendSet DEF MemoryTyped
  <2>9. run'.logIdx \in 0..Len(run'.lines)
    <3>1. Len(run.lines) \in Nat
      BY DEF MemoryTyped
    <3> QED BY <2>2, <2>8, <3>1
  <2> QED BY <1>l, <2>1, <2>2, <2>7, <2>8, <2>9 DEF LinesSound
<1>8. CASE WriteReceipt
  <2>1. /\ run'.group = run.group /\ pc = "roots" /\ pc' = "failures"
        /\ run.logIdx = 0 /\ run.receipt = None
    BY <1>8, RootSteps, WriteReceiptFields DEF MemoryTyped, Keeps, Fields, LinesSound, InGroup
  <2>2. CASE run'.lines = run.lines /\ run'.logIdx = run.logIdx /\ run'.receipt = run.receipt
    <3>1. run'.logIdx \in 0..Len(run'.lines)
      BY <2>2 DEF LinesSound
    <3> QED BY <1>l, <2>1, <2>2, <3>1 DEF LinesSound
  <2> DEFINE r == FsReceipt(Collapsed)
  <2>3. CASE /\ Put({r}) /\ run'.receipt = r
             /\ run'.lines = Append(run.lines, GroupLine(r))
             /\ run'.logIdx = Len(run.lines) + 1
    <3>1. r.kind = "fs" /\ r \in blobs'[Store]
      BY <2>3, PutGrows DEF FsReceipt
    <3>2. r # None
      BY <3>1 DEF None
    <3> DEFINE n == GroupLine(r)
    <3> HIDE DEF r
    <3>3. /\ n.kind = "line" /\ n.store = Store /\ n.receipt = r /\ n.failures = None
      BY DEF GroupLine, LogLine
    <3>4. n = GroupLine(run.receipt)' /\ Store' = Store
      BY <2>1, <2>3 DEF GroupLine, Store
    <3> HIDE DEF n
    <3>5. PICK l : l = n
      OBVIOUS
    <3>6. LineSound(l)'
      BY <1>s, <3>1, <3>2, <3>3, <3>5 DEF LineSound
    <3>7. /\ ToSet(run'.lines) = ToSet(run.lines) \cup {l}
          /\ Len(run'.lines) = Len(run.lines) + 1
          /\ run'.lines[run'.logIdx] = n
      BY <2>3, <3>5, AppendSet DEF MemoryTyped, n
    <3>8. run'.logIdx \in 0..Len(run'.lines) /\ run'.logIdx # 0
      <4>1. Len(run.lines) \in Nat
        BY DEF MemoryTyped
      <4> QED BY <2>3, <3>7, <4>1
    <3>9. run'.receipt \in blobs'[Store'] /\ run'.receipt.kind = "fs"
      BY <2>3, <3>1, <3>4
    <3> QED BY <1>l, <2>1, <3>4, <3>6, <3>7, <3>8, <3>9 DEF LinesSound
  <2>4. WriteReceipt => \/ run'.lines = run.lines /\ run'.logIdx = run.logIdx
                           /\ run'.receipt = run.receipt
                        \/ /\ Put({r}) /\ run'.receipt = r
                           /\ run'.lines = Append(run.lines, GroupLine(r))
                           /\ run'.logIdx = Len(run.lines) + 1
    BY WriteReceiptFields DEF MemoryTyped
  <2> QED BY <1>8, <2>2, <2>3, <2>4
<1>9. CASE RecordFailures
  <2>1. /\ pc = "failures" /\ pc' = "groups" /\ run'.logIdx = run.logIdx
    BY <1>9, RootSteps, RecordFailuresFields DEF MemoryTyped, Keeps, Fields
  <2>2. run.logIdx \in 0..Len(run.lines) /\ Len(run.lines) \in Nat
    BY DEF LinesSound, MemoryTyped
  <2>3. CASE run'.lines = run.lines
    BY <1>l, <2>1, <2>2, <2>3 DEF LinesSound, InGroup
  <2> DEFINE v == buildFailureReceipt
  <2>4. ASSUME NEW id, run'.lines = Annotated(v, id), id = None \/ id = v,
               id = v => Put({v})
        PROVE  LinesSound'
    <3>1. CASE run'.lines = run.lines
      BY <2>3, <3>1
    <3>2. CASE run'.lines # run.lines
      <4>1. /\ Len(run'.lines) \in Nat /\ Len(run'.lines) >= Len(run.lines)
            /\ ToSet(run'.lines) \subseteq ToSet(run.lines) \cup {Note(run.receipt, v, id)}
            /\ run.receipt = None => id # None
        BY <2>1, <2>4, <3>2, AnnotatedLines
      <4>2. PICK l : l = Note(run.receipt, v, id)
        OBVIOUS
      <4>3. /\ l.kind = "line" /\ l.store = Store /\ l.receipt = run.receipt
            /\ l.roots = RootsOf(run.group) /\ l.outcome = v.outcome /\ l.failures = id
        BY <4>2 DEF Note
      <4>4. run.receipt # None => run.receipt \in blobs'[Store]
        BY <1>g, <1>s, <2>1 DEF LinesSound, Grown
      <4>5. v # None /\ v.receipt = run.receipt /\ v.roots = RootsOf(run.group)
        BY FailureReceiptFacts
      <4>6. id = v => v \in blobs'[Store]
        BY <2>4, PutGrows
      <4> HIDE DEF v
      <4>7. LineSound(l)'
        BY <1>s, <2>4, <4>1, <4>3, <4>4, <4>5, <4>6 DEF LineSound
      <4>8. \A k \in ToSet(run'.lines) : LineSound(k)'
        BY <1>l, <4>1, <4>2, <4>7
      <4>9. run'.logIdx \in 0..Len(run'.lines)
        BY <2>1, <2>2, <4>1
      <4> QED BY <2>1, <4>8, <4>9 DEF LinesSound, InGroup
    <3> QED BY <3>1, <3>2
  <2> HIDE DEF v
  <2>5. \/ run'.lines = run.lines
        \/ run'.lines = Annotated(v, v) /\ Put({v})
        \/ run'.lines = Annotated(v, None)
    BY <1>9, RecordFailuresFields DEF MemoryTyped, v
  <2>6. v # None
    BY FailureReceiptFacts DEF v
  <2> QED BY <2>3, <2>4, <2>5, <2>6
<1>10. CASE Finish \/ Push
  <2>1. run' = run /\ (pc' = pc \/ ~InGroup')
    BY <1>10 DEF Finish, Push, InGroup
  <2>2. CASE pc' = pc
    BY <1>0, <2>1, <2>2 DEF InGroup
  <2>3. CASE ~InGroup'
    BY <1>0, <2>1, <2>3 DEF InGroup
  <2> QED BY <2>1, <2>2, <2>3
<1>11. CASE Signal
  <2>1. /\ run'.lines = run.lines /\ run'.logIdx = run.logIdx /\ run'.receipt = run.receipt
        /\ run'.group = run.group /\ pc' = pc
    BY <1>11, SignalFields DEF Signal, MemoryTyped, Keeps, Fields
  <2> QED BY <1>0, <2>1 DEF InGroup
<1> QED BY <1>2, <1>3, <1>4, <1>5, <1>6, <1>7, <1>8, <1>9, <1>10, <1>11, StepKinds
        DEF RootStep

\* So do those of the journal.
LEMMA JournalKept ==
    ASSUME WorldTyped, MemoryTyped, JournalLines, LinesSound, Next
    PROVE  JournalLines'
<1>g. Grown
  BY StepGrows
<1>1. ToSet(journal') \subseteq ToSet(journal) \cup ToSet(run.lines) \cup {Torn}
  <2>1. CASE Finish
    BY <2>1, AppendLogAdds DEF Finish, WorldTyped, MemoryTyped
  <2>2. CASE ~Finish
    <3>1. journal' = journal
      BY <2>2, StepKinds DEF Start, PlanStep, planCapture, PlanEnd, BeginGroup, RootStep,
         GitFails, Next, CaptureRoot, WalkEntry, WalkDone, CaptureProtocol, listRemoteTip,
         fetchBranchInto, cloneBranchToMemory, StoreObjects, writeGitReceipt, WriteReceipt,
         RecordFailures, Exit, Crash, Signal, Push
    <3> QED BY <3>1
  <2> QED BY <2>1, <2>2
<1>2. ASSUME NEW l \in ToSet(journal) \cup ToSet(run.lines) PROVE l = Torn \/ LineSound(l)'
  BY <1>g, <1>2, LineStays DEF JournalLines, LinesSound
<1> QED BY <1>1, <1>2 DEF JournalLines


(***************************************************************************)
(* Failures.                                                               *)
(***************************************************************************)

\* The steps within a group, up to the recording of its failures.
GroupStep == RootStep \/ WriteReceipt

\* They report a failure and keep it, or do neither.
LEMMA GroupStepTells ==
    ASSUME MemoryTyped, GroupStep
    PROVE  /\ InGroup /\ InGroup'
           /\ run'.number = run.number /\ run'.plan = run.plan /\ run'.carry = run.carry
           /\ run'.group = run.group /\ run'.args = run.args
           /\ \/ /\ told' = told /\ run'.failures = run.failures
                 /\ run'.failCount = run.failCount
              \/ \E f : /\ Tell(f) /\ run'.failures = run.failures \cup {f}
                        /\ run'.failCount = run.failCount + 1
<1>1. CASE CaptureRoot \/ WalkDone \/ CaptureProtocol
  <2>1. told' = told /\ run'.failures = run.failures /\ run'.failCount = run.failCount
    BY <1>1, CaptureRootFields, WalkDoneFields, CaptureProtocolFields
       DEF CaptureRoot, WalkDone, CaptureProtocol, MemoryTyped, Keeps, Fields, RootFields
  <2> QED BY <1>1, <2>1, RootStepKeeps DEF RootStep
<1>2. CASE WalkEntry
  <2>1. \/ /\ told' = told /\ run'.failures = run.failures
           /\ run'.failCount = run.failCount
        \/ \E f : /\ Tell(f) /\ run'.failures = run.failures \cup {f}
                  /\ run'.failCount = run.failCount + 1
    BY <1>2, WalkEntryFields DEF MemoryTyped
  <2> QED BY <1>2, <2>1, RootStepKeeps DEF RootStep
<1>3. CASE GitFails
  <2>1. \E f : /\ Tell(f) /\ run'.failures = run.failures \cup {f}
               /\ run'.failCount = run.failCount + 1
    BY <1>3, ProtocolFailsFields DEF GitFails, MemoryTyped
  <2> QED BY <1>3, <2>1, RootStepKeeps DEF RootStep
<1>4. CASE \/ listRemoteTip /\ ~ProtocolFails
           \/ fetchBranchInto /\ ~ProtocolFails
           \/ cloneBranchToMemory /\ ~ProtocolFails
  <2>1. told' = told /\ run'.failures = run.failures /\ run'.failCount = run.failCount
    BY <1>4, ListFields, FetchFields, CloneFields DEF MemoryTyped, Keeps, Fields
  <2> QED BY <1>4, <2>1, RootStepKeeps DEF RootStep
<1>5. CASE StoreObjects /\ ~ProtocolFails
  <2>1. told' = told /\ run' = run
    BY <1>5 DEF StoreObjects
  <2> QED BY <1>5, <2>1, RootStepKeeps DEF RootStep
<1>6. CASE writeGitReceipt /\ ~ProtocolFails
  <2>1. told' = told /\ run'.failures = run.failures /\ run'.failCount = run.failCount
    BY <1>6, WriteGitFields DEF MemoryTyped, Keeps, Fields, RootFields
  <2> QED BY <1>6, <2>1, RootStepKeeps DEF RootStep
<1>7. CASE WriteReceipt
  <2>1. /\ run'.number = run.number /\ run'.plan = run.plan /\ run'.carry = run.carry
        /\ run'.group = run.group /\ run'.args = run.args
    BY <1>7, WriteReceiptFields DEF MemoryTyped, Keeps, Fields
  <2>2. \/ /\ told' = told /\ run'.failures = run.failures
           /\ run'.failCount = run.failCount
        \/ \E f : /\ Tell(f) /\ run'.failures = run.failures \cup {f}
                  /\ run'.failCount = run.failCount + 1
    BY <1>7, WriteReceiptFields DEF MemoryTyped
  <2> QED BY <1>7, <2>1, <2>2, RootSteps DEF InGroup
<1> QED BY <1>1, <1>2, <1>3, <1>4, <1>5, <1>6, <1>7 DEF GroupStep, RootStep

\* Recording the failures: what is reported of it.
LEMMA RecordTells ==
    ASSUME MemoryTyped, RecordFailures
    PROVE  /\ InGroup /\ ~InGroup' /\ pc = "failures" /\ pc' = "groups"
           /\ run'.number = run.number /\ run'.plan = run.plan /\ run'.carry = run.carry
           /\ run'.group = run.group /\ run'.args = run.args
           /\ run'.failures = run.failures /\ run'.failCount = run.failCount
           /\ \/ /\ told' = told /\ run.failures = {} /\ spills' = spills
                 /\ run'.lines = run.lines
              \/ \E v, w :
                    /\ v = buildFailureReceipt /\ w \in {"store", "spill", "lost"}
                    /\ told' = told \cup {[group |-> run.number, what |-> v, where |-> w]}
                    /\ spills' = IF w = "spill" THEN Append(spills, v) ELSE spills
                    /\ w = "store" => Put({v}) /\ run'.lines = Annotated(v, v)
                    /\ w = "spill" => run'.lines = Annotated(v, None)
                    /\ w = "lost" => run'.lines = run.lines
<1>1. InGroup /\ ~InGroup' /\ pc = "failures" /\ pc' = "groups"
  BY RootSteps DEF InGroup
<1>2. /\ run'.number = run.number /\ run'.plan = run.plan /\ run'.carry = run.carry
      /\ run'.group = run.group /\ run'.args = run.args
      /\ run'.failures = run.failures /\ run'.failCount = run.failCount
  BY RecordFailuresFields DEF MemoryTyped, Keeps, Fields
<1> DEFINE v == buildFailureReceipt
           Did(w) ==
              /\ told' = told \cup {[group |-> run.number, what |-> v, where |-> w]}
              /\ spills' = IF w = "spill" THEN Append(spills, v) ELSE spills
              /\ w = "store" => Put({v}) /\ run'.lines = Annotated(v, v)
              /\ w = "spill" => run'.lines = Annotated(v, None)
              /\ w = "lost" => run'.lines = run.lines
<1> HIDE DEF v
<1>3. \/ told' = told /\ run.failures = {} /\ spills' = spills /\ run'.lines = run.lines
      \/ Did("store") \/ Did("spill") \/ Did("lost")
  BY RecordFailuresFields DEF MemoryTyped, Filed, Spilled, v
<1>4. ASSUME NEW w \in {"store", "spill", "lost"}, Did(w)
      PROVE  \E x, y :
                /\ x = v /\ y \in {"store", "spill", "lost"}
                /\ told' = told \cup {[group |-> run.number, what |-> x, where |-> y]}
                /\ spills' = IF y = "spill" THEN Append(spills, x) ELSE spills
                /\ y = "store" => Put({x}) /\ run'.lines = Annotated(x, x)
                /\ y = "spill" => run'.lines = Annotated(x, None)
                /\ y = "lost" => run'.lines = run.lines
  <2> WITNESS v, w
  <2> QED BY <1>4
<1> HIDE DEF Did
<1> QED BY <1>1, <1>2, <1>3, <1>4 DEF v

\* The planning of a group's index.
LEMMA PlanIndex ==
    ASSUME MemoryTyped, Loop, pc # "plan", NEW g \in 1..run.number
    PROVE  g \in 1..Len(run.plan) /\ run.plan[g].store \in Stores
<1>1. run.plan \in Seq(GroupType) /\ Len(run.plan) \in Nat /\ run.number \in Nat
      /\ Len(run.groups) \in Nat
  BY DEF MemoryTyped
<1>2. run.number + Len(run.groups) = Len(run.plan)
  BY DEF Loop
<1>3. g \in 1..Len(run.plan)
  BY <1>1, <1>2
<1>4. run.plan[g] \in GroupType
  BY <1>1, <1>3, ElementOfSeq
<1> QED BY <1>3, <1>4 DEF GroupType

\* What planning an argument does.
LEMMA PlanCaptureEffect ==
    ASSUME MemoryTyped, planCapture, pc' = "plan"
    PROVE  LET a == Head(run.todo)
           IN /\ run.todo # <<>> /\ run'.args = run.args /\ run'.todo = Tail(run.todo)
              /\ run'.number = run.number /\ run'.aborted = run.aborted
              /\ \/ /\ a.kind \in {"unusable", "outside"}
                    /\ run'.failCount = run.failCount + 1
                    /\ run'.carry = run.carry \cup {Failure("", a.name, "plugin")}
                    /\ run'.current = run.current /\ run'.plan = run.plan
                 \/ /\ a.kind = "root"
                    /\ run'.failCount = run.failCount /\ run'.plan = run.plan
                    /\ run'.carry = run.carry
                    /\ run'.current = [run.current EXCEPT !.roots = Append(@, a.name)]
                 \/ /\ a.kind = "store"
                    /\ run'.failCount = run.failCount /\ run'.carry = run.carry
                    /\ run'.current = Group(a.name, <<>>)
                    /\ run'.plan = IF run.current.roots = <<>> THEN run.plan
                                   ELSE Append(run.plan, run.current)
<1> DEFINE a == Head(run.todo)
<1>1. /\ run.todo # <<>> /\ run'.todo = Tail(run.todo)
      /\ run'.args = run.args /\ run'.number = run.number /\ run'.aborted = run.aborted
  BY PlanCaptureFields DEF planCapture, MemoryTyped, Keeps, Fields
<1>2. CASE a.kind \in {"unusable", "outside"}
  <2>1. /\ run'.failCount = run.failCount + 1
        /\ run'.current = run.current /\ run'.plan = run.plan
    BY <1>2 DEF planCapture, PlanFails, MemoryTyped, RunShape, Fields
  <2>2. run'.carry = run.carry \cup {Failure("", a.name, "plugin")}
    BY <1>2 DEF planCapture, PlanFails, MemoryTyped, RunShape, Fields
  <2> QED BY <1>1, <1>2, <2>1, <2>2
<1>3. CASE a.kind = "root"
  <2>1. /\ run'.failCount = run.failCount /\ run'.plan = run.plan
        /\ run'.current = [run.current EXCEPT !.roots = Append(@, a.name)]
    BY <1>3 DEF planCapture, PlanFails, MemoryTyped, RunShape, Fields
  <2>2. run'.carry = run.carry
    BY <1>3 DEF planCapture, PlanFails, MemoryTyped, RunShape, Fields
  <2> QED BY <1>1, <1>3, <2>1, <2>2
<1>4. CASE a.kind = "store"
  <2>1. /\ run'.failCount = run.failCount /\ run'.current = Group(a.name, <<>>)
        /\ run'.plan = IF run.current.roots = <<>> THEN run.plan
                       ELSE Append(run.plan, run.current)
    BY <1>4 DEF planCapture, PlanFails, Flush, MemoryTyped, RunShape, Fields
  <2>2. run'.carry = run.carry
    BY <1>4 DEF planCapture, PlanFails, Flush, MemoryTyped, RunShape, Fields
  <2> QED BY <1>1, <1>4, <2>1, <2>2
<1> QED BY <1>2, <1>3, <1>4 DEF planCapture

\* A failure that was reported is kept for the failure receipt of its group.
LEMMA FailuresHeldKept ==
    ASSUME WorldTyped, MemoryTyped, Loop, FailuresHeld, Next
    PROVE  FailuresHeld'
<1>n. run.number \in Nat /\ run.failCount \in Nat
  BY DEF MemoryTyped
<1>0. ASSUME told' = told, run'.number = run.number, run'.carry = run.carry,
             run'.failCount = run.failCount, run.failures \subseteq run'.failures,
             InGroup' => InGroup, pc # "plan", pc' # "plan"
      PROVE  FailuresHeld'
  <2>1. Reported(run.number)' = Reported(run.number)
    BY <1>0 DEF Reported
  <2>2. InGroup' => \A t \in Reported(run.number)' : t.what \in run'.failures
    BY <1>0, <2>1 DEF FailuresHeld
  <2>3. \A t \in told' :
           /\ t.where \in {"events", "store", "spill", "lost"}
           /\ t.group \in Nat /\ t.group > 0
           /\ t.where = "events" =>
                 IF run'.number = 0 THEN t.group = 1 /\ t.what \in run'.carry
                 ELSE t.group <= run'.number
    BY <1>0 DEF FailuresHeld
  <2>4. run'.failCount > 0 <=> \E t \in told' : t.where = "events"
    BY <1>0 DEF FailuresHeld
  <2> QED BY <1>0, <2>2, <2>3, <2>4 DEF FailuresHeld
<1>1. ASSUME pc' = "plan", run'.failCount > 0 <=> run'.carry # {} PROVE FailuresHeld'
  BY <1>1 DEF FailuresHeld, InGroup
<1>2. CASE \E args \in ArgLists : Start(args)
  <2>1. pc' = "plan" /\ run'.failCount = 0 /\ run'.carry = {}
    BY <1>2, StartFields, NoRunFields DEF Fields
  <2> QED BY <1>1, <2>1
<1>3. CASE planCapture /\ pc = "plan" /\ pc' = "plan" /\ told' = told
  <2>1. \/ run'.failCount = run.failCount /\ run'.carry = run.carry
        \/ /\ run'.failCount = run.failCount + 1
           /\ \E f : run'.carry = run.carry \cup {f}
    BY <1>3, PlanCaptureEffect
  <2>b. run.failCount > 0 <=> run.carry # {}
    BY <1>3 DEF FailuresHeld
  <2>2. run'.failCount > 0 <=> run'.carry # {}
    BY <1>n, <2>1, <2>b
  <2> QED BY <1>1, <1>3, <2>2
<1>4. CASE PlanEnd /\ pc = "plan" /\ pc' = "groups"
  <2>1. run'.number = 0 /\ run'.carry = run.carry /\ run'.failCount = run.failCount
    BY <1>4, PlanEndFields DEF MemoryTyped, Loop, Keeps, Fields
  <2>2. told' = {[group |-> 1, what |-> f, where |-> "events"] : f \in run.carry}
    BY <1>4 DEF PlanEnd, PlanFails, Planned
  <2>3. \A t \in told' : t.group = 1 /\ t.where = "events" /\ t.what \in run'.carry
    BY <2>1, <2>2
  <2>4. run.carry # {} <=> \E t \in told' : t.where = "events"
    <3>1. ASSUME NEW f \in run.carry PROVE \E t \in told' : t.where = "events"
      <4>1. [group |-> 1, what |-> f, where |-> "events"] \in told'
        BY <2>2
      <4> QED BY <4>1
    <3>2. ASSUME NEW t \in told' PROVE run.carry # {}
      BY <2>1, <2>3
    <3> QED BY <3>1, <3>2
  <2>5. run'.failCount > 0 <=> \E t \in told' : t.where = "events"
    BY <1>4, <2>1, <2>4 DEF FailuresHeld
  <2> QED BY <1>4, <2>1, <2>3, <2>5 DEF FailuresHeld, InGroup
<1>5. CASE BeginGroup
  <2>1. /\ run'.number = run.number + 1 /\ run'.failures = run.carry
        /\ run'.failCount = run.failCount /\ told' = told /\ pc = "groups" /\ pc' = "roots"
    BY <1>5, BeginGroupFields DEF BeginGroup, MemoryTyped, Keeps
  <2>2. run'.number # 0 /\ run'.number > run.number
    BY <1>n, <2>1
  <2>3. \A t \in told : t.where = "events" =>
           /\ t.group \in Nat
           /\ t.group <= run'.number
           /\ t.group = run'.number => t.what \in run'.failures
    BY <1>n, <2>1, <2>2 DEF FailuresHeld
  <2> QED BY <2>1, <2>2, <2>3 DEF FailuresHeld, Reported, InGroup
<1>6. CASE GroupStep
  <2>1. /\ InGroup /\ InGroup' /\ run'.number = run.number /\ run'.carry = run.carry
        /\ pc # "plan" /\ pc' # "plan"
    BY <1>6, GroupStepTells DEF InGroup
  <2>2. CASE /\ told' = told /\ run'.failures = run.failures
             /\ run'.failCount = run.failCount
    BY <1>0, <2>1, <2>2
  <2>3. CASE \E f : /\ Tell(f) /\ run'.failures = run.failures \cup {f}
                    /\ run'.failCount = run.failCount + 1
    <3>1. PICK f : /\ Tell(f) /\ run'.failures = run.failures \cup {f}
                   /\ run'.failCount = run.failCount + 1
      BY <2>3
    <3>2. PICK x : x = [group |-> run.number, what |-> f, where |-> "events"]
      OBVIOUS
    <3>3. told' = told \cup {x} /\ x.group = run.number /\ x.what = f /\ x.where = "events"
      BY <3>1, <3>2 DEF Tell
    <3>4. run.number # 0 /\ run.number > 0
      BY <1>n, <2>1 DEF Loop
    <3>5. run'.failCount > 0
      BY <1>n, <3>1
    <3>6. \A t \in told' :
             /\ t.where \in {"events", "store", "spill", "lost"}
             /\ t.group \in Nat /\ t.group > 0
             /\ t.where = "events" => t.group <= run.number
             /\ t.where = "events" /\ t.group = run.number => t.what \in run'.failures
      BY <1>n, <2>1, <3>1, <3>3, <3>4 DEF FailuresHeld, Reported
    <3> QED BY <2>1, <3>3, <3>4, <3>5, <3>6 DEF FailuresHeld, Reported
  <2> QED BY <1>6, <2>2, <2>3, GroupStepTells
<1>7. CASE RecordFailures
  <2>1. /\ InGroup /\ ~InGroup' /\ pc # "plan" /\ pc' # "plan"
        /\ run'.number = run.number /\ run'.carry = run.carry
        /\ run'.failCount = run.failCount /\ run'.failures = run.failures
    BY <1>7, RecordTells DEF InGroup
  <2>2. CASE told' = told
    BY <1>0, <2>1, <2>2
  <2>3. CASE told' # told
    <3>1. PICK v, w : /\ w \in {"store", "spill", "lost"}
                      /\ told' = told \cup {[group |-> run.number, what |-> v, where |-> w]}
      BY <1>7, <2>3, RecordTells
    <3>2. PICK x : x = [group |-> run.number, what |-> v, where |-> w]
      OBVIOUS
    <3>3. told' = told \cup {x} /\ x.group = run.number /\ x.where \in {"store", "spill", "lost"}
      BY <3>1, <3>2
    <3>4. run.number # 0 /\ run.number > 0
      BY <1>n, <2>1 DEF Loop
    <3> QED BY <1>n, <2>1, <3>3, <3>4 DEF FailuresHeld
  <2> QED BY <2>2, <2>3
<1>8. CASE Ends
  <2>1. pc' = "idle" /\ told' = {} /\ run'.failCount = 0 /\ ~InGroup'
    BY <1>8, NoRunFields DEF Ends, InGroup
  <2> QED BY <2>1 DEF FailuresHeld
<1>9. CASE Finish
  <2>1. /\ run' = run /\ told' = told /\ ~InGroup' /\ pc # "plan" /\ pc' # "plan"
    BY <1>9 DEF Finish, InGroup
  <2> QED BY <1>0, <2>1
<1>10. CASE Signal \/ Push
  <2>1. /\ run'.number = run.number /\ run'.carry = run.carry /\ told' = told
        /\ run'.failCount = run.failCount /\ run'.failures = run.failures /\ pc' = pc
    BY <1>10, SignalFields DEF Signal, Push, MemoryTyped, Keeps, Fields
  <2> QED BY <1>0, <1>1, <2>1 DEF FailuresHeld, InGroup
<1> QED BY <1>2, <1>3, <1>4, <1>5, <1>6, <1>7, <1>8, <1>9, <1>10, StepKinds
        DEF GroupStep, PlanStep


\* A spilled failure receipt stays spilled.
LEMMA SpillsStay ==
    ASSUME WorldTyped, NEW v, spills' = spills \/ spills' = Append(spills, v), NEW x,
           \E i \in DOMAIN spills : spills[i] = x
    PROVE  \E i \in DOMAIN spills' : spills'[i] = x
<1>1. CASE spills' = spills
  BY <1>1
<1>2. CASE spills' = Append(spills, v)
  <2>1. /\ spills \in Seq(ToSet(spills)) /\ spills' \in Seq(ToSet(spills'))
        /\ Len(spills') = Len(spills) + 1
        /\ \A i \in 1..Len(spills) : spills'[i] = spills[i]
    BY <1>2, AppendSet DEF WorldTyped
  <2>2. DOMAIN spills = 1..Len(spills) /\ DOMAIN spills' = 1..Len(spills')
        /\ Len(spills) \in Nat
    BY <2>1
  <2>3. PICK i \in 1..Len(spills) : spills[i] = x
    BY <2>2
  <2>4. i \in 1..Len(spills') /\ spills'[i] = x
    BY <2>1, <2>2, <2>3
  <2> QED BY <2>2, <2>4
<1> QED BY <1>1, <1>2

\* One that is appended is spilled.
LEMMA SpilledIsThere ==
    ASSUME WorldTyped, NEW v, spills' = Append(spills, v)
    PROVE  \E i \in DOMAIN spills' : spills'[i] = v
<1>1. /\ spills' \in Seq(ToSet(spills'))
      /\ Len(spills') = Len(spills) + 1 /\ spills'[Len(spills) + 1] = v
  BY AppendSet DEF WorldTyped
<1>2. DOMAIN spills' = 1..Len(spills') /\ Len(spills) \in Nat
  BY <1>1 DEF WorldTyped
<1> QED BY <1>1, <1>2

\* What is reported of a group that is over is filed, where the report says.
LEMMA FiledKept ==
    ASSUME WorldTyped, MemoryTyped, Loop, FailuresHeld, FailuresFiledSoFar, Next
    PROVE  FailuresFiledSoFar'
<1>n. run.number \in Nat
  BY DEF MemoryTyped
<1>g. Grown
  BY StepGrows
<1>0. ASSUME pc # "plan", told' = told, run'.plan = run.plan, Over' = Over,
             \E v : spills' = spills \/ spills' = Append(spills, v)
      PROVE  FailuresFiledSoFar'
  <2>1. ASSUME NEW t \in told, t.where # "events"
        PROVE  /\ t.group \in Over
               /\ t.where = "store" => t.what \in blobs'[run.plan[t.group].store]
               /\ t.where = "spill" => \E i \in DOMAIN spills' : spills'[i] = t.what
               /\ t.what.outcome \in {"failures", "aborted"}
    <3>1. /\ t.group \in Over
          /\ t.where = "store" => t.what \in blobs[run.plan[t.group].store]
          /\ t.where = "spill" => \E i \in DOMAIN spills : spills[i] = t.what
          /\ t.what.outcome \in {"failures", "aborted"}
      BY <1>0, <2>1 DEF FailuresFiledSoFar
    <3>2. run.plan[t.group].store \in Stores
      BY <1>0, <3>1, PlanIndex DEF Over
    <3>3. t.where = "spill" => \E i \in DOMAIN spills' : spills'[i] = t.what
      BY <1>0, <3>1, SpillsStay
    <3> QED BY <1>g, <3>1, <3>2, <3>3 DEF Grown
  <2>2. \A g \in Over : \A t \in Reported(g)' :
           \E u \in FiledOf(g)' : t.what \in u.what.failures
    BY <1>0 DEF FailuresFiledSoFar, Reported, FiledOf
  <2> QED BY <1>0, <2>1, <2>2 DEF FailuresFiledSoFar, Reported, FiledOf
<1>1. ASSUME told' = {} PROVE FailuresFiledSoFar'
  BY <1>1 DEF FailuresFiledSoFar, Reported
<1>2. CASE \E args \in ArgLists : Start(args)
  BY <1>1, <1>2, StartFields
<1>3. CASE planCapture /\ pc = "plan" /\ pc' = "plan" /\ told' = told
  BY <1>3 DEF FailuresFiledSoFar
<1>4. CASE PlanEnd /\ pc = "plan" /\ pc' = "groups"
  <2>1. run'.number = 0
    BY <1>4, PlanEndFields DEF MemoryTyped, Loop, Keeps, Fields
  <2>2. told' = {[group |-> 1, what |-> f, where |-> "events"] : f \in run.carry}
    BY <1>4 DEF PlanEnd, PlanFails, Planned
  <2>3. \A t \in told' : t.where = "events"
    BY <2>2
  <2>4. Over' = {}
    BY <2>1 DEF Over
  <2> QED BY <2>3, <2>4 DEF FailuresFiledSoFar
<1>5. CASE BeginGroup
  <2>1. /\ run'.number = run.number + 1 /\ run'.plan = run.plan /\ told' = told
        /\ spills' = spills /\ pc = "groups" /\ pc' = "roots"
    BY <1>5, BeginGroupFields DEF BeginGroup, MemoryTyped, Keeps
  <2>2. Over' = Over
    <3>1. Over = 1..run.number
      BY <2>1 DEF Over, InGroup
    <3>2. Over' = {g \in 1..(run.number + 1) : g < run.number + 1}
      BY <2>1 DEF Over, InGroup
    <3> QED BY <1>n, <3>1, <3>2
  <2> QED BY <1>0, <2>1, <2>2
<1>6. CASE GroupStep
  <2>1. /\ InGroup /\ InGroup' /\ run'.number = run.number /\ run'.plan = run.plan
        /\ pc # "plan" /\ pc' # "plan"
    BY <1>6, GroupStepTells DEF InGroup
  <2>2. Over' = Over
    BY <2>1 DEF Over
  <2>3. spills' = spills
    BY <1>6 DEF GroupStep, RootStep, GitFails, Next, CaptureRoot, WalkEntry, WalkDone,
       CaptureProtocol, listRemoteTip, fetchBranchInto, cloneBranchToMemory, StoreObjects,
       writeGitReceipt, WriteReceipt, Start, planCapture, PlanEnd, BeginGroup,
       RecordFailures, Finish, Exit, Signal, Crash, Push
  <2>4. CASE told' = told
    BY <1>0, <2>1, <2>2, <2>3, <2>4
  <2>5. CASE \E f : Tell(f)
    <3>1. PICK f : Tell(f)
      BY <2>5
    <3>2. PICK x : x = [group |-> run.number, what |-> f, where |-> "events"]
      OBVIOUS
    <3>3. told' = told \cup {x} /\ x.group = run.number /\ x.where = "events"
      BY <3>1, <3>2 DEF Tell
    <3>4. \A g \in Over : Reported(g)' = Reported(g) /\ FiledOf(g)' = FiledOf(g)
      <4> TAKE g \in Over
      <4>1. g # run.number
        BY <1>n, <2>1 DEF Over
      <4> QED BY <3>3, <4>1 DEF Reported, FiledOf
    <3>5. \A t \in told' : t.where # "events" =>
             /\ t.group \in Over
             /\ t.where = "store" => t.what \in blobs'[run.plan[t.group].store]
             /\ t.where = "spill" => \E i \in DOMAIN spills : spills[i] = t.what
             /\ t.what.outcome \in {"failures", "aborted"}
      <4> SUFFICES ASSUME NEW t \in told, t.where # "events"
                   PROVE  /\ t.group \in Over
                          /\ t.where = "store" =>
                                t.what \in blobs'[run.plan[t.group].store]
                          /\ t.where = "spill" => \E i \in DOMAIN spills : spills[i] = t.what
                          /\ t.what.outcome \in {"failures", "aborted"}
        BY <3>3
      <4>1. /\ t.group \in Over
            /\ t.where = "store" => t.what \in blobs[run.plan[t.group].store]
            /\ t.where = "spill" => \E i \in DOMAIN spills : spills[i] = t.what
            /\ t.what.outcome \in {"failures", "aborted"}
        BY <2>1 DEF FailuresFiledSoFar
      <4>2. run.plan[t.group].store \in Stores
        BY <2>1, <4>1, PlanIndex DEF Over
      <4> QED BY <1>g, <4>1, <4>2 DEF Grown
    <3>6. \A g \in Over : \A t \in Reported(g)' :
             \E u \in FiledOf(g)' : t.what \in u.what.failures
      BY <2>1, <3>4 DEF FailuresFiledSoFar
    <3> QED BY <2>1, <2>2, <2>3, <3>5, <3>6 DEF FailuresFiledSoFar
  <2> QED BY <1>6, <2>4, <2>5, GroupStepTells
<1>7. CASE RecordFailures
  <2>1. /\ InGroup /\ ~InGroup' /\ pc # "plan" /\ pc' # "plan"
        /\ run'.number = run.number /\ run'.plan = run.plan
    BY <1>7, RecordTells DEF InGroup
  <2>2. run.number > 0 /\ run.group = run.plan[run.number] /\ run.number \in 1..run.number
    BY <1>n, <2>1 DEF Loop
  <2>3. Over' = Over \cup {run.number} /\ run.number \notin Over
    BY <1>n, <2>1, <2>2 DEF Over
  <2>4. CASE told' = told /\ run.failures = {} /\ spills' = spills
    <3>1. Reported(run.number) = {}
      BY <2>1, <2>4 DEF FailuresHeld
    <3>2. \A g \in Over' : \A t \in Reported(g)' :
             \E u \in FiledOf(g)' : t.what \in u.what.failures
      BY <2>1, <2>3, <2>4, <3>1 DEF FailuresFiledSoFar, Reported, FiledOf
    <3>3. \A t \in told : t.where # "events" =>
             /\ t.group \in Over
             /\ t.where = "store" => t.what \in blobs'[run.plan[t.group].store]
             /\ t.where = "spill" => \E i \in DOMAIN spills : spills[i] = t.what
             /\ t.what.outcome \in {"failures", "aborted"}
      <4> SUFFICES ASSUME NEW t \in told, t.where # "events"
                   PROVE  /\ t.group \in Over
                          /\ t.where = "store" =>
                                t.what \in blobs'[run.plan[t.group].store]
                          /\ t.where = "spill" => \E i \in DOMAIN spills : spills[i] = t.what
                          /\ t.what.outcome \in {"failures", "aborted"}
        OBVIOUS
      <4>1. /\ t.group \in Over
            /\ t.where = "store" => t.what \in blobs[run.plan[t.group].store]
            /\ t.where = "spill" => \E i \in DOMAIN spills : spills[i] = t.what
            /\ t.what.outcome \in {"failures", "aborted"}
        BY <2>1 DEF FailuresFiledSoFar
      <4>2. run.plan[t.group].store \in Stores
        BY <2>1, <4>1, PlanIndex DEF Over
      <4> QED BY <1>g, <4>1, <4>2 DEF Grown
    <3> QED BY <2>1, <2>3, <2>4, <3>2, <3>3 DEF FailuresFiledSoFar
  <2>5. ASSUME NEW v, NEW w, v = buildFailureReceipt, w \in {"store", "spill", "lost"},
               told' = told \cup {[group |-> run.number, what |-> v, where |-> w]},
               spills' = IF w = "spill" THEN Append(spills, v) ELSE spills,
               w = "store" => Put({v})
        PROVE  FailuresFiledSoFar'
    <3>1. PICK x : x = [group |-> run.number, what |-> v, where |-> w]
      OBVIOUS
    <3>2. told' = told \cup {x} /\ x.group = run.number /\ x.where = w /\ x.what = v
          /\ w # "events"
      BY <2>5, <3>1
    <3>3. v.failures = run.failures /\ v.outcome \in {"failures", "aborted"}
      BY <2>5, FailureReceiptFacts
    <3>4. w = "store" => v \in blobs'[run.plan[run.number].store]
      BY <2>2, <2>5, PutGrows DEF Store
    <3>5. w = "spill" => \E i \in DOMAIN spills' : spills'[i] = v
      BY <2>5, SpilledIsThere
    <3>6. ASSUME NEW t \in told, t.where # "events"
          PROVE  /\ t.group \in Over
                 /\ t.where = "store" => t.what \in blobs'[run.plan[t.group].store]
                 /\ t.where = "spill" => \E i \in DOMAIN spills' : spills'[i] = t.what
                 /\ t.what.outcome \in {"failures", "aborted"}
      <4>1. /\ t.group \in Over
            /\ t.where = "store" => t.what \in blobs[run.plan[t.group].store]
            /\ t.where = "spill" => \E i \in DOMAIN spills : spills[i] = t.what
            /\ t.what.outcome \in {"failures", "aborted"}
        BY <2>1, <3>6 DEF FailuresFiledSoFar
      <4>2. run.plan[t.group].store \in Stores
        BY <2>1, <4>1, PlanIndex DEF Over
      <4>3. t.where = "spill" => \E i \in DOMAIN spills' : spills'[i] = t.what
        BY <2>5, <4>1, SpillsStay
      <4> QED BY <1>g, <4>1, <4>2, <4>3 DEF Grown
    <3>7. \A t \in told' : t.where # "events" =>
             /\ t.group \in Over'
             /\ t.where = "store" => t.what \in blobs'[run'.plan[t.group].store]
             /\ t.where = "spill" => \E i \in DOMAIN spills' : spills'[i] = t.what
             /\ t.what.outcome \in {"failures", "aborted"}
      BY <2>1, <2>3, <3>2, <3>3, <3>4, <3>5, <3>6
    <3>8. ASSUME NEW g \in Over', NEW t \in Reported(g)'
          PROVE  \E u \in FiledOf(g)' : t.what \in u.what.failures
      <4>1. t \in told /\ t.group = g /\ t.where = "events"
        BY <3>2, <3>8 DEF Reported
      <4>2. CASE g \in Over
        <5>1. PICK u \in FiledOf(g) : t.what \in u.what.failures
          BY <2>1, <4>1, <4>2 DEF FailuresFiledSoFar, Reported
        <5>2. u \in FiledOf(g)'
          BY <3>2, <5>1 DEF FiledOf
        <5> QED BY <5>1, <5>2
      <4>3. CASE g = run.number
        <5>1. t.what \in run.failures
          BY <2>1, <4>1, <4>3 DEF FailuresHeld, Reported
        <5>2. x \in FiledOf(g)'
          BY <3>2, <4>3 DEF FiledOf
        <5> QED BY <3>2, <3>3, <5>1, <5>2
      <4> QED BY <2>3, <3>8, <4>2, <4>3
    <3> QED BY <2>1, <3>7, <3>8 DEF FailuresFiledSoFar
  <2>6. \/ told' = told /\ run.failures = {} /\ spills' = spills
        \/ \E v, w :
              /\ v = buildFailureReceipt /\ w \in {"store", "spill", "lost"}
              /\ told' = told \cup {[group |-> run.number, what |-> v, where |-> w]}
              /\ spills' = IF w = "spill" THEN Append(spills, v) ELSE spills
              /\ w = "store" => Put({v})
    BY <1>7, RecordTells
  <2> QED BY <2>4, <2>5, <2>6
<1>8. CASE Ends
  BY <1>1, <1>8 DEF Ends
<1>9. CASE Finish
  <2>1. /\ run' = run /\ told' = told /\ ~InGroup /\ ~InGroup' /\ pc # "plan"
        /\ spills' = spills
    BY <1>9 DEF Finish, InGroup
  <2>2. Over' = Over
    BY <2>1 DEF Over
  <2> QED BY <1>0, <2>1, <2>2
<1>10. CASE Signal \/ Push
  <2>1. /\ run'.number = run.number /\ run'.plan = run.plan /\ told' = told
        /\ spills' = spills /\ pc' = pc
    BY <1>10, SignalFields DEF Signal, Push, MemoryTyped, Keeps, Fields
  <2>2. Over' = Over
    BY <2>1 DEF Over, InGroup
  <2>3. CASE pc = "plan"
    BY <2>1, <2>3 DEF FailuresFiledSoFar
  <2> QED BY <1>0, <2>1, <2>2, <2>3
<1> QED BY <1>2, <1>3, <1>4, <1>5, <1>6, <1>7, <1>8, <1>9, <1>10, StepKinds
        DEF GroupStep, PlanStep


\* The lines a group leaves behind: none is lost before the failures are recorded.
LEMMA GroupStepLines ==
    ASSUME MemoryTyped, GroupStep
    PROVE  /\ ToSet(run.lines) \subseteq ToSet(run'.lines)
           /\ run'.lines = run.lines \/ \E l : run'.lines = Append(run.lines, l)
<1>1. run'.lines = run.lines \/ \E l : run'.lines = Append(run.lines, l)
  <2>1. CASE RootStep /\ ~(writeGitReceipt /\ ~ProtocolFails)
    <3>1. run'.lines = run.lines
      BY <2>1, CaptureRootFields, WalkEntryFields, WalkDoneFields, CaptureProtocolFields,
         ProtocolFailsFields, ListFields, FetchFields, CloneFields, RootSteps
         DEF RootStep, GitFails, MemoryTyped, Keeps, Fields, RootFields
    <3> QED BY <3>1
  <2>2. CASE writeGitReceipt /\ ~ProtocolFails
    BY <2>2, WriteGitFields DEF MemoryTyped
  <2>3. CASE WriteReceipt
    BY <2>3, WriteReceiptFields DEF MemoryTyped
  <2> QED BY <2>1, <2>2, <2>3 DEF GroupStep
<1>2. ASSUME NEW l, run'.lines = Append(run.lines, l)
      PROVE  ToSet(run.lines) \subseteq ToSet(run'.lines)
  BY <1>2, AppendSet DEF MemoryTyped
<1> QED BY <1>1, <1>2

\* The lines keep leading to what was filed.
LEMMA LinesLeadKept ==
    ASSUME WorldTyped, MemoryTyped, Loop, LinesSound, FailuresHeld, FailuresFiledSoFar,
           LinesLead, Next
    PROVE  LinesLead'
<1>n. run.number \in Nat
  BY DEF MemoryTyped
<1>0. ASSUME pc # "plan", \A t \in told' : t \in told \/ t.where \in {"events", "lost"},
             run'.plan = run.plan, ToSet(run.lines) \subseteq ToSet(run'.lines)
      PROVE  LinesLead'
  BY <1>0 DEF LinesLead, LeadsTo
<1>1. ASSUME \A t \in told' : t.where = "events" PROVE LinesLead'
  BY <1>1 DEF LinesLead
<1>2. CASE \E args \in ArgLists : Start(args)
  BY <1>1, <1>2, StartFields
<1>3. CASE planCapture /\ pc = "plan" /\ pc' = "plan" /\ told' = told
  BY <1>3 DEF LinesLead
<1>4. CASE PlanEnd /\ pc = "plan" /\ pc' = "groups"
  <2>1. told' = {[group |-> 1, what |-> f, where |-> "events"] : f \in run.carry}
    BY <1>4 DEF PlanEnd, PlanFails, Planned
  <2>2. \A t \in told' : t.where = "events"
    BY <2>1
  <2> QED BY <1>1, <2>2
<1>5. CASE BeginGroup
  <2>1. run'.plan = run.plan /\ run'.lines = run.lines /\ told' = told /\ pc = "groups"
    BY <1>5, BeginGroupFields DEF BeginGroup, MemoryTyped, Keeps
  <2> QED BY <1>0, <2>1
<1>6. CASE GroupStep
  <2>1. run'.plan = run.plan /\ pc # "plan"
    BY <1>6, GroupStepTells DEF InGroup
  <2>2. \A t \in told' : t \in told \/ t.where = "events"
    <3>1. ASSUME NEW f, Tell(f) PROVE \A t \in told' : t \in told \/ t.where = "events"
      BY <3>1 DEF Tell
    <3> QED BY <1>6, <3>1, GroupStepTells
  <2>3. ToSet(run.lines) \subseteq ToSet(run'.lines)
    BY <1>6, GroupStepLines
  <2> QED BY <1>0, <2>1, <2>2, <2>3
<1>7. CASE RecordFailures
  <2>1. /\ InGroup /\ pc = "failures" /\ pc # "plan" /\ run'.plan = run.plan
        /\ run'.number = run.number
    BY <1>7, RecordTells
  <2>2. run.number > 0 /\ run.group = run.plan[run.number]
    BY <1>n, <2>1 DEF Loop
  <2>3. CASE told' = told /\ run'.lines = run.lines
    BY <1>0, <2>1, <2>3
  <2>4. ASSUME NEW v, NEW w, v = buildFailureReceipt, w \in {"store", "spill", "lost"},
               told' = told \cup {[group |-> run.number, what |-> v, where |-> w]},
               w = "store" => run'.lines = Annotated(v, v),
               w = "spill" => run'.lines = Annotated(v, None),
               w = "lost" => run'.lines = run.lines
        PROVE  LinesLead'
    <3>1. PICK x : x = [group |-> run.number, what |-> v, where |-> w]
      OBVIOUS
    <3>2. told' = told \cup {x} /\ x.group = run.number /\ x.where = w /\ x.what = v
      BY <2>4, <3>1
    <3>3. CASE w = "lost"
      BY <1>0, <2>1, <2>4, <3>2, <3>3
    <3>4. CASE w \in {"store", "spill"}
      <4>1. PICK id : id = IF w = "store" THEN v ELSE None
        OBVIOUS
      <4>2. run'.lines = Annotated(v, id)
        BY <2>4, <3>4, <4>1
      <4>3. v # None /\ v.receipt = run.receipt /\ v.outcome \in {"failures", "aborted"}
        BY <2>4, FailureReceiptFacts
      <4>4. CASE run.receipt = None /\ id = None /\ run'.lines = run.lines
        <5>1. w = "spill"
          BY <3>4, <4>1, <4>3, <4>4
        <5>2. \A t \in told' : t \in told \/ (t.where = "spill" /\ t.what.receipt = None)
          BY <3>2, <4>3, <4>4, <5>1
        <5> QED BY <2>1, <4>4, <5>2 DEF LinesLead, LeadsTo
      <4>5. CASE /\ Note(run.receipt, v, id) \in ToSet(run'.lines)
                 /\ \A l \in ToSet(run.lines) :
                       l \in ToSet(run'.lines) \/ l = GroupLine(run.receipt)
        <5>1. PICK note : note = Note(run.receipt, v, id)
          OBVIOUS
        <5>2. /\ note \in ToSet(run'.lines)
              /\ note.store = Store /\ note.receipt = run.receipt
              /\ note.roots = RootsOf(run.group)
              /\ note.outcome = v.outcome /\ note.failures = id
          BY <4>5, <5>1 DEF Note
        <5>3. LeadsTo(note, x, run.plan[run.number])
          BY <2>2, <3>2, <4>1, <4>3, <5>2 DEF LeadsTo, Store
        <5>4. GroupLine(run.receipt).outcome = ""
          BY DEF GroupLine, LogLine
        <5>5. ASSUME NEW u \in told,
                     u.where = "store" \/ (u.where = "spill" /\ u.what.receipt # None)
              PROVE  \E l \in ToSet(run'.lines) : LeadsTo(l, u, run.plan[u.group])
          <6>1. PICK l \in ToSet(run.lines) : LeadsTo(l, u, run.plan[u.group])
            BY <2>1, <5>5 DEF LinesLead
          <6>2. u.what.outcome \in {"failures", "aborted"}
            BY <2>1, <5>5 DEF FailuresFiledSoFar
          <6>3. l.outcome # ""
            BY <6>1, <6>2 DEF LeadsTo
          <6>4. l \in ToSet(run'.lines)
            BY <4>5, <5>4, <6>3
          <6> QED BY <6>1, <6>4
        <5>6. \A u \in told' :
                 u.where = "store" \/ (u.where = "spill" /\ u.what.receipt # None) =>
                    \E l \in ToSet(run'.lines) : LeadsTo(l, u, run.plan[u.group])
          BY <3>2, <5>2, <5>3, <5>5
        <5> QED BY <2>1, <5>6 DEF LinesLead, LeadsTo
      <4> QED BY <2>1, <4>2, <4>4, <4>5, AnnotatedLines
    <3> QED BY <2>4, <3>3, <3>4
  <2>5. \/ told' = told /\ run'.lines = run.lines
        \/ \E v, w :
              /\ v = buildFailureReceipt /\ w \in {"store", "spill", "lost"}
              /\ told' = told \cup {[group |-> run.number, what |-> v, where |-> w]}
              /\ w = "store" => run'.lines = Annotated(v, v)
              /\ w = "spill" => run'.lines = Annotated(v, None)
              /\ w = "lost" => run'.lines = run.lines
    <3>1. ASSUME told' = told /\ run.failures = {} /\ spills' = spills
                 /\ run'.lines = run.lines
          PROVE  told' = told /\ run'.lines = run.lines
      BY <3>1
    <3>2. ASSUME NEW v, NEW w, w = "store" => Put({v}) /\ run'.lines = Annotated(v, v)
          PROVE  w = "store" => run'.lines = Annotated(v, v)
      BY <3>2
    <3> QED BY <1>7, <3>1, <3>2, RecordTells
  <2> QED BY <2>3, <2>4, <2>5
<1>8. CASE Ends
  BY <1>1, <1>8 DEF Ends
<1>9. CASE Finish
  <2>1. run' = run /\ told' = told /\ pc # "plan"
    BY <1>9 DEF Finish
  <2> QED BY <1>0, <2>1
<1>10. CASE Signal \/ Push
  <2>1. run'.lines = run.lines /\ run'.plan = run.plan /\ told' = told /\ pc' = pc
    BY <1>10, SignalFields DEF Signal, Push, MemoryTyped, Keeps, Fields
  <2>2. CASE pc = "plan"
    BY <2>1, <2>2 DEF LinesLead
  <2> QED BY <1>0, <2>1, <2>2
<1> QED BY <1>2, <1>3, <1>4, <1>5, <1>6, <1>7, <1>8, <1>9, <1>10, StepKinds
        DEF GroupStep, PlanStep


(***************************************************************************)
(* Planning.                                                               *)
(***************************************************************************)

\* The store named last, one argument further on.
LEMMA StoreAtNext ==
    ASSUME NEW args \in Seq(Args), NEW i \in 1..Len(args)
    PROVE  StoreAt(args, i + 1) = IF args[i].kind = "store" THEN args[i].name
                                  ELSE StoreAt(args, i)
<1> DEFINE named(n) == {j \in 1..(n - 1) : args[j].kind = "store"}
           S == named(i + 1)
           T == named(i)
<1>0. i \in Nat /\ i > 0 /\ (i + 1) - 1 = i /\ 1..i = 1..(i - 1) \cup {i}
  BY LenProperties
<1>3. /\ StoreAt(args, i + 1) =
            IF S = {} THEN DefaultStore ELSE args[CHOOSE j \in S : \A k \in S : k <= j].name
      /\ StoreAt(args, i) =
            IF T = {} THEN DefaultStore ELSE args[CHOOSE j \in T : \A k \in T : k <= j].name
  BY DEF StoreAt
<1>1. CASE args[i].kind # "store"
  <2>1. S = T
    BY <1>0, <1>1
  <2> HIDE DEF S, T
  <2> QED BY <1>1, <1>3, <2>1
<1>2. CASE args[i].kind = "store"
  <2> DEFINE c == CHOOSE j \in S : \A k \in S : k <= j
  <2>1. i \in S /\ \A k \in S : k \in 1..i
    BY <1>0, <1>2
  <2> HIDE DEF S, T
  <2>2. \A k \in S : k <= i
    BY <1>0, <2>1
  <2>3. c \in S /\ \A k \in S : k <= c
    BY <2>1, <2>2
  <2> HIDE DEF c
  <2>6. c \in 1..i /\ i <= c
    BY <2>1, <2>3
  <2>4. c = i
    BY <1>0, <2>6
  <2>5. StoreAt(args, i + 1) = IF S = {} THEN DefaultStore ELSE args[c].name
    BY <1>3 DEF c
  <2> QED BY <1>2, <2>1, <2>4, <2>5
<1> QED BY <1>1, <1>2

\* Before any argument, it is the default store.
LEMMA StoreAtFirst == \A args : StoreAt(args, 1) = DefaultStore
<1> TAKE args
<1>1. {j \in 1..(1 - 1) : args[j].kind = "store"} = {}
  OBVIOUS
<1> QED BY <1>1 DEF StoreAt

\* The roots met so far, in a plan and a group under way.
InPlanOf(plan, current, store, root) ==
    \/ \E g \in 1..Len(plan) : plan[g].store = store /\ root \in RootsOf(plan[g])
    \/ current.store = store /\ root \in RootsOf(current)

\* Neither a root more nor a group that is ended loses one.
LEMMA PlanGrows ==
    ASSUME NEW plan \in Seq(GroupType), NEW current \in GroupType, NEW store, NEW root,
           InPlanOf(plan, current, store, root)
    PROVE  /\ \A name \in Roots : InPlanOf(plan, [current EXCEPT !.roots = Append(@, name)],
                                           store, root)
           /\ \A next : InPlanOf(IF current.roots = <<>> THEN plan ELSE Append(plan, current),
                                 next, store, root)
<1>1. Len(plan) \in Nat /\ Len(Append(plan, current)) = Len(plan) + 1
      /\ Append(plan, current)[Len(plan) + 1] = current
      /\ \A g \in 1..Len(plan) : Append(plan, current)[g] = plan[g]
  BY AppendProperties
<1>2. \A g \in 1..Len(plan) : g \in 1..Len(Append(plan, current))
  BY <1>1
<1>3. Len(plan) + 1 \in 1..Len(Append(plan, current))
  BY <1>1
<1>4. current.roots \in Seq(Roots) /\ current = [store |-> current.store, roots |-> current.roots]
  BY DEF GroupType
<1>5. current.roots = <<>> => RootsOf(current) = {}
  BY DEF RootsOf, ToSet
<1>6. ASSUME NEW name \in Roots
      PROVE  InPlanOf(plan, [current EXCEPT !.roots = Append(@, name)], store, root)
  <2> DEFINE c == [current EXCEPT !.roots = Append(@, name)]
  <2>1. c.store = current.store /\ c.roots = Append(current.roots, name)
    BY <1>4
  <2> HIDE DEF c
  <2>2. current.roots \in Seq(ToSet(current.roots))
    BY <1>4, SeqOfSet
  <2>3. RootsOf(current) \subseteq RootsOf(c)
    BY <2>1, <2>2, AppendSet DEF RootsOf
  <2> QED BY <2>1, <2>3 DEF InPlanOf, c
<1>7. ASSUME NEW next
      PROVE  InPlanOf(IF current.roots = <<>> THEN plan ELSE Append(plan, current),
                      next, store, root)
  <2>1. CASE current.roots = <<>>
    BY <1>5, <2>1 DEF InPlanOf
  <2>2. CASE current.roots # <<>>
    BY <1>1, <1>2, <1>3, <2>2 DEF InPlanOf
  <2> QED BY <2>1, <2>2
<1> QED BY <1>6, <1>7

\* A root that was just met is in the group under way.
LEMMA RootJoins ==
    ASSUME NEW current \in GroupType, NEW name \in Roots
    PROVE  LET c == [current EXCEPT !.roots = Append(@, name)]
           IN c.store = current.store /\ name \in RootsOf(c)
<1> DEFINE c == [current EXCEPT !.roots = Append(@, name)]
<1>1. /\ current.roots \in Seq(Roots)
      /\ c.store = current.store /\ c.roots = Append(current.roots, name)
  BY DEF GroupType
<1>2. current.roots \in Seq(ToSet(current.roots))
  BY <1>1, SeqOfSet
<1> HIDE DEF c
<1>3. name \in RootsOf(c)
  BY <1>1, <1>2, AppendSet DEF RootsOf
<1> QED BY <1>1, <1>3 DEF c

\* Of la arguments lt are left; one is taken.
LEMMA OneFurther ==
    ASSUME NEW la \in Nat, NEW lt \in Nat, lt > 0, NEW m, m = la - lt, m \in 0..la
    PROVE  /\ m \in Nat /\ m + 1 \in 1..la /\ m + 1 \in 0..la
           /\ 1..(m + 1) = 1..m \cup {m + 1}
<1>1. m \in Nat
  OBVIOUS
<1>2. m + 1 \in 1..la /\ m + 1 \in 0..la
  BY <1>1
<1>3. 1..(m + 1) = 1..m \cup {m + 1}
  BY <1>1
<1> QED BY <1>1, <1>2, <1>3

\* Planning goes through the arguments in order.
LEMMA PlanKept ==
    ASSUME WorldTyped, MemoryTyped, PlanSound, Next
    PROVE  PlanSound'
<1>1. CASE \E args \in ArgLists : Start(args)
  <2>1. PICK args \in ArgLists : Start(args)
    BY <1>1
  <2>2. /\ run'.args = args
        /\ run'.todo = IF ImplicitRoot(args) THEN <<>> ELSE args
        /\ run'.current = IF ImplicitRoot(args)
                          THEN Group(IF args = <<>> THEN DefaultStore ELSE args[1].name,
                                     <<Pwd>>)
                          ELSE Group(DefaultStore, <<>>)
        /\ run'.plan = <<>> /\ run'.failCount = 0
    BY <2>1, StartFields, NoRunFields DEF Fields
  <2>3. args \in Seq(Args) /\ Len(args) \in Nat
    BY CaptureAssumption
  <2>4. CASE ImplicitRoot(args)
    <3>1. StoreAt(args, Len(args) + 1) = IF args = <<>> THEN DefaultStore ELSE args[1].name
      <4>1. CASE args = <<>>
        <5>1. Len(args) = 0 /\ Len(args) + 1 = 1
          BY <4>1
        <5> QED BY <4>1, <5>1, StoreAtFirst
      <4>2. CASE args # <<>>
        <5>1. Len(args) = 1 /\ args[1].kind = "store" /\ 1 \in 1..Len(args)
          BY <2>4, <4>2 DEF ImplicitRoot
        <5>2. StoreAt(args, 1 + 1) = args[1].name
          BY <2>3, <5>1, StoreAtNext
        <5> QED BY <4>2, <5>1, <5>2
      <4> QED BY <4>1, <4>2
    <3> QED BY <2>2, <2>4, <3>1 DEF PlanSound
  <2>5. CASE ~ImplicitRoot(args)
    <3>1. Met' = 0
      BY <2>2, <2>3, <2>5 DEF Met
    <3>2. /\ Met' \in 0..Len(args) /\ 1..Met' = {} /\ Met' + 1 = 1
      BY <2>3, <3>1
    <3>3. \A j \in 1..Len(args) : args[j] = args[Met' + j]
      BY <2>3, <3>1
    <3>4. run'.current.store = StoreAt(args, 1) /\ run'.current.roots = <<>>
      BY <2>2, <2>5, StoreAtFirst DEF Group
    <3> QED BY <2>2, <2>5, <3>2, <3>3, <3>4 DEF PlanSound
  <2> QED BY <2>4, <2>5
<1>2. CASE planCapture /\ pc = "plan" /\ pc' = "plan"
  <2> DEFINE a == Head(run.todo)
  <2>1. ~ImplicitRoot(run.args)
    BY <1>2 DEF PlanSound, planCapture
  <2>2. /\ Met \in 0..Len(run.args)
        /\ \A j \in 1..Len(run.todo) : run.todo[j] = run.args[Met + j]
        /\ run.current.store = StoreAt(run.args, Met + 1)
        /\ \A i \in 1..Met :
              run.args[i].kind = "root" =>
                 InPlanOf(run.plan, run.current, StoreAt(run.args, i), run.args[i].name)
        /\ (\A i \in 1..Met : run.args[i].kind # "root") =>
              run.current.roots = <<>> /\ run.plan = <<>>
        /\ run.failCount = 0 => \A i \in 1..Met : run.args[i].kind \in {"root", "store"}
    BY <1>2, <2>1 DEF PlanSound, InPlan, InPlanOf
  <2>3. /\ run.todo # <<>> /\ run'.args = run.args /\ run'.todo = Tail(run.todo)
    BY <1>2, PlanCaptureEffect
  <2>4. /\ run.args \in Seq(Args) /\ run.todo \in Seq(Args) /\ Len(run.args) \in Nat
        /\ Len(run.todo) \in Nat /\ Len(run.todo) > 0
        /\ Len(Tail(run.todo)) = Len(run.todo) - 1 /\ a = run.todo[1]
        /\ \A j \in 1..Len(Tail(run.todo)) : Tail(run.todo)[j] = run.todo[j + 1]
    <3>1. run.args \in Seq(Args) /\ run.todo \in Seq(Args)
      BY DEF MemoryTyped
    <3> QED BY <2>3, <3>1, HeadTailProperties, EmptySeq, LenProperties
  <2>l. /\ Len(run'.args) = Len(run.args) /\ Len(run'.todo) = Len(run.todo) - 1
        /\ Len(run.args) \in Nat /\ Len(run.todo) \in Nat /\ Len(run.todo) > 0
    BY <2>3, <2>4
  <2>m. Met' = Met + 1 /\ Met = Len(run.args) - Len(run.todo)
    BY <2>l DEF Met
  <2> HIDE DEF Met
  <2>r. Met \in 0..Len(run.args)
    BY <2>2
  <2>5. Met + 1 \in 1..Len(run.args) /\ Met \in Nat /\ Met' \in 0..Len(run.args)
    <3>1. Met + 1 \in 1..Len(run.args) /\ Met \in Nat /\ Met + 1 \in 0..Len(run.args)
      BY <2>l, <2>m, <2>r, OneFurther
    <3> QED BY <2>m, <3>1
  <2>6. a = run.args[Met + 1] /\ a \in Args
    <3>1. 1 \in 1..Len(run.todo)
      BY <2>4
    <3> QED BY <2>2, <2>4, <3>1, ElementOfSeq
  <2> HIDE DEF a
  <2>7. \A j \in 1..Len(run'.todo) : run'.todo[j] = run'.args[Met' + j]
    <3> TAKE j \in 1..Len(run'.todo)
    <3>1. j + 1 \in 1..Len(run.todo) /\ Met + (j + 1) = Met' + j
      <4>1. j \in 1..(Len(run.todo) - 1)
        BY <2>l
      <4>2. j + 1 \in 1..Len(run.todo) /\ Met + (j + 1) = (Met + 1) + j
        <5>1. PICK m, lt : m = Met /\ lt = Len(run.todo)
          OBVIOUS
        <5>2. m \in Nat /\ lt \in Nat /\ j \in 1..(lt - 1)
          BY <2>5, <2>l, <4>1, <5>1
        <5>3. j + 1 \in 1..lt /\ m + (j + 1) = (m + 1) + j
          BY <5>2
        <5> QED BY <5>1, <5>3
      <4> QED BY <2>m, <4>2
    <3> QED BY <2>2, <2>3, <2>4, <3>1
  <2>8. StoreAt(run.args, Met' + 1) = IF a.kind = "store" THEN a.name
                                      ELSE StoreAt(run.args, Met + 1)
    BY <2>4, <2>5, <2>6, <2>m, StoreAtNext
  <2>9. 1..Met' = 1..Met \cup {Met + 1}
    <3>1. 1..(Met + 1) = 1..Met \cup {Met + 1}
      BY <2>l, <2>m, <2>r, OneFurther
    <3> QED BY <2>m, <3>1
  <2>10. /\ run.plan \in Seq(GroupType) /\ run.current \in GroupType
         /\ run.failCount \in Nat
    BY DEF MemoryTyped
  <2>11. ASSUME run'.current.store = StoreAt(run.args, Met' + 1),
                \A store, root : InPlanOf(run.plan, run.current, store, root) =>
                                    InPlanOf(run'.plan, run'.current, store, root),
                a.kind = "root" =>
                   InPlanOf(run'.plan, run'.current, StoreAt(run.args, Met + 1), a.name),
                a.kind # "root" /\ run.current.roots = <<>> /\ run.plan = <<>> =>
                   run'.current.roots = <<>> /\ run'.plan = <<>>,
                run'.failCount = 0 => run.failCount = 0 /\ a.kind \in {"root", "store"}
         PROVE  PlanSound'
    <3>1. \A i \in 1..Met' :
             run'.args[i].kind = "root" =>
                InPlanOf(run'.plan, run'.current, StoreAt(run'.args, i), run'.args[i].name)
      <4>1. ASSUME NEW i \in 1..Met, run.args[i].kind = "root"
            PROVE  InPlanOf(run'.plan, run'.current, StoreAt(run.args, i), run.args[i].name)
        BY <2>2, <2>11, <4>1
      <4> QED BY <2>3, <2>6, <2>9, <2>11, <4>1
    <3>2. (\A i \in 1..Met' : run'.args[i].kind # "root") =>
             run'.current.roots = <<>> /\ run'.plan = <<>>
      BY <2>2, <2>3, <2>6, <2>9, <2>11
    <3>3. run'.failCount = 0 =>
             \A i \in 1..Met' : run'.args[i].kind \in {"root", "store"}
      BY <2>2, <2>3, <2>6, <2>9, <2>11
    <3> QED BY <2>1, <2>3, <2>5, <2>7, <2>11, <3>1, <3>2, <3>3 DEF PlanSound, InPlan, InPlanOf
  <2>12. CASE /\ a.kind \in {"unusable", "outside"}
              /\ run'.failCount = run.failCount + 1
              /\ run'.current = run.current /\ run'.plan = run.plan
    <3>1. run'.failCount # 0
      BY <2>10, <2>12
    <3> QED BY <2>2, <2>8, <2>11, <2>12, <3>1
  <2>13. CASE /\ a.kind = "root"
              /\ run'.failCount = run.failCount /\ run'.plan = run.plan
              /\ run'.current = [run.current EXCEPT !.roots = Append(@, a.name)]
    <3>1. a.name \in Roots
      BY <2>6, <2>13 DEF Args
    <3>2. run'.current.store = run.current.store /\ a.name \in RootsOf(run'.current)
      BY <2>10, <2>13, <3>1, RootJoins
    <3>3. \A store, root : InPlanOf(run.plan, run.current, store, root) =>
                              InPlanOf(run'.plan, run'.current, store, root)
      <4> TAKE store, root
      <4> HAVE InPlanOf(run.plan, run.current, store, root)
      <4>1. \A name \in Roots :
               InPlanOf(run.plan, [run.current EXCEPT !.roots = Append(@, name)], store, root)
        BY <2>10, PlanGrows
      <4> QED BY <2>13, <3>1, <4>1
    <3>4. InPlanOf(run'.plan, run'.current, StoreAt(run.args, Met + 1), a.name)
      BY <2>2, <3>2 DEF InPlanOf
    <3>5. run'.current.store = StoreAt(run.args, Met' + 1)
      BY <2>2, <2>8, <2>13, <3>2
    <3> QED BY <2>11, <2>13, <3>3, <3>4, <3>5
  <2>14. CASE /\ a.kind = "store"
              /\ run'.failCount = run.failCount /\ run'.current = Group(a.name, <<>>)
              /\ run'.plan = IF run.current.roots = <<>> THEN run.plan
                             ELSE Append(run.plan, run.current)
    <3>1. run'.current.store = a.name /\ run'.current.roots = <<>>
      BY <2>14 DEF Group
    <3>2. \A store, root : InPlanOf(run.plan, run.current, store, root) =>
                              InPlanOf(run'.plan, run'.current, store, root)
      BY <2>10, <2>14, PlanGrows
    <3> QED BY <2>8, <2>11, <2>14, <3>1, <3>2
  <2> QED BY <1>2, <2>12, <2>13, <2>14, PlanCaptureEffect DEF a
<1>3. CASE pc' # "plan"
  BY <1>3 DEF PlanSound
<1>4. CASE Signal \/ Push
  <2>1. /\ run'.args = run.args /\ run'.todo = run.todo /\ run'.plan = run.plan
        /\ run'.current = run.current /\ run'.failCount = run.failCount /\ pc' = pc
    BY <1>4, SignalFields DEF Signal, Push, MemoryTyped, Keeps, Fields
  <2> QED BY <2>1 DEF PlanSound, Met, InPlan
<1>5. CASE BeginGroup \/ RootStep \/ WriteReceipt \/ RecordFailures \/ Finish \/ Ends
  <2>1. pc' # "plan"
    <3>1. RootStep => pc' # "plan"
      BY RootSteps DEF RootStep
    <3> QED BY <1>5, <3>1 DEF BeginGroup, WriteReceipt, RecordFailures, Finish, Ends
  <2> QED BY <1>3, <2>1
<1> QED BY <1>1, <1>2, <1>3, <1>4, <1>5, StepKinds DEF PlanStep

\* Without a failure, all that was asked for is in the plan.
LEMMA CoversKept ==
    ASSUME WorldTyped, MemoryTyped, Loop, PlanSound, PlanCovers, Next
    PROVE  PlanCovers'
<1>f. run.failCount \in Nat
  BY DEF MemoryTyped
<1>0. ASSUME run'.args = run.args, run'.plan = run.plan, pc \notin {"idle", "plan"},
             run'.failCount = run.failCount \/ run'.failCount = run.failCount + 1
      PROVE  PlanCovers'
  <2>1. run'.failCount = 0 => run.failCount = 0
    BY <1>f, <1>0
  <2> QED BY <1>0, <2>1 DEF PlanCovers
<1>1. ASSUME pc' \in {"idle", "plan"} PROVE PlanCovers'
  BY <1>1 DEF PlanCovers
<1>2. CASE PlanEnd /\ pc = "plan" /\ pc' = "groups"
  <2> SUFFICES ASSUME run'.failCount = 0, NEW a \in Asked(run'.args)
               PROVE  \E g \in 1..Len(run'.plan) :
                         run'.plan[g].store = a[1] /\ a[2] \in RootsOf(run'.plan[g])
    BY DEF PlanCovers
  <2>1. /\ run'.args = run.args /\ run'.failCount = run.failCount
        /\ run'.plan = IF run.current.roots # <<>> THEN Append(run.plan, run.current)
                       ELSE run.plan
    BY <1>2, PlanEndFields DEF MemoryTyped, Keeps, Fields
  <2>2. /\ run.todo = <<>>
        /\ run.current.roots = <<>> => run.plan # <<>>
    <3>1. ~PlanFails
      BY <1>2 DEF PlanFails
    <3> QED BY <1>2, <2>1, <3>1 DEF PlanEnd
  <2>3. /\ run.plan \in Seq(GroupType) /\ run.current \in GroupType
        /\ run.args \in Seq(Args) /\ Len(run.args) \in Nat /\ DOMAIN run.args = 1..Len(run.args)
    BY DEF MemoryTyped
  <2>4. ASSUME NEW store, NEW root, InPlanOf(run.plan, run.current, store, root)
        PROVE  \E g \in 1..Len(run'.plan) :
                  run'.plan[g].store = store /\ root \in RootsOf(run'.plan[g])
    <3>1. PICK c : c = Group("", <<>>)
      OBVIOUS
    <3>4. c.roots = <<>>
      BY <3>1 DEF Group
    <3>2. RootsOf(c) = {}
      BY <3>4 DEF RootsOf, ToSet
    <3>3. InPlanOf(run'.plan, c, store, root)
      BY <2>1, <2>3, <2>4, PlanGrows
    <3> QED BY <3>2, <3>3 DEF InPlanOf
  <2> DEFINE roots == {i \in DOMAIN run.args : run.args[i].kind = "root"}
  <2>5. CASE ImplicitRoot(run.args)
    <3>1. run.current = Group(StoreAt(run.args, Len(run.args) + 1), <<Pwd>>)
      BY <1>2, <2>5 DEF PlanSound
    <3>2. roots = {}
      <4> SUFFICES ASSUME NEW i \in 1..Len(run.args) PROVE run.args[i].kind # "root"
        BY <2>3
      <4>1. run.args # <<>>
        <5>1. Len(run.args) > 0
          BY <2>3
        <5> QED BY <5>1
      <4>2. Len(run.args) = 1 /\ run.args[1].kind = "store"
        BY <2>5, <4>1 DEF ImplicitRoot
      <4>3. i = 1
        BY <4>2
      <4> QED BY <4>2, <4>3
    <3>3. a = <<StoreAt(run.args, Len(run.args) + 1), Pwd>>
      BY <2>1, <3>2 DEF Asked
    <3>4. run.current.store = a[1] /\ run.current.roots = <<a[2]>>
      BY <3>1, <3>3 DEF Group
    <3>5. a[2] \in RootsOf(run.current)
      BY <3>4 DEF RootsOf, ToSet
    <3>6. InPlanOf(run.plan, run.current, a[1], a[2])
      BY <3>4, <3>5 DEF InPlanOf
    <3> QED BY <2>4, <3>6
  <2>6. CASE ~ImplicitRoot(run.args)
    <3>1. Met = Len(run.args)
      BY <2>2, <2>3 DEF Met
    <3>2. \A i \in 1..Len(run.args) :
             run.args[i].kind = "root" =>
                InPlanOf(run.plan, run.current, StoreAt(run.args, i), run.args[i].name)
      BY <1>2, <2>6, <3>1 DEF PlanSound, InPlan, InPlanOf
    <3>3. roots # {}
      BY <1>2, <2>2, <2>3, <2>6, <3>1 DEF PlanSound
    <3>4. PICK i \in roots : a = <<StoreAt(run.args, i), run.args[i].name>>
      BY <2>1, <3>3 DEF Asked
    <3>5. InPlanOf(run.plan, run.current, a[1], a[2])
      BY <2>3, <3>2, <3>4
    <3> QED BY <2>4, <3>5
  <2> QED BY <2>5, <2>6
<1>3. CASE BeginGroup
  <2>1. /\ run'.args = run.args /\ run'.plan = run.plan /\ pc = "groups"
        /\ run'.failCount = run.failCount
    BY <1>3, BeginGroupFields DEF BeginGroup, MemoryTyped, Keeps
  <2> QED BY <1>0, <2>1
<1>4. CASE GroupStep
  <2>1. InGroup /\ run'.args = run.args /\ run'.plan = run.plan
    BY <1>4, GroupStepTells
  <2>2. run'.failCount = run.failCount \/ run'.failCount = run.failCount + 1
    BY <1>4, GroupStepTells
  <2> QED BY <1>0, <2>1, <2>2 DEF InGroup
<1>5. CASE RecordFailures
  <2>1. InGroup /\ run'.args = run.args /\ run'.plan = run.plan
        /\ run'.failCount = run.failCount
    BY <1>5, RecordTells
  <2> QED BY <1>0, <2>1 DEF InGroup
<1>6. CASE Finish
  BY <1>0, <1>6 DEF Finish
<1>7. CASE Signal \/ Push
  <2>1. /\ run'.args = run.args /\ run'.plan = run.plan /\ pc' = pc
        /\ run'.failCount = run.failCount
    BY <1>7, SignalFields DEF Signal, Push, MemoryTyped, Keeps, Fields
  <2> QED BY <1>0, <1>1, <2>1
<1> QED BY <1>1, <1>2, <1>3, <1>4, <1>5, <1>6, <1>7, StepKinds
        DEF GroupStep, PlanStep, Ends, Start


(***************************************************************************)
(* A clean run captures everything.                                        *)
(***************************************************************************)

LEMMA WalkedStays ==
    ASSUME NEW r, NEW n, Walked(r, n), run.entries \subseteq run'.entries
    PROVE  Walked(r, n)'
BY DEF Walked

LEMMA CapturedStays ==
    ASSUME Grown, NEW s \in Stores, NEW r, Captured(s, r),
           ToSet(run.lines) \subseteq ToSet(run'.lines)
    PROVE  Captured(s, r)'
<1>1. PICK l \in ToSet(run.lines) : Captures(l, s, r)
  BY DEF Captured
<1>2. Captures(l, s, r)'
  BY <1>1 DEF Captures, Grown
<1> QED BY <1>1, <1>2 DEF Captured

\* The groups that are over stay captured.
LEMMA GroupsStay ==
    ASSUME MemoryTyped, Loop, Grown, pc # "plan", GroupsCaptured, run'.plan = run.plan,
           ToSet(run.lines) \subseteq ToSet(run'.lines), NEW g \in Over,
           NEW r \in RootsOf(run.plan[g])
    PROVE  Captured(run.plan[g].store, r)'
<1>1. PICK s : s = run.plan[g].store
  OBVIOUS
<1>2. s \in Stores
  BY <1>1, PlanIndex DEF Over
<1>3. Captured(s, r)
  BY <1>1 DEF GroupsCaptured
<1>4. Captured(s, r)'
  BY <1>2, <1>3, CapturedStays
<1> QED BY <1>1, <1>4 DEF Captured, Captures

\* So does a root of the group.
LEMMA RootStays ==
    ASSUME MemoryTyped, Grown, NEW r, RootCaptured(r), run'.group = run.group,
           run.entries \subseteq run'.entries, pc # "failures", pc' # "failures",
           ToSet(run.lines) \subseteq ToSet(run'.lines)
    PROVE  RootCaptured(r)'
<1>1. PICK s : s = Store
  OBVIOUS
<1>2. s = Store' /\ s \in Stores
  BY <1>1 DEF Store, MemoryTyped, GroupType
<1>3. r \in GitRoots => Captured(s, r)'
  BY <1>1, <1>2, CapturedStays DEF RootCaptured
<1>4. PICK n : n = Len(Tree[r])
  OBVIOUS
<1>5. r \in FileRoots => Walked(r, n)'
  BY <1>4, WalkedStays DEF RootCaptured
<1> QED BY <1>2, <1>3, <1>4, <1>5 DEF RootCaptured, Captured, Captures, Walked

\* All the group's roots up to the next one.
LEMMA RootsCapturedIf ==
    ASSUME run'.group = run.group,
           \A i \in 1..Done' : \A r : r = run.group.roots[i] => RootCaptured(r)'
    PROVE  RootsCaptured'
BY DEF RootsCaptured

\* What is left of a sequence, when one more element was taken.
LEMMA LeftTail ==
    ASSUME NEW S, NEW all \in Seq(S), NEW left \in Seq(S), left # <<>>, NEW d,
           d = Len(all) - Len(left), d \in 0..Len(all),
           \A j \in 1..Len(left) : left[j] = all[d + j]
    PROVE  /\ Len(all) - Len(Tail(left)) = d + 1
           /\ d \in Nat /\ d + 1 \in 1..Len(all) /\ d + 1 \in 0..Len(all)
           /\ \A j \in 1..Len(Tail(left)) : Tail(left)[j] = all[(d + 1) + j]
           /\ all[d + 1] = Head(left)
           /\ 1..(d + 1) = 1..d \cup {d + 1}
<1>1. /\ Len(left) \in Nat /\ Len(all) \in Nat /\ Len(left) > 0
      /\ Len(Tail(left)) = Len(left) - 1 /\ Head(left) = left[1]
      /\ \A j \in 1..Len(Tail(left)) : Tail(left)[j] = left[j + 1]
  BY HeadTailProperties, EmptySeq, LenProperties
<1>2. d \in Nat
  BY <1>1
<1>3. d + 1 \in 1..Len(all) /\ d + 1 \in 0..Len(all) /\ Len(all) - Len(Tail(left)) = d + 1
  BY <1>1, <1>2
<1>4. ASSUME NEW j \in 1..Len(Tail(left)) PROVE Tail(left)[j] = all[(d + 1) + j]
  <2>1. j + 1 \in 1..Len(left) /\ d + (j + 1) = (d + 1) + j
    BY <1>1, <1>2
  <2> QED BY <1>1, <2>1
<1>5. all[d + 1] = Head(left)
  <2>1. 1 \in 1..Len(left)
    BY <1>1
  <2> QED BY <1>1, <2>1
<1>6. 1..(d + 1) = 1..d \cup {d + 1}
  BY <1>2
<1> QED BY <1>2, <1>3, <1>4, <1>5, <1>6

\* The next root.
LEMMA RootTaken ==
    ASSUME MemoryTyped, run.roots # <<>>, RootsLeft, run'.group = run.group,
           run'.roots = Tail(run.roots)
    PROVE  /\ RootsLeft' /\ Done' = Done + 1 /\ run.group.roots[Done + 1] = Root
           /\ 1..Done' = 1..Done \cup {Done + 1}
<1>1. PICK all, left, d : all = run.group.roots /\ left = run.roots /\ d = Done
  OBVIOUS
<1>2. all \in Seq(Roots) /\ left \in Seq(Roots) /\ left # <<>>
  BY <1>1 DEF MemoryTyped, GroupType
<1>3. /\ d = Len(all) - Len(left) /\ d \in 0..Len(all)
      /\ \A j \in 1..Len(left) : left[j] = all[d + j]
  BY <1>1 DEF RootsLeft, Done
<1>4. /\ Len(all) - Len(Tail(left)) = d + 1
      /\ d \in Nat /\ d + 1 \in 0..Len(all)
      /\ \A j \in 1..Len(Tail(left)) : Tail(left)[j] = all[(d + 1) + j]
      /\ all[d + 1] = Head(left)
      /\ 1..(d + 1) = 1..d \cup {d + 1}
  BY <1>2, <1>3, LeftTail
<1>5. Done' = d + 1
  BY <1>1, <1>4 DEF Done
<1>6. RootsLeft'
  BY <1>1, <1>4, <1>5 DEF RootsLeft
<1> QED BY <1>1, <1>4, <1>5, <1>6 DEF Root

\* The next name.
LEMMA NameTaken ==
    ASSUME MemoryTyped, run.walk # <<>>, NamesLeft, run'.roots = run.roots, Root \in FileRoots,
           run'.walk = Tail(run.walk)
    PROVE  /\ NamesLeft' /\ Steps' = Steps + 1 /\ Steps \in Nat
           /\ Steps + 1 \in 1..Len(Tree[Root]) /\ Tree[Root][Steps + 1] = Name
<1>1. PICK all, left, d : all = Tree[Root] /\ left = run.walk /\ d = Steps
  OBVIOUS
<1>2. all \in Seq(STRING) /\ left \in Seq(STRING) /\ left # <<>>
  BY <1>1, CaptureAssumption DEF MemoryTyped
<1>3. /\ d = Len(all) - Len(left) /\ d \in 0..Len(all)
      /\ \A j \in 1..Len(left) : left[j] = all[d + j]
  BY <1>1 DEF NamesLeft, Steps
<1>4. /\ Len(all) - Len(Tail(left)) = d + 1
      /\ d \in Nat /\ d + 1 \in 1..Len(all) /\ d + 1 \in 0..Len(all)
      /\ \A j \in 1..Len(Tail(left)) : Tail(left)[j] = all[(d + 1) + j]
      /\ all[d + 1] = Head(left)
  BY <1>2, <1>3, LeftTail
<1>5. Root' = Root
  BY DEF Root
<1>6. Steps' = d + 1
  BY <1>1, <1>4, <1>5 DEF Steps
<1>7. NamesLeft'
  BY <1>1, <1>4, <1>5, <1>6 DEF NamesLeft
<1> QED BY <1>1, <1>4, <1>6, <1>7 DEF Name

\* A name that was read is among the entries.
LEMMA NameWalked ==
    ASSUME MemoryTyped, Walked(Root, Steps), Steps \in Nat, Root \in FileRoots,
           Steps + 1 \in 1..Len(Tree[Root]), Tree[Root][Steps + 1] = Name,
           run'.entries = run.entries \cup {Entry(Root, Name)}, Root' = Root,
           Steps' = Steps + 1
    PROVE  Walked(Root, Steps)'
<1>1. PICK d, r, n : d = Steps /\ r = Root /\ n = Name
  OBVIOUS
<1>2. /\ d \in Nat /\ r \in FileRoots /\ d + 1 \in 1..Len(Tree[r]) /\ Tree[r][d + 1] = n
      /\ run'.entries = run.entries \cup {Entry(r, n)}
  BY <1>1
<1>3. /\ DOMAIN Tree[r] = 1..Len(Tree[r]) /\ Tree[r] # <<>> /\ Tree[r] \in Seq(STRING)
      /\ \A i, j \in DOMAIN Tree[r] : Tree[r][i] = Tree[r][j] => i = j
  BY <1>2, CaptureAssumption
<1>4. Head(Tree[r]) = Tree[r][1] /\ 1 \in 1..Len(Tree[r])
  <2>1. Len(Tree[r]) \in Nat /\ Len(Tree[r]) > 0
    BY <1>3, EmptySeq, LenProperties
  <2> QED BY <1>3, <2>1
<1>5. d + 1 \in 2..(d + 1) => Entry(r, n).blob = FileBlob(r, Tree[r][d + 1])
  <2> SUFFICES ASSUME d + 1 \in 2..(d + 1) PROVE n # Head(Tree[r])
    BY <1>2 DEF Entry
  <2>1. d + 1 # 1
    BY <1>2
  <2> QED BY <1>2, <1>3, <1>4, <2>1
<1>6. \A i \in 2..d : \E e \in run.entries : e.blob = FileBlob(r, Tree[r][i])
  BY <1>1 DEF Walked
<1>7. \A i \in 2..(d + 1) : i \in 2..d \/ i = d + 1
  BY <1>2
<1>8. \A i \in 2..(d + 1) : \E e \in run'.entries : e.blob = FileBlob(r, Tree[r][i])
  BY <1>2, <1>5, <1>6, <1>7
<1>9. run'.entries # {}
  BY <1>2
<1>10. Root' = r /\ Steps' = d + 1
  BY <1>1
<1> QED BY <1>8, <1>9, <1>10 DEF Walked

\* What was walked is in the group's receipt.
LEMMA CollapsedBlobs ==
    ASSUME EntriesSound
    PROVE  \A e \in run.entries : \E c \in Collapsed : c.blob = e.blob
<1> TAKE e \in run.entries
<1>1. e = Entry(e.root, e.path)
  BY DEF EntriesSound
<1>2. DOMAIN e = {"root", "path", "blob"}
  BY <1>1 DEF Entry
<1>3. [e EXCEPT !.root = "."].blob = e.blob
  BY <1>2
<1> QED BY <1>3 DEF Collapsed


\* A clean run was clean before the step; only a signal aborts.
LEMMA CleanBefore ==
    ASSUME MemoryTyped, Next, Clean', pc \notin {"idle", "plan"}, pc' # "idle"
    PROVE  Clean /\ run'.failCount = run.failCount
<1>f. run.failCount \in Nat
  BY DEF MemoryTyped
<1>0. ASSUME run'.aborted = run.aborted,
             run'.failCount = run.failCount \/ run'.failCount = run.failCount + 1
      PROVE  Clean /\ run'.failCount = run.failCount
  <2>1. run'.failCount = run.failCount
    BY <1>f, <1>0 DEF Clean
  <2> QED BY <1>0, <2>1 DEF Clean
<1>1. CASE BeginGroup
  BY <1>0, <1>1, BeginGroupFields DEF MemoryTyped, Keeps
<1>2. CASE GroupStep
  <2>1. run'.aborted = run.aborted
    <3>1. CASE RootStep
      BY <3>1, RootStepKeeps
    <3>2. CASE WriteReceipt
      BY <3>2, WriteReceiptFields DEF MemoryTyped, Keeps, Fields
    <3> QED BY <1>2, <3>1, <3>2 DEF GroupStep
  <2>2. run'.failCount = run.failCount \/ run'.failCount = run.failCount + 1
    BY <1>2, GroupStepTells
  <2> QED BY <1>0, <2>1, <2>2
<1>3. CASE RecordFailures
  BY <1>0, <1>3, RecordFailuresFields DEF MemoryTyped, Keeps, Fields
<1>4. CASE Finish \/ Push
  BY <1>4 DEF Finish, Push, Clean
<1>5. CASE Signal
  BY <1>5, SignalFields DEF MemoryTyped, Clean
<1> QED BY <1>1, <1>2, <1>3, <1>4, <1>5, StepKinds DEF GroupStep, PlanStep, Ends, Start

\* What a group's step does to a clean run, apart from its own root.
LEMMA CleanGroupStep ==
    ASSUME WorldTyped, MemoryTyped, Loop, CaptureSound, GroupStep, Next, Clean'
    PROVE  /\ Clean /\ InGroup /\ InGroup' /\ Grown
           /\ run'.failures = {} /\ run'.carry = {}
           /\ run'.failCount = run.failCount
           /\ run'.group = run.group
           /\ GroupsCaptured'
           /\ ToSet(run.lines) \subseteq ToSet(run'.lines)
<1>1. /\ InGroup /\ InGroup' /\ run'.number = run.number /\ run'.plan = run.plan
      /\ run'.carry = run.carry /\ run'.group = run.group
      /\ \/ run'.failures = run.failures
         \/ run'.failCount = run.failCount + 1
  BY GroupStepTells
<1>2. Clean /\ run'.failCount = run.failCount /\ run.failCount \in Nat
  BY <1>1, CleanBefore DEF InGroup, MemoryTyped
<1>3. run'.failures = {} /\ run'.carry = {}
  BY <1>1, <1>2 DEF CaptureSound
<1>4. ToSet(run.lines) \subseteq ToSet(run'.lines) /\ Grown
  BY GroupStepLines, StepGrows
<1>5. Over' = Over
  BY <1>1 DEF Over
<1>6. pc # "plan" /\ GroupsCaptured
  BY <1>1, <1>2 DEF InGroup, CaptureSound
<1>7. \A g \in Over : \A r \in RootsOf(run.plan[g]) : Captured(run.plan[g].store, r)'
  BY <1>1, <1>4, <1>6, GroupsStay
<1>8. GroupsCaptured'
  BY <1>1, <1>5, <1>7 DEF GroupsCaptured, Captured, Captures
<1> QED BY <1>1, <1>2, <1>3, <1>4, <1>8

\* The walk of a directory.
LEMMA WalkStepKept ==
    ASSUME WorldTyped, MemoryTyped, Loop, RootPhase, CaptureSound, Next, Clean',
           CaptureRoot \/ WalkEntry
    PROVE  /\ InGroup' => RootsLeft' /\ RootsCaptured'
           /\ pc' = "walk" => NamesLeft' /\ Walked(Root, Steps)'
<1>0. GroupStep
  BY DEF GroupStep, RootStep
<1>1. /\ Clean /\ InGroup /\ Grown /\ run'.group = run.group
      /\ run'.failCount = run.failCount /\ run.failCount \in Nat
      /\ ToSet(run.lines) \subseteq ToSet(run'.lines)
  BY <1>0, CleanGroupStep DEF MemoryTyped
<1>2. /\ run'.roots = run.roots /\ run.entries \subseteq run'.entries
      /\ pc # "failures" /\ pc' # "failures" /\ pc' = "walk"
      /\ Root \in FileRoots /\ Root' = Root
  <2>1. CASE CaptureRoot
    BY <2>1, RootSteps, CaptureRootFields DEF MemoryTyped, Keeps, Fields, Root
  <2>2. CASE WalkEntry
    BY <2>2, RootSteps, WalkEntryFields DEF MemoryTyped, RootPhase, Keeps, Fields, Root
  <2> QED BY <2>1, <2>2
<1>3. RootsLeft /\ RootsCaptured
  BY <1>1 DEF CaptureSound
<1>4. RootsLeft' /\ Done' = Done
  BY <1>1, <1>2, <1>3 DEF RootsLeft, Done
<1>5. RootsCaptured'
  <2>1. ASSUME NEW i \in 1..Done', NEW r, r = run.group.roots[i] PROVE RootCaptured(r)'
    BY <1>1, <1>2, <1>3, <1>4, <2>1, RootStays DEF RootsCaptured
  <2> QED BY <1>1, <2>1, RootsCapturedIf
<1>6. CASE CaptureRoot
  <2>1. run'.walk = Tree[Root]
    BY <1>6, CaptureRootFields DEF MemoryTyped
  <2>2. Tree[Root] \in Seq(STRING)
    BY <1>2, CaptureAssumption
  <2>3. Len(Tree[Root]) \in Nat
    BY <2>2
  <2>4. Steps' = Len(Tree[Root]) - Len(Tree[Root])
    BY <1>2, <2>1 DEF Steps
  <2>5. Steps' = 0
    BY <2>3, <2>4
  <2>6. NamesLeft'
    <3>1. 0 \in 0..Len(Tree[Root]) /\ \A j \in 1..Len(Tree[Root]) : 0 + j = j
      BY <2>3
    <3> QED BY <1>2, <2>1, <2>5, <3>1 DEF NamesLeft
  <2>7. Walked(Root, Steps)'
    BY <2>5 DEF Walked
  <2> QED BY <1>4, <1>5, <2>6, <2>7
<1>7. CASE WalkEntry
  <2>1. /\ run.walk # <<>> /\ pc = "walk"
        /\ run'.walk = Tail(run.walk)
        /\ run'.entries = run.entries \cup {Entry(Root, Name)}
    <3>1. run.walk # <<>> /\ pc = "walk"
      BY <1>7 DEF WalkEntry
    <3>2. ~run.aborted
      BY <1>1 DEF Clean
    <3>3. run'.failCount # run.failCount + 1
      BY <1>1
    <3> QED BY <1>7, <3>1, <3>2, <3>3, WalkEntryFields DEF MemoryTyped
  <2>2. NamesLeft /\ Walked(Root, Steps)
    BY <1>1, <2>1 DEF CaptureSound
  <2>3. /\ NamesLeft' /\ Steps' = Steps + 1 /\ Steps \in Nat
        /\ Steps + 1 \in 1..Len(Tree[Root]) /\ Tree[Root][Steps + 1] = Name
    BY <1>2, <2>1, <2>2, NameTaken
  <2>4. Walked(Root, Steps)'
    BY <1>2, <2>1, <2>2, <2>3, NameWalked
  <2> QED BY <1>4, <1>5, <2>3, <2>4
<1> QED BY <1>6, <1>7

\* The other steps of a root: it is done, or goes on.
LEMMA OtherRootStepKept ==
    ASSUME WorldTyped, MemoryTyped, Loop, RootPhase, CaptureSound, Next, Clean', RootStep,
           ~CaptureRoot, ~WalkEntry
    PROVE  /\ InGroup' => RootsLeft' /\ RootsCaptured'
           /\ pc' # "walk"
<1>1. /\ Clean /\ InGroup /\ Grown /\ run'.group = run.group
      /\ run'.failCount = run.failCount /\ run.failCount \in Nat
      /\ ToSet(run.lines) \subseteq ToSet(run'.lines)
  BY CleanGroupStep DEF MemoryTyped, GroupStep
<1>2. ~GitFails
  BY <1>1, ProtocolFailsFields DEF GitFails, MemoryTyped
<1>3. pc # "failures" /\ pc' # "failures" /\ pc' # "walk"
  BY <1>2, RootSteps, RootStepKeeps DEF RootStep
<1>4. RootsLeft /\ RootsCaptured
  BY <1>1 DEF CaptureSound
<1>5. run'.entries = run.entries
  BY <1>2, WalkDoneFields, CaptureProtocolFields, ListFields, FetchFields, CloneFields,
     WriteGitFields, RootSteps DEF RootStep, MemoryTyped, Keeps, Fields, RootFields
<1>6. ASSUME NEW i \in 1..Done, NEW r, r = run.group.roots[i] PROVE RootCaptured(r)'
  BY <1>1, <1>3, <1>4, <1>5, <1>6, RootStays DEF RootsCaptured
<1>7. CASE run'.roots = run.roots
  <2>1. RootsLeft' /\ Done' = Done
    BY <1>1, <1>4, <1>7 DEF RootsLeft, Done
  <2>2. RootsCaptured'
    BY <1>1, <1>6, <2>1, RootsCapturedIf
  <2> QED BY <1>3, <2>1, <2>2
<1>8. ASSUME run.roots # <<>>, run'.roots = Tail(run.roots), NEW r, r = Root,
             RootCaptured(r)'
      PROVE  RootsLeft' /\ RootsCaptured'
  <2>1. /\ RootsLeft' /\ Done' = Done + 1 /\ run.group.roots[Done + 1] = Root
        /\ 1..Done' = 1..Done \cup {Done + 1}
    BY <1>1, <1>4, <1>8, RootTaken
  <2>2. ASSUME NEW i \in 1..Done', NEW x, x = run.group.roots[i] PROVE RootCaptured(x)'
    <3>1. CASE i \in 1..Done
      BY <1>6, <2>2, <3>1
    <3>2. CASE i = Done + 1
      <4>1. x = r
        BY <1>8, <2>1, <2>2, <3>2
      <4> QED BY <1>8, <4>1
    <3> QED BY <2>1, <3>1, <3>2
  <2> QED BY <1>1, <2>1, <2>2, RootsCapturedIf
<1>9. CASE WalkDone
  <2>1. /\ run.roots # <<>> /\ Root \in FileRoots /\ pc = "walk" /\ run.walk = <<>>
        /\ run'.roots = Tail(run.roots)
    BY <1>9, WalkDoneFields DEF WalkDone, RootPhase, MemoryTyped
  <2>2. PICK r, n : r = Root /\ n = Steps
    OBVIOUS
  <2>3. n = Len(Tree[r])
    <3>1. Len(run.walk) = 0 /\ Tree[r] \in Seq(STRING)
      BY <2>1, <2>2, CaptureAssumption
    <3>2. Len(Tree[r]) \in Nat
      BY <3>1
    <3> QED BY <2>2, <3>1, <3>2 DEF Steps
  <2>4. Walked(r, n)
    BY <1>1, <2>1, <2>2 DEF CaptureSound
  <2>5. Walked(r, n)'
    BY <1>5, <2>4 DEF Walked
  <2>6. r \notin GitRoots
    BY <2>1, <2>2, CaptureAssumption
  <2>7. RootCaptured(r)'
    BY <1>3, <2>3, <2>5, <2>6 DEF RootCaptured, Walked
  <2> QED BY <1>3, <1>8, <2>1, <2>2, <2>7
<1>10. CASE writeGitReceipt /\ ~ProtocolFails
  <2>1. /\ run.roots # <<>> /\ Root \in GitRoots /\ run'.roots = Tail(run.roots)
        /\ run'.lines = Append(run.lines, LogLine(GitReceipt(run.live, run.objects),
                                                  Store, {Root}))
        /\ Put({GitReceipt(run.live, run.objects)})
    BY <1>10, RootSteps, WriteGitFields DEF RootPhase, MemoryTyped
  <2>2. PICK r, s, b : r = Root /\ s = Store /\ b = GitReceipt(run.live, run.objects)
    OBVIOUS
  <2>3. PICK l : l = LogLine(b, s, {r})
    OBVIOUS
  <2>4. l.store = s /\ l.receipt = b /\ l.roots = {r}
    BY <2>3 DEF LogLine
  <2>5. b.kind = "git"
    BY <2>2 DEF GitReceipt
  <2>6. l \in ToSet(run'.lines) /\ b \in blobs'[s]
    BY <2>1, <2>2, <2>3, AppendSet, PutGrows DEF MemoryTyped
  <2>7. r \in GitRoots /\ r \notin FileRoots
    BY <2>1, <2>2, CaptureAssumption
  <2>8. Captures(l, s, r)'
    BY <2>4, <2>5, <2>6, <2>7 DEF Captures
  <2>9. Captured(s, r)'
    BY <2>6, <2>8 DEF Captured
  <2>10. Store' = s
    BY <1>1, <2>2 DEF Store
  <2>11. RootCaptured(r)'
    BY <2>7, <2>9, <2>10 DEF RootCaptured, Captured, Captures
  <2> QED BY <1>3, <1>8, <2>1, <2>2, <2>11
<1>11. CASE ~WalkDone /\ ~(writeGitReceipt /\ ~ProtocolFails)
  <2>1. run'.roots = run.roots
    BY <1>2, <1>11, CaptureProtocolFields, ListFields, FetchFields, CloneFields, RootSteps
       DEF RootStep, MemoryTyped, Keeps, Fields
  <2> QED BY <1>7, <2>1
<1> QED BY <1>9, <1>10, <1>11

\* The receipt of the group.
LEMMA ReceiptStepKept ==
    ASSUME WorldTyped, MemoryTyped, Loop, RootPhase, EntriesSound, CaptureSound, Next, Clean',
           WriteReceipt
    PROVE  /\ RootsLeft' /\ RootsCaptured'
           /\ pc' # "walk"
<1>1. /\ Clean /\ InGroup /\ Grown /\ run'.group = run.group
      /\ run'.failCount = run.failCount /\ run.failCount \in Nat
      /\ ToSet(run.lines) \subseteq ToSet(run'.lines)
  BY CleanGroupStep DEF MemoryTyped, GroupStep
<1>2. pc = "roots" /\ pc' = "failures" /\ run'.roots = run.roots /\ run'.entries = run.entries
  BY RootSteps, WriteReceiptFields DEF MemoryTyped, Keeps, Fields
<1>3. RootsLeft /\ RootsCaptured
  BY <1>1 DEF CaptureSound
<1>4. RootsLeft' /\ Done' = Done
  BY <1>1, <1>2, <1>3 DEF RootsLeft, Done
<1>5. Store \in Stores /\ Store' = Store
  BY <1>1 DEF Store, MemoryTyped, GroupType
<1>6. ASSUME NEW i \in 1..Done, NEW r, r = run.group.roots[i] PROVE RootCaptured(r)'
  <2>1. PICK s : s = Store
    OBVIOUS
  <2>2. /\ r \in GitRoots => Captured(s, r)
        /\ r \in FileRoots => Walked(r, Len(Tree[r]))
    BY <1>2, <1>3, <1>6, <2>1 DEF RootsCaptured, RootCaptured
  <2>3. r \in GitRoots => Captured(s, r)'
    BY <1>1, <1>5, <2>1, <2>2, CapturedStays
  <2>4. r \in FileRoots => Captured(s, r)'
    <3> SUFFICES ASSUME r \in FileRoots PROVE Captured(s, r)'
      OBVIOUS
    <3>1. Len(Tree[r]) > 0
      <4>1. Tree[r] \in Seq(STRING) /\ Tree[r] # <<>>
        BY CaptureAssumption
      <4> QED BY <4>1, EmptySeq, LenProperties
    <3>2. run.entries # {}
      BY <2>2, <3>1 DEF Walked
    <3>3. PICK b : b = FsReceipt(Collapsed)
      OBVIOUS
    <3>4. Put({b}) /\ run'.lines = Append(run.lines, GroupLine(b))
      <4>1. run'.failCount # run.failCount + 1
        BY <1>1
      <4> QED BY <3>2, <3>3, <4>1, WriteReceiptFields DEF MemoryTyped
    <3>5. PICK l : l = GroupLine(b)
      OBVIOUS
    <3>6. l.store = s /\ l.receipt = b /\ l.roots = RootsOf(run.group)
      BY <2>1, <3>5 DEF GroupLine, LogLine
    <3>7. b.kind = "fs" /\ b.entries = Collapsed
      BY <3>3 DEF FsReceipt
    <3>8. l \in ToSet(run'.lines) /\ b \in blobs'[s]
      BY <2>1, <3>4, <3>5, AppendSet, PutGrows DEF MemoryTyped
    <3>9. r \in l.roots
      <4>1. i \in DOMAIN run.group.roots
        <5>1. Len(run.group.roots) \in Nat /\ Done \in 0..Len(run.group.roots)
              /\ DOMAIN run.group.roots = 1..Len(run.group.roots)
          BY <1>3 DEF RootsLeft, MemoryTyped, GroupType
        <5> QED BY <1>6, <5>1
      <4> QED BY <1>6, <3>6, <4>1 DEF RootsOf, ToSet
    <3>10. \A j \in 2..Len(Tree[r]) : \E e \in b.entries : e.blob = FileBlob(r, Tree[r][j])
      BY <2>2, <3>7, CollapsedBlobs DEF Walked
    <3>11. r \notin GitRoots
      BY CaptureAssumption
    <3>12. Captures(l, s, r)'
      BY <3>6, <3>7, <3>8, <3>9, <3>10, <3>11 DEF Captures
    <3> QED BY <3>8, <3>12 DEF Captured
  <2> QED BY <1>2, <1>5, <2>1, <2>3, <2>4 DEF RootCaptured, Captured, Captures
<1>7. RootsCaptured'
  BY <1>1, <1>4, <1>6, RootsCapturedIf
<1> QED BY <1>2, <1>4, <1>7


\* What was captured does not change with what happens outside the process.
LEMMA CaptureSoundSame ==
    ASSUME CaptureSound, run' = run, pc' = pc, blobs' = blobs
    PROVE  CaptureSound'
<1>1. Clean' = Clean /\ InGroup' = InGroup
  BY DEF Clean, InGroup
<1>2. GroupsCaptured' = GroupsCaptured
  BY DEF GroupsCaptured, Over, InGroup, Captured, Captures
<1>3. RootsLeft' = RootsLeft
  BY DEF RootsLeft, Done
<1>4. RootsCaptured' = RootsCaptured
  BY DEF RootsCaptured, RootCaptured, Captured, Captures, Done, Store, Walked
<1>5. NamesLeft' = NamesLeft
  BY DEF NamesLeft, Steps, Root
<1>6. Walked(Root, Steps)' = Walked(Root, Steps)
  BY DEF Walked, Steps, Root
<1> QED BY <1>1, <1>2, <1>3, <1>4, <1>5, <1>6 DEF CaptureSound

\* Without a failure, everything up to here is captured.
LEMMA CaptureKept ==
    ASSUME WorldTyped, MemoryTyped, Loop, RootPhase, EntriesSound, CaptureSound, Next
    PROVE  CaptureSound'
<1>n. run.number \in Nat
  BY DEF MemoryTyped
<1>g. Grown
  BY StepGrows
<1>0. ASSUME run'.failures = {}, run'.carry = {}, run'.number = 0, ~InGroup', pc' # "walk"
      PROVE  CaptureSound'
  <2>1. Over' = {}
    BY <1>0 DEF Over
  <2>2. GroupsCaptured'
    BY <2>1 DEF GroupsCaptured
  <2> QED BY <1>0, <2>2 DEF CaptureSound
<1>1. ASSUME pc # "plan", Clean, run'.plan = run.plan, Over' = Over,
             ToSet(run.lines) \subseteq ToSet(run'.lines)
      PROVE  GroupsCaptured'
  <2>1. \A g \in Over : \A r \in RootsOf(run.plan[g]) : Captured(run.plan[g].store, r)'
    BY <1>1, <1>g, GroupsStay DEF CaptureSound
  <2> QED BY <1>1, <2>1 DEF GroupsCaptured, Captured, Captures
<1>2. CASE \E args \in ArgLists : Start(args)
  <2>1. run'.failures = {} /\ run'.carry = {} /\ run'.number = 0 /\ pc' = "plan"
    BY <1>2, StartFields, NoRunFields DEF Fields
  <2> QED BY <1>0, <2>1 DEF InGroup
<1>3. CASE PlanStep
  <2> SUFFICES ASSUME Clean' PROVE CaptureSound'
    BY DEF CaptureSound
  <2>1. CASE planCapture /\ pc = "plan" /\ pc' = "plan" /\ told' = told
    <3>1. run'.number = 0 /\ run'.failures = {} /\ run'.aborted = run.aborted
      BY <2>1, PlanCaptureFields DEF MemoryTyped, Loop, Keeps, Fields
    <3>2. \/ run'.failCount = run.failCount /\ run'.carry = run.carry
          \/ run'.failCount = run.failCount + 1
      BY <2>1 DEF planCapture, PlanFails, Flush, MemoryTyped, RunShape, Fields
    <3>3. Clean /\ run'.carry = run.carry
      <4>1. run.failCount \in Nat
        BY DEF MemoryTyped
      <4>2. run'.failCount # run.failCount + 1
        BY <4>1 DEF Clean
      <4> QED BY <3>1, <3>2, <4>2 DEF Clean
    <3>4. run'.carry = {}
      BY <3>3 DEF CaptureSound
    <3> QED BY <1>0, <2>1, <3>1, <3>4 DEF InGroup
  <2>2. CASE PlanEnd /\ pc = "plan" /\ pc' = "groups"
    <3>1. /\ run'.number = 0 /\ run'.failures = {} /\ run'.carry = run.carry
          /\ run'.failCount = run.failCount /\ run'.aborted = run.aborted
      BY <2>2, PlanEndFields DEF MemoryTyped, Loop, Keeps, Fields
    <3>2. run'.carry = {}
      BY <3>1 DEF Clean, CaptureSound
    <3> QED BY <1>0, <2>2, <3>1, <3>2 DEF InGroup
  <2> QED BY <1>3, <2>1, <2>2 DEF PlanStep
<1>4. CASE Ends
  <2>1. run'.failures = {} /\ run'.carry = {} /\ run'.number = 0 /\ pc' = "idle"
    BY <1>4, NoRunFields DEF Ends
  <2> QED BY <1>0, <2>1 DEF InGroup
<1>5. CASE BeginGroup
  <2> SUFFICES ASSUME Clean' PROVE CaptureSound'
    BY DEF CaptureSound
  <2>1. /\ pc = "groups" /\ pc' = "roots" /\ run'.plan = run.plan /\ run'.lines = run.lines
        /\ run'.number = run.number + 1 /\ run'.failures = run.carry /\ run'.carry = {}
        /\ run'.group = Head(run.groups) /\ run'.roots = Head(run.groups).roots
    BY <1>5, BeginGroupFields DEF BeginGroup, MemoryTyped, Keeps
  <2>2. Clean
    BY <2>1, CleanBefore
  <2>3. Over' = Over
    <3>1. Over = 1..run.number
      BY <2>1 DEF Over, InGroup
    <3>2. Over' = {g \in 1..(run.number + 1) : g < run.number + 1}
      BY <2>1 DEF Over, InGroup
    <3> QED BY <1>n, <3>1, <3>2
  <2>4. GroupsCaptured'
    BY <1>1, <2>1, <2>2, <2>3
  <2>5. run'.failures = {}
    BY <2>1, <2>2 DEF CaptureSound
  <2>6. PICK roots : roots = run'.roots
    OBVIOUS
  <2>7. roots = run'.group.roots /\ Len(roots) \in Nat
    <3>1. run.groups # <<>> /\ run.groups \in Seq(GroupType)
      BY <1>5 DEF BeginGroup, MemoryTyped
    <3>2. Head(run.groups) \in GroupType
      BY <3>1, HeadTailProperties
    <3>3. roots \in Seq(Roots)
      BY <2>1, <2>6, <3>2 DEF GroupType
    <3> QED BY <2>1, <2>6, <3>3, LenProperties
  <2>8. Done' = 0
    <3>1. Done' = Len(roots) - Len(roots)
      BY <2>6, <2>7 DEF Done
    <3> QED BY <2>7, <3>1
  <2>9. RootsLeft' /\ RootsCaptured'
    <3>1. 0 \in 0..Len(roots) /\ 1..0 = {} /\ \A j \in 1..Len(roots) : 0 + j = j
      BY <2>7
    <3> QED BY <2>6, <2>7, <2>8, <3>1 DEF RootsLeft, RootsCaptured
  <2> QED BY <2>1, <2>4, <2>5, <2>9 DEF CaptureSound
<1>6. CASE GroupStep
  <2> SUFFICES ASSUME Clean' PROVE CaptureSound'
    BY DEF CaptureSound
  <2>1. run'.failures = {} /\ run'.carry = {} /\ GroupsCaptured'
    BY <1>6, CleanGroupStep
  <2>2. /\ InGroup' => RootsLeft' /\ RootsCaptured'
        /\ pc' = "walk" => NamesLeft' /\ Walked(Root, Steps)'
    <3>1. CASE CaptureRoot \/ WalkEntry
      BY <3>1, WalkStepKept
    <3>2. CASE RootStep /\ ~CaptureRoot /\ ~WalkEntry
      BY <3>2, OtherRootStepKept
    <3>3. CASE WriteReceipt
      BY <3>3, ReceiptStepKept
    <3> QED BY <1>6, <3>1, <3>2, <3>3 DEF GroupStep
  <2> QED BY <2>1, <2>2 DEF CaptureSound
<1>7. CASE RecordFailures
  <2> SUFFICES ASSUME Clean' PROVE CaptureSound'
    BY DEF CaptureSound
  <2>1. /\ InGroup /\ ~InGroup' /\ pc = "failures" /\ pc' = "groups"
        /\ run'.number = run.number /\ run'.plan = run.plan /\ run'.carry = run.carry
        /\ run'.failures = run.failures
    BY <1>7, RecordTells
  <2>2. Clean
    BY <2>1, CleanBefore
  <2>3. run.failures = {} /\ run.carry = {}
    BY <2>2 DEF CaptureSound
  <2>4. run'.lines = run.lines
    BY <1>7, <2>2, <2>3, RecordFailuresFields DEF MemoryTyped, Clean
  <2>5. run.number > 0 /\ run.group = run.plan[run.number]
    BY <1>n, <2>1 DEF Loop
  <2>6. Over' = Over \cup {run.number}
    BY <1>n, <2>1, <2>5 DEF Over
  <2>7. ASSUME NEW r \in RootsOf(run.group) PROVE Captured(Store, r)
    <3>1. RootsLeft /\ RootsCaptured
      BY <2>1, <2>2 DEF CaptureSound
    <3>2. run.group.roots \in Seq(Roots) /\ run.roots = <<>>
      BY <2>1 DEF MemoryTyped, GroupType, RootPhase
    <3>3. PICK i \in 1..Len(run.group.roots) : r = run.group.roots[i]
      BY <2>7, <3>2 DEF RootsOf, ToSet
    <3>4. Done = Len(run.group.roots)
      <4>1. Len(run.roots) = 0 /\ Len(run.group.roots) \in Nat
        BY <3>2
      <4> QED BY <4>1 DEF Done
    <3>5. RootCaptured(r)
      BY <3>1, <3>3, <3>4 DEF RootsCaptured
    <3>6. r \in Roots
      BY <3>2, <3>3, ElementOfSeq
    <3> QED BY <2>1, <3>5, <3>6 DEF RootCaptured, Roots
  <2>8. ASSUME NEW r \in RootsOf(run.group) PROVE Captured(Store, r)'
    <3>1. PICK s : s = Store
      OBVIOUS
    <3>2. s \in Stores /\ Captured(s, r)
      BY <2>7, <2>8, <3>1 DEF Store, MemoryTyped, GroupType
    <3>3. Captured(s, r)'
      BY <1>g, <2>4, <3>2, CapturedStays
    <3>4. s = Store'
      BY <1>7, <3>1, RecordTells DEF Store
    <3> QED BY <3>3, <3>4 DEF Captured, Captures
  <2>9. ASSUME NEW g \in Over, NEW r \in RootsOf(run.plan[g])
        PROVE  Captured(run.plan[g].store, r)'
    BY <1>g, <2>1, <2>2, <2>4, <2>9, GroupsStay DEF CaptureSound
  <2>10. GroupsCaptured'
    <3> SUFFICES ASSUME NEW g \in Over', NEW r \in RootsOf(run'.plan[g])
                 PROVE  Captured(run.plan[g].store, r)'
      BY DEF GroupsCaptured
    <3>1. CASE g \in Over
      BY <2>1, <2>9, <3>1
    <3>2. CASE g = run.number
      <4>1. r \in RootsOf(run.group) /\ Store' = run'.plan[g].store
        <5>1. run'.group = run.group
          BY <1>7, RecordTells
        <5> QED BY <2>1, <2>5, <3>2, <5>1 DEF Store
      <4> QED BY <2>8, <4>1 DEF Captured, Captures
    <3> QED BY <2>6, <3>1, <3>2
  <2> QED BY <2>1, <2>3, <2>10 DEF CaptureSound
<1>8. CASE Finish
  <2>1. /\ run' = run /\ pc = "groups" /\ pc' = "ended" /\ ~InGroup /\ ~InGroup'
    BY <1>8 DEF Finish, InGroup
  <2>2. Over' = Over /\ Clean' = Clean
    BY <2>1 DEF Over, Clean
  <2>3. ASSUME Clean PROVE GroupsCaptured'
    BY <1>1, <2>1, <2>2, <2>3
  <2> QED BY <2>1, <2>2, <2>3 DEF CaptureSound
<1>9. CASE Signal
  <2>1. run'.aborted = TRUE
    BY <1>9, SignalFields DEF MemoryTyped
  <2> QED BY <2>1 DEF CaptureSound, Clean
<1>10. CASE Push
  <2>1. run' = run /\ pc' = pc /\ blobs' = blobs
    BY <1>10 DEF Push
  <2> QED BY <2>1, CaptureSoundSame
<1> QED BY <1>2, <1>3, <1>4, <1>5, <1>6, <1>7, <1>8, <1>9, <1>10, StepKinds DEF GroupStep

LEMMA EndKept ==
    ASSUME MemoryTyped, EndSound, Next
    PROVE  EndSound'
<1>1. CASE Finish
  <2>1. /\ run' = run
        /\ lastExit' = IF run.failCount > 0 \/ run.aborted THEN "failed" ELSE "ok"
    BY <1>1 DEF Finish
  <2>2. lastExit' = "ok" => ~(run.failCount > 0) /\ ~run.aborted
    BY <2>1
  <2>3. ~(run.failCount > 0) => run.failCount = 0
    BY DEF MemoryTyped
  <2> QED BY <2>1, <2>2, <2>3 DEF EndSound, Clean
<1>2. CASE Push
  BY <1>2 DEF Push, EndSound, Clean
<1>3. CASE ~Finish /\ ~Push
  <2>1. pc' # "ended"
    <3>1. RootStep => pc' # "ended"
      BY RootSteps DEF RootStep
    <3> QED BY <1>3, <3>1, StepKinds DEF Start, PlanStep, BeginGroup, WriteReceipt,
        RecordFailures, Ends, Signal
  <2> QED BY <2>1 DEF EndSound
<1> QED BY <1>1, <1>2, <1>3

(***************************************************************************)
(* The invariant holds.                                                    *)
(***************************************************************************)

LEMMA InitHolds == Init => IInv
<1> SUFFICES ASSUME Init PROVE IInv
  OBVIOUS
<1>1. /\ pc = "idle" /\ run = NoRun /\ told = {} /\ journal = <<>> /\ spills = <<>>
      /\ blobs = [s \in Stores |-> {}] /\ tip \in Commits /\ lastExit = "none"
  BY DEF Init
<1>2. <<>> \in Seq(ToSet(<<>>)) /\ ToSet(<<>>) = {} /\ Len(<<>>) = 0
  BY DEF ToSet
<1>3. WorldTyped
  BY <1>1, <1>2 DEF WorldTyped
<1>4. MemoryTyped
  <2>1. /\ <<>> \in Seq(Args) /\ <<>> \in Seq(GroupType) /\ <<>> \in Seq(Roots)
        /\ <<>> \in Seq(STRING)
    OBVIOUS
  <2>2. RunShape
    BY <1>1, NoRunFields DEF RunShape
  <2>3. /\ run.args \in Seq(Args) /\ run.todo \in Seq(Args)
        /\ run.plan \in Seq(GroupType) /\ run.groups \in Seq(GroupType)
        /\ run.roots \in Seq(Roots) /\ run.walk \in Seq(STRING)
        /\ run.lines \in Seq(ToSet(run.lines))
    BY <1>1, <1>2, <2>1, NoRunFields
  <2>4. run.current \in GroupType /\ run.group \in GroupType
    BY <1>1, NoRunFields, DefaultGroup
  <2>5. run.number = 0 /\ run.entryRoots = 0 /\ run.failCount = 0
    BY <1>1, NoRunFields
  <2>6. run.number \in Nat /\ run.entryRoots \in Nat /\ run.failCount \in Nat
    BY <2>5
  <2>7. run.aborted \in BOOLEAN
    BY <1>1, NoRunGoesOn
  <2> QED BY <2>2, <2>3, <2>4, <2>6, <2>7 DEF MemoryTyped
<1>5. /\ run.groups = <<>> /\ run.plan = <<>> /\ run.number = 0 /\ run.lines = <<>>
      /\ run.entries = {} /\ run.logIdx = 0 /\ run.failures = {} /\ run.carry = {}
      /\ run.failCount = 0
  BY <1>1, NoRunFields
<1>6. ~InGroup /\ Over = {}
  BY <1>1, <1>5 DEF InGroup, Over
<1>7. Loop /\ RootPhase
  <2>1. run.number + Len(run.groups) = Len(run.plan) /\ 1..Len(run.groups) = {}
    BY <1>2, <1>5
  <2> QED BY <1>1, <1>5, <1>6, <2>1 DEF Loop, RootPhase
<1>8. ReceiptsComplete /\ EntriesSound /\ GitSound
  BY <1>1, <1>5 DEF ReceiptsComplete, EntriesSound, GitSound
<1>9. JournalLines /\ LinesSound
  <2>1. ToSet(journal) = {} /\ ToSet(run.lines) = {} /\ run.logIdx \in 0..Len(run.lines)
    BY <1>1, <1>2, <1>5
  <2> QED BY <1>1, <1>6, <2>1 DEF JournalLines, LinesSound
<1>10. FailuresHeld /\ FailuresFiledSoFar /\ LinesLead
  BY <1>1, <1>5, <1>6 DEF FailuresHeld, FailuresFiledSoFar, LinesLead
<1>11. PlanSound /\ PlanCovers /\ EndSound
  BY <1>1 DEF PlanSound, PlanCovers, EndSound
<1>12. CaptureSound
  BY <1>1, <1>5, <1>6 DEF CaptureSound, GroupsCaptured
<1> QED BY <1>3, <1>4, <1>7, <1>8, <1>9, <1>10, <1>11, <1>12 DEF IInv

\* A step that changes nothing.
LEMMA IdleHolds == IInv /\ UNCHANGED vars => IInv'
<1> SUFFICES ASSUME IInv, UNCHANGED vars PROVE IInv'
  OBVIOUS
<1>0. /\ tip' = tip /\ blobs' = blobs /\ journal' = journal /\ spills' = spills /\ pc' = pc
      /\ run' = run /\ told' = told /\ lastExit' = lastExit
  BY DEF vars
<1>1. WorldTyped' /\ MemoryTyped' /\ Loop' /\ RootPhase'
  BY <1>0 DEF IInv, WorldTyped, MemoryTyped, RunShape, Loop, InGroup, RootPhase, Root
<1>2. ReceiptsComplete' /\ EntriesSound' /\ GitSound'
  BY <1>0 DEF IInv, ReceiptsComplete, EntriesSound, GitSound, Root, Store
<1>3. JournalLines' /\ LinesSound'
  BY <1>0 DEF IInv, JournalLines, LinesSound, LineSound, InGroup, Store, GroupLine
<1>4. FailuresHeld' /\ FailuresFiledSoFar' /\ LinesLead'
  BY <1>0 DEF IInv, FailuresHeld, FailuresFiledSoFar, LinesLead, Over, InGroup, Reported,
     FiledOf, LeadsTo
<1>5. PlanSound' /\ PlanCovers'
  BY <1>0 DEF IInv, PlanSound, PlanCovers, Met, InPlan
<1>6. CaptureSound' /\ EndSound'
  BY <1>0, CaptureSoundSame DEF IInv, EndSound, Clean
<1> QED BY <1>1, <1>2, <1>3, <1>4, <1>5, <1>6 DEF IInv

\* Every step of the command, and of what happens around it, preserves the invariant.
LEMMA NextHolds == IInv /\ [Next]_vars => IInv'
<1> SUFFICES ASSUME IInv, [Next]_vars PROVE IInv'
  OBVIOUS
<1>1. CASE Next
  <2> USE DEF IInv
  <2>1. WorldTyped' /\ MemoryTyped' /\ Loop' /\ RootPhase'
    BY <1>1, WorldKept, MemoryKept, LoopKept, RootPhaseKept
  <2>2. ReceiptsComplete' /\ EntriesSound' /\ GitSound'
    BY <1>1, ReceiptsKept, EntriesKept, GitKept
  <2>3. JournalLines' /\ LinesSound'
    BY <1>1, JournalKept, LinesKept
  <2>4. FailuresHeld' /\ FailuresFiledSoFar' /\ LinesLead'
    BY <1>1, FailuresHeldKept, FiledKept, LinesLeadKept
  <2>5. PlanSound' /\ PlanCovers'
    BY <1>1, PlanKept, CoversKept
  <2>6. CaptureSound' /\ EndSound'
    BY <1>1, CaptureKept, EndKept
  <2> QED BY <2>1, <2>2, <2>3, <2>4, <2>5, <2>6
<1> QED BY <1>1, IdleHolds


(***************************************************************************)
(* Types and bounds.                                                       *)
(***************************************************************************)
BlobKinds == {"file", "object", "fs", "git", "failures"}

\* What the stores hold, the counters and the spill of a second keep to their bounds.
Bounded ==
    /\ \A s \in Stores : \A b \in blobs[s] : b.kind \in BlobKinds
    /\ Len(spills) <= MaxSpillSuffix + 1
    /\ lastExit \in {"none", "ok", "failed", "usage"}
    /\ runs \in 0..MaxRuns /\ pushes \in 0..MaxPushes /\ faults \in 0..MaxFaults
    /\ logged \in BOOLEAN

\* Operations fail only while the bound lasts.
LEMMA FaultsBounded ==
    ASSUME faults \in 0..MaxFaults, Next
    PROVE  faults' \in 0..MaxFaults
<1>1. /\ Faulty(1) => faults' \in 0..MaxFaults
      /\ Faulty(2) => faults' \in 0..MaxFaults
  BY CaptureAssumption DEF Faulty
<1>2. CallFails => faults' \in 0..MaxFaults
  BY <1>1 DEF CallFails
<1>3. CASE \/ \E args \in ArgLists : Start(args)
           \/ planCapture \/ PlanEnd \/ BeginGroup \/ CaptureRoot \/ WalkDone
           \/ Exit \/ Signal \/ Crash \/ Push
  BY <1>3 DEF Start, planCapture, PlanEnd, BeginGroup, CaptureRoot, WalkDone, Exit, Signal,
     Crash, Push
<1>4. CASE WalkEntry
  BY <1>1, <1>4 DEF WalkEntry
<1>5. CASE CaptureProtocol
  BY <1>1, <1>5 DEF CaptureProtocol
<1>6. CASE listRemoteTip \/ fetchBranchInto \/ cloneBranchToMemory
  BY <1>1, <1>2, <1>6 DEF listRemoteTip, fetchBranchInto, cloneBranchToMemory
<1>7. CASE StoreObjects \/ writeGitReceipt
  BY <1>1, <1>2, <1>7 DEF StoreObjects, writeGitReceipt
<1>8. CASE WriteReceipt
  BY <1>1, <1>8 DEF WriteReceipt
<1>9. CASE RecordFailures
  BY <1>1, <1>9 DEF RecordFailures
<1>10. CASE Finish
  BY <1>1, <1>10 DEF Finish, AppendLog
<1> QED BY <1>3, <1>4, <1>5, <1>6, <1>7, <1>8, <1>9, <1>10 DEF Next

\* Only receipts, files and objects are put into a store.
LEMMA KindsPut ==
    ASSUME NEW B, Put(B), \A b \in B : b.kind \in BlobKinds,
           blobs = [s \in Stores |-> blobs[s]],
           \A s \in Stores : \A b \in blobs[s] : b.kind \in BlobKinds
    PROVE  \A s \in Stores : \A b \in blobs'[s] : b.kind \in BlobKinds
<1>1. \A s \in Stores : blobs'[s] = blobs[s] \/ blobs'[s] = blobs[s] \cup B
  BY DEF Put
<1> QED BY <1>1

LEMMA KindsKept ==
    ASSUME blobs = [s \in Stores |-> blobs[s]], Next,
           \A s \in Stores : \A b \in blobs[s] : b.kind \in BlobKinds
    PROVE  \A s \in Stores : \A b \in blobs'[s] : b.kind \in BlobKinds
<1>1. CASE UNCHANGED blobs
  BY <1>1
<1>2. CASE WalkEntry
  <2>1. \A b \in {Entry(Root, Name).blob} \ {None} : b.kind \in BlobKinds
    BY DEF Entry, FileBlob, BlobKinds
  <2>2. UNCHANGED blobs \/ Put({Entry(Root, Name).blob} \ {None})
    BY <1>2 DEF WalkEntry, Name
  <2> QED BY <1>1, <2>1, <2>2, KindsPut
<1>3. CASE StoreObjects
  <2>1. PICK d \in SUBSET run.delta : Put({Object(c) : c \in d})
    BY <1>3 DEF StoreObjects
  <2>2. \A b \in {Object(c) : c \in d} : b.kind \in BlobKinds
    BY DEF Object, BlobKinds
  <2> QED BY <2>1, <2>2, KindsPut
<1>4. CASE writeGitReceipt
  <2>1. UNCHANGED blobs \/ Put({GitReceipt(run.live, run.objects)})
    BY <1>4 DEF writeGitReceipt
  <2>2. GitReceipt(run.live, run.objects).kind \in BlobKinds
    BY DEF GitReceipt, BlobKinds
  <2> QED BY <1>1, <2>1, <2>2, KindsPut
<1>5. CASE WriteReceipt
  <2>1. UNCHANGED blobs \/ Put({FsReceipt(Collapsed)})
    BY <1>5 DEF WriteReceipt
  <2>2. FsReceipt(Collapsed).kind \in BlobKinds
    BY DEF FsReceipt, BlobKinds
  <2> QED BY <1>1, <2>1, <2>2, KindsPut
<1>6. CASE RecordFailures
  <2>1. UNCHANGED blobs \/ Put({buildFailureReceipt})
    BY <1>6 DEF RecordFailures
  <2>2. buildFailureReceipt.kind \in BlobKinds
    BY DEF buildFailureReceipt, BlobKinds
  <2> QED BY <1>1, <2>1, <2>2, KindsPut
<1>7. CASE \/ \E args \in ArgLists : Start(args)
           \/ planCapture \/ PlanEnd \/ BeginGroup \/ CaptureRoot \/ WalkDone
           \/ CaptureProtocol \/ listRemoteTip \/ fetchBranchInto \/ cloneBranchToMemory
           \/ Finish \/ Exit \/ Signal \/ Crash \/ Push
  BY <1>1, <1>7 DEF Start, planCapture, PlanEnd, BeginGroup, CaptureRoot, WalkDone,
     CaptureProtocol, listRemoteTip, fetchBranchInto, cloneBranchToMemory, Finish, Exit,
     Signal, Crash, Push
<1> QED BY <1>2, <1>3, <1>4, <1>5, <1>6, <1>7 DEF Next

LEMMA BoundedKept ==
    ASSUME WorldTyped, Bounded, Next
    PROVE  Bounded'
<1>1. \A s \in Stores : \A b \in blobs'[s] : b.kind \in BlobKinds
  BY KindsKept DEF WorldTyped, Bounded
<1>2. faults' \in 0..MaxFaults
  BY FaultsBounded DEF Bounded
<1>3. runs' \in 0..MaxRuns /\ pushes' \in 0..MaxPushes
  <2>1. runs' = runs \/ (runs < MaxRuns /\ runs' = runs + 1)
    BY DEF Next, Start, planCapture, PlanEnd, BeginGroup, CaptureRoot, WalkEntry, WalkDone,
       CaptureProtocol, listRemoteTip, fetchBranchInto, cloneBranchToMemory, StoreObjects,
       writeGitReceipt, WriteReceipt, RecordFailures, Finish, Exit, Signal, Crash, Push
  <2>2. pushes' = pushes \/ (pushes < MaxPushes /\ pushes' = pushes + 1)
    BY DEF Next, Start, planCapture, PlanEnd, BeginGroup, CaptureRoot, WalkEntry, WalkDone,
       CaptureProtocol, listRemoteTip, fetchBranchInto, cloneBranchToMemory, StoreObjects,
       writeGitReceipt, WriteReceipt, RecordFailures, Finish, Exit, Signal, Crash, Push
  <2> QED BY <2>1, <2>2, CaptureAssumption DEF Bounded
<1>4. lastExit' \in {"none", "ok", "failed", "usage"}
  <2>1. lastExit' = lastExit \/ lastExit' \in {"ok", "failed", "usage"}
    BY DEF Next, Start, planCapture, PlanEnd, PlanFails, Planned, BeginGroup, CaptureRoot,
       WalkEntry, WalkDone, CaptureProtocol, listRemoteTip, fetchBranchInto,
       cloneBranchToMemory, StoreObjects, writeGitReceipt, WriteReceipt, RecordFailures,
       Finish, Exit, Signal, Crash, Push
  <2> QED BY <2>1 DEF Bounded
<1>5. Len(spills') <= MaxSpillSuffix + 1
  <2>1. \/ spills' = spills
        \/ spills' = Append(spills, buildFailureReceipt) /\ ~SpillFull
    BY DEF Next, Start, planCapture, PlanEnd, BeginGroup, CaptureRoot, WalkEntry, WalkDone,
       CaptureProtocol, listRemoteTip, fetchBranchInto, cloneBranchToMemory, StoreObjects,
       writeGitReceipt, WriteReceipt, RecordFailures, Spilled, Finish, Exit, Signal, Crash,
       Push
  <2>2. Len(spills) \in Nat /\ Len(Append(spills, buildFailureReceipt)) = Len(spills) + 1
    BY AppendSet DEF WorldTyped
  <2>3. ~SpillFull => Len(spills) + 1 <= MaxSpillSuffix + 1
    BY <2>2, CaptureAssumption DEF SpillFull
  <2> QED BY <2>1, <2>2, <2>3 DEF Bounded
<1>6. logged' \in BOOLEAN
  <2>1. logged' = logged \/ logged' = TRUE \/ logged' = FALSE
    BY DEF Next, Start, planCapture, PlanEnd, BeginGroup, CaptureRoot, WalkEntry, WalkDone,
       CaptureProtocol, listRemoteTip, fetchBranchInto, cloneBranchToMemory, StoreObjects,
       writeGitReceipt, WriteReceipt, RecordFailures, Finish, AppendLog, Exit, Signal,
       Crash, Push
  <2> QED BY <2>1 DEF Bounded
<1> QED BY <1>1, <1>2, <1>3, <1>4, <1>5, <1>6 DEF Bounded

(***************************************************************************)
(* What an invocation leaves behind: its lines, and its exit.              *)
(***************************************************************************)

\* After an append that went through, the journal ends with the invocation's lines.
LogSound ==
    pc = "ended" /\ logged =>
       /\ Len(run.lines) <= Len(journal)
       /\ \A k \in 1..Len(run.lines) :
             journal[Len(journal) - Len(run.lines) + k] = run.lines[k]

LEMMA LogKept ==
    ASSUME WorldTyped, MemoryTyped, LogSound, Next
    PROVE  LogSound'
<1>1. CASE Finish
  <2>1. run' = run /\ AppendLog(run.lines)
    BY <1>1 DEF Finish
  <2>2. SUFFICES ASSUME logged' PROVE LogSound'
    BY DEF LogSound
  <2>3. journal' = journal \o run.lines
    BY <2>1, <2>2 DEF AppendLog
  <2>4. journal \in Seq(ToSet(journal)) /\ run.lines \in Seq(ToSet(run.lines))
    BY DEF WorldTyped, MemoryTyped
  <2>5. /\ Len(journal) \in Nat /\ Len(run.lines) \in Nat
        /\ Len(journal') = Len(journal) + Len(run.lines)
        /\ \A k \in 1..Len(run.lines) : journal'[Len(journal) + k] = run.lines[k]
    <3> DEFINE U == ToSet(journal) \cup ToSet(run.lines)
    <3>1. journal \in Seq(U) /\ run.lines \in Seq(U)
      BY <2>4, SeqMonotonic
    <3> HIDE DEF U
    <3>2. Len(journal) \in Nat /\ Len(run.lines) \in Nat
      BY <3>1
    <3>3. Len(journal') = Len(journal) + Len(run.lines)
      BY <2>3, <3>1
    <3>4. ASSUME NEW k \in 1..Len(run.lines)
          PROVE  journal'[Len(journal) + k] = run.lines[k]
      BY <2>3, <3>1, <3>2
    <3> QED BY <3>2, <3>3, <3>4
  <2>6. Len(run.lines) <= Len(journal') /\ Len(journal') - Len(run.lines) = Len(journal)
    BY <2>5
  <2> QED BY <2>1, <2>5, <2>6 DEF LogSound
<1>2. CASE Push
  BY <1>2 DEF Push, LogSound
<1>3. CASE ~Finish /\ ~Push
  <2>1. pc' # "ended"
    <3>1. RootStep => pc' # "ended"
      BY RootSteps DEF RootStep
    <3> QED BY <1>3, <3>1, StepKinds DEF Start, PlanStep, BeginGroup, WriteReceipt,
        RecordFailures, Ends, Signal
  <2> QED BY <2>1 DEF LogSound
<1> QED BY <1>1, <1>2, <1>3

\* While nothing has gone wrong nothing has been reported.
QuietWhenClean == Clean => told = {}

LEMMA QuietKept ==
    ASSUME IInv, QuietWhenClean, Next
    PROVE  QuietWhenClean'
<1> USE DEF IInv
<1>1. CASE Ends \/ \E args \in ArgLists : Start(args)
  BY <1>1 DEF Ends, Start, QuietWhenClean
<1>2. CASE PlanStep
  <2>1. SUFFICES ASSUME Clean' PROVE told' = {}
    BY DEF QuietWhenClean
  <2>2. run.failCount \in Nat
    BY DEF MemoryTyped
  <2>3. CASE planCapture /\ pc' = "plan"
    <3>1. told' = told
      BY <2>3 DEF planCapture, PlanFails
    <3>2. run'.failCount = run.failCount \/ run'.failCount = run.failCount + 1
      BY <2>3, PlanCaptureEffect
    <3>3. run'.aborted = run.aborted
      BY <2>3, PlanCaptureFields DEF MemoryTyped, Keeps, Fields
    <3>4. Clean
      BY <2>1, <2>2, <3>2, <3>3 DEF Clean
    <3> QED BY <3>1, <3>4 DEF QuietWhenClean
  <2>4. CASE PlanEnd /\ pc' = "groups"
    <3>1. run'.failCount = run.failCount
      BY <2>4, PlanEndFields DEF MemoryTyped, Keeps, Fields
    <3>2. pc = "plan"
      BY <2>4 DEF PlanEnd
    <3>3. run.carry = {}
      BY <2>1, <3>1, <3>2 DEF Clean, FailuresHeld
    <3>4. told' = {[group |-> 1, what |-> f, where |-> "events"] : f \in run.carry}
      BY <2>4 DEF PlanEnd, PlanFails, Planned
    <3> QED BY <3>3, <3>4
  <2> QED BY <1>2, <2>3, <2>4 DEF PlanStep
<1>3. CASE pc \notin {"idle", "plan"} /\ pc' # "idle"
  <2>1. SUFFICES ASSUME Clean' PROVE told' = {}
    BY DEF QuietWhenClean
  <2>2. Clean /\ run'.failCount = run.failCount /\ told = {}
    BY <1>3, <2>1, CleanBefore DEF QuietWhenClean
  <2>3. CASE BeginGroup \/ Finish \/ Signal \/ Push
    BY <2>2, <2>3 DEF BeginGroup, Finish, Signal, Push
  <2>4. CASE GroupStep
    <3>1. run.failCount \in Nat
      BY DEF MemoryTyped
    <3>2. told' = told
      BY <2>2, <2>4, <3>1, GroupStepTells
    <3> QED BY <2>2, <3>2
  <2>5. CASE RecordFailures
    <3>1. run.failures = {} /\ ~run.aborted
      BY <2>2 DEF CaptureSound, Clean
    <3>2. told' = told
      BY <2>5, <3>1 DEF RecordFailures
    <3> QED BY <2>2, <3>2
  <2> QED BY <1>1, <1>2, <1>3, <2>3, <2>4, <2>5, StepKinds DEF GroupStep, Ends, PlanStep,
      Start, QuietWhenClean
<1>4. ASSUME ~(Ends \/ \E args \in ArgLists : Start(args)), ~PlanStep
      PROVE  QuietWhenClean'
  <2>1. CASE Push
    BY <2>1 DEF Push, QuietWhenClean, Clean
  <2>2. CASE ~Push
    <3>1. RootStep => pc \notin {"idle", "plan"} /\ pc' # "idle"
      BY RootSteps DEF RootStep, GitFails
    <3>2. CASE Signal
      <4>1. run'.aborted /\ run'.failCount = run.failCount
        BY <3>2, SignalFields DEF MemoryTyped, Keeps, Fields
      <4> QED BY <4>1 DEF QuietWhenClean, Clean
    <3>3. CASE ~Signal
      <4>1. pc \notin {"idle", "plan"} /\ pc' # "idle"
        BY <1>4, <2>2, <3>1, <3>3, StepKinds DEF BeginGroup, WriteReceipt, RecordFailures,
           Finish
      <4> QED BY <1>3, <4>1
    <3> QED BY <3>2, <3>3
  <2> QED BY <2>1, <2>2
<1> QED BY <1>1, <1>2, <1>4

(***************************************************************************)
(* The theorems.                                                           *)
(***************************************************************************)

\* The inductive invariant holds of every invocation, whatever is pushed, signalled, killed
\* or fails while it captures.
THEOREM InvariantHolds == Spec => []IInv
BY InitHolds, NextHolds, PTL DEF Spec

LEMMA BoundedHolds == Spec => []Bounded
<1>1. Init => Bounded
  <2> SUFFICES ASSUME Init PROVE Bounded
    OBVIOUS
  <2>1. \A s \in Stores : blobs[s] = {}
    BY DEF Init
  <2>2. /\ Len(spills) = 0 /\ runs = 0 /\ pushes = 0 /\ faults = 0 /\ lastExit = "none"
        /\ logged = TRUE
    BY DEF Init
  <2> QED BY <2>1, <2>2, CaptureAssumption DEF Bounded
<1>2. WorldTyped /\ Bounded /\ [Next]_vars => Bounded'
  <2>1. CASE Next
    BY <2>1, BoundedKept
  <2>2. CASE UNCHANGED vars
    BY <2>2 DEF vars, Bounded
  <2> QED BY <2>1, <2>2
<1>3. IInv => WorldTyped
  BY DEF IInv
<1> QED BY <1>1, <1>2, <1>3, InvariantHolds, PTL DEF Spec

\* Every variable keeps its type and its bound.
THEOREM TypeCorrect == Spec => []TypeOK
<1>1. IInv /\ Bounded => TypeOK
  <2> SUFFICES ASSUME IInv, Bounded PROVE TypeOK
    OBVIOUS
  <2>1. \A i \in DOMAIN journal : journal[i].kind \in {"line", "torn"}
    <3> TAKE i \in DOMAIN journal
    <3>1. journal[i] \in ToSet(journal)
      BY DEF ToSet
    <3> QED BY <3>1 DEF IInv, JournalLines, LineSound, Torn
  <2>2. \A t \in told : t.where \in {"events", "store", "spill", "lost"}
    BY DEF IInv, FailuresHeld, Loop
  <2>3. run.logIdx \in 0..Len(run.lines)
    BY DEF IInv, LinesSound
  <2>4. pc # "plan" => run.number + Len(run.groups) = Len(run.plan)
    BY DEF IInv, Loop
  <2> QED BY <2>1, <2>2, <2>3, <2>4 DEF IInv, WorldTyped, Bounded, BlobKinds, TypeOK
<1> QED BY <1>1, InvariantHolds, BoundedHolds, PTL

\* A receipt in a store is whole: a git receipt lists exactly what is reachable from its tip,
\* also after an incremental fetch from a branch that was pushed to by force meanwhile
\* (listRemoteTip, fetchBranchInto), and the store holds all that a receipt names.
THEOREM ReceiptsAreComplete == Spec => []ReceiptsComplete
<1>1. IInv => ReceiptsComplete
  BY DEF IInv
<1> QED BY <1>1, InvariantHolds, PTL

\* Wherever the process dies or the journal's write stops (appendCaptureLog), every whole
\* line of captures.log leads to receipts its store holds.
THEOREM JournalIsSound == Spec => []JournalSound
<1>1. IInv => JournalSound
  <2> SUFFICES ASSUME IInv, NEW i \in DOMAIN journal, journal[i].kind = "line"
               PROVE  LineSound(journal[i])
    BY DEF JournalSound, LineSound
  <2>1. journal[i] \in ToSet(journal) /\ journal[i] # Torn
    BY DEF ToSet, Torn
  <2> QED BY <2>1 DEF IInv, JournalLines
<1> QED BY <1>1, InvariantHolds, PTL

LEMMA LeftBehind == Spec => [](LogSound /\ QuietWhenClean)
<1>1. Init => LogSound /\ QuietWhenClean
  BY DEF Init, LogSound, QuietWhenClean
<1>2. IInv /\ LogSound /\ QuietWhenClean /\ [Next]_vars => LogSound' /\ QuietWhenClean'
  <2>1. ASSUME IInv, LogSound, QuietWhenClean, Next PROVE LogSound' /\ QuietWhenClean'
    <3>1. WorldTyped /\ MemoryTyped
      BY <2>1 DEF IInv
    <3> QED BY <2>1, <3>1, LogKept, QuietKept
  <2>2. LogSound /\ QuietWhenClean /\ UNCHANGED vars => LogSound' /\ QuietWhenClean'
    <3> SUFFICES ASSUME LogSound, QuietWhenClean, UNCHANGED vars
                 PROVE  LogSound' /\ QuietWhenClean'
      OBVIOUS
    <3>1. pc' = pc /\ run' = run /\ told' = told /\ journal' = journal /\ logged' = logged
      BY DEF vars
    <3>2. LogSound'
      BY <3>1 DEF LogSound
    <3>3. QuietWhenClean'
      BY <3>1 DEF QuietWhenClean, Clean
    <3> QED BY <3>2, <3>3
  <2> QED BY <2>1, <2>2
<1> QED BY <1>1, <1>2, InvariantHolds, PTL DEF Spec

\* What becomes of a failure (RecordFailures, appendCaptureLog, Finish): it is in the
\* failure receipt of its group, in the store or the spill, unless neither took it, and the
\* lines the invocation appended to captures.log lead to the receipt, unless the append
\* failed; both have a notice, and no invocation that reported anything exits well.
THEOREM FailuresAreAccounted == Spec => []FailuresAccounted
<1>1. IInv /\ QuietWhenClean => FailuresFiled
  <2> SUFFICES ASSUME IInv, QuietWhenClean, pc \in {"groups", "ended"} PROVE FailuresFiled
    BY DEF FailuresFiled
  <2>1. pc # "plan" /\ ~InGroup
    BY DEF InGroup
  <2>2. run.failCount > 0 <=> \E t \in told : t.where = "events"
    BY <2>1 DEF IInv, FailuresHeld
  <2>3. ASSUME NEW g \in 1..run.number, NEW t \in Reported(g), ~Lost(g)
        PROVE  \E u \in FiledOf(g) : t.what \in u.what.failures /\ InPlace(g, u)
    <3>1. g \in Over
      BY <2>1 DEF Over
    <3>2. PICK u \in FiledOf(g) : t.what \in u.what.failures
      BY <2>1, <2>3, <3>1 DEF IInv, FailuresFiledSoFar
    <3>3. u \in told /\ u.group = g /\ u.where # "events" /\ u.where # "lost"
      BY <2>3 DEF FiledOf, Lost
    <3>4. /\ u.where = "store" => u.what \in blobs[run.plan[u.group].store]
          /\ u.where = "spill" => \E i \in DOMAIN spills : spills[i] = u.what
      BY <2>1, <3>3 DEF IInv, FailuresFiledSoFar
    <3>5. u.where \in {"store", "spill"}
      BY <2>1, <3>3 DEF IInv, FailuresHeld
    <3> QED BY <3>2, <3>3, <3>4, <3>5 DEF InPlace
  <2>4. pc = "ended" /\ lastExit = "ok" => told = {}
    BY DEF IInv, EndSound, QuietWhenClean
  <2> QED BY <2>2, <2>3, <2>4 DEF FailuresFiled
<1>2. IInv /\ LogSound => LinesLeadToFailures
  <2> SUFFICES ASSUME IInv, LogSound, pc = "ended", logged,
                      NEW g \in DOMAIN run.plan, NEW u \in FiledOf(g),
                      u.where = "store" \/ (u.where = "spill" /\ u.what.receipt # None)
               PROVE  \E i \in NewLines :
                         journal[i].kind = "line" /\ LeadsTo(journal[i], u, run.plan[g])
    BY DEF LinesLeadToFailures, LeadsTo
  <2>1. u \in told /\ u.group = g
    BY DEF FiledOf
  <2>2. PICK l \in ToSet(run.lines) : LeadsTo(l, u, run.plan[g])
    BY <2>1 DEF IInv, LinesLead
  <2>3. l.kind = "line"
    BY DEF IInv, LinesSound, LineSound
  <2>4. journal \in Seq(ToSet(journal)) /\ run.lines \in Seq(ToSet(run.lines))
    BY DEF IInv, WorldTyped, MemoryTyped
  <2>5. PICK k \in 1..Len(run.lines) : run.lines[k] = l
    BY <2>4 DEF ToSet
  <2>6. Len(journal) \in Nat /\ Len(run.lines) \in Nat /\ DOMAIN journal = 1..Len(journal)
    BY <2>4
  <2>7. PICK i : i = Len(journal) - Len(run.lines) + k
    OBVIOUS
  <2>8. journal[i] = l
    BY <2>5, <2>7 DEF LogSound
  <2>9. i \in 1..Len(journal) /\ i > Len(journal) - Len(run.lines)
    <3>1. PICK m, n : m = Len(journal) /\ n = Len(run.lines)
      OBVIOUS
    <3>2. m \in Nat /\ n \in Nat /\ n <= m
      BY <2>6, <3>1 DEF LogSound
    <3>3. k \in 1..n /\ i = m - n + k
      BY <2>5, <2>7, <3>1
    <3>4. i \in 1..m /\ i > m - n
      BY <3>2, <3>3
    <3> QED BY <3>1, <3>4
  <2>10. i \in NewLines
    BY <2>6, <2>9 DEF NewLines
  <2>11. journal[i].kind = "line" /\ LeadsTo(journal[i], u, run.plan[g])
    BY <2>2, <2>3, <2>8 DEF LeadsTo
  <2> QED BY <2>10, <2>11
<1> QED BY <1>1, <1>2, InvariantHolds, LeftBehind, PTL DEF FailuresAccounted

\* An invocation that exits well has captured every root its command line asks for, in the
\* store named before it: planCapture dropped no root, and no root was left out of its
\* group's receipt.
THEOREM OkMeansAllCaptured == Spec => []OkMeansCaptured
<1>1. IInv => OkMeansCaptured
  <2> SUFFICES ASSUME IInv, pc = "ended", lastExit = "ok", NEW a \in Asked(run.args)
               PROVE  Captured(a[1], a[2])
    BY DEF OkMeansCaptured, Captured, Captures
  <2>1. Clean
    BY DEF IInv, EndSound
  <2>2. PICK g \in 1..Len(run.plan) :
           run.plan[g].store = a[1] /\ a[2] \in RootsOf(run.plan[g])
    BY <2>1 DEF IInv, PlanCovers, Clean
  <2>3. g \in Over
    <3>1. ~InGroup /\ run.groups = <<>> /\ run.number + Len(run.groups) = Len(run.plan)
      BY DEF InGroup, IInv, Loop
    <3>2. run.number = Len(run.plan)
      BY <3>1 DEF IInv, MemoryTyped
    <3> QED BY <3>1, <3>2 DEF Over
  <2> QED BY <2>1, <2>2, <2>3 DEF IInv, CaptureSound, GroupsCaptured
<1> QED BY <1>1, InvariantHolds, PTL

=============================================================================
