------------------------------ MODULE Organize ------------------------------
(***************************************************************************)
(* organize (internal/organize): an edited document is merged three ways   *)
(* with its pinned base and the live nodes, shown, confirmed and written.  *)
(*                                                                         *)
(* The document is grouped by a single-valued date dimension.  Its lines   *)
(* name nodes, each under a bucket, with a clock atom and tag atoms; the   *)
(* bucket and the clock are two halves of one stored property, `due`.  Its *)
(* `+` boxes name objects to create: a named temp id, or a bare `+` that   *)
(* is known by its content.  Other clients change the nodes at any time;   *)
(* applies fail, die, and are repeated with the document they left behind. *)
(*                                                                         *)
(* Abstractions.  Parsing and rendering are left out: the document is the  *)
(* lines and boxes it parses to.  Nodes are numbered in URI order.  A      *)
(* created object is its ledger key and content; its number is its id.     *)
(***************************************************************************)
EXTENDS Naturals, Sequences, FiniteSets

CONSTANTS
    NNodes,      \* nodes of the base document
    Listing,     \* their lines, as generated
    Buckets,     \* bucket values of the grouped dimension
    Times, Tags, \* values of the clock atom, tags
    Plugins,     \* what plugins declare, see Plugin
    BoxLists,    \* the `+` boxes a document may carry
    MaxEdits,    \* bound: edits, different boxes and unknown ids in it
    MaxDrift,    \* bound: changes other clients make
    MaxFaults,   \* bound: writes that fail, deaths of the process
    MaxApplies   \* bound: applies of the document

NoValue == "-"   \* the no-value section
Bare    == "+"   \* the name of a bare box

\* keyed: an IdempotentCreator; clearable: a move into the no-value section
\* clears; move, clock: the dimension and the atom are writable.
Plugin == [keyed : BOOLEAN, clearable : BOOLEAN, move : BOOLEAN, clock : BOOLEAN]

VARIABLES
    plugin,   \* what the plugin declares
    live,     \* the nodes, as they are
    base,     \* the pinned base: the lines that were generated
    doc,      \* the edited document
    mode,     \* commit and interactive, from applyMode
    pc,
    plan,     \* what the planners made of it
    todo,     \* writes left
    objects,  \* the objects created
    ledger,   \* the creation ledger of this base: key and object
    landed,   \* applyRun.landed of this apply
    outcome,  \* how the last apply ended
    stale,    \* a node changed after the plan was made
    lost,     \* ghost: creations whose record was not written
    drift, faults, applies

vars == <<plugin, live, base, doc, mode, pc, plan, todo, objects, ledger, landed,
          outcome, stale, lost, drift, faults, applies>>

Nodes == 1..NNodes

\* An object line.
Line == [bucket : Buckets \cup {NoValue}, time : Times, tags : SUBSET Tags]

ASSUME ConstantsAssumption ==
    /\ Listing \in [Nodes -> Line] /\ NNodes \in Nat /\ MaxEdits \in Nat /\ MaxDrift \in Nat
    /\ MaxFaults \in Nat /\ MaxApplies \in Nat
    /\ BoxLists \subseteq Seq([name : STRING, text : STRING])
    /\ NoValue \notin Buckets /\ Plugins \subseteq Plugin

\* A line the user deleted.
Deleted == [bucket |-> "deleted"]

\* A box: id is the object it was rewritten to, or 0.
Box(b) == [id |-> 0, name |-> b.name, text |-> b.text]

NoPlan == [creations |-> {}, writes |-> {}, refused |-> 0, tags |-> <<>>, snap |-> <<>>]

Attributes == {"bucket", "time", "tags"}

\* The attributes an edit changes; a deleted line counts as one.
EditsOf(lines) ==
    UNION {{<<n, a>> : a \in {b \in Attributes :
                IF lines[n] = Deleted THEN b = "bucket" ELSE lines[n][b] # Listing[n][b]}}
             : n \in Nodes}

Init ==
    /\ plugin \in Plugins
    /\ base = Listing
    /\ live = [n \in Nodes |->
                 [bucket |-> base[n].bucket, time |-> base[n].time,
                  tags |-> base[n].tags, listed |-> TRUE]]
    /\ \E lines \in [Nodes -> Line \cup {Deleted}], boxes \in BoxLists,
          typed \in BOOLEAN :
          /\ Cardinality(EditsOf(lines)) + Cardinality({boxes[i] : i \in DOMAIN boxes})
               + (IF typed THEN 1 ELSE 0) <= MaxEdits
          /\ doc = [lines |-> lines, boxes |-> [i \in DOMAIN boxes |-> Box(boxes[i])],
                    typed |-> typed]
    /\ mode = [commit |-> FALSE, interactive |-> FALSE]
    /\ pc = "idle" /\ plan = NoPlan /\ todo = {}
    /\ objects = <<>> /\ ledger = {} /\ landed = {} /\ outcome = "none"
    /\ stale = FALSE /\ lost = {}
    /\ drift = 0 /\ faults = 0 /\ applies = 0

TypeOK ==
    /\ plugin \in Plugins
    /\ live \in [Nodes -> [bucket : Buckets \cup {NoValue}, time : Times,
                           tags : SUBSET Tags, listed : BOOLEAN]]
    /\ base \in [Nodes -> Line]
    /\ mode \in [commit : BOOLEAN, interactive : BOOLEAN]
    /\ pc \in {"idle", "refusals", "gate", "create", "record", "write"}
    /\ \A e \in ledger : e.id \in DOMAIN objects /\ objects[e.id].key = e.key
    /\ \A l \in landed : l.id \in DOMAIN objects /\ objects[l.id].key = l.key
    /\ outcome \in {"none", "refused", "declined", "dryrun", "nothing", "failed",
                    "crashed", "committed"}
    /\ stale \in BOOLEAN
    /\ drift \in 0..MaxDrift /\ faults \in 0..MaxFaults /\ applies \in 0..MaxApplies

-----------------------------------------------------------------------------
(* Creations: splitCreations, the ledger keys, mergeCreations.              *)

Temp(boxes) == {i \in DOMAIN boxes : boxes[i].id = 0}

\* creationLedgerKeys: a name, or the content and its occurrence among the
\* bare boxes that are still temporary.
KeyAt(boxes, i) ==
    LET b == boxes[i]
        same == {j \in Temp(boxes) : j <= i /\ boxes[j].name = Bare
                                             /\ boxes[j].text = b.text}
    IN  IF b.name = Bare THEN <<Bare, b.text, Cardinality(same)>>
        ELSE <<b.name, NoValue, 0>>

\* mergeCreation: the appearances of a temp id agree.
Mergeable(boxes) ==
    \A i, j \in Temp(boxes) :
        KeyAt(boxes, i) = KeyAt(boxes, j) => boxes[i].text = boxes[j].text

Recorded(key) == \E e \in ledger : e.key = key
RecordedId(id) == \E e \in ledger : e.id = id

\* planCreations: what the ledger has is skipped.
SkipNone(key) == FALSE

Skipped(key) == Recorded(key)

\* One creation for all the appearances of a key.
PlannedCreations(boxes) ==
    {[key |-> KeyAt(boxes, i), text |-> boxes[i].text] :
        i \in {j \in Temp(boxes) : ~Skipped(KeyAt(boxes, j))}}

\* unknownIDRefusals: ids that are neither in the base nor in the ledger.
UnknownIds ==
    Cardinality({i \in DOMAIN doc.boxes : doc.boxes[i].id # 0
                                           /\ ~RecordedId(doc.boxes[i].id)})
      + (IF doc.typed THEN 1 ELSE 0)

-----------------------------------------------------------------------------
(* The planners, against the base and the live nodes.                       *)

Present(n) == doc.lines[n] # Deleted
Changed(n, a) == Present(n) /\ doc.lines[n][a] # base[n][a]

\* planMoves.
Moved(n) == Changed(n, "bucket")
MoveDrifted(n) == Moved(n) /\ (~live[n].listed \/ live[n].bucket # base[n].bucket)
MoveUndrifted(n) == FALSE
MoveConflict(n) == MoveDrifted(n)

\* partitionRefusedMoves: clearing what cannot be cleared.
ClearRefused(n) == Moved(n) /\ doc.lines[n].bucket = NoValue /\ ~plugin.clearable

\* planFieldEdits: the clock; a read-only edit is only noticed.
FieldTouched(n) == Changed(n, "time") /\ live[n].listed /\ plugin.clock
FieldConflict(n) ==
    FieldTouched(n) /\ live[n].time \notin {base[n].time, doc.lines[n].time}
FieldEdit(n) == FieldTouched(n) /\ live[n].time # doc.lines[n].time

\* planTagAtomDeltas and foldTagDelta: removes, then adds, on the live tags.
FoldAbsolute(n) == doc.lines[n].tags

FoldTags(n) ==
    (live[n].tags \ (base[n].tags \ doc.lines[n].tags))
        \cup (doc.lines[n].tags \ base[n].tags)

AtomEdit(n) ==
    /\ Changed(n, "tags") /\ live[n].listed
    /\ FoldTags(n) # live[n].tags

\* rejectMoveFieldCollisions: both would write the property `due`.
CollisionIgnored(n) == FALSE

Collision(n) == Moved(n) /\ ~ClearRefused(n) /\ FieldEdit(n)

\* What refuses the document outright.
PlanError ==
    \/ ~Mergeable(doc.boxes)
    \/ \E n \in Nodes : MoveConflict(n) \/ FieldConflict(n) \/ Collision(n)
    \/ ~plugin.move /\ \E n \in Nodes : Moved(n)

Write(kind, n) == [kind |-> kind, n |-> n]

PlannedWrites ==
    {Write("atoms", n) : n \in {m \in Nodes : AtomEdit(m)}}
        \cup {Write("move", n) : n \in {m \in Nodes : Moved(m) /\ ~ClearRefused(m)}}
        \cup {Write("field", n) : n \in {m \in Nodes : FieldEdit(m)}}

MakePlan ==
    [creations |-> PlannedCreations(doc.boxes),
     writes |-> PlannedWrites,
     refused |-> UnknownIds + Cardinality({n \in Nodes : ClearRefused(n)}),
     tags   |-> [n \in Nodes |-> IF Present(n) THEN FoldTags(n) ELSE {}],
     snap   |-> live]

NothingPlanned == plan.creations = {} /\ plan.writes = {}

-----------------------------------------------------------------------------
(* The apply.                                                               *)

End(how) == pc' = "idle" /\ outcome' = how

\* applyMode gives the mode: preview, a confirmed write at a terminal, or a
\* scripted one.
Apply(commit, interactive) ==
    /\ pc = "idle" /\ applies < MaxApplies
    /\ interactive => commit
    /\ applies' = applies + 1
    /\ mode' = [commit |-> commit, interactive |-> interactive]
    /\ landed' = {} /\ stale' = FALSE
    /\ IF PlanError
       THEN End("refused") /\ plan' = NoPlan /\ todo' = {}
       ELSE /\ plan' = MakePlan /\ todo' = PlannedWrites
            /\ pc' = IF MakePlan.refused > 0 THEN "refusals" ELSE "gate"
            /\ UNCHANGED outcome
    /\ UNCHANGED <<plugin, live, base, doc, objects, ledger, lost, drift, faults>>

\* resolveRefusals: headless the first refusal's error; at a terminal the
\* user drops the refused edits or declines.
ResolveRefusals ==
    /\ pc = "refusals"
    /\ \/ End("refused")
       \/ mode.interactive /\ pc' = "gate" /\ UNCHANGED outcome
    /\ UNCHANGED <<plugin, live, base, doc, mode, plan, todo, objects, ledger,
                   landed, stale, lost, drift, faults, applies>>

\* The diff and reviewGate.
DryRun == ~mode.commit

ReviewGate ==
    /\ pc = "gate"
    /\ IF NothingPlanned THEN End("nothing")
       ELSE \/ DryRun /\ End("dryrun")
            \/ mode.interactive /\ End("declined")
            \/ ~DryRun /\ pc' = "create" /\ UNCHANGED outcome
    /\ UNCHANGED <<plugin, live, base, doc, mode, plan, todo, objects, ledger, landed,
                   stale, lost, drift, faults, applies>>

\* A failed apply leaves its document; runInteractive has put the ids of
\* what landed in the place of the temp ids.
Rewritten(boxes, ls) ==
    [i \in DOMAIN boxes |->
        LET hit == {l \in ls : boxes[i].id = 0 /\ l.key = KeyAt(boxes, i)}
        IN  IF hit = {} THEN boxes[i]
            ELSE [boxes[i] EXCEPT !.id = (CHOOSE l \in hit : TRUE).id]]

Fail ==
    /\ faults < MaxFaults /\ faults' = faults + 1
    /\ End("failed")
    /\ doc' = IF mode.interactive
              THEN [doc EXCEPT !.boxes = Rewritten(doc.boxes, landed)] ELSE doc

\* The plugin's create: an idempotent creator finds the key again.
Existing(key) == {o \in DOMAIN objects : objects[o].key = key}

Created(c) ==
    IF plugin.keyed /\ Existing(c.key) # {} THEN objects
    ELSE Append(objects, c)

CreatedId(c) ==
    IF plugin.keyed /\ Existing(c.key) # {} THEN CHOOSE o \in Existing(c.key) : TRUE
    ELSE Len(objects) + 1

\* The creation that is made next: in the order of the first appearances.
Due ==
    {c \in plan.creations :
        \E i \in Temp(doc.boxes) :
            /\ KeyAt(doc.boxes, i) = c.key
            /\ \A j \in Temp(doc.boxes), d \in plan.creations :
                  KeyAt(doc.boxes, j) = d.key => i <= j}

\* It succeeds; or it fails, or its answer is lost.
Create(c) ==
    /\ pc = "create" /\ c \in Due
    /\ \/ /\ objects' = Created(c)
          /\ landed' = landed \cup {[key |-> c.key, id |-> CreatedId(c)]}
          /\ pc' = "record"
          /\ UNCHANGED <<doc, outcome, lost, faults>>
       \/ /\ \/ UNCHANGED <<objects, lost>>
             \/ objects' = Created(c) /\ lost' = lost \cup {c.key}
          /\ Fail
          /\ UNCHANGED landed
    /\ UNCHANGED <<plugin, live, base, mode, plan, todo, ledger, stale, drift, applies>>

\* The ledger's record; one that cannot be written is a warning.
Record(c) ==
    LET l == CHOOSE x \in landed : x.key = c.key
    IN  /\ pc = "record" /\ c \in Due
        /\ plan' = [plan EXCEPT !.creations = @ \ {c}]
        /\ pc' = "create"
        /\ \/ /\ ledger' = {e \in ledger : e.key # c.key} \cup {l}
              /\ UNCHANGED <<faults, lost>>
           \/ /\ faults < MaxFaults /\ faults' = faults + 1
              /\ lost' = lost \cup {c.key}
              /\ UNCHANGED ledger
        /\ UNCHANGED <<plugin, live, base, doc, mode, todo, objects, landed,
                       outcome, stale, drift, applies>>

\* executeCreations is done.
CreationsDone == pc = "create" /\ plan.creations = {}

StartWrites ==
    /\ CreationsDone
    /\ pc' = "write"
    /\ UNCHANGED <<plugin, live, base, doc, mode, plan, todo, objects, ledger,
                   landed, outcome, stale, lost, drift, faults, applies>>

\* The patches are built from the nodes as they were planned: a membership
\* patch is the whole tag set, a bucket or clock patch the whole property.
Patched(w) ==
    LET s == plan.snap[w.n]
        x == live[w.n]
    IN  CASE w.kind = "atoms" -> [x EXCEPT !.tags = plan.tags[w.n]]
          [] w.kind = "move"  -> [x EXCEPT !.bucket = doc.lines[w.n].bucket,
                                           !.time = s.time]
          [] w.kind = "field" -> [x EXCEPT !.bucket = s.bucket,
                                           !.time = doc.lines[w.n].time]

\* Membership edits, then moves, then field edits, each in the order of the URIs.
Before(v, w) ==
    LET rank(kind) == CASE kind = "atoms" -> 1 [] kind = "move" -> 2 [] kind = "field" -> 3
    IN  rank(v.kind) < rank(w.kind) \/ (v.kind = w.kind /\ v.n < w.n)

\* executeMemberships, executePlan, executeFieldEdits.
WriteOne(w) ==
    LET patched == [live EXCEPT ![w.n] = Patched(w)]
    IN  /\ pc = "write" /\ w \in todo /\ \A v \in todo \ {w} : Before(w, v)
        /\ \/ /\ live' = patched
              /\ todo' = todo \ {w}
              /\ UNCHANGED <<pc, outcome, doc, faults>>
           \/ /\ live' \in {live, patched}
              /\ Fail
              /\ UNCHANGED todo
        /\ UNCHANGED <<plugin, base, mode, plan, objects, ledger, landed, stale,
                       lost, drift, applies>>

Commit ==
    /\ pc = "write" /\ todo = {}
    /\ End("committed")
    /\ UNCHANGED <<plugin, live, base, doc, mode, plan, todo, objects, ledger,
                   landed, stale, lost, drift, faults, applies>>

\* The process dies.
Crash ==
    /\ pc # "idle" /\ faults < MaxFaults
    /\ faults' = faults + 1
    /\ End("crashed")
    /\ lost' = IF pc = "record" THEN lost \cup {c.key : c \in Due} ELSE lost
    /\ UNCHANGED <<plugin, live, base, doc, mode, plan, todo, objects, ledger,
                   landed, stale, drift, applies>>

\* Another client changes a node, or it leaves the selection.
Drift(n) ==
    /\ drift < MaxDrift /\ drift' = drift + 1
    /\ \/ \E k \in Buckets : live' = [live EXCEPT ![n].bucket = k]
       \/ \E t \in Times : live' = [live EXCEPT ![n].time = t]
       \/ \E g \in SUBSET Tags : live' = [live EXCEPT ![n].tags = g]
       \/ live' = [live EXCEPT ![n].listed = FALSE]
    /\ live' # live
    /\ stale' = TRUE
    /\ UNCHANGED <<plugin, base, doc, mode, pc, plan, todo, objects, ledger, landed,
                   outcome, lost, faults, applies>>

Next ==
    \/ \E commit, interactive \in BOOLEAN : Apply(commit, interactive)
    \/ ResolveRefusals \/ ReviewGate
    \/ \E c \in plan.creations : Create(c) \/ Record(c)
    \/ StartWrites \/ \E w \in todo : WriteOne(w)
    \/ Commit \/ Crash
    \/ \E n \in Nodes : Drift(n)

Spec == Init /\ [][Next]_vars
-----------------------------------------------------------------------------
(* Properties.                                                              *)

\* What the document asks to be written, and may be.
Touched(n, a) ==
    /\ Changed(n, a) /\ plan.snap[n].listed
    /\ CASE a = "bucket" -> ~ClearRefused(n)
         [] a = "time" -> plugin.clock
         [] a = "tags" -> TRUE

\* The three-way merge, attribute by attribute: the user's value where the
\* document changed it, the live one elsewhere; tags merge as a set.
Merged(n, a) ==
    CASE ~Touched(n, a) -> plan.snap[n][a]
      [] Touched(n, a) /\ a # "tags" -> doc.lines[n][a]
      [] Touched(n, a) /\ a = "tags" ->
           {g \in Tags : IF (g \in doc.lines[n].tags) = (g \in base[n].tags)
                         THEN g \in plan.snap[n].tags ELSE g \in doc.lines[n].tags}

\* A committed apply leaves every node at the three-way merge: both halves of
\* a property that a move and an atom share, nothing undone by a patch that
\* was built from the node before another one (applyEdited, executePlan,
\* executeFieldEdits).  Only a change that arrives after the plan escapes.
CommitIsMerge ==
    (outcome = "committed" /\ ~stale /\ pc = "idle") =>
        \A n \in Nodes, a \in Attributes : live[n][a] = Merged(n, a)

\* An apply without commit, and one that is refused or declined, writes nothing
\* and creates nothing, whatever the document asks for (reviewGate).
PreviewIsInert ==
    (~mode.commit \/ (outcome \in {"refused", "declined", "nothing"} /\ pc = "idle")) =>
        /\ landed = {}
        /\ (plan # NoPlan /\ ~stale) => live = plan.snap

\* An apply that fails, dies, is declined or previews leaves every attribute
\* as it was or merged, and never writes over a value somebody else has set
\* since the document was generated ("drift on fields the patch also touches:
\* conflict"); a preview leaves everything as it was.
NothingElseWritten ==
    /\ PreviewIsInert
    /\ (plan # NoPlan /\ ~stale) =>
          \A n \in Nodes, a \in Attributes :
              /\ live[n][a] \in {plan.snap[n][a], Merged(n, a)}
              /\ (live[n][a] # plan.snap[n][a] /\ a # "tags")
                    => plan.snap[n][a] = base[n][a]

\* "Re-applying a document never duplicates": a creation happens once, however
\* often the document is applied and wherever an apply dies, unless its record
\* was lost and the plugin cannot recognize the key (executeCreations, ledger).
CreatedOnce ==
    \A o, q \in DOMAIN objects :
        (o # q /\ objects[o].key = objects[q].key)
            => ~plugin.keyed /\ objects[o].key \in lost

\* Boxes that ask for an object each although they read the same.
Twins(b, c) == b.name = Bare /\ c.name = Bare /\ b.text = c.text

\* One of two twins was rewritten and the other one was not: it is counted anew
\* (creationLedgerKeys), its key is the rewritten one's, and so may its object be.
Overtaken(b, c) ==
    \/ b.id # 0 /\ c.id \in {0, b.id}
    \/ c.id # 0 /\ b.id = 0

\* Once an apply has gone through, every box stands for an object of its name and
\* content, a rewritten one for the object of its id, and two twins for two
\* objects, unless one of them was overtaken.
BoxesExist ==
    (outcome \in {"committed", "nothing"} /\ pc = "idle") =>
        \E object \in [DOMAIN doc.boxes -> DOMAIN objects] :
            \A i \in DOMAIN doc.boxes :
                LET b == doc.boxes[i]
                IN  /\ objects[object[i]].text = b.text
                    /\ objects[object[i]].key[1] = b.name
                    /\ b.id # 0 => object[i] = b.id
                    /\ \A j \in DOMAIN doc.boxes \ {i} :
                          object[j] = object[i] =>
                             \/ ~Twins(b, doc.boxes[j]) \/ Overtaken(b, doc.boxes[j])

\* Through failed and repeated applies no box is created twice (CreatedOnce) and
\* none goes without its object (BoxesExist), the second of two bare boxes with the
\* same content included, however far the failed apply had come; what escapes is
\* the twin of a box that was rewritten alone, see BareBoxesAreOwn.
BoxesCreatedOnce == CreatedOnce /\ BoxesExist

\* "Each bare `+` box is its own single-appearance creation": once an apply has
\* gone through there is an object for each of several bare boxes of one content.
BareBoxesAreOwn ==
    (outcome \in {"committed", "nothing"} /\ pc = "idle") =>
        \A text \in {doc.boxes[i].text : i \in DOMAIN doc.boxes} :
            Cardinality({i \in DOMAIN doc.boxes : doc.boxes[i].name = Bare
                                                    /\ doc.boxes[i].text = text})
              <= Cardinality({o \in DOMAIN objects : objects[o].key[1] = Bare
                                                       /\ objects[o].text = text})

=============================================================================
