--------------------------- MODULE OrganizeProofs ---------------------------
(***************************************************************************)
(* Proofs about organize's apply (Organize): the merge, what a preview or  *)
(* a failed apply leaves alone, and the creations, for any number of       *)
(* nodes, any document and any plugin.                                     *)
(***************************************************************************)
EXTENDS Organize, FiniteSetTheorems, SequenceTheorems, TLAPS

(***************************************************************************)
(* The inductive invariant.                                                *)
(***************************************************************************)

\* Boxes, the keys made of them, and objects.
Word       == STRING \cup {Bare, NoValue}
BoxType    == [id : Nat, name : STRING, text : STRING]
KeyType    == Word \X Word \X Nat
ObjectType == [key : KeyType, text : STRING]

LiveNode == [bucket : Buckets \cup {NoValue}, time : Times, tags : SUBSET Tags,
             listed : BOOLEAN]

\* The variables keep their types.
Typed ==
    /\ plugin \in Plugins /\ base = Listing
    /\ live \in [Nodes -> LiveNode]
    /\ mode \in [commit : BOOLEAN, interactive : BOOLEAN]
    /\ pc \in {"idle", "refusals", "gate", "create", "record", "write"}
    /\ doc = [lines |-> doc.lines, boxes |-> doc.boxes, typed |-> doc.typed]
    /\ doc.lines \in [Nodes -> Line \cup {Deleted}]
    /\ plan = [creations |-> plan.creations, writes |-> plan.writes,
               refused |-> plan.refused, tags |-> plan.tags, snap |-> plan.snap]
    /\ outcome \in {"none", "refused", "declined", "dryrun", "nothing", "failed",
                    "crashed", "committed"}
    /\ stale \in BOOLEAN
    /\ drift \in 0..MaxDrift /\ faults \in 0..MaxFaults /\ applies \in 0..MaxApplies

\* The boxes of the document: those with one name are rewritten together.
BoxesTyped ==
    /\ doc.boxes \in Seq(BoxType)
    /\ \A i, j \in DOMAIN doc.boxes :
          doc.boxes[i].name = doc.boxes[j].name /\ doc.boxes[i].name # Bare
             => (doc.boxes[i].id = 0 <=> doc.boxes[j].id = 0)

\* An object is what a box with its key asks for.
ObjectsSound ==
    /\ objects \in Seq(ObjectType)
    /\ \A o \in DOMAIN objects :
          LET key == objects[o].key
          IN IF key[1] = Bare THEN objects[o].text = key[2]
             ELSE /\ key = <<key[1], NoValue, 0>>
                  /\ \A i \in DOMAIN doc.boxes :
                        doc.boxes[i].name = key[1] => doc.boxes[i].text = objects[o].text

\* The ledger, and what landed in this apply, name objects by their keys.
LedgerSound ==
    /\ \A e \in ledger : e.id \in DOMAIN objects /\ objects[e.id].key = e.key
    /\ \A l \in landed : l.id \in DOMAIN objects /\ objects[l.id].key = l.key
    /\ \A i \in DOMAIN doc.boxes :
          doc.boxes[i].id # 0 =>
             /\ doc.boxes[i].id \in DOMAIN objects
             /\ objects[doc.boxes[i].id].text = doc.boxes[i].text
             /\ objects[doc.boxes[i].id].key[1] = doc.boxes[i].name

\* What an apply under way has planned to create, and has not yet.
CreationsSound ==
    pc # "idle" =>
       /\ Mergeable(doc.boxes)
       /\ pc = "write" => plan.creations = {}
       /\ \A c \in plan.creations :
             /\ ~Recorded(c.key)
             /\ \E i \in Temp(doc.boxes) : c = [key |-> KeyAt(doc.boxes, i),
                                                text |-> doc.boxes[i].text]
       /\ \A i \in Temp(doc.boxes) :
             \/ \E o \in DOMAIN objects : objects[o].key = KeyAt(doc.boxes, i)
             \/ \E c \in plan.creations : c.key = KeyAt(doc.boxes, i)

\* An object the ledger does not know is being recorded, or its record was lost.
ObjectsKnown ==
    /\ \A o \in DOMAIN objects :
          \/ Recorded(objects[o].key) \/ objects[o].key \in lost
          \/ pc = "record" /\ \E c \in Due : c.key = objects[o].key
    /\ pc = "record" => \A c \in Due : \E l \in landed : l.key = c.key

\* What is planned for a node: against the node as it was then, its line and the base.
NodeFacts(n) ==
    LET s == plan.snap[n]
        d == doc.lines[n]
        b == base[n]
    IN /\ Write("move", n) \in plan.writes <=> Moved(n) /\ ~ClearRefused(n)
       /\ Moved(n) => s.listed /\ s.bucket = b.bucket
       /\ Write("field", n) \in plan.writes <=>
             Changed(n, "time") /\ s.listed /\ plugin.clock /\ s.time # d.time
       /\ Write("field", n) \in plan.writes =>
             s.time = b.time /\ Write("move", n) \notin plan.writes
       /\ Write("atoms", n) \in plan.writes <=>
             Changed(n, "tags") /\ s.listed /\ plan.tags[n] # s.tags
       /\ Present(n) => plan.tags[n] = (s.tags \ (b.tags \ d.tags)) \cup (d.tags \ b.tags)

\* What the apply under way has planned to write, and may.
PlanFacts ==
    pc # "idle" =>
       /\ plan.snap \in [Nodes -> LiveNode]
       /\ todo \subseteq plan.writes
       /\ pc \in {"refusals", "gate"} => todo = plan.writes /\ landed = {}
       /\ pc \in {"create", "record", "write"} => mode.commit
       /\ \A w \in plan.writes :
             \E n \in Nodes, kind \in {"atoms", "move", "field"} : w = Write(kind, n)
       /\ \A n \in Nodes : NodeFacts(n)

\* A write the apply under way has made.
Written(kind, n) == Write(kind, n) \in plan.writes \ todo

\* Each node is as it was planned, but for the writes that were made.
Exact ==
    pc # "idle" /\ ~stale =>
       \A n \in Nodes :
          /\ live[n].listed = plan.snap[n].listed
          /\ live[n].bucket = IF Written("move", n) THEN doc.lines[n].bucket
                              ELSE plan.snap[n].bucket
          /\ live[n].time = IF Written("field", n) THEN doc.lines[n].time
                            ELSE plan.snap[n].time
          /\ live[n].tags = IF Written("atoms", n) THEN plan.tags[n]
                            ELSE plan.snap[n].tags

IInv ==
    /\ Typed /\ BoxesTyped
    /\ ObjectsSound /\ LedgerSound /\ CreationsSound /\ ObjectsKnown
    /\ PlanFacts /\ Exact
    /\ CommitIsMerge /\ NothingElseWritten /\ CreatedOnce /\ BoxesExist

(***************************************************************************)
(* The merge.                                                              *)
(***************************************************************************)

\* A line that is there has the attributes of one.
LEMMA LineTyped ==
    ASSUME Typed, NEW n \in Nodes
    PROVE  /\ base[n] \in Line
           /\ Present(n) => doc.lines[n] \in Line
BY ConstantsAssumption DEF Typed, Present

\* What is planned for a node is its three-way merge.
LEMMA PlanIsMerge ==
    ASSUME Typed, NEW n \in Nodes, NodeFacts(n), plan.snap \in [Nodes -> LiveNode]
    PROVE  /\ Merged(n, "bucket") = IF Write("move", n) \in plan.writes
                                    THEN doc.lines[n].bucket ELSE plan.snap[n].bucket
           /\ Merged(n, "time") = IF Write("field", n) \in plan.writes
                                  THEN doc.lines[n].time ELSE plan.snap[n].time
           /\ Merged(n, "tags") = IF Write("atoms", n) \in plan.writes
                                  THEN plan.tags[n] ELSE plan.snap[n].tags
<1>1. Merged(n, "bucket") = IF Write("move", n) \in plan.writes
                            THEN doc.lines[n].bucket ELSE plan.snap[n].bucket
  BY DEF Merged, Touched, NodeFacts, Moved, Changed
<1>2. Merged(n, "time") = IF Write("field", n) \in plan.writes
                          THEN doc.lines[n].time ELSE plan.snap[n].time
  BY DEF Merged, Touched, NodeFacts, Changed
<1>3. Merged(n, "tags") = IF Write("atoms", n) \in plan.writes
                          THEN plan.tags[n] ELSE plan.snap[n].tags
  <2> DEFINE s == plan.snap[n]
             d == doc.lines[n]
             b == base[n]
  <2>1. CASE ~Touched(n, "tags")
    <3>1. Merged(n, "tags") = s.tags
      BY <2>1 DEF Merged
    <3> QED BY <2>1, <3>1 DEF Touched, NodeFacts
  <2>2. CASE Touched(n, "tags")
    <3>1. Present(n) /\ s.listed /\ Changed(n, "tags")
      BY <2>2 DEF Touched, Changed
    <3>2. d.tags \subseteq Tags /\ b.tags \subseteq Tags /\ s.tags \subseteq Tags
      BY <3>1, LineTyped DEF Line, LiveNode
    <3>3. plan.tags[n] = (s.tags \ (b.tags \ d.tags)) \cup (d.tags \ b.tags)
      BY <3>1 DEF NodeFacts
    <3>4. Merged(n, "tags") = {g \in Tags : IF (g \in d.tags) = (g \in b.tags)
                                            THEN g \in s.tags ELSE g \in d.tags}
      BY <2>2 DEF Merged
    <3>5. Merged(n, "tags") = plan.tags[n]
      BY <3>2, <3>3, <3>4
    <3> QED BY <3>1, <3>5 DEF NodeFacts
  <2> QED BY <2>1, <2>2
<1> QED BY <1>1, <1>2, <1>3

\* Until its creations begin an apply has changed nothing.
LEMMA Gated ==
    ASSUME Typed, PlanFacts, Exact, pc \in {"refusals", "gate"}
    PROVE  landed = {} /\ (~stale => live = plan.snap)
<1>1. landed = {} /\ todo = plan.writes
  BY DEF PlanFacts
<1>2. ASSUME ~stale, NEW n \in Nodes PROVE live[n] = plan.snap[n]
  <2>1. /\ live[n].listed = plan.snap[n].listed /\ live[n].bucket = plan.snap[n].bucket
        /\ live[n].time = plan.snap[n].time /\ live[n].tags = plan.snap[n].tags
    BY <1>1, <1>2 DEF Exact, Written
  <2>2. live[n] \in LiveNode /\ plan.snap[n] \in LiveNode
    BY DEF Typed, PlanFacts
  <2> QED BY <2>1, <2>2 DEF LiveNode
<1>3. live \in [Nodes -> LiveNode] /\ plan.snap \in [Nodes -> LiveNode]
  BY DEF Typed, PlanFacts
<1>4. ~stale => live = plan.snap
  BY <1>2, <1>3
<1> QED BY <1>1, <1>4

\* A node whose attributes are as planned, or as the planned writes would have them, is as it was
\* or merged, and no value that somebody else has set is written over.
LEMMA PlannedOrMerged ==
    ASSUME Typed, PlanFacts, pc # "idle", NEW n \in Nodes, NEW x,
           \/ x.bucket = plan.snap[n].bucket
           \/ x.bucket = doc.lines[n].bucket /\ Write("move", n) \in plan.writes,
           \/ x.time = plan.snap[n].time
           \/ x.time = doc.lines[n].time /\ Write("field", n) \in plan.writes,
           \/ x.tags = plan.snap[n].tags
           \/ x.tags = plan.tags[n] /\ Write("atoms", n) \in plan.writes
    PROVE  \A a \in Attributes :
              /\ x[a] \in {plan.snap[n][a], Merged(n, a)}
              /\ (x[a] # plan.snap[n][a] /\ a # "tags") => plan.snap[n][a] = base[n][a]
<1>1. NodeFacts(n) /\ plan.snap \in [Nodes -> LiveNode]
  BY DEF PlanFacts
<1>2. /\ x.bucket \in {plan.snap[n].bucket, Merged(n, "bucket")}
      /\ x.time \in {plan.snap[n].time, Merged(n, "time")}
      /\ x.tags \in {plan.snap[n].tags, Merged(n, "tags")}
  BY <1>1, PlanIsMerge
<1>3. x.bucket # plan.snap[n].bucket => plan.snap[n].bucket = base[n].bucket
  BY <1>1 DEF NodeFacts
<1>4. x.time # plan.snap[n].time => plan.snap[n].time = base[n].time
  BY <1>1 DEF NodeFacts
<1> QED BY <1>2, <1>3, <1>4 DEF Attributes

\* While an apply is under way, and nobody else changed a node, every attribute is as it was
\* planned or merged.
LEMMA UnderWay == Typed /\ PlanFacts /\ Exact /\ pc # "idle" => NothingElseWritten
<1> SUFFICES ASSUME Typed, PlanFacts, Exact, pc # "idle" PROVE NothingElseWritten
  OBVIOUS
<1>1. ~mode.commit => landed = {} /\ (~stale => live = plan.snap)
  BY Gated DEF PlanFacts, Typed
<1>2. PreviewIsInert
  BY <1>1 DEF PreviewIsInert
<1>3. ASSUME ~stale, NEW n \in Nodes
      PROVE  \A a \in Attributes :
                /\ live[n][a] \in {plan.snap[n][a], Merged(n, a)}
                /\ (live[n][a] # plan.snap[n][a] /\ a # "tags")
                      => plan.snap[n][a] = base[n][a]
  <2>1. PICK x : x = live[n]
    OBVIOUS
  <2>2. /\ \/ x.bucket = plan.snap[n].bucket
           \/ x.bucket = doc.lines[n].bucket /\ Write("move", n) \in plan.writes
        /\ \/ x.time = plan.snap[n].time
           \/ x.time = doc.lines[n].time /\ Write("field", n) \in plan.writes
        /\ \/ x.tags = plan.snap[n].tags
           \/ x.tags = plan.tags[n] /\ Write("atoms", n) \in plan.writes
    BY <1>3, <2>1 DEF Exact, Written
  <2> QED BY <2>1, <2>2, PlannedOrMerged
<1> QED BY <1>2, <1>3 DEF NothingElseWritten

\* Once all is written, every node is at the merge.
LEMMA AllWritten ==
    ASSUME Typed, PlanFacts, Exact, pc # "idle", todo = {}, ~stale
    PROVE  \A n \in Nodes, a \in Attributes : live[n][a] = Merged(n, a)
<1> SUFFICES ASSUME NEW n \in Nodes PROVE \A a \in Attributes : live[n][a] = Merged(n, a)
  OBVIOUS
<1>1. NodeFacts(n) /\ plan.snap \in [Nodes -> LiveNode]
  BY DEF PlanFacts
<1>2. /\ live[n].bucket = Merged(n, "bucket")
      /\ live[n].time = Merged(n, "time")
      /\ live[n].tags = Merged(n, "tags")
  BY <1>1, PlanIsMerge DEF Exact, Written
<1> QED BY <1>2 DEF Attributes


(***************************************************************************)
(* Creations.                                                              *)
(***************************************************************************)
\* What a key says of its box.
LEMMA KeyFacts ==
    ASSUME NEW boxes \in Seq(BoxType), NEW i \in DOMAIN boxes
    PROVE  /\ KeyAt(boxes, i) \in KeyType
           /\ KeyAt(boxes, i)[1] = boxes[i].name
           /\ boxes[i].name = Bare => KeyAt(boxes, i)[2] = boxes[i].text
           /\ boxes[i].name # Bare => KeyAt(boxes, i) = <<boxes[i].name, NoValue, 0>>
<1> DEFINE same == {j \in Temp(boxes) : j <= i /\ boxes[j].name = Bare
                                         /\ boxes[j].text = boxes[i].text}
<1>1. Cardinality(same) \in Nat
  <2>1. same \subseteq 1..Len(boxes) /\ Len(boxes) \in Nat
    BY DEF Temp
  <2>2. IsFiniteSet(1..Len(boxes))
    BY <2>1, FS_Interval
  <2> QED BY <2>1, <2>2, FS_Subset, FS_CardinalityType
<1>2. boxes[i].name \in STRING /\ boxes[i].text \in STRING
  <2>1. boxes[i] \in BoxType
    OBVIOUS
  <2> QED BY <2>1 DEF BoxType
<1>3. KeyAt(boxes, i) = IF boxes[i].name = Bare THEN <<Bare, boxes[i].text, Cardinality(same)>>
                        ELSE <<boxes[i].name, NoValue, 0>>
  BY DEF KeyAt
<1> HIDE DEF same
<1>5. CASE boxes[i].name = Bare
  <2>1. KeyAt(boxes, i) = <<Bare, boxes[i].text, Cardinality(same)>>
    BY <1>3, <1>5
  <2> QED BY <1>1, <1>2, <1>5, <2>1 DEF KeyType, Word
<1>6. CASE boxes[i].name # Bare
  <2>1. KeyAt(boxes, i) = <<boxes[i].name, NoValue, 0>>
    BY <1>3, <1>6
  <2> QED BY <1>2, <1>6, <2>1 DEF KeyType, Word
<1> QED BY <1>5, <1>6

\* An object with a box's key is what the box asks for.
LEMMA ObjectOfKey ==
    ASSUME BoxesTyped, ObjectsSound, NEW i \in DOMAIN doc.boxes, NEW o \in DOMAIN objects,
           objects[o].key = KeyAt(doc.boxes, i)
    PROVE  objects[o].text = doc.boxes[i].text /\ objects[o].key[1] = doc.boxes[i].name
<1>1. doc.boxes \in Seq(BoxType)
  BY DEF BoxesTyped, BoxType
<1>2. /\ objects[o].key[1] = doc.boxes[i].name
      /\ doc.boxes[i].name = Bare => objects[o].key[2] = doc.boxes[i].text
  BY <1>1, KeyFacts
<1> QED BY <1>2 DEF ObjectsSound

\* Two creations of one key are one.
LEMMA OneCreation ==
    ASSUME CreationsSound, pc # "idle", NEW c \in plan.creations, NEW d \in plan.creations,
           c.key = d.key
    PROVE  c = d
<1>1. PICK i \in Temp(doc.boxes) : c = [key |-> KeyAt(doc.boxes, i), text |-> doc.boxes[i].text]
  BY DEF CreationsSound
<1>2. PICK j \in Temp(doc.boxes) : d = [key |-> KeyAt(doc.boxes, j), text |-> doc.boxes[j].text]
  BY DEF CreationsSound
<1>3. KeyAt(doc.boxes, i) = KeyAt(doc.boxes, j)
  BY <1>1, <1>2
<1>4. doc.boxes[i].text = doc.boxes[j].text
  BY <1>3 DEF CreationsSound, Mergeable
<1> QED BY <1>1, <1>2, <1>3, <1>4

\* At most one creation is due.
LEMMA OneDue ==
    ASSUME BoxesTyped, CreationsSound, pc # "idle", NEW c \in Due, NEW d \in Due
    PROVE  c = d
<1>1. c \in plan.creations /\ d \in plan.creations
  BY DEF Due
<1>2. PICK i \in Temp(doc.boxes) :
         /\ KeyAt(doc.boxes, i) = c.key
         /\ \A j \in Temp(doc.boxes), e \in plan.creations :
               KeyAt(doc.boxes, j) = e.key => i <= j
  BY DEF Due
<1>3. PICK j \in Temp(doc.boxes) :
         /\ KeyAt(doc.boxes, j) = d.key
         /\ \A k \in Temp(doc.boxes), e \in plan.creations :
               KeyAt(doc.boxes, k) = e.key => j <= k
  BY DEF Due
<1>4. i <= j /\ j <= i
  BY <1>1, <1>2, <1>3
<1>5. i \in Nat /\ j \in Nat
  BY DEF Temp, BoxesTyped
<1>6. i = j
  BY <1>4, <1>5
<1> QED BY <1>1, <1>2, <1>3, <1>6, OneCreation

\* A creation that was planned is what its boxes ask for.
LEMMA CreationFacts ==
    ASSUME BoxesTyped, CreationsSound, pc # "idle", NEW c \in plan.creations
    PROVE  /\ c \in ObjectType
           /\ c.key[1] = Bare => c.text = c.key[2]
           /\ c.key[1] # Bare =>
                 /\ c.key = <<c.key[1], NoValue, 0>>
                 /\ \A j \in DOMAIN doc.boxes :
                       doc.boxes[j].name = c.key[1] => doc.boxes[j].text = c.text
<1>1. PICK i \in Temp(doc.boxes) : c = [key |-> KeyAt(doc.boxes, i), text |-> doc.boxes[i].text]
  BY DEF CreationsSound
<1>2. doc.boxes \in Seq(BoxType) /\ i \in DOMAIN doc.boxes /\ doc.boxes[i].id = 0
  BY DEF BoxesTyped, BoxType, Temp
<1>3. /\ c.key \in KeyType /\ c.key[1] = doc.boxes[i].name
      /\ doc.boxes[i].name = Bare => c.key[2] = doc.boxes[i].text
      /\ doc.boxes[i].name # Bare => c.key = <<doc.boxes[i].name, NoValue, 0>>
  BY <1>1, <1>2, KeyFacts
<1>4. doc.boxes[i].text \in STRING /\ c.text = doc.boxes[i].text
  <2>1. doc.boxes[i] \in BoxType
    BY <1>2
  <2> QED BY <1>1, <2>1 DEF BoxType
<1>5. c \in ObjectType
  BY <1>1, <1>3, <1>4 DEF ObjectType
<1>6. ASSUME c.key[1] # Bare, NEW j \in DOMAIN doc.boxes, doc.boxes[j].name = c.key[1]
      PROVE  doc.boxes[j].text = c.text
  <2>1. doc.boxes[j].name = doc.boxes[i].name /\ doc.boxes[i].name # Bare
    BY <1>3, <1>6
  <2>2. doc.boxes[j].id = 0
    BY <1>2, <2>1 DEF BoxesTyped
  <2>3. KeyAt(doc.boxes, j) = KeyAt(doc.boxes, i)
    BY <1>2, <2>1, KeyFacts
  <2>4. j \in Temp(doc.boxes)
    BY <2>2 DEF Temp
  <2> QED BY <1>4, <2>3, <2>4 DEF CreationsSound, Mergeable
<1> QED BY <1>3, <1>4, <1>5, <1>6

\* What a create adds, and which object it answers with.
LEMMA CreatedFacts ==
    ASSUME ObjectsSound, NEW c \in ObjectType
    PROVE  /\ Created(c) \in Seq(ObjectType)
           /\ Len(objects) \in Nat /\ Len(Created(c)) \in Nat
           /\ DOMAIN objects = 1..Len(objects) /\ DOMAIN Created(c) = 1..Len(Created(c))
           /\ \A o \in DOMAIN objects : o \in DOMAIN Created(c) /\ Created(c)[o] = objects[o]
           /\ \A o \in DOMAIN Created(c) :
                 \/ o \in DOMAIN objects
                 \/ /\ o = Len(objects) + 1 /\ Created(c)[o] = c
                    /\ plugin.keyed => Existing(c.key) = {}
           /\ CreatedId(c) \in DOMAIN Created(c) /\ Created(c)[CreatedId(c)].key = c.key
<1>1. objects \in Seq(ObjectType)
  BY DEF ObjectsSound, ObjectType, KeyType
<1>2. CASE plugin.keyed /\ Existing(c.key) # {}
  <2>1. Created(c) = objects
    BY <1>2 DEF Created
  <2>2. CreatedId(c) \in Existing(c.key)
    <3>1. CreatedId(c) = CHOOSE o \in Existing(c.key) : TRUE
      BY <1>2 DEF CreatedId
    <3> QED BY <1>2, <3>1
  <2>3. CreatedId(c) \in DOMAIN objects /\ objects[CreatedId(c)].key = c.key
    BY <2>2 DEF Existing
  <2> QED BY <1>1, <2>1, <2>3
<1>3. CASE ~(plugin.keyed /\ Existing(c.key) # {})
  <2>1. Created(c) = Append(objects, c) /\ CreatedId(c) = Len(objects) + 1
    BY <1>3 DEF Created, CreatedId
  <2>2. /\ Append(objects, c) \in Seq(ObjectType)
        /\ Len(objects) \in Nat /\ Len(Append(objects, c)) = Len(objects) + 1
        /\ \A o \in 1..Len(objects) : Append(objects, c)[o] = objects[o]
        /\ Append(objects, c)[Len(objects) + 1] = c
        /\ DOMAIN objects = 1..Len(objects)
        /\ DOMAIN Append(objects, c) = 1..(Len(objects) + 1)
    BY <1>1, AppendProperties
  <2> HIDE <1>3
  <2> QED BY <1>3, <2>1, <2>2
<1> QED BY <1>2, <1>3


\* A failed apply changes of the document no more than the ids of boxes that landed.
LEMMA FailFacts ==
    ASSUME Typed, BoxesTyped, ObjectsSound, LedgerSound, Fail
    PROVE  /\ pc' = "idle" /\ outcome' = "failed"
           /\ faults < MaxFaults /\ faults' = faults + 1
           /\ doc' = [lines |-> doc.lines, boxes |-> doc'.boxes, typed |-> doc.typed]
           /\ doc'.lines = doc.lines
           /\ DOMAIN doc'.boxes = DOMAIN doc.boxes
           /\ \A i \in DOMAIN doc.boxes :
                 /\ doc'.boxes[i].name = doc.boxes[i].name
                 /\ doc'.boxes[i].text = doc.boxes[i].text
                 /\ \/ doc'.boxes[i].id = doc.boxes[i].id
                    \/ \E l \in landed : l.key = KeyAt(doc.boxes, i)
                                         /\ doc'.boxes[i].id = l.id
           /\ BoxesTyped'
<1> DEFINE Hit(i) == {l \in landed : doc.boxes[i].id = 0 /\ l.key = KeyAt(doc.boxes, i)}
           r == Rewritten(doc.boxes, landed)
<1>1. doc.boxes \in Seq(BoxType) /\ \A i \in DOMAIN doc.boxes : doc.boxes[i] \in BoxType
  BY DEF BoxesTyped
<1>2. \A l \in landed : l.id \in Nat /\ l.id # 0
  BY DEF LedgerSound, ObjectsSound
<1>3. r = [i \in DOMAIN doc.boxes |->
              IF Hit(i) = {} THEN doc.boxes[i]
              ELSE [doc.boxes[i] EXCEPT !.id = (CHOOSE l \in Hit(i) : TRUE).id]]
  BY DEF Rewritten
<1> HIDE DEF r
<1>4. ASSUME NEW i \in DOMAIN doc.boxes
      PROVE  /\ r[i] \in BoxType
             /\ r[i].name = doc.boxes[i].name /\ r[i].text = doc.boxes[i].text
             /\ Hit(i) = {} => r[i].id = doc.boxes[i].id
             /\ Hit(i) # {} => \E l \in Hit(i) : r[i].id = l.id
  <2> DEFINE m == CHOOSE l \in Hit(i) : TRUE
  <2>1. CASE Hit(i) = {}
    BY <1>1, <1>3, <1>4, <2>1
  <2>2. CASE Hit(i) # {}
    <3>1. m \in Hit(i)
      BY <2>2
    <3>2. m.id \in Nat
      BY <1>2, <3>1
    <3>3. r[i] = [doc.boxes[i] EXCEPT !.id = m.id]
      BY <1>3, <1>4, <2>2
    <3> HIDE DEF m
    <3>4. /\ r[i] \in BoxType /\ r[i].id = m.id
          /\ r[i].name = doc.boxes[i].name /\ r[i].text = doc.boxes[i].text
      BY <1>1, <1>4, <3>2, <3>3 DEF BoxType
    <3> QED BY <2>2, <3>1, <3>4
  <2> QED BY <2>1, <2>2
<1>5. r \in Seq(BoxType) /\ DOMAIN r = DOMAIN doc.boxes
  <2>1. Len(doc.boxes) \in Nat /\ DOMAIN doc.boxes = 1..Len(doc.boxes)
    BY <1>1
  <2>2. r = [i \in 1..Len(doc.boxes) |-> r[i]]
    BY <1>3, <2>1
  <2> QED BY <1>4, <2>1, <2>2
<1>6. ASSUME NEW i \in DOMAIN doc.boxes, NEW j \in DOMAIN doc.boxes,
             doc.boxes[i].name = doc.boxes[j].name, doc.boxes[i].name # Bare
      PROVE  r[i].id = 0 <=> r[j].id = 0
  <2>1. KeyAt(doc.boxes, i) = KeyAt(doc.boxes, j)
    BY <1>1, <1>6, KeyFacts
  <2>2. doc.boxes[i].id = 0 <=> doc.boxes[j].id = 0
    BY <1>6 DEF BoxesTyped
  <2>3. Hit(i) = Hit(j)
    BY <2>1, <2>2
  <2>4. Hit(i) # {} => r[i].id # 0 /\ r[j].id # 0
    BY <1>2, <1>4, <2>3
  <2> QED BY <1>4, <2>2, <2>3, <2>4
<1>7. /\ DOMAIN doc'.boxes = DOMAIN doc.boxes /\ doc'.lines = doc.lines
      /\ doc' = [lines |-> doc.lines, boxes |-> doc'.boxes, typed |-> doc.typed]
      /\ doc'.boxes = doc.boxes \/ doc'.boxes = r
  <2>1. doc' = doc \/ doc' = [doc EXCEPT !.boxes = r]
    BY DEF Fail, r
  <2> QED BY <1>5, <2>1 DEF Typed
<1>8. \A i \in DOMAIN doc.boxes :
         /\ doc'.boxes[i].name = doc.boxes[i].name
         /\ doc'.boxes[i].text = doc.boxes[i].text
         /\ \/ doc'.boxes[i].id = doc.boxes[i].id
            \/ \E l \in landed : l.key = KeyAt(doc.boxes, i) /\ doc'.boxes[i].id = l.id
  BY <1>4, <1>7
<1>9. BoxesTyped'
  <2>1. CASE doc'.boxes = doc.boxes
    BY <2>1 DEF BoxesTyped
  <2>2. CASE doc'.boxes = r
    <3>1. \A i, j \in DOMAIN r :
             r[i].name = r[j].name /\ r[i].name # Bare => (r[i].id = 0 <=> r[j].id = 0)
      BY <1>4, <1>5, <1>6
    <3> QED BY <1>5, <2>2, <3>1 DEF BoxesTyped
  <2> QED BY <1>7, <2>1, <2>2
<1>10. pc' = "idle" /\ outcome' = "failed" /\ faults < MaxFaults /\ faults' = faults + 1
  BY DEF Fail, End
<1> QED BY <1>7, <1>8, <1>9, <1>10


\* The invariant's part about boxes, objects and the ledger.
Creating ==
    Typed /\ BoxesTyped /\ ObjectsSound /\ LedgerSound /\ CreationsSound /\ ObjectsKnown

\* Which steps change the document and the objects.
LEMMA StepKinds ==
    ASSUME Next
    PROVE  /\ UNCHANGED doc \/ Fail
           /\ UNCHANGED objects \/ \E c \in plan.creations : pc = "create" /\ c \in Due
                                                             /\ objects' = Created(c)
BY DEF Next, Apply, ResolveRefusals, ReviewGate, Create, Record, StartWrites, WriteOne, Commit,
   Crash, Drift

\* Objects are only added.
LEMMA ObjectsStay ==
    ASSUME Creating, Next
    PROVE  /\ \A o \in DOMAIN objects : o \in DOMAIN objects' /\ objects'[o] = objects[o]
           /\ objects' \in Seq(ObjectType)
           /\ \A o \in DOMAIN objects' :
                 \/ o \in DOMAIN objects
                 \/ \E c \in Due : pc = "create" /\ objects' = Created(c) /\ objects'[o] = c
<1>1. CASE UNCHANGED objects
  BY <1>1 DEF Creating, ObjectsSound
<1>2. ASSUME NEW c \in plan.creations, pc = "create", c \in Due, objects' = Created(c)
      PROVE  /\ \A o \in DOMAIN objects : o \in DOMAIN objects' /\ objects'[o] = objects[o]
             /\ objects' \in Seq(ObjectType)
             /\ \A o \in DOMAIN objects' : o \in DOMAIN objects \/ objects'[o] = c
  <2>1. c \in ObjectType
    BY <1>2, CreationFacts DEF Creating
  <2>2. /\ Created(c) \in Seq(ObjectType)
        /\ \A o \in DOMAIN objects : o \in DOMAIN Created(c) /\ Created(c)[o] = objects[o]
        /\ \A o \in DOMAIN Created(c) : o \in DOMAIN objects \/ Created(c)[o] = c
    BY <2>1, CreatedFacts DEF Creating
  <2> QED BY <1>2, <2>2
<1> QED BY <1>1, <1>2, StepKinds

\* The names and texts of the boxes never change.
LEMMA TextsStay ==
    ASSUME Creating, Next
    PROVE  /\ BoxesTyped'
           /\ DOMAIN doc'.boxes = DOMAIN doc.boxes
           /\ \A i \in DOMAIN doc.boxes :
                 doc'.boxes[i].name = doc.boxes[i].name /\ doc'.boxes[i].text = doc.boxes[i].text
<1>1. CASE UNCHANGED doc
  BY <1>1 DEF Creating, BoxesTyped
<1>2. CASE Fail
  BY <1>2, FailFacts DEF Creating
<1> QED BY <1>1, <1>2, StepKinds

LEMMA ObjectsKept ==
    ASSUME Creating, Next
    PROVE  ObjectsSound'
<1> SUFFICES ASSUME NEW o \in DOMAIN objects'
             PROVE  IF objects'[o].key[1] = Bare THEN objects'[o].text = objects'[o].key[2]
                    ELSE /\ objects'[o].key = <<objects'[o].key[1], NoValue, 0>>
                         /\ \A i \in DOMAIN doc.boxes :
                               doc.boxes[i].name = objects'[o].key[1]
                                  => doc.boxes[i].text = objects'[o].text
  BY ObjectsStay, TextsStay DEF ObjectsSound
<1>1. CASE o \in DOMAIN objects
  BY <1>1, ObjectsStay DEF Creating, ObjectsSound
<1>2. ASSUME NEW c \in Due, pc = "create", objects'[o] = c
      PROVE  IF c.key[1] = Bare THEN c.text = c.key[2]
             ELSE /\ c.key = <<c.key[1], NoValue, 0>>
                  /\ \A i \in DOMAIN doc.boxes :
                        doc.boxes[i].name = c.key[1] => doc.boxes[i].text = c.text
  <2>1. c \in plan.creations /\ pc # "idle"
    BY <1>2 DEF Due
  <2> QED BY <2>1, CreationFacts DEF Creating
<1> QED BY <1>1, <1>2, ObjectsStay

LEMMA LedgerKept ==
    ASSUME Creating, Next
    PROVE  LedgerSound'
<1>1. \A e \in ledger' : e.id \in DOMAIN objects /\ objects[e.id].key = e.key
  <2>1. CASE UNCHANGED ledger
    BY <2>1 DEF Creating, LedgerSound
  <2>2. ASSUME NEW c \in plan.creations, Record(c)
        PROVE  \A e \in ledger' : e.id \in DOMAIN objects /\ objects[e.id].key = e.key
    <3> DEFINE m == CHOOSE x \in landed : x.key = c.key
    <3>1. pc = "record" /\ c \in Due
      BY <2>2 DEF Record
    <3>2. m \in landed /\ m.key = c.key
      <4>1. \E l \in landed : l.key = c.key
        BY <3>1 DEF Creating, ObjectsKnown
      <4> QED BY <4>1
    <3>3. UNCHANGED ledger \/ ledger' = {e \in ledger : e.key # c.key} \cup {m}
      BY <2>2 DEF Record
    <3> HIDE DEF m
    <3> QED BY <3>2, <3>3 DEF Creating, LedgerSound
  <2>3. UNCHANGED ledger \/ \E c \in plan.creations : Record(c)
    BY DEF Next, Apply, ResolveRefusals, ReviewGate, Create, StartWrites, WriteOne, Commit,
       Crash, Drift
  <2> QED BY <2>1, <2>2, <2>3
<1>2. \A l \in landed' : l.id \in DOMAIN objects' /\ objects'[l.id].key = l.key
  <2>1. CASE landed' = landed \/ landed' = {}
    <3>1. \A l \in landed' : l.id \in DOMAIN objects /\ objects[l.id].key = l.key
      BY <2>1 DEF Creating, LedgerSound
    <3> QED BY <3>1, ObjectsStay
  <2>2. ASSUME NEW c \in plan.creations, Create(c), ~(landed' = landed)
        PROVE  \A l \in landed' : l.id \in DOMAIN objects' /\ objects'[l.id].key = l.key
    <3>1. /\ pc = "create" /\ objects' = Created(c)
          /\ landed' = landed \cup {[key |-> c.key, id |-> CreatedId(c)]}
      BY <2>2 DEF Create
    <3>2. c \in ObjectType
      BY <3>1, CreationFacts DEF Creating
    <3>3. CreatedId(c) \in DOMAIN objects' /\ objects'[CreatedId(c)].key = c.key
      BY <3>1, <3>2, CreatedFacts DEF Creating
    <3>4. \A l \in landed : l.id \in DOMAIN objects' /\ objects'[l.id].key = l.key
      BY ObjectsStay DEF Creating, LedgerSound
    <3> QED BY <3>1, <3>3, <3>4
  <2>3. landed' = landed \/ landed' = {} \/ \E c \in plan.creations : Create(c)
    BY DEF Next, Apply, ResolveRefusals, ReviewGate, Record, StartWrites, WriteOne, Commit,
       Crash, Drift
  <2> QED BY <2>1, <2>2, <2>3
<1>3. \A i \in DOMAIN doc'.boxes :
         doc'.boxes[i].id # 0 => /\ doc'.boxes[i].id \in DOMAIN objects
                                 /\ objects[doc'.boxes[i].id].text = doc'.boxes[i].text
                                 /\ objects[doc'.boxes[i].id].key[1] = doc'.boxes[i].name
  <2>1. CASE UNCHANGED doc
    BY <2>1 DEF Creating, LedgerSound
  <2>2. CASE Fail
    <3> TAKE i \in DOMAIN doc'.boxes
    <3>1. /\ i \in DOMAIN doc.boxes /\ doc'.boxes[i].text = doc.boxes[i].text
          /\ doc'.boxes[i].name = doc.boxes[i].name
      BY TextsStay
    <3>2. CASE doc'.boxes[i].id = doc.boxes[i].id
      BY <3>1, <3>2 DEF Creating, LedgerSound
    <3>3. ASSUME NEW l \in landed, l.key = KeyAt(doc.boxes, i), doc'.boxes[i].id = l.id
          PROVE  /\ l.id \in DOMAIN objects /\ objects[l.id].text = doc.boxes[i].text
                 /\ objects[l.id].key[1] = doc.boxes[i].name
      <4>1. l.id \in DOMAIN objects /\ objects[l.id].key = KeyAt(doc.boxes, i)
        BY <3>3 DEF Creating, LedgerSound
      <4> QED BY <3>1, <4>1, ObjectOfKey DEF Creating
    <3> QED BY <2>2, <3>1, <3>2, <3>3, FailFacts DEF Creating
  <2> QED BY <2>1, <2>2, StepKinds
<1> QED BY <1>1, <1>2, <1>3, ObjectsStay DEF LedgerSound


\* The boxes still to be created, while the document stays as it is.
LEMMA SameBoxes ==
    ASSUME doc' = doc
    PROVE  /\ Mergeable(doc.boxes)' = Mergeable(doc.boxes)
           /\ Temp(doc.boxes)' = Temp(doc.boxes)
           /\ \A i : KeyAt(doc.boxes, i)' = KeyAt(doc.boxes, i)
OBVIOUS

\* An apply begins, a creation is recorded, or the plan stays as it is until the apply ends.
LEMMA UnderWayKinds ==
    ASSUME Next, pc' # "idle"
    PROVE  \/ /\ pc = "idle" /\ ~PlanError /\ plan' = MakePlan /\ todo' = PlannedWrites
              /\ pc' \in {"refusals", "gate"} /\ landed' = {} /\ stale' = FALSE
              /\ UNCHANGED <<plugin, live, base, doc, objects, ledger, lost>>
           \/ \E c \in plan.creations : Record(c)
           \/ /\ pc # "idle"
              /\ UNCHANGED <<plugin, base, doc, mode, plan, ledger>>
              /\ pc' = "write" => pc = "write" \/ plan.creations = {}
BY DEF Next, Apply, End, ResolveRefusals, ReviewGate, Create, Fail, StartWrites, CreationsDone,
   WriteOne, Commit, Crash, Drift

\* What the plan says of the boxes.
LEMMA PlannedFacts ==
    ASSUME Creating, ~PlanError
    PROVE  /\ Mergeable(doc.boxes)
           /\ \A c \in MakePlan.creations :
                 /\ ~Recorded(c.key)
                 /\ \E i \in Temp(doc.boxes) : c = [key |-> KeyAt(doc.boxes, i),
                                                    text |-> doc.boxes[i].text]
           /\ \A i \in Temp(doc.boxes) :
                 \/ \E o \in DOMAIN objects : objects[o].key = KeyAt(doc.boxes, i)
                 \/ \E c \in MakePlan.creations : c.key = KeyAt(doc.boxes, i)
<1>1. MakePlan.creations = {[key |-> KeyAt(doc.boxes, i), text |-> doc.boxes[i].text] :
                               i \in {j \in Temp(doc.boxes) : ~Recorded(KeyAt(doc.boxes, j))}}
  BY DEF MakePlan, PlannedCreations, Skipped
<1>2. Mergeable(doc.boxes)
  BY DEF PlanError
<1>3. ASSUME NEW i \in Temp(doc.boxes), Recorded(KeyAt(doc.boxes, i))
      PROVE  \E o \in DOMAIN objects : objects[o].key = KeyAt(doc.boxes, i)
  BY <1>3 DEF Recorded, Creating, LedgerSound
<1>4. ASSUME NEW c \in MakePlan.creations
      PROVE  /\ ~Recorded(c.key)
             /\ \E i \in Temp(doc.boxes) : c = [key |-> KeyAt(doc.boxes, i),
                                                text |-> doc.boxes[i].text]
  <2>1. PICK i \in Temp(doc.boxes) : /\ ~Recorded(KeyAt(doc.boxes, i))
                                     /\ c = [key |-> KeyAt(doc.boxes, i),
                                             text |-> doc.boxes[i].text]
    BY <1>1
  <2>2. c.key = KeyAt(doc.boxes, i)
    BY <2>1
  <2> QED BY <2>1, <2>2
<1>5. ASSUME NEW i \in Temp(doc.boxes), ~Recorded(KeyAt(doc.boxes, i))
      PROVE  \E c \in MakePlan.creations : c.key = KeyAt(doc.boxes, i)
  <2> DEFINE c == [key |-> KeyAt(doc.boxes, i), text |-> doc.boxes[i].text]
  <2>1. c \in MakePlan.creations /\ c.key = KeyAt(doc.boxes, i)
    BY <1>1, <1>5
  <2> QED BY <2>1
<1> QED BY <1>2, <1>3, <1>4, <1>5

\* What the record of a creation does.
LEMMA RecordFacts ==
    ASSUME Creating, NEW c \in plan.creations, Record(c)
    PROVE  /\ pc = "record" /\ pc' = "create" /\ c \in Due
           /\ plan' = [plan EXCEPT !.creations = plan.creations \ {c}]
           /\ UNCHANGED <<plugin, live, base, doc, mode, todo, objects, landed, outcome, stale>>
           /\ \E o \in DOMAIN objects : objects[o].key = c.key
           /\ \/ lost' = lost \cup {c.key} /\ ledger' = ledger
              \/ /\ lost' = lost
                 /\ \A key : Recorded(key)' <=> (Recorded(key) \/ key = c.key)
<1> DEFINE m == CHOOSE x \in landed : x.key = c.key
<1>1. /\ pc = "record" /\ pc' = "create" /\ c \in Due
      /\ plan' = [plan EXCEPT !.creations = plan.creations \ {c}]
      /\ UNCHANGED <<plugin, live, base, doc, mode, todo, objects, landed, outcome, stale>>
      /\ \/ lost' = lost \cup {c.key} /\ ledger' = ledger
         \/ lost' = lost /\ ledger' = {e \in ledger : e.key # c.key} \cup {m}
  BY DEF Record
<1>2. m \in landed /\ m.key = c.key
  <2>1. \E l \in landed : l.key = c.key
    BY <1>1 DEF Creating, ObjectsKnown
  <2> QED BY <2>1
<1> HIDE DEF m
<1>3. \E o \in DOMAIN objects : objects[o].key = c.key
  BY <1>2 DEF Creating, LedgerSound
<1>4. ASSUME ledger' = {e \in ledger : e.key # c.key} \cup {m}
      PROVE  \A key : Recorded(key)' <=> (Recorded(key) \/ key = c.key)
  BY <1>2, <1>4 DEF Recorded
<1> QED BY <1>1, <1>3, <1>4

LEMMA CreationsKept ==
    ASSUME Creating, Next
    PROVE  CreationsSound'
<1>1. CASE pc' = "idle"
  BY <1>1 DEF CreationsSound
<1>2. CASE /\ pc = "idle" /\ ~PlanError /\ plan' = MakePlan /\ todo' = PlannedWrites
           /\ pc' \in {"refusals", "gate"} /\ landed' = {} /\ stale' = FALSE
           /\ UNCHANGED <<plugin, live, base, doc, objects, ledger, lost>>
  <2>1. \A key : Recorded(key)' <=> Recorded(key)
    BY <1>2 DEF Recorded
  <2> QED BY <1>2, <2>1, PlannedFacts DEF CreationsSound
<1>3. ASSUME NEW c \in plan.creations, Record(c) PROVE CreationsSound'
  <2>1. /\ pc = "record" /\ pc' = "create" /\ doc' = doc /\ objects' = objects
        /\ plan'.creations = plan.creations \ {c}
    BY <1>3, RecordFacts DEF Creating, Typed
  <2>2. \A d \in plan'.creations : ~Recorded(d.key)'
    <3> TAKE d \in plan'.creations
    <3>1. d \in plan.creations /\ d.key # c.key /\ ~Recorded(d.key)
      BY <2>1, OneCreation DEF Creating, CreationsSound
    <3>2. ledger' = ledger => ~Recorded(d.key)'
      BY <3>1 DEF Recorded
    <3> QED BY <1>3, <3>1, <3>2, RecordFacts
  <2>3. \A i \in Temp(doc.boxes) :
           \/ \E o \in DOMAIN objects : objects[o].key = KeyAt(doc.boxes, i)
           \/ \E d \in plan'.creations : d.key = KeyAt(doc.boxes, i)
    BY <1>3, <2>1, RecordFacts DEF Creating, CreationsSound
  <2>4. /\ Mergeable(doc.boxes)
        /\ \A d \in plan'.creations :
              \E i \in Temp(doc.boxes) : d = [key |-> KeyAt(doc.boxes, i),
                                              text |-> doc.boxes[i].text]
    BY <2>1 DEF Creating, CreationsSound
  <2> QED BY <2>1, <2>2, <2>3, <2>4 DEF CreationsSound
<1>4. CASE /\ pc # "idle"
           /\ UNCHANGED <<plugin, base, doc, mode, plan, ledger>>
           /\ pc' = "write" => pc = "write" \/ plan.creations = {}
  <2>1. \A key : Recorded(key)' <=> Recorded(key)
    BY <1>4 DEF Recorded
  <2>2. \A key : (\E o \in DOMAIN objects : objects[o].key = key)
                    => \E o \in DOMAIN objects' : objects'[o].key = key
    BY ObjectsStay
  <2>3. /\ Mergeable(doc.boxes)
        /\ pc' = "write" => plan.creations = {}
        /\ \A c \in plan.creations :
              /\ ~Recorded(c.key)
              /\ \E i \in Temp(doc.boxes) : c = [key |-> KeyAt(doc.boxes, i),
                                                 text |-> doc.boxes[i].text]
        /\ \A i \in Temp(doc.boxes) :
              \/ \E o \in DOMAIN objects : objects[o].key = KeyAt(doc.boxes, i)
              \/ \E c \in plan.creations : c.key = KeyAt(doc.boxes, i)
    BY <1>4 DEF Creating, CreationsSound
  <2> QED BY <1>4, <2>1, <2>2, <2>3 DEF CreationsSound
<1> QED BY <1>1, <1>2, <1>3, <1>4, UnderWayKinds


\* What a create does, and when it fails.
LEMMA CreateFacts ==
    ASSUME Creating, NEW c \in plan.creations, Create(c)
    PROVE  /\ pc = "create" /\ c \in Due /\ plan' = plan /\ plugin' = plugin /\ ledger' = ledger
           /\ \/ /\ pc' = "record" /\ doc' = doc /\ lost' = lost /\ objects' = Created(c)
                 /\ \E l \in landed' : l.key = c.key
              \/ /\ pc' = "idle" /\ outcome' = "failed"
                 /\ \/ objects' = objects /\ lost' = lost
                    \/ objects' = Created(c) /\ lost' = lost \cup {c.key}
           /\ \A o \in DOMAIN objects' :
                 \/ o \in DOMAIN objects /\ objects'[o] = objects[o]
                 \/ /\ o = Len(objects) + 1 /\ objects'[o] = c
                    /\ plugin.keyed => Existing(c.key) = {}
                    /\ pc' = "record" \/ c.key \in lost'
           /\ lost \subseteq lost'
<1>1. c \in ObjectType /\ pc = "create"
  BY CreationFacts DEF Create, Creating
<1>2. /\ c \in Due /\ plan' = plan /\ plugin' = plugin /\ ledger' = ledger
      /\ \/ /\ pc' = "record" /\ doc' = doc /\ lost' = lost /\ objects' = Created(c)
            /\ landed' = landed \cup {[key |-> c.key, id |-> CreatedId(c)]}
         \/ /\ pc' = "idle" /\ outcome' = "failed"
            /\ \/ objects' = objects /\ lost' = lost
               \/ objects' = Created(c) /\ lost' = lost \cup {c.key}
  BY DEF Create, Fail, End
<1>3. \A o \in DOMAIN Created(c) :
         \/ o \in DOMAIN objects /\ Created(c)[o] = objects[o]
         \/ /\ o = Len(objects) + 1 /\ Created(c)[o] = c
            /\ plugin.keyed => Existing(c.key) = {}
  BY <1>1, CreatedFacts DEF Creating
<1>4. \A o \in DOMAIN objects' :
         \/ o \in DOMAIN objects /\ objects'[o] = objects[o]
         \/ /\ o = Len(objects) + 1 /\ objects'[o] = c
            /\ plugin.keyed => Existing(c.key) = {}
            /\ pc' = "record" \/ c.key \in lost'
  BY <1>2, <1>3
<1>5. landed' = landed \cup {[key |-> c.key, id |-> CreatedId(c)]}
         => \E l \in landed' : l.key = c.key
  <2> DEFINE l == [key |-> c.key, id |-> CreatedId(c)]
  <2>1. l.key = c.key
    OBVIOUS
  <2> HIDE DEF l
  <2> QED BY <2>1 DEF l
<1>6. lost \subseteq lost'
  BY <1>2
<1> QED BY <1>1, <1>2, <1>4, <1>5, <1>6

\* What the other steps do about the objects.
LEMMA KnownKinds ==
    ASSUME Next
    PROVE  \/ \E c \in plan.creations : Create(c) \/ Record(c)
           \/ /\ pc' = "idle" /\ lost' = lost \cup {c.key : c \in Due}
              /\ UNCHANGED <<objects, ledger, plugin>>
           \/ /\ pc # "record" /\ pc' # "record"
              /\ UNCHANGED <<objects, ledger, lost, plugin>>
           \/ UNCHANGED <<objects, ledger, lost, landed, pc, doc, plan, plugin>>
BY DEF Next, Apply, End, ResolveRefusals, ReviewGate, Fail, StartWrites, CreationsDone,
   WriteOne, Commit, Crash, Drift

LEMMA KnownKept ==
    ASSUME Creating, Next
    PROVE  ObjectsKnown'
<1>1. ASSUME NEW c \in plan.creations, Create(c) PROVE ObjectsKnown'
  <2>1. \A key : Recorded(key)' <=> Recorded(key)
    BY <1>1, CreateFacts DEF Recorded
  <2>2. \A o \in DOMAIN objects : Recorded(objects[o].key) \/ objects[o].key \in lost
    BY <1>1, CreateFacts DEF Creating, ObjectsKnown
  <2>3. CASE pc' = "record"
    <3>1. Due' = Due
      BY <1>1, <2>3, CreateFacts DEF Due
    <3>2. \A d \in Due : d = c
      BY <1>1, CreateFacts, OneDue DEF Creating
    <3>3. \E l \in landed' : l.key = c.key
      BY <1>1, <2>3, CreateFacts
    <3>4. \A o \in DOMAIN objects' :
             \/ Recorded(objects'[o].key) \/ objects'[o].key \in lost'
             \/ \E d \in Due : d.key = objects'[o].key
      BY <1>1, <2>2, CreateFacts
    <3> QED BY <2>1, <2>3, <3>1, <3>2, <3>3, <3>4 DEF ObjectsKnown
  <2>4. CASE pc' # "record"
    <3>1. \A o \in DOMAIN objects' : Recorded(objects'[o].key) \/ objects'[o].key \in lost'
      BY <1>1, <2>2, <2>4, CreateFacts
    <3> QED BY <2>1, <2>4, <3>1 DEF ObjectsKnown
  <2> QED BY <2>3, <2>4
<1>2. ASSUME NEW c \in plan.creations, Record(c) PROVE ObjectsKnown'
  <2>1. \A d \in Due : d = c
    BY <1>2, RecordFacts, OneDue DEF Creating
  <2>2. \A o \in DOMAIN objects :
           Recorded(objects[o].key) \/ objects[o].key \in lost \/ objects[o].key = c.key
    BY <2>1 DEF Creating, ObjectsKnown
  <2>3. objects' = objects /\ pc' = "create"
    BY <1>2, RecordFacts
  <2>4. CASE lost' = lost \cup {c.key} /\ ledger' = ledger
    <3>1. \A key : Recorded(key)' <=> Recorded(key)
      BY <2>4 DEF Recorded
    <3> QED BY <2>2, <2>3, <2>4, <3>1 DEF ObjectsKnown
  <2>5. CASE lost' = lost /\ \A key : Recorded(key)' <=> (Recorded(key) \/ key = c.key)
    BY <2>2, <2>3, <2>5 DEF ObjectsKnown
  <2> QED BY <1>2, <2>4, <2>5, RecordFacts
<1>3. CASE /\ pc' = "idle" /\ lost' = lost \cup {c.key : c \in Due}
           /\ UNCHANGED <<objects, ledger, plugin>>
  <2>1. \A key : Recorded(key)' <=> Recorded(key)
    BY <1>3 DEF Recorded
  <2>2. \A o \in DOMAIN objects : Recorded(objects[o].key) \/ objects[o].key \in lost'
    BY <1>3 DEF Creating, ObjectsKnown
  <2> QED BY <1>3, <2>1, <2>2 DEF ObjectsKnown
<1>4. CASE /\ pc # "record" /\ pc' # "record"
           /\ UNCHANGED <<objects, ledger, lost, plugin>>
  <2>1. \A key : Recorded(key)' <=> Recorded(key)
    BY <1>4 DEF Recorded
  <2> QED BY <1>4, <2>1 DEF Creating, ObjectsKnown
<1>5. CASE UNCHANGED <<objects, ledger, lost, landed, pc, doc, plan, plugin>>
  <2>1. \A key : Recorded(key)' <=> Recorded(key)
    BY <1>5 DEF Recorded
  <2>2. Due' = Due
    BY <1>5 DEF Due
  <2> QED BY <1>5, <2>1, <2>2 DEF Creating, ObjectsKnown
<1> QED BY <1>1, <1>2, <1>3, <1>4, <1>5, KnownKinds

\* A second object of a key is only made when the first one's record was lost.
LEMMA OnceKept ==
    ASSUME Creating, CreatedOnce, Next
    PROVE  CreatedOnce'
<1>1. ASSUME NEW c \in plan.creations, Create(c) PROVE CreatedOnce'
  <2>1. ~Recorded(c.key) /\ pc = "create"
    BY <1>1 DEF Create, Creating, CreationsSound
  <2>2. \A o \in DOMAIN objects : objects[o].key = c.key => c.key \in lost
    BY <2>1 DEF Creating, ObjectsKnown
  <2>3. \A o \in DOMAIN objects : objects[o].key = c.key => o \in Existing(c.key)
    BY DEF Existing
  <2>4. plugin' = plugin /\ lost \subseteq lost'
    BY <1>1, CreateFacts
  <2> SUFFICES ASSUME NEW o \in DOMAIN objects', NEW q \in DOMAIN objects', o # q,
                      objects'[o].key = objects'[q].key
               PROVE  ~plugin.keyed /\ objects'[o].key \in lost'
    BY <2>4 DEF CreatedOnce
  <2>5. CASE o \in DOMAIN objects /\ objects'[o] = objects[o]
             /\ q \in DOMAIN objects /\ objects'[q] = objects[q]
    BY <2>4, <2>5 DEF CreatedOnce
  <2>6. CASE o \in DOMAIN objects /\ objects'[o] = objects[o] /\ objects'[q] = c
             /\ (plugin.keyed => Existing(c.key) = {})
    BY <2>2, <2>3, <2>4, <2>6
  <2>7. CASE q \in DOMAIN objects /\ objects'[q] = objects[q] /\ objects'[o] = c
             /\ (plugin.keyed => Existing(c.key) = {})
    BY <2>2, <2>3, <2>4, <2>7
  <2> QED BY <1>1, <2>5, <2>6, <2>7, CreateFacts
<1>2. CASE UNCHANGED <<objects, plugin>> /\ lost \subseteq lost'
  BY <1>2 DEF CreatedOnce
<1>3. ASSUME NEW c \in plan.creations, Record(c)
      PROVE  UNCHANGED <<objects, plugin>> /\ lost \subseteq lost'
  BY <1>3, RecordFacts
<1> QED BY <1>1, <1>2, <1>3, KnownKinds

\* Twins that are both still to be created have different keys: the second one is counted
\* after the first.
LEMMA TwinKeys ==
    ASSUME NEW boxes \in Seq(BoxType), NEW i \in Temp(boxes), NEW j \in Temp(boxes),
           i # j, Twins(boxes[i], boxes[j])
    PROVE  KeyAt(boxes, i) # KeyAt(boxes, j)
<1> DEFINE Same(k) == {h \in Temp(boxes) : h <= k /\ boxes[h].name = Bare
                                           /\ boxes[h].text = boxes[k].text}
<1>1. /\ KeyAt(boxes, i) = <<Bare, boxes[i].text, Cardinality(Same(i))>>
      /\ KeyAt(boxes, j) = <<Bare, boxes[j].text, Cardinality(Same(j))>>
  BY DEF KeyAt, Twins
<1>2. i \in Nat /\ j \in Nat /\ Temp(boxes) \subseteq 1..Len(boxes) /\ Len(boxes) \in Nat
  BY DEF Temp
<1>3. \A k \in Temp(boxes) : IsFiniteSet(Same(k))
  <2>1. IsFiniteSet(1..Len(boxes))
    BY <1>2, FS_Interval
  <2> QED BY <1>2, <2>1, FS_Subset
<1>4. ASSUME NEW g \in Temp(boxes), NEW k \in Temp(boxes), g < k, Twins(boxes[g], boxes[k])
      PROVE  Cardinality(Same(g)) # Cardinality(Same(k))
  <2>1. g \in Nat /\ k \in Nat
    BY <1>2
  <2>2. Same(g) \subseteq Same(k) /\ k \in Same(k) /\ k \notin Same(g)
    BY <1>2, <1>4, <2>1 DEF Twins
  <2>3. IsFiniteSet(Same(k))
    BY <1>3
  <2> HIDE DEF Same
  <2> QED BY <2>2, <2>3, FS_Subset
<1>5. i < j \/ j < i
  BY <1>2
<1>6. Twins(boxes[j], boxes[i])
  BY DEF Twins
<1>7. Cardinality(Same(i)) # Cardinality(Same(j))
  BY <1>4, <1>5, <1>6
<1> HIDE DEF Same
<1> QED BY <1>1, <1>7

\* When an apply has gone through, every box has its object.
Matched ==
    \E object \in [DOMAIN doc.boxes -> DOMAIN objects] :
        \A i \in DOMAIN doc.boxes :
            LET b == doc.boxes[i]
            IN  /\ objects[object[i]].text = b.text
                /\ objects[object[i]].key[1] = b.name
                /\ b.id # 0 => object[i] = b.id
                /\ \A j \in DOMAIN doc.boxes \ {i} :
                      object[j] = object[i] =>
                         \/ ~Twins(b, doc.boxes[j]) \/ Overtaken(b, doc.boxes[j])

LEMMA AllCreated ==
    ASSUME Creating, pc # "idle", plan.creations = {}
    PROVE  Matched
<1> DEFINE Fits(i, o) == IF doc.boxes[i].id # 0 THEN o = doc.boxes[i].id
                         ELSE objects[o].key = KeyAt(doc.boxes, i)
           object == [i \in DOMAIN doc.boxes |-> CHOOSE o \in DOMAIN objects : Fits(i, o)]
<1>1. doc.boxes \in Seq(BoxType)
  BY DEF Creating, BoxesTyped
<1>2. ASSUME NEW i \in DOMAIN doc.boxes
      PROVE  \E o \in DOMAIN objects : Fits(i, o)
  <2>1. CASE doc.boxes[i].id # 0
    BY <2>1 DEF Creating, LedgerSound
  <2>2. CASE doc.boxes[i].id = 0
    <3>1. i \in Temp(doc.boxes)
      BY <2>2 DEF Temp
    <3>2. \E o \in DOMAIN objects : objects[o].key = KeyAt(doc.boxes, i)
      BY <3>1 DEF Creating, CreationsSound
    <3> QED BY <2>2, <3>2
  <2> QED BY <2>1, <2>2
<1>3. \A i \in DOMAIN doc.boxes : object[i] \in DOMAIN objects /\ Fits(i, object[i])
  BY <1>2
<1>4. object \in [DOMAIN doc.boxes -> DOMAIN objects]
  BY <1>2
<1> HIDE DEF object
<1>5. ASSUME NEW i \in DOMAIN doc.boxes
      PROVE  /\ objects[object[i]].text = doc.boxes[i].text
             /\ objects[object[i]].key[1] = doc.boxes[i].name
             /\ doc.boxes[i].id # 0 => object[i] = doc.boxes[i].id
  <2>1. CASE doc.boxes[i].id # 0
    BY <1>3, <2>1 DEF Creating, LedgerSound
  <2>2. CASE doc.boxes[i].id = 0
    <3>1. objects[object[i]].key = KeyAt(doc.boxes, i) /\ object[i] \in DOMAIN objects
      BY <1>3, <2>2
    <3> QED BY <2>2, <3>1, ObjectOfKey DEF Creating
  <2> QED BY <2>1, <2>2
<1>6. ASSUME NEW i \in DOMAIN doc.boxes, NEW j \in DOMAIN doc.boxes \ {i},
             object[j] = object[i], Twins(doc.boxes[i], doc.boxes[j])
      PROVE  Overtaken(doc.boxes[i], doc.boxes[j])
  <2>1. CASE doc.boxes[i].id = 0 /\ doc.boxes[j].id = 0
    <3>1. i \in Temp(doc.boxes) /\ j \in Temp(doc.boxes)
      BY <2>1 DEF Temp
    <3>2. KeyAt(doc.boxes, i) = KeyAt(doc.boxes, j)
      BY <1>3, <1>6, <2>1
    <3> QED BY <1>1, <1>6, <3>1, <3>2, TwinKeys
  <2>2. CASE doc.boxes[i].id # 0 /\ doc.boxes[j].id # 0
    BY <1>5, <1>6, <2>2 DEF Overtaken
  <2> QED BY <2>1, <2>2 DEF Overtaken
<1> QED BY <1>4, <1>5, <1>6 DEF Matched

LEMMA ExistKept ==
    ASSUME Creating, BoxesExist, Next
    PROVE  BoxesExist'
<1>1. CASE outcome' \notin {"committed", "nothing"} \/ pc' # "idle"
  BY <1>1 DEF BoxesExist
<1>2. CASE pc = "idle" /\ pc' = "idle" /\ UNCHANGED <<outcome, doc, objects>>
  BY <1>2 DEF BoxesExist
<1>3. CASE pc # "idle" /\ plan.creations = {} /\ UNCHANGED <<doc, objects>>
  BY <1>3, AllCreated DEF BoxesExist, Matched
<1>4. \/ outcome' \notin {"committed", "nothing"} \/ pc' # "idle"
      \/ pc = "idle" /\ pc' = "idle" /\ UNCHANGED <<outcome, doc, objects>>
      \/ pc # "idle" /\ plan.creations = {} /\ UNCHANGED <<doc, objects>>
  <2>1. CASE Commit
    BY <2>1 DEF Commit, Creating, CreationsSound
  <2>2. CASE ReviewGate
    BY <2>2 DEF ReviewGate, NothingPlanned, End
  <2>3. CASE ~Commit /\ ~ReviewGate
    BY <2>3 DEF Next, Apply, End, ResolveRefusals, Create, Record, Fail, StartWrites, WriteOne,
       Crash, Drift
  <2> QED BY <2>1, <2>2, <2>3
<1> QED BY <1>1, <1>2, <1>3, <1>4


(***************************************************************************)
(* Writes.                                                                 *)
(***************************************************************************)

\* What a write makes of its node.
LEMMA PatchFacts ==
    ASSUME Typed, PlanFacts, pc = "write", NEW w \in todo
    PROVE  \E n \in Nodes, kind \in {"atoms", "move", "field"} :
              /\ w = Write(kind, n) /\ w \in plan.writes /\ w.n = n
              /\ Patched(w) \in LiveNode
              /\ Patched(w).listed = live[n].listed
              /\ Patched(w).bucket = CASE kind = "atoms" -> live[n].bucket
                                       [] kind = "move" -> doc.lines[n].bucket
                                       [] kind = "field" -> plan.snap[n].bucket
              /\ Patched(w).time = CASE kind = "atoms" -> live[n].time
                                     [] kind = "move" -> plan.snap[n].time
                                     [] kind = "field" -> doc.lines[n].time
              /\ Patched(w).tags = IF kind = "atoms" THEN plan.tags[n] ELSE live[n].tags
<1>1. w \in plan.writes
  BY DEF PlanFacts
<1>2. PICK n \in Nodes, kind \in {"atoms", "move", "field"} : w = Write(kind, n)
  BY <1>1 DEF PlanFacts
<1>3. w.n = n /\ w.kind = kind
  BY <1>2 DEF Write
<1>4. NodeFacts(n) /\ live[n] \in LiveNode /\ plan.snap[n] \in LiveNode
  BY DEF PlanFacts, Typed
<1>5. Present(n)
  BY <1>1, <1>2, <1>4 DEF NodeFacts, Moved, Changed
<1>6. doc.lines[n] \in Line /\ base[n] \in Line
  BY <1>5, LineTyped
<1>7. CASE kind = "atoms"
  <2>1. plan.tags[n] \in SUBSET Tags
    BY <1>4, <1>5, <1>6 DEF NodeFacts, Line, LiveNode
  <2>2. Patched(w) = [live[n] EXCEPT !.tags = plan.tags[n]]
    BY <1>3, <1>7 DEF Patched
  <2>3. /\ Patched(w) \in LiveNode /\ Patched(w).listed = live[n].listed
        /\ Patched(w).bucket = live[n].bucket /\ Patched(w).time = live[n].time
        /\ Patched(w).tags = plan.tags[n]
    BY <1>4, <2>1, <2>2 DEF LiveNode
  <2> QED BY <1>1, <1>2, <1>3, <1>7, <2>3
<1>8. CASE kind = "move"
  <2> DEFINE one == [live[n] EXCEPT !.bucket = doc.lines[n].bucket]
  <2>1. Patched(w) = [one EXCEPT !.time = plan.snap[n].time]
    BY <1>3, <1>8 DEF Patched
  <2>2. /\ one \in LiveNode /\ one.listed = live[n].listed
        /\ one.bucket = doc.lines[n].bucket /\ one.tags = live[n].tags
    BY <1>4, <1>6 DEF LiveNode, Line
  <2>3. plan.snap[n].time \in Times
    BY <1>4 DEF LiveNode
  <2> HIDE DEF one
  <2>4. /\ Patched(w) \in LiveNode /\ Patched(w).listed = live[n].listed
        /\ Patched(w).bucket = doc.lines[n].bucket /\ Patched(w).time = plan.snap[n].time
        /\ Patched(w).tags = live[n].tags
    BY <2>1, <2>2, <2>3 DEF LiveNode
  <2> QED BY <1>1, <1>2, <1>3, <1>8, <2>4
<1>9. CASE kind = "field"
  <2> DEFINE one == [live[n] EXCEPT !.bucket = plan.snap[n].bucket]
  <2>1. Patched(w) = [one EXCEPT !.time = doc.lines[n].time]
    BY <1>3, <1>9 DEF Patched
  <2>2. /\ one \in LiveNode /\ one.listed = live[n].listed
        /\ one.bucket = plan.snap[n].bucket /\ one.tags = live[n].tags
    BY <1>4 DEF LiveNode
  <2>3. doc.lines[n].time \in Times
    BY <1>6 DEF Line
  <2> HIDE DEF one
  <2>4. /\ Patched(w) \in LiveNode /\ Patched(w).listed = live[n].listed
        /\ Patched(w).bucket = plan.snap[n].bucket /\ Patched(w).time = doc.lines[n].time
        /\ Patched(w).tags = live[n].tags
    BY <2>1, <2>2, <2>3 DEF LiveNode
  <2> QED BY <1>1, <1>2, <1>3, <1>9, <2>4
<1> QED BY <1>7, <1>8, <1>9

\* What a write does, made or failed.
LEMMA WriteFacts ==
    ASSUME Typed, PlanFacts, NEW w \in todo, WriteOne(w)
    PROVE  /\ pc = "write"
           /\ UNCHANGED <<plugin, base, mode, plan, stale>>
           /\ live' = live \/ live' = [live EXCEPT ![w.n] = Patched(w)]
           /\ live' \in [Nodes -> LiveNode]
           /\ \/ /\ live' = [live EXCEPT ![w.n] = Patched(w)]
                 /\ todo' = todo \ {w} /\ UNCHANGED <<pc, outcome, doc, faults>>
              \/ Fail /\ todo' = todo
<1>1. /\ pc = "write"
      /\ UNCHANGED <<plugin, base, mode, plan, stale>>
      /\ live' = live \/ live' = [live EXCEPT ![w.n] = Patched(w)]
      /\ \/ /\ live' = [live EXCEPT ![w.n] = Patched(w)]
            /\ todo' = todo \ {w} /\ UNCHANGED <<pc, outcome, doc, faults>>
         \/ Fail /\ todo' = todo
  BY DEF WriteOne
<1>2. w.n \in Nodes /\ Patched(w) \in LiveNode
  BY <1>1, PatchFacts
<1>3. live' \in [Nodes -> LiveNode]
  BY <1>1, <1>2 DEF Typed
<1> QED BY <1>1, <1>3

\* What another client does.
LEMMA DriftFacts ==
    ASSUME Typed, NEW n \in Nodes, Drift(n)
    PROVE  /\ live' \in [Nodes -> LiveNode] /\ stale' = TRUE
           /\ drift < MaxDrift /\ drift' = drift + 1
           /\ UNCHANGED <<plugin, base, doc, mode, pc, plan, todo, landed, outcome, faults,
                          applies>>
<1>1. /\ stale' = TRUE /\ drift < MaxDrift /\ drift' = drift + 1
      /\ UNCHANGED <<plugin, base, doc, mode, pc, plan, todo, landed, outcome, faults, applies>>
      /\ \/ \E k \in Buckets : live' = [live EXCEPT ![n].bucket = k]
         \/ \E t \in Times : live' = [live EXCEPT ![n].time = t]
         \/ \E g \in SUBSET Tags : live' = [live EXCEPT ![n].tags = g]
         \/ live' = [live EXCEPT ![n].listed = FALSE]
  BY DEF Drift
<1>2. live \in [Nodes -> LiveNode] /\ live[n] \in LiveNode
  BY DEF Typed
<1>3. ASSUME NEW x \in LiveNode PROVE [live EXCEPT ![n] = x] \in [Nodes -> LiveNode]
  BY <1>2
<1>4. ASSUME NEW k \in Buckets PROVE [live EXCEPT ![n].bucket = k] \in [Nodes -> LiveNode]
  <2>1. [live[n] EXCEPT !.bucket = k] \in LiveNode
    BY <1>2, <1>4 DEF LiveNode
  <2> QED BY <1>3, <2>1
<1>5. ASSUME NEW t \in Times PROVE [live EXCEPT ![n].time = t] \in [Nodes -> LiveNode]
  <2>1. [live[n] EXCEPT !.time = t] \in LiveNode
    BY <1>2, <1>5 DEF LiveNode
  <2> QED BY <1>3, <2>1
<1>6. ASSUME NEW g \in SUBSET Tags PROVE [live EXCEPT ![n].tags = g] \in [Nodes -> LiveNode]
  <2>1. [live[n] EXCEPT !.tags = g] \in LiveNode
    BY <1>2, <1>6 DEF LiveNode
  <2> QED BY <1>3, <2>1
<1>7. [live EXCEPT ![n].listed = FALSE] \in [Nodes -> LiveNode]
  <2>1. [live[n] EXCEPT !.listed = FALSE] \in LiveNode
    BY <1>2 DEF LiveNode
  <2> QED BY <1>3, <2>1
<1>8. live' \in [Nodes -> LiveNode]
  BY <1>1, <1>4, <1>5, <1>6, <1>7
<1> QED BY <1>1, <1>8


LEMMA TypedKept ==
    ASSUME Creating, PlanFacts, Next
    PROVE  Typed'
<1> USE DEF Creating
<1>a. MaxDrift \in Nat /\ MaxFaults \in Nat /\ MaxApplies \in Nat
  BY ConstantsAssumption
<1>1. ASSUME NEW commit \in BOOLEAN, NEW interactive \in BOOLEAN, Apply(commit, interactive)
      PROVE  Typed'
  <2>1. applies' \in 0..MaxApplies
    <3>1. applies < MaxApplies /\ applies' = applies + 1
      BY <1>1 DEF Apply
    <3> QED BY <1>a, <3>1 DEF Typed
  <2>2. /\ mode' = [commit |-> commit, interactive |-> interactive] /\ stale' = FALSE
        /\ UNCHANGED <<plugin, live, base, doc, drift, faults>>
        /\ \/ pc' = "idle" /\ outcome' = "refused" /\ plan' = NoPlan
           \/ pc' \in {"refusals", "gate"} /\ outcome' = outcome /\ plan' = MakePlan
    BY <1>1 DEF Apply, End
  <2>3. plan' = [creations |-> plan'.creations, writes |-> plan'.writes,
                 refused |-> plan'.refused, tags |-> plan'.tags, snap |-> plan'.snap]
    BY <2>2 DEF NoPlan, MakePlan
  <2>4. mode' \in [commit : BOOLEAN, interactive : BOOLEAN]
    BY <2>2
  <2>5. /\ pc' \in {"idle", "refusals", "gate", "create", "record", "write"}
        /\ outcome' \in {"none", "refused", "declined", "dryrun", "nothing", "failed",
                         "crashed", "committed"}
    BY <2>2 DEF Typed
  <2> QED BY <2>1, <2>2, <2>3, <2>4, <2>5 DEF Typed
<1>2. CASE ResolveRefusals
  BY <1>2 DEF Typed, ResolveRefusals, End
<1>3. CASE ReviewGate
  BY <1>3 DEF Typed, ReviewGate, End
<1>f. ASSUME Fail PROVE faults' \in 0..MaxFaults
  <2>1. faults < MaxFaults /\ faults' = faults + 1
    BY <1>f DEF Fail
  <2> QED BY <1>a, <2>1 DEF Typed
<1>4. ASSUME NEW c \in plan.creations, Create(c) PROVE Typed'
  <2>1. /\ UNCHANGED <<plugin, live, base, mode, plan, stale, drift, applies>>
        /\ \/ pc' = "record" /\ UNCHANGED <<doc, outcome, faults>>
           \/ Fail
    BY <1>4 DEF Create
  <2>2. CASE Fail
    BY <1>f, <2>1, <2>2, FailFacts DEF Typed
  <2>3. CASE pc' = "record" /\ UNCHANGED <<doc, outcome, faults>>
    BY <2>1, <2>3 DEF Typed
  <2> QED BY <2>1, <2>2, <2>3
<1>5. ASSUME NEW c \in plan.creations, Record(c) PROVE Typed'
  <2>1. /\ UNCHANGED <<plugin, live, base, mode, doc, outcome, stale, drift, applies>>
        /\ pc' = "create"
        /\ plan' = [plan EXCEPT !.creations = plan.creations \ {c}]
        /\ faults' = faults \/ (faults < MaxFaults /\ faults' = faults + 1)
    BY <1>5 DEF Record
  <2>2. faults' \in 0..MaxFaults
    BY <1>a, <2>1 DEF Typed
  <2>3. plan' = [creations |-> plan'.creations, writes |-> plan'.writes,
                 refused |-> plan'.refused, tags |-> plan'.tags, snap |-> plan'.snap]
    BY <2>1 DEF Typed
  <2> QED BY <2>1, <2>2, <2>3 DEF Typed
<1>6. CASE StartWrites
  BY <1>6 DEF Typed, StartWrites
<1>7. ASSUME NEW w \in todo, WriteOne(w) PROVE Typed'
  <2>1. /\ UNCHANGED <<plugin, base, mode, plan, stale, drift, applies>>
        /\ live' \in [Nodes -> LiveNode]
    BY <1>7, WriteFacts DEF WriteOne
  <2>2. CASE Fail
    BY <1>f, <2>1, <2>2, FailFacts DEF Typed
  <2>3. CASE UNCHANGED <<pc, outcome, doc, faults>>
    BY <2>1, <2>3 DEF Typed
  <2> QED BY <1>7, <2>2, <2>3, WriteFacts
<1>8. CASE Commit
  BY <1>8 DEF Typed, Commit, End
<1>9. CASE Crash
  <2>1. faults < MaxFaults /\ faults' = faults + 1
    BY <1>9 DEF Crash
  <2>2. faults' \in 0..MaxFaults
    BY <1>a, <2>1 DEF Typed
  <2>3. /\ UNCHANGED <<plugin, live, base, doc, mode, plan, stale, drift, applies>>
        /\ pc' = "idle" /\ outcome' = "crashed"
    BY <1>9 DEF Crash, End
  <2> QED BY <2>2, <2>3 DEF Typed
<1>10. ASSUME NEW n \in Nodes, Drift(n) PROVE Typed'
  <2>1. drift' \in 0..MaxDrift
    <3>1. drift < MaxDrift /\ drift' = drift + 1
      BY <1>10, DriftFacts
    <3> QED BY <1>a, <3>1 DEF Typed
  <2>2. /\ live' \in [Nodes -> LiveNode] /\ stale' = TRUE
        /\ UNCHANGED <<plugin, base, doc, mode, pc, plan, outcome, faults, applies>>
    BY <1>10, DriftFacts
  <2> QED BY <2>1, <2>2 DEF Typed
<1> QED BY <1>1, <1>2, <1>3, <1>4, <1>5, <1>6, <1>7, <1>8, <1>9, <1>10 DEF Next

\* A plan that is not refused outright plans for each node what the document changed and nobody
\* else did.
LEMMA PlannedWell ==
    ASSUME Typed, ~PlanError, plan' = MakePlan,
           UNCHANGED <<plugin, live, base, doc>>
    PROVE  /\ plan'.snap \in [Nodes -> LiveNode]
           /\ plan'.writes = PlannedWrites
           /\ \A w \in plan'.writes :
                 \E n \in Nodes, kind \in {"atoms", "move", "field"} : w = Write(kind, n)
           /\ \A n \in Nodes : NodeFacts(n)'
<1>1. /\ plan'.snap = live /\ plan'.writes = PlannedWrites
      /\ plan'.tags = [n \in Nodes |-> IF Present(n) THEN FoldTags(n) ELSE {}]
  BY DEF MakePlan
<1>2. \A w \in PlannedWrites :
         \E n \in Nodes, kind \in {"atoms", "move", "field"} : w = Write(kind, n)
  BY DEF PlannedWrites
<1>3. ASSUME NEW n \in Nodes PROVE NodeFacts(n)'
  <2>1. /\ Write("atoms", n) \in PlannedWrites <=> AtomEdit(n)
        /\ Write("move", n) \in PlannedWrites <=> Moved(n) /\ ~ClearRefused(n)
        /\ Write("field", n) \in PlannedWrites <=> FieldEdit(n)
    BY DEF PlannedWrites, Write
  <2>2. ~MoveConflict(n) /\ ~FieldConflict(n) /\ ~Collision(n)
    BY DEF PlanError
  <2>3. /\ Moved(n)' <=> Moved(n)
        /\ ClearRefused(n)' <=> ClearRefused(n)
        /\ Changed(n, "time")' <=> Changed(n, "time")
        /\ Changed(n, "tags")' <=> Changed(n, "tags")
        /\ Present(n)' <=> Present(n)
    BY DEF Moved, ClearRefused, Changed, Present
  <2>4. Moved(n) => live[n].listed /\ live[n].bucket = base[n].bucket
    BY <2>2 DEF MoveConflict, MoveDrifted, Typed, LiveNode
  <2>5. FieldEdit(n) <=> Changed(n, "time") /\ live[n].listed /\ plugin.clock
                         /\ live[n].time # doc.lines[n].time
    BY DEF FieldEdit, FieldTouched
  <2>6. FieldEdit(n) => live[n].time = base[n].time /\ ~(Moved(n) /\ ~ClearRefused(n))
    BY <2>2 DEF FieldEdit, FieldConflict, Collision
  <2>7. Present(n) => plan'.tags[n] = FoldTags(n)
    BY <1>1
  <2>8. AtomEdit(n) <=> Changed(n, "tags") /\ live[n].listed /\ plan'.tags[n] # live[n].tags
    BY <2>7 DEF AtomEdit, Changed
  <2>9. Present(n) => plan'.tags[n] = (live[n].tags \ (base[n].tags \ doc.lines[n].tags))
                                         \cup (doc.lines[n].tags \ base[n].tags)
    BY <2>7 DEF FoldTags
  <2> QED BY <1>1, <2>1, <2>3, <2>4, <2>5, <2>6, <2>8, <2>9 DEF NodeFacts
<1> QED BY <1>1, <1>2, <1>3 DEF Typed


\* The plan stays as it is while the apply is under way, but for the creations that are made.
LEMMA PlanStays ==
    ASSUME Creating, PlanFacts, pc # "idle", Next
    PROVE  /\ plan'.snap = plan.snap /\ plan'.writes = plan.writes /\ plan'.tags = plan.tags
           /\ UNCHANGED <<plugin, base, mode>> /\ doc'.lines = doc.lines
           /\ \A n \in Nodes : NodeFacts(n)' <=> NodeFacts(n)
           /\ \A n \in Nodes, a \in Attributes : Merged(n, a)' = Merged(n, a)
<1>1. plan' = plan \/ \E c \in plan.creations : Record(c)
  BY DEF Next, Apply, ResolveRefusals, ReviewGate, Create, StartWrites, WriteOne, Commit,
     Crash, Drift
<1>2. plan'.snap = plan.snap /\ plan'.writes = plan.writes /\ plan'.tags = plan.tags
  BY <1>1, RecordFacts DEF Creating, Typed
<1>3. UNCHANGED <<plugin, base, mode>>
  BY DEF Next, Apply, ResolveRefusals, ReviewGate, Create, Record, StartWrites, WriteOne, Commit,
     Crash, Drift
<1>4. doc'.lines = doc.lines
  BY StepKinds, FailFacts DEF Creating
<1>5. \A n \in Nodes : NodeFacts(n)' <=> NodeFacts(n)
  BY <1>2, <1>3, <1>4 DEF NodeFacts, Moved, Changed, Present, ClearRefused
<1>6. \A n \in Nodes, a \in Attributes : Merged(n, a)' = Merged(n, a)
  BY <1>2, <1>3, <1>4 DEF Merged, Touched, Moved, Changed, Present, ClearRefused
<1> QED BY <1>2, <1>3, <1>4, <1>5, <1>6

LEMMA PlanFactsKept ==
    ASSUME Creating, PlanFacts, Next
    PROVE  PlanFacts'
<1>1. CASE pc' = "idle"
  BY <1>1 DEF PlanFacts
<1>2. CASE pc = "idle" /\ pc' # "idle"
  <2>1. /\ ~PlanError /\ plan' = MakePlan /\ todo' = PlannedWrites
        /\ pc' \in {"refusals", "gate"} /\ landed' = {}
        /\ UNCHANGED <<plugin, live, base, doc>>
    BY <1>2, UnderWayKinds, RecordFacts DEF Creating
  <2>2. /\ plan'.snap \in [Nodes -> LiveNode] /\ plan'.writes = PlannedWrites
        /\ \A w \in plan'.writes :
              \E n \in Nodes, kind \in {"atoms", "move", "field"} : w = Write(kind, n)
        /\ \A n \in Nodes : NodeFacts(n)'
    BY <2>1, PlannedWell DEF Creating
  <2> QED BY <2>1, <2>2 DEF PlanFacts
<1>3. CASE pc # "idle" /\ pc' # "idle"
  <2>1. /\ plan'.snap = plan.snap /\ plan'.writes = plan.writes /\ mode' = mode
        /\ \A n \in Nodes : NodeFacts(n)'
    BY <1>3, PlanStays DEF PlanFacts
  <2>2. todo' \subseteq todo
    BY <1>3 DEF Next, Apply, ResolveRefusals, ReviewGate, Create, Record, StartWrites, WriteOne,
       Commit, Crash, Drift
  <2>3. pc' \in {"refusals", "gate"} => /\ pc \in {"refusals", "gate"}
                                        /\ todo' = todo /\ landed' = landed
    BY <1>3 DEF Next, Apply, ResolveRefusals, ReviewGate, Create, Record, Fail, End, StartWrites,
       WriteOne, Commit, Crash, Drift
  <2>4. pc' \in {"create", "record", "write"} => mode.commit
    <3>1. CASE ReviewGate
      BY <3>1 DEF ReviewGate, End, DryRun
    <3>2. CASE ~ReviewGate
      <4>1. pc' \in {"create", "record", "write"} => pc \in {"create", "record", "write"}
        BY <1>3, <3>2 DEF Next, Apply, ResolveRefusals, Create, Record, Fail, End, StartWrites,
           CreationsDone, WriteOne, Commit, Crash, Drift
      <4> QED BY <1>3, <4>1 DEF PlanFacts
    <3> QED BY <3>1, <3>2
  <2> QED BY <1>3, <2>1, <2>2, <2>3, <2>4 DEF PlanFacts
<1> QED BY <1>1, <1>2, <1>3

\* A write that is made is the next one of its node.
LEMMA WriteKept ==
    ASSUME Typed, PlanFacts, Exact, pc = "write", ~stale, NEW w \in todo,
           live' = [live EXCEPT ![w.n] = Patched(w)]
    PROVE  \A m \in Nodes :
              /\ live'[m].listed = plan.snap[m].listed
              /\ live'[m].bucket = IF Write("move", m) \in plan.writes \ (todo \ {w})
                               THEN doc.lines[m].bucket ELSE plan.snap[m].bucket
              /\ live'[m].time = IF Write("field", m) \in plan.writes \ (todo \ {w})
                             THEN doc.lines[m].time ELSE plan.snap[m].time
              /\ live'[m].tags = IF Write("atoms", m) \in plan.writes \ (todo \ {w})
                             THEN plan.tags[m] ELSE plan.snap[m].tags
<1>1. PICK n \in Nodes, kind \in {"atoms", "move", "field"} :
              /\ w = Write(kind, n) /\ w \in plan.writes /\ w.n = n
              /\ Patched(w) \in LiveNode
              /\ Patched(w).listed = live[n].listed
              /\ Patched(w).bucket = CASE kind = "atoms" -> live[n].bucket
                                       [] kind = "move" -> doc.lines[n].bucket
                                       [] kind = "field" -> plan.snap[n].bucket
              /\ Patched(w).time = CASE kind = "atoms" -> live[n].time
                                     [] kind = "move" -> plan.snap[n].time
                                     [] kind = "field" -> doc.lines[n].time
              /\ Patched(w).tags = IF kind = "atoms" THEN plan.tags[n] ELSE live[n].tags
  BY PatchFacts
<1>2. live \in [Nodes -> LiveNode]
  BY DEF Typed
<1>3. ASSUME NEW m \in Nodes
      PROVE  /\ live[m].listed = plan.snap[m].listed
             /\ live[m].bucket = IF Write("move", m) \in plan.writes \ todo
                                 THEN doc.lines[m].bucket ELSE plan.snap[m].bucket
             /\ live[m].time = IF Write("field", m) \in plan.writes \ todo
                               THEN doc.lines[m].time ELSE plan.snap[m].time
             /\ live[m].tags = IF Write("atoms", m) \in plan.writes \ todo
                               THEN plan.tags[m] ELSE plan.snap[m].tags
  BY DEF Exact, Written
<1>4. ASSUME NEW m \in Nodes, NEW k, Write(k, m) # w
      PROVE  Write(k, m) \in plan.writes \ (todo \ {w}) <=> Write(k, m) \in plan.writes \ todo
  BY <1>4
<1>5. ASSUME NEW m \in Nodes, NEW k, Write(k, m) = w PROVE k = kind /\ m = n
  BY <1>1, <1>5 DEF Write
<1>6. ASSUME NEW m \in Nodes, m # n
      PROVE  /\ live'[m].listed = plan.snap[m].listed
             /\ live'[m].bucket = IF Write("move", m) \in plan.writes \ (todo \ {w})
                              THEN doc.lines[m].bucket ELSE plan.snap[m].bucket
             /\ live'[m].time = IF Write("field", m) \in plan.writes \ (todo \ {w})
                            THEN doc.lines[m].time ELSE plan.snap[m].time
             /\ live'[m].tags = IF Write("atoms", m) \in plan.writes \ (todo \ {w})
                            THEN plan.tags[m] ELSE plan.snap[m].tags
  <2>1. live'[m] = live[m]
    BY <1>1, <1>2, <1>6
  <2> QED BY <2>1, <1>3, <1>4, <1>5, <1>6
<1>7. live'[n] = Patched(w)
  BY <1>1, <1>2
<1>8. w \in plan.writes \ (todo \ {w})
  BY <1>1
<1>9. NodeFacts(n)
  BY DEF PlanFacts
<1>10. CASE kind = "atoms"
  <2>1. Write("move", n) # w /\ Write("field", n) # w /\ Write("atoms", n) = w
    BY <1>1, <1>5, <1>10
  <2> QED BY <1>1, <1>3, <1>4, <1>6, <1>7, <1>8, <1>10, <2>1
<1>11. CASE kind = "move"
  <2>1. Write("move", n) = w /\ Write("field", n) # w /\ Write("atoms", n) # w
    BY <1>1, <1>5, <1>11
  <2>2. Write("field", n) \notin plan.writes
    BY <1>1, <1>9, <2>1 DEF NodeFacts
  <2> QED BY <1>1, <1>3, <1>4, <1>6, <1>7, <1>8, <1>11, <2>1, <2>2
<1>12. CASE kind = "field"
  <2>1. Write("move", n) # w /\ Write("field", n) = w /\ Write("atoms", n) # w
    BY <1>1, <1>5, <1>12
  <2>2. Write("move", n) \notin plan.writes
    BY <1>1, <1>9, <2>1 DEF NodeFacts
  <2> QED BY <1>1, <1>3, <1>4, <1>6, <1>7, <1>8, <1>12, <2>1, <2>2
<1> QED BY <1>10, <1>11, <1>12

LEMMA ExactKept ==
    ASSUME Creating, PlanFacts, Exact, Next
    PROVE  Exact'
<1>1. CASE pc' = "idle" \/ stale'
  BY <1>1 DEF Exact
<1>2. CASE pc = "idle" /\ pc' # "idle"
  <2>1. /\ ~PlanError /\ plan' = MakePlan /\ todo' = PlannedWrites /\ live' = live
    BY <1>2, UnderWayKinds, RecordFacts DEF Creating
  <2>2. plan'.snap = live' /\ plan'.writes = todo'
    BY <2>1 DEF MakePlan
  <2>3. \A kind, n : ~Written(kind, n)'
    BY <2>2 DEF Written
  <2> HIDE <1>2
  <2> QED BY <2>2, <2>3 DEF Exact
<1>3. CASE pc # "idle" /\ pc' # "idle" /\ ~stale'
  <2>1. /\ plan'.snap = plan.snap /\ plan'.writes = plan.writes /\ plan'.tags = plan.tags
        /\ doc'.lines = doc.lines
    BY <1>3, PlanStays
  <2>2. CASE live' = live /\ todo' = todo /\ stale' = stale
    BY <1>3, <2>1, <2>2 DEF Exact, Written
  <2>3. ASSUME NEW w \in todo, WriteOne(w) PROVE Exact'
    <3>1. /\ pc = "write" /\ ~stale /\ todo' = todo \ {w}
          /\ live' = [live EXCEPT ![w.n] = Patched(w)]
      BY <1>3, <2>3, WriteFacts DEF Fail, End, Creating
    <3>2. \A m \in Nodes :
              /\ live'[m].listed = plan.snap[m].listed
              /\ live'[m].bucket = IF Write("move", m) \in plan.writes \ (todo \ {w})
                                   THEN doc.lines[m].bucket ELSE plan.snap[m].bucket
              /\ live'[m].time = IF Write("field", m) \in plan.writes \ (todo \ {w})
                                 THEN doc.lines[m].time ELSE plan.snap[m].time
              /\ live'[m].tags = IF Write("atoms", m) \in plan.writes \ (todo \ {w})
                                 THEN plan.tags[m] ELSE plan.snap[m].tags
      <4>1. Typed /\ pc = "write" /\ ~stale /\ live' = [live EXCEPT ![w.n] = Patched(w)]
        BY <3>1 DEF Creating
      <4> QED BY <4>1, WriteKept
    <3> QED BY <2>1, <3>1, <3>2 DEF Exact, Written
  <2>4. \/ live' = live /\ todo' = todo /\ stale' = stale
        \/ \E w \in todo : WriteOne(w)
    BY <1>3 DEF Next, Apply, ResolveRefusals, ReviewGate, Create, Record, StartWrites, Commit,
       Crash, Drift
  <2> QED BY <2>2, <2>3, <2>4
<1> QED BY <1>1, <1>2, <1>3


(***************************************************************************)
(* What an apply leaves behind.                                            *)
(***************************************************************************)

\* An apply ends in one of these ways.
LEMMA EndKinds ==
    ASSUME Typed, Next, pc' = "idle"
    PROVE  \/ /\ pc = "idle" /\ PlanError /\ landed' = {} /\ plan' = NoPlan
              /\ outcome' = "refused"
           \/ \E n \in Nodes : pc = "idle" /\ Drift(n)
           \/ /\ pc \in {"refusals", "gate"}
              /\ UNCHANGED <<live, landed, stale>>
              /\ outcome' \in {"refused", "nothing", "dryrun", "declined", "crashed"}
           \/ /\ \E c \in plan.creations : Create(c)
              /\ pc = "create" /\ UNCHANGED <<live, stale>> /\ outcome' = "failed"
           \/ \E w \in todo : WriteOne(w)
           \/ /\ pc = "write" /\ todo = {} /\ UNCHANGED <<live, stale>>
              /\ outcome' = "committed"
           \/ /\ pc \in {"create", "record", "write"} /\ UNCHANGED <<live, stale>>
              /\ outcome' = "crashed"
<1>1. CASE Crash
  <2>1. /\ pc # "idle" /\ UNCHANGED <<live, landed, stale>> /\ outcome' = "crashed"
    BY <1>1 DEF Crash, End
  <2> QED BY <2>1 DEF Typed
<1>2. CASE ~Crash
  BY <1>2 DEF Next, Apply, End, ResolveRefusals, ReviewGate, Create, Record, Fail, StartWrites,
     Commit, Drift
<1> QED BY <1>1, <1>2


LEMMA MergeKept ==
    ASSUME Creating, PlanFacts, Exact, CommitIsMerge, Next
    PROVE  CommitIsMerge'
<1>1. CASE pc' # "idle" \/ outcome' # "committed" \/ stale'
  BY <1>1 DEF CommitIsMerge
<1>2. CASE pc' = "idle" /\ outcome' = "committed" /\ ~stale'
  <2>1. pc = "write" /\ todo = {} /\ UNCHANGED <<live, stale>>
    <3>1. \A n \in Nodes : Drift(n) => stale'
      BY DriftFacts DEF Creating
    <3>2. \A w \in todo : WriteOne(w) => pc = "write" /\ (pc' = pc \/ outcome' = "failed")
      BY DEF WriteOne, Fail, End
    <3> QED BY <1>2, <3>1, <3>2, EndKinds DEF Creating
  <2>2. \A n \in Nodes, a \in Attributes : live[n][a] = Merged(n, a)
    BY <1>2, <2>1, AllWritten DEF Creating
  <2>3. \A n \in Nodes, a \in Attributes : Merged(n, a)' = Merged(n, a)
    BY <2>1, PlanStays
  <2> QED BY <2>1, <2>2, <2>3 DEF CommitIsMerge
<1> QED BY <1>1, <1>2


LEMMA NothingElseKept ==
    ASSUME Creating, PlanFacts, Exact, NothingElseWritten, Next, Typed', PlanFacts', Exact'
    PROVE  NothingElseWritten'
<1>1. CASE pc' # "idle"
  <2>1. (Typed /\ PlanFacts /\ Exact /\ pc # "idle" => NothingElseWritten)'
    BY UnderWay, PTL
  <2> QED BY <1>1, <2>1
<1>2. CASE pc' = "idle" /\ pc = "idle"
  <2>1. CASE landed' = {} /\ plan' = NoPlan
    BY <2>1 DEF NothingElseWritten, PreviewIsInert
  <2>2. ASSUME NEW n \in Nodes, Drift(n) PROVE NothingElseWritten'
    <3>1. stale' /\ UNCHANGED <<mode, outcome, pc, landed>>
      BY <2>2, DriftFacts DEF Creating
    <3> QED BY <3>1 DEF NothingElseWritten, PreviewIsInert
  <2>3. ~ \E w \in todo : WriteOne(w)
    BY <1>2 DEF WriteOne
  <2>4. ~ \E c \in plan.creations : Create(c)
    BY <1>2 DEF Create
  <2> QED BY <1>2, <2>1, <2>2, <2>3, <2>4, EndKinds DEF Creating
<1>3. CASE pc' = "idle" /\ pc # "idle"
  <2>1. /\ plan'.snap = plan.snap /\ UNCHANGED <<base, mode>>
        /\ \A n \in Nodes, a \in Attributes : Merged(n, a)' = Merged(n, a)
    BY <1>3, PlanStays
  <2>2. plan' = plan
    BY <1>3 DEF Next, Apply, ResolveRefusals, ReviewGate, Create, Record, StartWrites, WriteOne,
       Commit, Crash, Drift
  <2>3. PreviewIsInert'
    <3>1. ASSUME ~mode.commit \/ outcome' \in {"refused", "declined", "nothing"}
          PROVE  pc \in {"refusals", "gate"}
      <4>1. CASE ~mode.commit
        BY <1>3, <4>1 DEF PlanFacts, Creating, Typed
      <4>2. CASE outcome' \in {"refused", "declined", "nothing"}
        <5>1. \A w \in todo : WriteOne(w) => outcome' = "failed"
          BY <1>3 DEF WriteOne, Fail, End
        <5> QED BY <1>3, <4>2, <5>1, EndKinds DEF Creating
      <4> QED BY <3>1, <4>1, <4>2
    <3>2. ASSUME pc \in {"refusals", "gate"}
          PROVE  landed' = {} /\ (~stale' => live' = plan.snap)
      <4>1. UNCHANGED <<live, landed, stale>>
        <5>1. ~ \E w \in todo : WriteOne(w)
          BY <3>2 DEF WriteOne
        <5> QED BY <1>3, <3>2, <5>1, EndKinds DEF Creating
      <4> QED BY <3>2, <4>1, Gated DEF Creating
    <3> QED BY <2>1, <3>1, <3>2 DEF PreviewIsInert
  <2>4. ASSUME ~stale', NEW n \in Nodes
        PROVE  \A a \in Attributes :
                  /\ live'[n][a] \in {plan.snap[n][a], Merged(n, a)}
                  /\ (live'[n][a] # plan.snap[n][a] /\ a # "tags")
                        => plan.snap[n][a] = base[n][a]
    <3>1. CASE live' = live /\ stale' = stale
      <4>1. NothingElseWritten
        OBVIOUS
      <4>2. plan # NoPlan
        <5>1. plan.snap \in [Nodes -> LiveNode]
          BY <1>3 DEF PlanFacts
        <5> QED BY <5>1 DEF NoPlan
      <4> QED BY <2>4, <3>1, <4>1, <4>2 DEF NothingElseWritten
    <3>2. ASSUME NEW w \in todo, WriteOne(w)
          PROVE  \A a \in Attributes :
                  /\ live'[n][a] \in {plan.snap[n][a], Merged(n, a)}
                  /\ (live'[n][a] # plan.snap[n][a] /\ a # "tags")
                        => plan.snap[n][a] = base[n][a]
      <4>1. pc = "write" /\ stale' = stale
        BY <3>2, WriteFacts DEF Creating
      <4>2. CASE live' = live
        BY <3>1, <4>1, <4>2
      <4>3. CASE live' = [live EXCEPT ![w.n] = Patched(w)]
        <5>1. Typed /\ ~stale
          BY <2>4, <4>1 DEF Creating
        <5>2. PICK x : x = live'[n]
          OBVIOUS
        <5>3. /\ x.bucket = IF Write("move", n) \in plan.writes \ (todo \ {w})
                            THEN doc.lines[n].bucket ELSE plan.snap[n].bucket
              /\ x.time = IF Write("field", n) \in plan.writes \ (todo \ {w})
                          THEN doc.lines[n].time ELSE plan.snap[n].time
              /\ x.tags = IF Write("atoms", n) \in plan.writes \ (todo \ {w})
                          THEN plan.tags[n] ELSE plan.snap[n].tags
          BY <4>1, <4>3, <5>1, <5>2, WriteKept
        <5>4. /\ \/ x.bucket = plan.snap[n].bucket
                 \/ x.bucket = doc.lines[n].bucket /\ Write("move", n) \in plan.writes
              /\ \/ x.time = plan.snap[n].time
                 \/ x.time = doc.lines[n].time /\ Write("field", n) \in plan.writes
              /\ \/ x.tags = plan.snap[n].tags
                 \/ x.tags = plan.tags[n] /\ Write("atoms", n) \in plan.writes
          BY <5>3
        <5>5. \A a \in Attributes :
                 /\ x[a] \in {plan.snap[n][a], Merged(n, a)}
                 /\ (x[a] # plan.snap[n][a] /\ a # "tags") => plan.snap[n][a] = base[n][a]
          BY <1>3, <5>1, <5>4, PlannedOrMerged
        <5> QED BY <5>2, <5>5
      <4> QED BY <3>2, <4>2, <4>3, WriteFacts DEF Creating
    <3> QED BY <1>3, <3>1, <3>2, EndKinds DEF Creating
  <2> QED BY <2>1, <2>3, <2>4 DEF NothingElseWritten
<1> QED BY <1>1, <1>2, <1>3


(***************************************************************************)
(* The invariant is inductive.                                             *)
(***************************************************************************)

LEMMA InitHolds ==
    ASSUME Init
    PROVE  IInv
<1>1. PICK lines \in [Nodes -> Line \cup {Deleted}], boxes \in BoxLists, typed \in BOOLEAN :
         doc = [lines |-> lines, boxes |-> [i \in DOMAIN boxes |-> Box(boxes[i])],
                typed |-> typed]
  BY DEF Init
<1>2. boxes \in Seq([name : STRING, text : STRING])
  BY ConstantsAssumption
<1>3. /\ pc = "idle" /\ plan = NoPlan /\ todo = {} /\ objects = <<>> /\ ledger = {}
      /\ landed = {} /\ outcome = "none" /\ stale = FALSE /\ drift = 0 /\ faults = 0
      /\ applies = 0 /\ mode = [commit |-> FALSE, interactive |-> FALSE]
      /\ plugin \in Plugins /\ base = Listing
      /\ live = [n \in Nodes |->
                   [bucket |-> base[n].bucket, time |-> base[n].time,
                    tags |-> base[n].tags, listed |-> TRUE]]
  BY DEF Init
<1>4. doc.boxes \in Seq(BoxType) /\ \A i \in DOMAIN doc.boxes : doc.boxes[i].id = 0
  <2>1. doc.boxes = [i \in 1..Len(boxes) |-> Box(boxes[i])] /\ Len(boxes) \in Nat
    BY <1>1, <1>2
  <2>2. ASSUME NEW i \in 1..Len(boxes) PROVE Box(boxes[i]) \in BoxType /\ Box(boxes[i]).id = 0
    <3>1. boxes[i] \in [name : STRING, text : STRING]
      BY <1>2, <2>2, ElementOfSeq
    <3> QED BY <3>1 DEF Box, BoxType
  <2>3. [i \in 1..Len(boxes) |-> Box(boxes[i])] \in Seq(BoxType)
    BY <2>1, <2>2
  <2> QED BY <2>1, <2>2, <2>3
<1>5. Typed
  <2>1. live \in [Nodes -> LiveNode]
    <3>1. ASSUME NEW n \in Nodes
          PROVE  [bucket |-> base[n].bucket, time |-> base[n].time,
                  tags |-> base[n].tags, listed |-> TRUE] \in LiveNode
      BY <1>3, ConstantsAssumption DEF Line, LiveNode
    <3> QED BY <1>3, <3>1
  <2>2. /\ doc = [lines |-> doc.lines, boxes |-> doc.boxes, typed |-> doc.typed]
        /\ doc.lines \in [Nodes -> Line \cup {Deleted}]
    BY <1>1
  <2>3. plan = [creations |-> plan.creations, writes |-> plan.writes,
                refused |-> plan.refused, tags |-> plan.tags, snap |-> plan.snap]
    BY <1>3 DEF NoPlan
  <2>4. drift \in 0..MaxDrift /\ faults \in 0..MaxFaults /\ applies \in 0..MaxApplies
    BY <1>3, ConstantsAssumption
  <2>5. plugin \in Plugins /\ mode \in [commit : BOOLEAN, interactive : BOOLEAN]
    BY <1>3, ConstantsAssumption
  <2> QED BY <1>3, <2>1, <2>2, <2>3, <2>4, <2>5 DEF Typed
<1>6. BoxesTyped
  BY <1>4 DEF BoxesTyped
<1>7. objects \in Seq(ObjectType) /\ DOMAIN objects = {}
  <2>1. <<>> \in Seq(ObjectType)
    OBVIOUS
  <2> QED BY <1>3, <2>1
<1>8. ObjectsSound /\ LedgerSound /\ CreatedOnce
  BY <1>3, <1>4, <1>7 DEF ObjectsSound, LedgerSound, CreatedOnce
<1>9. CreationsSound /\ ObjectsKnown /\ PlanFacts /\ Exact
  BY <1>3, <1>7 DEF CreationsSound, ObjectsKnown, PlanFacts, Exact
<1>10. CommitIsMerge /\ BoxesExist /\ NothingElseWritten
  BY <1>3 DEF CommitIsMerge, BoxesExist, NothingElseWritten, PreviewIsInert
<1> QED BY <1>5, <1>6, <1>8, <1>9, <1>10 DEF IInv

LEMMA NextHolds ==
    ASSUME IInv, Next
    PROVE  IInv'
<1>1. Creating /\ PlanFacts /\ Exact
  BY DEF IInv, Creating
<1>2. Typed' /\ PlanFacts' /\ Exact'
  BY <1>1, TypedKept, PlanFactsKept, ExactKept
<1>3. BoxesTyped' /\ ObjectsSound' /\ LedgerSound' /\ CreationsSound' /\ ObjectsKnown'
  BY <1>1, TextsStay, ObjectsKept, LedgerKept, CreationsKept, KnownKept
<1>4. CommitIsMerge' /\ NothingElseWritten'
  BY <1>1, <1>2, MergeKept, NothingElseKept DEF IInv
<1>5. CreatedOnce' /\ BoxesExist'
  BY <1>1, OnceKept, ExistKept DEF IInv
<1> QED BY <1>2, <1>3, <1>4, <1>5 DEF IInv

LEMMA IdleHolds ==
    ASSUME IInv, UNCHANGED vars
    PROVE  IInv'
<1> USE DEF vars
<1>1. Typed' /\ BoxesTyped'
  BY DEF IInv, Typed, BoxesTyped
<1>2. ObjectsSound' /\ LedgerSound' /\ CreatedOnce'
  BY DEF IInv, ObjectsSound, LedgerSound, CreatedOnce
<1>3. CreationsSound'
  BY DEF IInv, CreationsSound, Recorded
<1>4. ObjectsKnown'
  BY DEF IInv, ObjectsKnown, Recorded, Due
<1>5. PlanFacts'
  BY DEF IInv, PlanFacts, NodeFacts, Moved, Changed, Present, ClearRefused
<1>6. Exact'
  BY DEF IInv, Exact, Written
<1>7. CommitIsMerge' /\ NothingElseWritten' /\ BoxesExist'
  <2>1. \A n \in Nodes, a \in Attributes : Merged(n, a)' = Merged(n, a)
    BY DEF Merged, Touched, Moved, Changed, Present, ClearRefused
  <2> QED BY <2>1 DEF IInv, CommitIsMerge, NothingElseWritten, PreviewIsInert, BoxesExist
<1> QED BY <1>1, <1>2, <1>3, <1>4, <1>5, <1>6, <1>7 DEF IInv

(***************************************************************************)
(* Theorems.                                                               *)
(***************************************************************************)

\* Whatever the document, the plugin and the other clients, and wherever applies fail or die, the
\* invariant holds in every state.
THEOREM InvariantHolds == Spec => []IInv
<1>1. Init => IInv
  BY InitHolds
<1>2. IInv /\ [Next]_vars => IInv'
  BY NextHolds, IdleHolds
<1> QED BY <1>1, <1>2, PTL DEF Spec

\* Every state is well typed, and what the ledger records, or an apply has landed, is an object
\* with its key.
THEOREM TypeCorrect == Spec => []TypeOK
<1>1. IInv => TypeOK
  <2> SUFFICES ASSUME IInv PROVE TypeOK
    OBVIOUS
  <2>1. Typed /\ LedgerSound
    BY DEF IInv
  <2>2. base \in [Nodes -> Line]
    BY <2>1, ConstantsAssumption DEF Typed
  <2>3. live \in [Nodes -> [bucket : Buckets \cup {NoValue}, time : Times,
                           tags : SUBSET Tags, listed : BOOLEAN]]
    BY <2>1 DEF Typed, LiveNode
  <2>4. /\ \A e \in ledger : e.id \in DOMAIN objects /\ objects[e.id].key = e.key
        /\ \A l \in landed : l.id \in DOMAIN objects /\ objects[l.id].key = l.key
    BY <2>1 DEF LedgerSound
  <2>5. /\ plugin \in Plugins /\ mode \in [commit : BOOLEAN, interactive : BOOLEAN]
        /\ pc \in {"idle", "refusals", "gate", "create", "record", "write"}
        /\ outcome \in {"none", "refused", "declined", "dryrun", "nothing", "failed",
                        "crashed", "committed"}
        /\ stale \in BOOLEAN
        /\ drift \in 0..MaxDrift /\ faults \in 0..MaxFaults /\ applies \in 0..MaxApplies
    BY <2>1 DEF Typed
  <2> QED BY <2>2, <2>3, <2>4, <2>5 DEF TypeOK
<1> QED BY <1>1, InvariantHolds, PTL

\* A committed apply leaves every node, of however many, at the three-way merge of its line, the
\* base and the node as it was planned (applyEdited, executePlan, executeFieldEdits).
THEOREM CommitsAreMerges == Spec => []CommitIsMerge
<1>1. IInv => CommitIsMerge
  BY DEF IInv
<1> QED BY <1>1, InvariantHolds, PTL

\* A preview, a refused, declined, failed or dead apply leaves every attribute as it was or merged,
\* and writes over nobody's value (reviewGate, the planners' drift checks).
THEOREM NothingElseIsWritten == Spec => []NothingElseWritten
<1>1. IInv => NothingElseWritten
  BY DEF IInv
<1> QED BY <1>1, InvariantHolds, PTL

\* Through failed and repeated applies of any document no box is created twice, unless the record
\* of the first object was lost and the plugin cannot find its key, and once an apply has gone
\* through every box has its object, twins one each; only the twin of a box that was rewritten
\* alone may go without (executeCreations, the ledger, creationLedgerKeys).
THEOREM BoxesAreCreatedOnce == Spec => []BoxesCreatedOnce
<1>1. IInv => BoxesCreatedOnce
  BY DEF IInv, BoxesCreatedOnce
<1> QED BY <1>1, InvariantHolds, PTL

=============================================================================
