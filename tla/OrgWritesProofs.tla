-------------------------- MODULE OrgWritesProofs --------------------------
(***************************************************************************)
(* Proofs about OrgWrites, for any number of files, processes, operations, *)
(* syncs and faults.                                                       *)
(*                                                                         *)
(* A PUT is accepted if its sender's lock is still there, however long ago *)
(* it was made.  A lock is granted to an operation once, so as long as it  *)
(* is there the file is as the operation read it (Pending).  The rest is   *)
(* about where contents can come from: what is in a file, in Orgzly's copy *)
(* or on its way was made of what is in the files by the operations that   *)
(* landed, and at most the one whose PUT it is (Sound).                    *)
(***************************************************************************)
EXTENDS OrgWrites, FiniteSetTheorems, SequenceTheorems, TLAPS

-----------------------------------------------------------------------------
(* Types.                                                                   *)

Tokens  == Procs \X Nat
Names   == (Procs \cup {"orgzly"}) \X Nat
Entry   == [id : STRING, title : {"old", "new"}, marks : Seq(Names)]
Content == Seq(Entry)
PutOf   == [file : Files, body : Content]
Wanted  == {NoOp} \cup [left : Nat] \cup [headline : Entry, body : BOOLEAN]

States  == {"idle", "lock", "getdst", "put", "reread", "unlock", "verify", "verifysrc"}
Process == [pc : States, op : Op \cup {NoOp}, n : Nat, toLock : Seq(Files),
            held : SUBSET Files, src : Content, puts : Seq(PutOf), wrote : BOOLEAN,
            error : Results \cup {""}, want : Wanted, checks : {0, 1}]

Typed ==
    /\ file \in [Files -> Content]
    /\ lock \in [Files -> Tokens \cup {Free}]
    /\ flight \subseteq [file : Files, body : Content, token : Tokens, id : STRING]
    /\ proc \in [Procs -> Process]
    /\ copy \in [Files -> {NoOp} \cup [body : Content]]
    /\ ended \subseteq [token : Tokens, op : Op, result : Results]
    /\ landed \subseteq [token : Tokens, file : Files, id : STRING]
    /\ syncs \in Nat

-----------------------------------------------------------------------------
(* The process.                                                             *)

Busy(p)  == proc[p].pc # "idle"
Sends(p) == proc[p].pc \in {"put", "reread"}

\* Where a process is in its operation.  Locks are taken in the order of the files.
PhaseOf(s) ==
    /\ s.pc = "idle" => s = [Idle EXCEPT !.n = s.n]
    /\ s.pc # "idle" => s.op \in Ops /\ s.n > 0
    /\ s.pc = "lock" =>
          /\ \A i, j \in DOMAIN s.toLock : i < j => s.toLock[i] < s.toLock[j]
          /\ \A h \in s.held : \A i \in DOMAIN s.toLock : h < s.toLock[i]
    /\ s.pc \in {"lock", "getdst"} => ~s.wrote /\ s.error = "" /\ s.puts = <<>>
    /\ s.pc = "getdst" => Crosses(s.op) /\ find(s.src, s.op.id) # 0
    /\ s.pc \in {"put", "reread"} =>
          /\ s.error = ""
          /\ Len(s.puts) = IF Crosses(s.op) /\ ~s.wrote THEN 2 ELSE 1
          /\ s.puts[Len(s.puts)].file = s.op.file
          /\ s.wrote => Crosses(s.op)
          /\ ~s.wrote =>
                /\ s.puts[1].file = s.op.dst
                /\ s.want = Want(s.puts[1].body, s.op)
                /\ s.op.kind # "delete" => find(s.puts[1].body, s.op.id) # 0
    /\ s.pc = "unlock" /\ s.error = "" => s.wrote
    /\ s.pc \in {"verify", "verifysrc"} => s.wrote /\ s.error = ""
    /\ s.pc = "unlock" /\ s.error = "both" => s.wrote /\ Crosses(s.op)
    /\ s.error \in {"refused", "unchanged"} => ~s.wrote
    /\ s.error \in {"", "refused", "unchanged", "unknown", "both"}

Phase(p) == PhaseOf(proc[p])

Phases == \A p \in Procs : Phase(p)

-----------------------------------------------------------------------------
(* Tokens and requests.                                                     *)

\* The files whose PUT process p has sent in its operation.
Sent(p) ==
    LET s == proc[p]
    IN CASE s.pc \in {"lock", "getdst"} -> {}
         [] s.pc = "put"    -> IF s.wrote THEN {s.op.dst} ELSE {}
         [] s.pc = "reread" -> IF s.wrote THEN {s.op.dst, s.op.file} ELSE {s.op.dst}
         [] OTHER -> IF s.error \in {"refused", "unchanged"} THEN {}
                     ELSE {s.op.dst, s.op.file}

\* A token was drawn, and stands for the operation its process is at or a past one.
Drawn(t) == t[2] \in 1..proc[t[1]].n

TokensSound ==
    /\ \A f \in Files : lock[f] # Free => Drawn(lock[f])
    /\ \A put \in flight : Drawn(put.token)
    /\ \A l \in landed : Drawn(l.token)
    /\ \A e \in ended : /\ Drawn(e.token) /\ e.op \in Ops
                        /\ \A p \in Procs : Busy(p) => e.token # Token(p)

\* What was sent under the token of an operation that is under way.
RequestsOf(p) ==
    /\ \A put \in flight : put.token = Token(p) =>
          /\ put.file \in Sent(p) /\ put.id = proc[p].op.id
          /\ put.file = proc[p].op.dst =>
                /\ proc[p].want = Want(put.body, proc[p].op)
                /\ proc[p].op.kind # "delete" => find(put.body, proc[p].op.id) # 0
    /\ \A l \in landed : l.token = Token(p) => l.file \in Sent(p)

RequestsSound == \A p \in Procs : Busy(p) => RequestsOf(p)

\* A file is written once under a token.
OneRequest ==
    \A put, other \in flight :
        put.token = other.token /\ put.file = other.file => put = other

-----------------------------------------------------------------------------
(* What a PUT that is accepted changes.                                     *)

\* Body is file f but for the headline of this id.
Keeps(f, body, id) == \A x \in STRING : x # id => Same(file[f], body, x)

\* The PUTs process p has not sent yet.
Unsent(p) == IF proc[p].pc = "put" THEN DOMAIN proc[p].puts
             ELSE IF proc[p].pc = "reread" THEN DOMAIN proc[p].puts \ {1}
             ELSE {}

PendingOf(p) ==
    /\ \A i \in Unsent(p) :
          LET put == proc[p].puts[i]
          IN lock[put.file] = Token(p) => Keeps(put.file, put.body, proc[p].op.id)
    /\ proc[p].pc = "getdst" /\ lock[proc[p].op.file] = Token(p) =>
          file[proc[p].op.file] = proc[p].src

Pending ==
    /\ \A put \in flight : Accepts(put) => Keeps(put.file, put.body, put.id)
    /\ \A p \in Procs : PendingOf(p)

-----------------------------------------------------------------------------
(* A headline is always somewhere.                                          *)

Has(content, id) == At(content, id) # {}

ListingIds == UNION {{Listing[f][i].id : i \in DOMAIN Listing[f]} : f \in Files}

\* A PUT that will be accepted takes x out of file g, or will be sent if the file the
\* other PUT is about stays as it is.
Threatens(p, g, x) ==
    /\ lock[g] = Token(p) /\ Sends(p)
    /\ \E i \in Unsent(p) :
          LET puts == proc[p].puts
          IN /\ puts[i].file = g /\ ~Has(puts[i].body, x)
             /\ i = 2 => file[puts[1].file] = puts[1].body

Threat(g, x) ==
    \/ \E put \in flight : put.file = g /\ Accepts(put) /\ ~Has(put.body, x)
    \/ \E p \in Procs : Threatens(p, g, x)

Somewhere(x) == \E g \in Files : Has(file[g], x) /\ ~Threat(g, x)

NoneLost == syncs = 0 => \A x \in ListingIds : Deleted(x) \/ Somewhere(x)

-----------------------------------------------------------------------------
(* Where contents come from.                                                *)

\* Content b is, under the token t, with a process; or in a file, in Orgzly's copy, or on
\* its way.
HeldBy(p, t, b) ==
    /\ t = Token(p)
    /\ \/ proc[p].pc = "getdst" /\ b = proc[p].src
       \/ Sends(p) /\ \E i \in DOMAIN proc[p].puts : b = proc[p].puts[i].body

Held(t, b) ==
    \/ /\ t = Free
       /\ \E f \in Files : b = file[f] \/ (copy[f] # NoOp /\ b = copy[f].body)
    \/ \E put \in flight : t = put.token /\ b = put.body
    \/ \E p \in Procs : HeldBy(p, t, b)

Captured == {op.id : op \in {o \in AskedOps : o.kind = "create"}}

\* An increment is there once, and its operation was asked for.
MarksSound(b) ==
    \A i \in DOMAIN b :
       /\ \A j, k \in DOMAIN b[i].marks : b[i].marks[j] = b[i].marks[k] => j = k
       /\ \A j \in DOMAIN b[i].marks :
             LET m == b[i].marks[j]
             IN IF m[1] = "orgzly" THEN m[2] < syncs ELSE m[2] <= proc[m[1]].n

\* A headline is of the listing or was captured, and then it is there once.
IdsSound(b) ==
    /\ \A i \in DOMAIN b : b[i].id \in ListingIds \cup Captured
    /\ \A i, j \in DOMAIN b :
          b[i].id = b[j].id /\ b[i].id \notin ListingIds /\ ~Moved(b[i].id) => i = j

\* Content b shows that the operation of p was carried out.
Marked(b, t) == \E i \in DOMAIN b : \E j \in DOMAIN b[i].marks : b[i].marks[j] = t

Shows(b, p) == \/ proc[p].op.kind = "create" /\ Has(b, proc[p].op.id)
               \/ Marked(b, Token(p))

Landed(p) == \E l \in landed : l.token = Token(p)

\* Only what p itself made shows its operation before a PUT of it landed.
Unseen(t, b) ==
    \A p \in Procs : Busy(p) /\ ~Landed(p) /\ t # Token(p) => ~Shows(b, p)

Sound(t, b) == MarksSound(b) /\ IdsSound(b) /\ Unseen(t, b)

ContentsSound ==
    \A t \in Tokens \cup {Free}, b \in Content : Held(t, b) => Sound(t, b)

\* Two captures do not share an id.
CapturesDistinct ==
    \A p, q \in Procs :
        Busy(p) /\ Busy(q) /\ proc[p].op.kind = "create" /\ proc[q].op.kind = "create"
            /\ proc[p].op.id = proc[q].op.id => p = q

\* The first PUT of an increment or a capture shows it; written, it has landed.
WritesShow ==
    \A p \in Procs :
        /\ Sends(p) /\ ~proc[p].wrote /\ proc[p].op.kind \in {"append", "create"} =>
              Shows(proc[p].puts[1].body, p)
        /\ Busy(p) /\ proc[p].wrote /\ proc[p].op.kind \in {"append", "create"} => Landed(p)

-----------------------------------------------------------------------------
(* What is reported.                                                        *)

Put2(f, id) == \E l \in landed : l.file = f /\ l.id = id

\* A file in which no PUT about a headline landed has as many of it as at first.
CountSound ==
    \A f \in Files, x \in STRING : ~Put2(f, x) =>
        /\ Occurrences(file[f], x) = Occurrences(Listing[f], x)
        /\ copy[f] # NoOp => Occurrences(copy[f].body, x) = Occurrences(Listing[f], x)

MovesSound ==
    \A p \in Procs : Busy(p) /\ Crosses(proc[p].op) =>
        LET op == proc[p].op
        IN Put2(op.dst, op.id)
           \/ /\ ~proc[p].wrote
              /\ Sends(p) => Occurrences(proc[p].puts[1].body, op.id)
                                # Occurrences(Listing[op.dst], op.id)

\* Another operation wrote the same headline, or Orgzly something.
Overtaken(token, id) == syncs > 0 \/ \E l \in landed : l.token # token /\ l.id = id

\* What was written is there.
WrittenHolds ==
    \A p \in Procs : Busy(p) /\ proc[p].wrote =>
        \/ Overtaken(Token(p), proc[p].op.id)
        \/ Holds(file[proc[p].op.dst], proc[p].op, proc[p].want)

ReportsSound ==
    /\ LostHasCause
    /\ \A e \in ended :
          /\ e.result \in {"refused", "unchanged"} =>
                LandedOf(e) = {} /\ \A put \in flight : put.token # e.token
          /\ e.result \in {"ok", "lost", "readback"} /\ e.op.kind \in {"append", "create"} =>
                LandedOf(e) # {}
          /\ e.result = "both" => Put2(e.op.dst, e.op.id)

IInv ==
    /\ Typed /\ Phases
    /\ TokensSound /\ RequestsSound /\ OneRequest /\ Pending
    /\ NoneLost
    /\ ContentsSound /\ CapturesDistinct /\ WritesShow
    /\ CountSound /\ MovesSound /\ WrittenHolds /\ ReportsSound


-----------------------------------------------------------------------------
(* Contents: their headlines by index.                                      *)

LEMMA ContentFacts ==
    ASSUME NEW c \in Content
    PROVE  /\ Len(c) \in Nat /\ DOMAIN c = 1..Len(c)
           /\ \A i \in 1..Len(c) : c[i] \in Entry
           /\ \A i \in 1..Len(c) : c[i].id \in STRING /\ c[i].marks \in Seq(Names)
<1>1. Len(c) \in Nat /\ DOMAIN c = 1..Len(c)
  BY LenProperties DEF Content
<1>2. \A i \in 1..Len(c) : c[i] \in Entry
  BY ElementOfSeq DEF Content
<1> QED BY <1>1, <1>2 DEF Entry

LEMMA AtFacts ==
    ASSUME NEW c \in Content, NEW x
    PROVE  /\ At(c, x) \subseteq 1..Len(c) /\ IsFiniteSet(At(c, x))
           /\ \A i \in At(c, x) : i \in Nat /\ c[i].id = x
           /\ Occurrences(c, x) \in Nat
<1>1. At(c, x) \subseteq 1..Len(c)
  BY ContentFacts DEF At
<1>2. IsFiniteSet(1..Len(c))
  BY ContentFacts, FS_Interval
<1>3. IsFiniteSet(At(c, x))
  BY <1>1, <1>2, FS_Subset
<1>4. Occurrences(c, x) \in Nat
  BY <1>3, FS_CardinalityType DEF Occurrences
<1>5. \A i \in At(c, x) : i \in Nat /\ c[i].id = x
  BY <1>1, ContentFacts DEF At
<1> QED BY <1>1, <1>3, <1>4, <1>5

\* find returns the first of them.
LEMMA FindFacts ==
    ASSUME NEW c \in Content, NEW x
    PROVE  /\ find(c, x) = 0 <=> At(c, x) = {}
           /\ At(c, x) # {} =>
                 /\ find(c, x) \in At(c, x)
                 /\ \A j \in At(c, x) : find(c, x) <= j
<1>1. At(c, x) \subseteq Nat /\ 0 \notin At(c, x)
  BY AtFacts, ContentFacts
<1>2. CASE At(c, x) = {}
  BY <1>2 DEF find
<1>3. CASE At(c, x) # {}
  <2>1. \E i \in At(c, x) : \A j \in At(c, x) : ~(<<j, i>> \in OpToRel(<, Nat))
    BY <1>1, <1>3, NatLessThanWellFounded, WFMin
  <2>2. PICK i \in At(c, x) : \A j \in At(c, x) : ~(<<j, i>> \in OpToRel(<, Nat))
    BY <2>1
  <2>3. \A j \in At(c, x) : i <= j
    <3>1. SUFFICES ASSUME NEW j \in At(c, x) PROVE i <= j
      OBVIOUS
    <3>2. ~(j < i)
      BY <2>2, <1>1 DEF OpToRel
    <3> QED BY <3>2, <1>1
  <2>4. /\ find(c, x) \in At(c, x)
        /\ \A j \in At(c, x) : find(c, x) <= j
    BY <1>3, <2>3 DEF find
  <2> QED BY <1>3, <2>4, <1>1
<1> QED BY <1>2, <1>3

LEMMA WithoutFacts ==
    ASSUME NEW c \in Content, NEW i \in 1..Len(c)
    PROVE  /\ Without(c, i) \in Content /\ Len(Without(c, i)) = Len(c) - 1
           /\ \A k \in 1..(Len(c) - 1) :
                 Without(c, i)[k] = c[IF k < i THEN k ELSE k + 1]
<1> DEFINE a == SubSeq(c, 1, i - 1)
           b == SubSeq(c, i + 1, Len(c))
<1>1. Len(c) \in Nat /\ i \in Nat /\ 1 <= i /\ i <= Len(c)
      /\ \A j \in 1..Len(c) : c[j] \in Entry
  BY ContentFacts
<1>2. \A j \in 1..(i - 1) : c[j] \in Entry
  BY <1>1
<1>3. \A j \in (i + 1)..Len(c) : c[j] \in Entry
  BY <1>1
<1>4. /\ a \in Seq(Entry)
      /\ Len(a) = IF 1 <= i - 1 THEN (i - 1) - 1 + 1 ELSE 0
      /\ \A j \in 1..((i - 1) - 1 + 1) : a[j] = c[1 + j - 1]
  BY <1>1, <1>2, SubSeqProperties
<1>5. /\ b \in Seq(Entry)
      /\ Len(b) = IF i + 1 <= Len(c) THEN Len(c) - (i + 1) + 1 ELSE 0
      /\ \A j \in 1..(Len(c) - (i + 1) + 1) : b[j] = c[(i + 1) + j - 1]
  BY <1>1, <1>3, SubSeqProperties
<1> HIDE DEF a, b
<1>6. /\ Len(a) = i - 1 /\ Len(b) = Len(c) - i
      /\ \A j \in 1..(i - 1) : a[j] = c[j]
      /\ \A j \in 1..(Len(c) - i) : b[j] = c[i + j]
  BY <1>1, <1>4, <1>5
<1>7. /\ a \o b \in Seq(Entry) /\ Len(a \o b) = Len(a) + Len(b)
      /\ \A k \in 1..(Len(a) + Len(b)) :
            (a \o b)[k] = IF k <= Len(a) THEN a[k] ELSE b[k - Len(a)]
  BY <1>4, <1>5, ConcatProperties
<1>8. Without(c, i) = a \o b
  BY DEF Without, a, b
<1>9. Len(a) + Len(b) = Len(c) - 1
  BY <1>1, <1>6
<1>10. ASSUME NEW k \in 1..(Len(c) - 1)
       PROVE  (a \o b)[k] = c[IF k < i THEN k ELSE k + 1]
  <2>1. CASE k < i
    <3>1. k \in 1..(i - 1) /\ k <= Len(a)
      BY <1>1, <1>6, <2>1
    <3> QED BY <3>1, <2>1, <1>6, <1>7, <1>9
  <2>2. CASE ~(k < i)
    <3>1. k - (i - 1) \in 1..(Len(c) - i) /\ ~(k <= Len(a)) /\ i + (k - (i - 1)) = k + 1
      BY <1>1, <1>6, <2>2
    <3>2. (a \o b)[k] = b[k - Len(a)]
      BY <3>1, <1>7, <1>9
    <3>3. b[k - (i - 1)] = c[i + (k - (i - 1))]
      BY <3>1, <1>6
    <3> QED BY <3>1, <3>2, <3>3, <2>2, <1>6
  <2> QED BY <2>1, <2>2
<1> QED BY <1>7, <1>8, <1>9, <1>10 DEF Content

LEMMA AppendFacts ==
    ASSUME NEW c \in Content, NEW h \in Entry
    PROVE  /\ Append(c, h) \in Content /\ Len(Append(c, h)) = Len(c) + 1
           /\ Append(c, h)[Len(c) + 1] = h
           /\ \A k \in 1..Len(c) : Append(c, h)[k] = c[k]
           /\ Append(c, h) # c
<1>1. /\ Append(c, h) \in Content /\ Len(Append(c, h)) = Len(c) + 1
      /\ Append(c, h)[Len(c) + 1] = h
      /\ \A k \in 1..Len(c) : Append(c, h)[k] = c[k]
  BY AppendProperties DEF Content
<1>2. Len(c) + 1 # Len(c)
  BY ContentFacts
<1> QED BY <1>1, <1>2


-----------------------------------------------------------------------------
(* The same headlines.                                                      *)

LEMMA SameBy ==
    ASSUME NEW c, NEW d, NEW x, NEW g \in [At(c, x) -> At(d, x)],
           \A k \in At(d, x) : \E i \in At(c, x) : g[i] = k,
           \A i, j \in At(c, x) : i < j => g[i] < g[j],
           \A i \in At(c, x) : d[g[i]] = c[i]
    PROVE  Same(c, d, x)
BY DEF Same

LEMMA SameRefl ==
    ASSUME NEW c, NEW x
    PROVE  Same(c, c, x)
<1> DEFINE g == [i \in At(c, x) |-> i]
<1>1. g \in [At(c, x) -> At(c, x)] /\ \A i \in At(c, x) : g[i] = i
  OBVIOUS
<1> HIDE DEF g
<1> QED BY <1>1, SameBy

\* Where the headlines with the id are where they were.
LEMMA SameIndex ==
    ASSUME NEW c, NEW d, NEW x, At(c, x) = At(d, x), \A i \in At(c, x) : d[i] = c[i]
    PROVE  Same(c, d, x)
<1> DEFINE g == [i \in At(c, x) |-> i]
<1>1. g \in [At(c, x) -> At(d, x)] /\ \A i \in At(c, x) : g[i] = i
  OBVIOUS
<1> HIDE DEF g
<1> QED BY <1>1, SameBy

LEMMA SameTrans ==
    ASSUME NEW c, NEW d, NEW e, NEW x, Same(c, d, x), Same(d, e, x)
    PROVE  Same(c, e, x)
<1>1. PICK g \in [At(c, x) -> At(d, x)] :
        /\ \A k \in At(d, x) : \E i \in At(c, x) : g[i] = k
        /\ \A i, j \in At(c, x) : i < j => g[i] < g[j]
        /\ \A i \in At(c, x) : d[g[i]] = c[i]
  BY DEF Same
<1>2. PICK h \in [At(d, x) -> At(e, x)] :
        /\ \A k \in At(e, x) : \E i \in At(d, x) : h[i] = k
        /\ \A i, j \in At(d, x) : i < j => h[i] < h[j]
        /\ \A i \in At(d, x) : e[h[i]] = d[i]
  BY DEF Same
<1> DEFINE f == [i \in At(c, x) |-> h[g[i]]]
<1>3. \A i \in At(c, x) : g[i] \in At(d, x) /\ h[g[i]] \in At(e, x) /\ f[i] = h[g[i]]
  BY <1>1, <1>2
<1>4. f \in [At(c, x) -> At(e, x)]
  BY <1>3
<1> HIDE DEF f
<1>5. \A k \in At(e, x) : \E i \in At(c, x) : f[i] = k
  <2>1. TAKE k \in At(e, x)
  <2>2. PICK m \in At(d, x) : h[m] = k
    BY <1>2
  <2>3. PICK i \in At(c, x) : g[i] = m
    BY <1>1
  <2> QED BY <2>2, <2>3, <1>3
<1>6. \A i, j \in At(c, x) : i < j => f[i] < f[j]
  BY <1>1, <1>2, <1>3
<1>7. \A i \in At(c, x) : e[f[i]] = c[i]
  BY <1>1, <1>2, <1>3
<1> QED BY <1>4, <1>5, <1>6, <1>7, SameBy

LEMMA SameHas ==
    ASSUME NEW c, NEW d, NEW x, Same(c, d, x)
    PROVE  Has(c, x) <=> Has(d, x)
BY DEF Same, Has

LEMMA SameFind ==
    ASSUME NEW c \in Content, NEW d \in Content, NEW x, Same(c, d, x)
    PROVE  /\ find(c, x) = 0 <=> find(d, x) = 0
           /\ find(c, x) # 0 => d[find(d, x)] = c[find(c, x)]
<1>1. PICK g \in [At(c, x) -> At(d, x)] :
        /\ \A k \in At(d, x) : \E i \in At(c, x) : g[i] = k
        /\ \A i, j \in At(c, x) : i < j => g[i] < g[j]
        /\ \A i \in At(c, x) : d[g[i]] = c[i]
  BY DEF Same
<1>2. find(c, x) = 0 <=> find(d, x) = 0
  BY <1>1, FindFacts
<1>3. SUFFICES ASSUME find(c, x) # 0 PROVE d[find(d, x)] = c[find(c, x)]
  BY <1>2
<1>4. /\ find(c, x) \in At(c, x) /\ \A j \in At(c, x) : find(c, x) <= j
      /\ find(d, x) \in At(d, x) /\ \A j \in At(d, x) : find(d, x) <= j
  BY <1>2, <1>3, FindFacts
<1>5. PICK k \in At(c, x) : g[k] = find(d, x)
  BY <1>1, <1>4
<1>6. g[find(c, x)] \in At(d, x) /\ find(d, x) <= g[find(c, x)]
  BY <1>1, <1>4
<1>7. /\ k \in Nat /\ find(c, x) \in Nat /\ find(d, x) \in Nat /\ g[find(c, x)] \in Nat
      /\ find(c, x) <= k
  BY <1>4, <1>6, AtFacts
<1>8. k = find(c, x)
  <2>1. SUFFICES ASSUME find(c, x) < k PROVE FALSE
    BY <1>7
  <2>2. g[find(c, x)] < g[k]
    BY <2>1, <1>1, <1>4
  <2> QED BY <2>2, <1>5, <1>6, <1>7
<1> QED BY <1>1, <1>4, <1>5, <1>8

LEMMA SameCount ==
    ASSUME NEW c \in Content, NEW d \in Content, NEW x, Same(c, d, x)
    PROVE  Occurrences(c, x) = Occurrences(d, x)
<1>1. PICK g \in [At(c, x) -> At(d, x)] :
        /\ \A k \in At(d, x) : \E i \in At(c, x) : g[i] = k
        /\ \A i, j \in At(c, x) : i < j => g[i] < g[j]
        /\ \A i \in At(c, x) : d[g[i]] = c[i]
  BY DEF Same
<1>2. \A i \in At(c, x) : i \in Nat /\ g[i] \in Nat
  BY <1>1, AtFacts
<1>3. \A i, j \in At(c, x) : g[i] = g[j] => i = j
  <2>1. TAKE i, j \in At(c, x)
  <2>2. i < j \/ j < i \/ i = j
    BY <1>2
  <2>3. ~(g[i] < g[i])
    BY <1>2
  <2> QED BY <1>1, <2>2, <2>3
<1>4. g \in Injection(At(c, x), At(d, x)) /\ g \in Surjection(At(c, x), At(d, x))
  BY <1>1, <1>3 DEF Injection, IsInjective, Surjection
<1>5. ExistsBijection(At(c, x), At(d, x))
  BY <1>4 DEF ExistsBijection, Bijection
<1> QED BY <1>5, AtFacts, FS_Bijection DEF Occurrences

-----------------------------------------------------------------------------
(* Edits keep the other headlines.                                          *)

LEMMA SameAppend ==
    ASSUME NEW c \in Content, NEW h \in Entry, NEW x, h.id # x
    PROVE  Same(c, Append(c, h), x)
<1>1. /\ DOMAIN c = 1..Len(c) /\ Len(c) \in Nat
      /\ DOMAIN Append(c, h) = 1..(Len(c) + 1)
  BY ContentFacts, AppendFacts
<1>2. \A i \in 1..(Len(c) + 1) : i \in 1..Len(c) \/ i = Len(c) + 1
  BY <1>1
<1>3. At(Append(c, h), x) = At(c, x)
  <2>1. \A i \in At(Append(c, h), x) : i \in At(c, x)
    BY <1>1, <1>2, AppendFacts DEF At
  <2>2. \A i \in At(c, x) : i \in At(Append(c, h), x)
    BY <1>1, AppendFacts DEF At
  <2> QED BY <2>1, <2>2
<1>4. \A i \in At(c, x) : Append(c, h)[i] = c[i]
  BY <1>1, AtFacts, AppendFacts
<1> QED BY <1>3, <1>4, SameIndex

LEMMA SameWithout ==
    ASSUME NEW c \in Content, NEW i \in 1..Len(c), NEW x, c[i].id # x
    PROVE  Same(c, Without(c, i), x)
<1> DEFINE d == Without(c, i)
           g == [k \in At(c, x) |-> IF k < i THEN k ELSE k - 1]
<1>1. /\ DOMAIN c = 1..Len(c) /\ Len(c) \in Nat /\ i \in Nat /\ 1 <= i /\ i <= Len(c)
      /\ d \in Content /\ DOMAIN d = 1..(Len(c) - 1)
      /\ \A k \in 1..(Len(c) - 1) : d[k] = c[IF k < i THEN k ELSE k + 1]
  BY ContentFacts, WithoutFacts
<1>2. \A k \in At(c, x) : g[k] = IF k < i THEN k ELSE k - 1
  OBVIOUS
<1> HIDE DEF d
<1>3. ASSUME NEW k \in At(c, x)
      PROVE  g[k] \in At(d, x) /\ d[g[k]] = c[k]
  <2>1. k \in 1..Len(c) /\ k # i /\ c[k].id = x
    BY AtFacts
  <2>2. CASE k < i
    <3>1. k \in 1..(Len(c) - 1) /\ g[k] = k /\ d[k] = c[k]
      BY <1>1, <1>2, <2>1, <2>2
    <3> QED BY <3>1, <2>1, <1>1 DEF At
  <2>3. CASE ~(k < i)
    <3>1. k - 1 \in 1..(Len(c) - 1) /\ g[k] = k - 1 /\ ~(k - 1 < i) /\ k - 1 + 1 = k
      BY <1>1, <1>2, <2>1, <2>3
    <3>2. d[k - 1] = c[k]
      BY <3>1, <1>1
    <3> QED BY <3>1, <3>2, <2>1, <1>1 DEF At
  <2> QED BY <2>2, <2>3
<1>4. g \in [At(c, x) -> At(d, x)]
  BY <1>3
<1>5. ASSUME NEW k \in At(d, x)
      PROVE  \E m \in At(c, x) : g[m] = k
  <2>1. k \in 1..(Len(c) - 1) /\ d[k].id = x
    BY <1>1 DEF At
  <2> DEFINE m == IF k < i THEN k ELSE k + 1
  <2>2. m \in 1..Len(c) /\ c[m].id = x
    BY <1>1, <2>1
  <2>3. m \in At(c, x)
    BY <2>2, <1>1 DEF At
  <2>4. g[m] = k
    <3>1. g[m] = IF m < i THEN m ELSE m - 1
      BY <2>3, <1>2
    <3> QED BY <3>1, <1>1, <2>1
  <2> QED BY <2>3, <2>4
<1>6. ASSUME NEW j \in At(c, x), NEW k \in At(c, x), j < k
      PROVE  g[j] < g[k]
  <2>1. j \in Nat /\ k \in Nat /\ j # i /\ k # i
    BY AtFacts
  <2>2. g[j] = (IF j < i THEN j ELSE j - 1) /\ g[k] = (IF k < i THEN k ELSE k - 1)
    BY <1>2
  <2> QED BY <2>1, <2>2, <1>6, <1>1
<1> HIDE DEF g
<1>7. Same(c, d, x)
  BY <1>3, <1>4, <1>5, <1>6, SameBy
<1> QED BY <1>7 DEF d

LEMMA SameExcept ==
    ASSUME NEW c \in Content, NEW i \in 1..Len(c), NEW h \in Entry, NEW x,
           c[i].id # x, h.id # x
    PROVE  Same(c, [c EXCEPT ![i] = h], x)
<1> DEFINE d == [c EXCEPT ![i] = h]
<1>1. DOMAIN d = DOMAIN c /\ \A k \in DOMAIN c : d[k] = IF k = i THEN h ELSE c[k]
  BY ContentFacts
<1> HIDE DEF d
<1>2. At(d, x) = At(c, x)
  BY <1>1 DEF At
<1>3. \A k \in At(c, x) : d[k] = c[k]
  BY <1>1 DEF At
<1>4. Same(c, d, x)
  BY <1>2, <1>3, SameIndex
<1> QED BY <1>4 DEF d


-----------------------------------------------------------------------------
(* What the edits make.                                                     *)

Unique(c, x) == \A i, j \in At(c, x) : i = j

LEMMA UniqueAppend ==
    ASSUME NEW c \in Content, NEW h \in Entry, NEW x,
           Unique(c, x), h.id = x => ~Has(c, x)
    PROVE  Unique(Append(c, h), x)
<1>1. /\ DOMAIN c = 1..Len(c) /\ Len(c) \in Nat
      /\ DOMAIN Append(c, h) = 1..(Len(c) + 1)
  BY ContentFacts, AppendFacts
<1>2. \A i \in At(Append(c, h), x) : i \in At(c, x) \/ (i = Len(c) + 1 /\ h.id = x)
  <2>1. TAKE i \in At(Append(c, h), x)
  <2>2. i \in 1..Len(c) \/ i = Len(c) + 1
    BY <1>1 DEF At
  <2>3. Append(c, h)[i].id = x
    BY DEF At
  <2> QED BY <2>2, <2>3, <1>1, AppendFacts DEF At
<1> QED BY <1>2 DEF Unique, Has

LEMMA UniqueWithout ==
    ASSUME NEW c \in Content, NEW i \in 1..Len(c), NEW x, Unique(c, x)
    PROVE  /\ Unique(Without(c, i), x)
           /\ c[i].id = x => ~Has(Without(c, i), x)
<1>1. /\ DOMAIN c = 1..Len(c) /\ Len(c) \in Nat /\ i \in Nat
      /\ DOMAIN Without(c, i) = 1..(Len(c) - 1)
      /\ \A k \in 1..(Len(c) - 1) : Without(c, i)[k] = c[IF k < i THEN k ELSE k + 1]
  BY ContentFacts, WithoutFacts
<1> DEFINE m(k) == IF k < i THEN k ELSE k + 1
<1>2. \A k \in At(Without(c, i), x) : m(k) \in At(c, x) /\ m(k) # i /\ k \in Nat
  <2>1. TAKE k \in At(Without(c, i), x)
  <2>2. k \in 1..(Len(c) - 1) /\ Without(c, i)[k].id = x
    BY <1>1 DEF At
  <2>3. m(k) \in 1..Len(c) /\ m(k) # i
    BY <1>1, <2>2
  <2> QED BY <1>1, <2>2, <2>3 DEF At
<1>3. \A j, k \in Nat : m(j) = m(k) => j = k
  BY <1>1
<1>4. Unique(Without(c, i), x)
  BY <1>2, <1>3 DEF Unique
<1>5. c[i].id = x => ~Has(Without(c, i), x)
  BY <1>1, <1>2 DEF Unique, Has, At
<1> QED BY <1>4, <1>5

LEMMA HasAppend ==
    ASSUME NEW c \in Content, NEW h \in Entry
    PROVE  Has(Append(c, h), h.id)
<1>1. DOMAIN Append(c, h) = 1..(Len(c) + 1) /\ Len(c) \in Nat
  BY ContentFacts, AppendFacts
<1>2. Len(c) + 1 \in At(Append(c, h), h.id)
  BY <1>1, AppendFacts DEF At
<1> QED BY <1>2 DEF Has

LEMMA HasFind ==
    ASSUME NEW c \in Content, NEW x
    PROVE  /\ find(c, x) # 0 <=> Has(c, x)
           /\ find(c, x) # 0 => find(c, x) \in 1..Len(c) /\ c[find(c, x)].id = x
BY FindFacts, AtFacts DEF Has

\* A headline of the new content is one of the old content, maybe edited, or is new.
From(h, c, op, token) ==
    \/ \E j \in DOMAIN c : h = c[j]
    \/ \E j \in DOMAIN c : op.kind = "append" /\ h = [c[j] EXCEPT !.marks = Append(@, token)]
    \/ \E j \in DOMAIN c : op.kind = "set" /\ h = [c[j] EXCEPT !.title = "new"]
    \/ op.kind = "create" /\ h = Headline(op.id)

LEMMA FromAppend ==
    ASSUME NEW c \in Content, NEW h \in Entry, NEW k \in DOMAIN Append(c, h)
    PROVE  Append(c, h)[k] = h \/ \E j \in DOMAIN c : Append(c, h)[k] = c[j]
<1>1. k \in 1..(Len(c) + 1) /\ Len(c) \in Nat /\ DOMAIN c = 1..Len(c)
  BY ContentFacts, AppendFacts
<1>2. k \in 1..Len(c) \/ k = Len(c) + 1
  BY <1>1
<1> QED BY <1>1, <1>2, AppendFacts

LEMMA FromWithout ==
    ASSUME NEW c \in Content, NEW i \in 1..Len(c), NEW k \in DOMAIN Without(c, i)
    PROVE  \E j \in DOMAIN c : Without(c, i)[k] = c[j]
<1>1. k \in 1..(Len(c) - 1) /\ Len(c) \in Nat /\ i \in Nat /\ DOMAIN c = 1..Len(c)
  BY ContentFacts, WithoutFacts
<1>2. (IF k < i THEN k ELSE k + 1) \in 1..Len(c)
  BY <1>1
<1> QED BY <1>1, <1>2, WithoutFacts

LEMMA HeadlineType ==
    ASSUME NEW id \in STRING
    PROVE  Headline(id) \in Entry /\ Headline(id).id = id /\ Headline(id).marks = <<>>
<1>1. <<>> \in Seq(Names)
  OBVIOUS
<1> QED BY <1>1 DEF Headline, Entry

LEMMA EditType ==
    ASSUME NEW h \in Entry, NEW op, NEW token \in Tokens
    PROVE  /\ applyEdit(h, op, token) \in Entry /\ applyEdit(h, op, token).id = h.id
           /\ op.kind = "append" =>
                 applyEdit(h, op, token).marks = Append(h.marks, token)
           /\ op.kind = "append" =>
                 applyEdit(h, op, token) = [h EXCEPT !.marks = Append(@, token)]
           /\ op.kind = "set" => applyEdit(h, op, token) = [h EXCEPT !.title = "new"]
           /\ op.kind \notin {"append", "set"} => applyEdit(h, op, token) = h
<1>1. h = [id |-> h.id, title |-> h.title, marks |-> h.marks]
      /\ h.id \in STRING /\ h.title \in {"old", "new"} /\ h.marks \in Seq(Names)
  BY DEF Entry
<1>2. token \in Names
  BY DEF Tokens, Names
<1>3. Append(h.marks, token) \in Seq(Names)
  BY <1>1, <1>2, AppendProperties
<1>4. CASE op.kind = "append"
  <2>1. applyEdit(h, op, token) = [h EXCEPT !.marks = Append(@, token)]
    BY <1>4 DEF applyEdit
  <2>2. [h EXCEPT !.marks = Append(@, token)] \in Entry
    BY <1>3 DEF Entry
  <2> QED BY <1>4, <2>1, <2>2, <1>1
<1>5. CASE op.kind = "set"
  <2>1. applyEdit(h, op, token) = [h EXCEPT !.title = "new"]
    BY <1>5 DEF applyEdit
  <2> QED BY <1>5, <2>1, <1>1 DEF Entry
<1>6. CASE op.kind \notin {"append", "set"}
  BY <1>6 DEF applyEdit
<1> QED BY <1>4, <1>5, <1>6

\* What an edit of one file makes of it.
EditFacts(c, out, op, token) ==
    /\ out \in Content
    /\ \A x \in STRING : x # op.id => Same(c, out, x)
    /\ op.kind # "delete" => find(out, op.id) # 0
    /\ op.kind = "append" => Marked(out, token)
    /\ \A k \in DOMAIN out : From(out[k], c, op, token)
    /\ \A x : Unique(c, x) /\ (op.kind = "create" /\ x = op.id => ~Has(c, x)) => Unique(out, x)

LEMMA SourceOutFacts ==
    ASSUME NEW c \in Content, NEW op \in Op, NEW token \in Tokens,
           ~Refusal(c, op), ~Crosses(op)
    PROVE  EditFacts(c, SourceOut(c, op, token), op, token)
<1> DEFINE i   == find(c, op.id)
           out == SourceOut(c, op, token)
<1>1. op.id \in STRING /\ op.kind \in {"append", "set", "create", "delete", "move"}
  BY DEF Op
<1>2. DOMAIN c = 1..Len(c) /\ Len(c) \in Nat
  BY ContentFacts
<1>3. op.kind # "create" => i \in 1..Len(c) /\ c[i].id = op.id /\ c[i] \in Entry
  <2>1. op.kind # "create" => i # 0
    BY DEF Refusal
  <2> QED BY <2>1, HasFind, ContentFacts
<1> HIDE DEF i
<1>4. CASE op.kind = "create"
  <2>1. out = Append(c, Headline(op.id))
    BY <1>4 DEF SourceOut
  <2> HIDE DEF out
  <2>2. Headline(op.id) \in Entry /\ Headline(op.id).id = op.id
    BY <1>1, HeadlineType
  <2>3. out \in Content
    BY <2>1, <2>2, AppendFacts
  <2>4. \A x \in STRING : x # op.id => Same(c, out, x)
    BY <2>1, <2>2, SameAppend
  <2>5. find(out, op.id) # 0
    BY <2>1, <2>2, <2>3, HasAppend, HasFind
  <2>6. \A k \in DOMAIN out : From(out[k], c, op, token)
    BY <2>1, <2>2, <1>4, FromAppend DEF From
  <2>7. \A x : Unique(c, x) /\ (op.kind = "create" /\ x = op.id => ~Has(c, x)) => Unique(out, x)
    BY <2>1, <2>2, <1>4, UniqueAppend
  <2> QED BY <1>4, <2>3, <2>4, <2>5, <2>6, <2>7 DEF EditFacts, out
<1>5. CASE op.kind = "delete"
  <2>1. out = Without(c, i)
    BY <1>5 DEF SourceOut, i
  <2> HIDE DEF out
  <2>2. i \in 1..Len(c) /\ c[i].id = op.id
    BY <1>3, <1>5
  <2>3. out \in Content
    BY <2>1, <2>2, WithoutFacts
  <2>4. \A x \in STRING : x # op.id => Same(c, out, x)
    BY <2>1, <2>2, SameWithout
  <2>5. \A k \in DOMAIN out : From(out[k], c, op, token)
    BY <2>1, <2>2, FromWithout DEF From
  <2>6. \A x : Unique(c, x) => Unique(out, x)
    BY <2>1, <2>2, UniqueWithout
  <2> QED BY <1>5, <2>3, <2>4, <2>5, <2>6 DEF EditFacts, out
<1>6. CASE op.kind = "move"
  <2>1. out = Append(Without(c, i), c[i])
    BY <1>6 DEF SourceOut, i, Crosses
  <2> HIDE DEF out
  <2>2. i \in 1..Len(c) /\ c[i].id = op.id /\ c[i] \in Entry
    BY <1>3, <1>6
  <2> DEFINE d == Without(c, i)
  <2>3. d \in Content
    BY <2>2, WithoutFacts
  <2>4. \A k \in DOMAIN d : \E j \in DOMAIN c : d[k] = c[j]
    BY <2>2, FromWithout
  <2>5. \A x \in STRING : x # op.id => Same(c, d, x)
    BY <2>2, SameWithout
  <2>6. \A x : Unique(c, x) => Unique(d, x) /\ (c[i].id = x => ~Has(d, x))
    BY <2>2, UniqueWithout
  <2>7. out = Append(d, c[i])
    BY <2>1
  <2> HIDE DEF d
  <2>8. out \in Content
    BY <2>7, <2>2, <2>3, AppendFacts
  <2>9. \A x \in STRING : x # op.id => Same(c, out, x)
    <3>1. \A x \in STRING : x # op.id => Same(d, out, x)
      BY <2>7, <2>2, <2>3, SameAppend
    <3> QED BY <3>1, <2>5, SameTrans
  <2>10. find(out, op.id) # 0
    BY <2>7, <2>2, <2>3, <2>8, HasAppend, HasFind
  <2>11. \A k \in DOMAIN out : From(out[k], c, op, token)
    <3>1. TAKE k \in DOMAIN out
    <3>2. out[k] = c[i] \/ \E j \in DOMAIN d : out[k] = d[j]
      BY <2>7, <2>2, <2>3, FromAppend
    <3>3. \E j \in DOMAIN c : out[k] = c[j]
      BY <3>2, <2>4, <2>2, <1>2
    <3> QED BY <3>3 DEF From
  <2>12. \A x : Unique(c, x) => Unique(out, x)
    <3>1. SUFFICES ASSUME NEW x, Unique(c, x) PROVE Unique(out, x)
      OBVIOUS
    <3>2. Unique(d, x) /\ (c[i].id = x => ~Has(d, x))
      BY <3>1, <2>6
    <3> QED BY <3>2, <2>7, <2>2, <2>3, UniqueAppend
  <2> QED BY <1>6, <2>8, <2>9, <2>10, <2>11, <2>12 DEF EditFacts, out
<1>7. CASE op.kind \in {"append", "set"}
  <2>1. out = [c EXCEPT ![i] = applyEdit(c[i], op, token)]
    BY <1>7 DEF SourceOut, i
  <2> HIDE DEF out
  <2>2. i \in 1..Len(c) /\ c[i].id = op.id /\ c[i] \in Entry
    BY <1>3, <1>7
  <2> DEFINE h == applyEdit(c[i], op, token)
  <2>3. /\ h \in Entry /\ h.id = op.id
        /\ op.kind = "append" => h.marks = Append(c[i].marks, token)
        /\ op.kind = "append" => h = [c[i] EXCEPT !.marks = Append(@, token)]
        /\ op.kind = "set" => h = [c[i] EXCEPT !.title = "new"]
    <3>1. PICK e \in Entry : e = c[i]
      BY <2>2
    <3>2. /\ applyEdit(e, op, token) \in Entry /\ applyEdit(e, op, token).id = e.id
          /\ op.kind = "append" =>
                applyEdit(e, op, token).marks = Append(e.marks, token)
          /\ op.kind = "append" =>
                applyEdit(e, op, token) = [e EXCEPT !.marks = Append(@, token)]
          /\ op.kind = "set" => applyEdit(e, op, token) = [e EXCEPT !.title = "new"]
      BY EditType
    <3> QED BY <3>1, <3>2, <2>2
  <2>4. out = [c EXCEPT ![i] = h]
    BY <2>1
  <2> HIDE DEF h
  <2>5. /\ out \in Content
        /\ DOMAIN out = DOMAIN c /\ \A k \in DOMAIN c : out[k] = IF k = i THEN h ELSE c[k]
    BY <2>4, <2>2, <2>3, <1>2, ExceptSeq DEF Content
  <2>6. \A x \in STRING : x # op.id => Same(c, out, x)
    BY <2>4, <2>2, <2>3, SameExcept
  <2>7. \A x : At(out, x) = At(c, x)
    BY <2>5, <2>2, <2>3 DEF At
  <2>8. find(out, op.id) # 0
    <3>1. i \in At(out, op.id)
      BY <2>5, <2>2, <2>3, <1>2 DEF At
    <3> QED BY <3>1, <2>5, FindFacts
  <2>9. op.kind = "append" => Marked(out, token)
    <3>1. SUFFICES ASSUME op.kind = "append" PROVE Marked(out, token)
      OBVIOUS
    <3>2. c[i].marks \in Seq(Names) /\ token \in Names
      BY <2>2 DEF Entry, Tokens, Names
    <3>3. /\ Append(c[i].marks, token)[Len(c[i].marks) + 1] = token
          /\ Append(c[i].marks, token) \in Seq(Names)
          /\ Len(Append(c[i].marks, token)) = Len(c[i].marks) + 1
          /\ Len(c[i].marks) \in Nat
      BY <3>2, AppendProperties, LenProperties
    <3>4. DOMAIN Append(c[i].marks, token) = 1..(Len(c[i].marks) + 1)
      BY <3>3, LenProperties
    <3>5. Len(c[i].marks) + 1 \in DOMAIN Append(c[i].marks, token)
      BY <3>3, <3>4
    <3>6. i \in DOMAIN out /\ out[i].marks = Append(c[i].marks, token)
      BY <2>2, <2>3, <2>5, <1>2, <3>1
    <3> QED BY <3>3, <3>5, <3>6 DEF Marked
  <2>10. \A k \in DOMAIN out : From(out[k], c, op, token)
    <3>1. TAKE k \in DOMAIN out
    <3>2. CASE k = i
      BY <3>2, <2>2, <2>3, <2>5, <1>2, <1>7 DEF From
    <3>3. CASE k # i
      BY <3>3, <2>5 DEF From
    <3> QED BY <3>2, <3>3
  <2>11. \A x : Unique(c, x) => Unique(out, x)
    BY <2>7 DEF Unique
  <2> QED BY <1>7, <2>5, <2>6, <2>8, <2>9, <2>10, <2>11 DEF EditFacts, out
<1> QED BY <1>1, <1>4, <1>5, <1>6, <1>7


-----------------------------------------------------------------------------
(* Steps by what they change.                                               *)

Alone(p) == \A q \in Procs : q # p => proc'[q] = proc[q]

Keep(p, F) == \A f \in F : proc'[p][f] = proc[p][f]

Still == /\ file' = file /\ flight' = flight /\ copy' = copy
         /\ landed' = landed /\ syncs' = syncs

\* An operation begins.
Begins(p, op) ==
    /\ Still /\ lock' = lock /\ ended' = ended /\ Alone(p)
    /\ proc[p].pc = "idle" /\ op \in Ops
    /\ op.kind = "create" => \A other \in AskedOps : other.kind = "create" => other.id # op.id
    /\ proc'[p].pc = "lock" /\ proc'[p].op = op /\ proc'[p].n = proc[p].n + 1
    /\ proc'[p].wrote = FALSE

\* A step with no PUT before or after it.
Calm(p) ==
    /\ Still /\ ended' = ended /\ Alone(p)
    /\ \A f \in Files :
          \/ lock'[f] = lock[f] \/ lock'[f] = Free
          \/ proc[p].pc = "lock" /\ lock[f] = Free /\ lock'[f] = Token(p)
    /\ proc[p].pc # "idle" /\ proc'[p].pc \in {"lock", "unlock", "verify", "verifysrc"}
    /\ Keep(p, {"n", "op", "want", "wrote"})
    /\ Sent(p) \subseteq Sent(p)'

LEMMA Assumed ==
    /\ \A o \in Ops : o \in Op /\ (o.kind # "move" => o.dst = o.file)
    /\ \A o \in Op : /\ o.file \in Files /\ o.dst \in Files /\ o.id \in STRING
                     /\ o.kind \in {"append", "set", "create", "delete", "move"}
    /\ \A o \in Ops : o.kind = "create" => o.id \notin ListingIds
    /\ "orgzly" \notin Procs
    /\ Files \subseteq Nat
    /\ \A o \in Op : o.file \in Nat /\ o.dst \in Nat
<1>1. \A o \in Ops : o.kind = "create" => o.id \notin ListingIds
  BY OrgAssumption DEF ListingIds
<1> QED BY <1>1, OrgAssumption DEF Op, Files

LEMMA IdleType == Idle \in Process
<1>1. <<>> \in Content /\ <<>> \in Seq(PutOf) /\ <<>> \in Seq(Files)
  BY DEF Content
<1>2. /\ NoOp \in Wanted /\ "idle" \in States /\ 0 \in {0, 1} /\ 0 \in Nat
      /\ NoOp \in Op \cup {NoOp}
  BY DEF Wanted, States
<1> QED BY <1>1, <1>2 DEF Process, Idle

LEMMA ProcTyped ==
    ASSUME Typed, NEW p \in Procs
    PROVE  /\ proc[p] \in Process
           /\ proc[p].pc \in States /\ proc[p].n \in Nat /\ proc[p].toLock \in Seq(Files)
           /\ proc[p].held \subseteq Files /\ proc[p].src \in Content
           /\ proc[p].puts \in Seq(PutOf) /\ proc[p].wrote \in BOOLEAN
           /\ proc[p].want \in Wanted /\ proc[p].checks \in {0, 1}
           /\ proc[p].error \in Results \cup {""} /\ proc[p].op \in Op \cup {NoOp}
           /\ Token(p) \in Tokens
<1>1. proc[p] \in Process
  BY DEF Typed
<1> QED BY <1>1 DEF Process, Token, Tokens

LEMMA PutsTyped ==
    ASSUME Typed, NEW p \in Procs
    PROVE  /\ DOMAIN proc[p].puts = 1..Len(proc[p].puts) /\ Len(proc[p].puts) \in Nat
           /\ \A i \in DOMAIN proc[p].puts :
                 /\ proc[p].puts[i].file \in Files /\ proc[p].puts[i].body \in Content
                 /\ proc[p].puts[i] = [file |-> proc[p].puts[i].file,
                                       body |-> proc[p].puts[i].body]
<1>1. proc[p].puts \in Seq(PutOf)
  BY ProcTyped
<1>2. DOMAIN proc[p].puts = 1..Len(proc[p].puts) /\ Len(proc[p].puts) \in Nat
  BY <1>1, LenProperties
<1>3. \A i \in 1..Len(proc[p].puts) : proc[p].puts[i] \in PutOf
  BY <1>1, ElementOfSeq
<1> QED BY <1>2, <1>3 DEF PutOf

\* Tokens of two processes differ, and none is Free.
LEMMA TokensDiffer ==
    ASSUME NEW p \in Procs, NEW q \in Procs
    PROVE  /\ Token(p) = Token(q) => p = q
           /\ Token(p) # Free
BY DEF Token, Free

LEMMA TokenIs ==
    ASSUME NEW t \in Tokens
    PROVE  /\ t = <<t[1], t[2]>> /\ t[1] \in Procs /\ t[2] \in Nat /\ t # Free
           /\ \A p \in Procs : t = Token(p) <=> t[1] = p /\ t[2] = proc[p].n
BY DEF Tokens, Token, Free

\* The record of one process changes.
LEMMA ProcStep ==
    ASSUME Typed, NEW p \in Procs, NEW r, proc' = [proc EXCEPT ![p] = r]
    PROVE  /\ proc'[p] = r /\ Alone(p)
           /\ r \in Process => proc' \in [Procs -> Process]
BY DEF Typed, Alone

LEMMA FailedStep ==
    ASSUME Typed, NEW p \in Procs, NEW error \in Results, proc' = Failed(p, error)
    PROVE  /\ proc'[p] = [proc[p] EXCEPT !.pc = "unlock", !.error = error]
           /\ Alone(p) /\ proc' \in [Procs -> Process]
           /\ proc'[p].pc = "unlock" /\ proc'[p].error = error
           /\ Keep(p, {"n", "op", "want", "wrote", "puts", "held", "src", "toLock", "checks"})
<1>1. proc' = [proc EXCEPT ![p] = [proc[p] EXCEPT !.pc = "unlock", !.error = error]]
  BY DEF Failed, Typed, Process
<1>2. proc[p] \in Process
  BY ProcTyped
<1>3. [proc[p] EXCEPT !.pc = "unlock", !.error = error] \in Process
  BY <1>2 DEF Process, States
<1>4. /\ proc'[p] = [proc[p] EXCEPT !.pc = "unlock", !.error = error]
      /\ Alone(p) /\ proc' \in [Procs -> Process]
  BY <1>1, <1>3, ProcStep
<1>5. /\ proc'[p].pc = "unlock" /\ proc'[p].error = error
      /\ Keep(p, {"n", "op", "want", "wrote", "puts", "held", "src", "toLock", "checks"})
  BY <1>2, <1>4 DEF Process, Keep
<1> QED BY <1>4, <1>5

LEMMA AlonePhases ==
    ASSUME Phases, NEW p \in Procs, Alone(p), Phase(p)'
    PROVE  Phases'
<1>1. \A q \in Procs : q # p => Phase(q)'
  BY DEF Alone, Phases, Phase
<1> QED BY <1>1 DEF Phases

\* A request that failed before or at the first PUT, or after it.
LEMMA FailedPhase ==
    ASSUME Typed, Phases, NEW p \in Procs,
           NEW error \in {"refused", "unchanged", "unknown", "both"},
           Busy(p), proc[p].pc \notin {"verify", "verifysrc", "unlock"},
           proc' = Failed(p, error),
           error \in {"refused", "unchanged"} => ~proc[p].wrote,
           error = "both" => proc[p].wrote
    PROVE  Phases'
<1>1. error \in Results
  BY DEF Results
<1>2. /\ Alone(p) /\ proc'[p].pc = "unlock" /\ proc'[p].error = error
      /\ proc'[p].n = proc[p].n /\ proc'[p].op = proc[p].op /\ proc'[p].wrote = proc[p].wrote
  BY <1>1, FailedStep DEF Keep
<1>3. Phase(p)
  BY DEF Phases
<1>4. proc[p].wrote => Crosses(proc[p].op)
  BY <1>3, ProcTyped DEF Phase, PhaseOf, States, Busy
<1>5. Phase(p)'
  BY <1>2, <1>3, <1>4 DEF Phase, PhaseOf, Busy
<1> QED BY <1>2, <1>5, AlonePhases


\* The fresh read of the source of a move.
Read(p) ==
    /\ Still /\ lock' = lock /\ ended' = ended /\ Alone(p)
    /\ proc[p].pc = "lock" /\ proc'[p].pc = "getdst"
    /\ Keep(p, {"n", "op", "want", "wrote"})
    /\ proc[p].op \in Ops /\ Crosses(proc[p].op)
    /\ proc'[p].src = file[proc[p].op.file]

\* The PUT of an edit of one file is prepared.
PlanEdit(p, out) ==
    /\ Still /\ lock' = lock /\ ended' = ended /\ Alone(p)
    /\ proc[p].pc = "lock" /\ proc'[p].pc = "put"
    /\ Keep(p, {"n", "op", "wrote"})
    /\ proc[p].wrote = FALSE
    /\ proc[p].op \in Ops /\ ~Crosses(proc[p].op)
    /\ EditFacts(file[proc[p].op.file], out, proc[p].op, Token(p))
    /\ proc'[p].puts = <<[file |-> proc[p].op.file, body |-> out]>>
    /\ proc'[p].want = Want(out, proc[p].op)

\* The PUTs of a move across files are: the headline i of the source at the end of the
\* destination.
PlanMove(p, i) ==
    LET op  == proc[p].op
        src == proc[p].src
        out == Append(file[op.dst], src[i])
    IN /\ Still /\ lock' = lock /\ ended' = ended /\ Alone(p)
       /\ proc[p].pc = "getdst" /\ proc'[p].pc = "put"
       /\ Keep(p, {"n", "op", "wrote"})
       /\ proc[p].wrote = FALSE
       /\ op \in Ops /\ Crosses(op)
       /\ i \in 1..Len(src) /\ src[i].id = op.id
       /\ proc'[p].puts = <<[file |-> op.dst, body |-> out],
                            [file |-> op.file, body |-> Without(src, i)]>>
       /\ proc'[p].want = Want(out, op)

LEMMA AskStep ==
    ASSUME Typed, Phases, NEW p \in Procs, NEW op \in Ops, Ask(p, op)
    PROVE  Begins(p, op) /\ Typed' /\ Phases'
<1> DEFINE r == [Idle EXCEPT !.pc = "lock", !.op = op, !.n = proc[p].n + 1,
                             !.toLock = LockOrder(op)]
<1>1. op \in Op /\ op.file \in Files /\ op.dst \in Files
      /\ op.file \in Nat /\ op.dst \in Nat
  BY Assumed
<1>2. /\ LockOrder(op) \in Seq(Files)
      /\ \A i, j \in DOMAIN LockOrder(op) : i < j => LockOrder(op)[i] < LockOrder(op)[j]
  <2>1. CASE ~Crosses(op)
    <3>1. LockOrder(op) = <<op.file>>
      BY <2>1 DEF LockOrder
    <3> QED BY <3>1, <1>1
  <2>2. CASE Crosses(op) /\ op.file < op.dst
    <3>1. LockOrder(op) = <<op.file, op.dst>>
      BY <2>2 DEF LockOrder
    <3> QED BY <3>1, <1>1, <2>2
  <2>3. CASE Crosses(op) /\ ~(op.file < op.dst)
    <3>1. LockOrder(op) = <<op.dst, op.file>> /\ op.dst < op.file
      <4>1. op.dst # op.file
        BY <2>3 DEF Crosses
      <4>2. op.dst < op.file
        BY <2>3, <4>1, <1>1
      <4> QED BY <2>3, <4>2 DEF LockOrder
    <3> QED BY <3>1, <1>1
  <2> QED BY <2>1, <2>2, <2>3
<1>3. /\ r.pc = "lock" /\ r.op = op /\ r.n = proc[p].n + 1 /\ r.toLock = LockOrder(op)
      /\ r.held = {} /\ r.src = <<>> /\ r.puts = <<>> /\ r.wrote = FALSE /\ r.error = ""
  BY DEF Idle
<1>4. proc' = [proc EXCEPT ![p] = r]
  BY DEF Ask
<1>5. PICK n \in Nat : n = proc[p].n
  BY ProcTyped
<1>12. n + 1 \in Nat /\ n + 1 > 0
  OBVIOUS
<1>6. r \in Process
  <2>1. [Idle EXCEPT !.pc = "lock", !.op = op, !.n = n + 1, !.toLock = LockOrder(op)] \in Process
    BY <1>1, <1>2, <1>12, IdleType DEF Process, States
  <2> QED BY <2>1, <1>5
<1> HIDE DEF r
<1>7. proc'[p] = r /\ Alone(p) /\ proc' \in [Procs -> Process]
  BY <1>4, <1>6, ProcStep
<1>8. Begins(p, op)
  BY <1>3, <1>7 DEF Ask, Begins, Still
<1>9. Typed'
  BY <1>7 DEF Ask, Typed
<1>10. PhaseOf(r)
  <2>1. r.pc # "idle" /\ r.op \in Ops /\ r.n > 0
    BY <1>3, <1>5, <1>12
  <2>2. /\ \A i, j \in DOMAIN r.toLock : i < j => r.toLock[i] < r.toLock[j]
        /\ \A h \in r.held : \A i \in DOMAIN r.toLock : h < r.toLock[i]
    BY <1>2, <1>3
  <2>3. ~r.wrote /\ r.error = "" /\ r.puts = <<>> /\ r.pc = "lock"
    BY <1>3
  <2> QED BY <2>1, <2>2, <2>3 DEF PhaseOf
<1>11. Phases'
  BY <1>7, <1>10, AlonePhases DEF Phase
<1> QED BY <1>8, <1>9, <1>11

LEMMA FailedCalm ==
    ASSUME Typed, Phases, NEW p \in Procs,
           NEW error \in {"refused", "unchanged", "unknown", "both"},
           proc[p].pc \in {"lock", "getdst", "put", "reread"},
           Still, ended' = ended,
           \A f \in Files :
              \/ lock'[f] = lock[f] \/ lock'[f] = Free
              \/ proc[p].pc = "lock" /\ lock[f] = Free /\ lock'[f] = Token(p),
           proc' = Failed(p, error),
           error \in {"refused", "unchanged"} => ~proc[p].wrote /\ proc[p].pc # "reread",
           error = "both" => proc[p].wrote
    PROVE  Calm(p) /\ proc' \in [Procs -> Process] /\ Phases'
<1>1. error \in Results
  BY DEF Results
<1>2. /\ Alone(p) /\ proc'[p].pc = "unlock" /\ proc'[p].error = error
      /\ proc' \in [Procs -> Process]
      /\ Keep(p, {"n", "op", "want", "wrote", "puts", "held", "src", "toLock", "checks"})
  BY <1>1, FailedStep
<1>3. /\ proc'[p].n = proc[p].n /\ proc'[p].op = proc[p].op
      /\ proc'[p].wrote = proc[p].wrote /\ proc'[p].want = proc[p].want
  BY <1>2 DEF Keep
<1>7. Keep(p, {"n", "op", "want", "wrote"})
  BY <1>3 DEF Keep
<1>4. Phases'
  BY FailedPhase DEF Busy
<1>5. Sent(p) \subseteq Sent(p)'
  BY <1>2, <1>3, ProcTyped DEF Sent
<1>6. Calm(p)
  BY <1>2, <1>5, <1>7 DEF Calm
<1> QED BY <1>2, <1>4, <1>6


LEMMA LockedInOrder ==
    ASSUME NEW l \in Seq(Files), l # <<>>, NEW held \in SUBSET Files,
           \A i, j \in DOMAIN l : i < j => l[i] < l[j],
           \A h \in held : \A i \in DOMAIN l : h < l[i]
    PROVE  /\ Head(l) \in Files /\ Tail(l) \in Seq(Files)
           /\ \A i, j \in DOMAIN Tail(l) : i < j => Tail(l)[i] < Tail(l)[j]
           /\ \A h \in held \cup {Head(l)} : \A i \in DOMAIN Tail(l) : h < Tail(l)[i]
<1>1. /\ Len(l) \in Nat /\ Len(l) # 0 /\ DOMAIN l = 1..Len(l)
      /\ Head(l) = l[1] /\ Head(l) \in Files
      /\ Tail(l) \in Seq(Files) /\ Len(Tail(l)) = Len(l) - 1
      /\ \A i \in 1..(Len(l) - 1) : Tail(l)[i] = l[i + 1]
  BY HeadTailProperties, LenProperties, EmptySeq
<1>2. DOMAIN Tail(l) = 1..(Len(l) - 1)
  BY <1>1, LenProperties
<1>3. \A i \in DOMAIN Tail(l) : /\ i \in Nat /\ i + 1 \in DOMAIN l /\ 1 < i + 1
                                /\ Tail(l)[i] = l[i + 1]
  BY <1>1, <1>2
<1>4. \A i, j \in DOMAIN Tail(l) : i < j => i + 1 < j + 1
  BY <1>3
<1>5. 1 \in DOMAIN l
  BY <1>1
<1>6. \A i, j \in DOMAIN Tail(l) : i < j => Tail(l)[i] < Tail(l)[j]
  BY <1>3, <1>4
<1>7. \A i \in DOMAIN Tail(l) : Head(l) < Tail(l)[i]
  BY <1>1, <1>3, <1>5
<1>8. \A h \in held : \A i \in DOMAIN Tail(l) : h < Tail(l)[i]
  BY <1>3
<1> QED BY <1>1, <1>6, <1>7, <1>8

LEMMA LockStep ==
    ASSUME Typed, Phases, NEW p \in Procs, Lock(p)
    PROVE  Calm(p) /\ Typed' /\ Phases'
<1> DEFINE f == Head(proc[p].toLock)
<1>1. /\ proc[p].pc = "lock" /\ proc[p].toLock # <<>> /\ Busy(p)
      /\ Still /\ ended' = ended
  BY DEF Lock, Still, Busy
<1>2. /\ proc[p].op \in Ops /\ proc[p].n > 0 /\ ~proc[p].wrote /\ proc[p].error = ""
      /\ proc[p].puts = <<>>
      /\ \A i, j \in DOMAIN proc[p].toLock : i < j => proc[p].toLock[i] < proc[p].toLock[j]
      /\ \A h \in proc[p].held : \A i \in DOMAIN proc[p].toLock : h < proc[p].toLock[i]
  BY <1>1 DEF Phases, Phase, PhaseOf
<1>3. /\ proc[p].toLock \in Seq(Files) /\ proc[p].held \subseteq Files /\ Token(p) \in Tokens
      /\ proc[p] \in Process
  BY ProcTyped
<1>4. /\ f \in Files /\ Tail(proc[p].toLock) \in Seq(Files)
      /\ \A i, j \in DOMAIN Tail(proc[p].toLock) :
            i < j => Tail(proc[p].toLock)[i] < Tail(proc[p].toLock)[j]
      /\ \A h \in proc[p].held \cup {f} :
            \A i \in DOMAIN Tail(proc[p].toLock) : h < Tail(proc[p].toLock)[i]
  BY <1>1, <1>2, <1>3, LockedInOrder
<1>5. lock \in [Files -> Tokens \cup {Free}] /\ [lock EXCEPT ![f] = Token(p)] \in [Files -> Tokens \cup {Free}]
  BY <1>3, <1>4 DEF Typed
<1>6. /\ lock' \in [Files -> Tokens \cup {Free}]
      /\ \A g \in Files : \/ lock'[g] = lock[g] \/ lock'[g] = Free
                          \/ proc[p].pc = "lock" /\ lock[g] = Free /\ lock'[g] = Token(p)
  <2>1. lock' = lock \/ (lock[f] = Free /\ lock' = [lock EXCEPT ![f] = Token(p)])
    BY DEF Lock
  <2>2. \A g \in Files : [lock EXCEPT ![f] = Token(p)][g] = IF g = f THEN Token(p) ELSE lock[g]
    BY <1>5
  <2> HIDE DEF f
  <2> QED BY <1>1, <1>5, <2>1, <2>2
<1>7. CASE proc' = Failed(p, "refused")
  <2>1. Calm(p) /\ proc' \in [Procs -> Process] /\ Phases'
    BY <1>1, <1>2, <1>6, <1>7, FailedCalm
  <2> QED BY <2>1, <1>1, <1>6 DEF Typed, Still
<1>8. CASE proc' = [proc EXCEPT ![p].toLock = Tail(@), ![p].held = @ \cup {f}]
  <2> DEFINE r == [proc[p] EXCEPT !.toLock = Tail(@), !.held = @ \cup {f}]
  <2>1. proc' = [proc EXCEPT ![p] = r]
    BY <1>8, <1>3 DEF Typed, Process
  <2>2. r \in Process
    BY <1>3, <1>4 DEF Process
  <2>3. /\ r.pc = "lock" /\ r.op = proc[p].op /\ r.n = proc[p].n /\ r.want = proc[p].want
        /\ r.toLock = Tail(proc[p].toLock) /\ r.held = proc[p].held \cup {f}
        /\ r.puts = <<>> /\ r.wrote = proc[p].wrote /\ r.error = ""
    BY <1>1, <1>2, <1>3 DEF Process
  <2> HIDE DEF r, f
  <2>4. proc'[p] = r /\ Alone(p) /\ proc' \in [Procs -> Process]
    BY <2>1, <2>2, ProcStep
  <2>5. PhaseOf(r)
    <3>1. r.pc = "lock" /\ r.op \in Ops /\ r.n > 0 /\ ~r.wrote /\ r.error = "" /\ r.puts = <<>>
      BY <2>3, <1>2
    <3>2. /\ \A i, j \in DOMAIN r.toLock : i < j => r.toLock[i] < r.toLock[j]
          /\ \A h \in r.held : \A i \in DOMAIN r.toLock : h < r.toLock[i]
      BY <2>3, <1>4
    <3> QED BY <3>1, <3>2 DEF PhaseOf
  <2>6. Phases'
    BY <2>4, <2>5, AlonePhases DEF Phase
  <2>7. Keep(p, {"n", "op", "want", "wrote"})
    BY <2>3, <2>4 DEF Keep
  <2>8. Sent(p) \subseteq Sent(p)'
    BY <1>1, <2>3, <2>4 DEF Sent
  <2>9. Calm(p)
    BY <1>1, <1>6, <2>3, <2>4, <2>7, <2>8 DEF Calm
  <2> QED BY <2>4, <2>6, <2>9, <1>1, <1>6 DEF Typed, Still
<1>9. proc' = Failed(p, "refused") \/ proc' = [proc EXCEPT ![p].toLock = Tail(@), ![p].held = @ \cup {f}]
  BY DEF Lock
<1> QED BY <1>7, <1>8, <1>9


LEMMA WantType ==
    ASSUME NEW c \in Content, NEW op, op.kind # "delete" => find(c, op.id) # 0
    PROVE  Want(c, op) \in Wanted
<1>1. CASE op.kind = "delete"
  <2>1. Occurrences(c, op.id) \in Nat
    BY AtFacts
  <2> QED BY <1>1, <2>1 DEF Want, Wanted
<1>2. CASE op.kind # "delete"
  <2>1. c[find(c, op.id)] \in Entry
    BY <1>2, HasFind, ContentFacts
  <2>2. Want(c, op) = [headline |-> c[find(c, op.id)], body |-> op.kind # "set"]
    BY <1>2 DEF Want
  <2>3. (op.kind # "set") \in BOOLEAN
    OBVIOUS
  <2>4. Want(c, op) \in [headline : Entry, body : BOOLEAN]
    BY <2>1, <2>2, <2>3
  <2> QED BY <2>4 DEF Wanted
<1> QED BY <1>1, <1>2

\* The record of a process whose PUTs were prepared.
LEMMA Prepared ==
    ASSUME NEW s \in Process, s.pc \in {"lock", "getdst"}, PhaseOf(s),
           NEW r \in Process, r.pc = "put", r.n = s.n, r.op = s.op, r.wrote = s.wrote,
           r.error = s.error,
           Len(r.puts) = IF Crosses(s.op) THEN 2 ELSE 1,
           r.puts[Len(r.puts)].file = s.op.file,
           r.puts[1].file = s.op.dst, r.want = Want(r.puts[1].body, s.op),
           s.op.kind # "delete" => find(r.puts[1].body, s.op.id) # 0
    PROVE  PhaseOf(r) /\ s.wrote = FALSE
<1>1. s.op \in Ops /\ s.n > 0 /\ ~s.wrote /\ s.error = "" /\ s.wrote \in BOOLEAN
  BY DEF PhaseOf, Process
<1>2. PhaseOf(r)
  BY <1>1 DEF PhaseOf
<1> QED BY <1>1, <1>2

LEMMA GetStep ==
    ASSUME Typed, Phases, NEW p \in Procs, Get(p)
    PROVE  /\ Calm(p) \/ Read(p) \/ \E out \in Content : PlanEdit(p, out)
           /\ Typed' /\ Phases'
<1> DEFINE src == file[proc[p].op.file]
<1>1. /\ proc[p].pc = "lock" /\ proc[p].toLock = <<>> /\ Busy(p)
      /\ Still /\ ended' = ended /\ lock' = lock
  BY DEF Get, Still, Busy, Server, Others
<1>2. /\ proc[p].op \in Ops /\ proc[p].n > 0 /\ ~proc[p].wrote /\ proc[p].error = ""
      /\ proc[p].puts = <<>> /\ PhaseOf(proc[p])
  BY <1>1 DEF Phases, Phase, PhaseOf
<1>3. /\ Token(p) \in Tokens /\ proc[p] \in Process /\ proc[p].src \in Content
      /\ proc[p].wrote \in BOOLEAN
  BY ProcTyped
<1>4. PICK op \in Ops : op = proc[p].op
  BY <1>2
<1>5. /\ op \in Op /\ op.file \in Files /\ op.dst \in Files /\ op.id \in STRING
      /\ op.kind # "move" => op.dst = op.file
  BY Assumed
<1>6. PICK c \in Content : c = file[op.file]
  BY <1>5 DEF Typed
<1>7. PICK t \in Tokens : t = Token(p)
  BY <1>3
<1>8. CASE \E error \in {"refused", "unchanged"} : proc' = Failed(p, error)
  <2>1. PICK error \in {"refused", "unchanged"} : proc' = Failed(p, error)
    BY <1>8
  <2>2. Calm(p) /\ proc' \in [Procs -> Process] /\ Phases'
    BY <1>1, <1>2, <2>1, FailedCalm
  <2> QED BY <2>2, <1>1 DEF Typed, Still
<1>9. CASE /\ ~Refusal(c, op) /\ ~Crosses(op)
           /\ proc' = [proc EXCEPT ![p].pc = "put", ![p].want = Want(SourceOut(c, op, t), op),
                                   ![p].puts = <<[file |-> op.file, body |-> SourceOut(c, op, t)]>>]
  <2> DEFINE out  == SourceOut(c, op, t)
             w    == Want(out, op)
             puts == <<[file |-> op.file, body |-> out]>>
             r    == [proc[p] EXCEPT !.pc = "put", !.src = proc[p].src, !.want = w, !.puts = puts]
  <2>1. EditFacts(c, out, op, t)
    BY <1>5, <1>9, SourceOutFacts
  <2>2. out \in Content /\ (op.kind # "delete" => find(out, op.id) # 0)
    BY <2>1 DEF EditFacts
  <2>3. w \in Wanted
    BY <2>2, WantType
  <2>4. proc' = [proc EXCEPT ![p] = [proc[p] EXCEPT !.pc = "put", !.want = w, !.puts = puts]]
    BY <1>9, <1>3 DEF Typed
  <2> HIDE DEF out, w
  <2>5. [file |-> op.file, body |-> out] \in PutOf
    BY <2>2, <1>5 DEF PutOf
  <2>6. /\ puts \in Seq(PutOf) /\ Len(puts) = 1 /\ puts[1] = [file |-> op.file, body |-> out]
    BY <2>5
  <2> HIDE DEF puts
  <2>7. [proc[p] EXCEPT !.pc = "put", !.want = w, !.puts = puts] = r
    BY <1>3 DEF Process
  <2>8. proc' = [proc EXCEPT ![p] = r]
    BY <2>4, <2>7
  <2>9. op.dst = op.file
    BY <1>5, <1>9 DEF Crosses
  <2>10. /\ r \in Process /\ PhaseOf(r)
         /\ r.pc = "put" /\ r.n = proc[p].n /\ r.op = proc[p].op /\ r.wrote = FALSE
         /\ r.want = w /\ r.puts = puts /\ proc[p].wrote = FALSE
    <3>1. puts[1].file = op.dst /\ puts[Len(puts)].file = op.file /\ puts[1].body = out
      BY <2>6, <2>9
    <3>2. w = Want(out, op)
      BY DEF w
    <3> HIDE DEF r
    <3>3. r = [proc[p] EXCEPT !.pc = "put", !.src = proc[p].src, !.want = w, !.puts = puts]
      BY DEF r
    <3>4. r \in Process
      BY <3>3, <1>3, <2>3, <2>6 DEF Process, States
    <3>5. /\ r.pc = "put" /\ r.n = proc[p].n /\ r.op = proc[p].op /\ r.wrote = proc[p].wrote
          /\ r.want = w /\ r.puts = puts /\ r.error = proc[p].error
      BY <3>3, <1>3 DEF Process
    <3>6. PICK s \in Process : s = proc[p]
      BY <1>3
    <3>7. PICK u \in Process : u = r
      BY <3>4
    <3>8. s.pc \in {"lock", "getdst"} /\ PhaseOf(s) /\ s.op = op
      BY <3>6, <1>1, <1>2, <1>4
    <3>9. /\ u.pc = "put" /\ u.n = s.n /\ u.op = s.op /\ u.wrote = s.wrote
          /\ u.error = s.error /\ u.puts = puts
      BY <3>5, <3>6, <3>7
    <3>10. Len(u.puts) = IF Crosses(s.op) THEN 2 ELSE 1
      BY <3>8, <3>9, <2>6, <1>9
    <3>11. /\ u.puts[Len(u.puts)].file = s.op.file /\ u.puts[1].file = s.op.dst
           /\ u.want = Want(u.puts[1].body, s.op)
           /\ s.op.kind # "delete" => find(u.puts[1].body, s.op.id) # 0
      BY <3>1, <3>2, <3>5, <3>7, <3>8, <3>9, <2>2
    <3>12. PhaseOf(u) /\ s.wrote = FALSE
      BY <3>8, <3>9, <3>10, <3>11, Prepared
    <3> QED BY <3>4, <3>5, <3>6, <3>7, <3>12
  <2> HIDE DEF r
  <2>11. proc'[p] = r /\ Alone(p) /\ proc' \in [Procs -> Process]
    BY <2>8, <2>10, ProcStep
  <2>12. Phases'
    BY <2>10, <2>11, AlonePhases DEF Phase
  <2>13. PlanEdit(p, out)
    <3>1. Keep(p, {"n", "op", "wrote"})
      BY <2>10, <2>11 DEF Keep
    <3>2. proc'[p].puts = <<[file |-> op.file, body |-> out]>>
      BY <2>10, <2>11 DEF puts
    <3>3. proc'[p].want = Want(out, op)
      BY <2>10, <2>11 DEF w
    <3>4. EditFacts(file[op.file], out, op, Token(p))
      BY <2>1, <1>6, <1>7
    <3> QED BY <3>1, <3>2, <3>3, <3>4, <1>1, <1>2, <1>4, <1>9, <2>10, <2>11 DEF PlanEdit
  <2> QED BY <2>2, <2>11, <2>12, <2>13, <1>1 DEF Typed, Still
<1>10. CASE ~Refusal(c, op) /\ Crosses(op)
            /\ proc' = [proc EXCEPT ![p].pc = "getdst", ![p].src = c]
  <2> DEFINE r == [proc[p] EXCEPT !.pc = "getdst", !.src = c]
  <2>1. proc' = [proc EXCEPT ![p] = r]
    BY <1>10, <1>3 DEF Typed
  <2>2. r \in Process
    BY <1>3 DEF Process, States
  <2>3. /\ r.pc = "getdst" /\ r.n = proc[p].n /\ r.op = proc[p].op /\ r.want = proc[p].want
        /\ r.wrote = proc[p].wrote /\ r.error = proc[p].error /\ r.puts = proc[p].puts
        /\ r.src = c
    BY <1>3 DEF Process
  <2> HIDE DEF r
  <2>4. proc'[p] = r /\ Alone(p) /\ proc' \in [Procs -> Process]
    BY <2>1, <2>2, ProcStep
  <2>5. find(c, op.id) # 0
    BY <1>10 DEF Refusal, Crosses
  <2>6. PhaseOf(r)
    BY <2>3, <2>5, <1>2, <1>4, <1>10 DEF PhaseOf
  <2>7. Phases'
    BY <2>4, <2>6, AlonePhases DEF Phase
  <2>8. Keep(p, {"n", "op", "want", "wrote"})
    BY <2>3, <2>4 DEF Keep
  <2>9. Read(p)
    BY <2>3, <2>4, <2>8, <1>1, <1>2, <1>4, <1>6, <1>10 DEF Read
  <2> QED BY <2>4, <2>7, <2>9, <1>1 DEF Typed, Still
<1>11. <1>8!1 \/ <1>9!1 \/ <1>10!1
  BY <1>4, <1>6, <1>7 DEF Get
<1> QED BY <1>8, <1>9, <1>10, <1>11


LEMMA GetDstStep ==
    ASSUME Typed, Phases, NEW p \in Procs, GetDst(p)
    PROVE  /\ Calm(p) \/ \E i \in Nat : PlanMove(p, i)
           /\ Typed' /\ Phases'
<1>1. /\ proc[p].pc = "getdst" /\ Busy(p)
      /\ Still /\ ended' = ended /\ lock' = lock
  BY DEF GetDst, Still, Busy, Server, Others
<1>2. /\ proc[p].op \in Ops /\ proc[p].n > 0 /\ ~proc[p].wrote /\ proc[p].error = ""
      /\ proc[p].puts = <<>> /\ PhaseOf(proc[p])
      /\ Crosses(proc[p].op) /\ find(proc[p].src, proc[p].op.id) # 0
  BY <1>1 DEF Phases, Phase, PhaseOf
<1>3. /\ Token(p) \in Tokens /\ proc[p] \in Process /\ proc[p].src \in Content
      /\ proc[p].wrote \in BOOLEAN
  BY ProcTyped
<1>4. PICK op \in Ops : op = proc[p].op
  BY <1>2
<1>5. /\ op \in Op /\ op.file \in Files /\ op.dst \in Files /\ op.id \in STRING
  BY Assumed
<1>6. PICK d \in Content : d = file[op.dst]
  BY <1>5 DEF Typed
<1>7. PICK src \in Content : src = proc[p].src
  BY <1>3
<1>8. CASE proc' = Failed(p, "refused")
  <2>1. Calm(p) /\ proc' \in [Procs -> Process] /\ Phases'
    BY <1>1, <1>2, <1>8, FailedCalm
  <2> QED BY <2>1, <1>1 DEF Typed, Still
<1>9. PICK i : i = find(src, op.id)
  OBVIOUS
<1>10. i \in 1..Len(src) /\ src[i].id = op.id /\ src[i] \in Entry /\ i \in Nat
  <2>1. find(src, op.id) # 0
    BY <1>2, <1>4, <1>7
  <2>2. i \in 1..Len(src) /\ src[i].id = op.id
    BY <2>1, <1>9, HasFind
  <2> QED BY <2>2, ContentFacts
<1>11. CASE proc' = [proc EXCEPT ![p].pc = "put", ![p].src = <<>>,
                       ![p].want = Want(Append(d, src[i]), op),
                       ![p].puts = MovePuts(op, Append(d, src[i]), Without(src, i))]
  <2> DEFINE out  == Append(d, src[i])
             rest == Without(src, i)
             w    == Want(out, op)
             one  == [file |-> op.dst, body |-> out]
             two  == [file |-> op.file, body |-> rest]
             puts == <<one, two>>
             r    == [proc[p] EXCEPT !.pc = "put", !.src = <<>>, !.want = w, !.puts = puts]
  <2>1. out \in Content /\ rest \in Content
    BY <1>10, AppendFacts, WithoutFacts
  <2>2. find(out, op.id) # 0
    BY <1>10, <2>1, HasAppend, HasFind
  <2>3. w \in Wanted
    BY <2>1, <2>2, WantType
  <2>4. proc' = [proc EXCEPT ![p] = r]
    BY <1>11, <1>3 DEF Typed, MovePuts
  <2> HIDE DEF out, rest, w
  <2>5. one \in PutOf /\ two \in PutOf
    BY <2>1, <1>5 DEF PutOf
  <2>6. one.file = op.dst /\ one.body = out /\ two.file = op.file
    OBVIOUS
  <2> HIDE DEF one, two
  <2>7. /\ puts \in Seq(PutOf) /\ Len(puts) = 2 /\ puts[1] = one /\ puts[2] = two
    BY <2>5
  <2> HIDE DEF puts
  <2>8. r \in Process
    <3>1. <<>> \in Content
      BY DEF Content
    <3> QED BY <3>1, <1>3, <2>3, <2>7 DEF Process, States
  <2>9. /\ r.pc = "put" /\ r.n = proc[p].n /\ r.op = proc[p].op /\ r.wrote = proc[p].wrote
        /\ r.want = w /\ r.puts = puts /\ r.error = proc[p].error
    BY <1>3 DEF Process
  <2> HIDE DEF r
  <2>10. PhaseOf(r) /\ proc[p].wrote = FALSE
    <3>1. PICK s \in Process : s = proc[p]
      BY <1>3
    <3>2. PICK u \in Process : u = r
      BY <2>8
    <3>3. s.pc \in {"lock", "getdst"} /\ PhaseOf(s) /\ s.op = op
      BY <3>1, <1>1, <1>2, <1>4
    <3>4. /\ u.pc = "put" /\ u.n = s.n /\ u.op = s.op /\ u.wrote = s.wrote
          /\ u.error = s.error /\ u.puts = puts
      BY <3>1, <3>2, <2>9
    <3>5. Len(u.puts) = IF Crosses(s.op) THEN 2 ELSE 1
      BY <3>3, <3>4, <2>7, <1>2, <1>4
    <3>6. /\ u.puts[Len(u.puts)].file = s.op.file /\ u.puts[1].file = s.op.dst
      BY <3>3, <3>4, <2>6, <2>7
    <3>7. w = Want(out, op)
      BY DEF w
    <3>8. /\ u.want = Want(u.puts[1].body, s.op)
          /\ s.op.kind # "delete" => find(u.puts[1].body, s.op.id) # 0
      BY <3>2, <3>3, <3>4, <3>7, <2>2, <2>6, <2>7, <2>9
    <3>9. PhaseOf(u) /\ s.wrote = FALSE
      BY <3>3, <3>4, <3>5, <3>6, <3>8, Prepared
    <3> QED BY <3>1, <3>2, <3>9
  <2>11. proc'[p] = r /\ Alone(p) /\ proc' \in [Procs -> Process]
    BY <2>4, <2>8, ProcStep
  <2>12. Phases'
    BY <2>10, <2>11, AlonePhases DEF Phase
  <2>13. PlanMove(p, i)
    <3>1. Keep(p, {"n", "op", "wrote"})
      BY <2>9, <2>11 DEF Keep
    <3>2. proc'[p].puts = <<[file |-> op.dst, body |-> Append(file[op.dst], src[i])],
                            [file |-> op.file, body |-> Without(src, i)]>>
      BY <1>6, <2>9, <2>11 DEF puts, one, two, out, rest
    <3>3. proc'[p].want = Want(Append(file[op.dst], src[i]), op)
      BY <1>6, <2>9, <2>11 DEF w, out
    <3> QED BY <3>1, <3>2, <3>3, <1>1, <1>2, <1>4, <1>7, <1>10, <2>9, <2>10, <2>11 DEF PlanMove
  <2> QED BY <2>11, <2>12, <2>13, <1>1, <1>10 DEF Typed, Still
<1>12. <1>8!1 \/ <1>11!1
  BY <1>4, <1>6, <1>7, <1>9 DEF GetDst
<1> QED BY <1>8, <1>11, <1>12

-----------------------------------------------------------------------------
(* Steps that send, land or drop a PUT, and the others.                     *)

\* A PUT without an answer that did not land.
Settle(p) ==
    /\ file' = file /\ copy' = copy /\ landed' = landed /\ syncs' = syncs
    /\ lock' = lock /\ ended' = ended /\ Alone(p)
    /\ proc[p].pc = "put" /\ proc'[p].pc = "reread"
    /\ Keep(p, {"n", "op", "want", "wrote", "puts"})
    /\ flight' = flight \/ flight' = flight \cup {Request(p)}

\* The PUT at the head of puts is written.
Wrote(p) ==
    /\ Keep(p, {"n", "op", "want"})
    /\ proc'[p].wrote = TRUE /\ proc'[p].puts = Tail(proc[p].puts)
    /\ proc'[p].error = ""
    /\ proc'[p].pc = IF Len(proc[p].puts) = 1 THEN "unlock" ELSE "put"

\* A PUT is accepted.
LandOwn(p) ==
    /\ lock' = lock /\ flight' = flight /\ copy' = copy /\ syncs' = syncs /\ ended' = ended
    /\ Alone(p)
    /\ proc[p].pc = "put" /\ Accepts(Request(p)) /\ Lands(Request(p))
    /\ \/ Wrote(p)
       \/ proc'[p].pc = "reread" /\ Keep(p, {"n", "op", "want", "wrote", "puts"})

\* The re-read shows that it was.
Advance(p) ==
    /\ Still /\ lock' = lock /\ ended' = ended /\ Alone(p)
    /\ proc[p].pc = "reread" /\ Wrote(p)
    /\ file[proc[p].puts[1].file] = proc[p].puts[1].body

LateLand(put) ==
    /\ put \in flight /\ flight' = flight \ {put}
    /\ Accepts(put) /\ Lands(put)
    /\ lock' = lock /\ copy' = copy /\ syncs' = syncs /\ ended' = ended /\ proc' = proc

Drop(put) ==
    /\ put \in flight /\ flight' = flight \ {put}
    /\ file' = file /\ landed' = landed
    /\ lock' = lock /\ copy' = copy /\ syncs' = syncs /\ ended' = ended /\ proc' = proc

\* The operation is over.
Over(p, result) ==
    /\ file' = file /\ copy' = copy /\ landed' = landed /\ syncs' = syncs
    /\ lock' = lock /\ Alone(p)
    /\ proc[p].pc # "idle" /\ proc'[p].pc = "idle" /\ Keep(p, {"n"})
    /\ ended' = ended \cup {[token |-> Token(p), op |-> proc[p].op, result |-> result]}
    /\ \/ flight' = flight
       \/ proc[p].pc = "put" /\ result = "died" /\ flight' = flight \cup {Request(p)}
    /\ result \in {"refused", "unchanged"} => Sent(p) = {}
    /\ result \in {"ok", "lost", "readback"} => proc[p].wrote
    /\ result = "both" => proc[p].wrote /\ Crosses(proc[p].op)
    /\ result = "lost" => ~Holds(file[proc[p].op.dst], proc[p].op, proc[p].want)

Expired ==
    /\ Still /\ ended' = ended /\ proc' = proc
    /\ \A f \in Files : lock'[f] = lock[f] \/ lock'[f] = Free


\* The requests of a process that has some left.
LEMMA Requests ==
    ASSUME Typed, Phases, NEW p \in Procs, Sends(p)
    PROVE  /\ Busy(p) /\ proc[p].op \in Ops /\ proc[p].op \in Op
           /\ proc[p].puts \in Seq(PutOf) /\ proc[p].puts # <<>>
           /\ Len(proc[p].puts) = IF Crosses(proc[p].op) /\ ~proc[p].wrote THEN 2 ELSE 1
           /\ DOMAIN proc[p].puts = 1..Len(proc[p].puts)
           /\ \A i \in DOMAIN proc[p].puts :
                 proc[p].puts[i].file \in Files /\ proc[p].puts[i].body \in Content
           /\ Head(proc[p].puts) = proc[p].puts[1]
           /\ Request(p).file = proc[p].puts[1].file /\ Request(p).body = proc[p].puts[1].body
           /\ Request(p).token = Token(p) /\ Request(p).id = proc[p].op.id
           /\ Request(p) \in [file : Files, body : Content, token : Tokens, id : STRING]
           /\ proc[p].wrote => Crosses(proc[p].op) /\ proc[p].puts[1].file = proc[p].op.file
           /\ ~proc[p].wrote => proc[p].puts[1].file = proc[p].op.dst
           /\ Len(proc[p].puts) = 2 => proc[p].puts[2].file = proc[p].op.file
<1>1. /\ Busy(p) /\ proc[p].op \in Ops
      /\ Len(proc[p].puts) = IF Crosses(proc[p].op) /\ ~proc[p].wrote THEN 2 ELSE 1
      /\ proc[p].puts[Len(proc[p].puts)].file = proc[p].op.file
      /\ proc[p].wrote => Crosses(proc[p].op)
      /\ ~proc[p].wrote => proc[p].puts[1].file = proc[p].op.dst
  BY DEF Phases, Phase, PhaseOf, Sends, Busy
<1>2. /\ proc[p].puts \in Seq(PutOf) /\ Token(p) \in Tokens
      /\ DOMAIN proc[p].puts = 1..Len(proc[p].puts)
      /\ \A i \in DOMAIN proc[p].puts :
            proc[p].puts[i].file \in Files /\ proc[p].puts[i].body \in Content
  BY ProcTyped, PutsTyped
<1>3. Len(proc[p].puts) = 1 \/ Len(proc[p].puts) = 2
  BY <1>1
<1>4. proc[p].puts # <<>> /\ Head(proc[p].puts) = proc[p].puts[1] /\ 1 \in DOMAIN proc[p].puts
  <2>2. PICK l \in Seq(PutOf) : l = proc[p].puts
    BY <1>2
  <2>6. Len(l) = 1 \/ Len(l) = 2
    BY <1>3, <2>2, Zenon
  <2>3. Len(l) # 0
    BY <2>6
  <2>7. DOMAIN l = 1..Len(l)
    BY <1>2, <2>2, Zenon
  <2>8. 1 \in DOMAIN l
    BY <2>6, <2>7
  <2>1. 1 \in DOMAIN proc[p].puts
    BY <2>2, <2>8, Zenon
  <2>4. l # <<>>
    BY <2>3, EmptySeq
  <2>5. Head(l) = l[1]
    BY <2>4, HeadTailProperties
  <2> QED BY <2>1, <2>2, <2>4, <2>5
<1>5. proc[p].op \in Op /\ proc[p].op.id \in STRING
  BY <1>1, Assumed
<1>6. /\ Request(p).file = proc[p].puts[1].file /\ Request(p).body = proc[p].puts[1].body
      /\ Request(p).token = Token(p) /\ Request(p).id = proc[p].op.id
      /\ Request(p) \in [file : Files, body : Content, token : Tokens, id : STRING]
  BY <1>2, <1>4, <1>5 DEF Request
<1> QED BY <1>1, <1>2, <1>3, <1>4, <1>5, <1>6

LEMMA WrittenStep ==
    ASSUME Typed, Phases, NEW p \in Procs, Sends(p), proc' = Written(p)
    PROVE  Wrote(p) /\ Alone(p) /\ proc' \in [Procs -> Process] /\ Phases'
<1> DEFINE r == [proc[p] EXCEPT !.puts = Tail(@), !.wrote = TRUE,
                               !.pc = IF Len(proc[p].puts) = 1 THEN "unlock" ELSE "put"]
<1>1. /\ proc[p].puts \in Seq(PutOf) /\ proc[p].puts # <<>> /\ proc[p] \in Process
      /\ Len(proc[p].puts) = IF Crosses(proc[p].op) /\ ~proc[p].wrote THEN 2 ELSE 1
      /\ Len(proc[p].puts) = 2 => proc[p].puts[2].file = proc[p].op.file
  BY Requests, ProcTyped
<1>2. /\ Tail(proc[p].puts) \in Seq(PutOf) /\ Len(Tail(proc[p].puts)) = Len(proc[p].puts) - 1
      /\ \A i \in 1..(Len(proc[p].puts) - 1) : Tail(proc[p].puts)[i] = proc[p].puts[i + 1]
  BY <1>1, HeadTailProperties
<1>3. proc' = [proc EXCEPT ![p] = r]
  BY <1>1 DEF Written, Typed
<1>4. r \in Process
  BY <1>1, <1>2 DEF Process, States
<1>5. /\ r.n = proc[p].n /\ r.op = proc[p].op /\ r.want = proc[p].want
      /\ r.puts = Tail(proc[p].puts) /\ r.error = proc[p].error
      /\ r.pc = IF Len(proc[p].puts) = 1 THEN "unlock" ELSE "put"
  BY <1>1 DEF Process
<1>6. r.wrote = TRUE
  BY <1>1 DEF Process
<1> HIDE DEF r
<1>7. proc'[p] = r /\ Alone(p) /\ proc' \in [Procs -> Process]
  BY <1>3, <1>4, ProcStep
<1>8. /\ proc[p].op \in Ops /\ proc[p].n > 0 /\ proc[p].error = ""
  BY DEF Phases, Phase, PhaseOf, Sends
<1>9. PhaseOf(r)
  <2>1. CASE Len(proc[p].puts) = 1
    <3>1. r.pc = "unlock" /\ r.wrote /\ r.error = "" /\ r.op \in Ops /\ r.n > 0
      BY <2>1, <1>5, <1>6, <1>8
    <3> QED BY <3>1 DEF PhaseOf
  <2>2. CASE Len(proc[p].puts) = 2
    <3>4. Crosses(proc[p].op)
      BY <2>2, <1>1
    <3>6. Len(proc[p].puts) # 1
      BY <2>2
    <3>7. r.pc = "put"
      BY <1>5, <3>6, Zenon
    <3>5. r.pc = "put" /\ r.wrote /\ r.error = "" /\ r.op \in Ops /\ r.n > 0
      BY <1>5, <1>6, <1>8, <3>7
    <3>1. r.pc = "put" /\ r.wrote /\ r.error = "" /\ r.op \in Ops /\ r.n > 0 /\ Crosses(r.op)
      BY <1>5, <3>4, <3>5
    <3>2. Len(r.puts) = 1 /\ r.puts[1] = proc[p].puts[2]
      BY <2>2, <1>2, <1>5
    <3>3. r.puts[Len(r.puts)].file = r.op.file
      BY <3>2, <2>2, <1>1, <1>5
    <3> QED BY <3>1, <3>2, <3>3 DEF PhaseOf
  <2> QED BY <1>1, <2>1, <2>2
<1>10. Phases'
  BY <1>7, <1>9, AlonePhases DEF Phase
<1>11. Wrote(p)
  <2>1. Keep(p, {"n", "op", "want"})
    BY <1>5, <1>7 DEF Keep
  <2> QED BY <2>1, <1>5, <1>6, <1>7, <1>8 DEF Wrote
<1> QED BY <1>7, <1>10, <1>11

\* A process waits for an answer no more.
LEMMA RereadStep1 ==
    ASSUME Typed, Phases, NEW p \in Procs, proc[p].pc = "put",
           proc' = [proc EXCEPT ![p].pc = "reread"]
    PROVE  /\ proc'[p].pc = "reread" /\ Keep(p, {"n", "op", "want", "wrote", "puts"})
           /\ Alone(p) /\ proc' \in [Procs -> Process] /\ Phases'
<1> DEFINE r == [proc[p] EXCEPT !.pc = "reread"]
<1>1. proc[p] \in Process
  BY ProcTyped
<1>2. proc' = [proc EXCEPT ![p] = r]
  BY <1>1 DEF Typed
<1>3. r \in Process
  BY <1>1 DEF Process, States
<1>4. /\ r.pc = "reread" /\ r.n = proc[p].n /\ r.op = proc[p].op /\ r.want = proc[p].want
      /\ r.wrote = proc[p].wrote /\ r.error = proc[p].error /\ r.puts = proc[p].puts
  BY <1>1 DEF Process
<1> HIDE DEF r
<1>5. proc'[p] = r /\ Alone(p) /\ proc' \in [Procs -> Process]
  BY <1>2, <1>3, ProcStep
<1>6. PhaseOf(r)
  <2>1. PhaseOf(proc[p])
    BY DEF Phases, Phase
  <2> QED BY <2>1, <1>4 DEF PhaseOf
<1>7. Phases'
  BY <1>5, <1>6, AlonePhases DEF Phase
<1>8. Keep(p, {"n", "op", "want", "wrote", "puts"})
  BY <1>4, <1>5 DEF Keep
<1> QED BY <1>4, <1>5, <1>7, <1>8

LEMMA LandsTyped ==
    ASSUME Typed,
           NEW put \in [file : Files, body : Content, token : Tokens, id : STRING], Lands(put)
    PROVE  /\ file' \in [Files -> Content]
           /\ landed' \subseteq [token : Tokens, file : Files, id : STRING]
BY DEF Typed, Lands

LEMMA PutStep ==
    ASSUME Typed, Phases, NEW p \in Procs, Put(p)
    PROVE  /\ Calm(p) \/ Settle(p) \/ LandOwn(p)
           /\ Typed' /\ Phases'
<1>1. /\ proc[p].pc = "put" /\ Busy(p) /\ Sends(p)
      /\ ended' = ended /\ lock' = lock /\ copy' = copy /\ syncs' = syncs
  BY DEF Put, Busy, Sends
<1>2. Request(p) \in [file : Files, body : Content, token : Tokens, id : STRING]
  BY <1>1, Requests
<1>3. CASE Accepts(Request(p)) /\ Lands(Request(p)) /\ proc' = Written(p) /\ flight' = flight
  <2>1. Wrote(p) /\ Alone(p) /\ proc' \in [Procs -> Process] /\ Phases'
    BY <1>1, <1>3, WrittenStep
  <2>2. LandOwn(p)
    BY <1>1, <1>3, <2>1 DEF LandOwn
  <2>3. /\ file' \in [Files -> Content]
        /\ landed' \subseteq [token : Tokens, file : Files, id : STRING]
    BY <1>2, <1>3 DEF Lands, Typed
  <2> QED BY <1>1, <1>3, <2>1, <2>2, <2>3 DEF Typed
<1>4. CASE /\ proc' = PutFailed(p, "refused")
           /\ file' = file /\ landed' = landed /\ flight' = flight
  <2>1. Still /\ proc[p].wrote \in BOOLEAN
    BY <1>1, <1>4, ProcTyped DEF Still
  <2>2. proc' = Failed(p, IF proc[p].wrote THEN "both" ELSE "refused")
    BY <1>4 DEF PutFailed
  <2>3. CASE proc[p].wrote
    <3>1. proc' = Failed(p, "both")
      BY <2>2, <2>3
    <3>2. Calm(p) /\ proc' \in [Procs -> Process] /\ Phases'
      BY <1>1, <2>1, <2>3, <3>1, FailedCalm
    <3> QED BY <1>1, <1>4, <3>2 DEF Typed
  <2>4. CASE ~proc[p].wrote
    <3>1. proc' = Failed(p, "refused")
      BY <2>2, <2>4
    <3>2. Calm(p) /\ proc' \in [Procs -> Process] /\ Phases'
      BY <1>1, <2>1, <2>4, <3>1, FailedCalm
    <3> QED BY <1>1, <1>4, <3>2 DEF Typed
  <2> QED BY <2>3, <2>4
<1>5. CASE /\ proc' = [proc EXCEPT ![p].pc = "reread"]
           /\ Accepts(Request(p)) /\ Lands(Request(p)) /\ flight' = flight
  <2>1. /\ proc'[p].pc = "reread" /\ Keep(p, {"n", "op", "want", "wrote", "puts"})
        /\ Alone(p) /\ proc' \in [Procs -> Process] /\ Phases'
    BY <1>1, <1>5, RereadStep1
  <2>2. LandOwn(p)
    BY <1>1, <1>5, <2>1 DEF LandOwn
  <2>3. /\ file' \in [Files -> Content]
        /\ landed' \subseteq [token : Tokens, file : Files, id : STRING]
    BY <1>2, <1>5 DEF Lands, Typed
  <2> QED BY <1>1, <1>5, <2>1, <2>2, <2>3 DEF Typed
<1>6. CASE /\ proc' = [proc EXCEPT ![p].pc = "reread"]
           /\ file' = file /\ landed' = landed
           /\ flight' = flight \/ flight' = flight \cup {Request(p)}
  <2>1. /\ proc'[p].pc = "reread" /\ Keep(p, {"n", "op", "want", "wrote", "puts"})
        /\ Alone(p) /\ proc' \in [Procs -> Process] /\ Phases'
    BY <1>1, <1>6, RereadStep1
  <2>2. Settle(p)
    BY <1>1, <1>6, <2>1 DEF Settle
  <2> QED BY <1>1, <1>2, <1>6, <2>1, <2>2 DEF Typed
<1>7. <1>3!1 \/ <1>4!1 \/ <1>5!1 \/ <1>6!1
  BY DEF Put
<1> QED BY <1>3, <1>4, <1>5, <1>6, <1>7


LEMMA RereadStep ==
    ASSUME Typed, Phases, NEW p \in Procs, Reread(p)
    PROVE  /\ Calm(p) \/ Advance(p)
           /\ Typed' /\ Phases'
<1>1. /\ proc[p].pc = "reread" /\ Busy(p) /\ Sends(p) /\ Still
      /\ ended' = ended /\ lock' = lock
  BY DEF Reread, Busy, Sends, Still, Server, Others
<1>2. Head(proc[p].puts) = proc[p].puts[1]
  BY <1>1, Requests
<1>3. CASE proc' = PutFailed(p, "unknown")
  <2>1. proc[p].wrote \in BOOLEAN
    BY ProcTyped
  <2>2. proc' = Failed(p, IF proc[p].wrote THEN "both" ELSE "unknown")
    BY <1>3 DEF PutFailed
  <2>3. CASE proc[p].wrote
    <3>1. proc' = Failed(p, "both")
      BY <2>2, <2>3
    <3>2. Calm(p) /\ proc' \in [Procs -> Process] /\ Phases'
      BY <1>1, <2>3, <3>1, FailedCalm
    <3> QED BY <1>1, <3>2 DEF Typed, Still
  <2>4. CASE ~proc[p].wrote
    <3>1. proc' = Failed(p, "unknown")
      BY <2>2, <2>4
    <3>2. Calm(p) /\ proc' \in [Procs -> Process] /\ Phases'
      BY <1>1, <2>4, <3>1, FailedCalm
    <3> QED BY <1>1, <3>2 DEF Typed, Still
  <2> QED BY <2>3, <2>4
<1>4. CASE file[proc[p].puts[1].file] = proc[p].puts[1].body /\ proc' = Written(p)
  <2>1. Wrote(p) /\ Alone(p) /\ proc' \in [Procs -> Process] /\ Phases'
    BY <1>1, <1>4, WrittenStep
  <2>2. Advance(p)
    BY <1>1, <1>4, <2>1 DEF Advance
  <2> QED BY <1>1, <2>1, <2>2 DEF Typed, Still
<1>5. <1>3!1 \/ <1>4!1
  BY <1>2 DEF Reread
<1> QED BY <1>3, <1>4, <1>5

LEMMA LatePutStep ==
    ASSUME Typed, Phases, NEW put \in flight, LatePut(put)
    PROVE  /\ LateLand(put) \/ Drop(put)
           /\ Typed' /\ Phases'
<1>1. put \in [file : Files, body : Content, token : Tokens, id : STRING]
  BY DEF Typed
<1>2. /\ put \in flight /\ flight' = flight \ {put} /\ lock' = lock /\ proc' = proc
      /\ copy' = copy /\ ended' = ended /\ syncs' = syncs
  BY DEF LatePut
<1>3. Phases'
  BY <1>2 DEF Phases, Phase
<1>4. CASE Accepts(put) /\ Lands(put)
  <2>1. /\ file' \in [Files -> Content]
        /\ landed' \subseteq [token : Tokens, file : Files, id : STRING]
    BY <1>1, <1>4 DEF Lands, Typed
  <2>2. LateLand(put)
    BY <1>2, <1>4 DEF LateLand
  <2> QED BY <1>2, <1>3, <2>1, <2>2 DEF Typed
<1>5. CASE file' = file /\ landed' = landed
  <2>1. Drop(put)
    BY <1>2, <1>5 DEF Drop
  <2> QED BY <1>2, <1>3, <1>5, <2>1 DEF Typed
<1>6. <1>4!1 \/ <1>5!1
  BY DEF LatePut
<1> QED BY <1>4, <1>5, <1>6

LEMMA UnlockStep ==
    ASSUME Typed, Phases, NEW p \in Procs, NEW f \in Files, Unlock(p, f)
    PROVE  Calm(p) /\ Typed' /\ Phases'
<1> DEFINE r == [proc[p] EXCEPT !.held = @ \ {f}]
<1>1. /\ proc[p].pc = "unlock" /\ Still /\ ended' = ended
  BY DEF Unlock, Still
<1>2. /\ lock' \in [Files -> Tokens \cup {Free}]
      /\ \A g \in Files : lock'[g] = lock[g] \/ lock'[g] = Free
  BY DEF Unlock, Typed
<1>3. proc[p] \in Process
  BY ProcTyped
<1>4. proc' = [proc EXCEPT ![p] = r]
  BY <1>3 DEF Unlock, Typed
<1>5. r \in Process
  BY <1>3 DEF Process
<1>6. /\ r.pc = "unlock" /\ r.n = proc[p].n /\ r.op = proc[p].op /\ r.want = proc[p].want
      /\ r.wrote = proc[p].wrote /\ r.error = proc[p].error
  BY <1>1, <1>3 DEF Process
<1> HIDE DEF r
<1>7. proc'[p] = r /\ Alone(p) /\ proc' \in [Procs -> Process]
  BY <1>4, <1>5, ProcStep
<1>8. PhaseOf(r)
  <2>1. PhaseOf(proc[p])
    BY DEF Phases, Phase
  <2> QED BY <2>1, <1>1, <1>6 DEF PhaseOf
<1>9. Phases'
  BY <1>7, <1>8, AlonePhases DEF Phase
<1>10. Keep(p, {"n", "op", "want", "wrote"})
  BY <1>6, <1>7 DEF Keep
<1>11. Sent(p) \subseteq Sent(p)'
  BY <1>1, <1>6, <1>7 DEF Sent
<1>12. Calm(p)
  BY <1>1, <1>2, <1>6, <1>7, <1>10, <1>11 DEF Calm
<1> QED BY <1>1, <1>2, <1>7, <1>9, <1>12 DEF Typed, Still

\* A process goes on to the next read-back.
LEMMA VerifyOn ==
    ASSUME Typed, Phases, NEW p \in Procs, NEW pc \in {"verify", "verifysrc"},
           NEW checks \in {0, 1},
           proc[p].pc \in {"unlock", "verify", "verifysrc"}, proc[p].error = "",
           proc' = [proc EXCEPT ![p] = [proc[p] EXCEPT !.pc = pc, !.checks = checks]],
           Still, ended' = ended, lock' = lock
    PROVE  Calm(p) /\ Typed' /\ Phases'
<1> DEFINE r == [proc[p] EXCEPT !.pc = pc, !.checks = checks]
<1>3. proc[p] \in Process
  BY ProcTyped
<1>4. proc' = [proc EXCEPT ![p] = r]
  OBVIOUS
<1>5. r \in Process
  BY <1>3 DEF Process, States
<1>6. /\ r.pc = pc /\ r.n = proc[p].n /\ r.op = proc[p].op /\ r.want = proc[p].want
      /\ r.wrote = proc[p].wrote /\ r.error = proc[p].error
  BY <1>3 DEF Process
<1> HIDE DEF r
<1>7. proc'[p] = r /\ Alone(p) /\ proc' \in [Procs -> Process]
  BY <1>4, <1>5, ProcStep
<1>8. PhaseOf(r)
  <2>1. PhaseOf(proc[p])
    BY DEF Phases, Phase
  <2> QED BY <2>1, <1>6 DEF PhaseOf
<1>9. Phases'
  BY <1>7, <1>8, AlonePhases DEF Phase
<1>10. Keep(p, {"n", "op", "want", "wrote"})
  BY <1>6, <1>7 DEF Keep
<1>11. Sent(p) \subseteq Sent(p)'
  BY <1>6, <1>7 DEF Sent
<1>12. Calm(p)
  BY <1>6, <1>7, <1>10, <1>11 DEF Calm
<1> QED BY <1>7, <1>9, <1>12 DEF Typed, Still


LEMMA EndsStep ==
    ASSUME Typed, Phases, NEW p \in Procs, Busy(p), NEW result \in Results, Ends(p, result)
    PROVE  /\ proc[p].pc # "idle" /\ proc'[p].pc = "idle" /\ Keep(p, {"n"}) /\ Alone(p)
           /\ ended' = ended \cup {[token |-> Token(p), op |-> proc[p].op, result |-> result]}
           /\ proc' \in [Procs -> Process] /\ Phases'
           /\ ended' \subseteq [token : Tokens, op : Op, result : Results]
<1> DEFINE r == [Idle EXCEPT !.n = proc[p].n]
<1>1. proc' = [proc EXCEPT ![p] = r]
      /\ ended' = ended \cup {[token |-> Token(p), op |-> proc[p].op, result |-> result]}
  BY DEF Ends
<1>2. proc[p].n \in Nat /\ Token(p) \in Tokens
  BY ProcTyped
<1>3. r \in Process
  BY <1>2, IdleType DEF Process
<1>4. r.pc = "idle" /\ r.n = proc[p].n /\ ~r.wrote /\ r.error = ""
  BY DEF Idle
<1>5. r = [Idle EXCEPT !.n = r.n]
  BY <1>4
<1> HIDE DEF r
<1>6. proc'[p] = r /\ Alone(p) /\ proc' \in [Procs -> Process]
  BY <1>1, <1>3, ProcStep
<1>7. PhaseOf(r)
  BY <1>4, <1>5 DEF PhaseOf
<1>8. Phases'
  BY <1>6, <1>7, AlonePhases DEF Phase
<1>9. proc[p].pc # "idle" /\ proc'[p].pc = "idle" /\ Keep(p, {"n"})
  BY <1>4, <1>6 DEF Busy, Keep
<1>10. proc[p].op \in Op
  BY Assumed DEF Phases, Phase, PhaseOf, Busy
<1>11. ended' \subseteq [token : Tokens, op : Op, result : Results]
  BY <1>1, <1>2, <1>10 DEF Typed
<1> QED BY <1>1, <1>6, <1>8, <1>9, <1>11

\* An operation whose locks are given back ends, or is read back.
LEMMA UnlockedStep ==
    ASSUME Typed, Phases, NEW p \in Procs, Unlocked(p)
    PROVE  /\ Calm(p) \/ \E result \in Results : Over(p, result)
           /\ Typed' /\ Phases'
<1>1. /\ proc[p].pc = "unlock" /\ Busy(p) /\ Still /\ lock' = lock
  BY DEF Unlocked, Busy, Still, Server, Others
<1>2. PhaseOf(proc[p]) /\ proc[p] \in Process
  BY ProcTyped DEF Phases, Phase
<1>3. CASE proc[p].error # "" /\ Ends(p, proc[p].error)
  <2>1. PICK result \in {"refused", "unchanged", "unknown", "both"} : result = proc[p].error
    BY <1>2, <1>3 DEF PhaseOf
  <2>2. Ends(p, result) /\ result \in Results
    BY <1>3, <2>1 DEF Results
  <2>3. /\ proc[p].pc # "idle" /\ proc'[p].pc = "idle" /\ Keep(p, {"n"}) /\ Alone(p)
        /\ ended' = ended \cup {[token |-> Token(p), op |-> proc[p].op, result |-> result]}
        /\ proc' \in [Procs -> Process] /\ Phases'
        /\ ended' \subseteq [token : Tokens, op : Op, result : Results]
    BY <1>1, <2>2, EndsStep
  <2>4. result \in {"refused", "unchanged"} => Sent(p) = {}
    BY <1>1, <2>1 DEF Sent
  <2>5. result = "both" => proc[p].wrote /\ Crosses(proc[p].op)
    BY <1>1, <1>2, <2>1 DEF PhaseOf
  <2>6. Over(p, result)
    BY <1>1, <2>1, <2>3, <2>4, <2>5 DEF Over, Still
  <2> QED BY <1>1, <2>2, <2>3, <2>6 DEF Typed, Still
<1>4. CASE /\ proc[p].error = "" /\ proc' = [proc EXCEPT ![p].pc = "verify"]
           /\ ended' = ended
  <2>1. PICK checks \in {0, 1} : checks = proc[p].checks
    BY <1>2 DEF Process
  <2>2. [proc[p] EXCEPT !.pc = "verify"] = [proc[p] EXCEPT !.pc = "verify", !.checks = checks]
    BY <1>2, <2>1 DEF Process
  <2>3. proc' = [proc EXCEPT ![p] = [proc[p] EXCEPT !.pc = "verify"]]
    BY <1>4 DEF Typed
  <2>4. proc' = [proc EXCEPT ![p] = [proc[p] EXCEPT !.pc = "verify", !.checks = checks]]
    BY <2>2, <2>3
  <2> QED BY <1>1, <1>4, <2>4, VerifyOn
<1>5. <1>3!1 \/ <1>4!1
  BY DEF Unlocked
<1> QED BY <1>3, <1>4, <1>5

\* The answer of a read-back.
LEMMA AnswerStep ==
    ASSUME Typed, Phases, NEW p \in Procs, proc[p].pc \in {"verify", "verifysrc"},
           Still, lock' = lock,
           NEW result \in {"ok", "lost", "back", "readback"}, Ends(p, result),
           result = "lost" => ~Holds(file[proc[p].op.dst], proc[p].op, proc[p].want)
    PROVE  Over(p, result) /\ result \in Results /\ Typed' /\ Phases'
<1>1. Busy(p) /\ result \in Results /\ proc[p].wrote
  BY DEF Busy, Results, Phases, Phase, PhaseOf
<1>2. /\ proc[p].pc # "idle" /\ proc'[p].pc = "idle" /\ Keep(p, {"n"}) /\ Alone(p)
      /\ ended' = ended \cup {[token |-> Token(p), op |-> proc[p].op, result |-> result]}
      /\ proc' \in [Procs -> Process] /\ Phases'
      /\ ended' \subseteq [token : Tokens, op : Op, result : Results]
  BY <1>1, EndsStep
<1>3. Over(p, result)
  BY <1>1, <1>2 DEF Over, Still
<1> QED BY <1>1, <1>2, <1>3 DEF Typed, Still

LEMMA CheckedStep ==
    ASSUME Typed, Phases, NEW p \in Procs, proc[p].pc \in {"verify", "verifysrc"},
           Still, lock' = lock, Checked(p)
    PROVE  /\ Calm(p) \/ \E result \in Results : Over(p, result)
           /\ Typed' /\ Phases'
<1>1. CASE Ends(p, "ok")
  BY <1>1, AnswerStep
<1>2. CASE ended' = ended /\ proc' = [proc EXCEPT ![p].pc = "verify", ![p].checks = 1]
  <2>1. proc[p].error = ""
    BY DEF Phases, Phase, PhaseOf
  <2>2. proc' = [proc EXCEPT ![p] = [proc[p] EXCEPT !.pc = "verify", !.checks = 1]]
    BY <1>2 DEF Typed
  <2> QED BY <1>2, <2>1, <2>2, VerifyOn
<1> QED BY <1>1, <1>2 DEF Checked

LEMMA VerifyStep ==
    ASSUME Typed, Phases, NEW p \in Procs, Verify(p)
    PROVE  /\ Calm(p) \/ \E result \in Results : Over(p, result)
           /\ Typed' /\ Phases'
<1>1. /\ proc[p].pc = "verify" /\ Still /\ lock' = lock
      /\ proc[p] \in Process /\ proc[p].error = ""
  BY ProcTyped DEF Verify, Still, Server, Others, Phases, Phase, PhaseOf
<1>2. CASE Ends(p, "readback")
  BY <1>1, <1>2, AnswerStep
<1>3. CASE Ends(p, "lost") /\ ~Holds(file[proc[p].op.dst], proc[p].op, proc[p].want)
  BY <1>1, <1>3, AnswerStep
<1>4. CASE Checked(p)
  BY <1>1, <1>4, CheckedStep
<1>5. CASE proc' = [proc EXCEPT ![p].pc = "verifysrc"] /\ ended' = ended
  <2>1. PICK checks \in {0, 1} : checks = proc[p].checks
    BY <1>1 DEF Process
  <2>2. [proc[p] EXCEPT !.pc = "verifysrc"] = [proc[p] EXCEPT !.pc = "verifysrc", !.checks = checks]
    BY <1>1, <2>1 DEF Process
  <2>3. proc' = [proc EXCEPT ![p] = [proc[p] EXCEPT !.pc = "verifysrc"]]
    BY <1>5 DEF Typed
  <2>4. proc' = [proc EXCEPT ![p] = [proc[p] EXCEPT !.pc = "verifysrc", !.checks = checks]]
    BY <2>2, <2>3
  <2> QED BY <1>1, <1>5, <2>4, VerifyOn
<1>6. <1>2!1 \/ <1>3!1 \/ <1>4!1 \/ <1>5!1
  BY DEF Verify, ReadBack
<1> QED BY <1>2, <1>3, <1>4, <1>5, <1>6

LEMMA VerifySourceStep ==
    ASSUME Typed, Phases, NEW p \in Procs, VerifySource(p)
    PROVE  /\ Calm(p) \/ \E result \in Results : Over(p, result)
           /\ Typed' /\ Phases'
<1>1. /\ proc[p].pc = "verifysrc" /\ Still /\ lock' = lock
  BY DEF VerifySource, Still, Server, Others
<1>2. CASE Ends(p, "readback")
  BY <1>1, <1>2, AnswerStep
<1>3. CASE Ends(p, "back")
  BY <1>1, <1>3, AnswerStep
<1>4. CASE Checked(p)
  BY <1>1, <1>4, CheckedStep
<1>5. <1>2!1 \/ <1>3!1 \/ <1>4!1
  BY DEF VerifySource
<1> QED BY <1>2, <1>3, <1>4, <1>5

LEMMA DieStep ==
    ASSUME Typed, Phases, NEW p \in Procs, Die(p)
    PROVE  Over(p, "died") /\ Typed' /\ Phases'
<1>1. /\ Busy(p) /\ Ends(p, "died") /\ "died" \in Results
      /\ file' = file /\ lock' = lock /\ landed' = landed /\ copy' = copy /\ syncs' = syncs
      /\ \/ flight' = flight
         \/ proc[p].pc = "put" /\ flight' = flight \cup {Request(p)}
  BY DEF Die, Busy, Others, Results
<1>2. /\ proc[p].pc # "idle" /\ proc'[p].pc = "idle" /\ Keep(p, {"n"}) /\ Alone(p)
      /\ ended' = ended \cup {[token |-> Token(p), op |-> proc[p].op, result |-> "died"]}
      /\ proc' \in [Procs -> Process] /\ Phases'
      /\ ended' \subseteq [token : Tokens, op : Op, result : Results]
  BY <1>1, EndsStep
<1>3. flight' \subseteq [file : Files, body : Content, token : Tokens, id : STRING]
  BY <1>1, Requests DEF Typed, Sends
<1>4. Over(p, "died")
  BY <1>1, <1>2 DEF Over
<1> QED BY <1>1, <1>2, <1>3, <1>4 DEF Typed

LEMMA ExpireStep ==
    ASSUME Typed, Phases, NEW f \in Files, Expire(f)
    PROVE  Expired /\ Typed' /\ Phases'
<1>1. /\ Still /\ ended' = ended /\ proc' = proc /\ lock' = [lock EXCEPT ![f] = Free]
  BY DEF Expire, Still, Others
<1>2. /\ lock' \in [Files -> Tokens \cup {Free}]
      /\ \A g \in Files : lock'[g] = lock[g] \/ lock'[g] = Free
  BY <1>1 DEF Typed
<1>3. Phases'
  BY <1>1 DEF Phases, Phase
<1> QED BY <1>1, <1>2, <1>3 DEF Expired, Typed, Still


\* Orgzly's upload: what it read, maybe with an increment of its own.
OrgzlyWrote(f, b, i) ==
    /\ flight' = flight /\ landed' = landed /\ proc' = proc /\ ended' = ended /\ lock' = lock
    /\ syncs' = syncs + 1
    /\ lock[f] = Free /\ copy[f] # NoOp /\ b = copy[f].body
    /\ \A g \in Files : g # f => file'[g] = file[g] /\ copy'[g] = copy[g]
    /\ copy'[f] = NoOp
    /\ \/ file'[f] = b
       \/ /\ i \in 1..Len(b)
          /\ file'[f] = [b EXCEPT ![i] = [b[i] EXCEPT !.marks = Append(@, <<"orgzly", syncs>>)]]

LEMMA CopyFacts ==
    ASSUME Typed, NEW f \in Files, copy[f] # NoOp
    PROVE  copy[f].body \in Content /\ copy[f] = [body |-> copy[f].body]
<1>1. copy[f] \in [body : Content]
  BY DEF Typed
<1> QED BY <1>1

LEMMA OrgzlyReadStep ==
    ASSUME Typed, Phases, NEW f \in Files, OrgzlyRead(f)
    PROVE  Typed' /\ Phases'
<1>1. /\ file' = file /\ lock' = lock /\ flight' = flight /\ landed' = landed /\ proc' = proc
      /\ ended' = ended /\ syncs' = syncs /\ copy' = [copy EXCEPT ![f] = [body |-> file[f]]]
  BY DEF OrgzlyRead, Server
<1>2. [body |-> file[f]] \in [body : Content]
  BY DEF Typed
<1>3. Phases'
  BY <1>1 DEF Phases, Phase
<1> QED BY <1>1, <1>2, <1>3 DEF Typed

\* Orgzly's increment.
LEMMA OrgzlyEdit ==
    ASSUME NEW b \in Content, NEW i \in 1..Len(b), NEW n \in Nat
    PROVE  LET m == <<"orgzly", n>>
               c == [b EXCEPT ![i] = [b[i] EXCEPT !.marks = Append(@, m)]]
           IN /\ c \in Content /\ Len(c) = Len(b) /\ m \in Names
              /\ \A k \in 1..Len(b) : c[k].id = b[k].id
              /\ \A k \in 1..Len(b) : k # i => c[k] = b[k]
              /\ c[i].marks = Append(b[i].marks, m)
<1> DEFINE m == <<"orgzly", n>>
           h == [b[i] EXCEPT !.marks = Append(@, m)]
           c == [b EXCEPT ![i] = h]
<1>1. b[i] \in Entry /\ DOMAIN b = 1..Len(b) /\ Len(b) \in Nat
  BY ContentFacts
<1>2. m \in Names
  BY DEF Names
<1>3. Append(b[i].marks, m) \in Seq(Names)
  BY <1>1, <1>2, AppendProperties DEF Entry
<1>4. h \in Entry /\ h.id = b[i].id /\ h.marks = Append(b[i].marks, m)
  BY <1>1, <1>3 DEF Entry
<1> HIDE DEF h
<1>5. c \in Content /\ Len(c) = Len(b) /\ \A k \in 1..Len(b) : c[k] = IF k = i THEN h ELSE b[k]
  BY <1>1, <1>4, ExceptSeq DEF Content
<1>6. \A k \in 1..Len(b) : c[k].id = b[k].id
  BY <1>4, <1>5
<1>7. (\A k \in 1..Len(b) : k # i => c[k] = b[k]) /\ c[i].marks = Append(b[i].marks, m)
  BY <1>4, <1>5
<1>8. c = [b EXCEPT ![i] = [b[i] EXCEPT !.marks = Append(@, m)]]
  BY DEF h
<1> QED BY <1>2, <1>5, <1>6, <1>7, <1>8

LEMMA OrgzlyUploadStep ==
    ASSUME Typed, Phases, NEW f \in Files, OrgzlyUpload(f)
    PROVE  /\ \E b \in Content, i \in Nat : OrgzlyWrote(f, b, i)
           /\ Typed' /\ Phases'
<1>1. /\ lock' = lock /\ flight' = flight /\ landed' = landed /\ proc' = proc
      /\ ended' = ended /\ syncs' = syncs + 1 /\ copy' = [copy EXCEPT ![f] = NoOp]
      /\ copy[f] # NoOp /\ lock[f] = Free
  BY DEF OrgzlyUpload
<1>2. PICK b \in Content : b = copy[f].body
  BY <1>1, CopyFacts
<1>3. PICK i : i = find(b, OrgzlyEdits)
  OBVIOUS
<1>4. PICK n \in Nat : n = syncs
  BY DEF Typed
<1>5. i # 0 => i \in 1..Len(b)
  BY <1>3, HasFind
<1>6. i \in Nat
  <2>1. i # 0 => i \in Nat
    BY <1>5
  <2>2. i = 0 => i \in Nat
    OBVIOUS
  <2> QED BY <2>1, <2>2
<1>7. PICK c : c = IF i = 0 THEN b ELSE [b EXCEPT ![i] = [b[i] EXCEPT !.marks = Append(@, <<"orgzly", n>>)]]
  OBVIOUS
<1>8. c \in Content
  BY <1>5, <1>7, OrgzlyEdit
<1>9. file' = [file EXCEPT ![f] = c]
  <2>1. DOMAIN b = 1..Len(b)
    BY ContentFacts
  <2>2. file' = [file EXCEPT ![f] = IF i = 0 THEN b
                                    ELSE [b EXCEPT ![i].marks = Append(@, <<"orgzly", n>>)]]
    BY <1>2, <1>3, <1>4 DEF OrgzlyUpload
  <2>3. i # 0 => [b EXCEPT ![i].marks = Append(@, <<"orgzly", n>>)]
                   = [b EXCEPT ![i] = [b[i] EXCEPT !.marks = Append(@, <<"orgzly", n>>)]]
    BY <1>5, <2>1
  <2> QED BY <1>7, <2>2, <2>3
<1>10. file' \in [Files -> Content] /\ file'[f] = c /\ \A g \in Files : g # f => file'[g] = file[g]
  BY <1>8, <1>9 DEF Typed
<1>11. copy' \in [Files -> {NoOp} \cup [body : Content]] /\ copy'[f] = NoOp
       /\ \A g \in Files : g # f => copy'[g] = copy[g]
  BY <1>1 DEF Typed
<1>12. file'[f] = b
       \/ /\ i \in 1..Len(b)
          /\ file'[f] = [b EXCEPT ![i] = [b[i] EXCEPT !.marks = Append(@, <<"orgzly", syncs>>)]]
  BY <1>4, <1>5, <1>7, <1>10
<1>13. OrgzlyWrote(f, b, i)
  BY <1>1, <1>2, <1>10, <1>11, <1>12 DEF OrgzlyWrote
<1>14. Phases'
  BY <1>1 DEF Phases, Phase
<1>15. syncs' \in Nat
  BY <1>1, <1>4
<1> QED BY <1>1, <1>6, <1>10, <1>11, <1>13, <1>14, <1>15 DEF Typed

ProcessStep(p) ==
    \/ \E op \in Ops : Begins(p, op)
    \/ Calm(p) \/ Read(p)
    \/ \E out \in Content : PlanEdit(p, out)
    \/ \E i \in Nat : PlanMove(p, i)
    \/ Settle(p) \/ LandOwn(p) \/ Advance(p)
    \/ \E result \in Results : Over(p, result)

WorldStep ==
    \/ \E put \in flight : LateLand(put) \/ Drop(put)
    \/ Expired
    \/ \E f \in Files : OrgzlyRead(f) \/ \E b \in Content, i \in Nat : OrgzlyWrote(f, b, i)

LEMMA NextKinds ==
    ASSUME Typed, Phases, [Next]_vars
    PROVE  ((\E p \in Procs : ProcessStep(p)) \/ WorldStep) /\ Typed' /\ Phases'
<1>1. CASE UNCHANGED vars
  <2>1. Expired
    BY <1>1 DEF Expired, Still, vars
  <2>2. Typed' /\ Phases'
    BY <1>1 DEF Typed, Phases, Phase, vars
  <2> QED BY <2>1, <2>2 DEF WorldStep
<1>2. ASSUME NEW p \in Procs, NEW op \in Ops, Ask(p, op)
      PROVE  ((\E q \in Procs : ProcessStep(q)) \/ WorldStep) /\ Typed' /\ Phases'
  BY <1>2, AskStep DEF ProcessStep
<1>3. ASSUME NEW p \in Procs, Lock(p)
      PROVE  ((\E q \in Procs : ProcessStep(q)) \/ WorldStep) /\ Typed' /\ Phases'
  BY <1>3, LockStep DEF ProcessStep
<1>4. ASSUME NEW p \in Procs, Get(p)
      PROVE  ((\E q \in Procs : ProcessStep(q)) \/ WorldStep) /\ Typed' /\ Phases'
  BY <1>4, GetStep DEF ProcessStep
<1>5. ASSUME NEW p \in Procs, GetDst(p)
      PROVE  ((\E q \in Procs : ProcessStep(q)) \/ WorldStep) /\ Typed' /\ Phases'
  BY <1>5, GetDstStep DEF ProcessStep
<1>6. ASSUME NEW p \in Procs, Put(p)
      PROVE  ((\E q \in Procs : ProcessStep(q)) \/ WorldStep) /\ Typed' /\ Phases'
  BY <1>6, PutStep DEF ProcessStep
<1>7. ASSUME NEW p \in Procs, Reread(p)
      PROVE  ((\E q \in Procs : ProcessStep(q)) \/ WorldStep) /\ Typed' /\ Phases'
  BY <1>7, RereadStep DEF ProcessStep
<1>8. ASSUME NEW p \in Procs, NEW f \in Files, Unlock(p, f)
      PROVE  ((\E q \in Procs : ProcessStep(q)) \/ WorldStep) /\ Typed' /\ Phases'
  BY <1>8, UnlockStep DEF ProcessStep
<1>9. ASSUME NEW p \in Procs, Unlocked(p)
      PROVE  ((\E q \in Procs : ProcessStep(q)) \/ WorldStep) /\ Typed' /\ Phases'
  BY <1>9, UnlockedStep DEF ProcessStep
<1>10. ASSUME NEW p \in Procs, Verify(p)
       PROVE  ((\E q \in Procs : ProcessStep(q)) \/ WorldStep) /\ Typed' /\ Phases'
  BY <1>10, VerifyStep DEF ProcessStep
<1>11. ASSUME NEW p \in Procs, VerifySource(p)
       PROVE  ((\E q \in Procs : ProcessStep(q)) \/ WorldStep) /\ Typed' /\ Phases'
  BY <1>11, VerifySourceStep DEF ProcessStep
<1>12. ASSUME NEW p \in Procs, Die(p)
       PROVE  ((\E q \in Procs : ProcessStep(q)) \/ WorldStep) /\ Typed' /\ Phases'
  <2>1. "died" \in Results
    BY DEF Results
  <2> QED BY <1>12, <2>1, DieStep DEF ProcessStep
<1>13. ASSUME NEW put \in flight, LatePut(put)
       PROVE  ((\E q \in Procs : ProcessStep(q)) \/ WorldStep) /\ Typed' /\ Phases'
  BY <1>13, LatePutStep DEF WorldStep
<1>14. ASSUME NEW f \in Files, Expire(f)
       PROVE  ((\E q \in Procs : ProcessStep(q)) \/ WorldStep) /\ Typed' /\ Phases'
  BY <1>14, ExpireStep DEF WorldStep
<1>15. ASSUME NEW f \in Files, OrgzlyRead(f)
       PROVE  ((\E q \in Procs : ProcessStep(q)) \/ WorldStep) /\ Typed' /\ Phases'
  BY <1>15, OrgzlyReadStep DEF WorldStep
<1>16. ASSUME NEW f \in Files, OrgzlyUpload(f)
       PROVE  ((\E q \in Procs : ProcessStep(q)) \/ WorldStep) /\ Typed' /\ Phases'
  BY <1>16, OrgzlyUploadStep DEF WorldStep
<1>17. Done => UNCHANGED vars
  BY DEF Done
<1> QED BY <1>1, <1>2, <1>3, <1>4, <1>5, <1>6, <1>7, <1>8, <1>9, <1>10, <1>11, <1>12,
           <1>13, <1>14, <1>15, <1>16, <1>17 DEF Next


-----------------------------------------------------------------------------
(* What every step keeps: tokens are drawn once, what was asked for and what *)
(* landed stays known.                                                      *)

Fresh(op) ==
    op.kind = "create" => \A other \in AskedOps : other.kind = "create" => other.id # op.id

Basic ==
    /\ \A q \in Procs :
          \/ /\ proc'[q].n = proc[q].n
             /\ Busy(q)' => Busy(q) /\ proc'[q].op = proc[q].op
             /\ Busy(q) => Busy(q)' \/ \E e \in ended' : e.op = proc[q].op
          \/ /\ proc'[q].n = proc[q].n + 1 /\ ~Busy(q)
             /\ proc'[q].op \in Ops /\ Fresh(proc'[q].op)
    /\ \A f \in Files : \/ lock'[f] = lock[f] \/ lock'[f] = Free
                        \/ \E p \in Procs : Busy(p) /\ lock'[f] = Token(p)
    /\ \A put \in flight' : put \in flight \/ \E p \in Procs : Busy(p) /\ put.token = Token(p)
    /\ \A l \in landed' : \/ l \in landed \/ \E put \in flight : l.token = put.token
                          \/ \E p \in Procs : Busy(p) /\ l.token = Token(p)
    /\ \A e \in ended' :
          \/ e \in ended
          \/ \E p \in Procs : /\ Busy(p) /\ ~Busy(p)' /\ proc'[p].n = proc[p].n
                              /\ e.token = Token(p) /\ e.op = proc[p].op
    /\ ended \subseteq ended' /\ landed \subseteq landed'
    /\ syncs' = syncs \/ syncs' = syncs + 1

\* The step of one process.
LEMMA BasicAlone ==
    ASSUME NEW p \in Procs, Alone(p), Busy(p), proc'[p].n = proc[p].n,
           Busy(p)' => proc'[p].op = proc[p].op,
           \/ ended' = ended /\ Busy(p)'
           \/ /\ ~Busy(p)'
              /\ \E result : ended' = ended \cup {[token |-> Token(p), op |-> proc[p].op,
                                                  result |-> result]},
           \A f \in Files : \/ lock'[f] = lock[f] \/ lock'[f] = Free
                            \/ lock'[f] = Token(p),
           \A put \in flight' : put \in flight \/ put.token = Token(p),
           \A l \in landed' : l \in landed \/ l.token = Token(p),
           landed \subseteq landed', syncs' = syncs
    PROVE  Basic
<1>1. \A q \in Procs : q # p => proc'[q] = proc[q] /\ (Busy(q)' <=> Busy(q))
  BY DEF Alone, Busy
<1>2. Busy(p)' \/ \E e \in ended' : e.op = proc[p].op
  <2>1. SUFFICES ASSUME NEW result,
                        ended' = ended \cup {[token |-> Token(p), op |-> proc[p].op,
                                             result |-> result]}
                 PROVE  \E e \in ended' : e.op = proc[p].op
    OBVIOUS
  <2>2. PICK e : e = [token |-> Token(p), op |-> proc[p].op, result |-> result]
    OBVIOUS
  <2>3. e \in ended' /\ e.op = proc[p].op
    BY <2>1, <2>2
  <2> QED BY <2>3
<1>3. \A q \in Procs :
         /\ proc'[q].n = proc[q].n
         /\ Busy(q)' => Busy(q) /\ proc'[q].op = proc[q].op
         /\ Busy(q) => Busy(q)' \/ \E e \in ended' : e.op = proc[q].op
  BY <1>1, <1>2
<1>4. \A e \in ended' :
         \/ e \in ended
         \/ ~Busy(p)' /\ e.token = Token(p) /\ e.op = proc[p].op
  OBVIOUS
<1>5. ended \subseteq ended'
  OBVIOUS
<1> QED BY <1>3, <1>4, <1>5 DEF Basic

LEMMA BasicStep ==
    ASSUME Typed, Phases, (\E p \in Procs : ProcessStep(p)) \/ WorldStep
    PROVE  Basic
<1>1. ASSUME NEW p \in Procs, NEW op \in Ops, Begins(p, op) PROVE Basic
  <2>1. \A q \in Procs : q # p => proc'[q] = proc[q] /\ (Busy(q)' <=> Busy(q))
    BY <1>1 DEF Begins, Alone, Busy
  <2>2. /\ proc'[p].n = proc[p].n + 1 /\ ~Busy(p)
        /\ proc'[p].op \in Ops /\ Fresh(proc'[p].op)
    BY <1>1 DEF Begins, Busy, Fresh
  <2>3. /\ flight' = flight /\ landed' = landed /\ ended' = ended /\ lock' = lock
        /\ syncs' = syncs
    BY <1>1 DEF Begins, Still
  <2>4. \A q \in Procs :
          \/ /\ proc'[q].n = proc[q].n
             /\ Busy(q)' => Busy(q) /\ proc'[q].op = proc[q].op
             /\ Busy(q) => Busy(q)'
          \/ /\ proc'[q].n = proc[q].n + 1 /\ ~Busy(q)
             /\ proc'[q].op \in Ops /\ Fresh(proc'[q].op)
    BY <2>1, <2>2
  <2> QED BY <2>3, <2>4 DEF Basic
<1>2. ASSUME NEW p \in Procs, Calm(p) PROVE Basic
  BY <1>2, BasicAlone DEF Calm, Still, Keep, Busy
<1>3. ASSUME NEW p \in Procs, Read(p) PROVE Basic
  BY <1>3, BasicAlone DEF Read, Still, Keep, Busy
<1>4. ASSUME NEW p \in Procs, NEW out \in Content, PlanEdit(p, out) PROVE Basic
  BY <1>4, BasicAlone DEF PlanEdit, Still, Keep, Busy
<1>5. ASSUME NEW p \in Procs, NEW i \in Nat, PlanMove(p, i) PROVE Basic
  BY <1>5, BasicAlone DEF PlanMove, Still, Keep, Busy
<1>6. ASSUME NEW p \in Procs, Settle(p) PROVE Basic
  <2>1. Request(p).token = Token(p)
    BY DEF Request
  <2> QED BY <1>6, <2>1, BasicAlone DEF Settle, Keep, Busy
<1>7. ASSUME NEW p \in Procs, LandOwn(p) PROVE Basic
  <2>1. Request(p).token = Token(p)
    BY DEF Request
  <2>2. landed \subseteq landed' /\ \A l \in landed' : l \in landed \/ l.token = Token(p)
    BY <1>7, <2>1 DEF LandOwn, Lands
  <2>3. Busy(p) /\ Busy(p)' /\ proc'[p].n = proc[p].n /\ proc'[p].op = proc[p].op
    BY <1>7 DEF LandOwn, Wrote, Keep, Busy
  <2> QED BY <1>7, <2>2, <2>3, BasicAlone DEF LandOwn
<1>8. ASSUME NEW p \in Procs, Advance(p) PROVE Basic
  <2>1. Busy(p) /\ Busy(p)' /\ proc'[p].n = proc[p].n /\ proc'[p].op = proc[p].op
    BY <1>8 DEF Advance, Wrote, Keep, Busy
  <2> QED BY <1>8, <2>1, BasicAlone DEF Advance, Still
<1>9. ASSUME NEW p \in Procs, NEW result \in Results, Over(p, result) PROVE Basic
  <2>1. Request(p).token = Token(p)
    BY DEF Request
  <2> QED BY <1>9, <2>1, BasicAlone DEF Over, Keep, Busy
<1>10. ASSUME NEW put \in flight, LateLand(put) PROVE Basic
  BY <1>10 DEF Basic, LateLand, Lands, Busy
<1>11. ASSUME NEW put \in flight, Drop(put) PROVE Basic
  BY <1>11 DEF Basic, Drop, Busy
<1>12. CASE Expired
  BY <1>12 DEF Basic, Expired, Still, Busy
<1>13. ASSUME NEW f \in Files, OrgzlyRead(f) PROVE Basic
  BY <1>13 DEF Basic, OrgzlyRead, Server, Busy
<1>14. ASSUME NEW f \in Files, NEW b \in Content, NEW i \in Nat, OrgzlyWrote(f, b, i) PROVE Basic
  BY <1>14 DEF Basic, OrgzlyWrote, Busy
<1> QED BY <1>1, <1>2, <1>3, <1>4, <1>5, <1>6, <1>7, <1>8, <1>9, <1>10, <1>11, <1>12,
           <1>13, <1>14 DEF ProcessStep, WorldStep

LEMMA DrawnStays ==
    ASSUME Typed, Typed', Basic, NEW t \in Tokens, Drawn(t)
    PROVE  Drawn(t)'
<1>1. t[1] \in Procs /\ t[2] \in Nat
  BY TokenIs
<1>2. proc[t[1]].n \in Nat /\ proc'[t[1]].n \in Nat
  BY <1>1 DEF Typed, Process
<1>3. proc'[t[1]].n = proc[t[1]].n \/ proc'[t[1]].n = proc[t[1]].n + 1
  BY <1>1 DEF Basic
<1>4. PICK n \in Nat : n = proc[t[1]].n
  BY <1>2
<1>5. PICK m \in Nat : m = proc'[t[1]].n
  BY <1>2
<1>6. t[2] \in 1..n /\ (m = n \/ m = n + 1)
  BY <1>3, <1>4, <1>5 DEF Drawn
<1>7. t[2] \in 1..m
  BY <1>1, <1>6
<1> QED BY <1>5, <1>7 DEF Drawn

LEMMA BusyDrawn ==
    ASSUME Typed, Phases, NEW p \in Procs, Busy(p)
    PROVE  Drawn(Token(p))
<1>1. proc[p].n \in Nat /\ proc[p].n > 0
  BY ProcTyped DEF Phases, Phase, PhaseOf, Busy
<1>2. proc[p].n \in 1..proc[p].n
  BY <1>1
<1> QED BY <1>2 DEF Drawn, Token

\* The token of an operation that begins is new.
LEMMA NotDrawn ==
    ASSUME Typed, NEW p \in Procs, NEW t \in Tokens, Drawn(t), proc'[p].n = proc[p].n + 1
    PROVE  t # Token(p)'
<1>1. Token(p)' = <<p, proc[p].n + 1>>
  BY DEF Token
<1>2. PICK n \in Nat : n = proc[p].n
  BY ProcTyped
<1>3. t[1] = p => t[2] \in 1..n
  BY <1>2 DEF Drawn
<1>4. ~(n + 1 \in 1..n)
  OBVIOUS
<1> QED BY <1>1, <1>2, <1>3, <1>4

LEMMA TokensStep ==
    ASSUME Typed, Typed', Phases, Basic, TokensSound
    PROVE  TokensSound'
<1>2. \A p \in Procs : Busy(p) => \E t \in Tokens : t = Token(p) /\ Drawn(t)'
  <2>1. TAKE p \in Procs
  <2>2. HAVE Busy(p)
  <2>3. PICK t \in Tokens : t = Token(p)
    BY ProcTyped
  <2>4. Drawn(t)
    BY <2>2, <2>3, BusyDrawn
  <2>5. Drawn(t)'
    BY <2>4, DrawnStays
  <2> QED BY <2>3, <2>5
<1>3. \A f \in Files : lock'[f] # Free => Drawn(lock[f])'
  <2>1. SUFFICES ASSUME NEW f \in Files, lock'[f] # Free PROVE Drawn(lock[f])'
    OBVIOUS
  <2>2. PICK t \in Tokens : t = lock'[f]
    BY <2>1 DEF Typed
  <2>3. Drawn(t)'
    <3>1. CASE lock'[f] = lock[f]
      <4>1. Drawn(t)
        BY <2>1, <2>2, <3>1 DEF TokensSound
      <4> QED BY <4>1, DrawnStays
    <3>2. CASE \E p \in Procs : Busy(p) /\ lock'[f] = Token(p)
      BY <2>2, <3>2, <1>2
    <3> QED BY <2>1, <3>1, <3>2 DEF Basic
  <2> QED BY <2>2, <2>3 DEF Drawn
<1>4. \A put \in flight' : Drawn(put.token)'
  <2>1. SUFFICES ASSUME NEW put \in flight' PROVE Drawn(put.token)'
    OBVIOUS
  <2>2. PICK t \in Tokens : t = put.token
    BY DEF Typed
  <2>3. Drawn(t)'
    <3>1. CASE put \in flight
      <4>1. Drawn(t)
        BY <2>2, <3>1 DEF TokensSound
      <4> QED BY <4>1, DrawnStays
    <3> QED BY <2>2, <3>1, <1>2 DEF Basic
  <2> QED BY <2>2, <2>3
<1>5. \A l \in landed' : Drawn(l.token)'
  <2>1. SUFFICES ASSUME NEW l \in landed' PROVE Drawn(l.token)'
    OBVIOUS
  <2>2. PICK t \in Tokens : t = l.token
    BY DEF Typed
  <2>3. Drawn(t)'
    <3>1. CASE l \in landed \/ \E put \in flight : l.token = put.token
      <4>1. Drawn(t)
        BY <2>2, <3>1 DEF TokensSound
      <4> QED BY <4>1, DrawnStays
    <3> QED BY <2>2, <3>1, <1>2 DEF Basic
  <2> QED BY <2>2, <2>3
<1>6. \A e \in ended' : /\ Drawn(e.token)' /\ e.op \in Ops
                        /\ \A p \in Procs : Busy(p)' => e.token # Token(p)'
  <2>1. SUFFICES ASSUME NEW e \in ended'
                 PROVE  /\ Drawn(e.token)' /\ e.op \in Ops
                        /\ \A p \in Procs : Busy(p)' => e.token # Token(p)'
    OBVIOUS
  <2>2. PICK t \in Tokens : t = e.token
    BY DEF Typed
  <2>3. Drawn(t) /\ Drawn(t)' /\ e.op \in Ops
    <3>1. CASE e \in ended
      <4>1. Drawn(t) /\ e.op \in Ops
        BY <2>2, <3>1 DEF TokensSound
      <4> QED BY <4>1, DrawnStays
    <3>2. CASE e \notin ended
      <4>1. PICK p \in Procs : Busy(p) /\ e.token = Token(p) /\ e.op = proc[p].op
        BY <3>2 DEF Basic
      <4>2. Drawn(t) /\ e.op \in Ops
        BY <2>2, <4>1, BusyDrawn DEF Phases, Phase, PhaseOf, Busy
      <4> QED BY <4>2, DrawnStays
    <3> QED BY <3>1, <3>2
  <2>4. ASSUME NEW p \in Procs, Busy(p)' PROVE t # Token(p)'
    <3>1. CASE proc'[p].n = proc[p].n + 1
      BY <2>3, <3>1, NotDrawn
    <3>2. CASE proc'[p].n = proc[p].n /\ Busy(p)
      <4>1. Token(p)' = Token(p)
        BY <3>2 DEF Token
      <4>2. CASE e \in ended
        BY <2>2, <3>2, <4>1, <4>2 DEF TokensSound
      <4>3. CASE e \notin ended
        <5>1. PICK q \in Procs : ~Busy(q)' /\ e.token = Token(q)
          BY <4>3 DEF Basic
        <5> QED BY <2>2, <2>4, <4>1, <5>1, TokensDiffer
      <4> QED BY <4>2, <4>3
    <3> QED BY <2>4, <3>1, <3>2 DEF Basic
  <2> QED BY <2>2, <2>3, <2>4
<1> QED BY <1>3, <1>4, <1>5, <1>6 DEF TokensSound


-----------------------------------------------------------------------------
(* Requests.                                                                *)

LEMMA RequestsOthers ==
    ASSUME RequestsSound, NEW p \in Procs, Alone(p),
           \A put \in flight' : put \in flight \/ put.token = Token(p),
           \A l \in landed' : l \in landed \/ l.token = Token(p)
    PROVE  \A q \in Procs : q # p => (Busy(q) => RequestsOf(q))'
<1>1. SUFFICES ASSUME NEW q \in Procs, q # p, Busy(q)' PROVE RequestsOf(q)'
  OBVIOUS
<1>2. proc'[q] = proc[q]
  BY <1>1 DEF Alone
<1>3. Busy(q) /\ Token(q)' = Token(q) /\ Sent(q)' = Sent(q) /\ Token(q) # Token(p)
  BY <1>1, <1>2, TokensDiffer DEF Busy, Token, Sent
<1>4. RequestsOf(q)
  BY <1>3 DEF RequestsSound
<1>5. \A put \in flight' : put.token = Token(q) => put \in flight
  BY <1>3
<1>6. \A l \in landed' : l.token = Token(q) => l \in landed
  BY <1>3
<1> QED BY <1>2, <1>3, <1>4, <1>5, <1>6 DEF RequestsOf

\* A step that neither sends nor lands.
LEMMA RequestsKept ==
    ASSUME RequestsSound, NEW p \in Procs, Alone(p), Busy(p),
           flight' = flight, landed' = landed,
           proc'[p].n = proc[p].n, proc'[p].op = proc[p].op,
           Sent(p) \subseteq Sent(p)',
           proc'[p].want = proc[p].want \/ Sent(p) = {}
    PROVE  RequestsSound'
<1>1. Token(p)' = Token(p) /\ RequestsOf(p)
  BY DEF Token, RequestsSound
<1>2. RequestsOf(p)'
  BY <1>1 DEF RequestsOf
<1>3. \A q \in Procs : q # p => (Busy(q) => RequestsOf(q))'
  BY RequestsOthers
<1> QED BY <1>2, <1>3 DEF RequestsSound

\* What is asked of a request of a process.
LEMMA RequestWants ==
    ASSUME Typed, Phases, NEW p \in Procs, Sends(p)
    PROVE  Request(p).file = proc[p].op.dst =>
              /\ proc[p].want = Want(Request(p).body, proc[p].op)
              /\ proc[p].op.kind # "delete" => find(Request(p).body, proc[p].op.id) # 0
<1>1. /\ Request(p).file = proc[p].puts[1].file /\ Request(p).body = proc[p].puts[1].body
      /\ proc[p].wrote => Crosses(proc[p].op) /\ proc[p].puts[1].file = proc[p].op.file
  BY Requests
<1>2. proc[p].wrote => Request(p).file # proc[p].op.dst
  BY <1>1 DEF Crosses
<1>3. ~proc[p].wrote =>
         /\ proc[p].want = Want(proc[p].puts[1].body, proc[p].op)
         /\ proc[p].op.kind # "delete" => find(proc[p].puts[1].body, proc[p].op.id) # 0
  BY DEF Sends, Phases, Phase, PhaseOf
<1> QED BY <1>1, <1>2, <1>3

\* A request that is yet to be sent is for a file none was sent for.
LEMMA UnsentFiles ==
    ASSUME Typed, Phases, NEW p \in Procs
    PROVE  /\ Unsent(p) \subseteq DOMAIN proc[p].puts
           /\ Unsent(p) # {} => Sends(p)
           /\ \A i \in Unsent(p) : proc[p].puts[i].file \notin Sent(p)
           /\ Sends(p) => \A i, j \in DOMAIN proc[p].puts :
                             proc[p].puts[i].file = proc[p].puts[j].file => i = j
           /\ proc[p].pc = "put" => 1 \in Unsent(p)
<1>1. CASE Sends(p)
  <2>1. /\ Len(proc[p].puts) = IF Crosses(proc[p].op) /\ ~proc[p].wrote THEN 2 ELSE 1
        /\ DOMAIN proc[p].puts = 1..Len(proc[p].puts)
        /\ proc[p].wrote => Crosses(proc[p].op) /\ proc[p].puts[1].file = proc[p].op.file
        /\ ~proc[p].wrote => proc[p].puts[1].file = proc[p].op.dst
        /\ Len(proc[p].puts) = 2 => proc[p].puts[2].file = proc[p].op.file
    BY <1>1, Requests
  <2>2. Crosses(proc[p].op) => proc[p].op.dst # proc[p].op.file
    BY DEF Crosses
  <2>3. PICK n : n = Len(proc[p].puts)
    OBVIOUS
  <2>4. \/ n = 1
        \/ n = 2 /\ Crosses(proc[p].op) /\ ~proc[p].wrote
    BY <2>1, <2>3, Zenon
  <2>5. DOMAIN proc[p].puts = 1..n
    BY <2>1, <2>3, Zenon
  <2>6. CASE n = 1
    <3>10. 1..n = {1}
      BY <2>6
    <3>1. DOMAIN proc[p].puts = {1}
      BY <2>5, <3>10, Zenon
    <3>2. proc[p].pc = "put" => Sent(p) = IF proc[p].wrote THEN {proc[p].op.dst} ELSE {}
      BY DEF Sent
    <3>3. proc[p].pc = "put" /\ proc[p].wrote => proc[p].puts[1].file # proc[p].op.dst
      BY <2>1, <2>2
    <3>4. proc[p].pc = "put" => Unsent(p) = {1}
      BY <3>1 DEF Unsent
    <3>8. {1} \ {1} = {}
      OBVIOUS
    <3>9. proc[p].pc = "reread" => Unsent(p) = DOMAIN proc[p].puts \ {1}
      BY DEF Unsent
    <3>5. proc[p].pc = "reread" => Unsent(p) = {}
      BY <3>1, <3>8, <3>9, Zenon
    <3>6. Unsent(p) \subseteq {1}
      BY <1>1, <3>4, <3>5 DEF Sends
    <3>7. \A i \in Unsent(p) : proc[p].puts[i].file \notin Sent(p)
      BY <1>1, <3>2, <3>3, <3>4, <3>5 DEF Sends
    <3> QED BY <1>1, <3>1, <3>4, <3>6, <3>7
  <2>7. CASE n = 2 /\ Crosses(proc[p].op) /\ ~proc[p].wrote
    <3>12. 1..n = {1, 2}
      BY <2>7
    <3>13. ~proc[p].wrote
      BY <2>7
    <3>1. DOMAIN proc[p].puts = {1, 2}
      BY <2>5, <3>12, Zenon
    <3>2. proc[p].puts[1].file = proc[p].op.dst /\ proc[p].puts[2].file = proc[p].op.file
      BY <2>1, <2>3, <2>7
    <3>3. proc[p].puts[1].file # proc[p].puts[2].file
      BY <3>2, <2>2, <2>7, Zenon
    <3>4. proc[p].pc = "put" => Unsent(p) = {1, 2} /\ Sent(p) = {}
      BY <3>1, <2>7 DEF Unsent, Sent
    <3>9. {1, 2} \ {1} = {2}
      OBVIOUS
    <3>10. proc[p].pc = "reread" => Unsent(p) = DOMAIN proc[p].puts \ {1}
      BY DEF Unsent
    <3>11. proc[p].pc = "reread" => Unsent(p) = {2}
      BY <3>1, <3>9, <3>10, Zenon
    <3>5. proc[p].pc = "reread" => Unsent(p) = {2} /\ Sent(p) = {proc[p].op.dst}
      BY <3>11, <3>13 DEF Sent
    <3>6. \A i \in Unsent(p) : proc[p].puts[i].file \notin Sent(p)
      BY <1>1, <3>2, <3>3, <3>4, <3>5 DEF Sends
    <3>7. Unsent(p) \subseteq {1, 2}
      BY <1>1, <3>4, <3>5 DEF Sends
    <3>8. \A i, j \in {1, 2} : proc[p].puts[i].file = proc[p].puts[j].file => i = j
      BY <3>3
    <3> QED BY <1>1, <3>1, <3>4, <3>6, <3>7, <3>8
  <2> QED BY <2>4, <2>6, <2>7
<1>2. CASE ~Sends(p)
  BY <1>2 DEF Unsent, Sends
<1> QED BY <1>1, <1>2


LEMMA RequestsStep ==
    ASSUME Typed, Typed', Phases, TokensSound, RequestsSound,
           (\E p \in Procs : ProcessStep(p)) \/ WorldStep
    PROVE  RequestsSound'
<1>1. ASSUME NEW p \in Procs, NEW op \in Ops, Begins(p, op) PROVE RequestsSound'
  <2>1. flight' = flight /\ landed' = landed /\ Alone(p) /\ proc'[p].n = proc[p].n + 1
    BY <1>1 DEF Begins, Still
  <2>2. \A put \in flight' : put.token # Token(p)'
    <3>1. SUFFICES ASSUME NEW put \in flight' PROVE put.token # Token(p)'
      OBVIOUS
    <3>2. PICK t \in Tokens : t = put.token
      BY DEF Typed
    <3>3. Drawn(t)
      BY <2>1, <3>2 DEF TokensSound
    <3> QED BY <2>1, <3>2, <3>3, NotDrawn
  <2>3. \A l \in landed' : l.token # Token(p)'
    <3>1. SUFFICES ASSUME NEW l \in landed' PROVE l.token # Token(p)'
      OBVIOUS
    <3>2. PICK t \in Tokens : t = l.token
      BY DEF Typed
    <3>3. Drawn(t)
      BY <2>1, <3>2 DEF TokensSound
    <3> QED BY <2>1, <3>2, <3>3, NotDrawn
  <2>4. RequestsOf(p)'
    BY <2>2, <2>3 DEF RequestsOf
  <2>5. \A q \in Procs : q # p => (Busy(q) => RequestsOf(q))'
    BY <2>1, RequestsOthers
  <2> QED BY <2>4, <2>5 DEF RequestsSound
<1>2. ASSUME NEW p \in Procs, Calm(p) PROVE RequestsSound'
  BY <1>2, RequestsKept DEF Calm, Still, Keep, Busy
<1>3. ASSUME NEW p \in Procs, Read(p) PROVE RequestsSound'
  <2>1. Sent(p) = {}
    BY <1>3 DEF Read, Sent
  <2> QED BY <1>3, <2>1, RequestsKept DEF Read, Still, Keep, Busy
<1>4. ASSUME NEW p \in Procs, NEW out \in Content, PlanEdit(p, out) PROVE RequestsSound'
  <2>1. Sent(p) = {}
    BY <1>4 DEF PlanEdit, Sent
  <2> QED BY <1>4, <2>1, RequestsKept DEF PlanEdit, Still, Keep, Busy
<1>5. ASSUME NEW p \in Procs, NEW i \in Nat, PlanMove(p, i) PROVE RequestsSound'
  <2>1. Sent(p) = {}
    BY <1>5 DEF PlanMove, Sent
  <2> QED BY <1>5, <2>1, RequestsKept DEF PlanMove, Still, Keep, Busy
<1>6. ASSUME NEW p \in Procs, proc[p].pc = "put", Alone(p),
             flight' = flight \/ flight' = flight \cup {Request(p)},
             \A l \in landed' : \/ l \in landed
                                \/ l.token = Token(p) /\ l.file = Request(p).file,
             proc'[p].n = proc[p].n, proc'[p].op = proc[p].op, proc'[p].want = proc[p].want,
             Sent(p) \cup {Request(p).file} \subseteq Sent(p)'
      PROVE  RequestsSound'
  <2>1. Sends(p) /\ Busy(p)
    BY <1>6 DEF Sends, Busy
  <2>2. Request(p).token = Token(p) /\ Request(p).id = proc[p].op.id
    BY <2>1, Requests
  <2>3. RequestsOf(p) /\ Token(p)' = Token(p)
    BY <1>6, <2>1 DEF RequestsSound, Token
  <2>4. \A put \in flight' : put \in flight \/ put = Request(p)
    BY <1>6
  <2>5. \A put \in flight' : put.token = Token(p)' =>
          /\ put.file \in Sent(p)' /\ put.id = proc'[p].op.id
          /\ put.file = proc'[p].op.dst =>
                /\ proc'[p].want = Want(put.body, proc'[p].op)
                /\ proc'[p].op.kind # "delete" => find(put.body, proc'[p].op.id) # 0
    <3>1. SUFFICES ASSUME NEW put \in flight', put.token = Token(p)'
                   PROVE  /\ put.file \in Sent(p)' /\ put.id = proc[p].op.id
                          /\ put.file = proc[p].op.dst =>
                               /\ proc[p].want = Want(put.body, proc[p].op)
                               /\ proc[p].op.kind # "delete" =>
                                     find(put.body, proc[p].op.id) # 0
      BY <1>6
    <3>2. CASE put \in flight
      BY <3>1, <3>2, <2>3, <1>6 DEF RequestsOf
    <3>3. CASE put = Request(p)
      BY <3>3, <2>1, <2>2, <1>6, RequestWants
    <3> QED BY <2>4, <3>2, <3>3
  <2>6. \A l \in landed' : l.token = Token(p)' => l.file \in Sent(p)'
    BY <1>6, <2>3 DEF RequestsOf
  <2>7. RequestsOf(p)'
    BY <2>5, <2>6 DEF RequestsOf
  <2>8. \A q \in Procs : q # p => (Busy(q) => RequestsOf(q))'
    BY <1>6, <2>2, <2>4, RequestsOthers
  <2> QED BY <2>7, <2>8 DEF RequestsSound
<1>7. ASSUME NEW p \in Procs, proc[p].pc = "put"
      PROVE  /\ ~proc[p].wrote => Request(p).file = proc[p].op.dst /\ Sent(p) = {}
             /\ proc[p].wrote => Request(p).file = proc[p].op.file /\ Sent(p) = {proc[p].op.dst}
  BY <1>7, Requests DEF Sends, Sent
<1>8. ASSUME NEW p \in Procs, Settle(p) PROVE RequestsSound'
  <2>1. /\ proc[p].pc = "put" /\ proc'[p].pc = "reread" /\ proc'[p].wrote = proc[p].wrote
        /\ proc'[p].op = proc[p].op /\ proc'[p].n = proc[p].n /\ proc'[p].want = proc[p].want
        /\ Alone(p) /\ landed' = landed
        /\ flight' = flight \/ flight' = flight \cup {Request(p)}
    BY <1>8 DEF Settle, Keep
  <2>2. Sent(p) \cup {Request(p).file} \subseteq Sent(p)'
    BY <2>1, <1>7 DEF Sent
  <2> QED BY <2>1, <2>2, <1>6
<1>9. ASSUME NEW p \in Procs, LandOwn(p) PROVE RequestsSound'
  <2>1. /\ proc[p].pc = "put" /\ Alone(p) /\ flight' = flight
        /\ proc'[p].op = proc[p].op /\ proc'[p].n = proc[p].n /\ proc'[p].want = proc[p].want
    BY <1>9 DEF LandOwn, Wrote, Keep
  <2>2. Request(p).token = Token(p)
    BY DEF Request
  <2>3. \A l \in landed' : l \in landed \/ (l.token = Token(p) /\ l.file = Request(p).file)
    BY <1>9, <2>2 DEF LandOwn, Lands
  <2>4. Sent(p) \cup {Request(p).file} \subseteq Sent(p)'
    <3>1. CASE proc'[p].pc = "reread" /\ proc'[p].wrote = proc[p].wrote
      BY <2>1, <3>1, <1>7 DEF Sent
    <3>2. CASE Wrote(p)
      <4>1. /\ Len(proc[p].puts) = IF Crosses(proc[p].op) /\ ~proc[p].wrote THEN 2 ELSE 1
            /\ proc[p].wrote \in BOOLEAN
        BY <2>1, Requests, ProcTyped DEF Sends
      <4>2. proc[p].wrote => Len(proc[p].puts) = 1
        BY <4>1
      <4>3. proc'[p].wrote /\ proc'[p].error = ""
            /\ proc'[p].pc = IF Len(proc[p].puts) = 1 THEN "unlock" ELSE "put"
        BY <3>2 DEF Wrote
      <4>4. CASE Len(proc[p].puts) = 1
        <5>1. proc'[p].pc = "unlock"
          BY <4>3, <4>4, Zenon
        <5>2. Sent(p)' = {proc[p].op.dst, proc[p].op.file}
          BY <5>1, <4>3, <2>1 DEF Sent
        <5> QED BY <5>2, <1>7, <2>1
      <4>5. CASE Len(proc[p].puts) # 1
        <5>1. proc'[p].pc = "put" /\ ~proc[p].wrote
          BY <4>2, <4>3, <4>5, Zenon
        <5>2. Sent(p)' = {proc[p].op.dst}
          BY <5>1, <4>3, <2>1 DEF Sent
        <5> QED BY <5>1, <5>2, <1>7, <2>1
      <4> QED BY <4>4, <4>5
    <3> QED BY <1>9, <3>1, <3>2 DEF LandOwn, Keep
  <2> QED BY <2>1, <2>3, <2>4, <1>6
<1>10. ASSUME NEW p \in Procs, Advance(p) PROVE RequestsSound'
  <2>1. /\ proc[p].pc = "reread" /\ Wrote(p) /\ Alone(p) /\ flight' = flight /\ landed' = landed
    BY <1>10 DEF Advance, Still
  <2>2. /\ Len(proc[p].puts) = IF Crosses(proc[p].op) /\ ~proc[p].wrote THEN 2 ELSE 1
        /\ proc[p].wrote \in BOOLEAN
    BY <2>1, Requests, ProcTyped DEF Sends
  <2>3. proc[p].wrote => Len(proc[p].puts) = 1
    BY <2>2
  <2>4. /\ proc'[p].wrote /\ proc'[p].error = "" /\ proc'[p].op = proc[p].op
        /\ proc'[p].n = proc[p].n /\ proc'[p].want = proc[p].want
        /\ proc'[p].pc = IF Len(proc[p].puts) = 1 THEN "unlock" ELSE "put"
    BY <2>1 DEF Wrote, Keep
  <2>5. Sent(p) = IF proc[p].wrote THEN {proc[p].op.dst, proc[p].op.file} ELSE {proc[p].op.dst}
    BY <2>1 DEF Sent
  <2>6. Sent(p) \subseteq Sent(p)'
    <3>1. CASE Len(proc[p].puts) = 1
      <4>1. proc'[p].pc = "unlock"
        BY <2>4, <3>1, Zenon
      <4>2. Sent(p)' = {proc[p].op.dst, proc[p].op.file}
        BY <4>1, <2>4 DEF Sent
      <4> QED BY <4>2, <2>5
    <3>2. CASE Len(proc[p].puts) # 1
      <4>1. proc'[p].pc = "put" /\ ~proc[p].wrote
        BY <2>3, <2>4, <3>2, Zenon
      <4>2. Sent(p)' = {proc[p].op.dst}
        BY <4>1, <2>4 DEF Sent
      <4> QED BY <4>1, <4>2, <2>5
    <3> QED BY <3>1, <3>2
  <2> QED BY <2>1, <2>4, <2>6, RequestsKept DEF Busy
<1>11. ASSUME NEW p \in Procs, NEW result \in Results, Over(p, result) PROVE RequestsSound'
  <2>1. ~Busy(p)' /\ Alone(p)
    BY <1>11 DEF Over, Busy
  <2>2. Request(p).token = Token(p)
    BY DEF Request
  <2>3. \A q \in Procs : q # p => (Busy(q) => RequestsOf(q))'
    BY <1>11, <2>1, <2>2, RequestsOthers DEF Over
  <2> QED BY <2>1, <2>3 DEF RequestsSound
<1>12. ASSUME proc' = proc, flight' \subseteq flight,
              \A l \in landed' :
                 l \in landed \/ \E put \in flight : l.token = put.token /\ l.file = put.file
       PROVE  RequestsSound'
  <2>1. SUFFICES ASSUME NEW p \in Procs, Busy(p)' PROVE RequestsOf(p)'
    BY DEF RequestsSound
  <2>2. Busy(p) /\ Token(p)' = Token(p) /\ Sent(p)' = Sent(p) /\ proc'[p] = proc[p]
    BY <1>12, <2>1 DEF Busy, Token, Sent
  <2>3. RequestsOf(p)
    BY <2>2 DEF RequestsSound
  <2> QED BY <1>12, <2>2, <2>3 DEF RequestsOf
<1>13. ASSUME NEW put \in flight, LateLand(put) PROVE RequestsSound'
  BY <1>12, <1>13 DEF LateLand, Lands
<1>14. ASSUME NEW put \in flight, Drop(put) PROVE RequestsSound'
  BY <1>12, <1>14 DEF Drop
<1>15. CASE Expired
  BY <1>12, <1>15 DEF Expired, Still
<1>16. ASSUME NEW f \in Files, OrgzlyRead(f) PROVE RequestsSound'
  BY <1>12, <1>16 DEF OrgzlyRead, Server
<1>17. ASSUME NEW f \in Files, NEW b \in Content, NEW i \in Nat, OrgzlyWrote(f, b, i)
       PROVE  RequestsSound'
  BY <1>12, <1>17 DEF OrgzlyWrote
<1> QED BY <1>1, <1>2, <1>3, <1>4, <1>5, <1>8, <1>9, <1>10, <1>11, <1>13, <1>14, <1>15, <1>16,
           <1>17 DEF ProcessStep, WorldStep

\* A request that joins those under way is the first for its file.
LEMMA OneRequestStep ==
    ASSUME Typed, Phases, RequestsSound, OneRequest,
           (\E p \in Procs : ProcessStep(p)) \/ WorldStep
    PROVE  OneRequest'
<1>1. CASE flight' \subseteq flight
  BY <1>1 DEF OneRequest
<1>2. ASSUME NEW p \in Procs, proc[p].pc = "put", flight' = flight \cup {Request(p)}
      PROVE  OneRequest'
  <2>1. Sends(p) /\ Busy(p)
    BY <1>2 DEF Sends, Busy
  <2>2. Request(p).token = Token(p) /\ Request(p).file = proc[p].puts[1].file
    BY <2>1, Requests
  <2>3. Request(p).file \notin Sent(p)
    BY <1>2, <2>2, UnsentFiles
  <2>4. \A put \in flight : ~(put.token = Token(p) /\ put.file = Request(p).file)
    BY <2>1, <2>3 DEF RequestsSound, RequestsOf
  <2> QED BY <1>2, <2>2, <2>4 DEF OneRequest
<1>3. ASSUME NEW p \in Procs, ProcessStep(p)
      PROVE  \/ flight' \subseteq flight
             \/ proc[p].pc = "put" /\ flight' = flight \cup {Request(p)}
  BY <1>3 DEF ProcessStep, Begins, Calm, Read, PlanEdit, PlanMove, Settle, LandOwn, Advance,
              Over, Still
<1>4. WorldStep => flight' \subseteq flight
  BY DEF WorldStep, LateLand, Drop, Expired, Still, OrgzlyRead, Server, OrgzlyWrote
<1> QED BY <1>1, <1>2, <1>3, <1>4


-----------------------------------------------------------------------------
(* What is pending.                                                         *)

\* A process that does nothing, and the files of whose PUTs are left alone.
LEMMA PendingOther ==
    ASSUME NEW q \in Procs, PendingOf(q), proc'[q] = proc[q],
           \A i \in Unsent(q) :
              LET f == proc[q].puts[i].file
              IN lock'[f] = Token(q) => lock[f] = Token(q) /\ file'[f] = file[f],
           proc[q].pc = "getdst" /\ lock'[proc[q].op.file] = Token(q) =>
              /\ lock[proc[q].op.file] = Token(q)
              /\ file'[proc[q].op.file] = file[proc[q].op.file]
    PROVE  PendingOf(q)'
<1>1. Unsent(q)' = Unsent(q) /\ Token(q)' = Token(q)
  BY DEF Unsent, Token
<1>2. \A i \in Unsent(q) :
         lock'[proc[q].puts[i].file] = Token(q) =>
            \A x \in STRING : x # proc[q].op.id =>
               Same(file'[proc[q].puts[i].file], proc[q].puts[i].body, x)
  BY DEF PendingOf, Keeps
<1>3. (\A i \in Unsent(q) :
          LET put == proc[q].puts[i]
          IN lock[put.file] = Token(q) => Keeps(put.file, put.body, proc[q].op.id))'
  BY <1>1, <1>2 DEF Keeps
<1>4. proc'[q].pc = "getdst" /\ lock'[proc'[q].op.file] = Token(q)' =>
         file'[proc'[q].op.file] = proc'[q].src
  BY <1>1 DEF PendingOf
<1> QED BY <1>3, <1>4 DEF PendingOf

\* The files stay as they are, and a lock is granted at most to a process that sent nothing.
LEMMA PendingQuiet ==
    ASSUME Typed, Phases, RequestsSound, Pending,
           NEW p \in Procs, Alone(p), file' = file, PendingOf(p)',
           \A f \in Files : \/ lock'[f] = lock[f] \/ lock'[f] = Free
                            \/ proc[p].pc = "lock" /\ lock'[f] = Token(p),
           \/ flight' = flight
           \/ proc[p].pc = "put" /\ lock' = lock /\ flight' = flight \cup {Request(p)}
    PROVE  Pending'
<1>1. ASSUME NEW f \in Files, NEW t \in Tokens, lock'[f] = t,
             proc[p].pc = "lock" => t # Token(p)
      PROVE  lock[f] = t
  BY <1>1, TokenIs
<1>2. \A q \in Procs : q # p => PendingOf(q)'
  <2>1. SUFFICES ASSUME NEW q \in Procs, q # p PROVE PendingOf(q)'
    OBVIOUS
  <2>2. PICK t \in Tokens : t = Token(q)
    BY ProcTyped
  <2>3. t # Token(p) /\ proc'[q] = proc[q]
    BY <2>1, <2>2, TokensDiffer DEF Alone
  <2>4. \A f \in Files : lock'[f] = Token(q) => lock[f] = Token(q) /\ file'[f] = file[f]
    BY <2>2, <2>3, <1>1
  <2>5. \A i \in Unsent(q) : proc[q].puts[i].file \in Files
    BY UnsentFiles, PutsTyped
  <2>6. proc[q].pc = "getdst" => proc[q].op.file \in Files
    BY Assumed DEF Phases, Phase, PhaseOf
  <2>7. PendingOf(q)
    BY DEF Pending
  <2> QED BY <2>3, <2>4, <2>5, <2>6, <2>7, PendingOther
<1>3. ASSUME NEW put \in flight', Accepts(put)' PROVE Keeps(put.file, put.body, put.id)'
  <2>1. CASE put \in flight
    <3>1. put.token \in Tokens /\ put.file \in Files
      BY <2>1 DEF Typed
    <3>2. proc[p].pc = "lock" => put.token # Token(p)
      BY <2>1 DEF RequestsSound, RequestsOf, Sent, Busy
    <3>3. lock[put.file] = put.token
      BY <3>1, <3>2, <1>1, <1>3 DEF Accepts
    <3>4. Keeps(put.file, put.body, put.id)
      BY <2>1, <3>3 DEF Pending, Accepts
    <3> QED BY <3>4 DEF Keeps
  <2>2. CASE put \notin flight
    <3>1. proc[p].pc = "put" /\ lock' = lock /\ put = Request(p)
      BY <2>2, <1>3
    <3>2. /\ Request(p).file = proc[p].puts[1].file /\ Request(p).body = proc[p].puts[1].body
          /\ Request(p).token = Token(p) /\ Request(p).id = proc[p].op.id
      BY <3>1, Requests DEF Sends
    <3>3. 1 \in Unsent(p)
      BY <3>1, UnsentFiles
    <3>4. lock[put.file] = Token(p)
      BY <3>1, <3>2, <1>3 DEF Accepts
    <3>5. Keeps(put.file, put.body, put.id)
      BY <3>1, <3>2, <3>3, <3>4 DEF Pending, PendingOf
    <3> QED BY <3>5 DEF Keeps
  <2> QED BY <2>1, <2>2
<1>4. \A q \in Procs : PendingOf(q)'
  BY <1>2
<1> QED BY <1>3, <1>4 DEF Pending

\* No other PUT that will be accepted is about a file one was accepted for.
LEMMA LandingAlone ==
    ASSUME Typed, Phases, RequestsSound, OneRequest,
           NEW put, put.token \in Tokens, lock[put.file] = put.token,
           \/ put \in flight
           \/ \E p \in Procs : proc[p].pc = "put" /\ put = Request(p)
    PROVE  /\ \A other \in flight : Accepts(other) /\ other.file = put.file => other = put
           /\ \A q \in Procs : \A i \in Unsent(q) :
                 lock[proc[q].puts[i].file] = Token(q) /\ proc[q].puts[i].file = put.file =>
                    i = 1 /\ proc[q].pc = "put" /\ put.token = Token(q) /\ put \notin flight
           /\ \A q \in Procs : proc[q].pc = "getdst" => put.token # Token(q)
<1>1. ASSUME NEW other \in flight, Accepts(other), other.file = put.file PROVE other = put
  <2>1. other.token = put.token
    BY <1>1 DEF Accepts
  <2>2. CASE put \in flight
    BY <1>1, <2>1, <2>2 DEF OneRequest
  <2>3. ASSUME NEW p \in Procs, proc[p].pc = "put", put = Request(p) PROVE FALSE
    <3>1. Sends(p) /\ Busy(p)
      BY <2>3 DEF Sends, Busy
    <3>2. put.token = Token(p) /\ put.file = proc[p].puts[1].file
      BY <2>3, <3>1, Requests
    <3>3. put.file \notin Sent(p)
      BY <2>3, <3>2, UnsentFiles
    <3> QED BY <1>1, <2>1, <3>1, <3>2, <3>3 DEF RequestsSound, RequestsOf
  <2> QED BY <2>2, <2>3
<1>2. ASSUME NEW q \in Procs, NEW i \in Unsent(q),
             lock[proc[q].puts[i].file] = Token(q), proc[q].puts[i].file = put.file
      PROVE  i = 1 /\ proc[q].pc = "put" /\ put.token = Token(q) /\ put \notin flight
  <2>1. put.token = Token(q) /\ Sends(q) /\ Busy(q) /\ put.file \notin Sent(q)
    BY <1>2, UnsentFiles DEF Busy, Sends
  <2>2. put \notin flight
    BY <2>1 DEF RequestsSound, RequestsOf
  <2>3. PICK p \in Procs : proc[p].pc = "put" /\ put = Request(p)
    BY <2>2
  <2>4. put.token = Token(p) /\ put.file = proc[p].puts[1].file
    BY <2>3, Requests DEF Sends
  <2>5. p = q
    BY <2>1, <2>4, TokensDiffer
  <2>6. 1 \in Unsent(q) /\ Unsent(q) \subseteq DOMAIN proc[q].puts
    BY <2>3, <2>5, UnsentFiles
  <2>7. i = 1
    BY <1>2, <2>1, <2>4, <2>5, <2>6, UnsentFiles
  <2> QED BY <2>1, <2>2, <2>3, <2>5, <2>7
<1>3. ASSUME NEW q \in Procs, proc[q].pc = "getdst" PROVE put.token # Token(q)
  <2>1. Sent(q) = {} /\ Busy(q)
    BY <1>3 DEF Sent, Busy
  <2>2. CASE put \in flight
    BY <2>1, <2>2 DEF RequestsSound, RequestsOf
  <2>3. ASSUME NEW p \in Procs, proc[p].pc = "put", put = Request(p) PROVE put.token # Token(q)
    <3>1. put.token = Token(p)
      BY <2>3, Requests DEF Sends
    <3> QED BY <1>3, <2>3, <3>1, TokensDiffer
  <2> QED BY <2>2, <2>3
<1> QED BY <1>1, <1>2, <1>3


\* One PUT written, the other one is next.
LEMMA TailUnsent ==
    ASSUME Typed, Phases, NEW p \in Procs, Sends(p), Wrote(p)
    PROVE  /\ Unsent(p)' \subseteq {1}
           /\ 1 \in Unsent(p)' => /\ 2 \in Unsent(p) /\ proc'[p].puts[1] = proc[p].puts[2]
                                  /\ Len(proc[p].puts) = 2 /\ ~proc[p].wrote
                                  /\ Crosses(proc[p].op)
           /\ Sends(p)' => 1 \in Unsent(p)'
           /\ proc'[p].pc # "getdst"
<1>1. /\ Len(proc[p].puts) = IF Crosses(proc[p].op) /\ ~proc[p].wrote THEN 2 ELSE 1
      /\ proc[p].puts \in Seq(PutOf) /\ proc[p].puts # <<>>
      /\ DOMAIN proc[p].puts = 1..Len(proc[p].puts)
  BY Requests
<1>2. /\ proc'[p].puts = Tail(proc[p].puts)
      /\ proc'[p].pc = IF Len(proc[p].puts) = 1 THEN "unlock" ELSE "put"
  BY DEF Wrote
<1>3. CASE Len(proc[p].puts) = 1
  <2>1. proc'[p].pc = "unlock"
    BY <1>2, <1>3, Zenon
  <2>2. Unsent(p)' = {} /\ ~Sends(p)'
    BY <2>1 DEF Unsent, Sends
  <2> QED BY <2>1, <2>2
<1>4. CASE Len(proc[p].puts) # 1
  <2>1. Crosses(proc[p].op) /\ ~proc[p].wrote /\ Len(proc[p].puts) = 2 /\ proc'[p].pc = "put"
    BY <1>1, <1>2, <1>4, Zenon
  <2>2. PICK l \in Seq(PutOf) : l = proc[p].puts
    BY <1>1
  <2>3. Len(l) = 2 /\ l # <<>>
    BY <1>1, <2>1, <2>2, Zenon
  <2>4. Tail(l) \in Seq(PutOf) /\ Len(Tail(l)) = 1 /\ Tail(l)[1] = l[2]
    BY <2>3, HeadTailProperties
  <2>5. DOMAIN Tail(l) = {1}
    <3>1. DOMAIN Tail(l) = 1..Len(Tail(l))
      BY <2>4, LenProperties
    <3>2. 1..1 = {1}
      OBVIOUS
    <3> QED BY <3>1, <3>2, <2>4, Zenon
  <2>6. Unsent(p)' = DOMAIN Tail(l)
    BY <1>2, <2>1, <2>2 DEF Unsent
  <2>7. proc'[p].puts[1] = proc[p].puts[2]
    BY <1>2, <2>2, <2>4
  <2>8. 1..2 = {1, 2}
    OBVIOUS
  <2>9. DOMAIN proc[p].puts = {1, 2}
    BY <1>1, <2>1, <2>8, Zenon
  <2>10. 2 \in Unsent(p)
    BY <2>9 DEF Unsent, Sends
  <2>11. Unsent(p)' = {1}
    BY <2>5, <2>6, Zenon
  <2> QED BY <2>1, <2>7, <2>10, <2>11
<1> QED BY <1>3, <1>4

LEMMA PendingEdit ==
    ASSUME Typed, NEW p \in Procs, NEW out \in Content, PlanEdit(p, out)
    PROVE  PendingOf(p)'
<1>1. PICK one : one = [file |-> proc[p].op.file, body |-> out]
  OBVIOUS
<1>2. /\ file' = file /\ proc'[p].pc = "put" /\ proc'[p].op = proc[p].op
      /\ proc'[p].puts = <<one>>
      /\ EditFacts(file[proc[p].op.file], out, proc[p].op, Token(p))
  BY <1>1 DEF PlanEdit, Still, Keep
<1>3. DOMAIN proc'[p].puts = {1} /\ proc'[p].puts[1] = one
  BY <1>2
<1>4. Unsent(p)' = {1}
  BY <1>2, <1>3 DEF Unsent
<1>5. \A x \in STRING : x # proc[p].op.id => Same(file[proc[p].op.file], out, x)
  BY <1>2 DEF EditFacts
<1>6. (Keeps(proc[p].puts[1].file, proc[p].puts[1].body, proc[p].op.id))'
  BY <1>1, <1>2, <1>3, <1>5 DEF Keeps
<1> QED BY <1>2, <1>4, <1>6 DEF PendingOf

LEMMA PendingMove ==
    ASSUME Typed, NEW p \in Procs, NEW i \in Nat, PlanMove(p, i), PendingOf(p)
    PROVE  PendingOf(p)'
<1>1. PICK op \in Ops : op = proc[p].op
  BY DEF PlanMove
<1>2. op \in Op /\ op.dst \in Files /\ op.file \in Files
  BY Assumed
<1>3. PICK src \in Content : src = proc[p].src
  BY ProcTyped
<1>4. PICK d \in Content : d = file[op.dst]
  BY <1>2 DEF Typed
<1>5. i \in 1..Len(src) /\ src[i].id = op.id /\ src[i] \in Entry
  BY <1>1, <1>3, ContentFacts DEF PlanMove
<1>6. PICK one : one = [file |-> op.dst, body |-> Append(d, src[i])]
  OBVIOUS
<1>7. PICK two : two = [file |-> op.file, body |-> Without(src, i)]
  OBVIOUS
<1>8. /\ file' = file /\ lock' = lock /\ proc'[p].pc = "put" /\ proc'[p].op = op
      /\ proc'[p].n = proc[p].n /\ proc'[p].puts = <<one, two>> /\ proc[p].pc = "getdst"
  BY <1>1, <1>3, <1>4, <1>6, <1>7 DEF PlanMove, Still, Keep
<1>9. /\ DOMAIN proc'[p].puts = {1, 2}
      /\ proc'[p].puts[1] = one /\ proc'[p].puts[2] = two
  BY <1>8
<1>10. Unsent(p)' = {1, 2} /\ Token(p)' = Token(p)
  BY <1>8, <1>9 DEF Unsent, Token
<1>11. \A x \in STRING : x # op.id => Same(d, Append(d, src[i]), x)
  BY <1>5, SameAppend
<1>12. \A x \in STRING : x # op.id => Same(src, Without(src, i), x)
  BY <1>5, SameWithout
<1>13. (Keeps(proc[p].puts[1].file, proc[p].puts[1].body, proc[p].op.id))'
  <2>1. /\ file'[proc'[p].puts[1].file] = d
        /\ proc'[p].puts[1].body = Append(d, src[i]) /\ proc'[p].op.id = op.id
    BY <1>4, <1>6, <1>8, <1>9
  <2> QED BY <2>1, <1>11 DEF Keeps
<1>14. lock[op.file] = Token(p) => file[op.file] = src
  BY <1>1, <1>3, <1>8 DEF PendingOf
<1>15. (lock[proc[p].puts[2].file] = Token(p) =>
          Keeps(proc[p].puts[2].file, proc[p].puts[2].body, proc[p].op.id))'
  BY <1>7, <1>8, <1>9, <1>10, <1>12, <1>14 DEF Keeps
<1> QED BY <1>8, <1>10, <1>13, <1>15 DEF PendingOf

\* Its own PUT has landed, or is seen to have: of the others', what was pending is.
LEMMA PendingRest ==
    ASSUME Typed, Phases, NEW p \in Procs, Sends(p), PendingOf(p), lock' = lock,
           proc'[p].n = proc[p].n, proc'[p].op = proc[p].op,
           \/ Wrote(p)
           \/ /\ proc[p].pc = "put" /\ proc'[p].pc = "reread"
              /\ proc'[p].puts = proc[p].puts,
           \A f \in Files : f # proc[p].puts[1].file => file'[f] = file[f]
    PROVE  PendingOf(p)'
<1>1. Token(p)' = Token(p)
  BY DEF Token
<1>2. \A i \in Unsent(p)' : \E j \in Unsent(p) :
         j # 1 /\ proc'[p].puts[i] = proc[p].puts[j]
  <2>1. CASE Wrote(p)
    BY <2>1, TailUnsent
  <2>2. CASE /\ proc[p].pc = "put" /\ proc'[p].pc = "reread"
             /\ proc'[p].puts = proc[p].puts
    BY <2>2 DEF Unsent
  <2> QED BY <2>1, <2>2
<1>3. \A j \in Unsent(p) : /\ j # 1 => file'[proc[p].puts[j].file] = file[proc[p].puts[j].file]
                           /\ proc[p].puts[j].file \in Files
  <2>1. Unsent(p) \subseteq DOMAIN proc[p].puts /\ 1 \in DOMAIN proc[p].puts
    <3>1. Len(proc[p].puts) = 1 \/ Len(proc[p].puts) = 2
      BY Requests
    <3>2. DOMAIN proc[p].puts = 1..Len(proc[p].puts)
      BY Requests
    <3>3. PICK n : n = Len(proc[p].puts)
      OBVIOUS
    <3>4. n = 1 \/ n = 2
      BY <3>1, <3>3, Zenon
    <3>5. 1 \in 1..n
      BY <3>4
    <3> QED BY <3>2, <3>3, <3>5, UnsentFiles, Zenon
  <2>2. \A j \in DOMAIN proc[p].puts : proc[p].puts[j].file \in Files
    BY Requests
  <2>3. \A j \in DOMAIN proc[p].puts :
           proc[p].puts[j].file = proc[p].puts[1].file => j = 1
    BY <2>1, UnsentFiles
  <2> QED BY <2>1, <2>2, <2>3
<1>4. proc'[p].pc # "getdst"
  BY TailUnsent
<1>5. (\A i \in Unsent(p) :
          LET put == proc[p].puts[i]
          IN lock[put.file] = Token(p) => Keeps(put.file, put.body, proc[p].op.id))'
  <2>1. SUFFICES ASSUME NEW i \in Unsent(p)', lock'[proc'[p].puts[i].file] = Token(p)',
                        NEW x \in STRING, x # proc'[p].op.id
                 PROVE  Same(file'[proc'[p].puts[i].file], proc'[p].puts[i].body, x)
    BY DEF Keeps
  <2>2. PICK j \in Unsent(p) : j # 1 /\ proc'[p].puts[i] = proc[p].puts[j]
    BY <1>2
  <2>3. Keeps(proc[p].puts[j].file, proc[p].puts[j].body, proc[p].op.id)
    BY <1>1, <2>1, <2>2 DEF PendingOf
  <2> QED BY <1>3, <2>1, <2>2, <2>3 DEF Keeps
<1> QED BY <1>4, <1>5 DEF PendingOf


LEMMA PendingStep ==
    ASSUME Typed, Typed', Phases, TokensSound, RequestsSound, OneRequest, Pending,
           (\E p \in Procs : ProcessStep(p)) \/ WorldStep
    PROVE  Pending'
<1>1. ASSUME NEW p \in Procs, NEW op \in Ops, Begins(p, op) PROVE Pending'
  <2>1. Unsent(p)' = {} /\ proc'[p].pc # "getdst"
    BY <1>1 DEF Begins, Unsent
  <2>2. PendingOf(p)'
    BY <2>1 DEF PendingOf
  <2> QED BY <1>1, <2>2, PendingQuiet DEF Begins, Still
<1>2. ASSUME NEW p \in Procs, Calm(p) PROVE Pending'
  <2>1. Unsent(p)' = {} /\ proc'[p].pc # "getdst"
    BY <1>2 DEF Calm, Unsent
  <2>2. PendingOf(p)'
    BY <2>1 DEF PendingOf
  <2> QED BY <1>2, <2>2, PendingQuiet DEF Calm, Still
<1>3. ASSUME NEW p \in Procs, Read(p) PROVE Pending'
  <2>1. Unsent(p)' = {}
    BY <1>3 DEF Read, Unsent
  <2>2. file' = file /\ proc'[p].op = proc[p].op /\ proc'[p].src = file[proc[p].op.file]
    BY <1>3 DEF Read, Still, Keep
  <2>3. PendingOf(p)'
    BY <2>1, <2>2 DEF PendingOf
  <2> QED BY <1>3, <2>3, PendingQuiet DEF Read, Still
<1>4. ASSUME NEW p \in Procs, NEW out \in Content, PlanEdit(p, out) PROVE Pending'
  <2>1. PendingOf(p)'
    BY <1>4, PendingEdit
  <2> QED BY <1>4, <2>1, PendingQuiet DEF PlanEdit, Still
<1>5. ASSUME NEW p \in Procs, NEW i \in Nat, PlanMove(p, i) PROVE Pending'
  <2>1. PendingOf(p)'
    BY <1>5, PendingMove DEF Pending
  <2> QED BY <1>5, <2>1, PendingQuiet DEF PlanMove, Still
<1>6. ASSUME NEW p \in Procs, Settle(p) PROVE Pending'
  <2>1. /\ proc[p].pc = "put" /\ proc'[p].pc = "reread" /\ proc'[p].puts = proc[p].puts
        /\ proc'[p].op = proc[p].op /\ Token(p)' = Token(p) /\ file' = file /\ lock' = lock
    BY <1>6 DEF Settle, Keep, Token
  <2>2. Unsent(p)' \subseteq Unsent(p) /\ proc'[p].pc # "getdst"
    BY <2>1 DEF Unsent
  <2>3. PendingOf(p)'
    BY <2>1, <2>2 DEF Pending, PendingOf, Keeps
  <2> QED BY <1>6, <2>3, PendingQuiet DEF Settle
<1>7. ASSUME NEW p \in Procs, Advance(p) PROVE Pending'
  <2>1. /\ Sends(p) /\ proc'[p].n = proc[p].n /\ proc'[p].op = proc[p].op /\ Wrote(p)
        /\ file' = file /\ lock' = lock
    BY <1>7 DEF Advance, Wrote, Keep, Sends, Still
  <2>2. PendingOf(p)'
    BY <2>1, PendingRest DEF Pending
  <2> QED BY <1>7, <2>2, PendingQuiet DEF Advance, Still
<1>8. ASSUME NEW p \in Procs, NEW result \in Results, Over(p, result) PROVE Pending'
  <2>1. Unsent(p)' = {} /\ proc'[p].pc # "getdst"
    BY <1>8 DEF Over, Unsent
  <2>2. PendingOf(p)'
    BY <2>1 DEF PendingOf
  <2> QED BY <1>8, <2>2, PendingQuiet DEF Over
<1>9. \A q \in Procs : /\ PendingOf(q)
                       /\ \A i \in Unsent(q) : proc[q].puts[i].file \in Files
                       /\ proc[q].pc = "getdst" => proc[q].op.file \in Files
                       /\ Token(q) # Free
  BY UnsentFiles, PutsTyped, Assumed, TokensDiffer
     DEF Pending, Phases, Phase, PhaseOf
<1>10. ASSUME NEW p \in Procs, LandOwn(p) PROVE Pending'
  <2>1. PICK put : put = Request(p)
    OBVIOUS
  <2>2. Sends(p) /\ proc[p].pc = "put"
    BY <1>10 DEF LandOwn, Sends
  <2>3. /\ put.token = Token(p) /\ put.token \in Tokens /\ put.file = proc[p].puts[1].file
        /\ put.file \in Files
    BY <2>1, <2>2, Requests
  <2>4. lock[put.file] = put.token /\ lock' = lock /\ flight' = flight
        /\ \A f \in Files : f # put.file => file'[f] = file[f]
    BY <1>10, <2>1, <2>3 DEF LandOwn, Accepts, Lands, Typed
  <2>5. /\ \A other \in flight : Accepts(other) /\ other.file = put.file => other = put
        /\ \A q \in Procs : \A i \in Unsent(q) :
              lock[proc[q].puts[i].file] = Token(q) /\ proc[q].puts[i].file = put.file =>
                 i = 1 /\ proc[q].pc = "put" /\ put.token = Token(q) /\ put \notin flight
        /\ \A q \in Procs : proc[q].pc = "getdst" => put.token # Token(q)
    BY <2>1, <2>2, <2>3, <2>4, LandingAlone
  <2>6. put \notin flight
    <3>1. 1 \in Unsent(p)
      BY <2>2, UnsentFiles
    <3> QED BY <3>1, <2>3, <2>4, <2>5
  <2>7. PendingOf(p)'
    BY <1>10, <2>2, <2>3, <2>4, <1>9, PendingRest DEF LandOwn, Wrote, Keep
  <2>8. ASSUME NEW q \in Procs, q # p PROVE PendingOf(q)'
    <3>1. proc'[q] = proc[q] /\ Token(q) # Token(p)
      BY <1>10, <2>8, TokensDiffer DEF LandOwn, Alone
    <3>2. \A i \in Unsent(q) :
             lock[proc[q].puts[i].file] = Token(q) => proc[q].puts[i].file # put.file
      BY <2>3, <2>5, <3>1
    <3>3. proc[q].pc = "getdst" /\ lock[proc[q].op.file] = Token(q) =>
             proc[q].op.file # put.file
      BY <2>3, <2>4, <3>1
    <3> QED BY <1>9, <2>4, <3>1, <3>2, <3>3, PendingOther
  <2>9. ASSUME NEW other \in flight, Accepts(other)' PROVE Keeps(other.file, other.body, other.id)'
    <3>1. Accepts(other) /\ other.file \in Files
      BY <2>4, <2>9 DEF Accepts, Typed
    <3>2. other.file # put.file
      BY <2>5, <2>6, <3>1
    <3>3. Keeps(other.file, other.body, other.id)
      BY <3>1 DEF Pending
    <3> QED BY <2>4, <3>1, <3>2, <3>3 DEF Keeps
  <2> QED BY <2>4, <2>7, <2>8, <2>9 DEF Pending
<1>11. ASSUME NEW put \in flight, LateLand(put) PROVE Pending'
  <2>1. /\ put.token \in Tokens /\ put.file \in Files /\ lock[put.file] = put.token
        /\ lock' = lock /\ proc' = proc /\ flight' = flight \ {put}
        /\ \A f \in Files : f # put.file => file'[f] = file[f]
    BY <1>11 DEF LateLand, Accepts, Lands, Typed
  <2>2. /\ \A other \in flight : Accepts(other) /\ other.file = put.file => other = put
        /\ \A q \in Procs : \A i \in Unsent(q) :
              lock[proc[q].puts[i].file] = Token(q) /\ proc[q].puts[i].file = put.file =>
                 i = 1 /\ proc[q].pc = "put" /\ put.token = Token(q) /\ put \notin flight
        /\ \A q \in Procs : proc[q].pc = "getdst" => put.token # Token(q)
    BY <2>1, LandingAlone
  <2>3. ASSUME NEW q \in Procs PROVE PendingOf(q)'
    <3>1. \A i \in Unsent(q) :
             lock[proc[q].puts[i].file] = Token(q) => proc[q].puts[i].file # put.file
      BY <2>2
    <3>2. proc[q].pc = "getdst" /\ lock[proc[q].op.file] = Token(q) =>
             proc[q].op.file # put.file
      BY <2>1, <2>2
    <3> QED BY <1>9, <2>1, <3>1, <3>2, PendingOther
  <2>4. ASSUME NEW other \in flight', Accepts(other)' PROVE Keeps(other.file, other.body, other.id)'
    <3>1. other \in flight /\ other # put /\ Accepts(other) /\ other.file \in Files
      BY <2>1, <2>4 DEF Accepts, Typed
    <3>2. other.file # put.file
      BY <2>2, <3>1
    <3>3. Keeps(other.file, other.body, other.id)
      BY <3>1 DEF Pending
    <3> QED BY <2>1, <3>1, <3>2, <3>3 DEF Keeps
  <2> QED BY <2>3, <2>4 DEF Pending
<1>12. ASSUME file' = file, proc' = proc, flight' \subseteq flight,
              \A f \in Files : lock'[f] = lock[f] \/ lock'[f] = Free
       PROVE  Pending'
  <2>1. \A q \in Procs : PendingOf(q)'
    BY <1>9, <1>12, PendingOther
  <2>2. ASSUME NEW other \in flight', Accepts(other)' PROVE Keeps(other.file, other.body, other.id)'
    <3>1. other \in flight /\ other.file \in Files /\ other.token # Free
      BY <1>12, TokenIs DEF Typed
    <3>2. Accepts(other)
      BY <1>12, <2>2, <3>1 DEF Accepts
    <3>3. Keeps(other.file, other.body, other.id)
      BY <3>1, <3>2 DEF Pending
    <3> QED BY <1>12, <3>3 DEF Keeps
  <2> QED BY <2>1, <2>2 DEF Pending
<1>13. ASSUME NEW put \in flight, Drop(put) PROVE Pending'
  BY <1>12, <1>13 DEF Drop
<1>14. CASE Expired
  BY <1>12, <1>14 DEF Expired, Still
<1>15. ASSUME NEW f \in Files, OrgzlyRead(f) PROVE Pending'
  BY <1>12, <1>15 DEF OrgzlyRead, Server
<1>16. ASSUME NEW f \in Files, NEW b \in Content, NEW i \in Nat, OrgzlyWrote(f, b, i)
       PROVE  Pending'
  <2>1. /\ lock' = lock /\ lock[f] = Free /\ proc' = proc /\ flight' = flight
        /\ \A g \in Files : lock[g] # Free => file'[g] = file[g]
    BY <1>16 DEF OrgzlyWrote
  <2>2. \A q \in Procs : PendingOf(q)'
    BY <1>9, <2>1, PendingOther
  <2>3. ASSUME NEW other \in flight', Accepts(other)' PROVE Keeps(other.file, other.body, other.id)'
    <3>1. other \in flight /\ other.file \in Files /\ other.token # Free
      BY <2>1, TokenIs DEF Typed
    <3>2. Accepts(other) /\ lock[other.file] # Free
      BY <2>1, <2>3, <3>1 DEF Accepts
    <3>3. Keeps(other.file, other.body, other.id)
      BY <3>1, <3>2 DEF Pending
    <3> QED BY <2>1, <3>1, <3>2, <3>3 DEF Keeps
  <2> QED BY <2>2, <2>3 DEF Pending
<1> QED BY <1>1, <1>2, <1>3, <1>4, <1>5, <1>6, <1>7, <1>8, <1>10, <1>11, <1>13, <1>14, <1>15,
           <1>16 DEF ProcessStep, WorldStep



-----------------------------------------------------------------------------
(* A headline is always somewhere.                                          *)

\* What was asked for stays known.
LEMMA AskedStays ==
    ASSUME Typed, Phases, Basic
    PROVE  \A op \in AskedOps : op.kind # "none" => op \in AskedOps'
<1>1. SUFFICES ASSUME NEW op \in AskedOps, op.kind # "none" PROVE op \in AskedOps'
  OBVIOUS
<1>2. CASE \E e \in ended : op = e.op
  BY <1>2 DEF Basic, AskedOps
<1>3. ASSUME NEW p \in Procs, op = proc[p].op PROVE op \in AskedOps'
  <2>1. Busy(p)
    <3>1. SUFFICES ASSUME ~Busy(p) PROVE FALSE
      OBVIOUS
    <3>2. proc[p] = [Idle EXCEPT !.n = proc[p].n]
      BY <3>1 DEF Phases, Phase, PhaseOf, Busy
    <3>3. proc[p].op = NoOp
      BY <3>2 DEF Idle
    <3> QED BY <1>1, <1>3, <3>3 DEF NoOp
  <2>2. (Busy(p)' /\ proc'[p].op = proc[p].op) \/ \E e \in ended' : e.op = proc[p].op
    BY <2>1 DEF Basic
  <2> QED BY <1>3, <2>2 DEF AskedOps
<1> QED BY <1>2, <1>3 DEF AskedOps

LEMMA DeletedStays ==
    ASSUME Typed, Phases, Basic, NEW x, Deleted(x)
    PROVE  Deleted(x)'
<1>1. PICK op \in AskedOps : op.kind = "delete" /\ op.id = x
  BY DEF Deleted
<1>2. op \in AskedOps'
  BY <1>1, AskedStays
<1> QED BY <1>1, <1>2 DEF Deleted

\* What is left to send is one PUT, or the two of a move.
LEMMA UnsentIs ==
    ASSUME Typed, Phases, NEW p \in Procs
    PROVE  /\ Unsent(p) \subseteq {1, 2}
           /\ 2 \in Unsent(p) => /\ Sends(p) /\ ~proc[p].wrote /\ Crosses(proc[p].op)
                                 /\ Len(proc[p].puts) = 2
<1>1. SUFFICES ASSUME Sends(p)
               PROVE  /\ Unsent(p) \subseteq {1, 2}
                      /\ 2 \in Unsent(p) => /\ Sends(p) /\ ~proc[p].wrote
                                            /\ Crosses(proc[p].op) /\ Len(proc[p].puts) = 2
  BY UnsentFiles
<1>2. /\ Len(proc[p].puts) = IF Crosses(proc[p].op) /\ ~proc[p].wrote THEN 2 ELSE 1
      /\ DOMAIN proc[p].puts = 1..Len(proc[p].puts)
  BY <1>1, Requests
<1>3. Unsent(p) \subseteq DOMAIN proc[p].puts
  BY UnsentFiles
<1>4. PICK n : n = Len(proc[p].puts)
  OBVIOUS
<1>5. CASE n = 1
  <2>1. 1..n = {1}
    BY <1>5
  <2>2. DOMAIN proc[p].puts = {1}
    BY <1>2, <1>4, <2>1, Zenon
  <2>3. Unsent(p) \subseteq {1} /\ 2 \notin {1}
    BY <1>3, <2>2
  <2> QED BY <2>3
<1>6. CASE n = 2 /\ Crosses(proc[p].op) /\ ~proc[p].wrote
  <2>1. 1..n = {1, 2}
    BY <1>6
  <2>2. DOMAIN proc[p].puts = {1, 2}
    BY <1>2, <1>4, <2>1, Zenon
  <2> QED BY <1>1, <1>3, <1>4, <1>6, <2>2
<1>7. n = 1 \/ (n = 2 /\ Crosses(proc[p].op) /\ ~proc[p].wrote)
  BY <1>2, <1>4, Zenon
<1> QED BY <1>5, <1>6, <1>7

\* What the second PUT of a move leaves out of its file is in the body of the first.
LEMMA SecondKeeps ==
    ASSUME Typed, Phases, Pending, NEW p \in Procs, NEW x \in STRING,
           2 \in Unsent(p), lock[proc[p].puts[2].file] = Token(p),
           Has(file[proc[p].puts[2].file], x), ~Has(proc[p].puts[2].body, x)
    PROVE  Has(proc[p].puts[1].body, x)
<1>1. Sends(p) /\ ~proc[p].wrote /\ Crosses(proc[p].op)
  BY UnsentIs
<1>2. Keeps(proc[p].puts[2].file, proc[p].puts[2].body, proc[p].op.id)
  BY DEF Pending, PendingOf
<1>3. x = proc[p].op.id
  BY <1>2, SameHas DEF Keeps
<1>4. find(proc[p].puts[1].body, proc[p].op.id) # 0
  BY <1>1 DEF Phases, Phase, PhaseOf, Sends, Crosses
<1>5. 1 \in DOMAIN proc[p].puts
  BY <1>1, UnsentFiles, Requests, UnsentIs
<1>6. proc[p].puts[1].body \in Content
  BY <1>5, PutsTyped
<1> QED BY <1>3, <1>4, <1>6, HasFind

\* Its own PUT has landed: of what is left to send, all was left before.
LEMMA UnsentWas ==
    ASSUME Typed, Phases, NEW p \in Procs, Sends(p),
           \/ Wrote(p)
           \/ /\ proc[p].pc = "put" /\ proc'[p].pc = "reread"
              /\ proc'[p].puts = proc[p].puts
    PROVE  \A i \in Unsent(p)' : 2 \in Unsent(p) /\ proc'[p].puts[i] = proc[p].puts[2]
<1>1. CASE Wrote(p)
  <2>1. \A i \in Unsent(p)' : i = 1
    BY <1>1, TailUnsent
  <2> QED BY <1>1, <2>1, TailUnsent
<1>2. CASE /\ proc[p].pc = "put" /\ proc'[p].pc = "reread"
           /\ proc'[p].puts = proc[p].puts
  <2>1. \A i \in Unsent(p)' : i \in Unsent(p) /\ i # 1
    BY <1>2 DEF Unsent
  <2>2. \A i \in Unsent(p)' : i = 2
    BY <2>1, UnsentIs
  <2> QED BY <1>2, <2>1, <2>2
<1> QED BY <1>1, <1>2

\* A step with no landing threatens no more than was threatened.
LEMMA NoneLostQuiet ==
    ASSUME Typed, Typed', Phases, RequestsSound, Basic, NoneLost,
           file' = file, syncs' = syncs,
           NEW p \in Procs, Alone(p),
           \A f \in Files : \/ lock'[f] = lock[f] \/ lock'[f] = Free
                            \/ proc[p].pc = "lock" /\ lock'[f] = Token(p),
           \/ flight' \subseteq flight
           \/ proc[p].pc = "put" /\ lock' = lock /\ flight' = flight \cup {Request(p)},
           \A g \in Files, x \in ListingIds :
              Threatens(p, g, x)' /\ Has(file[g], x) => Threatens(p, g, x) \/ Deleted(x)'
    PROVE  NoneLost'
<1>1. ASSUME NEW f \in Files, NEW t \in Tokens, lock'[f] = t,
             proc[p].pc = "lock" => t # Token(p)
      PROVE  lock[f] = t
  BY <1>1, TokenIs
<1>2. ASSUME NEW g \in Files, NEW x, NEW q \in Procs, q # p, Threatens(q, g, x)'
      PROVE  Threatens(q, g, x)
  <2>1. proc'[q] = proc[q]
    BY <1>2 DEF Alone
  <2>2. Unsent(q)' = Unsent(q) /\ Token(q)' = Token(q) /\ (Sends(q)' <=> Sends(q))
    BY <2>1 DEF Unsent, Token, Sends
  <2>3. PICK t \in Tokens : t = Token(q)
    BY ProcTyped
  <2>4. lock'[g] = t /\ t # Token(p)
    BY <1>2, <2>2, <2>3, TokensDiffer DEF Threatens
  <2>5. lock[g] = t
    BY <2>4, <1>1
  <2> QED BY <1>2, <2>1, <2>2, <2>3, <2>5 DEF Threatens
<1>3. ASSUME NEW g \in Files, NEW x, NEW put \in flight',
             put.file = g, Accepts(put)', ~Has(put.body, x)
      PROVE  Threat(g, x)
  <2>1. CASE put \in flight
    <3>1. put.token \in Tokens
      BY <2>1 DEF Typed
    <3>2. proc[p].pc = "lock" => put.token # Token(p)
      BY <2>1 DEF RequestsSound, RequestsOf, Sent, Busy
    <3>3. lock[g] = put.token
      BY <3>1, <3>2, <1>1, <1>3 DEF Accepts
    <3> QED BY <1>3, <2>1, <3>3 DEF Threat, Accepts
  <2>2. CASE put \notin flight
    <3>1. proc[p].pc = "put" /\ lock' = lock /\ put = Request(p)
      BY <2>2
    <3>2. /\ Request(p).file = proc[p].puts[1].file /\ Request(p).body = proc[p].puts[1].body
          /\ Request(p).token = Token(p)
      BY <3>1, Requests DEF Sends
    <3>3. 1 \in Unsent(p) /\ Sends(p)
      BY <3>1, UnsentFiles DEF Sends
    <3>4. Threatens(p, g, x)
      BY <1>3, <3>1, <3>2, <3>3 DEF Threatens, Accepts
    <3> QED BY <3>4 DEF Threat
  <2> QED BY <2>1, <2>2
<1>4. ASSUME syncs' = 0, NEW x \in ListingIds PROVE Deleted(x)' \/ Somewhere(x)'
  <2>1. CASE Deleted(x)
    BY <2>1, DeletedStays
  <2>2. ASSUME NEW g \in Files, Has(file[g], x), ~Threat(g, x), ~Deleted(x)'
        PROVE  Somewhere(x)'
    <3>1. ~Threat(g, x)'
      <4>1. \A q \in Procs : ~Threatens(q, g, x)'
        BY <1>2, <2>2 DEF Threat
      <4>2. \A put \in flight' : ~(put.file = g /\ Accepts(put)' /\ ~Has(put.body, x))
        BY <1>3, <2>2
      <4> QED BY <4>1, <4>2 DEF Threat
    <3> QED BY <2>2, <3>1 DEF Somewhere
  <2> QED BY <1>4, <2>1, <2>2 DEF NoneLost, Somewhere
<1> QED BY <1>4 DEF NoneLost


LEMMA ListingTyped ==
    /\ ListingIds \subseteq STRING
    /\ \A f \in Files : Listing[f] \in Content
<1>1. Listing \in [Files -> Seq([id : STRING, title : {"old"}, marks : {<<>>}])]
  BY OrgAssumption
<1>2. [id : STRING, title : {"old"}, marks : {<<>>}] \subseteq Entry
  <2>1. <<>> \in Seq(Names)
    OBVIOUS
  <2> QED BY <2>1 DEF Entry
<1>3. ASSUME NEW f \in Files
      PROVE  Listing[f] \in Content /\ \A i \in DOMAIN Listing[f] : Listing[f][i].id \in STRING
  <2>1. Listing[f] \in Seq([id : STRING, title : {"old"}, marks : {<<>>}])
    BY <1>1
  <2>2. \A i \in DOMAIN Listing[f] : Listing[f][i] \in [id : STRING, title : {"old"}, marks : {<<>>}]
    BY <2>1, ElementOfSeq, LenProperties
  <2>3. Listing[f] \in Content
    <3>1. \A i \in 1..Len(Listing[f]) : Listing[f][i] \in Entry
      BY <2>1, <2>2, <1>2, LenProperties
    <3>2. Len(Listing[f]) \in Nat /\ DOMAIN Listing[f] = 1..Len(Listing[f])
          /\ Listing[f] = [i \in 1..Len(Listing[f]) |-> Listing[f][i]]
      BY <2>1, LenProperties
    <3> QED BY <3>1, <3>2, IsASeq DEF Content
  <2> QED BY <2>2, <2>3
<1>4. \A f \in Files : \A i \in DOMAIN Listing[f] : Listing[f][i].id \in STRING
  BY <1>3
<1> QED BY <1>3, <1>4 DEF ListingIds

\* A PUT that lands and has the headline shows it where nobody takes it out; one that has
\* not was a threat to its file, so the headline is in another one, and the second PUT of
\* the same move is not made to take it out there.
LEMMA NoneLostLanding ==
    ASSUME Typed, Typed', Phases, RequestsSound, OneRequest, Pending, Basic, NoneLost,
           NEW put, put.token \in Tokens, put.file \in Files, lock[put.file] = put.token,
           lock' = lock, syncs' = syncs, file' = [file EXCEPT ![put.file] = put.body],
           \/ put \in flight /\ flight' = flight \ {put} /\ proc' = proc
           \/ \E p \in Procs :
                 /\ proc[p].pc = "put" /\ put = Request(p) /\ flight' = flight /\ Alone(p)
                 /\ Token(p)' = Token(p)
                 /\ \A i \in Unsent(p)' : 2 \in Unsent(p) /\ proc'[p].puts[i] = proc[p].puts[2]
    PROVE  NoneLost'
<1>1. /\ \A other \in flight : Accepts(other) /\ other.file = put.file => other = put
      /\ \A q \in Procs : \A i \in Unsent(q) :
            lock[proc[q].puts[i].file] = Token(q) /\ proc[q].puts[i].file = put.file =>
               i = 1 /\ proc[q].pc = "put" /\ put.token = Token(q) /\ put \notin flight
  BY LandingAlone
<1>2. \A f \in Files : file'[f] = IF f = put.file THEN put.body ELSE file[f]
  BY DEF Typed
<1>3. flight' \subseteq flight /\ put \notin flight'
  <2>1. ASSUME NEW p \in Procs, proc[p].pc = "put", put = Request(p), flight' = flight
        PROVE  put \notin flight
    <3>1. 1 \in Unsent(p) /\ Sends(p)
      BY <2>1, UnsentFiles DEF Sends
    <3>2. put.file = proc[p].puts[1].file /\ put.token = Token(p)
      BY <2>1, <3>1, Requests
    <3> QED BY <3>1, <3>2, <1>1
  <2> QED BY <2>1
<1>4. \A other \in flight' : Accepts(other)' => Accepts(other) /\ other.file # put.file
  BY <1>1, <1>3 DEF Accepts
\* What is threatened by a process was, or is by the second PUT of the one that landed.
<1>5. ASSUME NEW q \in Procs, NEW i \in Unsent(q)', lock'[proc'[q].puts[i].file] = Token(q)'
      PROVE  /\ Token(q)' = Token(q)
             /\ proc'[q].puts[i].file # put.file
             /\ \/ /\ proc'[q].puts = proc[q].puts /\ i \in Unsent(q)
                   /\ put \in flight \/ put.token # Token(q)
                \/ /\ proc[q].pc = "put" /\ put = Request(q)
                   /\ 2 \in Unsent(q) /\ proc'[q].puts[i] = proc[q].puts[2]
  <2>1. ASSUME NEW p \in Procs, q = p, proc[p].pc = "put", put = Request(p),
               Token(p)' = Token(p), 2 \in Unsent(p), proc'[p].puts[i] = proc[p].puts[2]
        PROVE  proc'[q].puts[i].file # put.file
    <3>1. lock[proc[p].puts[2].file] = Token(p)
      BY <1>5, <2>1
    <3> QED BY <1>1, <2>1, <3>1
  <2>2. CASE proc'[q] = proc[q] /\ (put \in flight \/ put.token # Token(q))
    <3>1. Unsent(q)' = Unsent(q) /\ Token(q)' = Token(q)
      BY <2>2 DEF Unsent, Token
    <3> QED BY <1>1, <1>5, <2>2, <3>1
  <2>3. CASE put \in flight /\ proc' = proc
    BY <2>2, <2>3
  <2>4. ASSUME NEW p \in Procs, proc[p].pc = "put", put = Request(p), Alone(p), q # p
        PROVE  proc'[q] = proc[q] /\ put.token # Token(q)
    <3>1. put.token = Token(p)
      BY <2>4, Requests DEF Sends
    <3> QED BY <2>4, <3>1, TokensDiffer DEF Alone
  <2> QED BY <2>1, <2>2, <2>3, <2>4
<1>6. ASSUME syncs' = 0, NEW x \in ListingIds, ~Deleted(x)' PROVE Somewhere(x)'
  <2>1. PICK g \in Files : Has(file[g], x) /\ ~Threat(g, x)
    BY <1>6, DeletedStays DEF NoneLost, Somewhere
  <2>2. CASE Has(put.body, x)
    <3>1. \A other \in flight' : ~(other.file = put.file /\ Accepts(other)')
      BY <1>4
    <3>2. \A q \in Procs : ~Threatens(q, put.file, x)'
      BY <1>5 DEF Threatens
    <3>3. ~Threat(put.file, x)'
      BY <3>1, <3>2 DEF Threat
    <3> QED BY <1>2, <2>2, <3>3 DEF Somewhere
  <2>3. CASE ~Has(put.body, x)
    <3>1. Threat(put.file, x)
      <4>1. CASE put \in flight
        BY <2>3, <4>1 DEF Threat, Accepts
      <4>2. ASSUME NEW p \in Procs, proc[p].pc = "put", put = Request(p)
            PROVE  Threatens(p, put.file, x)
        <5>1. Sends(p) /\ 1 \in Unsent(p)
          BY <4>2, UnsentFiles DEF Sends
        <5>2. /\ put.file = proc[p].puts[1].file /\ put.body = proc[p].puts[1].body
              /\ put.token = Token(p)
          BY <4>2, <5>1, Requests
        <5> QED BY <2>3, <5>1, <5>2 DEF Threatens
      <4> QED BY <4>1, <4>2 DEF Threat
    <3>2. g # put.file /\ Has(file'[g], x)
      BY <1>2, <2>1, <3>1
    <3>3. \A other \in flight' : ~(other.file = g /\ Accepts(other)' /\ ~Has(other.body, x))
      BY <1>3, <1>4, <2>1 DEF Threat
    <3>4. ASSUME NEW q \in Procs, Threatens(q, g, x)' PROVE FALSE
      <4>1. PICK i \in Unsent(q)' :
               /\ proc'[q].puts[i].file = g /\ ~Has(proc'[q].puts[i].body, x)
               /\ i = 2 => file'[proc'[q].puts[1].file] = proc'[q].puts[1].body
        BY <3>4 DEF Threatens
      <4>2. lock'[g] = Token(q)'
        BY <3>4 DEF Threatens
      <4>3. Token(q)' = Token(q) /\ lock[g] = Token(q) /\ x \in STRING
        BY <1>5, <4>1, <4>2, ListingTyped
      <4>4. ASSUME 2 \in Unsent(q), proc[q].puts[2].file = g, ~Has(proc[q].puts[2].body, x)
            PROVE  Has(proc[q].puts[1].body, x)
        BY <4>3, <4>4, <2>1, SecondKeeps
      <4>5. CASE /\ proc[q].pc = "put" /\ put = Request(q)
                 /\ 2 \in Unsent(q) /\ proc'[q].puts[i] = proc[q].puts[2]
        <5>1. put.body = proc[q].puts[1].body
          BY <4>5, Requests DEF Sends
        <5> QED BY <2>3, <4>1, <4>4, <4>5, <5>1
      <4>6. CASE proc'[q].puts = proc[q].puts /\ i \in Unsent(q)
        <5>1. Sends(q) /\ ~Threatens(q, g, x)
          BY <2>1, <4>6, UnsentFiles DEF Threat
        <5>2. i = 2 /\ file[proc[q].puts[1].file] # proc[q].puts[1].body
          BY <4>1, <4>3, <4>6, <5>1 DEF Threatens
        <5>3. Has(proc[q].puts[1].body, x)
          BY <4>1, <4>4, <4>6, <5>2
        <5>4. file'[proc[q].puts[1].file] = proc[q].puts[1].body
          BY <4>1, <4>6, <5>2
        <5>5. proc[q].puts[1].file \in Files
          <6>1. 1 \in DOMAIN proc[q].puts
            BY <5>1, Requests, UnsentFiles, UnsentIs, <5>2, <4>6
          <6> QED BY <6>1, PutsTyped
        <5> QED BY <1>2, <2>3, <5>2, <5>3, <5>4, <5>5
      <4> QED BY <1>5, <4>1, <4>2, <4>5, <4>6
    <3>5. ~Threat(g, x)'
      BY <3>3, <3>4 DEF Threat
    <3> QED BY <3>2, <3>5 DEF Somewhere
  <2> QED BY <2>2, <2>3
<1> QED BY <1>6 DEF NoneLost


LEMMA NoneLostStep ==
    ASSUME Typed, Typed', Phases, RequestsSound, OneRequest, Pending, Basic, NoneLost,
           (\E p \in Procs : ProcessStep(p)) \/ WorldStep
    PROVE  NoneLost'
<1>1. ASSUME NEW p \in Procs, ~Sends(p)', Alone(p), file' = file, syncs' = syncs,
             \A f \in Files : \/ lock'[f] = lock[f] \/ lock'[f] = Free
                              \/ proc[p].pc = "lock" /\ lock'[f] = Token(p),
             \/ flight' = flight
             \/ proc[p].pc = "put" /\ lock' = lock /\ flight' = flight \cup {Request(p)}
      PROVE  NoneLost'
  <2>1. \A g, x : ~Threatens(p, g, x)'
    BY <1>1 DEF Threatens
  <2> QED BY <1>1, <2>1, NoneLostQuiet
<1>2. ASSUME NEW p \in Procs, NEW op \in Ops, Begins(p, op) PROVE NoneLost'
  BY <1>1, <1>2 DEF Begins, Still, Sends
<1>3. ASSUME NEW p \in Procs, Calm(p) PROVE NoneLost'
  BY <1>1, <1>3 DEF Calm, Still, Sends
<1>4. ASSUME NEW p \in Procs, Read(p) PROVE NoneLost'
  BY <1>1, <1>4 DEF Read, Still, Sends
<1>5. ASSUME NEW p \in Procs, NEW result \in Results, Over(p, result) PROVE NoneLost'
  BY <1>1, <1>5 DEF Over, Sends
<1>6. ASSUME NEW p \in Procs, NEW out \in Content, PlanEdit(p, out) PROVE NoneLost'
  <2>1. PICK op \in Ops : op = proc[p].op
    BY <1>6 DEF PlanEdit
  <2>2. PICK one : one = [file |-> op.file, body |-> out]
    OBVIOUS
  <2>3. /\ file' = file /\ syncs' = syncs /\ Alone(p) /\ lock' = lock /\ flight' = flight
        /\ proc'[p].puts = <<one>> /\ proc'[p].pc = "put" /\ proc'[p].op = op
        /\ EditFacts(file[op.file], out, op, Token(p))
    BY <1>6, <2>1, <2>2 DEF PlanEdit, Still, Keep
  <2>4. DOMAIN proc'[p].puts = {1} /\ proc'[p].puts[1] = one
    BY <2>3
  <2>5. Unsent(p)' = {1}
    BY <2>3, <2>4 DEF Unsent
  <2>6. ASSUME NEW g \in Files, NEW x \in ListingIds, Threatens(p, g, x)', Has(file[g], x)
        PROVE  Deleted(x)'
    <3>1. g = op.file /\ ~Has(out, x) /\ x \in STRING
      BY <2>2, <2>4, <2>5, <2>6, ListingTyped DEF Threatens
    <3>2. x = op.id
      BY <2>3, <2>6, <3>1, SameHas DEF EditFacts
    <3>3. op.kind = "delete"
      BY <2>3, <3>1, <3>2, HasFind DEF EditFacts
    <3>4. op \in AskedOps'
      BY <2>3 DEF AskedOps
    <3> QED BY <3>2, <3>3, <3>4 DEF Deleted
  <2> QED BY <2>3, <2>6, NoneLostQuiet
<1>7. ASSUME NEW p \in Procs, NEW i \in Nat, PlanMove(p, i) PROVE NoneLost'
  <2>1. PICK op \in Ops : op = proc[p].op
    BY <1>7 DEF PlanMove
  <2>2. PICK src \in Content : src = proc[p].src
    BY ProcTyped
  <2>3. op.dst \in Files
    BY Assumed
  <2>4. PICK d \in Content : d = file[op.dst]
    BY <2>3 DEF Typed
  <2>5. PICK h \in Entry : h = src[i]
    BY <1>7, <2>2, ContentFacts DEF PlanMove
  <2>6. PICK one : one = [file |-> op.dst, body |-> Append(d, h)]
    OBVIOUS
  <2>7. PICK two : two = [file |-> op.file, body |-> Without(src, i)]
    OBVIOUS
  <2>8. /\ file' = file /\ syncs' = syncs /\ Alone(p) /\ lock' = lock /\ flight' = flight
        /\ proc'[p].puts = <<one, two>> /\ proc'[p].pc = "put" /\ proc'[p].op = op
    BY <1>7, <2>1, <2>2, <2>4, <2>5, <2>6, <2>7 DEF PlanMove, Still, Keep
  <2>9. DOMAIN proc'[p].puts = {1, 2} /\ proc'[p].puts[1] = one /\ proc'[p].puts[2] = two
    BY <2>8
  <2>10. Unsent(p)' = {1, 2}
    BY <2>8, <2>9 DEF Unsent
  <2>11. \A x : Has(d, x) => Has(Append(d, h), x)
    <3>1. SUFFICES ASSUME NEW x, NEW k \in At(d, x) PROVE k \in At(Append(d, h), x)
      BY DEF Has
    <3>2. k \in 1..Len(d) /\ Len(d) \in Nat /\ d[k].id = x
      BY AtFacts, ContentFacts
    <3>3. k \in 1..(Len(d) + 1)
      BY <3>2
    <3>4. DOMAIN Append(d, h) = 1..(Len(d) + 1) /\ Append(d, h)[k] = d[k]
      BY <3>2, AppendFacts, ContentFacts
    <3> QED BY <3>2, <3>3, <3>4 DEF At
  <2>12. Append(d, h) # d
    BY AppendFacts
  <2>13. ASSUME NEW g \in Files, NEW x \in ListingIds, Threatens(p, g, x)', Has(file[g], x)
         PROVE  FALSE
    <3>1. PICK k \in {1, 2} :
             /\ proc'[p].puts[k].file = g /\ ~Has(proc'[p].puts[k].body, x)
             /\ k = 2 => file'[proc'[p].puts[1].file] = proc'[p].puts[1].body
      BY <2>10, <2>13 DEF Threatens
    <3>2. CASE k = 1
      <4>1. g = op.dst /\ ~Has(Append(d, h), x)
        <5>1. proc'[p].puts[k] = one
          BY <2>9, <3>2
        <5>2. one.file = op.dst /\ one.body = Append(d, h)
          BY <2>6
        <5> QED BY <3>1, <5>1, <5>2, Zenon
      <4> QED BY <2>4, <2>11, <2>13, <4>1
    <3>3. CASE k = 2
      BY <2>4, <2>6, <2>8, <2>9, <2>12, <3>1, <3>3
    <3> QED BY <3>2, <3>3
  <2> QED BY <2>8, <2>13, NoneLostQuiet
<1>8. ASSUME NEW p \in Procs, Settle(p) PROVE NoneLost'
  <2>1. /\ file' = file /\ syncs' = syncs /\ Alone(p) /\ lock' = lock
        /\ proc[p].pc = "put" /\ proc'[p].pc = "reread"
        /\ proc'[p].puts = proc[p].puts /\ Token(p)' = Token(p)
        /\ flight' = flight \/ flight' = flight \cup {Request(p)}
    BY <1>8 DEF Settle, Keep, Token
  <2>2. Unsent(p)' \subseteq Unsent(p) /\ Sends(p)
    BY <2>1 DEF Unsent, Sends
  <2>3. \A g \in Files, x \in ListingIds : Threatens(p, g, x)' => Threatens(p, g, x)
    BY <2>1, <2>2 DEF Threatens
  <2> QED BY <2>1, <2>3, NoneLostQuiet
<1>9. ASSUME NEW p \in Procs, Advance(p) PROVE NoneLost'
  <2>1. /\ file' = file /\ syncs' = syncs /\ Alone(p) /\ lock' = lock /\ flight' = flight
        /\ Sends(p) /\ Wrote(p) /\ Token(p)' = Token(p)
        /\ file[proc[p].puts[1].file] = proc[p].puts[1].body
    BY <1>9 DEF Advance, Still, Wrote, Keep, Token, Sends
  <2>2. \A i \in Unsent(p)' : 2 \in Unsent(p) /\ proc'[p].puts[i] = proc[p].puts[2]
    BY <2>1, UnsentWas
  <2>3. \A g \in Files, x \in ListingIds : Threatens(p, g, x)' => Threatens(p, g, x)
    <3>1. SUFFICES ASSUME NEW g \in Files, NEW x \in ListingIds, Threatens(p, g, x)'
                   PROVE  Threatens(p, g, x)
      OBVIOUS
    <3>2. PICK i \in Unsent(p)' : proc'[p].puts[i].file = g /\ ~Has(proc'[p].puts[i].body, x)
      BY <3>1 DEF Threatens
    <3>3. /\ 2 \in Unsent(p) /\ proc[p].puts[2].file = g /\ ~Has(proc[p].puts[2].body, x)
          /\ lock[g] = Token(p)
      BY <2>1, <2>2, <3>1, <3>2 DEF Threatens
    <3> QED BY <2>1, <3>3 DEF Threatens
  <2> QED BY <2>1, <2>3, NoneLostQuiet
<1>10. ASSUME NEW p \in Procs, LandOwn(p) PROVE NoneLost'
  <2>1. PICK put : put = Request(p)
    OBVIOUS
  <2>2. Sends(p) /\ proc[p].pc = "put"
    BY <1>10 DEF LandOwn, Sends
  <2>3. put.token = Token(p) /\ put.token \in Tokens /\ put.file \in Files
    BY <2>1, <2>2, Requests
  <2>4. /\ lock[put.file] = put.token /\ lock' = lock /\ flight' = flight /\ syncs' = syncs
        /\ Alone(p) /\ file' = [file EXCEPT ![put.file] = put.body] /\ Token(p)' = Token(p)
    BY <1>10, <2>1 DEF LandOwn, Accepts, Lands, Wrote, Keep, Token
  <2>5. \A i \in Unsent(p)' : 2 \in Unsent(p) /\ proc'[p].puts[i] = proc[p].puts[2]
    BY <1>10, <2>2, UnsentWas DEF LandOwn, Keep
  <2> QED BY <2>1, <2>2, <2>3, <2>4, <2>5, NoneLostLanding
<1>11. ASSUME NEW put \in flight, LateLand(put) PROVE NoneLost'
  <2>1. /\ put.token \in Tokens /\ put.file \in Files /\ lock[put.file] = put.token
        /\ lock' = lock /\ proc' = proc /\ flight' = flight \ {put} /\ syncs' = syncs
        /\ file' = [file EXCEPT ![put.file] = put.body]
    BY <1>11 DEF LateLand, Accepts, Lands, Typed
  <2> QED BY <2>1, NoneLostLanding
<1>12. ASSUME file' = file, proc' = proc, flight' \subseteq flight, syncs' = syncs,
              \A f \in Files : lock'[f] = lock[f] \/ lock'[f] = Free
       PROVE  NoneLost'
  <2>1. ASSUME NEW g \in Files, NEW x, Threat(g, x)' PROVE Threat(g, x)
    <3>1. ASSUME NEW put \in flight', put.file = g, Accepts(put)', ~Has(put.body, x)
          PROVE  put \in flight /\ Accepts(put)
      <4>1. put \in flight /\ put.token # Free /\ lock'[g] = put.token
        BY <1>12, <3>1, TokenIs DEF Typed, Accepts
      <4>2. lock[g] = put.token
        BY <1>12, <4>1
      <4> QED BY <3>1, <4>1, <4>2 DEF Accepts
    <3>2. ASSUME NEW q \in Procs, Threatens(q, g, x)' PROVE Threatens(q, g, x)
      <4>1. /\ Unsent(q)' = Unsent(q) /\ Token(q)' = Token(q) /\ (Sends(q)' <=> Sends(q))
            /\ Token(q) # Free
        BY <1>12, TokensDiffer DEF Unsent, Token, Sends
      <4>2. lock[g] = Token(q)
        BY <1>12, <3>2, <4>1 DEF Threatens
      <4> QED BY <1>12, <3>2, <4>1, <4>2 DEF Threatens
    <3> QED BY <2>1, <3>1, <3>2 DEF Threat
  <2>2. ASSUME syncs' = 0, NEW x \in ListingIds, ~Deleted(x)' PROVE Somewhere(x)'
    <3>1. PICK g \in Files : Has(file[g], x) /\ ~Threat(g, x)
      BY <1>12, <2>2, DeletedStays DEF NoneLost, Somewhere
    <3>2. ~Threat(g, x)' /\ Has(file'[g], x)
      BY <1>12, <2>1, <3>1
    <3> QED BY <3>2 DEF Somewhere
  <2> QED BY <2>2 DEF NoneLost
<1>13. ASSUME NEW put \in flight, Drop(put) PROVE NoneLost'
  BY <1>12, <1>13 DEF Drop
<1>14. CASE Expired
  BY <1>12, <1>14 DEF Expired, Still
<1>15. ASSUME NEW f \in Files, OrgzlyRead(f) PROVE NoneLost'
  BY <1>12, <1>15 DEF OrgzlyRead, Server
<1>16. ASSUME NEW f \in Files, NEW b \in Content, NEW i \in Nat, OrgzlyWrote(f, b, i)
       PROVE  NoneLost'
  <2>1. syncs' = syncs + 1 /\ syncs \in Nat
    BY <1>16 DEF OrgzlyWrote, Typed
  <2>2. syncs' # 0
    BY <2>1
  <2> QED BY <2>2 DEF NoneLost
<1> QED BY <1>2, <1>3, <1>4, <1>5, <1>6, <1>7, <1>8, <1>9, <1>10, <1>11, <1>13, <1>14, <1>15,
           <1>16 DEF ProcessStep, WorldStep



-----------------------------------------------------------------------------
(* Where contents come from.                                                *)

LEMMA ShowsStays ==
    ASSUME NEW p \in Procs, NEW b, proc'[p].op = proc[p].op, proc'[p].n = proc[p].n
    PROVE  Shows(b, p)' <=> Shows(b, p)
BY DEF Shows, Token

LEMMA LandedStays ==
    ASSUME Basic, NEW p \in Procs, proc'[p].n = proc[p].n, Landed(p)
    PROVE  Landed(p)'
BY DEF Landed, Token, Basic

\* The ids and the marks of a content.
LEMMA EntryFacts ==
    ASSUME NEW b \in Content, NEW i \in DOMAIN b
    PROVE  /\ b[i] \in Entry /\ b[i].id \in STRING /\ b[i].marks \in Seq(Names)
           /\ \A j \in DOMAIN b[i].marks :
                 /\ b[i].marks[j] \in Names
                 /\ b[i].marks[j] = <<b[i].marks[j][1], b[i].marks[j][2]>>
                 /\ b[i].marks[j][1] \in Procs \cup {"orgzly"} /\ b[i].marks[j][2] \in Nat
<1>1. b[i] \in Entry /\ b[i].id \in STRING /\ b[i].marks \in Seq(Names)
  BY ContentFacts
<1>2. \A j \in DOMAIN b[i].marks : b[i].marks[j] \in Names
  BY <1>1, ElementOfSeq, LenProperties
<1>3. \A m \in Names : m = <<m[1], m[2]>> /\ m[1] \in Procs \cup {"orgzly"} /\ m[2] \in Nat
  BY DEF Names
<1> QED BY <1>1, <1>2, <1>3

\* A sound content stays sound, and does not show an operation that begins.
LEMMA SoundStays ==
    ASSUME Typed, Typed', Phases, Basic,
           NEW t \in Tokens \cup {Free}, NEW b \in Content, Sound(t, b)
    PROVE  Sound(t, b)'
<1>1. \A q \in Procs : proc[q].n \in Nat /\ proc'[q].n \in Nat /\ proc[q].n <= proc'[q].n
  <2>1. SUFFICES ASSUME NEW q \in Procs
                 PROVE  proc[q].n \in Nat /\ proc'[q].n \in Nat /\ proc[q].n <= proc'[q].n
    OBVIOUS
  <2>2. PICK n \in Nat : n = proc[q].n
    BY DEF Typed, Process
  <2>3. PICK m \in Nat : m = proc'[q].n
    BY DEF Typed, Process
  <2>4. m = n \/ m = n + 1
    BY <2>2, <2>3 DEF Basic
  <2>5. n <= m
    BY <2>4
  <2> QED BY <2>2, <2>3, <2>5
<1>2. syncs \in Nat /\ syncs' \in Nat /\ syncs <= syncs'
  BY DEF Typed, Basic
<1>3. MarksSound(b)'
  <2>1. MarksSound(b)
    BY DEF Sound
  <2>2. ASSUME NEW i \in DOMAIN b, NEW j \in DOMAIN b[i].marks
        PROVE  LET m == b[i].marks[j]
               IN IF m[1] = "orgzly" THEN m[2] < syncs' ELSE m[2] <= proc'[m[1]].n
    <3>1. PICK m \in Names : m = b[i].marks[j]
      BY EntryFacts
    <3>2. m[1] \in Procs \cup {"orgzly"} /\ m[2] \in Nat
      BY DEF Names
    <3>3. IF m[1] = "orgzly" THEN m[2] < syncs ELSE m[2] <= proc[m[1]].n
      BY <2>1, <3>1 DEF MarksSound
    <3>4. CASE m[1] = "orgzly"
      <4>1. m[2] < syncs
        BY <3>3, <3>4
      <4>2. m[2] < syncs'
        BY <1>2, <3>2, <4>1
      <4> QED BY <3>1, <3>4, <4>2
    <3>5. CASE m[1] # "orgzly"
      <4>1. m[1] \in Procs
        BY <3>2, <3>5
      <4>2. PICK n \in Nat : n = proc[m[1]].n
        BY <1>1, <4>1
      <4>3. PICK k \in Nat : k = proc'[m[1]].n
        BY <1>1, <4>1
      <4>4. m[2] <= n /\ n <= k
        BY <1>1, <3>3, <3>5, <4>1, <4>2, <4>3
      <4>5. m[2] <= k
        BY <3>2, <4>4
      <4> QED BY <3>1, <3>5, <4>3, <4>5
    <3> QED BY <3>4, <3>5
  <2> QED BY <2>1, <2>2 DEF MarksSound
<1>4. IdsSound(b)'
  <2>1. Captured \subseteq Captured'
    BY AskedStays DEF Captured
  <2>2. \A x : Moved(x) => Moved(x)'
    BY AskedStays DEF Moved, Crosses
  <2> QED BY <2>1, <2>2 DEF Sound, IdsSound
<1>5. Unseen(t, b)'
  <2>1. SUFFICES ASSUME NEW p \in Procs, Busy(p)', ~Landed(p)', t # Token(p)'
                 PROVE  ~Shows(b, p)'
    BY DEF Unseen
  <2>2. CASE proc'[p].n = proc[p].n /\ Busy(p) /\ proc'[p].op = proc[p].op
    <3>1. Token(p)' = Token(p) /\ ~Landed(p)
      BY <2>1, <2>2, LandedStays DEF Token
    <3>2. ~Shows(b, p)
      BY <2>1, <2>2, <3>1 DEF Sound, Unseen
    <3> QED BY <2>2, <3>2, ShowsStays
  <2>3. CASE proc'[p].n = proc[p].n + 1 /\ proc'[p].op \in Ops /\ Fresh(proc'[p].op)
    <3>1. PICK n \in Nat : n = proc[p].n
      BY <1>1
    <3>2. ~Marked(b, Token(p)')
      <4>1. SUFFICES ASSUME NEW i \in DOMAIN b, NEW j \in DOMAIN b[i].marks,
                            b[i].marks[j] = Token(p)'
                     PROVE  FALSE
        BY DEF Marked
      <4>2. Token(p)' = <<p, n + 1>>
        BY <2>3, <3>1 DEF Token
      <4>3. b[i].marks[j][1] = p /\ b[i].marks[j][2] = n + 1
        BY <4>1, <4>2
      <4>4. p # "orgzly"
        BY Assumed
      <4>5. n + 1 <= n
        BY <3>1, <4>3, <4>4 DEF Sound, MarksSound
      <4> QED BY <4>5
    <3>3. ASSUME proc'[p].op.kind = "create" PROVE ~Has(b, proc'[p].op.id)
      <4>1. proc'[p].op.id \notin ListingIds
        BY <2>3, <3>3, Assumed
      <4>2. proc'[p].op.id \notin Captured
        BY <2>3, <3>3 DEF Fresh, Captured
      <4> QED BY <4>1, <4>2 DEF Sound, IdsSound, Has, At
    <3> QED BY <3>2, <3>3 DEF Shows
  <2> QED BY <2>1, <2>2, <2>3 DEF Basic
<1> QED BY <1>3, <1>4, <1>5 DEF Sound

\* What is sound of a file is sound of a copy of it in anybody's hands.
LEMMA SoundOfFree ==
    ASSUME NEW t, NEW b, Sound(Free, b)
    PROVE  Sound(t, b)
<1>1. \A p \in Procs : Token(p) # Free
  BY TokensDiffer
<1> QED BY <1>1 DEF Sound, Unseen

\* A content made of the headlines of two others.
MadeOf(b, c, d) ==
    \A k \in DOMAIN b : \/ \E j \in DOMAIN c : b[k] = c[j]
                        \/ \E j \in DOMAIN d : b[k] = d[j]

CapturesOnce(b) == \A x : x \notin ListingIds /\ ~Moved(x) => Unique(b, x)

LEMMA SoundParts ==
    ASSUME NEW t, NEW c, NEW d, NEW b, Sound(t, c), Sound(t, d),
           MadeOf(b, c, d), CapturesOnce(b)
    PROVE  Sound(t, b)
<1> USE DEF MadeOf, CapturesOnce
<1>1. MarksSound(b)
  <2>1. \A e \in {c, d} : MarksSound(e)
    BY DEF Sound
  <2>2. ASSUME NEW k \in DOMAIN b
        PROVE  /\ \A j, l \in DOMAIN b[k].marks : b[k].marks[j] = b[k].marks[l] => j = l
               /\ \A j \in DOMAIN b[k].marks :
                     LET m == b[k].marks[j]
                     IN IF m[1] = "orgzly" THEN m[2] < syncs ELSE m[2] <= proc[m[1]].n
    <3>1. PICK e \in {c, d} : \E j \in DOMAIN e : b[k] = e[j]
      OBVIOUS
    <3>2. PICK j \in DOMAIN e : b[k] = e[j]
      BY <3>1
    <3> QED BY <2>1, <3>2 DEF MarksSound
  <2> QED BY <2>2 DEF MarksSound
<1>2. IdsSound(b)
  <2>1. \A k \in DOMAIN b : b[k].id \in ListingIds \cup Captured
    BY DEF Sound, IdsSound
  <2>2. \A i, j \in DOMAIN b :
           b[i].id = b[j].id /\ b[i].id \notin ListingIds /\ ~Moved(b[i].id) => i = j
    BY DEF Unique, At
  <2> QED BY <2>1, <2>2 DEF IdsSound
<1>3. Unseen(t, b)
  <2>1. SUFFICES ASSUME NEW p \in Procs, ~Shows(c, p), ~Shows(d, p) PROVE ~Shows(b, p)
    BY DEF Sound, Unseen
  <2>2. ~Marked(b, Token(p))
    BY <2>1 DEF Shows, Marked
  <2>3. proc[p].op.kind = "create" => ~Has(b, proc[p].op.id)
    BY <2>1 DEF Shows, Has, At
  <2> QED BY <2>2, <2>3 DEF Shows
<1> QED BY <1>1, <1>2, <1>3 DEF Sound


\* What an operation makes of a file that does not show it yet.
LEMMA EditSound ==
    ASSUME Typed, Phases, CapturesDistinct, NEW p \in Procs, Busy(p), ~Landed(p),
           NEW c \in Content, NEW out \in Content, Sound(Free, c),
           EditFacts(c, out, proc[p].op, Token(p))
    PROVE  Sound(Token(p), out)
<1>1. PICK op \in Op : op = proc[p].op /\ op \in AskedOps /\ op \in Ops
  BY Assumed DEF Phases, Phase, PhaseOf, Busy, AskedOps
<1>2. PICK t \in Tokens : t = Token(p)
  BY ProcTyped
<1>3. /\ t[1] = p /\ t[2] = proc[p].n /\ t \in Names /\ p # "orgzly"
  BY <1>2, Assumed DEF Token, Tokens, Names
<1>4. ~Shows(c, p)
  BY TokensDiffer DEF Sound, Unseen
<1>5. ~Marked(c, t) /\ (op.kind = "create" => ~Has(c, op.id))
  BY <1>1, <1>2, <1>4 DEF Shows
<1>6. \A k \in DOMAIN out : From(out[k], c, op, t)
  BY <1>1, <1>2 DEF EditFacts
<1>7. \A j \in DOMAIN c : c[j] \in Entry /\ c[j].marks \in Seq(Names)
  BY EntryFacts
\* Of each headline of the new content: where its id and its marks are from.
<1>8. ASSUME NEW k \in DOMAIN out
      PROVE  \/ \E j \in DOMAIN c :
                   /\ out[k].id = c[j].id
                   /\ \/ out[k].marks = c[j].marks
                      \/ out[k].marks = Append(c[j].marks, t)
             \/ op.kind = "create" /\ out[k].id = op.id /\ out[k].marks = <<>>
  <2>1. \A j \in DOMAIN c :
           /\ [c[j] EXCEPT !.marks = Append(@, t)].id = c[j].id
           /\ [c[j] EXCEPT !.marks = Append(@, t)].marks = Append(c[j].marks, t)
           /\ [c[j] EXCEPT !.title = "new"].id = c[j].id
           /\ [c[j] EXCEPT !.title = "new"].marks = c[j].marks
    BY <1>7 DEF Entry
  <2>2. Headline(op.id).id = op.id /\ Headline(op.id).marks = <<>>
    BY DEF Headline
  <2>3. PICK h : h = out[k]
    OBVIOUS
  <2>4. From(h, c, op, t)
    BY <1>6, <2>3
  <2>5. CASE op.kind = "create" /\ h = Headline(op.id)
    BY <2>2, <2>3, <2>5
  <2>6. ASSUME NEW j \in DOMAIN c,
               \/ h = c[j]
               \/ h = [c[j] EXCEPT !.marks = Append(@, t)]
               \/ h = [c[j] EXCEPT !.title = "new"]
        PROVE  h.id = c[j].id /\ (h.marks = c[j].marks \/ h.marks = Append(c[j].marks, t))
    BY <2>1, <2>6, Zenon
  <2>7. CASE \E j \in DOMAIN c : \/ h = c[j]
                                \/ h = [c[j] EXCEPT !.marks = Append(@, t)]
                                \/ h = [c[j] EXCEPT !.title = "new"]
    BY <2>3, <2>6, <2>7, Zenon
  <2> QED BY <2>4, <2>5, <2>7, Zenon DEF From
<1>9. MarksSound(out)
  <2>1. ASSUME NEW k \in DOMAIN out
        PROVE  /\ \A j, l \in DOMAIN out[k].marks : out[k].marks[j] = out[k].marks[l] => j = l
               /\ \A j \in DOMAIN out[k].marks :
                     LET m == out[k].marks[j]
                     IN IF m[1] = "orgzly" THEN m[2] < syncs ELSE m[2] <= proc[m[1]].n
    <3>1. CASE op.kind = "create" /\ out[k].id = op.id /\ out[k].marks = <<>>
      BY <3>1
    <3>2. ASSUME NEW j \in DOMAIN c, out[k].marks = c[j].marks
          PROVE  <2>1!2
      BY <3>2 DEF Sound, MarksSound
    <3>3. ASSUME NEW i \in DOMAIN c, out[k].marks = Append(c[i].marks, t)
          PROVE  <2>1!2
      <4>1. PICK s \in Seq(Names) : s = c[i].marks
        BY <1>7
      <4>2. /\ Len(s) \in Nat /\ DOMAIN s = 1..Len(s)
            /\ Append(s, t) \in Seq(Names) /\ Len(Append(s, t)) = Len(s) + 1
            /\ Append(s, t)[Len(s) + 1] = t
            /\ \A j \in 1..Len(s) : Append(s, t)[j] = s[j]
        BY <1>3, AppendProperties, LenProperties
      <4>3. DOMAIN Append(s, t) = 1..(Len(s) + 1)
        BY <4>2, LenProperties
      <4>4. \A j \in DOMAIN s : s[j] # t
        BY <1>5, <4>1 DEF Marked
      <4>5. \A j, l \in DOMAIN s : s[j] = s[l] => j = l
        BY <4>1 DEF Sound, MarksSound
      <4>6. \A j \in 1..(Len(s) + 1) : j \in 1..Len(s) \/ j = Len(s) + 1
        BY <4>2
      <4>7. \A j \in DOMAIN Append(s, t) :
               (j \in DOMAIN s /\ Append(s, t)[j] = s[j])
               \/ (j = Len(s) + 1 /\ Append(s, t)[j] = t)
        BY <4>2, <4>3, <4>6
      <4>8. \A j, l \in DOMAIN Append(s, t) : Append(s, t)[j] = Append(s, t)[l] => j = l
        BY <4>4, <4>5, <4>7
      <4>9. \A j \in DOMAIN s :
               LET m == s[j]
               IN IF m[1] = "orgzly" THEN m[2] < syncs ELSE m[2] <= proc[m[1]].n
        BY <4>1 DEF Sound, MarksSound
      <4>10. IF t[1] = "orgzly" THEN t[2] < syncs ELSE t[2] <= proc[t[1]].n
        <5>1. PICK n \in Nat : n = proc[p].n
          BY ProcTyped
        <5>2. t[2] = n /\ n <= n
          BY <1>3, <5>1
        <5>3. t[2] <= proc[t[1]].n
          BY <1>3, <5>1, <5>2
        <5> QED BY <1>3, <5>3
      <4>11. \A j \in DOMAIN Append(s, t) :
               LET m == Append(s, t)[j]
               IN IF m[1] = "orgzly" THEN m[2] < syncs ELSE m[2] <= proc[m[1]].n
        <5>1. SUFFICES ASSUME NEW j \in DOMAIN Append(s, t), NEW m, m = Append(s, t)[j]
                       PROVE  IF m[1] = "orgzly" THEN m[2] < syncs ELSE m[2] <= proc[m[1]].n
          OBVIOUS
        <5>2. CASE j \in DOMAIN s /\ m = s[j]
          BY <4>9, <5>2
        <5>3. CASE m = t
          BY <4>10, <5>3
        <5> QED BY <4>7, <5>1, <5>2, <5>3
      <4> QED BY <3>3, <4>1, <4>8, <4>11
    <3> QED BY <1>8, <3>1, <3>2, <3>3
  <2> QED BY <2>1 DEF MarksSound
<1>10. IdsSound(out)
  <2>1. op.kind = "create" => op.id \in Captured
    BY <1>1 DEF Captured
  <2>2. \A k \in DOMAIN out : out[k].id \in ListingIds \cup Captured
    BY <1>8, <2>1 DEF Sound, IdsSound
  <2>3. \A x : x \notin ListingIds /\ ~Moved(x) => Unique(c, x)
    BY DEF Sound, IdsSound, Unique, At
  <2>4. \A x : x \notin ListingIds /\ ~Moved(x) => Unique(out, x)
    BY <1>1, <1>5, <2>3 DEF EditFacts
  <2> QED BY <2>2, <2>4 DEF IdsSound, Unique, At
<1>11. Unseen(t, out)
  <2>1. SUFFICES ASSUME NEW q \in Procs, Busy(q), ~Landed(q), t # Token(q) PROVE ~Shows(out, q)
    BY DEF Unseen
  <2>2. q # p /\ ~Shows(c, q)
    BY <1>2, <2>1, TokensDiffer DEF Sound, Unseen
  <2>3. ~Marked(out, Token(q))
    <3>1. SUFFICES ASSUME NEW k \in DOMAIN out, NEW j \in DOMAIN out[k].marks,
                          out[k].marks[j] = Token(q)
                   PROVE  FALSE
      BY DEF Marked
    <3>2. CASE op.kind = "create" /\ out[k].id = op.id /\ out[k].marks = <<>>
      BY <3>2
    <3>3. ASSUME NEW i \in DOMAIN c, out[k].marks = c[i].marks PROVE FALSE
      BY <2>2, <3>1, <3>3 DEF Shows, Marked
    <3>4. ASSUME NEW i \in DOMAIN c, out[k].marks = Append(c[i].marks, t) PROVE FALSE
      <4>1. PICK s \in Seq(Names) : s = c[i].marks
        BY <1>7
      <4>2. /\ Len(s) \in Nat /\ DOMAIN s = 1..Len(s)
            /\ Append(s, t) \in Seq(Names) /\ Len(Append(s, t)) = Len(s) + 1
            /\ Append(s, t)[Len(s) + 1] = t
            /\ \A l \in 1..Len(s) : Append(s, t)[l] = s[l]
        BY <1>3, AppendProperties, LenProperties
      <4>3. j \in 1..(Len(s) + 1)
        BY <3>1, <3>4, <4>1, <4>2, LenProperties
      <4>4. j \in 1..Len(s) \/ j = Len(s) + 1
        BY <4>2, <4>3
      <4>5. j \in 1..Len(s)
        BY <2>1, <3>1, <3>4, <4>1, <4>2, <4>4
      <4>6. c[i].marks[j] = Token(q) /\ j \in DOMAIN c[i].marks
        BY <3>1, <3>4, <4>1, <4>2, <4>5
      <4> QED BY <2>2, <4>6 DEF Shows, Marked
    <3> QED BY <1>8, <3>2, <3>3, <3>4
  <2>4. ASSUME proc[q].op.kind = "create" PROVE ~Has(out, proc[q].op.id)
    <3>1. ~Has(c, proc[q].op.id)
      BY <2>2, <2>4 DEF Shows
    <3>2. op.kind = "create" => op.id # proc[q].op.id
      BY <1>1, <2>1, <2>2, <2>4 DEF CapturesDistinct
    <3> QED BY <1>8, <3>1, <3>2 DEF Has, At
  <2> QED BY <2>3, <2>4 DEF Shows
<1> QED BY <1>2, <1>9, <1>10, <1>11 DEF Sound

\* What a move makes of its two files.
LEMMA MoveSound ==
    ASSUME NEW t, NEW op \in AskedOps, Crosses(op),
           NEW d \in Content, NEW src \in Content, NEW i \in 1..Len(src), src[i].id = op.id,
           Sound(t, d), Sound(t, src)
    PROVE  Sound(t, Append(d, src[i])) /\ Sound(t, Without(src, i))
<1>1. PICK h \in Entry : h = src[i]
  BY ContentFacts
<1>2. Moved(h.id) /\ i \in DOMAIN src
  BY <1>1, ContentFacts DEF Moved
<1>3. \A x : x \notin ListingIds /\ ~Moved(x) => Unique(d, x) /\ Unique(src, x)
  BY DEF Sound, IdsSound, Unique, At
<1>4. Sound(t, Append(d, h))
  <2>1. MadeOf(Append(d, h), d, src)
    BY <1>1, <1>2, FromAppend DEF MadeOf
  <2>2. CapturesOnce(Append(d, h))
    BY <1>2, <1>3, UniqueAppend DEF CapturesOnce
  <2> QED BY <2>1, <2>2, SoundParts
<1>5. Sound(t, Without(src, i))
  <2>1. MadeOf(Without(src, i), src, src)
    BY FromWithout DEF MadeOf
  <2>2. CapturesOnce(Without(src, i))
    BY <1>3, UniqueWithout DEF CapturesOnce
  <2> QED BY <2>1, <2>2, SoundParts
<1> QED BY <1>1, <1>4, <1>5


LEMMA HeldStays ==
    ASSUME Typed, Typed', Phases, Basic, ContentsSound,
           NEW t \in Tokens \cup {Free}, NEW b \in Content, Held(t, b)
    PROVE  Sound(t, b)'
BY SoundStays DEF ContentsSound

\* The next request of a process is one of the contents it holds.
LEMMA RequestHeld ==
    ASSUME Typed, Phases, NEW p \in Procs, Sends(p)
    PROVE  Held(Token(p), Request(p).body) /\ Request(p).token = Token(p)
<1>1. 1 \in DOMAIN proc[p].puts
  <2>1. /\ Len(proc[p].puts) = 1 \/ Len(proc[p].puts) = 2
        /\ DOMAIN proc[p].puts = 1..Len(proc[p].puts)
    BY Requests
  <2>2. PICK n : n = Len(proc[p].puts)
    OBVIOUS
  <2>3. n = 1 \/ n = 2
    BY <2>1, <2>2, Zenon
  <2>4. 1 \in 1..n
    BY <2>3
  <2> QED BY <2>1, <2>2, <2>4, Zenon
<1>2. Request(p).body = proc[p].puts[1].body /\ Request(p).token = Token(p)
  BY Requests
<1> QED BY <1>1, <1>2 DEF Held, HeldBy

\* A step with no landing and no upload.
LEMMA ContentsQuiet ==
    ASSUME Typed, Typed', Phases, Basic, ContentsSound,
           file' = file, copy' = copy, NEW p \in Procs, Alone(p),
           flight' \subseteq flight \/ (Sends(p) /\ flight' = flight \cup {Request(p)}),
           \A t \in Tokens \cup {Free}, b \in Content : HeldBy(p, t, b)' => Sound(t, b)'
    PROVE  ContentsSound'
<1>1. SUFFICES ASSUME NEW t \in Tokens \cup {Free}, NEW b \in Content, Held(t, b)',
                      ~HeldBy(p, t, b)'
               PROVE  Sound(t, b)'
  BY DEF ContentsSound
<1>2. Held(t, b)
  <2>1. CASE /\ t = Free
             /\ \E f \in Files : b = file'[f] \/ (copy'[f] # NoOp /\ b = copy'[f].body)
    BY <2>1 DEF Held
  <2>2. ASSUME NEW put \in flight', t = put.token, b = put.body PROVE Held(t, b)
    <3>1. CASE put \in flight
      BY <2>2, <3>1 DEF Held
    <3>2. CASE put \notin flight
      BY <2>2, <3>2, RequestHeld
    <3> QED BY <3>1, <3>2
  <2>3. ASSUME NEW q \in Procs, HeldBy(q, t, b)' PROVE Held(t, b)
    <3>1. proc'[q] = proc[q]
      BY <1>1, <2>3 DEF Alone
    <3>2. HeldBy(q, t, b)
      BY <2>3, <3>1 DEF HeldBy, Token, Sends
    <3> QED BY <3>2 DEF Held
  <2> QED BY <1>1, <2>1, <2>2, <2>3 DEF Held
<1> QED BY <1>2, HeldStays

\* A PUT lands: what it brings is shown to have landed.
LEMMA ContentsLanding ==
    ASSUME Typed, Typed', Phases, Basic, ContentsSound,
           NEW put, put.token \in Tokens, put.body \in Content, put.file \in Files,
           Held(put.token, put.body),
           file' = [file EXCEPT ![put.file] = put.body], copy' = copy, flight' \subseteq flight,
           \E l \in landed' : l.token = put.token,
           \A q \in Procs, t \in Tokens \cup {Free}, b \in Content :
              HeldBy(q, t, b)' => Held(t, b)
    PROVE  ContentsSound'
<1>1. SUFFICES ASSUME NEW t \in Tokens \cup {Free}, NEW b \in Content, Held(t, b)'
               PROVE  Sound(t, b)'
  BY DEF ContentsSound
<1>2. CASE t = Free /\ b = put.body
  <2>1. Sound(put.token, put.body)'
    BY HeldStays
  <2>2. \A p \in Procs : put.token = Token(p)' => Landed(p)'
    BY DEF Landed
  <2>3. Unseen(Free, put.body)'
    BY <2>1, <2>2 DEF Sound, Unseen
  <2> QED BY <1>2, <2>1, <2>3 DEF Sound
<1>3. CASE ~(t = Free /\ b = put.body)
  <2>1. Held(t, b)
    <3>1. CASE /\ t = Free
               /\ \E f \in Files : b = file'[f] \/ (copy'[f] # NoOp /\ b = copy'[f].body)
      <4>1. \A f \in Files : file'[f] = put.body \/ file'[f] = file[f]
        BY DEF Typed
      <4> QED BY <1>3, <3>1, <4>1 DEF Held
    <3>2. CASE \E other \in flight' : t = other.token /\ b = other.body
      BY <3>2 DEF Held
    <3>3. CASE \E q \in Procs : HeldBy(q, t, b)'
      BY <3>3
    <3> QED BY <1>1, <3>1, <3>2, <3>3 DEF Held
  <2> QED BY <2>1, HeldStays
<1> QED BY <1>2, <1>3


\* Orgzly's increment is named after its upload.
LEMMA OrgzlySound ==
    ASSUME NEW n \in Nat, n = syncs, syncs' = n + 1,
           NEW b \in Content, NEW c \in Content, NEW i \in 1..Len(b),
           MarksSound(b), Sound(Free, b)',
           DOMAIN c = DOMAIN b, \A k \in DOMAIN b : c[k].id = b[k].id,
           \A k \in DOMAIN b : k # i => c[k] = b[k],
           c[i].marks = Append(b[i].marks, <<"orgzly", n>>)
    PROVE  Sound(Free, c)'
<1>1. PICK m : m = <<"orgzly", n>>
  OBVIOUS
<1>2. i \in DOMAIN b /\ m \in Names /\ m[1] = "orgzly" /\ m[2] = n
  BY <1>1, ContentFacts DEF Names
<1>3. PICK s \in Seq(Names) : s = b[i].marks
  BY <1>2, EntryFacts
<1>4. /\ Len(s) \in Nat /\ DOMAIN s = 1..Len(s)
      /\ Append(s, m) \in Seq(Names) /\ Len(Append(s, m)) = Len(s) + 1
      /\ Append(s, m)[Len(s) + 1] = m
      /\ \A j \in 1..Len(s) : Append(s, m)[j] = s[j]
  BY <1>2, AppendProperties, LenProperties
<1>5. DOMAIN Append(s, m) = 1..(Len(s) + 1)
  BY <1>4, LenProperties
<1>6. \A j \in 1..(Len(s) + 1) : j \in 1..Len(s) \/ j = Len(s) + 1
  BY <1>4
<1>7. \A j \in DOMAIN Append(s, m) :
         (j \in DOMAIN s /\ Append(s, m)[j] = s[j]) \/ (j = Len(s) + 1 /\ Append(s, m)[j] = m)
  BY <1>4, <1>5, <1>6
<1>8. c[i].marks = Append(s, m)
  BY <1>1, <1>3
<1>9. \A j \in DOMAIN s : s[j] # m
  <2>1. SUFFICES ASSUME NEW j \in DOMAIN s, s[j] = m PROVE FALSE
    OBVIOUS
  <2>2. b[i].marks[j] = m /\ j \in DOMAIN b[i].marks
    BY <1>3, <2>1
  <2>3. n < n
    BY <1>2, <2>2 DEF MarksSound
  <2> QED BY <2>3
<1>10. MarksSound(c)'
  <2>1. ASSUME NEW k \in DOMAIN c
        PROVE  /\ \A j, l \in DOMAIN c[k].marks : c[k].marks[j] = c[k].marks[l] => j = l
               /\ \A j \in DOMAIN c[k].marks :
                     LET x == c[k].marks[j]
                     IN IF x[1] = "orgzly" THEN x[2] < syncs' ELSE x[2] <= proc'[x[1]].n
    <3>1. CASE k # i
      BY <3>1 DEF Sound, MarksSound
    <3>2. CASE k = i
      <4>1. \A j, l \in DOMAIN s : s[j] = s[l] => j = l
        BY <1>2, <1>3 DEF Sound, MarksSound
      <4>2. \A j, l \in DOMAIN Append(s, m) : Append(s, m)[j] = Append(s, m)[l] => j = l
        BY <1>7, <1>9, <4>1
      <4>3. ASSUME NEW j \in DOMAIN Append(s, m), NEW x, x = Append(s, m)[j]
            PROVE  IF x[1] = "orgzly" THEN x[2] < syncs' ELSE x[2] <= proc'[x[1]].n
        <5>1. CASE j \in DOMAIN s /\ x = s[j]
          <6>1. j \in DOMAIN b[i].marks /\ b[i].marks[j] = x
            BY <1>3, <5>1
          <6> QED BY <1>2, <6>1 DEF Sound, MarksSound
        <5>2. CASE x = m
          <6>1. n < n + 1
            OBVIOUS
          <6> QED BY <1>2, <5>2, <6>1
        <5> QED BY <1>7, <4>3, <5>1, <5>2
      <4> QED BY <1>8, <3>2, <4>2, <4>3
    <3> QED BY <3>1, <3>2
  <2> QED BY <2>1 DEF MarksSound
<1>11. IdsSound(c)'
  BY DEF Sound, IdsSound
<1>12. Unseen(Free, c)'
  <2>1. SUFFICES ASSUME NEW q \in Procs, ~Shows(b, q)' PROVE ~Shows(c, q)'
    BY DEF Sound, Unseen
  <2>2. Token(q)' # m
    <3>1. q # "orgzly"
      BY Assumed
    <3> QED BY <1>1, <3>1 DEF Token
  <2>3. ~Marked(c, Token(q)')
    <3>1. SUFFICES ASSUME NEW k \in DOMAIN c, NEW j \in DOMAIN c[k].marks,
                          c[k].marks[j] = Token(q)'
                   PROVE  FALSE
      BY DEF Marked
    <3>2. CASE k # i
      BY <2>1, <3>1, <3>2 DEF Shows, Marked
    <3>3. CASE k = i
      <4>1. j \in DOMAIN s /\ s[j] = Token(q)'
        BY <1>7, <1>8, <2>2, <3>1, <3>3
      <4>2. j \in DOMAIN b[i].marks /\ b[i].marks[j] = Token(q)'
        BY <1>3, <4>1
      <4> QED BY <1>2, <2>1, <4>2 DEF Shows, Marked
    <3> QED BY <3>2, <3>3
  <2>4. proc'[q].op.kind = "create" => ~Has(c, proc'[q].op.id)
    BY <2>1 DEF Shows, Has, At
  <2> QED BY <2>3, <2>4 DEF Shows
<1> QED BY <1>10, <1>11, <1>12 DEF Sound

LEMMA ContentsStep ==
    ASSUME Typed, Typed', Phases, RequestsSound, Basic, ContentsSound, CapturesDistinct,
           (\E p \in Procs : ProcessStep(p)) \/ WorldStep
    PROVE  ContentsSound'
<1>1. ASSUME NEW p \in Procs, ~Sends(p)', proc'[p].pc # "getdst", Alone(p),
             file' = file, copy' = copy,
             flight' \subseteq flight \/ (Sends(p) /\ flight' = flight \cup {Request(p)})
      PROVE  ContentsSound'
  <2>1. \A t, b : ~HeldBy(p, t, b)'
    BY <1>1 DEF HeldBy
  <2> QED BY <1>1, <2>1, ContentsQuiet
<1>2. ASSUME NEW p \in Procs, NEW op \in Ops, Begins(p, op) PROVE ContentsSound'
  BY <1>1, <1>2 DEF Begins, Still, Sends
<1>3. ASSUME NEW p \in Procs, Calm(p) PROVE ContentsSound'
  BY <1>1, <1>3 DEF Calm, Still, Sends
<1>4. ASSUME NEW p \in Procs, NEW result \in Results, Over(p, result) PROVE ContentsSound'
  BY <1>1, <1>4 DEF Over, Sends
<1>5. ASSUME NEW p \in Procs, NEW f \in Files
      PROVE  /\ file[f] \in Content /\ Sound(Free, file[f]) /\ Sound(Token(p), file[f])
             /\ Token(p) \in Tokens
  <2>1. file[f] \in Content /\ Token(p) \in Tokens
    BY ProcTyped DEF Typed
  <2>2. Held(Free, file[f])
    BY DEF Held
  <2>3. Sound(Free, file[f])
    BY <2>1, <2>2 DEF ContentsSound
  <2> QED BY <2>1, <2>3, SoundOfFree
<1>6. ASSUME NEW p \in Procs, Read(p) PROVE ContentsSound'
  <2>1. /\ file' = file /\ copy' = copy /\ flight' = flight /\ Alone(p) /\ Token(p)' = Token(p)
        /\ proc'[p].pc = "getdst" /\ proc[p].op \in Ops /\ proc'[p].src = file[proc[p].op.file]
    BY <1>6 DEF Read, Still, Keep, Token
  <2>2. PICK f \in Files : f = proc[p].op.file
    BY <2>1, Assumed
  <2>3. PICK t \in Tokens : t = Token(p)
    BY ProcTyped
  <2>4. PICK b \in Content : b = file[f]
    BY <1>5
  <2>5. Sound(t, b)
    BY <1>5, <2>3, <2>4
  <2>6. Sound(t, b)'
    BY <2>5, SoundStays
  <2>7. \A u, c : HeldBy(p, u, c)' => u = t /\ c = b
    BY <2>1, <2>2, <2>3, <2>4 DEF HeldBy, Sends
  <2>8. \A u \in Tokens \cup {Free}, c \in Content : HeldBy(p, u, c)' => Sound(u, c)'
    BY <2>6, <2>7
  <2> QED BY <2>1, <2>8, ContentsQuiet
<1>7. ASSUME NEW p \in Procs, NEW out \in Content, PlanEdit(p, out) PROVE ContentsSound'
  <2>1. PICK op \in Ops : op = proc[p].op
    BY <1>7 DEF PlanEdit
  <2>2. op.file \in Files
    BY Assumed
  <2>3. PICK one : one = [file |-> op.file, body |-> out]
    OBVIOUS
  <2>4. /\ file' = file /\ copy' = copy /\ flight' = flight /\ Alone(p) /\ Token(p)' = Token(p)
        /\ proc[p].pc = "lock" /\ proc'[p].pc = "put" /\ proc'[p].puts = <<one>>
        /\ EditFacts(file[op.file], out, op, Token(p))
    BY <1>7, <2>1, <2>3 DEF PlanEdit, Still, Keep, Token
  <2>5. PICK t \in Tokens : t = Token(p)
    BY ProcTyped
  <2>6. PICK c \in Content : c = file[op.file]
    BY <1>5, <2>2
  <2>7. Busy(p) /\ ~Landed(p)
    <3>1. Busy(p) /\ Sent(p) = {}
      BY <2>4 DEF Busy, Sent
    <3> QED BY <3>1 DEF RequestsSound, RequestsOf, Landed
  <2>8. Sound(Free, c)
    BY <1>5, <2>2, <2>6
  <2>9. Sound(Token(p), out)
    BY <2>1, <2>4, <2>6, <2>7, <2>8, EditSound
  <2>10. Sound(t, out)'
    BY <2>5, <2>9, SoundStays
  <2>11. DOMAIN proc'[p].puts = {1} /\ proc'[p].puts[1] = one
    BY <2>4
  <2>12. \A u, b : HeldBy(p, u, b)' => u = t /\ b = out
    BY <2>3, <2>4, <2>5, <2>11 DEF HeldBy
  <2>13. \A u \in Tokens \cup {Free}, b \in Content : HeldBy(p, u, b)' => Sound(u, b)'
    BY <2>10, <2>12
  <2> QED BY <2>4, <2>13, ContentsQuiet
<1>8. ASSUME NEW p \in Procs, NEW i \in Nat, PlanMove(p, i) PROVE ContentsSound'
  <2>1. PICK op \in Ops : op = proc[p].op
    BY <1>8 DEF PlanMove
  <2>2. op.dst \in Files /\ op \in AskedOps
    BY <2>1, Assumed DEF AskedOps
  <2>3. PICK src \in Content : src = proc[p].src
    BY ProcTyped
  <2>4. PICK d \in Content : d = file[op.dst]
    BY <1>5, <2>2
  <2>5. PICK t \in Tokens : t = Token(p)
    BY ProcTyped
  <2>6. PICK one : one = [file |-> op.dst, body |-> Append(d, src[i])]
    OBVIOUS
  <2>7. PICK two : two = [file |-> op.file, body |-> Without(src, i)]
    OBVIOUS
  <2>8. /\ file' = file /\ copy' = copy /\ flight' = flight /\ Alone(p) /\ Token(p)' = Token(p)
        /\ proc[p].pc = "getdst" /\ proc'[p].pc = "put" /\ proc'[p].puts = <<one, two>>
        /\ i \in 1..Len(src) /\ src[i].id = op.id /\ Crosses(op)
    BY <1>8, <2>1, <2>3, <2>4, <2>6, <2>7 DEF PlanMove, Still, Keep, Token
  <2>9. Held(t, src)
    BY <2>3, <2>5, <2>8 DEF Held, HeldBy
  <2>10. Sound(t, src)
    BY <2>9 DEF ContentsSound
  <2>11. Sound(t, d)
    BY <1>5, <2>2, <2>4, <2>5
  <2>12. Sound(t, Append(d, src[i])) /\ Sound(t, Without(src, i))
    BY <2>2, <2>8, <2>10, <2>11, MoveSound
  <2>13. Append(d, src[i]) \in Content /\ Without(src, i) \in Content
    BY <2>8, ContentFacts, AppendFacts, WithoutFacts
  <2>14. Sound(t, Append(d, src[i]))'
    BY <2>12, <2>13, SoundStays
  <2>15. Sound(t, Without(src, i))'
    BY <2>12, <2>13, SoundStays
  <2>16. /\ DOMAIN proc'[p].puts = {1, 2}
         /\ proc'[p].puts[1] = one /\ proc'[p].puts[2] = two
    BY <2>8
  <2>17. one.body = Append(d, src[i]) /\ two.body = Without(src, i)
    BY <2>6, <2>7
  <2>18. \A u, b : HeldBy(p, u, b)' => u = t /\ (b = one.body \/ b = two.body)
    BY <2>5, <2>8, <2>16 DEF HeldBy
  <2>19. \A u \in Tokens \cup {Free}, b \in Content : HeldBy(p, u, b)' => Sound(u, b)'
    <3>1. SUFFICES ASSUME NEW b, b = one.body \/ b = two.body PROVE Sound(t, b)'
      BY <2>18
    <3>2. CASE b = Append(d, src[i])
      BY <2>14, <3>2
    <3>3. CASE b = Without(src, i)
      BY <2>15, <3>3
    <3> QED BY <2>17, <3>1, <3>2, <3>3
  <2> QED BY <2>8, <2>19, ContentsQuiet
<1>9. ASSUME NEW p \in Procs, Settle(p) PROVE ContentsSound'
  <2>1. /\ file' = file /\ copy' = copy /\ Alone(p) /\ Token(p)' = Token(p) /\ Sends(p)
        /\ proc'[p].pc = "reread" /\ proc'[p].puts = proc[p].puts
        /\ flight' = flight \/ flight' = flight \cup {Request(p)}
    BY <1>9 DEF Settle, Keep, Token, Sends
  <2>2. \A t, b : HeldBy(p, t, b)' => Held(t, b)
    BY <2>1 DEF Held, HeldBy
  <2> QED BY <2>1, <2>2, HeldStays, ContentsQuiet
\* After a PUT of its own is written, a process holds what it held.
<1>10. ASSUME NEW p \in Procs, Sends(p), Token(p)' = Token(p),
              \/ Wrote(p)
              \/ proc'[p].pc = "reread" /\ proc'[p].puts = proc[p].puts
       PROVE  \A t, b : HeldBy(p, t, b)' => HeldBy(p, t, b)
  <2>1. CASE proc'[p].pc = "reread" /\ proc'[p].puts = proc[p].puts
    BY <1>10, <2>1 DEF HeldBy, Sends
  <2>2. CASE Wrote(p)
    <3>1. SUFFICES ASSUME NEW t, NEW b, HeldBy(p, t, b)' PROVE HeldBy(p, t, b)
      OBVIOUS
    <3>2. Sends(p)' /\ t = Token(p)
      BY <1>10, <2>2, <3>1, TailUnsent DEF HeldBy
    <3>3. /\ 1 \in Unsent(p)' /\ 2 \in Unsent(p) /\ proc'[p].puts[1] = proc[p].puts[2]
          /\ Len(proc[p].puts) = 2 /\ Len(proc[p].puts) # 1
      BY <1>10, <2>2, <3>2, TailUnsent
    <3>4. PICK i \in DOMAIN proc'[p].puts : b = proc'[p].puts[i].body
      BY <2>2, <3>1, <1>10, TailUnsent DEF HeldBy
    <3>5. proc'[p].pc = "put"
      BY <2>2, <3>3, Zenon DEF Wrote
    <3>6. Unsent(p)' = DOMAIN proc'[p].puts
      BY <3>5 DEF Unsent
    <3>7. i = 1
      BY <1>10, <2>2, <3>4, <3>6, TailUnsent
    <3>8. 2 \in DOMAIN proc[p].puts
      BY <3>3, UnsentFiles
    <3> QED BY <1>10, <3>2, <3>3, <3>4, <3>7, <3>8 DEF HeldBy
  <2> QED BY <1>10, <2>1, <2>2
<1>11. ASSUME NEW p \in Procs, Advance(p) PROVE ContentsSound'
  <2>1. /\ file' = file /\ copy' = copy /\ flight' = flight /\ Alone(p) /\ Token(p)' = Token(p)
        /\ Sends(p) /\ Wrote(p)
    BY <1>11 DEF Advance, Still, Wrote, Keep, Token, Sends
  <2>2. \A t, b : HeldBy(p, t, b)' => Held(t, b)
    BY <1>10, <2>1 DEF Held
  <2> QED BY <2>1, <2>2, HeldStays, ContentsQuiet
<1>12. ASSUME NEW p \in Procs, LandOwn(p) PROVE ContentsSound'
  <2>1. PICK put : put = Request(p)
    OBVIOUS
  <2>2. /\ file' = [file EXCEPT ![put.file] = put.body] /\ copy' = copy /\ flight' = flight
        /\ Alone(p) /\ Token(p)' = Token(p) /\ Sends(p)
        /\ landed' = landed \cup {[token |-> put.token, file |-> put.file, id |-> put.id]}
        /\ Wrote(p) \/ (proc'[p].pc = "reread" /\ proc'[p].puts = proc[p].puts)
    BY <1>12, <2>1 DEF LandOwn, Lands, Wrote, Keep, Token, Sends
  <2>3. /\ put.token = Token(p) /\ put.token \in Tokens /\ put.file \in Files
        /\ put.body \in Content
    BY <2>1, <2>2, Requests
  <2>4. Held(put.token, put.body)
    BY <2>1, <2>2, RequestHeld
  <2>5. \E l \in landed' : l.token = put.token
    <3>1. PICK l : l = [token |-> put.token, file |-> put.file, id |-> put.id]
      OBVIOUS
    <3>2. l \in landed' /\ l.token = put.token
      BY <2>2, <3>1
    <3> QED BY <3>2
  <2>6. \A q \in Procs, t \in Tokens \cup {Free}, b \in Content : HeldBy(q, t, b)' => Held(t, b)
    <3>1. \A q \in Procs : \A t, b : q # p /\ HeldBy(q, t, b)' => HeldBy(q, t, b)
      BY <2>2 DEF Alone, HeldBy, Token, Sends
    <3>2. \A t, b : HeldBy(p, t, b)' => HeldBy(p, t, b)
      BY <1>10, <2>2
    <3> QED BY <3>1, <3>2 DEF Held
  <2> QED BY <2>2, <2>3, <2>4, <2>5, <2>6, ContentsLanding
<1>13. ASSUME NEW put \in flight, LateLand(put) PROVE ContentsSound'
  <2>1. /\ put.token \in Tokens /\ put.file \in Files /\ put.body \in Content
        /\ file' = [file EXCEPT ![put.file] = put.body] /\ copy' = copy /\ proc' = proc
        /\ flight' \subseteq flight
        /\ landed' = landed \cup {[token |-> put.token, file |-> put.file, id |-> put.id]}
    BY <1>13 DEF LateLand, Lands, Typed
  <2>2. \E l \in landed' : l.token = put.token
    <3>1. PICK l : l = [token |-> put.token, file |-> put.file, id |-> put.id]
      OBVIOUS
    <3>2. l \in landed' /\ l.token = put.token
      BY <2>1, <3>1
    <3> QED BY <3>2
  <2>3. Held(put.token, put.body)
    BY DEF Held
  <2>4. \A q \in Procs, t \in Tokens \cup {Free}, b \in Content : HeldBy(q, t, b)' => Held(t, b)
    BY <2>1 DEF HeldBy, Held, Token, Sends
  <2> QED BY <2>1, <2>2, <2>3, <2>4, ContentsLanding
<1>14. ASSUME \A t \in Tokens \cup {Free}, b \in Content : Held(t, b)' => Held(t, b)
       PROVE  ContentsSound'
  BY <1>14, HeldStays DEF ContentsSound
<1>15. ASSUME NEW put \in flight, Drop(put) PROVE ContentsSound'
  BY <1>14, <1>15 DEF Drop, Held, HeldBy, Token, Sends
<1>16. CASE Expired
  BY <1>14, <1>16 DEF Expired, Still, Held, HeldBy, Token, Sends
<1>17. ASSUME NEW f \in Files, OrgzlyRead(f) PROVE ContentsSound'
  <2>1. /\ file' = file /\ proc' = proc /\ flight' = flight
        /\ copy' = [copy EXCEPT ![f] = [body |-> file[f]]]
    BY <1>17 DEF OrgzlyRead, Server
  <2>2. \A g \in Files : copy'[g] = copy[g] \/ copy'[g].body = file[g]
    BY <2>1 DEF Typed
  <2> QED BY <1>14, <2>1, <2>2 DEF Held, HeldBy, Token, Sends
<1>18. ASSUME NEW f \in Files, NEW b \in Content, NEW i \in Nat, OrgzlyWrote(f, b, i)
       PROVE  ContentsSound'
  <2>1. /\ proc' = proc /\ flight' = flight /\ syncs' = syncs + 1 /\ syncs \in Nat
        /\ \A g \in Files : g # f => file'[g] = file[g] /\ copy'[g] = copy[g]
        /\ copy'[f] = NoOp /\ copy[f] # NoOp /\ b = copy[f].body
    BY <1>18 DEF OrgzlyWrote, Typed
  <2>2. Held(Free, b)
    BY <2>1 DEF Held
  <2>3. Sound(Free, b) /\ Sound(Free, b)'
    BY <2>2, HeldStays DEF ContentsSound
  <2>4. PICK c \in Content : c = file'[f]
    BY DEF Typed
  <2>5. Sound(Free, c)'
    <3>1. CASE c = b
      BY <2>3, <3>1
    <3>2. CASE /\ i \in 1..Len(b)
               /\ c = [b EXCEPT ![i] = [b[i] EXCEPT !.marks = Append(@, <<"orgzly", syncs>>)]]
      <4>1. PICK n \in Nat : n = syncs
        BY <2>1
      <4>2. c = [b EXCEPT ![i] = [b[i] EXCEPT !.marks = Append(@, <<"orgzly", n>>)]]
        BY <3>2, <4>1
      <4>3. /\ Len(c) = Len(b)
            /\ \A k \in 1..Len(b) : c[k].id = b[k].id
            /\ \A k \in 1..Len(b) : k # i => c[k] = b[k]
            /\ c[i].marks = Append(b[i].marks, <<"orgzly", n>>)
        <5>1. i \in 1..Len(b)
          BY <3>2
        <5>2. LET e == [b EXCEPT ![i] = [b[i] EXCEPT !.marks = Append(@, <<"orgzly", n>>)]]
              IN /\ Len(e) = Len(b)
                 /\ \A k \in 1..Len(b) : e[k].id = b[k].id
                 /\ \A k \in 1..Len(b) : k # i => e[k] = b[k]
                 /\ e[i].marks = Append(b[i].marks, <<"orgzly", n>>)
          BY <5>1, OrgzlyEdit
        <5> QED BY <4>2, <5>2
      <4>4. DOMAIN b = 1..Len(b) /\ DOMAIN c = DOMAIN b
        BY <4>3, ContentFacts
      <4>5. syncs' = n + 1 /\ MarksSound(b)
        BY <2>1, <2>3, <4>1 DEF Sound
      <4>6. /\ \A k \in DOMAIN b : c[k].id = b[k].id
            /\ \A k \in DOMAIN b : k # i => c[k] = b[k]
        BY <4>3, <4>4, Zenon
      <4>7. i \in 1..Len(b) /\ c[i].marks = Append(b[i].marks, <<"orgzly", n>>)
        BY <3>2, <4>3, Zenon
      <4>8. n = syncs
        BY <4>1, Zenon
      <4> QED BY <2>3, <4>4, <4>5, <4>6, <4>7, <4>8, OrgzlySound, Zenon
    <3> QED BY <1>18, <2>4, <3>1, <3>2 DEF OrgzlyWrote
  <2>6. SUFFICES ASSUME NEW t \in Tokens \cup {Free}, NEW d \in Content, Held(t, d)',
                        ~(t = Free /\ d = c)
                 PROVE  Held(t, d)
    BY <2>5, HeldStays DEF ContentsSound
  <2>7. ASSUME NEW g \in Files, d = file'[g] \/ (copy'[g] # NoOp /\ d = copy'[g].body), t = Free
        PROVE  d = file[g] \/ (copy[g] # NoOp /\ d = copy[g].body)
    <3>1. g # f
      BY <2>1, <2>4, <2>6, <2>7
    <3> QED BY <2>1, <2>7, <3>1
  <2> QED BY <2>1, <2>6, <2>7 DEF Held, HeldBy, Token, Sends
<1> QED BY <1>2, <1>3, <1>4, <1>6, <1>7, <1>8, <1>9, <1>11, <1>12, <1>13, <1>15, <1>16, <1>17,
           <1>18 DEF ProcessStep, WorldStep



-----------------------------------------------------------------------------
(* Captures, and what is written.                                           *)

LEMMA OneSteps ==
    ASSUME (\E p \in Procs : ProcessStep(p)) \/ WorldStep
    PROVE  proc' = proc \/ \E p \in Procs : Alone(p)
<1>1. WorldStep => proc' = proc
  BY DEF WorldStep, LateLand, Drop, Expired, OrgzlyRead, OrgzlyWrote
<1>2. \A p \in Procs : ProcessStep(p) => Alone(p)
  BY DEF ProcessStep, Begins, Calm, Read, PlanEdit, PlanMove, Settle, LandOwn, Advance, Over
<1> QED BY <1>1, <1>2

LEMMA CapturesStep ==
    ASSUME Typed, Typed', Phases, Basic, CapturesDistinct,
           (\E p \in Procs : ProcessStep(p)) \/ WorldStep
    PROVE  CapturesDistinct'
<1>1. SUFFICES ASSUME NEW p \in Procs, NEW q \in Procs, Busy(p)', Busy(q)', p # q,
                      proc'[p].op.kind = "create", proc'[q].op.kind = "create",
                      proc'[p].op.id = proc'[q].op.id
               PROVE  FALSE
  BY DEF CapturesDistinct
<1>2. \A r \in Procs : proc'[r] = proc[r] => proc'[r].n # proc[r].n + 1
  <2>1. TAKE r \in Procs
  <2>2. PICK n \in Nat : n = proc[r].n
    BY DEF Typed, Process
  <2>3. n # n + 1
    OBVIOUS
  <2> QED BY <2>2, <2>3
\* One of the two did not begin in this step.
<1>3. ASSUME NEW a \in Procs, NEW b \in Procs, {a, b} = {p, q}, proc'[b] = proc[b] PROVE FALSE
  <2>1. /\ a # b /\ Busy(a)' /\ Busy(b)'
        /\ proc'[a].op.kind = "create" /\ proc'[b].op.kind = "create"
        /\ proc'[a].op.id = proc'[b].op.id
    BY <1>1, <1>3
  <2>2. Busy(b) /\ proc[b].op \in AskedOps
    BY <1>2, <1>3, <2>1 DEF Basic, AskedOps
  <2>3. CASE Busy(a) /\ proc'[a].op = proc[a].op
    BY <1>3, <2>1, <2>2, <2>3 DEF CapturesDistinct
  <2>4. CASE Fresh(proc'[a].op)
    BY <1>3, <2>1, <2>2, <2>4 DEF Fresh
  <2> QED BY <2>1, <2>3, <2>4 DEF Basic
<1>4. proc'[p] = proc[p] \/ proc'[q] = proc[q]
  BY <1>1, OneSteps DEF Alone
<1> QED BY <1>3, <1>4

LEMMA WritesStep ==
    ASSUME Typed, Typed', Phases, RequestsSound, Basic, ContentsSound, WritesShow,
           (\E p \in Procs : ProcessStep(p)) \/ WorldStep
    PROVE  WritesShow'
<1> DEFINE Shown(q) == Sends(q) /\ ~proc[q].wrote /\ proc[q].op.kind \in {"append", "create"} =>
                          Shows(proc[q].puts[1].body, q)
           Known(q) == Busy(q) /\ proc[q].wrote /\ proc[q].op.kind \in {"append", "create"} =>
                          Landed(q)
<1>1. ASSUME NEW q \in Procs, proc'[q] = proc[q] PROVE Shown(q)' /\ Known(q)'
  <2>1. Shown(q) /\ Known(q)
    BY DEF WritesShow
  <2>2. \A b : Shows(b, q)' <=> Shows(b, q)
    BY <1>1, ShowsStays
  <2>3. Landed(q) => Landed(q)'
    BY <1>1, LandedStays
  <2> QED BY <1>1, <2>1, <2>2, <2>3 DEF Sends, Busy
<1>2. ASSUME NEW p \in Procs, Alone(p), Shown(p)', Known(p)' PROVE WritesShow'
  BY <1>1, <1>2 DEF WritesShow, Alone
<1>3. ASSUME NEW p \in Procs, NEW op \in Ops, Begins(p, op) PROVE WritesShow'
  <2>1. Alone(p) /\ proc'[p].pc = "lock" /\ proc'[p].wrote = FALSE
    BY <1>3 DEF Begins
  <2> QED BY <1>2, <2>1 DEF Sends
<1>4. ASSUME NEW p \in Procs, Alone(p), ~Sends(p)', Busy(p),
             proc'[p].n = proc[p].n, proc'[p].op = proc[p].op, proc'[p].wrote = proc[p].wrote
      PROVE  WritesShow'
  <2>1. Landed(p) => Landed(p)'
    BY <1>4, LandedStays
  <2>2. Known(p)'
    BY <1>4, <2>1 DEF WritesShow
  <2> QED BY <1>2, <1>4, <2>2
<1>5. ASSUME NEW p \in Procs, Calm(p) PROVE WritesShow'
  BY <1>4, <1>5 DEF Calm, Keep, Sends, Busy
<1>6. ASSUME NEW p \in Procs, Read(p) PROVE WritesShow'
  BY <1>4, <1>6 DEF Read, Keep, Sends, Busy
<1>7. ASSUME NEW p \in Procs, NEW result \in Results, Over(p, result) PROVE WritesShow'
  <2>1. Alone(p) /\ ~Busy(p)' /\ ~Sends(p)'
    BY <1>7 DEF Over, Busy, Sends
  <2> QED BY <1>2, <2>1
<1>8. ASSUME NEW p \in Procs, NEW out \in Content, PlanEdit(p, out) PROVE WritesShow'
  <2>1. PICK op \in Ops : op = proc[p].op
    BY <1>8 DEF PlanEdit
  <2>2. PICK one : one = [file |-> op.file, body |-> out]
    OBVIOUS
  <2>3. /\ Alone(p) /\ proc'[p].puts = <<one>> /\ proc'[p].op = op /\ proc'[p].wrote = FALSE
        /\ EditFacts(file[op.file], out, op, Token(p)) /\ Token(p)' = Token(p)
    BY <1>8, <2>1, <2>2 DEF PlanEdit, Keep, Token
  <2>4. proc'[p].puts[1].body = out
    BY <2>2, <2>3
  <2>5. op.kind = "append" => Marked(out, Token(p))
    BY <2>3 DEF EditFacts
  <2>6. op.kind = "create" => Has(out, op.id)
    BY <2>3, HasFind DEF EditFacts
  <2>7. op.kind \in {"append", "create"} => Shows(out, p)'
    BY <2>3, <2>5, <2>6 DEF Shows
  <2> QED BY <1>2, <2>3, <2>4, <2>7
<1>9. ASSUME NEW p \in Procs, NEW i \in Nat, PlanMove(p, i) PROVE WritesShow'
  <2>1. /\ Alone(p) /\ proc'[p].op = proc[p].op /\ proc[p].op.kind = "move"
    BY <1>9 DEF PlanMove, Keep, Crosses
  <2> QED BY <1>2, <2>1
<1>10. ASSUME NEW p \in Procs, Alone(p), Sends(p), proc'[p].n = proc[p].n,
              proc'[p].op = proc[p].op, proc'[p].wrote = proc[p].wrote,
              proc'[p].puts = proc[p].puts
       PROVE  WritesShow'
  <2>1. Landed(p) => Landed(p)'
    BY <1>10, LandedStays
  <2>2. \A b : Shows(b, p)' <=> Shows(b, p)
    BY <1>10, ShowsStays
  <2>3. Shown(p)' /\ Known(p)'
    BY <1>10, <2>1, <2>2 DEF WritesShow, Busy, Sends
  <2> QED BY <1>2, <1>10, <2>3
<1>11. ASSUME NEW p \in Procs, Settle(p) PROVE WritesShow'
  BY <1>10, <1>11 DEF Settle, Keep, Sends
<1>12. ASSUME NEW p \in Procs, LandOwn(p) PROVE WritesShow'
  <2>1. CASE Wrote(p)
    <3>1. PICK l : l = [token |-> Token(p), file |-> Request(p).file, id |-> Request(p).id]
      OBVIOUS
    <3>2. l \in landed' /\ l.token = Token(p) /\ Token(p)' = Token(p)
      BY <1>12, <2>1, <3>1 DEF LandOwn, Lands, Wrote, Keep, Token, Request
    <3>3. Landed(p)'
      BY <3>2 DEF Landed
    <3>4. Alone(p) /\ proc'[p].wrote = TRUE
      BY <1>12, <2>1 DEF LandOwn, Wrote
    <3> QED BY <1>2, <3>3, <3>4
  <2>2. CASE proc'[p].pc = "reread" /\ Keep(p, {"n", "op", "want", "wrote", "puts"})
    BY <1>10, <1>12, <2>2 DEF LandOwn, Keep, Sends
  <2> QED BY <1>12, <2>1, <2>2 DEF LandOwn
<1>13. ASSUME NEW p \in Procs, Advance(p) PROVE WritesShow'
  <2>1. /\ Alone(p) /\ Sends(p) /\ Busy(p) /\ proc'[p].n = proc[p].n /\ proc'[p].op = proc[p].op
        /\ proc'[p].wrote = TRUE /\ file[proc[p].puts[1].file] = proc[p].puts[1].body
    BY <1>13 DEF Advance, Wrote, Keep, Sends, Busy
  <2>2. ASSUME proc[p].op.kind \in {"append", "create"} PROVE Landed(p)
    <3>1. CASE proc[p].wrote
      BY <2>1, <2>2, <3>1 DEF WritesShow
    <3>2. CASE ~proc[p].wrote
      <4>1. Shows(proc[p].puts[1].body, p)
        BY <2>1, <2>2, <3>2 DEF WritesShow
      <4>2. proc[p].puts[1].file = proc[p].op.dst /\ proc[p].op.dst \in Files
        BY <2>1, <3>2, Requests, Assumed
      <4>3. PICK b \in Content : b = file[proc[p].op.dst]
        BY <4>2 DEF Typed
      <4>4. Held(Free, b)
        BY <4>2, <4>3 DEF Held
      <4>5. Sound(Free, b)
        BY <4>4 DEF ContentsSound
      <4>6. Shows(b, p)
        BY <2>1, <4>1, <4>2, <4>3
      <4> QED BY <2>1, <4>5, <4>6, TokensDiffer DEF Sound, Unseen
    <3> QED BY <3>1, <3>2
  <2>3. Known(p)'
    BY <2>1, <2>2, LandedStays
  <2> QED BY <1>2, <2>1, <2>3
<1>14. CASE WorldStep
  <2>1. proc' = proc
    BY <1>14 DEF WorldStep, LateLand, Drop, Expired, OrgzlyRead, OrgzlyWrote
  <2> QED BY <1>1, <2>1 DEF WritesShow
<1> QED BY <1>3, <1>5, <1>6, <1>7, <1>8, <1>9, <1>11, <1>12, <1>13, <1>14 DEF ProcessStep



-----------------------------------------------------------------------------
(* What is in the files.                                                    *)

\* A PUT that lands keeps the other headlines of its file.
Landing(put) ==
    /\ Lands(put) /\ copy' = copy /\ syncs' = syncs
    /\ put.token \in Tokens /\ put.file \in Files /\ put.body \in Content /\ put.id \in STRING
    /\ \A f \in Files : file'[f] = IF f = put.file THEN put.body ELSE file[f]
    /\ Keeps(put.file, put.body, put.id)
    /\ \/ put \in flight /\ proc' = proc
       \/ \E p \in Procs : LandOwn(p) /\ put = Request(p) /\ Sends(p) /\ put.token = Token(p)

LEMMA FileStep ==
    ASSUME Typed, Phases, Pending, (\E p \in Procs : ProcessStep(p)) \/ WorldStep
    PROVE  \/ file' = file /\ syncs' = syncs
              /\ (copy' = copy \/ \E f \in Files : OrgzlyRead(f))
              /\ ~(\E p \in Procs : LandOwn(p))
           \/ \E put : Landing(put)
           \/ \E f \in Files, b \in Content, i \in Nat : OrgzlyWrote(f, b, i)
<1>1. ASSUME NEW p \in Procs, LandOwn(p) PROVE \E put : Landing(put)
  <2>1. PICK put : put = Request(p)
    OBVIOUS
  <2>2. /\ Sends(p) /\ Lands(put) /\ copy' = copy /\ syncs' = syncs /\ Accepts(put)
        /\ proc[p].pc = "put"
    BY <1>1, <2>1 DEF LandOwn, Sends
  <2>3. /\ put.token = Token(p) /\ put.file = proc[p].puts[1].file
        /\ put.body = proc[p].puts[1].body /\ put.id = proc[p].op.id
        /\ put.token \in Tokens /\ put.file \in Files /\ put.body \in Content /\ put.id \in STRING
    BY <2>1, <2>2, Requests
  <2>4. 1 \in Unsent(p)
    BY <2>2, UnsentFiles
  <2>5. Keeps(put.file, put.body, put.id)
    BY <2>2, <2>3, <2>4 DEF Pending, PendingOf, Accepts
  <2>6. \A f \in Files : file'[f] = IF f = put.file THEN put.body ELSE file[f]
    BY <2>2 DEF Lands, Typed
  <2>7. Landing(put)
    BY <1>1, <2>1, <2>2, <2>3, <2>5, <2>6 DEF Landing
  <2> QED BY <2>7
<1>2. ASSUME NEW put \in flight, LateLand(put) PROVE Landing(put)
  <2>1. Lands(put) /\ copy' = copy /\ syncs' = syncs /\ proc' = proc /\ Accepts(put)
    BY <1>2 DEF LateLand
  <2>2. put.token \in Tokens /\ put.file \in Files /\ put.body \in Content /\ put.id \in STRING
    BY DEF Typed
  <2>3. Keeps(put.file, put.body, put.id)
    BY <2>1 DEF Pending
  <2>4. \A f \in Files : file'[f] = IF f = put.file THEN put.body ELSE file[f]
    BY <2>1 DEF Lands, Typed
  <2> QED BY <2>1, <2>2, <2>3, <2>4 DEF Landing
<1>3. CASE \E p \in Procs : ProcessStep(p) /\ ~LandOwn(p)
  <2>1. file' = file /\ syncs' = syncs /\ copy' = copy
    BY <1>3 DEF ProcessStep, Begins, Calm, Read, PlanEdit, PlanMove, Settle, Advance, Over, Still
  <2> QED BY <1>1, <2>1
<1>4. CASE \E f \in Files : OrgzlyRead(f)
  <2>1. file' = file /\ syncs' = syncs
    BY <1>4 DEF OrgzlyRead, Server
  <2> QED BY <1>1, <1>4, <2>1
<1>5. CASE (\E put \in flight : Drop(put)) \/ Expired
  <2>1. file' = file /\ syncs' = syncs /\ copy' = copy
    BY <1>5 DEF Drop, Expired, Still
  <2> QED BY <1>1, <2>1
<1> QED BY <1>1, <1>2, <1>3, <1>4, <1>5 DEF WorldStep

LEMMA Put2Stays ==
    ASSUME Basic, NEW f, NEW x, Put2(f, x)
    PROVE  Put2(f, x)'
BY DEF Basic, Put2

LEMMA Put2Lands ==
    ASSUME NEW put, Lands(put)
    PROVE  /\ Put2(put.file, put.id)'
           /\ \E l \in landed' : l.token = put.token /\ l.id = put.id /\ l.file = put.file
<1>1. PICK l : l = [token |-> put.token, file |-> put.file, id |-> put.id]
  OBVIOUS
<1>2. l \in landed' /\ l.token = put.token /\ l.id = put.id /\ l.file = put.file
  BY <1>1 DEF Lands
<1> QED BY <1>2 DEF Put2

LEMMA CountStep ==
    ASSUME Typed, Typed', Phases, Pending, Basic, CountSound,
           (\E p \in Procs : ProcessStep(p)) \/ WorldStep
    PROVE  CountSound'
<1>1. SUFFICES ASSUME NEW f \in Files, NEW x \in STRING, ~Put2(f, x)'
               PROVE  /\ Occurrences(file'[f], x) = Occurrences(Listing[f], x)
                      /\ copy'[f] # NoOp =>
                            Occurrences(copy'[f].body, x) = Occurrences(Listing[f], x)
  BY DEF CountSound
<1> DEFINE Counted == /\ Occurrences(file'[f], x) = Occurrences(Listing[f], x)
                      /\ copy'[f] # NoOp =>
                            Occurrences(copy'[f].body, x) = Occurrences(Listing[f], x)
<1>2. /\ Occurrences(file[f], x) = Occurrences(Listing[f], x)
      /\ copy[f] # NoOp => Occurrences(copy[f].body, x) = Occurrences(Listing[f], x)
  BY <1>1, Put2Stays DEF CountSound
<1>3. ASSUME file' = file, copy' = copy PROVE Counted
  BY <1>2, <1>3
<1>4. ASSUME NEW g \in Files, OrgzlyRead(g) PROVE Counted
  <2>1. file' = file /\ copy' = [copy EXCEPT ![g] = [body |-> file[g]]]
    BY <1>4 DEF OrgzlyRead, Server
  <2>2. copy'[f] = copy[f] \/ copy'[f].body = file[f]
    BY <2>1 DEF Typed
  <2> QED BY <1>2, <2>1, <2>2
<1>5. ASSUME NEW put, Landing(put) PROVE Counted
  <2>1. /\ Lands(put) /\ copy' = copy /\ put.body \in Content
        /\ file'[f] = IF f = put.file THEN put.body ELSE file[f]
        /\ Keeps(put.file, put.body, put.id)
    BY <1>5 DEF Landing
  <2>2. CASE f = put.file
    <3>1. x # put.id
      BY <1>1, <2>1, <2>2, Put2Lands
    <3>2. Same(file[f], put.body, x)
      BY <2>1, <2>2, <3>1 DEF Keeps
    <3>3. PICK c \in Content : c = file[f]
      BY DEF Typed
    <3>4. PICK d \in Content : d = put.body
      BY <2>1
    <3>5. Occurrences(c, x) = Occurrences(d, x)
      BY <3>2, <3>3, <3>4, SameCount
    <3> QED BY <1>2, <2>1, <2>2, <3>3, <3>4, <3>5
  <2>3. CASE f # put.file
    BY <1>2, <2>1, <2>3
  <2> QED BY <2>2, <2>3
<1>6. ASSUME NEW g \in Files, NEW b \in Content, NEW i \in Nat, OrgzlyWrote(g, b, i)
      PROVE  Counted
  <2>1. CASE f # g
    BY <1>2, <1>6, <2>1 DEF OrgzlyWrote
  <2>2. CASE f = g
    <3>1. /\ copy'[f] = NoOp /\ copy[f] # NoOp /\ b = copy[f].body
      BY <1>6, <2>2 DEF OrgzlyWrote
    <3>2. PICK c \in Content : c = file'[f]
      BY DEF Typed
    <3>3. At(c, x) = At(b, x)
      <4>1. CASE c = b
        BY <4>1
      <4>2. CASE /\ i \in 1..Len(b)
                 /\ c = [b EXCEPT ![i] = [b[i] EXCEPT !.marks = Append(@, <<"orgzly", syncs>>)]]
        <5>1. DOMAIN c = DOMAIN b
          BY <4>2
        <5>2. b[i] \in Entry /\ DOMAIN b = 1..Len(b)
          BY <4>2, ContentFacts
        <5>3. [b[i] EXCEPT !.marks = Append(@, <<"orgzly", syncs>>)].id = b[i].id
          BY <5>2 DEF Entry
        <5>4. \A k \in DOMAIN b : c[k].id = b[k].id
          BY <4>2, <5>2, <5>3
        <5> QED BY <5>1, <5>4 DEF At
      <4> QED BY <1>6, <2>2, <3>2, <4>1, <4>2 DEF OrgzlyWrote
    <3> QED BY <1>2, <3>1, <3>2, <3>3 DEF Occurrences
  <2> QED BY <2>1, <2>2
<1> QED BY <1>3, <1>4, <1>5, <1>6, FileStep

\* A headline more.
LEMMA CountAppend ==
    ASSUME NEW c \in Content, NEW h \in Entry
    PROVE  Occurrences(Append(c, h), h.id) = Occurrences(c, h.id) + 1
<1>1. DOMAIN c = 1..Len(c) /\ Len(c) \in Nat /\ DOMAIN Append(c, h) = 1..(Len(c) + 1)
  BY ContentFacts, AppendFacts
<1>2. PICK n \in Nat : n = Len(c)
  BY <1>1
<1>3. \A k \in 1..(n + 1) : k \in 1..n \/ k = n + 1
  OBVIOUS
<1>4. n + 1 \in 1..(n + 1) /\ n + 1 \notin 1..n /\ \A k \in 1..n : k \in 1..(n + 1)
  OBVIOUS
<1>5. At(Append(c, h), h.id) = At(c, h.id) \cup {n + 1}
  <2>1. \A k \in At(Append(c, h), h.id) : k \in At(c, h.id) \/ k = n + 1
    BY <1>1, <1>2, <1>3, AppendFacts DEF At
  <2>2. \A k \in At(c, h.id) : k \in At(Append(c, h), h.id)
    BY <1>1, <1>2, <1>4, AppendFacts DEF At
  <2>3. n + 1 \in At(Append(c, h), h.id)
    BY <1>1, <1>2, <1>4, AppendFacts DEF At
  <2> QED BY <2>1, <2>2, <2>3
<1>6. n + 1 \notin At(c, h.id) /\ IsFiniteSet(At(c, h.id))
  BY <1>1, <1>2, <1>4, AtFacts
<1>7. Cardinality(At(c, h.id) \cup {n + 1}) = Cardinality(At(c, h.id)) + 1
  BY <1>6, FS_AddElement
<1> QED BY <1>5, <1>7 DEF Occurrences


LEMMA MovesStep ==
    ASSUME Typed, Typed', Phases, Basic, CountSound, MovesSound,
           (\E p \in Procs : ProcessStep(p)) \/ WorldStep
    PROVE  MovesSound'
<1> DEFINE Moves(q) ==
              LET op == proc[q].op
              IN Put2(op.dst, op.id)
                 \/ /\ ~proc[q].wrote
                    /\ Sends(q) => Occurrences(proc[q].puts[1].body, op.id)
                                      # Occurrences(Listing[op.dst], op.id)
           Will(f, x) == \E l \in landed' : l.file = f /\ l.id = x
           Sound1(q) == Busy(q) /\ Crosses(proc[q].op) => Moves(q)
<1>1. ASSUME NEW q \in Procs, proc'[q] = proc[q] PROVE Sound1(q)'
  <2>1. Sound1(q)
    BY DEF MovesSound
  <2> QED BY <1>1, <2>1, Put2Stays DEF Sends, Busy
<1>2. ASSUME NEW p \in Procs, Alone(p), Sound1(p)' PROVE MovesSound'
  BY <1>1, <1>2 DEF MovesSound, Alone
<1>3. ASSUME NEW p \in Procs, Alone(p), proc'[p].op = proc[p].op, Busy(p),
             Crosses(proc[p].op) =>
                \/ Will(proc[p].op.dst, proc[p].op.id)
                \/ ~proc'[p].wrote /\ ~Sends(p)'
                \/ ~proc'[p].wrote /\ Sends(p) /\ proc'[p].puts = proc[p].puts
                   /\ ~proc[p].wrote
      PROVE  MovesSound'
  <2>1. Sound1(p)
    BY DEF MovesSound
  <2>2. Sound1(p)'
    BY <1>3, <2>1, Put2Stays DEF Put2
  <2> QED BY <1>2, <1>3, <2>2
<1>4. ASSUME NEW p \in Procs, Busy(p), Crosses(proc[p].op), proc[p].wrote
      PROVE  Will(proc[p].op.dst, proc[p].op.id)
  BY <1>4 DEF MovesSound, Put2, Basic
<1>5. ASSUME NEW p \in Procs, NEW op \in Ops, Begins(p, op) PROVE MovesSound'
  <2>1. Alone(p) /\ proc'[p].pc = "lock" /\ proc'[p].wrote = FALSE
    BY <1>5 DEF Begins
  <2> QED BY <1>2, <2>1 DEF Sends
<1>6. ASSUME NEW p \in Procs, Alone(p), proc'[p].op = proc[p].op, Busy(p), ~Sends(p)',
             proc'[p].wrote = proc[p].wrote
      PROVE  MovesSound'
  BY <1>3, <1>4, <1>6
<1>7. ASSUME NEW p \in Procs, Calm(p) PROVE MovesSound'
  BY <1>6, <1>7 DEF Calm, Keep, Sends, Busy
<1>8. ASSUME NEW p \in Procs, Read(p) PROVE MovesSound'
  BY <1>6, <1>8 DEF Read, Keep, Sends, Busy
<1>9. ASSUME NEW p \in Procs, NEW result \in Results, Over(p, result) PROVE MovesSound'
  <2>1. Alone(p) /\ ~Busy(p)'
    BY <1>9 DEF Over, Busy
  <2> QED BY <1>2, <2>1
<1>10. ASSUME NEW p \in Procs, NEW out \in Content, PlanEdit(p, out) PROVE MovesSound'
  <2>1. Alone(p) /\ proc'[p].op = proc[p].op /\ Busy(p) /\ ~Crosses(proc[p].op)
    BY <1>10 DEF PlanEdit, Keep, Busy
  <2> QED BY <1>3, <2>1
<1>11. ASSUME NEW p \in Procs, NEW i \in Nat, PlanMove(p, i) PROVE MovesSound'
  <2>1. PICK op \in Ops : op = proc[p].op
    BY <1>11 DEF PlanMove
  <2>2. op.dst \in Files /\ op.id \in STRING
    BY Assumed
  <2>3. PICK src \in Content : src = proc[p].src
    BY ProcTyped
  <2>4. PICK d \in Content : d = file[op.dst]
    BY <2>2 DEF Typed
  <2>5. PICK h \in Entry : h = src[i]
    BY <1>11, <2>3, ContentFacts DEF PlanMove
  <2>6. PICK one : one = [file |-> op.dst, body |-> Append(d, h)]
    OBVIOUS
  <2>7. PICK two : two = [file |-> op.file, body |-> Without(src, i)]
    OBVIOUS
  <2>8. /\ Alone(p) /\ proc'[p].puts = <<one, two>> /\ proc'[p].op = op
        /\ proc'[p].wrote = FALSE /\ h.id = op.id
    BY <1>11, <2>1, <2>3, <2>4, <2>5, <2>6, <2>7 DEF PlanMove, Keep
  <2>9. proc'[p].puts[1].body = Append(d, h)
    BY <2>6, <2>8
  <2>10. Occurrences(Append(d, h), op.id) # Occurrences(d, op.id)
    <3>1. Occurrences(Append(d, h), op.id) = Occurrences(d, op.id) + 1
      BY <2>8, CountAppend
    <3>2. PICK n \in Nat : n = Occurrences(d, op.id)
      BY AtFacts
    <3>3. n + 1 # n
      OBVIOUS
    <3> QED BY <3>1, <3>2, <3>3
  <2>11. Put2(op.dst, op.id) \/ Occurrences(d, op.id) = Occurrences(Listing[op.dst], op.id)
    BY <2>2, <2>4 DEF CountSound
  <2>12. Put2(op.dst, op.id)'
         \/ Occurrences(Append(d, h), op.id) # Occurrences(Listing[op.dst], op.id)
    BY <2>10, <2>11, Put2Stays
  <2>13. Sound1(p)'
    BY <2>8, <2>9, <2>12
  <2> QED BY <1>2, <2>8, <2>13
<1>12. ASSUME NEW p \in Procs, Settle(p) PROVE MovesSound'
  <2>1. /\ Alone(p) /\ proc'[p].op = proc[p].op /\ Busy(p) /\ Sends(p)
        /\ proc'[p].puts = proc[p].puts /\ proc'[p].wrote = proc[p].wrote
    BY <1>12 DEF Settle, Keep, Busy, Sends
  <2> QED BY <1>3, <1>4, <2>1
<1>13. ASSUME NEW p \in Procs, LandOwn(p) PROVE MovesSound'
  <2>1. /\ Alone(p) /\ proc'[p].op = proc[p].op /\ Busy(p) /\ Sends(p) /\ Lands(Request(p))
    BY <1>13 DEF LandOwn, Wrote, Keep, Busy, Sends
  <2>2. CASE proc[p].wrote
    BY <1>3, <1>4, <2>1, <2>2
  <2>3. CASE ~proc[p].wrote
    <3>1. Request(p).file = proc[p].op.dst /\ Request(p).id = proc[p].op.id
      BY <2>1, <2>3, Requests
    <3>2. Will(Request(p).file, Request(p).id)
      <4>1. PICK put : put = Request(p)
        OBVIOUS
      <4>2. Lands(put)
        BY <2>1, <4>1
      <4> QED BY <4>1, <4>2, Put2Lands
    <3>3. Will(proc[p].op.dst, proc[p].op.id)
      BY <3>1, <3>2
    <3> QED BY <1>3, <2>1, <3>3
  <2> QED BY <2>2, <2>3
<1>14. ASSUME NEW p \in Procs, Advance(p) PROVE MovesSound'
  <2>1. /\ Alone(p) /\ proc'[p].op = proc[p].op /\ Busy(p) /\ Sends(p)
        /\ file[proc[p].puts[1].file] = proc[p].puts[1].body
    BY <1>14 DEF Advance, Wrote, Keep, Busy, Sends
  <2>2. CASE proc[p].wrote
    BY <1>3, <1>4, <2>1, <2>2
  <2>3. CASE ~proc[p].wrote /\ Crosses(proc[p].op)
    <3>1. /\ proc[p].puts[1].file = proc[p].op.dst /\ proc[p].op.dst \in Files
          /\ proc[p].op.id \in STRING
      BY <2>1, <2>3, Requests, Assumed
    <3>2. Put2(proc[p].op.dst, proc[p].op.id)
      BY <2>1, <2>3, <3>1 DEF MovesSound, CountSound
    <3>3. Will(proc[p].op.dst, proc[p].op.id)
      BY <3>2 DEF Put2, Basic
    <3> QED BY <1>3, <2>1, <3>3
  <2>4. CASE ~Crosses(proc[p].op)
    BY <1>3, <2>1, <2>4
  <2> QED BY <2>2, <2>3, <2>4
<1>15. CASE WorldStep
  <2>1. proc' = proc
    BY <1>15 DEF WorldStep, LateLand, Drop, Expired, OrgzlyRead, OrgzlyWrote
  <2> QED BY <1>1, <2>1 DEF MovesSound
<1> QED BY <1>5, <1>7, <1>8, <1>9, <1>10, <1>11, <1>12, <1>13, <1>14, <1>15 DEF ProcessStep

\* A file as it was to be passes the read-back.
LEMMA HoldsWant ==
    ASSUME NEW b \in Content, NEW op, op.kind # "delete" => find(b, op.id) # 0
    PROVE  Holds(b, op, Want(b, op))
<1>1. CASE op.kind = "delete"
  <2>1. Want(b, op) = [left |-> Occurrences(b, op.id)]
    BY <1>1 DEF Want
  <2>2. PICK n \in Nat : n = Occurrences(b, op.id)
    BY AtFacts
  <2>3. n <= n
    OBVIOUS
  <2>4. Occurrences(b, op.id) <= Want(b, op).left
    BY <2>1, <2>2, <2>3
  <2> QED BY <1>1, <2>4 DEF Holds
<1>2. CASE op.kind # "delete"
  <2>1. /\ Want(b, op).headline = b[find(b, op.id)]
    BY <1>2 DEF Want
  <2> QED BY <1>2, <2>1 DEF Holds
<1> QED BY <1>1, <1>2

\* The read-back looks at one headline only.
LEMMA HoldsSame ==
    ASSUME NEW b \in Content, NEW c \in Content, NEW op, NEW want,
           Same(b, c, op.id), Holds(b, op, want)
    PROVE  Holds(c, op, want)
<1>1. Occurrences(b, op.id) = Occurrences(c, op.id)
  BY SameCount
<1>2. /\ find(b, op.id) = 0 <=> find(c, op.id) = 0
      /\ find(b, op.id) # 0 => c[find(c, op.id)] = b[find(b, op.id)]
  BY SameFind
<1> QED BY <1>1, <1>2 DEF Holds


\* The file changes under the read-back only by PUTs of others about the same headline, by
\* uploads, or by the PUT that is read back.
LEMMA WrittenStepHolds ==
    ASSUME Typed, Typed', Phases, RequestsSound, Pending, Basic, WrittenHolds,
           (\E p \in Procs : ProcessStep(p)) \/ WorldStep
    PROVE  WrittenHolds'
<1>1. SUFFICES ASSUME NEW p \in Procs, Busy(p)', proc'[p].wrote,
                      ~Overtaken(Token(p), proc[p].op.id)'
               PROVE  Holds(file'[proc'[p].op.dst], proc'[p].op, proc'[p].want)
  BY DEF WrittenHolds
\* What p did of its own, or that it did nothing.
<1> DEFINE Did == /\ Busy(p) /\ proc'[p].n = proc[p].n /\ proc'[p].op = proc[p].op
                  /\ proc'[p].want = proc[p].want
                  /\ \/ proc[p].wrote
                     \/ Sends(p) /\ Wrote(p) /\ (LandOwn(p) \/ Advance(p))
<1>2. Did
  <2>1. ASSUME NEW q \in Procs, NEW op \in Ops, Begins(q, op) PROVE Did
    BY <1>1, <2>1 DEF Begins, Alone, Busy, WrittenHolds
  <2>2. ASSUME proc'[p] = proc[p] PROVE Did
    BY <1>1, <2>2 DEF Busy
  <2>3. ASSUME Busy(p), Keep(p, {"n", "op", "want", "wrote"}) PROVE Did
    BY <1>1, <2>3 DEF Keep
  <2>4. CASE WorldStep
    <3>1. proc' = proc
      BY <2>4 DEF WorldStep, LateLand, Drop, Expired, OrgzlyRead, OrgzlyWrote
    <3> QED BY <2>2, <3>1
  <2>5. ASSUME NEW q \in Procs, ProcessStep(q), q # p PROVE Did
    <3>1. Alone(q)
      BY <2>5 DEF ProcessStep, Begins, Calm, Read, PlanEdit, PlanMove, Settle, LandOwn,
                  Advance, Over
    <3> QED BY <2>2, <2>5, <3>1 DEF Alone
  <2>6. ASSUME ProcessStep(p) PROVE Did
    <3>1. CASE Calm(p) \/ Read(p)
      BY <2>3, <3>1 DEF Calm, Read, Keep, Busy
    <3>2. ASSUME (\E out \in Content : PlanEdit(p, out)) \/ (\E i \in Nat : PlanMove(p, i))
          PROVE  FALSE
      BY <1>1, <3>2 DEF PlanEdit, PlanMove, Keep
    <3>3. CASE Settle(p)
      BY <2>3, <3>3 DEF Settle, Keep, Busy
    <3>4. CASE LandOwn(p) /\ ~Wrote(p)
      BY <2>3, <3>4 DEF LandOwn, Keep, Busy
    <3>5. CASE (LandOwn(p) \/ Advance(p)) /\ Wrote(p)
      BY <3>5 DEF LandOwn, Advance, Wrote, Keep, Busy, Sends
    <3>6. ASSUME NEW result \in Results, Over(p, result) PROVE FALSE
      BY <1>1, <3>6 DEF Over, Busy
    <3> QED BY <2>1, <2>6, <3>1, <3>2, <3>3, <3>4, <3>5, <3>6 DEF ProcessStep, Advance
  <2> QED BY <2>4, <2>5, <2>6
<1>3. PICK op \in Op : op = proc[p].op /\ op \in Ops
  BY <1>2, Assumed DEF Phases, Phase, PhaseOf, Busy
<1>4. op.dst \in Files /\ op.file \in Files /\ op.id \in STRING
  BY Assumed
<1>5. PICK want : want = proc[p].want
  OBVIOUS
<1>6. PICK t \in Tokens : t = Token(p) /\ t = Token(p)'
  BY <1>2, ProcTyped DEF Token
<1>7. PICK b \in Content : b = file[op.dst]
  BY <1>4 DEF Typed
<1>8. PICK c \in Content : c = file'[op.dst]
  BY <1>4 DEF Typed
<1>9. ~Overtaken(t, op.id) /\ ~Overtaken(t, op.id)'
  BY <1>1, <1>2, <1>3, <1>6 DEF Overtaken, Basic, Typed
<1>10. proc[p].wrote => Holds(b, op, want)
  BY <1>2, <1>3, <1>5, <1>6, <1>7, <1>9 DEF WrittenHolds
<1>11. SUFFICES Holds(c, op, want)
  BY <1>2, <1>3, <1>5, <1>8
<1>12. CASE ~proc[p].wrote
  <2>1. /\ proc[p].puts[1].file = op.dst /\ Request(p).file = op.dst
        /\ Request(p).body = proc[p].puts[1].body /\ proc[p].puts[1].body \in Content
        /\ Request(p).body \in Content
    BY <1>2, <1>3, <1>12, Requests
  <2>2. PICK d \in Content : d = proc[p].puts[1].body
    BY <2>1
  <2>3. want = Want(d, op) /\ (op.kind # "delete" => find(d, op.id) # 0)
    BY <1>2, <1>3, <1>5, <1>12, <2>1, <2>2, RequestWants
  <2>4. c = d
    <3>1. CASE LandOwn(p)
      BY <1>4, <1>8, <2>1, <2>2, <3>1 DEF LandOwn, Lands, Typed
    <3>2. CASE Advance(p)
      BY <1>8, <2>1, <2>2, <3>2 DEF Advance, Still
    <3> QED BY <1>2, <1>12, <3>1, <3>2
  <2> QED BY <2>3, <2>4, HoldsWant
<1>13. CASE proc[p].wrote
  <2>1. CASE c = b
    BY <1>10, <1>13, <2>1
  <2>2. ASSUME NEW put, Landing(put) PROVE Holds(c, op, want)
    <3>1. /\ Lands(put) /\ put.body \in Content /\ put.token \in Tokens
          /\ c = IF op.dst = put.file THEN put.body ELSE b
          /\ Keeps(put.file, put.body, put.id)
      BY <1>4, <1>7, <1>8, <2>2 DEF Landing
    <3>2. CASE op.dst = put.file /\ put.id # op.id
      <4>1. Same(b, c, op.id)
        BY <1>4, <1>7, <3>1, <3>2 DEF Keeps
      <4> QED BY <1>10, <1>13, <4>1, HoldsSame
    <3>3. CASE op.dst = put.file /\ put.id = op.id
      <4>1. put.token = t
        BY <1>9, <3>1, <3>3, Put2Lands DEF Overtaken
      <4>2. CASE put \in flight
        <5>1. want = Want(put.body, op) /\ (op.kind # "delete" => find(put.body, op.id) # 0)
          BY <1>2, <1>3, <1>5, <1>6, <3>3, <4>1, <4>2 DEF RequestsSound, RequestsOf
        <5> QED BY <3>1, <3>3, <5>1, HoldsWant
      <4>3. ASSUME NEW q \in Procs, put = Request(q), Sends(q), put.token = Token(q)
            PROVE  FALSE
        <5>1. q = p
          BY <1>6, <4>1, <4>3, TokensDiffer
        <5>2. put.file = proc[p].op.file /\ Crosses(proc[p].op)
          BY <1>13, <4>3, <5>1, Requests
        <5> QED BY <1>3, <3>3, <5>2 DEF Crosses
      <4> QED BY <2>2, <4>2, <4>3 DEF Landing
    <3> QED BY <2>1, <3>1, <3>2, <3>3
  <2>3. ASSUME NEW f \in Files, NEW d \in Content, NEW i \in Nat, OrgzlyWrote(f, d, i)
        PROVE  FALSE
    <3>1. PICK n \in Nat : n = syncs
      BY DEF Typed
    <3>2. syncs' = n + 1 /\ n + 1 > 0
      BY <2>3, <3>1 DEF OrgzlyWrote
    <3> QED BY <1>9, <3>2 DEF Overtaken
  <2> QED BY <1>7, <1>8, <2>1, <2>2, <2>3, FileStep
<1> QED BY <1>12, <1>13, ProcTyped



-----------------------------------------------------------------------------
(* Reports.                                                                 *)

\* What is reported is true when it is, and stays so: nothing is sent or lands under the
\* token of an operation that is over.
LEMMA ReportsStep ==
    ASSUME Typed, Typed', Phases, TokensSound, RequestsSound, Basic,
           WritesShow, MovesSound, WrittenHolds, ReportsSound,
           (\E p \in Procs : ProcessStep(p)) \/ WorldStep
    PROVE  ReportsSound'
<1>1. ASSUME NEW e \in ended
      PROVE  /\ \A p \in Procs : Busy(p) => e.token # Token(p)
             /\ e \in ended'
  BY DEF TokensSound, Basic
<1>2. \A l \in landed' : \/ l \in landed \/ \E put \in flight : l.token = put.token
                         \/ \E p \in Procs : Busy(p) /\ l.token = Token(p)
  BY DEF Basic
<1>3. \A put \in flight' : put \in flight \/ \E p \in Procs : Busy(p) /\ put.token = Token(p)
  BY DEF Basic
<1>4. landed \subseteq landed' /\ (syncs > 0 => syncs' > 0)
  BY DEF Basic, Typed
\* What was reported earlier.
<1>5. ASSUME NEW e \in ended
      PROVE  /\ e.result = "lost" => Overtaken(e.token, e.op.id)'
             /\ e.result \in {"refused", "unchanged"} =>
                   LandedOf(e)' = {} /\ \A put \in flight' : put.token # e.token
             /\ e.result \in {"ok", "lost", "readback"} /\ e.op.kind \in {"append", "create"} =>
                   LandedOf(e)' # {}
             /\ e.result = "both" => Put2(e.op.dst, e.op.id)'
  <2>1. e.result = "lost" => Overtaken(e.token, e.op.id)'
    BY <1>4 DEF ReportsSound, LostHasCause, Overtaken
  <2>2. ASSUME e.result \in {"refused", "unchanged"}
        PROVE  LandedOf(e)' = {} /\ \A put \in flight' : put.token # e.token
    <3>1. LandedOf(e) = {} /\ \A put \in flight : put.token # e.token
      BY <2>2 DEF ReportsSound
    <3> QED BY <1>1, <1>2, <1>3, <3>1 DEF LandedOf
  <2>3. e.result \in {"ok", "lost", "readback"} /\ e.op.kind \in {"append", "create"} =>
           LandedOf(e)' # {}
    BY <1>4 DEF ReportsSound, LandedOf
  <2>4. e.result = "both" => Put2(e.op.dst, e.op.id)'
    BY Put2Stays DEF ReportsSound
  <2> QED BY <2>1, <2>2, <2>3, <2>4
\* What is reported now.
<1>6. ASSUME NEW p \in Procs, NEW result \in Results, Over(p, result),
             NEW e, e = [token |-> Token(p), op |-> proc[p].op, result |-> result]
      PROVE  /\ e.result = "lost" => Overtaken(e.token, e.op.id)'
             /\ e.result \in {"refused", "unchanged"} =>
                   LandedOf(e)' = {} /\ \A put \in flight' : put.token # e.token
             /\ e.result \in {"ok", "lost", "readback"} /\ e.op.kind \in {"append", "create"} =>
                   LandedOf(e)' # {}
             /\ e.result = "both" => Put2(e.op.dst, e.op.id)'
  <2>1. e.token = Token(p) /\ e.op = proc[p].op /\ e.result = result /\ Busy(p)
        /\ landed' = landed /\ syncs' = syncs
    BY <1>6 DEF Over, Busy
  <2>2. e.result = "lost" => Overtaken(e.token, e.op.id)'
    <3>1. result = "lost" => Overtaken(Token(p), proc[p].op.id)
      BY <1>6, <2>1 DEF Over, WrittenHolds
    <3> QED BY <2>1, <3>1 DEF Overtaken
  <2>3. ASSUME e.result \in {"refused", "unchanged"}
        PROVE  LandedOf(e)' = {} /\ \A put \in flight' : put.token # e.token
    <3>1. Sent(p) = {} /\ flight' = flight
      BY <1>6, <2>1, <2>3 DEF Over
    <3>2. /\ \A put \in flight : put.token # Token(p)
          /\ \A l \in landed : l.token # Token(p)
      BY <2>1, <3>1 DEF RequestsSound, RequestsOf
    <3> QED BY <2>1, <3>1, <3>2 DEF LandedOf
  <2>4. ASSUME e.result \in {"ok", "lost", "readback"}, e.op.kind \in {"append", "create"}
        PROVE  LandedOf(e)' # {}
    <3>1. Landed(p)
      BY <1>6, <2>1, <2>4 DEF Over, WritesShow
    <3> QED BY <2>1, <3>1 DEF Landed, LandedOf
  <2>5. ASSUME e.result = "both" PROVE Put2(e.op.dst, e.op.id)'
    <3>1. Put2(e.op.dst, e.op.id)
      BY <1>6, <2>1, <2>5 DEF Over, MovesSound
    <3> QED BY <2>1, <3>1 DEF Put2
  <2> QED BY <2>2, <2>3, <2>4, <2>5
<1>7. \/ ended' = ended
      \/ \E p \in Procs, result \in Results : Over(p, result)
  BY DEF ProcessStep, Begins, Calm, Read, PlanEdit, PlanMove, Settle, LandOwn, Advance,
         WorldStep, LateLand, Drop, Expired, OrgzlyRead, OrgzlyWrote, Still
<1>8. ASSUME NEW e \in ended'
      PROVE  /\ e.result = "lost" => Overtaken(e.token, e.op.id)'
             /\ e.result \in {"refused", "unchanged"} =>
                   LandedOf(e)' = {} /\ \A put \in flight' : put.token # e.token
             /\ e.result \in {"ok", "lost", "readback"} /\ e.op.kind \in {"append", "create"} =>
                   LandedOf(e)' # {}
             /\ e.result = "both" => Put2(e.op.dst, e.op.id)'
  <2>1. CASE e \in ended
    BY <1>5, <2>1
  <2>2. CASE e \notin ended
    <3>1. PICK p \in Procs, result \in Results : Over(p, result)
      BY <1>7, <2>2
    <3>2. e = [token |-> Token(p), op |-> proc[p].op, result |-> result]
      BY <2>2, <3>1 DEF Over
    <3> QED BY <1>6, <3>1, <3>2
  <2> QED BY <2>1, <2>2
<1>9. LostHasCause'
  BY <1>8 DEF LostHasCause, Overtaken
<1> QED BY <1>8, <1>9 DEF ReportsSound


-----------------------------------------------------------------------------
(* The inductive invariant.                                                 *)

LEMMA InitIInv == Init => IInv
<1> SUFFICES ASSUME Init PROVE IInv
  OBVIOUS
<1>1. /\ file = Listing /\ lock = [f \in Files |-> Free] /\ flight = {}
      /\ proc = [p \in Procs |-> Idle] /\ copy = [f \in Files |-> NoOp]
      /\ ended = {} /\ landed = {} /\ syncs = 0
  BY DEF Init
<1>2. /\ \A f \in Files : file[f] = Listing[f] /\ file[f] \in Content
                          /\ lock[f] = Free /\ copy[f] = NoOp
      /\ \A p \in Procs : proc[p] = Idle
      /\ file \in [Files -> Content]
  <2>1. Listing \in [Files -> Content]
    BY ListingTyped, OrgAssumption
  <2> QED BY <1>1, <2>1, ListingTyped
<1>3. \A p \in Procs : ~Busy(p) /\ ~Sends(p) /\ proc[p].pc = "idle" /\ proc[p].n = 0
  <2>1. Idle.pc = "idle" /\ Idle.n = 0
    BY DEF Idle
  <2>2. \A p \in Procs : proc[p].pc = "idle" /\ proc[p].n = 0
    BY <1>2, <2>1
  <2> QED BY <2>2 DEF Busy, Sends
<1>4. Typed
  <2>1. proc \in [Procs -> Process]
    BY <1>1, IdleType
  <2> QED BY <1>1, <1>2, <2>1 DEF Typed
<1>5. Phases
  <2>1. Idle = [Idle EXCEPT !.n = Idle.n]
    BY DEF Idle
  <2>2. Idle.pc = "idle" /\ Idle.error = ""
    BY DEF Idle
  <2>3. PhaseOf(Idle)
    BY <2>1, <2>2 DEF PhaseOf
  <2>4. ASSUME NEW p \in Procs PROVE Phase(p)
    BY <1>2, <2>3 DEF Phase
  <2> QED BY <2>4 DEF Phases
<1>6. TokensSound /\ RequestsSound /\ OneRequest /\ CapturesDistinct
  BY <1>1, <1>2, <1>3 DEF TokensSound, RequestsSound, OneRequest, CapturesDistinct
<1>7. Pending
  BY <1>1, <1>3 DEF Pending, PendingOf, Unsent
<1>8. NoneLost
  <2>1. SUFFICES ASSUME NEW x \in ListingIds PROVE Somewhere(x)
    BY DEF NoneLost
  <2>2. PICK f \in Files : \E i \in DOMAIN Listing[f] : Listing[f][i].id = x
    BY DEF ListingIds
  <2>3. Has(file[f], x)
    BY <1>2, <2>2 DEF Has, At
  <2>4. ~Threat(f, x)
    BY <1>1, <1>3 DEF Threat, Threatens
  <2> QED BY <2>3, <2>4 DEF Somewhere
<1>9. ContentsSound
  <2>1. SUFFICES ASSUME NEW t \in Tokens \cup {Free}, NEW b \in Content, Held(t, b)
                 PROVE  Sound(t, b)
    BY DEF ContentsSound
  <2>2. PICK f \in Files : b = Listing[f]
    BY <1>1, <1>2, <1>3, <2>1 DEF Held, HeldBy
  <2>3. \A i \in DOMAIN b : b[i].marks = <<>> /\ b[i].id \in ListingIds
    <3>1. Listing[f] \in Seq([id : STRING, title : {"old"}, marks : {<<>>}])
      BY OrgAssumption
    <3>2. DOMAIN Listing[f] = 1..Len(Listing[f])
      BY <3>1, LenProperties
    <3>3. \A i \in 1..Len(Listing[f]) :
             Listing[f][i] \in [id : STRING, title : {"old"}, marks : {<<>>}]
      BY <3>1, ElementOfSeq
    <3>4. \A i \in DOMAIN b : b[i].marks = <<>>
      BY <2>2, <3>2, <3>3
    <3> QED BY <2>2, <3>4 DEF ListingIds
  <2>4. MarksSound(b)
    <3>1. DOMAIN <<>> = {}
      OBVIOUS
    <3> QED BY <2>3, <3>1, Zenon DEF MarksSound
  <2>5. IdsSound(b)
    BY <2>3 DEF IdsSound
  <2>6. Unseen(t, b)
    BY <1>3 DEF Unseen
  <2> QED BY <2>4, <2>5, <2>6 DEF Sound
<1>10. WritesShow /\ MovesSound /\ WrittenHolds
  BY <1>3 DEF WritesShow, MovesSound, WrittenHolds
<1>11. CountSound
  BY <1>2 DEF CountSound
<1>12. ReportsSound
  BY <1>1 DEF ReportsSound, LostHasCause
<1> QED BY <1>4, <1>5, <1>6, <1>7, <1>8, <1>9, <1>10, <1>11, <1>12 DEF IInv

LEMMA IInvStep == IInv /\ [Next]_vars => IInv'
<1> SUFFICES ASSUME IInv, [Next]_vars PROVE IInv'
  OBVIOUS
<1> USE DEF IInv
<1>1. ((\E p \in Procs : ProcessStep(p)) \/ WorldStep) /\ Typed' /\ Phases'
  BY NextKinds
<1>2. Basic
  BY <1>1, BasicStep
<1>3. TokensSound'
  BY <1>1, <1>2, TokensStep
<1>4. RequestsSound'
  BY <1>1, RequestsStep
<1>5. OneRequest'
  BY <1>1, OneRequestStep
<1>6. Pending'
  BY <1>1, PendingStep
<1>7. NoneLost'
  BY <1>1, <1>2, NoneLostStep
<1>8. ContentsSound' /\ CapturesDistinct'
  BY <1>1, <1>2, ContentsStep, CapturesStep
<1>9. WritesShow'
  BY <1>1, <1>2, WritesStep
<1>10. CountSound' /\ MovesSound'
  BY <1>1, <1>2, CountStep, MovesStep
<1>11. WrittenHolds'
  BY <1>1, <1>2, WrittenStepHolds
<1>12. ReportsSound'
  BY <1>1, <1>2, ReportsStep
<1> QED BY <1>1, <1>3, <1>4, <1>5, <1>6, <1>7, <1>8, <1>9, <1>10, <1>11, <1>12

\* InvariantHolds: contents, requests, reports and what processes hold fit together.
THEOREM InvariantHolds == Spec => []IInv
<1> QED BY InitIInv, IInvStep, PTL DEF Spec


-----------------------------------------------------------------------------
(* The properties.                                                          *)

LEMMA AskedKnown ==
    ASSUME Typed, Phases, TokensSound, NEW op \in AskedOps, op.kind # "none"
    PROVE  op \in Ops
<1>1. CASE \E e \in ended : op = e.op
  BY <1>1 DEF TokensSound
<1>2. ASSUME NEW p \in Procs, op = proc[p].op PROVE op \in Ops
  <2>1. CASE Busy(p)
    BY <1>2, <2>1 DEF Phases, Phase, PhaseOf, Busy
  <2>2. CASE ~Busy(p)
    <3>1. proc[p] = [Idle EXCEPT !.n = proc[p].n]
      BY <2>2 DEF Phases, Phase, PhaseOf, Busy
    <3>2. proc[p].op = NoOp
      BY <3>1 DEF Idle
    <3> QED BY <1>2, <3>2 DEF NoOp
  <2> QED BY <2>1, <2>2
<1> QED BY <1>1, <1>2 DEF AskedOps

\* TypeCorrect: the lock tokens, the processes and the reports are well formed.
THEOREM TypeCorrect == Spec => []TypeOK
<1>1. ASSUME IInv PROVE TypeOK
  <2>1. Typed /\ Phases /\ TokensSound
    BY <1>1 DEF IInv
  <2>2. ASSUME NEW f \in Files, lock[f] # Free
        PROVE  \E p \in Procs : \E k \in 1..proc[p].n : lock[f] = <<p, k>>
    <3>1. PICK t : t = lock[f]
      OBVIOUS
    <3>2. t \in Tokens /\ t[2] \in 1..proc[t[1]].n
      BY <2>1, <2>2, <3>1 DEF Typed, TokensSound, Drawn
    <3>3. t[1] \in Procs /\ t = <<t[1], t[2]>>
      BY <3>2, TokenIs
    <3> QED BY <3>1, <3>2, <3>3
  <2>3. \A p \in Procs :
           /\ proc[p].pc \in {"idle", "lock", "getdst", "put", "reread", "unlock",
                              "verify", "verifysrc"}
           /\ proc[p].held \subseteq Files
    BY <2>1, ProcTyped DEF States
  <2>4. \A p \in Procs : proc[p].pc = "put" => proc[p].puts # <<>>
    BY <2>1, Requests DEF Sends
  <2>5. \A e \in ended : e.op \in Op /\ e.result \in Results
    BY <2>1 DEF Typed
  <2> QED BY <2>2, <2>3, <2>4, <2>5 DEF TypeOK
<1> QED BY <1>1, InvariantHolds, PTL

\* NoCircularWaitHolds: two operations never wait for each other's locks.
THEOREM NoCircularWaitHolds == Spec => []NoCircularWait
<1>1. ASSUME IInv PROVE NoCircularWait
  <2>1. SUFFICES ASSUME NEW p \in Procs, NEW q \in Procs,
                        proc[p].pc = "lock", proc[p].toLock # <<>>,
                        Head(proc[p].toLock) \in proc[q].held,
                        proc[q].pc = "lock", proc[q].toLock # <<>>,
                        Head(proc[q].toLock) \in proc[p].held
                 PROVE  FALSE
    BY DEF NoCircularWait
  <2>2. ASSUME NEW a \in Procs, proc[a].pc = "lock", proc[a].toLock # <<>>
        PROVE  /\ Head(proc[a].toLock) \in Files
               /\ \A h \in proc[a].held : h < Head(proc[a].toLock)
    <3>1. \A h \in proc[a].held : \A i \in DOMAIN proc[a].toLock : h < proc[a].toLock[i]
      BY <1>1, <2>2 DEF IInv, Phases, Phase, PhaseOf
    <3>2. proc[a].toLock \in Seq(Files)
      BY <1>1, ProcTyped DEF IInv
    <3>3. /\ 1 \in DOMAIN proc[a].toLock /\ Head(proc[a].toLock) = proc[a].toLock[1]
          /\ Head(proc[a].toLock) \in Files
      BY <2>2, <3>2, HeadTailProperties, EmptySeq, LenProperties
    <3> QED BY <3>1, <3>3
  <2>3. PICK f \in Files : f = Head(proc[p].toLock)
    BY <2>1, <2>2
  <2>4. PICK g \in Files : g = Head(proc[q].toLock)
    BY <2>1, <2>2
  <2>5. g < f /\ f < g
    BY <2>1, <2>2, <2>3, <2>4
  <2> QED BY <2>5, Assumed
<1> QED BY <1>1, InvariantHolds, PTL

\* AtMostOnceHolds: no increment is in a body twice, and no capture in a file twice.
THEOREM AtMostOnceHolds == Spec => []AtMostOnce
<1>1. ASSUME IInv PROVE AtMostOnce
  <2>1. Typed /\ Phases /\ TokensSound /\ ContentsSound
    BY <1>1 DEF IInv
  <2>2. ASSUME NEW f \in Files PROVE MarksSound(file[f]) /\ IdsSound(file[f])
    <3>1. file[f] \in Content /\ Held(Free, file[f])
      BY <2>1 DEF Typed, Held
    <3> QED BY <2>1, <3>1 DEF ContentsSound, Sound
  <2>3. ASSUME NEW f \in Files, NEW op \in AskedOps, op.kind = "create", ~Moved(op.id)
        PROVE  Occurrences(file[f], op.id) <= 1
    <3>1. op.id \notin ListingIds
      BY <2>1, <2>3, AskedKnown, Assumed
    <3>2. \A i, j \in At(file[f], op.id) : i = j
      BY <2>2, <2>3, <3>1 DEF IdsSound, At
    <3>3. CASE At(file[f], op.id) = {}
      BY <3>3, FS_EmptySet DEF Occurrences
    <3>4. CASE At(file[f], op.id) # {}
      <4>1. PICK i : At(file[f], op.id) = {i}
        BY <3>2, <3>4
      <4> QED BY <4>1, FS_Singleton DEF Occurrences
    <3> QED BY <3>3, <3>4
  <2>4. \A f \in Files : \A i \in DOMAIN file[f] : \A j, k \in DOMAIN file[f][i].marks :
           file[f][i].marks[j] = file[f][i].marks[k] => j = k
    BY <2>2 DEF MarksSound
  <2> QED BY <2>3, <2>4 DEF AtMostOnce
<1> QED BY <1>1, InvariantHolds, PTL

\* ReportsAreTrue: what a caller is told is what happened to its write.
THEOREM ReportsAreTrue == Spec => []ReportIsTrue
<1>1. ASSUME IInv PROVE ReportIsTrue
  <2>1. ReportsSound
    BY <1>1 DEF IInv
  <2> QED BY <2>1 DEF ReportsSound, ReportIsTrue, Put2
<1> QED BY <1>1, InvariantHolds, PTL

\* NeverInNeitherHolds: a headline that nobody asked to delete is in some file.
THEOREM NeverInNeitherHolds == Spec => []NeverInNeither
<1>1. ASSUME IInv PROVE NeverInNeither
  <2>1. SUFFICES ASSUME syncs = 0, NEW f \in Files, NEW i \in DOMAIN Listing[f],
                        ~Deleted(Listing[f][i].id)
                 PROVE  Listing[f][i].id \in Ids
    BY DEF NeverInNeither
  <2>2. PICK x \in ListingIds : x = Listing[f][i].id
    BY DEF ListingIds
  <2>3. PICK g \in Files : Has(file[g], x)
    BY <1>1, <2>1, <2>2 DEF IInv, NoneLost, Somewhere
  <2>4. \E k \in DOMAIN file[g] : file[g][k].id = x
    BY <2>3 DEF Has, At
  <2> QED BY <2>2, <2>4 DEF Ids
<1> QED BY <1>1, InvariantHolds, PTL

\* NoCollateralHolds: a step that is not Orgzly's changes one headline at most.
THEOREM NoCollateralHolds == Spec => NoCollateral
<1> DEFINE Differs(x) == \E f \in Files : ~Same(file[f], file'[f], x)
           OneDiffers == syncs' = syncs =>
               \A a, b \in Ids \cup Ids' : Differs(a) /\ Differs(b) => a = b
<1>1. ASSUME IInv, [Next]_vars PROVE OneDiffers
  <2>1. SUFFICES ASSUME syncs' = syncs,
                        NEW a \in Ids \cup Ids', NEW b \in Ids \cup Ids', Differs(a), Differs(b)
                 PROVE  a = b
    OBVIOUS
  <2>2. Typed /\ Phases /\ Pending /\ Typed'
        /\ ((\E p \in Procs : ProcessStep(p)) \/ WorldStep)
    BY <1>1, NextKinds DEF IInv
  <2>3. file' # file
    BY <2>1, SameRefl
  <2>4. ~(\E f \in Files, c \in Content, i \in Nat : OrgzlyWrote(f, c, i))
    <3>1. syncs \in Nat
      BY <2>2 DEF Typed
    <3>2. syncs + 1 # syncs
      BY <3>1
    <3> QED BY <2>1, <3>2 DEF OrgzlyWrote
  <2>5. PICK put : Landing(put)
    BY <2>2, <2>3, <2>4, FileStep
  <2>6. ASSUME NEW x \in Ids \cup Ids', Differs(x) PROVE x = put.id
    <3>1. x \in STRING
      <4>1. \A f \in Files : /\ \A i \in DOMAIN file[f] : file[f][i].id \in STRING
                             /\ \A i \in DOMAIN file'[f] : file'[f][i].id \in STRING
        BY <2>2, EntryFacts DEF Typed
      <4> QED BY <4>1 DEF Ids
    <3>2. PICK f \in Files : ~Same(file[f], file'[f], x)
      BY <2>6
    <3>3. f = put.file /\ file'[f] = put.body
      BY <2>5, <3>2, SameRefl DEF Landing
    <3> QED BY <2>5, <3>1, <3>2, <3>3 DEF Landing, Keeps
  <2> QED BY <2>1, <2>6
<1>2. IInv /\ [Next]_vars => [OneDiffers]_vars
  BY <1>1
<1> QED BY <1>2, InvariantHolds, PTL DEF Spec, NoCollateral

=============================================================================
