------------------------------ MODULE OrgWrites -----------------------------
(***************************************************************************)
(* The org plugin's writes (plugins/org): edits, captures, deletes and     *)
(* moves of headlines in .org files on a WebDAV server.                    *)
(*                                                                         *)
(* Every write is LOCK, fresh GET, splice, PUT with the token, UNLOCK, and *)
(* two read-backs; a move across files locks both in path order, writes    *)
(* the destination first and the source second.  Several processes run the *)
(* plugin; Orgzly uploads whole files it read earlier, without locking.    *)
(* Requests fail, PUTs time out and land late or never, locks expire,      *)
(* processes die.                                                          *)
(*                                                                         *)
(* Abstractions.  A file is the sequence of its headlines, its preamble    *)
(* one of them; a headline is its id, its title and the list of the        *)
(* increments its body received, its subtree included.  Files are numbered *)
(* in path order.  The server is modelled from how the plugin uses it.     *)
(***************************************************************************)
EXTENDS Naturals, Sequences, FiniteSets, SequencesExt

CONSTANTS
    NFiles,     \* files of the account
    Procs,      \* processes that run the plugin
    Ops,        \* what they may be asked, see Op
    Listing,    \* the files as they are at first
    Parents,    \* ids of headlines that have children
    OrgzlyEdits,\* id of the headline Orgzly's uploads change
    MaxOps,     \* bound: operations asked for
    MaxSyncs,   \* bound: Orgzly uploads
    MaxFaults   \* bound: requests that go wrong, deaths, expiries of a lock in use

Files == 1..NFiles
Free  == <<>>          \* no lock
NoOp  == [kind |-> "none"]

\* kind: append and set are patches of a headline, create adds one to the file, delete
\* removes one (subtree: with its children), move takes it to the end of dst.
Op == [kind : {"append", "set", "create", "delete", "move"}, file : Files, id : STRING,
       dst : Files, subtree : BOOLEAN]

\* Only a move has a destination of its own; the ids of captures are new (newUUID); an
\* increment of Orgzly's is not named like one of ours.
ASSUME OrgAssumption ==
    /\ NFiles \in Nat /\ MaxOps \in Nat /\ MaxSyncs \in Nat /\ MaxFaults \in Nat
    /\ \A o \in Ops : o \in Op /\ (o.kind # "move" => o.dst = o.file)
    /\ Listing \in [Files -> Seq([id : STRING, title : {"old"}, marks : {<<>>}])]
    /\ \A o \in Ops : o.kind = "create" =>
          \A f \in Files : \A i \in DOMAIN Listing[f] : Listing[f][i].id # o.id
    /\ "orgzly" \notin Procs

VARIABLES
    file,    \* [Files -> Seq(headline)]: the server's files
    lock,    \* [Files -> token or Free]
    flight,  \* PUTs whose sender stopped waiting
    proc,    \* [Procs -> what the process holds]
    copy,    \* [Files -> the content Orgzly read, or NoOp]
    ended,   \* operations that over, with what was reported
    landed,  \* ghost: the PUTs that took effect: token, file and headline
    syncs, faults

vars == <<file, lock, flight, proc, copy, ended, landed, syncs, faults>>

(***************************************************************************)
(* Files and edits.                                                        *)
(***************************************************************************)
Headline(id) == [id |-> id, title |-> "old", marks |-> <<>>]

At(content, id) == {i \in DOMAIN content : content[i].id = id}

\* find: the first headline with the id, or 0.
find(content, id) ==
    IF At(content, id) = {} THEN 0
    ELSE CHOOSE i \in At(content, id) : \A j \in At(content, id) : i <= j

Without(content, i) == SubSeq(content, 1, i - 1) \o SubSeq(content, i + 1, Len(content))

\* applyEdit: an increment is appended under the operation's name; a title that is there
\* already is no change.
applyEdit(h, op, token) ==
    CASE op.kind = "append" -> [h EXCEPT !.marks = Append(@, token)]
      [] op.kind = "set"    -> [h EXCEPT !.title = "new"]
      [] OTHER              -> h

\* Why the operation is refused before anything is written.
Refusal(content, op) ==
    \/ op.kind # "create" /\ find(content, op.id) = 0
    \/ op.kind = "delete" /\ op.id \in Parents /\ ~op.subtree

\* The source file as it is to be.
SourceOut(content, op, token) ==
    LET i == find(content, op.id)
    IN CASE op.kind = "create" -> Append(content, Headline(op.id))
         [] op.kind = "delete" -> Without(content, i)
         [] op.kind = "move"   -> IF op.dst = op.file
                                  THEN Append(Without(content, i), content[i])
                                  ELSE Without(content, i)
         [] OTHER              -> [content EXCEPT ![i] = applyEdit(@, op, token)]

Occurrences(content, id) == Cardinality(At(content, id))

\* What the read-backs look for, of the destination as it is to be: the headline, its body
\* only where it was set; for a delete, how many headlines of the id are left.
Want(out, op) ==
    IF op.kind = "delete" THEN [left |-> Occurrences(out, op.id)]
    ELSE [headline |-> out[find(out, op.id)], body |-> op.kind # "set"]

\* verifyEdit, verifyDeleted, and verifyMove's look at the destination.
Holds(content, op, want) ==
    LET i == find(content, op.id)
    IN IF op.kind = "delete" THEN Occurrences(content, op.id) <= want.left
       ELSE /\ i # 0
            /\ content[i].title = want.headline.title
            /\ want.body => content[i].marks = want.headline.marks

(***************************************************************************)
(* The process.                                                            *)
(***************************************************************************)
Idle == [pc |-> "idle", op |-> NoOp, n |-> 0, toLock |-> <<>>, held |-> {}, src |-> <<>>,
         puts |-> <<>>, wrote |-> FALSE, error |-> "", want |-> NoOp, checks |-> 0]

Init ==
    /\ file = Listing
    /\ lock = [f \in Files |-> Free]
    /\ flight = {}
    /\ proc = [p \in Procs |-> Idle]
    /\ copy = [f \in Files |-> NoOp]
    /\ ended = {} /\ landed = {} /\ syncs = 0 /\ faults = 0

\* A lock token, and the name of an operation.
Token(p) == <<p, proc[p].n>>

Crosses(op) == op.kind = "move" /\ op.dst # op.file

AskedOps == {e.op : e \in ended} \cup {proc[p].op : p \in Procs}

Asked == LET Running == {p \in Procs : proc[p].pc # "idle"}
         IN Cardinality(ended) + Cardinality(Running)

Fault == faults < MaxFaults /\ faults' = faults + 1

Server == <<file, lock, flight, landed>>
Others == <<copy, syncs>>

\* Mutant: in the order they are named.
LockOrderAsNamed(op) == IF ~Crosses(op) THEN <<op.file>> ELSE <<op.file, op.dst>>

\* The files are locked in path order.
LockOrder(op) ==
    IF ~Crosses(op) THEN <<op.file>>
    ELSE IF op.file < op.dst THEN <<op.file, op.dst>> ELSE <<op.dst, op.file>>

Ask(p, op) ==
    /\ proc[p].pc = "idle" /\ Asked < MaxOps
    /\ op.kind = "create" =>                                \* newUUID: ids are fresh
          \A other \in AskedOps : other.kind = "create" => other.id # op.id
    /\ proc' = [proc EXCEPT ![p] = [Idle EXCEPT !.pc = "lock", !.op = op, !.n = proc[p].n + 1,
                                                !.toLock = LockOrder(op)]]
    /\ UNCHANGED <<file, lock, flight, copy, ended, landed, syncs, faults>>

\* The operation failed; the deferred unlocks follow.
Failed(p, error) == [proc EXCEPT ![p].pc = "unlock", ![p].error = error]

Lock(p) ==
    LET f == Head(proc[p].toLock)
    IN /\ proc[p].pc = "lock" /\ proc[p].toLock # <<>>
       /\ \/ /\ lock[f] = Free
             /\ lock' = [lock EXCEPT ![f] = Token(p)]
             /\ proc' = [proc EXCEPT ![p].toLock = Tail(@), ![p].held = @ \cup {f}]
             /\ UNCHANGED faults
          \/ /\ lock[f] # Free              \* 423, five times over
             /\ proc' = Failed(p, "refused")
             /\ UNCHANGED <<lock, faults>>
          \/ /\ Fault                       \* no answer; the lock may have been granted
             /\ lock' \in {lock, IF lock[f] = Free THEN [lock EXCEPT ![f] = Token(p)] ELSE lock}
             /\ proc' = Failed(p, "refused")
       /\ UNCHANGED <<file, flight, copy, ended, landed, syncs>>

\* The fresh read under the lock, and the splice.  An edit that changes nothing is not
\* written.
Get(p) ==
    LET op  == proc[p].op
        src == file[op.file]
        out == SourceOut(src, op, Token(p))
    IN /\ proc[p].pc = "lock" /\ proc[p].toLock = <<>>
       /\ \/ /\ Fault /\ proc' = Failed(p, "refused")
          \/ /\ Refusal(src, op)
             /\ proc' = Failed(p, "refused") /\ UNCHANGED faults
          \/ /\ ~Refusal(src, op) /\ ~Crosses(op) /\ out = src
             /\ proc' = Failed(p, "unchanged") /\ UNCHANGED faults
          \/ /\ ~Refusal(src, op) /\ ~Crosses(op) /\ out # src
             /\ proc' = [proc EXCEPT ![p].pc = "put", ![p].want = Want(out, op),
                                     ![p].puts = <<[file |-> op.file, body |-> out]>>]
             /\ UNCHANGED faults
          \/ /\ ~Refusal(src, op) /\ Crosses(op)
             /\ proc' = [proc EXCEPT ![p].pc = "getdst", ![p].src = src]
             /\ UNCHANGED faults
       /\ UNCHANGED <<Server, Others, ended>>

\* Mutant: the source first.
MovePutsSourceFirst(op, dstOut, srcWithout) ==
    <<[file |-> op.file, body |-> srcWithout], [file |-> op.dst, body |-> dstOut]>>

\* The two writes of a move across files: the destination first.
MovePuts(op, dstOut, srcWithout) ==
    <<[file |-> op.dst, body |-> dstOut], [file |-> op.file, body |-> srcWithout]>>

\* moveLocked across files: the destination with the headline at its end is written
\* before the source without it.
GetDst(p) ==
    LET op  == proc[p].op
        src == proc[p].src
        i   == find(src, op.id)
        out == Append(file[op.dst], src[i])
    IN /\ proc[p].pc = "getdst"
       /\ \/ /\ Fault /\ proc' = Failed(p, "refused")
          \/ /\ proc' = [proc EXCEPT ![p].pc = "put", ![p].src = <<>>,
                    ![p].want = Want(out, op),
                    ![p].puts = MovePuts(op, out, Without(src, i))]
             /\ UNCHANGED faults
       /\ UNCHANGED <<Server, Others, ended>>

\* Mutant: a PUT without the If header, refused only while another one holds the lock.
AcceptsUnlocked(put) == lock[put.file] \in {Free, put.token}

\* A PUT the server accepts: the lock is the sender's.
Accepts(put) == lock[put.file] = put.token

Lands(put) ==
    /\ file' = [file EXCEPT ![put.file] = put.body]
    /\ landed' = landed \cup {[token |-> put.token, file |-> put.file, id |-> put.id]}

\* The PUT at the head of puts is done with: the next one, or the deferred unlocks.
Written(p) ==
    [proc EXCEPT ![p].puts = Tail(@), ![p].wrote = TRUE,
                 ![p].pc = IF Len(proc[p].puts) = 1 THEN "unlock" ELSE "put"]

\* Mutant: a PUT without an answer is an ordinary failure.
PutFailedRefused(p, error) == Failed(p, IF proc[p].wrote THEN "both" ELSE "refused")

\* The PUT failed: the second one of a move leaves the headline in both files.
PutFailed(p, error) == Failed(p, IF proc[p].wrote THEN "both" ELSE error)

\* The next PUT, under the lock token.
Request(p) == [file |-> Head(proc[p].puts).file, body |-> Head(proc[p].puts).body,
               token |-> Token(p), id |-> proc[p].op.id]

Put(p) ==
    LET put == Request(p)
    IN /\ proc[p].pc = "put"
       /\ \/ /\ Accepts(put) /\ Lands(put)
             /\ proc' = Written(p)
             /\ UNCHANGED <<flight, faults>>
          \/ /\ ~Accepts(put)                 \* 412
             /\ proc' = PutFailed(p, "refused")
             /\ UNCHANGED <<file, landed, flight, faults>>
          \/ /\ Fault                         \* outcomeUnknown: landed, lost or still under way
             /\ \/ Accepts(put) /\ Lands(put) /\ UNCHANGED flight
                \/ UNCHANGED <<file, landed, flight>>
                \/ flight' = flight \cup {put} /\ UNCHANGED <<file, landed>>
             /\ proc' = [proc EXCEPT ![p].pc = "reread"]
       /\ UNCHANGED <<lock, copy, syncs, ended>>

\* Mutant: the whole edit is done again when the re-read does not show it.
RereadRetries(p) ==
    LET put == Head(proc[p].puts)
    IN /\ proc[p].pc = "reread"
       /\ proc' = IF file[put.file] = put.body THEN Written(p)
                  ELSE [proc EXCEPT ![p].pc = "lock", ![p].puts = <<>>]
       /\ UNCHANGED <<Server, Others, ended, faults>>

\* putChecked: the re-read settles it when it shows the file as it was to be.
Reread(p) ==
    LET put == Head(proc[p].puts)
    IN /\ proc[p].pc = "reread"
       /\ \/ /\ proc' = IF file[put.file] = put.body THEN Written(p) ELSE PutFailed(p, "unknown")
             /\ UNCHANGED faults
          \/ /\ Fault /\ proc' = PutFailed(p, "unknown")
       /\ UNCHANGED <<Server, Others, ended>>

\* A PUT nobody waits for reaches the server.
LatePut(put) ==
    /\ put \in flight
    /\ flight' = flight \ {put}
    /\ \/ Accepts(put) /\ Lands(put)
       \/ ~Accepts(put) /\ UNCHANGED <<file, landed>>
    /\ UNCHANGED <<lock, proc, copy, ended, syncs, faults>>

\* The operation ends; what the caller is told.
Ends(p, result) ==
    /\ ended' = ended \cup {[token |-> Token(p), op |-> proc[p].op, result |-> result]}
    /\ proc' = [proc EXCEPT ![p] = [Idle EXCEPT !.n = proc[p].n]]

\* One UNLOCK; its failure is left to the lock's timeout.
Unlock(p, f) ==
    /\ proc[p].pc = "unlock" /\ f \in proc[p].held
    /\ \/ /\ lock' = IF lock[f] = Token(p) THEN [lock EXCEPT ![f] = Free] ELSE lock
          /\ UNCHANGED faults
       \/ Fault /\ UNCHANGED lock
    /\ proc' = [proc EXCEPT ![p].held = @ \ {f}]
    /\ UNCHANGED <<file, flight, landed, copy, syncs, ended>>

\* All unlocked: an error or a patch that applied nothing is the answer.
Unlocked(p) ==
    /\ proc[p].pc = "unlock" /\ proc[p].held = {}
    /\ \/ /\ proc[p].error # "" /\ Ends(p, proc[p].error)
       \/ /\ proc[p].error = ""
          /\ proc' = [proc EXCEPT ![p].pc = "verify"] /\ UNCHANGED ended
    /\ UNCHANGED <<Server, Others, faults>>

\* A read-back succeeded: the second one follows, after a delay the caller may cut short.
Checked(p) ==
    \/ proc[p].checks = 0 /\ UNCHANGED ended
       /\ proc' = [proc EXCEPT ![p].pc = "verify", ![p].checks = 1]
    \/ Ends(p, "ok")

\* The file in which the headline must be.
ReadBack(op) == op.dst

Verify(p) ==
    LET op == proc[p].op
    IN /\ proc[p].pc = "verify"
       /\ \/ /\ Fault /\ Ends(p, "readback")
          \/ /\ UNCHANGED faults
             /\ \/ /\ ~Holds(file[ReadBack(op)], op, proc[p].want) /\ Ends(p, "lost")
                \/ /\ Holds(file[ReadBack(op)], op, proc[p].want) /\ ~Crosses(op) /\ Checked(p)
                \/ /\ Holds(file[ReadBack(op)], op, proc[p].want) /\ Crosses(op)
                   /\ proc' = [proc EXCEPT ![p].pc = "verifysrc"] /\ UNCHANGED ended
       /\ UNCHANGED <<Server, Others>>

\* verifyMove's look at the source: the headline must be gone from it.
VerifySource(p) ==
    LET op == proc[p].op
    IN /\ proc[p].pc = "verifysrc"
       /\ \/ /\ Fault /\ Ends(p, "readback")
          \/ /\ UNCHANGED faults
             /\ \/ find(file[op.file], op.id) # 0 /\ Ends(p, "back")
                \/ find(file[op.file], op.id) = 0 /\ Checked(p)
       /\ UNCHANGED <<Server, Others>>

\* The process dies; its locks stay, and a PUT it had sent may be under way.
Die(p) ==
    /\ proc[p].pc # "idle" /\ Fault
    /\ Ends(p, "died")
    /\ \/ UNCHANGED flight
       \/ /\ proc[p].pc = "put"
          /\ flight' = flight \cup {Request(p)}
    /\ UNCHANGED <<file, lock, landed, Others>>

(***************************************************************************)
(* The server and Orgzly.                                                  *)
(***************************************************************************)
\* The 60 s of a lock are over: a leaked lock's always, one in use is a fault.
Expire(f) ==
    LET InUse == \E p \in Procs : f \in proc[p].held /\ lock[f] = Token(p)
    IN /\ lock[f] # Free
       /\ IF InUse THEN Fault ELSE UNCHANGED faults
       /\ lock' = [lock EXCEPT ![f] = Free]
       /\ UNCHANGED <<file, flight, landed, proc, Others, ended>>

\* A sync goes through the files one at a time.
OrgzlyRead(f) ==
    /\ syncs < MaxSyncs /\ \A g \in Files : copy[g] = NoOp
    /\ copy' = [copy EXCEPT ![f] = [body |-> file[f]]]
    /\ UNCHANGED <<Server, proc, ended, syncs, faults>>

\* Orgzly takes no lock, but the server refuses its upload while someone holds one.
OrgzlyUpload(f) ==
    LET body == copy[f].body
        i    == find(body, OrgzlyEdits)
    IN /\ copy[f] # NoOp /\ lock[f] = Free
       /\ file' = [file EXCEPT ![f] = IF i = 0 THEN body
                                      ELSE [body EXCEPT ![i].marks = Append(@, <<"orgzly", syncs>>)]]
       /\ copy' = [copy EXCEPT ![f] = NoOp]
       /\ syncs' = syncs + 1
       /\ UNCHANGED <<lock, flight, landed, proc, ended, faults>>

Quiet == \A p \in Procs : proc[p].pc = "idle"

\* Everything asked for has ended.
Done == /\ Quiet /\ Asked = MaxOps /\ UNCHANGED vars

Next ==
    \/ \E p \in Procs : \/ \E op \in Ops : Ask(p, op)
                        \/ Lock(p) \/ Get(p) \/ GetDst(p) \/ Put(p) \/ Reread(p)
                        \/ \E f \in Files : Unlock(p, f)
                        \/ Unlocked(p) \/ Verify(p) \/ VerifySource(p) \/ Die(p)
    \/ \E put \in flight : LatePut(put)
    \/ \E f \in Files : Expire(f) \/ OrgzlyRead(f) \/ OrgzlyUpload(f)
    \/ Done

Spec == Init /\ [][Next]_vars

(***************************************************************************)
(* Properties.                                                             *)
(***************************************************************************)
Results == {"ok", "unchanged", "refused", "unknown", "both", "lost", "back", "readback", "died"}

\* TypeOK: locks, processes and reports are what the code can hold.
TypeOK ==
    /\ \A f \in Files :
          lock[f] = Free \/ \E p \in Procs : \E k \in 1..proc[p].n : lock[f] = <<p, k>>
    /\ \A p \in Procs : /\ proc[p].pc \in {"idle", "lock", "getdst", "put", "reread", "unlock",
                                           "verify", "verifysrc"}
                        /\ proc[p].held \subseteq Files
                        /\ proc[p].pc = "put" => proc[p].puts # <<>>
    /\ \A e \in ended : e.op \in Op /\ e.result \in Results

Ids == UNION {{file[f][i].id : i \in DOMAIN file[f]} : f \in Files}

\* The headlines of the id are the same in c and d, and in the same order.
Same(c, d, id) ==
    \E g \in [At(c, id) -> At(d, id)] :
       /\ \A k \in At(d, id) : \E i \in At(c, id) : g[i] = k
       /\ \A i, j \in At(c, id) : i < j => g[i] < g[j]
       /\ \A i \in At(c, id) : d[g[i]] = c[i]

\* NoCollateral (editLocked, moveLocked: the fresh read under the lock): whatever the
\* plugin's processes do, late PUTs and expired locks included, one step changes one
\* headline only; what the others wrote to the file in the meantime is never reverted.
NoCollateral ==
    [][syncs' = syncs =>
         \A a, b \in Ids \cup Ids' : (\E f \in Files : ~Same(file[f], file'[f], a))
                                    /\ (\E f \in Files : ~Same(file[f], file'[f], b)) => a = b]_vars

Deleted(id) == \E op \in AskedOps : op.kind = "delete" /\ op.id = id

\* Somebody asked to move it to another file, where an interrupted move leaves a second one.
Moved(id) == \E op \in AskedOps : Crosses(op) /\ op.id = id

\* NeverInNeither (moveLocked writes the destination first): as long as Orgzly has not
\* uploaded and nobody asked to delete it, a headline is in some file, at every moment of
\* every move and wherever it is interrupted.
NeverInNeither ==
    syncs = 0 => \A f \in Files : \A i \in DOMAIN Listing[f] :
                    Listing[f][i].id \in Ids \/ Deleted(Listing[f][i].id)

\* AtMostOnce (outcomeUnknown: "a retry could apply the change twice"): no operation's
\* increment is in a body twice, and no capture made two headlines in a file.
AtMostOnce ==
    \A f \in Files :
        /\ \A i \in DOMAIN file[f] : \A j, k \in DOMAIN file[f][i].marks :
              file[f][i].marks[j] = file[f][i].marks[k] => j = k
        /\ \A op \in AskedOps :
              op.kind = "create" /\ ~Moved(op.id) => Occurrences(file[f], op.id) <= 1

LandedOf(e) == {l \in landed : l.token = e.token}

\* LostHasCause (verifyEdit, verifyDeleted, verifyMove): a change is only reported lost to a
\* concurrent sync when Orgzly did upload, or another operation wrote the same headline.
LostHasCause ==
    \A e \in ended : e.result = "lost" =>
        syncs > 0 \/ \E l \in landed : l.token # e.token /\ l.id = e.op.id

\* ReportIsTrue: an operation that is refused, or applied nothing, has written nothing and
\* never will, late PUTs included; an increment or a capture reported as written was; a
\* move only reports the headline in both files when it was written to the destination,
\* by this move or by another one that left the file just as this one meant to; a loss has
\* a cause.
ReportIsTrue ==
    /\ LostHasCause
    /\ \A e \in ended :
          /\ e.result \in {"refused", "unchanged"} =>
                LandedOf(e) = {} /\ \A put \in flight : put.token = e.token => ~Accepts(put)
          /\ e.result \in {"ok", "lost", "readback"} /\ e.op.kind \in {"append", "create"} =>
                LandedOf(e) # {}
          /\ e.result = "both" => \E l \in landed : l.file = e.op.dst /\ l.id = e.op.id

\* NoCircularWait (moveLocked: "Lock in path order, so two of this plugin's moves cannot
\* deadlock"): no two operations each hold the lock the other one waits for.
NoCircularWait ==
    \A p, q \in Procs :
        LET Waits(a, b) == /\ proc[a].pc = "lock" /\ proc[a].toLock # <<>>
                           /\ Head(proc[a].toLock) \in proc[b].held
        IN p # q => ~(Waits(p, q) /\ Waits(q, p))

=============================================================================
