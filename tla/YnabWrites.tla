----------------------------- MODULE YnabWrites -----------------------------
(***************************************************************************)
(* The YNAB plugin's writes and the cache they share with its reads        *)
(* (plugins/ynab: bulk_mutate.go, write.go, payee_write.go, client.go,     *)
(* cache.go).                                                              *)
(*                                                                         *)
(* A bulk call renames payees at once and gathers the patches of           *)
(* transactions by the budget as it is spelled.  Each group is merged,     *)
(* claimed, read afresh, planned against what was read, sent in one        *)
(* request and checked against the answer.  A single PatchNode is a call   *)
(* with one operation.  Reads fill the cache from other goroutines;        *)
(* someone works in YNAB's own app; requests fail before or after they     *)
(* took effect, are answered in part or take effect in part.               *)
(*                                                                         *)
(* What is also the name of something in BulkMutate, whose calls end here, *)
(* has a name of its own, so that one module can reason about both.        *)
(*                                                                         *)
(* Abstractions.  There is one account and one budget, which may be        *)
(* spelled in two ways.  A patch is a function from the fields it sets.    *)
(* The listing of a window and the reads by id are one index of rows; old  *)
(* transactions, before the default window, share one date.                *)
(***************************************************************************)
EXTENDS Naturals, Sequences, FiniteSets, SequencesExt

CONSTANTS
    Txns,            \* transactions
    Split, Transfer, \* the ones that are split parents, transfers
    Old, Ancient,    \* before the default window; before freshWindowDays
    Payees,          \* payee ids
    OwnPayees,       \* the transfer payees among them
    Categories,      \* category ids
    Requests,        \* the bulk calls that may be made
    StartRow,        \* [Txns -> row] at first
    StartPayee,      \* [Payees -> name] at first
    MaxChanges,      \* bound: changes made in YNAB's app
    MaxReads,        \* bound: fetches by readers
    MaxFaults        \* bound: requests that go wrong

Fields == {"category", "cleared", "memo", "payee"}
Gone   == "gone"     \* the name of a payee that is deleted or merged away
None   == [none |-> TRUE]

\* kind patch: a transaction's, with the spelling of its budget; kind rename: a payee's.
IsPatch(o) == o.kind = "patch"

\* A row as YNAB keeps it.
IsRow(r) ==
    /\ r = [f \in Fields \cup {"deleted", "v"} |-> r[f]]
    /\ r.deleted \in BOOLEAN /\ r.v \in Nat

\* An operation names a transaction and some of its fields, or a payee.
IsOp(o) ==
    IF IsPatch(o) THEN o.txn \in Txns /\ DOMAIN o.patch \subseteq Fields ELSE o.payee \in Payees

ASSUME YnabAssumption ==
    /\ Split \subseteq Txns /\ Transfer \subseteq Txns /\ Ancient \subseteq Old /\ Old \subseteq Txns
    /\ OwnPayees \subseteq Payees
    /\ StartRow = [t \in Txns |-> StartRow[t]] /\ \A t \in Txns : IsRow(StartRow[t])
    /\ StartPayee = [p \in Payees |-> StartPayee[p]]
    /\ \A ops \in Requests : ops \in Seq(Range(ops)) /\ \A k \in DOMAIN ops : IsOp(ops[k])
    /\ MaxChanges \in Nat /\ MaxReads \in Nat /\ MaxFaults \in Nat

VARIABLES
    row,       \* [Txns -> row]: YNAB's transactions; v counts a row's changes
    payee,     \* [Payees -> name]: YNAB's payees
    live,      \* YNAB's categories that are neither hidden nor deleted
    index,     \* txnIndex: [Txns -> [row, raced] or None]
    payeeList, \* the cached payees, or None
    tree,      \* the cached categories, or None
    reader,    \* a read that fetched and has not stored yet, or None
    call,      \* the bulk call
    log,       \* ghost: the rows the call wrote
    settled,   \* ghost: [Txns -> v when the last write request that named it was over]
    touched,   \* ghost: what the app changed since the call began
    changes, reads, faults

server == <<row, payee, live>>
caches == <<index, payeeList, tree>>
ghosts == <<log, settled, touched>>
ynabVars == <<row, payee, live, index, payeeList, tree, reader, call, log, settled, touched,
              changes, reads, faults>>

Fault == faults < MaxFaults /\ faults' = faults + 1

(***************************************************************************)
(* Patches.                                                                *)
(***************************************************************************)
\* A memo of null is sent as null and stored as no memo.
Stored(f, value) == IF f = "memo" /\ value = "null" THEN "" ELSE value

\* mergePatches: a field set by both must have the same value.
Conflicts(a, b) == \E f \in DOMAIN a \cap DOMAIN b : a[f] # b[f]

\* Mutant: what the first patch does not set is forgotten.
MergedPatchFirst(a, b) == a

MergedPatch(a, b) ==
    [f \in DOMAIN a \cup DOMAIN b |-> IF f \in DOMAIN b THEN b[f] ELSE a[f]]

\* resolvePayeeRef: the live payee with the id, or else the only one with the name.
PayeesNamed(list, ref) ==
    LET ById == {p \in Payees : p = ref /\ list[p] # Gone}
    IN IF ById # {} THEN ById ELSE {p \in Payees : list[p] = ref /\ ref # Gone}

resolvePayeeRef(list, ref) ==
    LET found == PayeesNamed(list, ref)
    IN IF Cardinality(found) = 1 /\ found \cap OwnPayees = {}
       THEN CHOOSE p \in found : TRUE ELSE Gone

\* planTransactionPatch's refusals, in their order.  The category is looked up in the tree
\* unless the row is refused one already, the payee in the list unless anything else is.
NoCategory(t, r) == r.deleted \/ t \in Split \cup Transfer

RefusedSoFar(t, r, patch, cats) ==
    \/ r.deleted
    \/ "category" \in DOMAIN patch /\ (NoCategory(t, r) \/ patch["category"] \notin cats)
    \/ "cleared" \in DOMAIN patch /\ r.cleared = "reconciled"
    \/ "payee" \in DOMAIN patch /\ t \in Transfer

PatchRefused(t, r, patch, cats, list) ==
    \/ RefusedSoFar(t, r, patch, cats)
    \/ "payee" \in DOMAIN patch /\ resolvePayeeRef(list, patch["payee"]) = Gone

\* The value a patch asks of a field.
Asked(f, patch, list) ==
    IF f = "payee" THEN resolvePayeeRef(list, patch[f]) ELSE Stored(f, patch[f])

\* The entry sent: the fields whose value differs from the row's.
PlannedEntry(r, patch, list) ==
    LET changed == {f \in DOMAIN patch : r[f] # Asked(f, patch, list)}
    IN [f \in changed |-> Asked(f, patch, list)]

Shows(r, entry) == \A f \in DOMAIN entry : r[f] = entry[f]

(***************************************************************************)
(* The cache.                                                              *)
(***************************************************************************)
\* cacheInvalidateTransactions: every row of the budget.
Invalidated == [t \in Txns |-> None]

\* cachePut of a listing or of one transaction; it counts as raced when a write was over
\* in the meantime.
Put(rows, began) ==
    [t \in Txns |-> IF t \in DOMAIN rows
                    THEN [row |-> rows[t], raced |-> settled # began] ELSE index[t]]

\* transactions, transaction: a miss fetches a listing or one row and stores it afterwards.
ReadFetch(which) ==
    /\ reader = None /\ reads < MaxReads /\ \E t \in which : index[t] = None
    /\ reader' = [kind |-> "txns", rows |-> [t \in which |-> row[t]], began |-> settled]
    /\ reads' = reads + 1
    /\ UNCHANGED <<server, caches, call, ghosts, changes, faults>>

ReadStore ==
    /\ reader # None /\ reader.kind = "txns"
    /\ index' = Put(reader.rows, reader.began)
    /\ reader' = None
    /\ UNCHANGED <<server, payeeList, tree, call, ghosts, changes, reads, faults>>

\* payees, categoryGroups: the lists a listing of names shows.
ListsFetch ==
    /\ reader = None /\ reads < MaxReads /\ None \in {payeeList, tree}
    /\ reader' = [kind |-> "lists", payees |-> payee, cats |-> live]
    /\ reads' = reads + 1
    /\ UNCHANGED <<server, caches, call, ghosts, changes, faults>>

ListsStore ==
    /\ reader # None /\ reader.kind = "lists"
    /\ payeeList' = [names |-> reader.payees]
    /\ tree' = [cats |-> reader.cats]
    /\ reader' = None
    /\ UNCHANGED <<server, index, call, ghosts, changes, reads, faults>>

\* freshnessWindow is over.
Expire ==
    /\ <<index, payeeList, tree>> # <<Invalidated, None, None>>
    /\ index' = Invalidated /\ payeeList' = None /\ tree' = None
    /\ UNCHANGED <<server, reader, call, ghosts, changes, reads, faults>>

(***************************************************************************)
(* The call.                                                               *)
(***************************************************************************)
\* rest, merged, members: the group's members that are to be merged, to be claimed, to be
\* planned.
NoCall == [pc |-> "idle", ops |-> <<>>, i |-> 1, groups |-> <<>>, claimed |-> {}, rest |-> <<>>,
           merged |-> <<>>, members |-> <<>>, rows |-> [t \in {} |-> None], batch |-> <<>>,
           list |-> None, saved |-> None, results |-> {}, start |-> None]

YnabInit ==
    /\ row = StartRow /\ payee = StartPayee /\ live = Categories
    /\ index = Invalidated /\ payeeList = None /\ tree = None
    /\ reader = None /\ call = NoCall
    /\ log = {} /\ settled = [t \in Txns |-> 0] /\ touched = {}
    /\ changes = 0 /\ reads = 0 /\ faults = 0

Begin(ops) ==
    /\ call.pc = "idle"
    /\ call' = [NoCall EXCEPT !.pc = "classify", !.ops = ops,
                              !.start = [row |-> row, payee |-> payee]]
    /\ touched' = {}
    /\ UNCHANGED <<server, caches, reader, log, settled, changes, reads, faults>>

\* What is reported of the n-th operation.
Verdict(n, verdict) == [n |-> n, verdict |-> verdict]
Verdicts(members, verdict) == {Verdict(members[k].n, verdict) : k \in DOMAIN members}

\* parseTransactionPatch.
Unusable(patch) ==
    \E f \in DOMAIN patch : patch[f] = "bad" \/ (f = "cleared" /\ patch[f] = "reconciled")

\* The groups, in the order of their first member.
Grouped(groups, at, m) ==
    LET found == {g \in DOMAIN groups : groups[g].at = at}
    IN IF found = {} THEN Append(groups, [at |-> at, members |-> <<m>>])
       ELSE LET g == CHOOSE g \in found : TRUE
            IN [groups EXCEPT ![g].members = Append(@, m)]

\* bulkOps: the next operation is refused, reported as nothing, or queued for its group.
Classify ==
    LET o == call.ops[call.i]
    IN /\ call.pc = "classify" /\ call.i <= Len(call.ops) /\ IsPatch(o)
       /\ call' =
            IF Unusable(o.patch)
            THEN [call EXCEPT !.i = @ + 1, !.results = @ \cup {Verdict(call.i, "refused")}]
            ELSE IF DOMAIN o.patch = {}
            THEN [call EXCEPT !.i = @ + 1, !.results = @ \cup {Verdict(call.i, "nothing")}]
            ELSE [call EXCEPT !.i = @ + 1,
                              !.groups = Grouped(@, o.at, [n |-> call.i, txn |-> o.txn,
                                                           patch |-> o.patch])]
       /\ UNCHANGED <<server, caches, reader, ghosts, changes, reads, faults>>

Classified ==
    /\ call.pc = "classify" /\ call.i > Len(call.ops)
    /\ call' = [call EXCEPT !.pc = IF call.groups = <<>> THEN "done" ELSE "group"]
    /\ UNCHANGED <<server, caches, reader, ghosts, changes, reads, faults>>

\* patchPayee reads the payees afresh.
FreshPayees == payee

\* payeeForRename.
RenameRefused(list, o) ==
    \/ list[o.payee] = Gone \/ o.payee \in OwnPayees
    \/ \E q \in Payees \ {o.payee} : list[q] = o.name

RenameRead ==
    LET o == call.ops[call.i]
        Report(verdict) == [call EXCEPT !.i = @ + 1,
                                        !.results = @ \cup {Verdict(call.i, verdict)}]
    IN /\ call.pc = "classify" /\ call.i <= Len(call.ops) /\ ~IsPatch(o)
       /\ \/ Fault /\ call' = Report("unread")
          \/ /\ UNCHANGED faults
             /\ call' = IF RenameRefused(FreshPayees, o) THEN Report("refused")
                        ELSE IF FreshPayees[o.payee] = o.name THEN Report("nothing")
                        ELSE [call EXCEPT !.pc = "rename"]
       /\ UNCHANGED <<server, caches, reader, ghosts, changes, reads>>

\* renamePayee: the request, and whatever became of it the caches are dropped.
RenameSend ==
    LET o == call.ops[call.i]
        Answered(verdict) == [call EXCEPT !.pc = "renamed", !.saved = verdict]
    IN /\ call.pc = "rename"
       /\ \/ /\ payee' = [payee EXCEPT ![o.payee] = o.name]
             /\ call' = Answered("applied") /\ UNCHANGED faults
          \/ /\ Fault /\ call' = Answered("unknown")
             /\ payee' \in {payee, [payee EXCEPT ![o.payee] = o.name]}
       /\ UNCHANGED <<row, live, caches, reader, ghosts, changes, reads>>

RenameSettle ==
    /\ call.pc = "renamed"
    /\ index' = Invalidated /\ payeeList' = None
    /\ call' = [call EXCEPT !.pc = "classify", !.i = @ + 1, !.saved = None,
                            !.results = @ \cup {Verdict(call.i, call.saved)}]
    /\ UNCHANGED <<server, tree, reader, ghosts, changes, reads, faults>>

\* applyBulkGroup returns.
NextGroup(c) ==
    [c EXCEPT !.batch = <<>>, !.list = None, !.saved = None, !.rows = [t \in {} |-> None],
              !.pc = IF c.groups = <<>> THEN "done" ELSE "group"]

\* applyBulkGroup: the budget is resolved.
OpenGroup ==
    LET group == Head(call.groups)
        next  == [call EXCEPT !.groups = Tail(@)]
    IN /\ call.pc = "group"
       /\ \/ /\ Fault
             /\ call' = NextGroup([next EXCEPT !.results = @ \cup Verdicts(group.members, "unread")])
          \/ /\ call' = [next EXCEPT !.pc = "merge", !.rest = group.members]
             /\ UNCHANGED faults
       /\ UNCHANGED <<server, caches, reader, ghosts, changes, reads>>

\* mergeMembers: the next patch is folded into the first one of its transaction.
MergeMember ==
    LET m    == Head(call.rest)
        at   == {k \in DOMAIN call.merged : call.merged[k].txn = m.txn}
        k    == CHOOSE k \in at : TRUE
        next == [call EXCEPT !.rest = Tail(@)]
    IN /\ call.pc = "merge" /\ call.rest # <<>>
       /\ call' = IF at = {} THEN [next EXCEPT !.merged = Append(@, m)]
                  ELSE IF Conflicts(call.merged[k].patch, m.patch)
                  THEN [next EXCEPT !.results = @ \cup {Verdict(m.n, "conflict")}]
                  ELSE [next EXCEPT !.merged[k].patch = MergedPatch(@, m.patch)]
       /\ UNCHANGED <<server, caches, reader, ghosts, changes, reads, faults>>

\* The next merged member is claimed, under the resolved budget, of which there is one.
ClaimMember ==
    LET m    == Head(call.merged)
        next == [call EXCEPT !.merged = Tail(@)]
    IN /\ call.pc = "merge" /\ call.rest = <<>> /\ call.merged # <<>>
       /\ call' = IF m.txn \in call.claimed
                  THEN [next EXCEPT !.results = @ \cup {Verdict(m.n, "twice")}]
                  ELSE [next EXCEPT !.claimed = @ \cup {m.txn}, !.members = Append(@, m)]
       /\ UNCHANGED <<server, caches, reader, ghosts, changes, reads, faults>>

Claimed ==
    /\ call.pc = "merge" /\ call.rest = <<>> /\ call.merged = <<>>
    /\ call' = IF call.members = <<>> THEN NextGroup(call) ELSE [call EXCEPT !.pc = "listing"]
    /\ UNCHANGED <<server, caches, reader, ghosts, changes, reads, faults>>

\* Mutant: a row the cache knows is not read again.
CachedRow(t) == IF index[t] = None THEN row[t] ELSE index[t].row

\* freshTransaction, and a row of the fresh listing.
FreshRow(t) == row[t]

bulkListingMinTargets == 3

Targets == {call.members[k].txn : k \in DOMAIN call.members}

\* freshTransactionsByID: one listing when there are enough targets, or two that the cache
\* knows; the cached dates only widen its window.
Listed ==
    LET known  == {t \in Targets : index[t] # None}
        window == IF known \cap (Old \ Ancient) # {} THEN Txns \ Ancient ELSE Txns \ Old
    IN IF Cardinality(known) >= 2 \/ Cardinality(Targets) >= bulkListingMinTargets
       THEN Targets \cap window ELSE {}

FreshListing ==
    /\ call.pc = "listing"
    /\ \/ /\ call' = [call EXCEPT !.rows = [t \in Listed |-> FreshRow(t)], !.pc = "rows"]
          /\ UNCHANGED faults
       \/ /\ Listed # {} /\ Fault /\ call' = [call EXCEPT !.pc = "rows"]
    /\ UNCHANGED <<server, caches, reader, ghosts, changes, reads>>

\* A target the listing did not return is read by id.
Straggler ==
    LET missing == Targets \ DOMAIN call.rows
        m == CHOOSE m \in {call.members[k] : k \in DOMAIN call.members} : m.txn \in missing
        With(value) == [t \in DOMAIN call.rows \cup {m.txn} |->
                           IF t = m.txn THEN value ELSE call.rows[t]]
    IN /\ call.pc = "rows"
       /\ \/ /\ missing = {} /\ call' = [call EXCEPT !.pc = "plan"] /\ UNCHANGED faults
          \/ /\ missing # {} /\ UNCHANGED faults
             /\ call' = [call EXCEPT !.rows = With(FreshRow(m.txn))]
          \/ /\ missing # {} /\ Fault /\ call' = [call EXCEPT !.rows = With(None)]
       /\ UNCHANGED <<server, caches, reader, ghosts, changes, reads>>

\* The member is planned: the tree from the cache or the server, the payees once per group
\* (a failed read of them is served to the rest of the group).
PlanMember ==
    LET m     == Head(call.members)
        r     == call.rows[m.txn]
        read  == r # None
        cats  == IF tree = None THEN live ELSE tree.cats
        list  == IF call.list = None THEN payee ELSE call.list.names
        looksUpTree == read /\ "category" \in DOMAIN m.patch /\ ~NoCategory(m.txn, r)
        looksUpList == read /\ "payee" \in DOMAIN m.patch /\ ~RefusedSoFar(m.txn, r, m.patch, cats)
        entry == PlannedEntry(r, m.patch, list)
        next  == [call EXCEPT !.members = Tail(@)]
        known == [next EXCEPT !.list = IF looksUpList THEN [names |-> list] ELSE @]
        Report(c, verdict) == [c EXCEPT !.results = @ \cup {Verdict(m.n, verdict)}]
    IN /\ call.pc = "plan" /\ call.members # <<>>
       /\ \/ /\ ~read /\ call' = Report(next, "unread")
             /\ UNCHANGED <<tree, payeeList, faults>>
          \/ /\ read /\ UNCHANGED faults
             /\ tree' = IF looksUpTree THEN [cats |-> cats] ELSE tree
             /\ payeeList' = IF looksUpList /\ call.list = None THEN [names |-> list] ELSE payeeList
             /\ call' = IF PatchRefused(m.txn, r, m.patch, cats, list) THEN Report(known, "refused")
                        ELSE IF DOMAIN entry = {} THEN Report(known, "nothing")
                        ELSE [known EXCEPT !.batch = Append(@, [n |-> m.n, txn |-> m.txn,
                                                                entry |-> entry])]
          \/ /\ looksUpTree /\ tree = None /\ Fault
             /\ call' = Report(next, "unread")
             /\ UNCHANGED <<tree, payeeList>>
          \/ /\ looksUpList /\ call.list = None /\ Fault
             /\ call' = Report([next EXCEPT !.list = [names |-> [p \in Payees |-> Gone]]], "unread")
             /\ UNCHANGED <<tree, payeeList>>
       /\ UNCHANGED <<server, index, reader, ghosts, changes, reads>>

Planned ==
    /\ call.pc = "plan" /\ call.members = <<>>
    /\ call' = IF call.batch = <<>> THEN NextGroup(call) ELSE [call EXCEPT !.pc = "send"]
    /\ UNCHANGED <<server, caches, reader, ghosts, changes, reads, faults>>

Batch == {call.batch[k] : k \in DOMAIN call.batch}

\* What the request asks for: transactions and their fields.
Asks == UNION {{b.txn} \X DOMAIN b.entry : b \in Batch}

SavedFields(b, asks) == {f \in DOMAIN b.entry : <<b.txn, f>> \in asks}

\* The part of the batch that asks for no more than that; sent is what was asked for.
Part(asks) ==
    {[n |-> b.n, txn |-> b.txn, sent |-> DOMAIN b.entry,
      entry |-> [f \in SavedFields(b, asks) |-> b.entry[f]]] :
         b \in {b \in Batch : SavedFields(b, asks) # {}}}

\* The rows with the entries of a part of the batch in them.
Updated(part) ==
    [t \in Txns |->
        LET mine == {b \in part : b.txn = t}
        IN IF mine = {} THEN row[t]
           ELSE LET b == CHOOSE b \in mine : TRUE
                IN [f \in DOMAIN row[t] |-> IF f \in DOMAIN b.entry THEN b.entry[f]
                                            ELSE IF f = "v" THEN row[t].v + 1 ELSE row[t][f]]]

Writes(part) ==
    /\ row' = Updated(part)
    /\ log' = log \cup {[n |-> b.n, txn |-> b.txn, entry |-> b.entry, sent |-> b.sent,
                         before |-> row[b.txn], payees |-> payee, touched |-> touched] : b \in part}

\* patchTransactions: one request, answered with the rows as saved; or some of it, all of it
\* or nothing is saved and the answer lacks some of the rows, or there is none.
Send ==
    LET Answered(saved) == [call EXCEPT !.pc = "settle", !.saved = saved]
    IN /\ call.pc = "send"
       /\ \E asks \in SUBSET Asks :
             /\ Writes(Part(asks))
             /\ \/ asks = Asks /\ call' = Answered([rows |-> row']) /\ UNCHANGED faults
                \/ /\ Fault
                   /\ \E txns \in SUBSET {b.txn : b \in Batch} :
                         call' = Answered([rows |-> [t \in txns |-> row'[t]]])
                \/ Fault /\ call' = Answered(None)
       /\ UNCHANGED <<payee, live, caches, reader, settled, touched, changes, reads>>

\* Mutant: the cache is only dropped when the request was answered.
AfterWriteAnswered == IF call.saved = None THEN index ELSE Invalidated

\* The deferred cacheInvalidateTransactions, whatever the outcome.
AfterWrite == Invalidated

\* Mutant: a transaction the answer lacks counts as saved.
verifyReturned(saved, b) == b.txn \in DOMAIN saved => Shows(saved[b.txn], b.entry)

verify(saved, b) == b.txn \in DOMAIN saved /\ Shows(saved[b.txn], b.entry)

\* What is reported of a member of the batch: verify tells a transaction that is not in the
\* answer, whose write is not confirmed, from one the answer does not show as asked.
VerdictOf(b) ==
    IF call.saved = None THEN "unknown"
    ELSE IF verify(call.saved.rows, b) THEN "applied"
    ELSE IF b.txn \notin DOMAIN call.saved.rows THEN "unconfirmed"
    ELSE "unreflected"

Settle ==
    /\ call.pc = "settle"
    /\ index' = AfterWrite
    /\ settled' = [t \in Txns |-> IF \E b \in Batch : b.txn = t THEN row[t].v ELSE settled[t]]
    /\ call' = NextGroup([call EXCEPT !.results = @ \cup {Verdict(b.n, VerdictOf(b)) : b \in Batch}])
    /\ UNCHANGED <<server, payeeList, tree, reader, log, touched, changes, reads, faults>>

(***************************************************************************)
(* YNAB's own app.                                                         *)
(***************************************************************************)
App(changed) ==
    /\ call.pc # "done" /\ changes < MaxChanges
    /\ changes' = changes + 1
    /\ touched' = touched \cup {changed}
    /\ UNCHANGED <<caches, reader, call, log, settled, reads, faults>>

Reconcile(t) ==
    /\ row[t].cleared # "reconciled" /\ App(t)
    /\ row' = [row EXCEPT ![t].cleared = "reconciled", ![t].v = @ + 1]
    /\ UNCHANGED <<payee, live>>

Delete(t) ==
    /\ ~row[t].deleted /\ App(t)
    /\ row' = [row EXCEPT ![t].deleted = TRUE, ![t].v = @ + 1]
    /\ UNCHANGED <<payee, live>>

\* A payee is renamed, or merged into another one.
NamePayee(p, name) ==
    /\ payee[p] \notin {Gone, name} /\ \A q \in Payees : payee[q] = name => name = Gone
    /\ App(p)
    /\ payee' = [payee EXCEPT ![p] = name]
    /\ UNCHANGED <<row, live>>

HideCategory(c) ==
    /\ c \in live /\ App(c)
    /\ live' = live \ {c}
    /\ UNCHANGED <<row, payee>>

Names == {StartPayee[p] : p \in Payees}
             \cup {o.name : o \in UNION {{o \in Range(ops) : ~IsPatch(o)} : ops \in Requests}}

Done == call.pc = "done" /\ UNCHANGED ynabVars

YnabNext ==
    \/ \E ops \in Requests : Begin(ops)
    \/ Classify \/ Classified \/ RenameRead \/ RenameSend \/ RenameSettle
    \/ OpenGroup \/ MergeMember \/ ClaimMember \/ Claimed
    \/ FreshListing \/ Straggler \/ PlanMember \/ Planned \/ Send \/ Settle
    \/ \E which \in {Txns \ Old} \cup {{t} : t \in Txns} : ReadFetch(which)
    \/ ReadStore \/ ListsFetch \/ ListsStore \/ Expire
    \/ \E t \in Txns : Reconcile(t) \/ Delete(t)
    \/ \E p \in Payees : \E name \in Names \cup {Gone} : NamePayee(p, name)
    \/ \E c \in Categories : HideCategory(c)
    \/ Done

YnabSpec == YnabInit /\ [][YnabNext]_ynabVars

(***************************************************************************)
(* Properties.                                                             *)
(***************************************************************************)
\* Before anything of the operation was sent, and after.
Unsent   == {"refused", "unread", "conflict", "twice"}
Failures == Unsent \cup {"unknown", "unconfirmed", "unreflected"}

\* YnabTypeOK: the call's steps and reports are the code's.
YnabTypeOK ==
    /\ call.pc \in {"idle", "classify", "rename", "renamed", "group", "merge", "listing", "rows",
                    "plan", "send", "settle", "done"}
    /\ call.results \subseteq [n : DOMAIN call.ops, verdict : {"applied", "nothing"} \cup Failures]
    /\ call.pc = "send" => call.batch # <<>>
    /\ \A t \in Txns : /\ index[t] = None \/ DOMAIN index[t] = {"row", "raced"}
                       /\ row[t].v \in Nat
    /\ \A k \in DOMAIN call.batch : DOMAIN call.batch[k].entry \in (SUBSET Fields) \ {{}}

\* NoNewCollision (payeeForRename: "a rename that would take another live payee's name is
\* refused"): two payees share a name only if they did when the call began or YNAB's app
\* renamed one of them since.
NoNewCollision ==
    call.start # None => \A p, q \in Payees :
        /\ p # q /\ payee[p] = payee[q] /\ payee[p] # Gone
        /\ {p, q} \cap touched = {}
        => call.start.payee[p] = call.start.payee[q]

\* GuardsHold (planTransactionPatch: "refuses what is irreversible or ambiguous before
\* sending anything"; PatchNode: "The guards must see the transaction as it is now, not as a
\* listing cached up to a minute ago"): what is written respects every guard on the row and
\* the payee it is written over, unless YNAB's app changed them while the call ran; a rename
\* takes no name that is in use.
GuardsHold ==
    /\ NoNewCollision
    /\ \A w \in log :
          /\ w.txn \notin w.touched =>
                /\ ~w.before.deleted
                /\ "cleared" \in DOMAIN w.entry => w.before.cleared # "reconciled"
                /\ \A f \in DOMAIN w.entry : w.before[f] # w.entry[f]
          /\ "category" \in DOMAIN w.entry => w.txn \notin Split \cup Transfer
          /\ "payee" \in DOMAIN w.entry /\ w.touched \cap Payees = {} =>
                w.payees[w.entry["payee"]] # Gone /\ w.entry["payee"] \notin OwnPayees

\* OneWrite (bulkOps: "one budget spelled two ways cannot have a transaction written by two
\* requests"): a call writes a transaction at most once.
OneWrite == \A w1, w2 \in log : w1.txn = w2.txn => w1 = w2

\* VerdictsAreTrue: an operation reported as applied was written, every field of it that was
\* sent; one that changes nothing or failed before its request was not, not one field; one
\* that the answer does not show as asked was at most written in part.  Of one whose row or
\* whose answer never came nothing is claimed.
VerdictsAreTrue ==
    \A x \in call.results :
        LET written == {w \in log : w.n = x.n}
            inFull  == {w \in written : DOMAIN w.entry = w.sent}
        IN IsPatch(call.ops[x.n]) =>
              /\ x.verdict = "applied" => inFull # {}
              /\ x.verdict \in {"nothing"} \cup Unsent => written = {}
              /\ x.verdict = "unreflected" => inFull = {}

Renames == \E k \in DOMAIN call.ops : ~IsPatch(call.ops[k])

\* The operations that set a field of a transaction.
Setting(t, f) ==
    {n \in DOMAIN call.ops : /\ IsPatch(call.ops[n]) /\ call.ops[n].txn = t
                             /\ f \in DOMAIN call.ops[n].patch}

\* What the patches, applied one after the other, leave in the field.
Sequentially(t, f) ==
    LET last == CHOOSE n \in Setting(t, f) : \A k \in Setting(t, f) : k <= n
    IN IF Setting(t, f) = {} THEN call.start.row[t][f]
       ELSE Asked(f, call.ops[last].patch, payee)

\* MergedIsSequential (mergeMembers: "a caller that sends a field per op gets what
\* sequential patches would have done"): when none of a transaction's patches failed and
\* nobody else changed anything, its row is what the patches make of it one by one, in one
\* write.
MergedIsSequential ==
    /\ OneWrite
    /\ call.pc = "done" /\ ~Renames => \A t \in Txns :
          /\ touched = {}
          /\ \A x \in call.results : call.ops[x.n].txn = t => x.verdict \in {"applied", "nothing"}
          => \A f \in Fields : row[t][f] = Sequentially(t, f)

\* PreWriteOnlyRaced (patchTransactions: "the cache must not outlive that doubt"): a cached
\* row from before a write, answered or not, was fetched by a read the write overtook.
PreWriteOnlyRaced ==
    \A t \in Txns : index[t] # None /\ ~index[t].raced => index[t].row.v >= settled[t]

=============================================================================
