# cutting-garden in TLA+

TLA+ models of the parts of cutting-garden in which several goroutines,
processes or messages meet, the TLC runs that check them on small instances, and
TLAPS proofs of what holds on every instance. `PROJECT.json` lists the
components, the runs, the source lines behind every definition, the hazards each
property is aimed at, and one plausible bug per property that the run would
catch.

    tlc -workers 2 -config NodeCache.cfg MCNodeCache   # one run
    tlapm NodeCacheProofs.tla                          # one set of proofs

## 1. The system

cutting-garden captures files and remote collections into a content-addressed
blob store, and exposes the same collections as a tree of nodes that can be
listed, queried and written. Its parts:

| part | keeps | operations | talks to | what is hard |
|---|---|---|---|---|
| LocalSend receiver (`internal/serve`) | one session slot, per-file done flags, entries | prepare-upload, upload, cancel, finalize | blob store, captures.log | one goroutine per request, mutex dropped while a body streams, end of process |
| MCP read caches (`internal/mcp/*_cache.go`) | two maps uri -> entry with a change token | read, background refresh, lazy refresh, forget | plugins | fetch outside the lock, two plugin calls per entry, writes in between, failures |
| Wire sessions (`internal/traversal_serve`) | cached session, pending calls, request queue, child process | call, respawn, close; serve, answer, shut down | a plugin process over NDJSON | crash, lost and late replies, blocked writes, racing ends of a session |
| Bulk mutation (`internal/mcp/mutate_nodes.go`, `internal/cutting_garden_plugins/bulk_*.go`) | groups, outcomes, temp ids | build, dispatch, per-op verbs, forget, answer | plugins, linked or wired; the caches | failures in the middle, cancel, a batch that outlives its call |
| Capture sessions (`internal/capture_serve`, `capture_wire`) | blob handles, one outstanding batch | initialize, capture.batch, blob.begin/finish, shutdown | a plugin process, blob store | requests nested in a request, pipes left open, fallback to a one-shot plugin |
| Capture pipeline (`internal/capture`, `capture_failures`, `capture_log`) with the file and git plugins | store groups, failures, journal | plan, walk, fetch, store, write receipts, journal | plugins, blob store, a remote branch | partial failure, kill, a branch rewritten while it is read |
| Organize (`internal/organize`) | an edited document, a ledger of creations | plan, refuse, confirm, create, patch | plugins | three versions of a node, failed and repeated applies |
| Org plugin (`plugins/org`) | nothing; files and locks are on a WebDAV server | edit, capture, delete, move | the server, Orgzly | two files per move, lost answers, expiring locks |
| YNAB plugin (`plugins/ynab`) | caches of rows, payees and categories | bulk patch, rename, read | YNAB's API | merged patches, guards against rows that others change |
| Other plugins (`plugins/*`) | own caches, remote state | list, mutate, capture | CalDAV, JMAP, Jira, external programs | remote state |
| Trellis, facets (`internal/trellis*`, SDK) | nothing | parse, evaluate, count | - | pure |
| Restore, diff, list, failures, health, hooks, config, rendering | nothing shared | sequential commands | - | - |

How they meet. `mutate_nodes` resolves each group's anchor to a plugin; a wired
plugin is a `WirePlugin`, so the group becomes one `Call` of a wire session.
After each dispatch it calls `ForgetSource`, which empties both read caches. The
caches are filled by reads and by their refreshers, both of which call plugins.
The org and YNAB plugins are where such a group ends. Organize reaches the same
plugin verbs node by node. A capture hands each group's roots to plugins, in
process or through a capture session. The LocalSend receiver shares only the
store and the journal with the rest.

## 2. Modules

| module | models | proved in | checked by |
|---|---|---|---|
| `LocalSend` | `internal/serve/localsend.go`, the end of `serve.go` | `LocalSendProofs` | `localsend`, `localsend_ack` |
| `NodeCache` | `internal/mcp/facet_cache.go`, `listing_cache.go`, `lazy_refresh.go`, `refresh_backoff.go`, `ForgetSource` | `NodeCacheProofs` | `cache`, `cache_live` |
| `WireSession` | `internal/traversal_serve/{adapter,launch,peer,server}.go` | `WireSessionProofs` | `wire`, `wire_live` |
| `MutationService` | what `WireSession` promises its callers (abstract) | `WireSessionProofs` (refinement) | the proof |
| `BulkMutate` | `internal/mcp/mutate_nodes.go`, `internal/cutting_garden_plugins/bulk_{mutate,dispatch,progress}.go` | `BulkMutateProofs` | `bulk` |
| `CaptureServe` | `internal/capture_serve`, its caller in `internal/capture_wire` | `CaptureServeProofs` | `capture_serve` |
| `Capture` | `internal/capture`, `capture_failures`, `capture_log`, the captures of `plugins/file` and `plugins/git` | `CaptureProofs` | `capture` |
| `Organize` | `internal/organize`: planners, refusals, gate, ledger, writes | `OrganizeProofs` | `organize` |
| `OrgWrites` | `plugins/org`: edit, capture, delete, move | `OrgWritesProofs` | `org_writes` |
| `YnabWrites` | `plugins/ynab`: bulk and single patches, renames, caches | `BulkMutateProofs` | `ynab_writes` |

The `MC...` modules only declare model values, symmetry sets and the inputs of a
run (command lines, documents, requests). Definitions
with names such as `SettleTwice`, `NewEntryReread` or `CallPeerDoneRetry`, each
just before the definition it is a variant of, are the plausible bugs that
`PROJECT.json` lists under `mutants`; no action uses them.

Throughout, a critical section under a mutex is one action, and what happens
between two of them (a plugin call, a body streaming in, a blocking write) is an
action of its own, so every interleaving the locks permit is a behaviour of the
model.

### LocalSend

`current` is `s.current`; `sess` holds the session structs, also of sessions that
have left the slot, since `finalize` still reads them; `req` is the local state
of each request goroutine. `handleUpload` is `UploadValidate` / `UploadRefuse`
(first critical section), `WriteBlobOk` / `WriteBlobFail` (the body, without the
mutex; nothing makes it end), and `RecordEntry` or `FailFile` (second critical section). The request
that takes `pending` to 0 goes on to `finalize`: `FinalizeEmpty`, `WriteReceipt`,
`AppendLog`. `Signal` and `Exit` are `Serve.Run`'s end: `Shutdown` makes
`http.Server.Serve` return at once, and the process goes down under its
handlers. Session ids and upload tokens are unguessable, so a request presents
the token of the session and file it names. The stateless replies (info,
register), TLS and the directory entries a receipt synthesizes are left out.

### NodeCache

Both caches are one function `cache[c][u]`. All uris belong to one source whose
content is its version number, so a listing, a summary and a token *are* the
version they were taken from: "stale" is a comparison. A read that misses, and
the second half of `refreshOne`, go through `FetchToken`, `FetchDataOk` and
`Store`; a refresher first goes through `PassBegin`, `RefreshBegin`, `Resolve`,
`CheckToken` and ends in `MarkVerified`, `MarkError` or `Store`. Time is counted
in refresh intervals: `Tick` ages entries, winds down backoffs and puts one tick
into each ticker. A write is `Dispatch`, `ForgetFacets`, `ForgetListings`,
`Answer`, with anything in between. `raced` and `old` are history: they mark the
computations that a drop overtook. Plugin calls fail up to `MaxFaults` times.
Partial-listing reports and the freshness label of a view are left out.

### WireSession

Both ends of the RFC 0013 session. On the host: `liveSession` (`Unavailable`,
`UseCached`, `Respawn`, `DialFails`; one action each, since `w.mu` is held
throughout), `Call` (`CallSend`, then `CallReturn`, `CallPeerDone` or
`CallAbandon`), the read loop (`HostRead`, `HostEOF`) and `teardown` step by step
(`CloseNotify`, `CloseStdin`, `ClosePeer`, `CloseReap` / `CloseKill`). In the
plugin: `PRead`, `PReadEnd`, `PServe`, the handler (`PApply`, `PReject`),
`PRespond`, and `Serve`'s select, one action per arm, then `ServeReturn`. The
stream is two bounded queues of lines; a write blocks on a full one and fails on
a closed one. Every operation is a mutation, because those are the ones for
which "applied twice" and "applied but reported as refused" matter. "Applied" here
is "the handler did it": what a verb may have written before it failed is the
matter of `BulkMutate`. Bring-up is one step that succeeds or fails.

### BulkMutate

One `mutate_nodes` call. `Build...` chooses the caller's groups and ops and
applies the checks of `buildMutateGroup` and `BulkRequest.Validate`; `Dispatch`
starts the best-effort loop of a group, whose ops are then applied by the `Op...`
actions, one per verb and result of `ApplyBulkOp`. A verb that fails may have done
its write all the same: `bulk_dispatch.go:81-89` records the error and
asks no further (`OpFails` wrote nothing, `OpFailsLate` did), and `OrgWrites` and `YnabWrites` are plugins whose verbs fail after
a write that landed. `Result`, `ReplyLost` and
`DispatchRefused` turn what the dispatch returned into a `mutateGroupView`;
`Forget` is `forgetWrittenSource`; `Answer` the end of `callMutateNodes`. For a
linked plugin the loop is the call's own; for a wired one it runs in the plugin
process, which serves one request at a time, does not see the call's
cancellation, and may outlive the call: the call gives the reply up when it is
cancelled (`ReplyLost`), when the process dies (`PluginCrash`), or when the stream
breaks although the process lives on and works the batch off (`StreamBreaks`;
`broken`, until the next request to that plugin finds the session dead and reaps
the child). A source maps addresses to node
identities: a create takes a fresh one, a move changes the address, so
"the op reached the node its temp id stands for" can be said. `effects` records
what was really written and is what the answers are compared with.

### MutationService

The contract of a call: it takes effect at most once, is answered with what
happened, refused before anything happened, or lost.
It is stated for the reader and proved to be implemented; on a small instance it
says no more than `AtMostOnce` and `OutcomeIsTrue`, so no run checks it. `WireSession` implements it
under the mapping at its end: an operation's effect is `done`, the outcome the
caller got is its status.

### CaptureServe

One `capture` of `capture_wire`: bring-up, `initialize`, the batch, shutdown and
reaping, or the one-shot path when the plugin has no v2. Both ends are in it.
While the batch is outstanding the plugin calls `Begin`, streams a node through a
pipe (`PCopy`; drained by a goroutine of the host into the store) and calls
`Finish`, whose handler waits for the commit. Any read may break off, any commit
may be refused, the plugin may crash or ignore everything, its `BatchFunc` may fail with
the code of a refused handshake (`BatchRefuses`), and the context may
be cancelled at any point.

### Capture

One invocation after another over the same stores and journal: `Start`,
`planCapture` (one argument per step) and `PlanEnd` are argument planning,
`BeginGroup` the group loop; `CaptureRoot`, `WalkEntry` and `WalkDone` are the
file plugin; `CaptureProtocol`, `listRemoteTip`,
`fetchBranchInto`, `cloneBranchToMemory`, `StoreObjects` and `writeGitReceipt`
the git plugin with its prior receipt; `WriteReceipt` and `RecordFailures` end a
group, `Finish` appends the journal (`logged` says whether it could), `Exit` decides the exit code. A blob is its
content. `Push` moves or rewrites the branch, `Signal` cancels, `Crash` kills. The
default store has no name an argument could use, a root is a directory or a git
remote, and a walk meets a name once.

### Organize

`Init` chooses a document: the generated lines with up to `MaxEdits` edits, and
boxes to create. `Apply` is everything up to the diff (`MakePlan`, one operator
per planner), `ResolveRefusals` and `ReviewGate` the decisions, then `Create` and
`Record` alternate, and `WriteOne` executes memberships, moves and field edits in
the code's order. The plan is a set of creations and a set of writes; which one is
next is `Due`, from the order the document and the planners give. `Crash` and failures leave the document behind, with the
landed ids rewritten in interactive mode, and it is applied again. Bucket and
clock are two halves of one stored property, which is the case the collision
check is for. `Drift` is another client.

### OrgWrites

Processes on one WebDAV account. A write is `Lock` (in path order), `Get`,
`GetDst`, `Put`, `Reread` after a lost answer, `Unlock`, `Verify`. A PUT that
times out is in `flight` and may land at any later time, if the server still
accepts its token. Locks expire, processes die, and Orgzly uploads whole files it
read earlier.

### YnabWrites

A bulk call: `Classify` per operation (renames are carried out here),
`OpenGroup` resolves a group's budget, `MergeMember` folds one more patch into the
first of its transaction, `ClaimMember` claims one merged member, `FreshListing`
and `Straggler` read what the guards are to see, `PlanMember` is
`planTransactionPatch`, `Send` and `Settle` the request and the check of its
answer. Of a request YNAB may save any part, field by field, and its answer may lack
rows, or never come; `verify` (`write.go:373-406`) tells a transaction the answer
lacks ("unconfirmed") from one it shows without what was asked ("unreflected"). The Go loops over a group's members are taken one member per step, which
is what makes the module provable without induction over sequences; nothing they
touch is shared. Reads by other goroutines fetch and store in two steps.
`Reconcile`, `Delete`, `NamePayee` and `HideCategory` are somebody working in
YNAB's app. Names such as `YnabInit` and `VerdictsAreTrue` differ from those of
`BulkMutate` because one module holds the proofs of both.

## 3. What is checked

### Safety and liveness that hold

`localsend` (3 requests, 2 files of which one has a refused name, 2 sessions;
178,868 states). Three requests are what two racing uploads of one file and a
cancel need, two sessions what an upload that outlives its session needs.

- `PendingExact`: the counter that releases the slot is exact under races and
  failures. (`SlotNotWedged`, that the slot always has an upload left that frees
  it, is proved.)
- `EntriesSound`: an entry was recorded by an upload that named that session and
  that file, once per file.
- `ReceiptsExact`: one finalizer per session, one receipt with exactly what was
  received, no journal line without a receipt.
- `ClosedSessionFrozen`: no step writes to a session after it left the slot,
  which is why `finalize` may read it without the mutex.
- `AttemptedSessionSettles`: once every file left has an upload under way, the
  slot is released and all requests end, unless a sender keeps its body open for
  ever: `http.Server` has no `ReadTimeout` (`serve.go:165`), and the session of a
  sender that stalls keeps the slot until somebody cancels it.

`cache` (both caches, 1 uri, 1 reader, 2 versions; 3.35 million states).

- `TokenNotNewer`: a token is never newer than the value beside it; without it
  an unmoved token would vouch for old data for ever.
- `PreWriteOnlyRaced`: after a write, pre-write data is back in a cache only if
  a computation was under way when the cache was dropped.

`cache_live` (the facet cache with a versioned volatile and a lazy tokenless
uri, one change, three failing calls, a backoff capped at 3; 745,640 states). With
these the delay 1, 2, 4 is really cut off at the cap.

- `CacheHeals`: every entry a refresher keeps ends up current for good, also
  after late stores, failures and a backoff that has reached its cap.

`wire` (2 operations, 2 sessions, queue depth 1, one line buffered per
direction, one fault; 4.7 million states). Depth and buffer are at their
smallest, so that every blocking case happens; two sessions are what a replaced
session and a late answer need.

- `AtMostOnce`: no operation is applied twice across crashes, broken framing,
  respawns and abandoned calls.
- `OutcomeIsTrue`: ok means the handler did it, rejected or unavailable that it did
  not.
- `NoLeakedChild`: every running child is the cached session's or is in teardown.
- `ShutdownIsClean`: `Serve` ends cleanly after a handled shutdown whichever arm
  of its select won, and only a plugin that cancels on stdin EOF may miss one.

`wire_live` (3 operations, 1 session, queue depth 1, one line per direction, one
crash; 348,857 states). Three operations are what fills both the queue and the stream
over a hung handler: one in the handler, one queued, one on the line. They are
interchangeable, so only behaviours in which they leave the host in the order of
their names are looked at (`OrderedFairSpec`).

- `CallReturns`: a call that was written returns if handlers return.
- `ClosedChildEnds`: `Close` ends even over a handler that never returns, unless its
  shutdown line stays blocked for ever (`ShutdownBlocked`): `Close` writes it before
  it arms the grace (`launch.go:242`). Without this exception TLC has a behaviour of
  12 steps in which the child is never killed.

`bulk` (every call of up to 3 ops in 2 groups over a linked and a wired plugin,
2 temp ids, 3 addresses, one mishap: a cancel, a dead process or a broken stream;
9.86 million states, temp ids symmetric). Three ops are the shortest create / move /
use of a temp id and the shortest create / create below it / use. The ops are
creates, patches (which may move a node) and deletes; a put takes the same steps as
a patch that lands (`NodeWritten`).

- `ReportIsTrue`: one outcome per op, in order; applied or deleted means the source
  was written, skipped, not found and "patched nothing" that it was not; of an op
  whose verb failed nothing is claimed, since nothing is known. A malformed group
  anywhere means nothing was written.
- `TempIdsHold`: an op by temp id touches the node that id's create made and
  reported, or nothing. The dependents of a create that failed do not run, whether
  or not it left a node behind.
- `WritesForgotten`: the caches are forgotten after every write the call made or may
  have made. The exception is a wired batch the call walked away from while its
  process lived on: because the call was cancelled, or because the stream broke and
  nothing has been sent to that plugin since. Both exceptions are met; without
  either one TLC finds the stale cache.
- `SourceOrder`: writes to a source are in request order, also when a group is
  dispatched behind one the call gave up on.

`capture_serve` (2 captures of 2 nodes, two faults, a cancel, any error of the
batch; 86,777 states).

- `ReceiptIsComplete`: a reported receipt has all its nodes stored, each from a
  complete stream, although the host also commits truncated ones.
- `NoSilentRetry`: once the batch was asked for the one-shot path does not run,
  wherever the session breaks off. The exception is a `BatchFunc` that itself fails
  with the code of a refused handshake, which `IsFallbackSignal` cannot tell apart
  (`fallback.go:30-37`); that case is in the run.
- `CleanEnd`: no child is left, and a batch that went well is not failed by the way
  the session ends.
- `CancelledReturns`, `CaptureReturns`: a cancelled capture returns whatever the
  plugin does; with a working plugin every capture returns.

`capture` (2 invocations of 12 command lines, 2 stores, 3 directories, a branch
with 3 commits, two pushes, two faults). Two invocations are what a prior receipt
needs, three commits what a rewritten branch needs, and two pushes what it takes to
move the branch once after the prior receipt and once more between the listing and
the fetch; 9.85 million states.

- `ReceiptsComplete`: a git receipt lists exactly what its tip reaches, also when
  incremental and when the branch was rewritten between listing and fetching, and
  every receipt's blobs are in its store.
- `JournalSound`: a journal line never names what is not stored.
- `FailuresAccounted`: a reported failure is in a failure receipt that is in the
  store or the spill, unless neither would take it (`capture.go:796-802`); the exit
  code tells of it in any case; and once the journal was appended, its lines lead to
  every stored failure receipt and carry the outcome of a spilled one whose group has
  a receipt. A lost one leaves a line that looks clean: `EmptyOutcomeIsClean` below.
- `OkMeansCaptured`: exit 0 means everything asked for was captured, into the
  store that was asked for.

`organize` (2 nodes, 2 edits, 7 lists of boxes with twins among them, 3 kinds of
plugin, one drift, two faults, three applies; 6.74 million states).

- `CommitIsMerge`: a committed apply is the three-way merge.
- `NothingElseWritten`: one that failed half way wrote nothing else and never over
  somebody else's value; a preview, refusal or decline wrote nothing.
- `BoxesCreatedOnce`: through failed and repeated applies every box becomes one
  object: nothing is created twice but by the one known gap (a create whose record
  was lost, in a plugin without keys), and after an apply that went through each box
  has an object, the rewritten one that of its id, and two bare boxes of one content
  two. The exception is a twin of a box that was rewritten alone (`Overtaken`): it is
  counted anew, and its object may be the rewritten one's (`BareBoxesAreOwn` below).

`org_writes` (2 processes, 2 files, 2 operations of 8, one Orgzly upload, two
faults; 1.6 million states, processes symmetric).

- `NoCollateral`: a step of the plugin changes one headline and reverts nothing,
  late PUTs and expired locks included.
- `NeverInNeither`: a move never leaves its headline in no file.
- `AtMostOnce`: no increment twice, and no captured headline twice in a file, unless
  somebody asked to move it to another one (an interrupted move, moved again, leaves
  two).
- `ReportIsTrue`: refused means nothing was or will be written, written means
  written, lost has a cause. A move that reports the headline in both files need not
  have written the destination itself: the re-read after a lost answer also accepts
  another move's write of the same content.
- `NoCircularWait`: moves in opposite directions do not wait for each other.

`ynab_writes` (8 bulk calls, 3 transactions, 3 payees, one outside change, two
reads, two faults; 2.08 million states). A fault is a request that fails, is lost, is
saved in part, or is answered without some of its transactions.

- `GuardsHold`: every write respects the guards on the row it is written over,
  unless YNAB's app changed that row during the call; no rename takes a name in
  use.
- `MergedIsSequential`: merged patches give what the sequence would have given,
  in one write per transaction, also through two spellings of the budget.
- `VerdictsAreTrue`: applied means that every field sent was written; an operation
  that changes nothing or failed before its request wrote no field; one the answer
  does not show as asked was at most written in part. Of one whose answer, or whose
  row in it, never came nothing is claimed: it may be written, in full or in part.
- `PreWriteOnlyRaced`: an old row is only cached by a read the write overtook.

Every module has a `TypeOK` (`YnabTypeOK` in `YnabWrites`). All are proved; to check
one on its run, add it to the `.cfg` as an `INVARIANT`.

Bounds (`MaxSession`, `MaxVersion`, `MaxFaults`, `MaxSpawn`, `MaxCrash`,
`MaxAddr`, `MaxGroups`, `MaxOps`, `MaxRuns`, `MaxPushes`, `MaxEdits`, `MaxDrift`,
`MaxApplies`, `MaxMishaps`, `OpKinds`, `MaxSyncs`, `MaxChanges`, `MaxReads`) only limit how often something new happens.
`CHECK_DEADLOCK FALSE` stands where the system may stop: a receiver with its
requests answered, a closed host, an answered call, a document that will not be
applied again. The caches always have a tick to come; `CaptureServe`, `OrgWrites`
and `YnabWrites` end in a `Done` step, so that a deadlock would be seen.

### Disagreements between text and code

The run `localsend_ack` checks one property quoted from the repository, which TLC
refutes; `PROJECT.json` quotes the lines. The others are stated in their modules
and refuted when the property is added to the `.cfg` named here.

| property | to reproduce | what happens |
|---|---|---|
| `LocalSend!AckedFileIsKept` | run `localsend_ack` | two uploads of one file: the first fails, the second finds the file settled and answers 200; the file is in no receipt |
| `LocalSend!SignalledSessionHasReceipt` | `LocalSend.cfg` | FDR 0011 promises a receipt when the process is signalled (0011-localsend-serve.md:76); `Run` never finalizes the session |
| `NodeCache!ReadSeesWrite` | `NodeCache.cfg` | a fetch from before the write is stored after `ForgetSource`, and the next read serves it |
| `WireSession!ClosedChildEnds` without `[]ShutdownBlocked(s)` | `WireSessionLive.cfg` | hung handler, full queue, full stream: the shutdown line blocks before the grace is armed, so the child is never killed (launch.go:242) |
| `BulkMutate!NothingAppliedIsTrue` | `BulkMutate.cfg` | the reply of a wired group is lost; the call answers "nothing was applied" although the plugin applied the batch |
| `BulkMutate!FailedDidNotApply` | `BulkMutate.cfg` | a failed outcome is said to mean "the op did not apply, or was never attempted" (bulk_mutate.go:142-143); a verb can fail after its write landed |
| `CaptureServe!BatchErrorIsFinal` | `CaptureServe.cfg` | "a batch error ... MUST NOT silently retry on v1" (fallback.go:27, RFC 0008:372); a `BatchFunc` that fails with the code of a refused handshake is captured again on the one-shot path |
| `Organize!BareBoxesAreOwn` | `Organize.cfg` | of two bare boxes of one content, the second is never created once an interactive apply failed between them: the first is rewritten to its id, the second becomes occurrence #1, whose key the ledger has (ledger.go:166) |
| `Capture!EmptyOutcomeIsClean` | `Capture.cfg` | `capture_log.go:39` says the outcome is empty for a clean capture; it is also empty when both writes of the failure receipt failed (capture.go:796) |
| `Capture!PriorIsFound` | `Capture.cfg` with `ArgLists <- MCPriorArgs` | the line of a group that mixes a git root and a directory hides the git root's own line, so the next capture clones in full (0006-git-plugin.md:120 says it is incremental) |

With the shipped queue depth and a socket buffer it takes that many more calls to
block the shutdown line.

Smaller ones met while modelling and carried by no run:

- `listing_cache.go:93-95` says the token served with a listing "MUST correspond
  to the nodes"; the token is fetched before the nodes, so it may be older than
  they are. That order is the safe one: `TokenNotNewer` depends on it.
- `refreshOne` of the listing cache rebuilds an entry without the partial-listing
  reports that `computeAndStore` records (`listing_cache.go:324`, `:200`).
- `createdURI` resolves a temp id to the address of its create even after a patch
  in the same batch moved the node; the op then fails. `TempIdsHold` shows that
  it at least never reaches another node.
- A cancelled call still dispatches its later groups to wired plugins, and a
  wired plugin never reports single outcomes to the call's progress log.
- `peer.go:175-179` says "a graceful shutdown never abandons a pipelined
  request"; the host closes the stream right behind the shutdown line
  (`launch.go:242-246`), so the handler is cancelled or its answer is lost.
- `capture_serve`: after a copy error the handle stays open, so every later
  `blob.begin` of the batch is refused.
- RFC 0015:835 calls convergent edits no-ops; `planMoves` treats a node that
  already has the new value as a conflict, so a document whose move landed before
  a failure is refused when it is applied again. Drift that arrives between the
  plan and the write is overwritten (`stale` in `Organize`).
- Arguments that cannot be classified and leave no group are reported but
  recorded nowhere (`capture.go:558`).
- `docs/features/0001-restore.md:55` says nothing is partially materialized;
  `materializeEntries` leaves a partial tree when it fails.
- LocalSend: a sender that stalls in the middle of a body holds the one slot, and
  every later prepare-upload gets 409, until some client cancels the session.
- YNAB: when the answer shows only some of an entry's fields as asked, the operation
  is reported failed and its error names the first field that was not taken
  (`write.go:387-406`); that the others were written is not said.
- Org: when two processes append to one body, the first one's read-back compares
  the whole body and reports its change as lost to a concurrent sync, although
  its increment is there (`edit.go:360`, `:372`).
- YNAB: when one field of a merged patch is refused, nothing of the merge is
  written and only the first of its ops is reported failed, against "as applying
  them one after another would have done" (`bulk_mutate.go:266`). Renames are
  carried out before all patches, so a patch that names a payee sees later
  renames. Categories come from a cache up to a minute old.
- CalDAV: a patch is a GET and a PUT with `If-Match: *` (`client.go:624`), so a
  change made in between is overwritten.

### Fairness

Only what the Go runtime and the code give:

- LocalSend: a handler that waits for nobody goes on until it answers (`WF` of
  `HandlerStep` per request). Nothing makes a body end (`BodyEnds` has no fairness),
  and nobody is obliged to send a request, a cancel or a signal.
- NodeCache: time passes, every plugin call returns with an answer or an error,
  the refreshers run, and a write that was dispatched runs to its end. Reads,
  writes and outside changes are not forced. Failures are limited by `MaxFaults`
  and versions by `MaxVersion`: this is the "plugin calls stop failing, the
  source is quiet" of `CacheHeals`.
- WireSession: goroutines and processes run when they can. Nothing makes a
  handler return or empties a full stream; `CallReturns` assumes the former
  (`HandlersReturn`), `ClosedChildEnds` does not.
- CaptureServe: the host's goroutines run, and the kill after the grace works.
  Only `CaptureReturns` assumes that the plugin does its work (`PluginFairness`).

## 4. What is proved

For every value of the constants, with no bound on requests, files, sessions,
uris, readers, processes or faults. The only assumptions are each module's
`ConstantsAssumption` (`CaptureAssumption`, `OrgAssumption`, `YnabAssumption`), for
instance that file sets are finite, that the windows and the backoff are at least one
interval, that the ids a capture draws are not among those of the account's files, or
that a request is a sequence of operations; TLC evaluates them in the runs too.

`LocalSendProofs`: `TypeCorrect`, `PendingIsExact`, `SlotIsNotWedged`,
`EntriesAreSound`, `ReceiptsAreExact`, and the action property
`ClosedSessionIsFrozen`. The properties are not inductive: between its two
critical sections a goroutine holds a session id and a file, and nothing in the
properties says they are real. `Bookkeeping` adds that: ids in flight were
issued, the file was declared and has a safe name, the recorder of an entry is
past recording it, and a request about to journal has its receipt. `SettleLemma`
holds the one argument about cardinalities (removing an unsettled file lowers
the count by one, and it was the last exactly when `pending` was 1). There is
one lemma per action, and `SettledInv` is shared by the two that settle a file.

`NodeCacheProofs`: `TypeCorrect`, `TokensAreNotNewer`, `OnlyRacesServePreWrite`.
The properties speak of stored entries; `JobsSound` says the same of what a
computation carries towards its store: its token is no newer than the source
when the data is still to be fetched, no newer than the value afterwards, and
unless a drop overtook it, the value is at least the last write's. `WritesPast`
(a write is never ahead of the source) is what makes a fetch after a drop new
enough. `JobStep` and `EntryStep` reduce a step that changes one job or one entry
to that job or entry.

`WireSessionProofs`: `TypeCorrect`, `AppliedAtMostOnce`, `OutcomesAreTrue`,
`NoChildLeaks`, `ShutdownsAreClean` and the refinement
`SessionsImplementService`. The argument is about where a request can be. A call
writes one request, whose id is new; line, queue and handler keep ids in order
(`Ordered`, `Below`). So `PipeSound` can say that a request waiting anywhere has
not been applied, and that once the answer is on its way back nothing of the
request is left behind it (`Passed`); `CallSound` carries that to the caller, and
`CallsDistinct` keeps the answer of one call from another. The end of a session
needs what `Serve`'s arms know (`ServeSound`: a shutdown line that was told is
handled, queued or on the line, unless the plugin cancels on stdin). The
refinement then takes one step lemma per action: each is one step of
`MutationService` or none, since a call's status changes in one place and
`applied` only from 0 and only while its status is open or lost.

`BulkMutateProofs`: `TypeCorrect`, `ReportsAreTrue`, `TempIdsAreHeld`,
`WrittenSourcesForgotten` and the action property `SourceOrderHolds`. A reply that
is given up leaves a loop running behind the call, so the invariant speaks of
every group. `OutcomesTrue` ties each outcome to what its op wrote, as far as the
status claims anything: a failed op may have landed or not, and the proof holds for
both. `LeftRunning` and `WritesInTurn` say which loops may still run (those of wired
groups that were given up while the process lived on, after a cancel or over a
broken stream) and that a running loop has the writes to its source to itself.
`UnseenSound` says which writes the caches have not seen: those of the group at hand,
or of a loop left running; where the broken session was replaced since, it was for
the group at hand, after which the source is forgotten. `CreatedSound` says that a
created address holds the node its create made or none, which is what a temp id is
resolved by.

`CaptureServeProofs`: `TypeCorrect`, `ReceiptsAreComplete`, `SessionsEndWell` and
`NoBatchIsRepeated`, all for any plugin, also one whose `BatchFunc` fails with the code
of a refused handshake. The host believes the plugin's ids
without a look at the handle, so completeness rests on the plugin having one
call outstanding: `CallsInOnePlace` (on its way, at the host or on its way back) and
`CallsAwaited` (it is the one the batch handler waits for). For the one-shot path
`HandshakeSound` says that whatever may still lead to it is a batch not yet asked for,
unless the `BatchFunc` refused: the answer to `initialize` is alone on the line, and
after it no other "unsupported" can come.

`CaptureProofs`: `TypeCorrect`, `ReceiptsAreComplete`, `JournalIsSound`,
`FailuresAreAccounted`, `OkMeansAllCaptured`. The properties speak of what is in
the stores, the journal and the exit code; the invariant follows each on its way
there. `GitSound` says of a git capture under way that its objects are those the
tip reaches and that the ones outside the delta are in the store already;
`LinesSound` that the lines waiting to be journalled lead to receipts that are in
their store; `FailuresHeld`, `FailuresFiledSoFar` and `LinesLead` that a reported
failure is in the group's list, then in a failure receipt that is in place or was
given up with a notice, and then named by a line; `LogSound` that after an append that
went through the journal ends with exactly those lines, which carries it from the
lines to the journal itself; `PlanSound`, `PlanCovers` and `CaptureSound` that without
a failure every argument met so far is planned in the store named before it, and every
root passed so far captured there.

`OrganizeProofs`: `TypeCorrect`, `CommitsAreMerges`, `NothingElseIsWritten`,
`BoxesAreCreatedOnce`. `PlanFacts` says which writes a plan has for a node, in
terms of its line, the base and the node as it was planned; `Exact` that the node
is as planned but for the writes that were made, unless somebody else changed it.
With no write left to do that is the merge. For creations, `ObjectsKnown` says
that an object is in the ledger, is being recorded, or its record was lost, and
`CreationsSound` that nothing recorded is planned and every box without an id has its
object or its creation; `ObjectsSound` and `LedgerSound` tie keys to the boxes they
were made of, and a rewritten box to the object of its id. When the creations are
done every box has an object, and two bare boxes of one content that are both
rewritten or both not have two: their ids differ, or the occurrence in their keys
does.

`OrgWritesProofs`: `TypeCorrect`, `NeverInNeitherHolds`, `AtMostOnceHolds`,
`ReportsAreTrue`, `NoCircularWaitHolds` and the action property
`NoCollateralHolds`. A server accepts a PUT if its sender's lock is still there,
however late it comes, so the argument starts with locks: a token is drawn once and
granted once (`TokensSound`), a file is written once under it (`OneRequest`), and
as long as the lock is there the file is what was read but for the PUT's own
headline (`Pending`). That is `NoCollateral`. For `NeverInNeither`, `NoneLost` says
that every headline is in a file from which no PUT that would be accepted takes it
away; the second PUT of a move counts only if the destination is still as its first
PUT left it. For `AtMostOnce` and the reports, `ContentsSound` follows every
content, in a file, in Orgzly's copy, with a process or on its way: it holds an
increment once and a captured headline once, and before a PUT of an operation has
landed only its own contents show it. `CountSound` and `MovesSound` are what makes
"in both files" true although a re-read decides it: the destination has more of the
headline than at first, so some PUT about it landed. `BasicStep`, and one lemma
per action under `NextKinds`, reduce `Next` to fourteen kinds of step; each conjunct
is then proved over those.

`BulkMutateProofs` also holds the proofs about `YnabWrites`, where a bulk call of
patches ends: `YnabTypeCorrect`, `GuardsAlwaysHold`, `VerdictsAlwaysTrue`,
`MergesAreSequential`, `OnlyRacedRowsAreOld`. The inductive invariant `YnabInv` has
three layers. `Structure` says where an operation is: in one group or one queue of
the call, once, and what is merged, claimed or planned has one member per
transaction. That is why a claimed transaction is written once. `ReadsHold`,
`ListHolds` and `BatchHolds` follow a row from its fresh read through the plan to
the request: as long as the app left the row alone it is still the one that was
read, so the guards it passed hold where it is written; what the app did is a
reconciliation or a deletion, which is why the entries still differ from the row
except in `cleared` (`AsRead`). `AnswerHolds` (of the transactions an answer has,
it shows those entries as asked that were written in full, and no others) makes
`verify` a test of what happened, whatever part of the request was saved and whichever
rows the answer lacks: `IsPart` says that what is saved of a transaction is part of its
entry, and an entry differs from the row in every field, so one left out shows. From
that `VerdictsAreTrue` follows. For `MergedIsSequential`, `NothingLost` accounts for
every field an operation asks for while nobody else changes anything and none of
the transaction's operations failed: it is waiting, or merged with the value the
last operation gave it, or planned, or sent with an answer that lacks it or will be
found wrong, or in the row; and a field that differs from the start of the call was asked for.
When the call is done only the row is left. `LastsHold` (of the operations passed so
far that set a field one is the last) is there because the existence of a greatest
element would need induction. `CacheHolds` is a separate, smaller argument: a read
in flight carries rows no older than the writes that were over when it began
(`ReaderHolds`), so only a read that a write overtook can store an old one.

Only model-checked, and why:

- all liveness (`AttemptedSessionSettles`, `CacheHeals`, `CallReturns`,
  `ClosedChildEnds`, `CancelledReturns`, `CaptureReturns`): fairness and `ENABLED`
  are beyond the prover;
- what the recursive function of `NodeCache` computes for every input: the backoff
  beyond its cap.

## 5. What is not modelled

`PROJECT.json` gives the reason for each component. In short: formats, parsing,
rendering, configuration and commands have no state that two actors share; the
trellis evaluator and the facet folds are pure; the other plugins are clients
without retries, locks or guards of their own, and appear as something that
answers, changes or fails. That is most of the repository's lines.

Inside the modelled components: the bring-up of a session is one step; plugins
with transactions of their own (atomic batches) are left out of `BulkMutate`, and
partial-listing reports out of `NodeCache`; `Organize` has a single-valued
dimension, one clock atom and tags, not memberships grouped by a multi-valued
dimension; `OrgWrites` and `YnabWrites` leave out listing, searching and facets, except
for the reads that fill YNAB's caches; packing of a store and restore are left out of
`Capture`.

## 6. What is left

The models are complete as far as they are planned, and every safety property a run
checks is a theorem. What is left is what the prover cannot do (the liveness
properties, above) and the components listed in section 5.
