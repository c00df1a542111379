------------------------------ MODULE NodeCache ------------------------------
(***************************************************************************)
(* The read caches of the MCP server (internal/mcp/facet_cache.go,         *)
(* listing_cache.go, lazy_refresh.go, refresh_backoff.go), the background  *)
(* refreshers that keep them current and ForgetSource (resources.go),      *)
(* which a mutate_nodes call runs after its dispatch (mutate_nodes.go).    *)
(*                                                                         *)
(* The two caches share their shape and are indexed by name here.  Each    *)
(* lock of fc.mu / lc.mu is one action, each call to a plugin another.     *)
(*                                                                         *)
(* Abstractions.  The nodes all belong to one source, whose whole content  *)
(* is a version number; a listing, a facet summary and a change token are  *)
(* the version they were taken from (the token is total: RFC 0012 11.1).   *)
(* Partial-listing reports and the freshness label of a served view are    *)
(* left out.                                                               *)
(* Time is counted in refresh intervals: an entry carries its age, capped  *)
(* where no test tells ages apart, in place of computedAt, and the rest of *)
(* its backoff in place of retryAfter.  dirty and lastErr are set and      *)
(* cleared with failures and are read off it.                              *)
(***************************************************************************)
EXTENDS Integers, FiniteSets

CONSTANTS
    Caches,      \* the caches at work, of {"facet", "listing"}
    Uris,        \* cached container URIs, all of one source
    Readers,     \* concurrent read calls
    Versioned,   \* uris whose plugin is a FacetVersioner
    Volatile,    \* uris whose result has a dimension with RevalidateAfter
    Lazy,        \* uris whose scheme is in no_background_refresh
    TTL,         \* facetTTL, in refresh intervals
    Window,      \* revalidateAfter of a volatile result
    MaxBackoff,  \* maxRefreshBackoff
    MaxVersion,  \* bound: how often the source changes
    MaxFaults    \* bound: how many plugin calls of the refreshers fail

ASSUME ConstantsAssumption ==
    /\ Caches \subseteq {"facet", "listing"}
    /\ Versioned \subseteq Uris /\ Volatile \subseteq Uris
    /\ Lazy \subseteq Uris
    /\ TTL \in Nat \ {0} /\ Window \in Nat \ {0} /\ MaxBackoff \in Nat \ {0}
    /\ MaxVersion \in Nat /\ MaxFaults \in Nat

VARIABLES
    data,    \* the source's current version
    cache,   \* fc.entries and lc.entries
    job,     \* the goroutine state of each reader and each refresher
    todo,    \* per cache: uris left in the current refresh pass
    due,     \* per cache: a tick waits in ticker.C
    writer,  \* where the mutate_nodes call is, and the version it wrote
    wrote,   \* version the last answered mutate_nodes call wrote
    faults   \* plugin calls that failed so far

vars == <<data, cache, job, todo, due, writer, wrote, faults>>

Version == 0..MaxVersion
NoToken == -1
Token   == Version \cup {NoToken}

MaxAge == IF TTL > Window THEN TTL ELSE Window
Age    == 0..MaxAge
Older(a) == IF a < MaxAge THEN a + 1 ELSE a

\* failures counts consecutive failed refreshes; past MaxBackoff of them the
\* backoff no longer grows, so the count saturates there.
Failures == 0..MaxBackoff

\* History field raced: the entry's computation was under way while a
\* mutate_nodes call dropped the cache (job.old).
Entry == [val : Version, tok : Token, age : Age, failures : Failures,
          retry : 0..MaxBackoff, raced : BOOLEAN]

None == [val |-> NoToken]

Workers == Readers \cup Caches

\* "token" is about to call tokenFor, "data" the listing or the counts,
\* "store" to replace the entry; a refresher is also at "resolve", "check"
\* (FacetVersion), "verified" and "error" (about to mark the entry).
PC == {"idle", "resolve", "check", "verified", "error", "token", "data",
       "store"}

Job == [pc : PC, cache : Caches, uri : Uris, tok : Token,
        val : Version, age : Age, expired : BOOLEAN, old : BOOLEAN]

NoJob == [pc |-> "idle"]

Writer == [pc : {"idle", "dispatched", "facets", "listings"}, ver : Version]

TypeOK ==
    /\ data \in Version
    /\ cache \in [Caches -> [Uris -> Entry \cup {None}]]
    /\ job \in [Workers -> Job \cup {NoJob}]
    /\ todo \in [Caches -> SUBSET Uris]
    /\ due \in [Caches -> BOOLEAN]
    /\ writer \in Writer
    /\ wrote \in Version
    /\ faults \in 0..MaxFaults

Init ==
    /\ data = 0
    /\ cache = [c \in Caches |-> [u \in Uris |-> None]]
    /\ job = [w \in Workers |-> NoJob]
    /\ todo = [c \in Caches |-> {}]
    /\ due = [c \in Caches |-> FALSE]
    /\ writer = [pc |-> "idle", ver |-> 0]
    /\ wrote = 0
    /\ faults = 0

-----------------------------------------------------------------------------
(* Entries.                                                                 *)

\* refreshBackoff: one interval, doubled per further failure, capped.
Doubled[n \in Nat] == IF n <= 1 THEN 1 ELSE 2 * Doubled[n - 1]

Capped(b) == IF b \in 0..MaxBackoff THEN b ELSE MaxBackoff

Backoff(n) == Capped(Doubled[n])

WindowExpired(u, age) == u \in Volatile /\ age >= Window

StaleForLazyRead(u, age) == u \in Lazy /\ age >= TTL

\* A cached entry is served unless it is lazily refreshed and past the TTL
\* or, for a listing only, its volatile window has lapsed.
Servable(c, u) ==
    /\ cache[c][u] # None
    /\ ~StaleForLazyRead(u, cache[c][u].age)
    /\ ~(c = "listing" /\ WindowExpired(u, cache[c][u].age))

\* The entry a finished computation stores.
NewEntryReread(w, u) ==
    [val |-> job[w].val, tok |-> IF u \in Versioned THEN data ELSE NoToken,
     age |-> 0, failures |-> 0, retry |-> 0, raced |-> job[w].old]

NewEntry(w, u) ==
    [val |-> job[w].val, tok |-> job[w].tok, age |-> 0, failures |-> 0,
     retry |-> 0, raced |-> job[w].old]

-----------------------------------------------------------------------------
(* serve.  A hit changes nothing; what it returns is cache[c][u].           *)

ServeHit(r, c, u) ==
    /\ job[r] = NoJob
    /\ Servable(c, u)
    /\ UNCHANGED vars

ServeMiss(r, c, u) ==
    /\ job[r] = NoJob
    /\ ~Servable(c, u)
    /\ job' = [job EXCEPT ![r] =
                  [pc |-> "token", cache |-> c, uri |-> u, tok |-> NoToken,
                   val |-> 0, age |-> 0, expired |-> FALSE, old |-> FALSE]]
    /\ UNCHANGED <<data, cache, todo, due, writer, wrote, faults>>

-----------------------------------------------------------------------------
(* The computation of computeAndStore and of refreshOne's second half.      *)

\* The job j at its next step; only "resolve" looks at the entry's age.
At(j, pc, tok, val) ==
    [pc |-> pc, cache |-> j.cache, uri |-> j.uri, tok |-> tok, val |-> val,
     age |-> 0, expired |-> FALSE, old |-> j.old]

\* tokenFor: best effort, any failure leaves the entry tokenless.
FetchToken(w) ==
    /\ job[w].pc = "token"
    /\ \/ /\ job' = [job EXCEPT ![w] =
                        At(@, "data", IF job[w].uri \in Versioned THEN data
                                      ELSE NoToken, 0)]
          /\ UNCHANGED faults
       \/ /\ job[w].uri \in Versioned
          /\ faults < MaxFaults
          /\ faults' = faults + 1
          /\ job' = [job EXCEPT ![w] = At(@, "data", NoToken, 0)]
    /\ UNCHANGED <<data, cache, todo, due, writer, wrote>>

FetchDataOk(w) ==
    /\ job[w].pc = "data"
    /\ job' = [job EXCEPT ![w] = At(@, "store", @.tok, data)]
    /\ UNCHANGED <<data, cache, todo, due, writer, wrote, faults>>

\* The plugin call failed: a read hands the error to its caller, a refresh
\* goes on to mark the entry.
FetchDataFail(w) ==
    /\ job[w].pc = "data"
    /\ faults < MaxFaults
    /\ faults' = faults + 1
    /\ job' = [job EXCEPT ![w] =
                  IF w \in Readers THEN NoJob
                  ELSE At(@, "error", NoToken, 0)]
    /\ UNCHANGED <<data, cache, todo, due, writer, wrote>>

\* A facet counter declines the node (ok = false): a read shows no facets, a
\* refresh drops the entry.  CanSummarizeFacets failing in refreshOne does
\* the same.
Decline(w) ==
    /\ job[w].pc \in {"data", "resolve"}
    /\ job[w].cache = "facet"
    /\ faults < MaxFaults
    /\ faults' = faults + 1
    /\ job' = [job EXCEPT ![w] = NoJob]
    /\ cache' = IF w \in Readers THEN cache
                ELSE [cache EXCEPT !["facet"][job[w].uri] = None]
    /\ UNCHANGED <<data, todo, due, writer, wrote>>

\* The later store wins.
Store(w) ==
    LET c == job[w].cache
        u == job[w].uri
        e == NewEntry(w, u)
    IN  /\ job[w].pc = "store"
        /\ cache' = [cache EXCEPT ![c][u] = e]
        /\ job' = [job EXCEPT ![w] = NoJob]
        /\ UNCHANGED <<data, todo, due, writer, wrote, faults>>

-----------------------------------------------------------------------------
(* maintain and refreshOne.                                                 *)

Ticked(e) ==
    [val |-> e.val, tok |-> e.tok, age |-> Older(e.age),
     failures |-> e.failures, retry |-> IF e.retry > 0 THEN e.retry - 1 ELSE 0,
     raced |-> e.raced]

\* One refresh interval passes.  ticker.C holds one tick and drops the rest.
Tick ==
    /\ cache' = [c \in Caches |-> [u \in Uris |->
                    IF cache[c][u] = None THEN None ELSE Ticked(cache[c][u])]]
    /\ job' = [w \in Workers |->
                  IF job[w].pc = "resolve" THEN [job[w] EXCEPT !.age = Older(@)]
                  ELSE job[w]]
    /\ due' = [c \in Caches |-> TRUE]
    /\ UNCHANGED <<data, todo, writer, wrote, faults>>

PassBegin(c) ==
    /\ job[c] = NoJob
    /\ todo[c] = {}
    /\ due[c]
    /\ due' = [due EXCEPT ![c] = FALSE]
    /\ todo' = [todo EXCEPT ![c] = {u \in Uris : cache[c][u] # None}]
    /\ UNCHANGED <<data, cache, job, writer, wrote, faults>>

\* refreshOne returns at once for a lazy uri, a dropped entry and an entry
\* still backing off.
RefreshableOnce(c, u) ==
    u \notin Lazy /\ cache[c][u] # None /\ cache[c][u].failures = 0

Refreshable(c, u) ==
    u \notin Lazy /\ cache[c][u] # None /\ cache[c][u].retry = 0

\* refreshOne's first critical section.
RefreshBegin(c, u) ==
    /\ job[c] = NoJob
    /\ u \in todo[c]
    /\ todo' = [todo EXCEPT ![c] = @ \ {u}]
    /\ job' = IF Refreshable(c, u)
              THEN [job EXCEPT ![c] =
                      [pc |-> "resolve", cache |-> c, uri |-> u,
                       tok |-> cache[c][u].tok, val |-> 0,
                       age |-> cache[c][u].age,
                       expired |-> WindowExpired(u, cache[c][u].age),
                       old |-> FALSE]]
              ELSE job
    /\ UNCHANGED <<data, cache, due, writer, wrote, faults>>

\* A tokened entry inside its window has its token checked, a tokenless one
\* inside the TTL is left alone; everything else is recomputed.
AfterResolve(j) ==
    CASE ~j.expired /\ j.tok # NoToken -> At(j, "check", j.tok, 0)
      [] ~j.expired /\ j.tok = NoToken /\ j.age < TTL -> NoJob
      [] OTHER -> At(j, "token", NoToken, 0)

Resolve(c) ==
    /\ job[c].pc = "resolve"
    /\ \/ /\ job' = [job EXCEPT ![c] = AfterResolve(@)]
          /\ UNCHANGED faults
       \/ /\ faults < MaxFaults
          /\ faults' = faults + 1
          /\ job' = [job EXCEPT ![c] = At(@, "error", NoToken, 0)]
    /\ UNCHANGED <<data, cache, todo, due, writer, wrote>>

CheckToken(c) ==
    /\ job[c].pc = "check"
    /\ \/ /\ job' = [job EXCEPT ![c] =
                        At(@, IF data = job[c].tok THEN "verified"
                              ELSE "token", NoToken, 0)]
          /\ UNCHANGED faults
       \/ /\ faults < MaxFaults
          /\ faults' = faults + 1
          /\ \E pc \in {"error", "token"} :  \* an error, or tokenOK = false
                job' = [job EXCEPT ![c] = At(@, pc, NoToken, 0)]
    /\ UNCHANGED <<data, cache, todo, due, writer, wrote>>

\* The entry e with its failure count and backoff set.
Marked(e, failures, retry) ==
    [val |-> e.val, tok |-> e.tok, age |-> e.age, failures |-> failures,
     retry |-> retry, raced |-> e.raced]

\* markVerified acts on whatever entry is there by now.
MarkVerified(c) ==
    LET u == job[c].uri
    IN  /\ job[c].pc = "verified"
        /\ cache' = IF cache[c][u] = None THEN cache
                    ELSE [cache EXCEPT ![c][u] = Marked(@, 0, 0)]
        /\ job' = [job EXCEPT ![c] = NoJob]
        /\ UNCHANGED <<data, todo, due, writer, wrote, faults>>

\* markError keeps the last good value and backs off.
WithFailure(e) ==
    LET n == IF e.failures < MaxBackoff THEN e.failures + 1 ELSE MaxBackoff
    IN  Marked(e, n, Backoff(n))

MarkError(c) ==
    LET u == job[c].uri
    IN  /\ job[c].pc = "error"
        /\ cache' = IF cache[c][u] = None THEN cache
                    ELSE [cache EXCEPT ![c][u] = WithFailure(@)]
        /\ job' = [job EXCEPT ![c] = NoJob]
        /\ UNCHANGED <<data, todo, due, writer, wrote, faults>>

-----------------------------------------------------------------------------
(* Changes of the source.                                                   *)

\* Someone else changes the source.
ExternalChange ==
    /\ data < MaxVersion
    /\ data' = data + 1
    /\ UNCHANGED <<cache, job, todo, due, writer, wrote, faults>>

\* applyMutateGroup dispatches a batch to the plugin ...
Dispatch ==
    /\ writer.pc = "idle"
    /\ data < MaxVersion
    /\ data' = data + 1
    /\ writer' = [pc |-> "dispatched", ver |-> data + 1]
    /\ UNCHANGED <<cache, job, todo, due, wrote, faults>>

\* dropSource; what is under way in that cache is marked old.
EmptiedFacetsOnly(c) ==
    IF c = "facet" /\ c \in Caches
    THEN [cache EXCEPT ![c] = [u \in Uris |-> None]] ELSE cache

Emptied(c) ==
    IF c \in Caches THEN [cache EXCEPT ![c] = [u \in Uris |-> None]] ELSE cache

Aged(c) ==
    [w \in Workers |-> IF job[w] # NoJob /\ job[w].cache = c
                       THEN [job[w] EXCEPT !.old = TRUE] ELSE job[w]]

\* ... and then, whether or not the batch failed, forgets the source: first
\* the facets, ...
ForgetFacets ==
    /\ writer.pc = "dispatched"
    /\ writer' = [writer EXCEPT !.pc = "facets"]
    /\ cache' = Emptied("facet")
    /\ job' = Aged("facet")
    /\ UNCHANGED <<data, todo, due, wrote, faults>>

\* ... then the listings, ...
ForgetListings ==
    /\ writer.pc = "facets"
    /\ writer' = [writer EXCEPT !.pc = "listings"]
    /\ cache' = Emptied("listing")
    /\ job' = Aged("listing")
    /\ UNCHANGED <<data, todo, due, wrote, faults>>

\* ... and answers its caller.
Answer ==
    /\ writer.pc = "listings"
    /\ writer' = [writer EXCEPT !.pc = "idle"]
    /\ wrote' = writer.ver
    /\ UNCHANGED <<data, cache, job, todo, due, faults>>

-----------------------------------------------------------------------------

Read(r) == \E c \in Caches, u \in Uris : ServeHit(r, c, u) \/ ServeMiss(r, c, u)

Compute(w) ==
    \/ FetchToken(w)
    \/ FetchDataOk(w)
    \/ FetchDataFail(w)
    \/ Decline(w)
    \/ Store(w)

Maintain(c) ==
    \/ PassBegin(c)
    \/ \E u \in Uris : RefreshBegin(c, u)
    \/ Resolve(c)
    \/ CheckToken(c)
    \/ MarkVerified(c)
    \/ MarkError(c)

Write == Dispatch \/ ForgetFacets \/ ForgetListings \/ Answer

Next ==
    \/ \E r \in Readers : Read(r)
    \/ \E w \in Workers : Compute(w)
    \/ \E c \in Caches : Maintain(c)
    \/ Tick
    \/ ExternalChange
    \/ Write

Spec == Init /\ [][Next]_vars

\* Time passes, every plugin call returns (with an answer or an error), the
\* refresher goroutines run, and a mutate_nodes call runs to its end.
Fairness ==
    /\ WF_vars(Tick)
    /\ \A w \in Workers : WF_vars(Compute(w))
    /\ \A c \in Caches : WF_vars(Maintain(c))
    /\ WF_vars(Write /\ writer.pc # "idle")

FairSpec == Spec /\ Fairness

-----------------------------------------------------------------------------
(* Properties.                                                              *)

\* A stored token is never newer than the value stored with it, because
\* tokenFor precedes the fetch.  This is what lets refreshOne take an unmoved
\* token as proof that the value is current.
TokenNotNewer ==
    \A c \in Caches, u \in Uris : cache[c][u] # None =>
        cache[c][u].tok <= cache[c][u].val /\ cache[c][u].val <= data

\* The version a cache must show: that of the last write which dropped it.
Floor(c) ==
    IF writer.pc = "listings" \/ (c = "facet" /\ writer.pc = "facets")
    THEN writer.ver ELSE wrote

\* Pre-write data in a cache was put there by a computation that was already
\* under way when mutate_nodes dropped the cache, and by nothing else
\* (ForgetSource runs after the dispatch, and the caches are dropped whole).
PreWriteOnlyRaced ==
    \A c \in Caches, u \in Uris :
        (cache[c][u] # None /\ ~cache[c][u].raced) => cache[c][u].val >= Floor(c)

\* The refreshers heal the caches: once the source stops changing and plugin
\* calls stop failing, every entry kept by a refresher ends up current for
\* good, through backoff, races of reads and refreshes, and stale stores.
CacheHeals ==
    \A c \in Caches, u \in Uris \ Lazy :
        <>[](cache[c][u] = None \/ cache[c][u].val = data)

-----------------------------------------------------------------------------
\* ForgetSource: "this server's next read sees the write".
ReadSeesWrite ==
    \A c \in Caches, u \in Uris :
        Servable(c, u) => cache[c][u].val >= wrote

=============================================================================
