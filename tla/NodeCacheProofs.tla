-------------------------- MODULE NodeCacheProofs --------------------------
(***************************************************************************)
(* Proofs about NodeCache, for any uris, readers, bounds and choice of     *)
(* versioned, volatile and lazy uris.                                      *)
(*                                                                         *)
(* The properties speak of stored entries; what makes them inductive is    *)
(* what a computation carries before it is stored (JobSound): its token    *)
(* was taken no later than its value, and unless the cache was dropped     *)
(* under it, its value is no older than the last write that dropped it.    *)
(***************************************************************************)
EXTENDS NodeCache, TLAPS

\* What a stored entry e of cache c and a computation j have in common: the
\* token is no newer than the value, and the value no older than the last
\* write that dropped the cache, unless that drop overtook the computation.
EntrySound(c, e) ==
    /\ e.tok <= e.val
    /\ e.val <= data
    /\ e.raced \/ Floor(c) <= e.val

JobSound(j) ==
    /\ j.pc = "data" => j.tok <= data
    /\ j.pc = "store" => /\ j.tok <= j.val
                         /\ j.val <= data
                         /\ j.old \/ Floor(j.cache) <= j.val

JobsSound == \A w \in Workers : JobSound(job[w])

\* A write never gets ahead of the source.
WritesPast == writer.ver <= data /\ wrote <= data

IInv == TypeOK /\ TokenNotNewer /\ PreWriteOnlyRaced /\ JobsSound /\ WritesPast

-----------------------------------------------------------------------------
(* Types.                                                                   *)

LEMMA ActiveJob ==
    ASSUME TypeOK, NEW w \in Workers, job[w].pc # "idle"
    PROVE  job[w] \in Job /\ job[w] # NoJob
BY DEF TypeOK, NoJob

LEMMA StoredEntry ==
    ASSUME TypeOK, NEW c \in Caches, NEW u \in Uris, cache[c][u] # None
    PROVE  cache[c][u] \in Entry
BY DEF TypeOK

\* refreshBackoff stays within its cap, whatever the doubling yields.
LEMMA BackoffBounded ==
    ASSUME NEW n
    PROVE  Backoff(n) \in 0..MaxBackoff
BY ConstantsAssumption DEF Backoff, Capped

\* markError: a failure marks an entry and keeps its value.
LEMMA FailureTyped ==
    ASSUME NEW e \in Entry
    PROVE  /\ WithFailure(e) \in Entry
           /\ WithFailure(e).val = e.val
           /\ WithFailure(e).tok = e.tok
           /\ WithFailure(e).raced = e.raced
<1> DEFINE n == IF e.failures < MaxBackoff THEN e.failures + 1 ELSE MaxBackoff
<1>1. n \in Failures
  BY ConstantsAssumption DEF Entry, Failures
<1>2. Backoff(n) \in 0..MaxBackoff
  BY BackoffBounded
<1>3. WithFailure(e) = Marked(e, n, Backoff(n))
  BY DEF WithFailure
<1> HIDE DEF n
<1> QED
  BY <1>1, <1>2, <1>3 DEF Entry, Marked

LEMMA AgeTyped ==
    ASSUME NEW a \in Age
    PROVE  Older(a) \in Age
BY ConstantsAssumption DEF Age, Older, MaxAge

LEMMA ZeroAge == 0 \in Age
BY ConstantsAssumption DEF Age, MaxAge

LEMMA ZeroVersion == 0 \in Version
BY ConstantsAssumption DEF Version

LEMMA AtTyped ==
    ASSUME NEW j \in Job, NEW pc \in PC, NEW tok \in Token, NEW val \in Version
    PROVE  At(j, pc, tok, val) \in Job
BY ZeroAge DEF At, Job

LEMMA CellTyped ==
    ASSUME TypeOK, NEW c \in Caches, NEW u \in Uris,
           NEW e \in Entry \cup {None}
    PROVE  [cache EXCEPT ![c][u] = e]
               \in [Caches -> [Uris -> Entry \cup {None}]]
<1> DEFINE E == Entry \cup {None}
<1>1. cache \in [Caches -> [Uris -> E]] /\ e \in E
  BY DEF TypeOK
<1> HIDE DEF E
<1>2. [cache EXCEPT ![c][u] = e] \in [Caches -> [Uris -> E]]
  BY <1>1
<1> QED
  BY <1>2 DEF E

LEMMA WorkerTyped ==
    ASSUME TypeOK, NEW w \in Workers, NEW j \in Job \cup {NoJob}
    PROVE  [job EXCEPT ![w] = j] \in [Workers -> Job \cup {NoJob}]
<1> DEFINE J == Job \cup {NoJob}
<1>1. job \in [Workers -> J] /\ j \in J
  BY DEF TypeOK
<1> HIDE DEF J
<1>2. [job EXCEPT ![w] = j] \in [Workers -> J]
  BY <1>1
<1> QED
  BY <1>2 DEF J

-----------------------------------------------------------------------------
(* The two ways a step touches one cell, and what each has to show.         *)

\* A step that only changes one worker's job.
LEMMA JobStep ==
    ASSUME IInv, UNCHANGED <<data, cache, writer, wrote>>,
           NEW w \in Workers, NEW j \in Job \cup {NoJob}, JobSound(j),
           job' = [job EXCEPT ![w] = j]
    PROVE  /\ job' \in [Workers -> Job \cup {NoJob}]
           /\ TokenNotNewer' /\ PreWriteOnlyRaced' /\ JobsSound' /\ WritesPast'
<1>1. job' \in [Workers -> Job \cup {NoJob}]
  BY WorkerTyped DEF IInv
<1>2. TokenNotNewer' /\ PreWriteOnlyRaced' /\ WritesPast'
  BY DEF IInv, TokenNotNewer, PreWriteOnlyRaced, WritesPast, Floor
<1>3. ASSUME NEW v \in Workers
      PROVE  JobSound(job[v])'
  <2>1. JobSound(job'[v])
    BY DEF IInv, TypeOK, JobsSound
  <2> QED
    BY <2>1 DEF JobSound, Floor
<1> QED
  BY <1>1, <1>2, <1>3 DEF JobsSound

\* A step that ends a worker's job and replaces one entry.
LEMMA EntryStep ==
    ASSUME IInv, UNCHANGED <<data, writer, wrote>>,
           NEW w \in Workers, job' = [job EXCEPT ![w] = NoJob],
           NEW c \in Caches, NEW u \in Uris, NEW e \in Entry \cup {None},
           e # None => EntrySound(c, e),
           cache' = [cache EXCEPT ![c][u] = e]
    PROVE  /\ job' \in [Workers -> Job \cup {NoJob}]
           /\ cache' \in [Caches -> [Uris -> Entry \cup {None}]]
           /\ TokenNotNewer' /\ PreWriteOnlyRaced' /\ JobsSound' /\ WritesPast'
<1>1. job' \in [Workers -> Job \cup {NoJob}]
  BY WorkerTyped DEF IInv
<1>2. cache' \in [Caches -> [Uris -> Entry \cup {None}]]
  BY CellTyped DEF IInv
<1>3. JobsSound' /\ WritesPast'
  <2>1. ASSUME NEW v \in Workers
        PROVE  JobSound(job[v])'
    <3>1. JobSound(job'[v])
      BY DEF IInv, TypeOK, JobsSound, JobSound, NoJob
    <3> QED
      BY <3>1 DEF JobSound, Floor
  <2> QED
    BY <2>1 DEF IInv, JobsSound, WritesPast
<1>4. ASSUME NEW d \in Caches, NEW v \in Uris, cache'[d][v] # None
      PROVE  /\ cache'[d][v].tok <= cache'[d][v].val
             /\ cache'[d][v].val <= data
             /\ cache'[d][v].raced \/ Floor(d) <= cache'[d][v].val
  <2>1. CASE d = c /\ v = u
    <3>1. cache'[d][v] = e
      BY <2>1 DEF IInv, TypeOK
    <3> QED
      BY <1>4, <3>1, <2>1 DEF EntrySound
  <2>2. CASE ~(d = c /\ v = u)
    <3>1. cache'[d][v] = cache[d][v]
      BY <2>2 DEF IInv, TypeOK
    <3>2. cache[d][v] \in Entry
      BY <1>4, <3>1, StoredEntry DEF IInv
    <3>3. Floor(d) \in Version
      BY DEF IInv, TypeOK, Writer, Floor
    <3> QED
      BY <1>4, <3>1, <3>2, <3>3
         DEF IInv, TokenNotNewer, PreWriteOnlyRaced, Entry, Version
  <2> QED
    BY <2>1, <2>2
<1>5. \A d \in Caches : Floor(d)' = Floor(d) /\ Floor(d) \in Version
  BY DEF Floor, IInv, TypeOK, Writer
<1>6. ASSUME NEW d \in Caches, NEW v \in Uris, cache'[d][v] # None
      PROVE  cache'[d][v] \in Entry
  BY <1>2, <1>6
<1>7. TokenNotNewer'
  BY <1>4 DEF TokenNotNewer, None
<1>8. PreWriteOnlyRaced'
  BY <1>4, <1>5, <1>6 DEF PreWriteOnlyRaced, None, Entry, Version
<1> QED
  BY <1>1, <1>2, <1>3, <1>7, <1>8

-----------------------------------------------------------------------------
(* The steps.                                                               *)

\* What every state of IInv gives a step.
LEMMA Facts ==
    ASSUME IInv
    PROVE  /\ TypeOK
           /\ data \in Version /\ wrote \in Version /\ writer.ver \in Version
           /\ Version \subseteq Int /\ Version \subseteq Token
           /\ NoToken \in Token /\ 0 \in Version
           /\ \A v \in Version : NoToken <= v
           /\ \A c \in Caches : Floor(c) \in Version /\ Floor(c) <= data
BY ZeroVersion
   DEF IInv, TypeOK, Writer, Floor, WritesPast, Version, Token, NoToken

LEMMA IdleSound == JobSound(NoJob)
BY DEF JobSound, NoJob

\* serve, on a miss.
LEMMA ServeMissStep ==
    ASSUME IInv, NEW r \in Readers, NEW c \in Caches, NEW u \in Uris,
           ServeMiss(r, c, u)
    PROVE  IInv'
<1> DEFINE j == [pc |-> "token", cache |-> c, uri |-> u, tok |-> NoToken,
                 val |-> 0, age |-> 0, expired |-> FALSE, old |-> FALSE]
<1>1. j \in Job
  BY Facts, ZeroAge DEF Job, PC
<1>2. JobSound(j)
  BY DEF JobSound
<1>3. job' = [job EXCEPT ![r] = j] /\ r \in Workers
  BY DEF ServeMiss, Workers
<1>4. UNCHANGED <<data, cache, writer, wrote>>
  BY DEF ServeMiss
<1> HIDE DEF j
<1>5. job' \in [Workers -> Job \cup {NoJob}]
      /\ TokenNotNewer' /\ PreWriteOnlyRaced' /\ JobsSound' /\ WritesPast'
  BY <1>1, <1>2, <1>3, <1>4, JobStep
<1> QED
  BY <1>5 DEF IInv, TypeOK, ServeMiss

\* tokenFor.
LEMMA FetchTokenStep ==
    ASSUME IInv, NEW w \in Workers, FetchToken(w)
    PROVE  IInv'
<1>1. job[w] \in Job
  BY ActiveJob DEF FetchToken, IInv
<1>2. PICK t \in Token : /\ t <= data
                         /\ job' = [job EXCEPT ![w] = At(job[w], "data", t, 0)]
  BY Facts DEF FetchToken
<1> DEFINE j == At(job[w], "data", t, 0)
<1>3. j \in Job
  BY <1>1, Facts, AtTyped DEF PC
<1>4. JobSound(j)
  BY <1>2 DEF JobSound, At
<1>5. UNCHANGED <<data, cache, writer, wrote>>
  BY DEF FetchToken
<1>6. job' = [job EXCEPT ![w] = j]
  BY <1>2
<1> HIDE DEF j
<1>7. job' \in [Workers -> Job \cup {NoJob}]
      /\ TokenNotNewer' /\ PreWriteOnlyRaced' /\ JobsSound' /\ WritesPast'
  BY <1>3, <1>4, <1>5, <1>6, JobStep
<1>8. faults' \in 0..MaxFaults
  BY ConstantsAssumption DEF FetchToken, IInv, TypeOK
<1> QED
  BY <1>7, <1>8 DEF IInv, TypeOK, FetchToken

\* The plugin returns the listing or the counts: they are as new as anything.
LEMMA FetchDataOkStep ==
    ASSUME IInv, NEW w \in Workers, FetchDataOk(w)
    PROVE  IInv'
<1>1. job[w] \in Job /\ job[w].pc = "data"
  BY ActiveJob DEF FetchDataOk, IInv
<1> DEFINE j == At(job[w], "store", job[w].tok, data)
<1>2. j \in Job
  BY <1>1, Facts, AtTyped DEF PC, Job
<1>3. JobSound(j)
  <2>1. job[w].tok <= data /\ job[w].cache \in Caches
    BY <1>1 DEF IInv, JobsSound, JobSound, Job
  <2> QED
    BY <2>1, Facts DEF JobSound, At, Version
<1>4. UNCHANGED <<data, cache, writer, wrote>> /\ job' = [job EXCEPT ![w] = j]
  BY DEF FetchDataOk
<1> HIDE DEF j
<1>5. job' \in [Workers -> Job \cup {NoJob}]
      /\ TokenNotNewer' /\ PreWriteOnlyRaced' /\ JobsSound' /\ WritesPast'
  BY <1>2, <1>3, <1>4, JobStep
<1> QED
  BY <1>5 DEF IInv, TypeOK, FetchDataOk

\* The plugin fails.
LEMMA FetchDataFailStep ==
    ASSUME IInv, NEW w \in Workers, FetchDataFail(w)
    PROVE  IInv'
<1>1. job[w] \in Job
  BY ActiveJob DEF FetchDataFail, IInv
<1>2. PICK j \in Job \cup {NoJob} :
         JobSound(j) /\ job' = [job EXCEPT ![w] = j]
  <2>1. At(job[w], "error", NoToken, 0) \in Job
    BY <1>1, Facts, AtTyped DEF PC
  <2>2. JobSound(At(job[w], "error", NoToken, 0))
    BY DEF JobSound, At
  <2> QED
    BY <2>1, <2>2, IdleSound DEF FetchDataFail
<1>3. UNCHANGED <<data, cache, writer, wrote>>
  BY DEF FetchDataFail
<1>4. job' \in [Workers -> Job \cup {NoJob}]
      /\ TokenNotNewer' /\ PreWriteOnlyRaced' /\ JobsSound' /\ WritesPast'
  BY <1>2, <1>3, JobStep
<1>5. faults' \in 0..MaxFaults
  BY ConstantsAssumption DEF FetchDataFail, IInv, TypeOK
<1> QED
  BY <1>4, <1>5 DEF IInv, TypeOK, FetchDataFail

\* A facet counter declines.
LEMMA DeclineStep ==
    ASSUME IInv, NEW w \in Workers, Decline(w)
    PROVE  IInv'
<1>1. job[w] \in Job
  BY ActiveJob DEF Decline, IInv
<1>2. job' = [job EXCEPT ![w] = NoJob] /\ UNCHANGED <<data, writer, wrote>>
  BY DEF Decline
<1>3. faults' \in 0..MaxFaults
  BY ConstantsAssumption DEF Decline, IInv, TypeOK
<1>4. CASE w \in Readers
  <2>1. cache' = cache
    BY <1>4 DEF Decline
  <2>2. job' \in [Workers -> Job \cup {NoJob}]
        /\ TokenNotNewer' /\ PreWriteOnlyRaced' /\ JobsSound' /\ WritesPast'
    BY <1>2, <2>1, IdleSound, JobStep
  <2> QED
    BY <1>3, <2>1, <2>2 DEF IInv, TypeOK, Decline
<1>5. CASE w \notin Readers
  <2>1. job[w].uri \in Uris /\ "facet" \in Caches
    BY <1>1 DEF Decline, Job
  <2>2. cache' = [cache EXCEPT !["facet"][job[w].uri] = None]
    BY <1>5 DEF Decline
  <2>3. /\ job' \in [Workers -> Job \cup {NoJob}]
        /\ cache' \in [Caches -> [Uris -> Entry \cup {None}]]
        /\ TokenNotNewer' /\ PreWriteOnlyRaced' /\ JobsSound' /\ WritesPast'
    BY <1>2, <2>1, <2>2, EntryStep
  <2> QED
    BY <1>3, <2>3 DEF IInv, TypeOK, Decline
<1> QED
  BY <1>4, <1>5

\* The entry is stored: what was sound in the job is sound in the cache.
LEMMA StoreStep ==
    ASSUME IInv, NEW w \in Workers, Store(w)
    PROVE  IInv'
<1> DEFINE e == NewEntry(w, job[w].uri)
<1>1. job[w] \in Job /\ job[w].pc = "store"
  BY ActiveJob DEF Store, IInv
<1>2. job[w].cache \in Caches /\ job[w].uri \in Uris
  BY <1>1 DEF Job
<1>3. e \in Entry
  BY <1>1, ZeroAge, ConstantsAssumption DEF NewEntry, Entry, Job, Failures
<1>4. EntrySound(job[w].cache, e)
  BY <1>1 DEF EntrySound, NewEntry, IInv, JobsSound, JobSound
<1>5. /\ cache' = [cache EXCEPT ![job[w].cache][job[w].uri] = e]
      /\ job' = [job EXCEPT ![w] = NoJob]
      /\ UNCHANGED <<data, writer, wrote>>
  BY DEF Store
<1> HIDE DEF e
<1>6. /\ job' \in [Workers -> Job \cup {NoJob}]
      /\ cache' \in [Caches -> [Uris -> Entry \cup {None}]]
      /\ TokenNotNewer' /\ PreWriteOnlyRaced' /\ JobsSound' /\ WritesPast'
  BY <1>2, <1>3, <1>4, <1>5, EntryStep
<1> QED
  BY <1>6 DEF IInv, TypeOK, Store

\* Time passes: ages and backoffs change, values do not.
LEMMA TickStep ==
    ASSUME IInv, Tick
    PROVE  IInv'
<1>1. UNCHANGED <<data, writer, wrote>>
  BY DEF Tick
<1>2. ASSUME NEW c \in Caches, NEW u \in Uris
      PROVE  IF cache[c][u] = None THEN cache'[c][u] = None
             ELSE /\ cache'[c][u] \in Entry
                  /\ cache[c][u] \in Entry
                  /\ cache'[c][u].val = cache[c][u].val
                  /\ cache'[c][u].tok = cache[c][u].tok
                  /\ cache'[c][u].raced = cache[c][u].raced
  <2>1. cache'[c][u] = IF cache[c][u] = None THEN None ELSE Ticked(cache[c][u])
    BY DEF Tick
  <2>2. ASSUME NEW e \in Entry
        PROVE  Ticked(e) \in Entry
    <3>1. Older(e.age) \in Age
      BY AgeTyped DEF Entry
    <3>2. (IF e.retry > 0 THEN e.retry - 1 ELSE 0) \in 0..MaxBackoff
      BY ConstantsAssumption DEF Entry
    <3> QED
      BY <3>1, <3>2 DEF Ticked, Entry
  <2> QED
    BY <2>1, <2>2, StoredEntry DEF IInv, Ticked
<1>3. cache' \in [Caches -> [Uris -> Entry \cup {None}]]
  <2>1. ASSUME NEW c \in Caches, NEW u \in Uris
        PROVE  (IF cache[c][u] = None THEN None ELSE Ticked(cache[c][u]))
                   \in Entry \cup {None}
    <3>1. cache'[c][u] \in Entry \cup {None}
      BY <1>2
    <3> QED
      BY <3>1 DEF Tick
  <2> DEFINE E == Entry \cup {None}
             F(c, u) == IF cache[c][u] = None THEN None ELSE Ticked(cache[c][u])
  <2>2. cache' = [c \in Caches |-> [u \in Uris |-> F(c, u)]]
    BY DEF Tick
  <2>3. \A c \in Caches, u \in Uris : F(c, u) \in E
    BY <2>1
  <2> HIDE DEF E, F
  <2>4. cache' \in [Caches -> [Uris -> E]]
    BY <2>2, <2>3
  <2> QED
    BY <2>4 DEF E
<1>4. \A c \in Caches : Floor(c)' = Floor(c)
  BY <1>1 DEF Floor
<1>5. TokenNotNewer' /\ PreWriteOnlyRaced' /\ WritesPast'
  BY <1>1, <1>2, <1>4
     DEF IInv, TokenNotNewer, PreWriteOnlyRaced, WritesPast
<1>6. ASSUME NEW w \in Workers
      PROVE  job'[w] \in Job \cup {NoJob} /\ JobSound(job[w])'
  <2>1. CASE job[w].pc = "resolve"
    <3>1. job[w] \in Job
      BY <2>1, ActiveJob DEF IInv
    <3>2. job'[w] = [job[w] EXCEPT !.age = Older(job[w].age)]
      BY <2>1 DEF Tick
    <3>3. Older(job[w].age) \in Age
      BY <3>1, AgeTyped DEF Job
    <3> QED
      BY <2>1, <3>1, <3>2, <3>3 DEF Job, JobSound
  <2>2. CASE job[w].pc # "resolve"
    <3>1. job'[w] = job[w]
      BY <2>2 DEF Tick
    <3>2. JobSound(job'[w]) /\ job'[w] \in Job \cup {NoJob}
      BY <3>1 DEF IInv, JobsSound, TypeOK
    <3> QED
      BY <1>1, <3>2 DEF JobSound, Floor
  <2> QED
    BY <2>1, <2>2
<1>7. job' \in [Workers -> Job \cup {NoJob}]
  BY <1>6 DEF Tick
<1> QED
  BY <1>1, <1>3, <1>5, <1>6, <1>7 DEF IInv, TypeOK, Tick, JobsSound

\* A refresh pass snapshots the uris.
LEMMA PassBeginStep ==
    ASSUME IInv, NEW c \in Caches, PassBegin(c)
    PROVE  IInv'
<1>1. UNCHANGED <<data, cache, job, writer, wrote, faults>>
  BY DEF PassBegin
<1>2. TokenNotNewer' /\ PreWriteOnlyRaced' /\ JobsSound' /\ WritesPast'
  BY <1>1 DEF IInv, TokenNotNewer, PreWriteOnlyRaced, JobsSound, JobSound,
              WritesPast, Floor
<1>3. due' \in [Caches -> BOOLEAN] /\ todo' \in [Caches -> SUBSET Uris]
  BY DEF PassBegin, IInv, TypeOK
<1> QED
  BY <1>1, <1>2, <1>3 DEF IInv, TypeOK

\* refreshOne's first critical section.
LEMMA RefreshBeginStep ==
    ASSUME IInv, NEW c \in Caches, NEW u \in Uris, RefreshBegin(c, u)
    PROVE  IInv'
<1>1. UNCHANGED <<data, cache, due, writer, wrote, faults>> /\ c \in Workers
  BY DEF RefreshBegin, Workers
<1>2. todo' \in [Caches -> SUBSET Uris]
  BY DEF RefreshBegin, IInv, TypeOK
<1>3. PICK j \in Job \cup {NoJob} :
         JobSound(j) /\ job' = [job EXCEPT ![c] = j]
  <2>1. CASE Refreshable(c, u)
    <3> DEFINE j == [pc |-> "resolve", cache |-> c, uri |-> u,
                     tok |-> cache[c][u].tok, val |-> 0,
                     age |-> cache[c][u].age,
                     expired |-> WindowExpired(u, cache[c][u].age),
                     old |-> FALSE]
    <3>1. cache[c][u] \in Entry
      BY <2>1, StoredEntry DEF Refreshable, IInv
    <3>2. WindowExpired(u, cache[c][u].age) \in BOOLEAN
      BY DEF WindowExpired
    <3>3. cache[c][u].tok \in Token /\ cache[c][u].age \in Age
      BY <3>1 DEF Entry
    <3>4. j \in Job
      BY <3>2, <3>3, Facts DEF Job, PC
    <3>5. JobSound(j)
      BY DEF JobSound
    <3>6. job' = [job EXCEPT ![c] = j]
      BY <2>1 DEF RefreshBegin
    <3> HIDE DEF j
    <3> QED
      BY <3>4, <3>5, <3>6
  <2>2. CASE ~Refreshable(c, u)
    <3>1. job' = job /\ job[c] = NoJob
      BY <2>2 DEF RefreshBegin
    <3>2. job' = [job EXCEPT ![c] = NoJob]
      BY <1>1, <3>1 DEF IInv, TypeOK
    <3> QED
      BY <3>2, IdleSound
  <2> QED
    BY <2>1, <2>2
<1>4. job' \in [Workers -> Job \cup {NoJob}]
      /\ TokenNotNewer' /\ PreWriteOnlyRaced' /\ JobsSound' /\ WritesPast'
  BY <1>1, <1>3, JobStep
<1> QED
  BY <1>1, <1>2, <1>4 DEF IInv, TypeOK

\* refreshOne has resolved the uri, or failed to.
LEMMA ResolveStep ==
    ASSUME IInv, NEW c \in Caches, Resolve(c)
    PROVE  IInv'
<1>1. UNCHANGED <<data, cache, todo, due, writer, wrote>> /\ c \in Workers
  BY DEF Resolve, Workers
<1>2. job[c] \in Job
  BY <1>1, ActiveJob DEF Resolve, IInv
<1>3. PICK j \in Job \cup {NoJob} :
         JobSound(j) /\ job' = [job EXCEPT ![c] = j]
  <2>1. /\ At(job[c], "error", NoToken, 0) \in Job
        /\ At(job[c], "token", NoToken, 0) \in Job
        /\ At(job[c], "check", job[c].tok, 0) \in Job
    BY <1>2, Facts, AtTyped DEF PC, Job
  <2>2. /\ JobSound(At(job[c], "error", NoToken, 0))
        /\ JobSound(At(job[c], "token", NoToken, 0))
        /\ JobSound(At(job[c], "check", job[c].tok, 0))
    BY DEF JobSound, At
  <2>3. AfterResolve(job[c]) \in {NoJob, At(job[c], "token", NoToken, 0),
                                  At(job[c], "check", job[c].tok, 0)}
    BY DEF AfterResolve
  <2> QED
    BY <2>1, <2>2, <2>3, IdleSound DEF Resolve
<1>4. job' \in [Workers -> Job \cup {NoJob}]
      /\ TokenNotNewer' /\ PreWriteOnlyRaced' /\ JobsSound' /\ WritesPast'
  BY <1>1, <1>3, JobStep
<1>5. faults' \in 0..MaxFaults
  BY ConstantsAssumption DEF Resolve, IInv, TypeOK
<1> QED
  BY <1>1, <1>4, <1>5 DEF IInv, TypeOK

\* refreshOne has compared the token.
LEMMA CheckTokenStep ==
    ASSUME IInv, NEW c \in Caches, CheckToken(c)
    PROVE  IInv'
<1>1. UNCHANGED <<data, cache, todo, due, writer, wrote>> /\ c \in Workers
  BY DEF CheckToken, Workers
<1>2. job[c] \in Job
  BY <1>1, ActiveJob DEF CheckToken, IInv
<1>3. PICK pc \in {"verified", "token", "error"} :
         job' = [job EXCEPT ![c] = At(job[c], pc, NoToken, 0)]
  BY DEF CheckToken
<1>4. At(job[c], pc, NoToken, 0) \in Job
  BY <1>2, Facts, AtTyped DEF PC
<1>5. JobSound(At(job[c], pc, NoToken, 0))
  BY <1>3 DEF JobSound, At
<1>6. job' \in [Workers -> Job \cup {NoJob}]
      /\ TokenNotNewer' /\ PreWriteOnlyRaced' /\ JobsSound' /\ WritesPast'
  BY <1>1, <1>3, <1>4, <1>5, JobStep
<1>7. faults' \in 0..MaxFaults
  BY ConstantsAssumption DEF CheckToken, IInv, TypeOK
<1> QED
  BY <1>1, <1>6, <1>7 DEF IInv, TypeOK

\* An entry re-marked with its own value, token and history stays sound.
LEMMA MarkStep ==
    ASSUME IInv, NEW c \in Caches, NEW u \in Uris, cache[c][u] # None,
           NEW e \in Entry, e.val = cache[c][u].val, e.tok = cache[c][u].tok,
           e.raced = cache[c][u].raced
    PROVE  EntrySound(c, e)
<1>1. cache[c][u] \in Entry
  BY StoredEntry DEF IInv
<1> QED
  BY <1>1, Facts DEF IInv, TokenNotNewer, PreWriteOnlyRaced, EntrySound,
                     Entry, Version

LEMMA MarkVerifiedStep ==
    ASSUME IInv, NEW c \in Caches, MarkVerified(c)
    PROVE  IInv'
<1> DEFINE u == job[c].uri
<1>1. /\ UNCHANGED <<data, todo, due, writer, wrote, faults>>
      /\ c \in Workers /\ job' = [job EXCEPT ![c] = NoJob]
  BY DEF MarkVerified, Workers
<1>2. u \in Uris
  BY <1>1, ActiveJob DEF MarkVerified, IInv, Job
<1>3. CASE cache[c][u] = None
  <2>1. cache' = cache
    BY <1>3 DEF MarkVerified
  <2>2. job' \in [Workers -> Job \cup {NoJob}]
        /\ TokenNotNewer' /\ PreWriteOnlyRaced' /\ JobsSound' /\ WritesPast'
    BY <1>1, <2>1, IdleSound, JobStep
  <2> QED
    BY <1>1, <2>1, <2>2 DEF IInv, TypeOK
<1>4. CASE cache[c][u] # None
  <2> DEFINE e == Marked(cache[c][u], 0, 0)
  <2>1. cache[c][u] \in Entry
    BY <1>2, <1>4, StoredEntry DEF IInv
  <2>2. e \in Entry
    BY <2>1, ConstantsAssumption DEF Marked, Entry, Failures
  <2>3. EntrySound(c, e)
    BY <1>2, <1>4, <2>2, MarkStep DEF Marked
  <2>4. cache' = [cache EXCEPT ![c][u] = e]
    BY <1>4 DEF MarkVerified
  <2> HIDE DEF e
  <2>5. /\ job' \in [Workers -> Job \cup {NoJob}]
        /\ cache' \in [Caches -> [Uris -> Entry \cup {None}]]
        /\ TokenNotNewer' /\ PreWriteOnlyRaced' /\ JobsSound' /\ WritesPast'
    BY <1>1, <1>2, <2>2, <2>3, <2>4, EntryStep
  <2> QED
    BY <1>1, <2>5 DEF IInv, TypeOK
<1> QED
  BY <1>3, <1>4

LEMMA MarkErrorStep ==
    ASSUME IInv, NEW c \in Caches, MarkError(c)
    PROVE  IInv'
<1> DEFINE u == job[c].uri
<1>1. /\ UNCHANGED <<data, todo, due, writer, wrote, faults>>
      /\ c \in Workers /\ job' = [job EXCEPT ![c] = NoJob]
  BY DEF MarkError, Workers
<1>2. u \in Uris
  BY <1>1, ActiveJob DEF MarkError, IInv, Job
<1>3. CASE cache[c][u] = None
  <2>1. cache' = cache
    BY <1>3 DEF MarkError
  <2>2. job' \in [Workers -> Job \cup {NoJob}]
        /\ TokenNotNewer' /\ PreWriteOnlyRaced' /\ JobsSound' /\ WritesPast'
    BY <1>1, <2>1, IdleSound, JobStep
  <2> QED
    BY <1>1, <2>1, <2>2 DEF IInv, TypeOK
<1>4. CASE cache[c][u] # None
  <2> DEFINE e == WithFailure(cache[c][u])
  <2>1. cache[c][u] \in Entry
    BY <1>2, <1>4, StoredEntry DEF IInv
  <2>2. /\ e \in Entry /\ e.val = cache[c][u].val
        /\ e.tok = cache[c][u].tok /\ e.raced = cache[c][u].raced
    BY <2>1, FailureTyped
  <2>3. cache' = [cache EXCEPT ![c][u] = e]
    BY <1>4 DEF MarkError
  <2> HIDE DEF e
  <2>4. EntrySound(c, e)
    BY <1>2, <1>4, <2>2, MarkStep
  <2>5. /\ job' \in [Workers -> Job \cup {NoJob}]
        /\ cache' \in [Caches -> [Uris -> Entry \cup {None}]]
        /\ TokenNotNewer' /\ PreWriteOnlyRaced' /\ JobsSound' /\ WritesPast'
    BY <1>1, <1>2, <2>2, <2>3, <2>4, EntryStep
  <2> QED
    BY <1>1, <2>5 DEF IInv, TypeOK
<1> QED
  BY <1>3, <1>4

\* The source changes and no cache's floor moves: data was at least every
\* value before and is so after.
LEMMA SourceStep ==
    ASSUME IInv, UNCHANGED <<cache, job, wrote>>, data' \in Version,
           data <= data', writer' \in Writer, writer'.ver <= data',
           \A c \in Caches : Floor(c)' = Floor(c)
    PROVE  TokenNotNewer' /\ PreWriteOnlyRaced' /\ JobsSound' /\ WritesPast'
<1>1. TokenNotNewer'
  <2>1. ASSUME NEW c \in Caches, NEW u \in Uris, cache[c][u] # None
        PROVE  cache[c][u].tok <= cache[c][u].val /\ cache[c][u].val <= data'
    <3>1. cache[c][u] \in Entry
      BY <2>1, StoredEntry DEF IInv
    <3> QED
      BY <2>1, <3>1, Facts DEF IInv, TokenNotNewer, Entry, Version
  <2> QED
    BY <2>1 DEF TokenNotNewer, None
<1>2. PreWriteOnlyRaced'
  BY DEF IInv, PreWriteOnlyRaced, None
<1>3. ASSUME NEW w \in Workers
      PROVE  JobSound(job[w])'
  <2>1. CASE job[w].pc \in {"data", "store"}
    <3>1. job[w] \in Job
      BY <2>1, ActiveJob DEF IInv
    <3>2. job[w].cache \in Caches /\ job[w].tok \in Int /\ job[w].val \in Int
      BY <3>1, Facts DEF Job, Version, Token, NoToken
    <3>3. JobSound(job[w])
      BY DEF IInv, JobsSound
    <3> QED
      BY <3>2, <3>3, Facts DEF JobSound, Version
  <2>2. CASE job[w].pc \notin {"data", "store"}
    BY <2>2 DEF JobSound
  <2> QED
    BY <2>1, <2>2
<1>4. WritesPast'
  BY Facts DEF IInv, WritesPast, Version
<1> QED
  BY <1>1, <1>2, <1>3, <1>4 DEF JobsSound

LEMMA ExternalChangeStep ==
    ASSUME IInv, ExternalChange
    PROVE  IInv'
<1>1. /\ UNCHANGED <<cache, job, todo, due, writer, wrote, faults>>
      /\ data' \in Version /\ data <= data'
  BY ConstantsAssumption, Facts DEF ExternalChange, Version
<1>2. writer' \in Writer /\ writer'.ver <= data'
  BY <1>1, Facts DEF IInv, TypeOK, WritesPast, Version
<1>3. \A c \in Caches : Floor(c)' = Floor(c)
  BY <1>1 DEF Floor
<1>4. TokenNotNewer' /\ PreWriteOnlyRaced' /\ JobsSound' /\ WritesPast'
  BY <1>1, <1>2, <1>3, SourceStep
<1> QED
  BY <1>1, <1>4 DEF IInv, TypeOK

\* The dispatch: the write is in the source, the caches are still up.
LEMMA DispatchStep ==
    ASSUME IInv, Dispatch
    PROVE  IInv'
<1>1. /\ UNCHANGED <<cache, job, todo, due, wrote, faults>>
      /\ data' \in Version /\ data <= data'
  BY ConstantsAssumption, Facts DEF Dispatch, Version
<1>2. writer' \in Writer /\ writer'.ver <= data'
  BY <1>1 DEF Dispatch, Writer, Version
<1>3. \A c \in Caches : Floor(c)' = Floor(c)
  BY <1>1 DEF Floor, Dispatch
<1>4. TokenNotNewer' /\ PreWriteOnlyRaced' /\ JobsSound' /\ WritesPast'
  BY <1>1, <1>2, <1>3, SourceStep
<1> QED
  BY <1>1, <1>2, <1>4 DEF IInv, TypeOK

\* The answer: every cache has been dropped by now, so no floor moves.
LEMMA AnswerStep ==
    ASSUME IInv, Answer
    PROVE  IInv'
<1>1. UNCHANGED <<data, cache, job, todo, due, faults>>
  BY DEF Answer
<1>2. /\ wrote' = writer.ver /\ writer'.ver = writer.ver
      /\ writer' \in Writer /\ wrote' \in Version
  BY Facts DEF Answer, IInv, TypeOK, Writer
<1>3. \A c : Floor(c)' = Floor(c)
  BY DEF Floor, Answer, IInv, TypeOK, Writer
<1>4. TokenNotNewer' /\ PreWriteOnlyRaced' /\ WritesPast'
  BY <1>1, <1>2, <1>3 DEF IInv, TokenNotNewer, PreWriteOnlyRaced, WritesPast
<1>5. JobsSound'
  BY <1>1, <1>3 DEF IInv, JobsSound, JobSound
<1> QED
  BY <1>1, <1>2, <1>4, <1>5 DEF IInv, TypeOK

\* dropSource on cache d raises the floor of d and of no other cache: d is
\* emptied and what is under way in d is marked.
LEMMA DropStep ==
    ASSUME IInv, NEW d, cache' = Emptied(d), job' = Aged(d),
           UNCHANGED <<data, todo, due, wrote, faults>>,
           writer' \in Writer, writer'.ver = writer.ver,
           \A c \in Caches \ {d} : Floor(c)' = Floor(c)
    PROVE  IInv'
<1>1. /\ cache' \in [Caches -> [Uris -> Entry \cup {None}]]
      /\ \A u \in Uris : d \in Caches => cache'[d][u] = None
      /\ \A c \in Caches \ {d} : cache'[c] = cache[c]
  <2> DEFINE E == Entry \cup {None}
  <2>1. cache \in [Caches -> [Uris -> E]] /\ None \in E
    BY DEF IInv, TypeOK
  <2> HIDE DEF E
  <2>2. [u \in Uris |-> None] \in [Uris -> E]
    BY <2>1
  <2>3. /\ cache' \in [Caches -> [Uris -> E]]
        /\ \A u \in Uris : d \in Caches => cache'[d][u] = None
        /\ \A c \in Caches \ {d} : cache'[c] = cache[c]
    BY <2>1, <2>2 DEF Emptied
  <2> QED
    BY <2>3 DEF E
<1>2. TokenNotNewer'
  BY <1>1 DEF IInv, TokenNotNewer, None
<1>3. PreWriteOnlyRaced'
  BY <1>1 DEF IInv, PreWriteOnlyRaced, None
<1>4. WritesPast'
  BY DEF IInv, WritesPast
<1>5. ASSUME NEW w \in Workers
      PROVE  job'[w] \in Job \cup {NoJob} /\ JobSound(job[w])'
  <2>1. CASE job[w] # NoJob /\ job[w].cache = d
    <3>1. job[w] \in Job /\ job'[w] = [job[w] EXCEPT !.old = TRUE]
      BY <2>1 DEF Aged, IInv, TypeOK
    <3>2. JobSound(job[w])
      BY DEF IInv, JobsSound
    <3> QED
      BY <3>1, <3>2 DEF Job, JobSound
  <2>2. CASE job[w] = NoJob
    BY <2>2 DEF Aged, NoJob, JobSound
  <2>3. CASE job[w] # NoJob /\ job[w].cache # d
    <3>1. job[w] \in Job /\ job'[w] = job[w]
      BY <2>3 DEF Aged, IInv, TypeOK
    <3>2. JobSound(job[w]) /\ job[w].cache \in Caches \ {d}
      BY <2>3, <3>1 DEF IInv, JobsSound, Job
    <3> QED
      BY <3>1, <3>2 DEF JobSound
  <2> QED
    BY <2>1, <2>2, <2>3
<1>6. job' \in [Workers -> Job \cup {NoJob}]
  BY <1>5 DEF Aged
<1> QED
  BY <1>1, <1>2, <1>3, <1>4, <1>5, <1>6 DEF IInv, TypeOK, JobsSound

LEMMA ForgetFacetsStep ==
    ASSUME IInv, ForgetFacets
    PROVE  IInv'
<1>1. /\ cache' = Emptied("facet") /\ job' = Aged("facet")
      /\ UNCHANGED <<data, todo, due, wrote, faults>>
  BY DEF ForgetFacets
<1>2. writer' \in Writer /\ writer'.ver = writer.ver
  BY DEF ForgetFacets, IInv, TypeOK, Writer
<1>3. \A c \in Caches \ {"facet"} : Floor(c)' = Floor(c)
  BY DEF ForgetFacets, Floor, IInv, TypeOK, Writer
<1> QED
  BY <1>1, <1>2, <1>3, DropStep

LEMMA ForgetListingsStep ==
    ASSUME IInv, ForgetListings
    PROVE  IInv'
<1>1. /\ cache' = Emptied("listing") /\ job' = Aged("listing")
      /\ UNCHANGED <<data, todo, due, wrote, faults>>
  BY DEF ForgetListings
<1>2. writer' \in Writer /\ writer'.ver = writer.ver
  BY DEF ForgetListings, IInv, TypeOK, Writer
<1>3. \A c \in Caches \ {"listing"} : Floor(c)' = Floor(c)
  BY ConstantsAssumption DEF ForgetListings, Floor, IInv, TypeOK, Writer
<1> QED
  BY <1>1, <1>2, <1>3, DropStep

-----------------------------------------------------------------------------
(* The theorems.                                                            *)

LEMMA InitSound == Init => IInv
<1> SUFFICES ASSUME Init PROVE IInv
  OBVIOUS
<1>1. TypeOK
  <2>1. cache \in [Caches -> [Uris -> Entry \cup {None}]]
    <3> DEFINE E == Entry \cup {None}
    <3>1. None \in E
      OBVIOUS
    <3> HIDE DEF E
    <3>2. [c \in Caches |-> [u \in Uris |-> None]] \in [Caches -> [Uris -> E]]
      BY <3>1
    <3> QED
      BY <3>2 DEF Init, E
  <2>2. job \in [Workers -> Job \cup {NoJob}]
    BY DEF Init
  <2>3. writer \in Writer
    BY ZeroVersion DEF Init, Writer
  <2> QED
    BY <2>1, <2>2, <2>3, ZeroVersion, ConstantsAssumption DEF Init, TypeOK
<1>2. TokenNotNewer /\ PreWriteOnlyRaced
  BY DEF Init, TokenNotNewer, PreWriteOnlyRaced
<1>3. JobsSound
  BY IdleSound DEF Init, JobsSound
<1>4. WritesPast
  BY DEF Init, WritesPast
<1> QED
  BY <1>1, <1>2, <1>3, <1>4 DEF IInv

LEMMA NextSound == IInv /\ [Next]_vars => IInv'
<1> SUFFICES ASSUME IInv, [Next]_vars PROVE IInv'
  OBVIOUS
<1>1. ASSUME UNCHANGED vars PROVE IInv'
  BY <1>1 DEF vars, IInv, TypeOK, TokenNotNewer, PreWriteOnlyRaced, JobsSound,
              JobSound, WritesPast, Floor
<1>2. ASSUME NEW r \in Readers, Read(r) PROVE IInv'
  BY <1>1, <1>2, ServeMissStep DEF Read, ServeHit
<1>3. ASSUME NEW w \in Workers, Compute(w) PROVE IInv'
  BY <1>3, FetchTokenStep, FetchDataOkStep, FetchDataFailStep, DeclineStep,
     StoreStep DEF Compute
<1>4. ASSUME NEW c \in Caches, Maintain(c) PROVE IInv'
  BY <1>4, PassBeginStep, RefreshBeginStep, ResolveStep, CheckTokenStep,
     MarkVerifiedStep, MarkErrorStep DEF Maintain
<1>5. ASSUME Write PROVE IInv'
  BY <1>5, DispatchStep, ForgetFacetsStep, ForgetListingsStep, AnswerStep
     DEF Write
<1> QED
  BY <1>1, <1>2, <1>3, <1>4, <1>5, TickStep, ExternalChangeStep DEF Next

\* The strengthened invariant holds in every reachable state, for any caches,
\* uris, readers, windows and bounds.
THEOREM InvariantHolds == Spec => []IInv
BY InitSound, NextSound, PTL DEF Spec

\* The caches stay well-typed: in particular no run of failures takes a
\* backoff of refreshBackoff past maxRefreshBackoff.
THEOREM TypeCorrect == Spec => []TypeOK
<1>1. IInv => TypeOK
  BY DEF IInv
<1> QED
  BY <1>1, InvariantHolds, PTL

\* computeAndStore and refreshOne never store a token newer than its value,
\* so an unmoved token (refreshOne) proves the value current.
THEOREM TokensAreNotNewer == Spec => []TokenNotNewer
<1>1. IInv => TokenNotNewer
  BY DEF IInv
<1> QED
  BY <1>1, InvariantHolds, PTL

\* After ForgetSource only a computation the drop overtook puts pre-write
\* data back.
THEOREM OnlyRacesServePreWrite == Spec => []PreWriteOnlyRaced
<1>1. IInv => PreWriteOnlyRaced
  BY DEF IInv
<1> QED
  BY <1>1, InvariantHolds, PTL

=============================================================================
