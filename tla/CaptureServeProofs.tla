------------------------- MODULE CaptureServeProofs -------------------------
(***************************************************************************)
(* Proofs about CaptureServe, for any number of captures, nodes and faults *)
(* and either kind of plugin main.                                         *)
(*                                                                         *)
(* An id is believed without a look at the handle it is for, so what makes *)
(* a receipt complete is that the plugin has one call outstanding: while   *)
(* its end of the socket is open, the call is in one place, on its way to  *)
(* the host, at the host or on its way back, and it is the call that the   *)
(* batch handler waits for.                                                *)
(***************************************************************************)
EXTENDS CaptureServe, SequenceTheorems, TLAPS

-----------------------------------------------------------------------------
(* The inductive invariant.                                                 *)

\* No message of s, or one at most, is of these kinds.
Free(s, kinds)  == \A i \in 1..Len(s) : s[i].kind \notin kinds
Single(s, kinds) ==
    \A i, j \in 1..Len(s) :
        (s[i].kind \in kinds /\ s[j].kind \in kinds) => i = j

\* Node n of capture c is in the store, whole.
Stored(c, n) ==
    \E h \in Handles : /\ blobs[h] # NoBlob
                       /\ blobs[h].cap = c /\ blobs[h].node = n
                       /\ blobs[h].full /\ blobs[h].commit = "stored"

\* The blob of h was begun for the node the batch handler is at.
ForNode(h) ==
    /\ h \in Handles /\ blobs[h] # NoBlob
    /\ blobs[h].cap = batch.cap /\ blobs[h].node = batch.node

Working == batch.pc \in {"next", "begin", "copy", "send", "finish"}

HandlesFresh == \A h \in Handles : h > host.next => blobs[h] = NoBlob

BatchSound ==
    /\ Working => /\ Running
                  /\ batch.cap \in Captures /\ batch.node \in 1..NNodes
                  /\ \A n \in 1..(batch.node - 1) : Stored(batch.cap, n)
    /\ batch.pc \in {"copy", "send", "finish"} => ForNode(batch.h)
    /\ batch.pc \in {"send", "finish"} => blobs[batch.h].full

\* The plugin's end of the socket: nothing is sent to an end that is closed.
EndsSound ==
    /\ (plug.done \/ plug.child = "none") => up = <<>>
    /\ (plug.done /\ Running) => host.closed
    /\ plug.child \notin {"none", "running"} => plug.done
    /\ plug.child = "none" => ~plug.done

\* One call of the plugin's, in one place.
CallsInOnePlace ==
    ~plug.done =>
        /\ Single(down, BlobCall) /\ Single(up, BlobReply)
        /\ Free(down, BlobCall) \/ Free(up, BlobReply)
        /\ host.serving # None => Free(down, BlobCall) /\ Free(up, BlobReply)

\* It is the one the batch handler waits for.
CallsAwaited ==
    ~plug.done =>
        /\ \A i \in 1..Len(down) :
              /\ down[i].kind = "begin" => batch.pc = "begin"
              /\ down[i].kind = "finish" => batch.pc = "finish" /\ down[i].h = batch.h
        /\ host.serving # None => batch.pc = "finish" /\ host.serving = batch.h
        /\ \A i \in 1..Len(up) :
              /\ up[i].kind \in {"pipe", "nopipe"} => batch.pc = "begin"
              /\ up[i].kind \in {"id", "noid"} =>
                    batch.pc = "finish" /\ up[i].h = batch.h

MessagesSound ==
    /\ \A i \in 1..Len(down) :
          /\ down[i].kind = "begin" => batch.cap \in Captures /\ batch.node \in 1..NNodes
          /\ down[i].kind = "finish" => down[i].h \in Handles /\ blobs[down[i].h] # NoBlob
    /\ host.serving # None => blobs[host.serving] # NoBlob
    /\ \A i \in 1..Len(up) :
          /\ up[i].kind = "pipe" => ForNode(up[i].h)
          /\ up[i].kind = "id" =>
                /\ up[i].h \in Handles /\ blobs[up[i].h] # NoBlob
                /\ blobs[up[i].h].commit = "stored"

BlobInv ==
    /\ HandlesFresh /\ BatchSound /\ EndsSound
    /\ CallsInOnePlace /\ CallsAwaited /\ MessagesSound
    /\ ReceiptIsComplete

\* Where the session is in its life.  A shutdown sent is received before the
\* end of the socket is.
SessionSound ==
    /\ run = "launch" => plug.child = "none" /\ err = "none"
    /\ plug.child = "none" => run = "launch" \/ err = "bringup"
    /\ host.closed => run \in {"close", "wait", "v1", "done"}
    /\ run \in {"init", "initWait", "call", "callWait", "notify"} => err = "none"
    /\ (err = "none" /\ Running /\ run \in {"closePeer", "close", "wait"})
          => plug.shutdown \/ ~Free(up, {"shutdown"})
    /\ plug.child = "exit1" => err \notin {"none", "exit"}
    /\ err = "exit" => run = "done" /\ plug.child = "dead"
    /\ run \in {"v1", "done"} => ~Running

\* The batch has not been asked for.
Unasked ==
    /\ batch.cap = None /\ ~Working
    /\ Free(up, {"batch"}) /\ Free(down, {"begin"})
    /\ \A h \in Handles : blobs[h] = NoBlob

\* The batch is asked for once the one answer to initialize is in, and then
\* only a BatchFunc's own error can look like a refused handshake: until there
\* was one, what may lead to the one-shot path is a batch not yet asked for.
BatchAhead ==
    \/ run \in {"launch", "init", "initWait", "call", "v1"}
    \/ FallbackSignal \/ answer = "v1receipt"

HandshakeSound ==
    /\ answer # "none" => run = "done"
    /\ BatchAhead => Unasked
    /\ run \in {"launch", "init"} => up = <<>> /\ down = <<>>
    /\ run = "initWait" =>
          /\ Single(up, {"initialize"}) /\ Single(down, InitReply)
          /\ Free(up, {"initialize"}) \/ Free(down, InitReply)
    /\ run \in {"call", "callWait"} =>
          Free(up, {"initialize"}) /\ Free(down, {"unsupported"})

IInv == TypeOK /\ BlobInv /\ SessionSound

-----------------------------------------------------------------------------
(* Queues of messages.                                                      *)

LEMMA EmptyQueue ==
    ASSUME NEW M
    PROVE  <<>> \in Seq(M) /\ Len(<<>>) = 0 /\ 1..Len(<<>>) = {}
OBVIOUS

LEMMA TailElements ==
    ASSUME NEW M, NEW s \in Seq(M), s # <<>>
    PROVE  /\ Len(s) \in Nat \ {0} /\ Head(s) = s[1] /\ 1 \in 1..Len(s)
           /\ Tail(s) \in Seq(M) /\ Len(Tail(s)) = Len(s) - 1 /\ Head(s) \in M
           /\ \A i \in 1..Len(Tail(s)) : i + 1 \in 1..Len(s) /\ Tail(s)[i] = s[i + 1]
<1>1. Len(s) \in Nat \ {0} /\ Head(s) = s[1] /\ 1 \in 1..Len(s)
  BY EmptySeq, HeadTailProperties, LenProperties
<1>2. /\ Tail(s) \in Seq(M) /\ Len(Tail(s)) = Len(s) - 1 /\ Head(s) \in M
      /\ \A i \in 1..Len(Tail(s)) : Tail(s)[i] = s[i + 1]
  BY HeadTailProperties
<1> QED BY <1>1, <1>2

LEMMA AppendElements ==
    ASSUME NEW M, NEW s \in Seq(M), NEW m \in M
    PROVE  /\ Append(s, m) \in Seq(M) /\ Len(Append(s, m)) = Len(s) + 1
           /\ Len(s) \in Nat
           /\ Append(s, m)[Len(s) + 1] = m
           /\ \A i \in 1..Len(s) : Append(s, m)[i] = s[i]
BY AppendProperties, LenProperties

LEMMA TailKinds ==
    ASSUME NEW M, NEW s \in Seq(M), s # <<>>, NEW K
    PROVE  /\ Free(s, K) => Free(Tail(s), K)
           /\ Single(s, K) => Single(Tail(s), K)
           /\ (Single(s, K) /\ Head(s).kind \in K) => Free(Tail(s), K)
           /\ (~Free(s, K) /\ Head(s).kind \notin K) => ~Free(Tail(s), K)
<1> USE TailElements
<1>1. Free(s, K) => Free(Tail(s), K)
  BY DEF Free
<1>2. Single(s, K) => Single(Tail(s), K)
  <2>1. SUFFICES ASSUME Single(s, K), NEW i \in 1..Len(Tail(s)), NEW j \in 1..Len(Tail(s)),
                        Tail(s)[i].kind \in K, Tail(s)[j].kind \in K
                 PROVE  i = j
    BY DEF Single
  <2>2. i + 1 = j + 1
    BY <2>1 DEF Single
  <2> QED BY <2>2
<1>3. (Single(s, K) /\ Head(s).kind \in K) => Free(Tail(s), K)
  <2>1. SUFFICES ASSUME Single(s, K), s[1].kind \in K, NEW i \in 1..Len(Tail(s)),
                        s[i + 1].kind \in K
                 PROVE  FALSE
    BY DEF Free
  <2> QED BY <2>1 DEF Single
<1>4. (~Free(s, K) /\ Head(s).kind \notin K) => ~Free(Tail(s), K)
  <2>1. SUFFICES ASSUME NEW i \in 1..Len(s), s[i].kind \in K, s[1].kind \notin K
                 PROVE  \E j \in 1..Len(Tail(s)) : Tail(s)[j].kind \in K
    BY DEF Free
  <2>2. i - 1 \in 1..Len(Tail(s)) /\ Tail(s)[i - 1] = s[i]
    BY <2>1
  <2> QED BY <2>1, <2>2
<1> QED BY <1>1, <1>2, <1>3, <1>4

LEMMA AppendKinds ==
    ASSUME NEW M, NEW s \in Seq(M), NEW m \in M, NEW K
    PROVE  /\ (Free(s, K) /\ m.kind \notin K) => Free(Append(s, m), K)
           /\ (Single(s, K) /\ m.kind \notin K) => Single(Append(s, m), K)
           /\ Free(s, K) => Single(Append(s, m), K)
           /\ (~Free(s, K) \/ m.kind \in K) => ~Free(Append(s, m), K)
<1> USE AppendElements
<1>1. (Free(s, K) /\ m.kind \notin K) => Free(Append(s, m), K)
  BY DEF Free
<1>2. (Single(s, K) /\ m.kind \notin K) => Single(Append(s, m), K)
  BY DEF Single
<1>3. Free(s, K) => Single(Append(s, m), K)
  BY DEF Free, Single
<1>4. (~Free(s, K) \/ m.kind \in K) => ~Free(Append(s, m), K)
  BY DEF Free
<1> QED BY <1>1, <1>2, <1>3, <1>4

\* The messages of these kinds are the same or fewer.
SameOrFewer(s, t, K) ==
    /\ Free(s, K) => Free(t, K)
    /\ Single(s, K) => Single(t, K)
    /\ \A i \in 1..Len(t) : t[i].kind \in K => \E j \in 1..Len(s) : t[i] = s[j]

LEMMA UnchangedFewer ==
    ASSUME NEW s, NEW K
    PROVE  SameOrFewer(s, s, K)
BY DEF SameOrFewer

LEMMA EmptyFewer ==
    ASSUME NEW s, NEW K
    PROVE  SameOrFewer(s, <<>>, K) /\ Free(<<>>, K) /\ Single(<<>>, K)
<1>1. \A i \in 1..Len(<<>>) : FALSE
  OBVIOUS
<1> QED BY <1>1 DEF SameOrFewer, Free, Single

LEMMA TailFewer ==
    ASSUME NEW M, NEW s \in Seq(M), s # <<>>, NEW K
    PROVE  SameOrFewer(s, Tail(s), K)
<1>1. \A i \in 1..Len(Tail(s)) : \E j \in 1..Len(s) : Tail(s)[i] = s[j]
  BY TailElements
<1> QED BY <1>1, TailKinds DEF SameOrFewer

LEMMA AppendFewer ==
    ASSUME NEW M, NEW s \in Seq(M), NEW m \in M, NEW K, m.kind \notin K
    PROVE  SameOrFewer(s, Append(s, m), K)
<1>1. ASSUME NEW i \in 1..Len(Append(s, m)), Append(s, m)[i].kind \in K
      PROVE  \E j \in 1..Len(s) : Append(s, m)[i] = s[j]
  <2>1. i # Len(s) + 1
    BY <1>1, AppendElements
  <2>2. i \in 1..Len(s)
    BY <2>1, AppendElements
  <2> QED BY <2>2, AppendElements
<1> QED BY <1>1, AppendKinds DEF SameOrFewer

-----------------------------------------------------------------------------
(* Types.                                                                   *)

LEMMA ConstantTypes ==
    /\ NCaptures \in Nat \ {0} /\ NNodes \in Nat \ {0} /\ MaxFaults \in Nat
    /\ Handles \subseteq Nat \ {0} /\ 0 \notin Handles /\ None = 0
    /\ 1 \in Captures /\ Captures \subseteq Nat /\ 0 \notin Captures
    /\ 1 \in 1..NNodes
<1>1. NCaptures \in Nat \ {0} /\ NNodes \in Nat \ {0} /\ MaxFaults \in Nat
  BY ConstantsAssumption
<1>2. PICK k : k = NCaptures * NNodes
  OBVIOUS
<1>3. Handles = 1..k
  BY <1>2 DEF Handles
<1>4. \A x \in 1..k : x \in Nat /\ x # 0
  BY <1>1, <1>2
<1>5. Handles \subseteq Nat \ {0} /\ 0 \notin Handles
  BY <1>3, <1>4
<1> QED BY <1>1, <1>5 DEF Captures, None

LEMMA MsgTyped ==
    ASSUME NEW h \in Handles \cup {None}
    PROVE  /\ \A k \in BlobReply \cup {"initialize", "batch", "shutdown"} :
                 Msg(k, h) \in UpMsg /\ Msg(k, h).kind = k /\ Msg(k, h).h = h
           /\ \A k \in BlobCall \cup InitReply \cup {"result", "failed"} :
                 Msg(k, h) \in DownMsg /\ Msg(k, h).kind = k /\ Msg(k, h).h = h
BY DEF Msg, UpMsg, DownMsg

LEMMA BlobFacts ==
    ASSUME TypeOK, NEW h \in Handles, blobs[h] # NoBlob
    PROVE  /\ blobs[h] \in Blob
           /\ blobs[h].cap \in Captures /\ blobs[h].node \in 1..NNodes
           /\ blobs[h].full \in BOOLEAN
           /\ blobs[h].commit \in {"streaming", "stored", "failed"}
BY DEF TypeOK, Blob

LEMMA BlobIsABlob ==
    ASSUME NEW b \in Blob
    PROVE  b # NoBlob
<1>1. b.cap \in Captures
  BY DEF Blob
<1>2. NoBlob.cap = 0
  BY DEF NoBlob, None
<1> QED BY <1>1, <1>2, ConstantTypes

\* A blob keeps the node it is for, its bytes and its commit.
Later(b, c) ==
    /\ c.cap = b.cap /\ c.node = b.node
    /\ b.full => c.full
    /\ b.commit = "stored" => c.commit = "stored"

BlobsGrow ==
    /\ blobs' \in [Handles -> Blob \cup {NoBlob}]
    /\ \A h \in Handles :
          blobs[h] # NoBlob => blobs'[h] # NoBlob /\ Later(blobs[h], blobs'[h])

NoneBegun == \A h \in Handles : blobs[h] = NoBlob => blobs'[h] = NoBlob

LEMMA BlobsUnchanged ==
    ASSUME TypeOK, UNCHANGED blobs
    PROVE  BlobsGrow /\ NoneBegun
BY DEF TypeOK, BlobsGrow, NoneBegun, Later

\* One blob is changed.
LEMMA BlobChanged ==
    ASSUME TypeOK, NEW k \in Handles, blobs[k] # NoBlob, NEW c \in Blob,
           Later(blobs[k], c), blobs' = [blobs EXCEPT ![k] = c]
    PROVE  BlobsGrow /\ NoneBegun
<1>1. blobs \in [Handles -> Blob \cup {NoBlob}]
  BY DEF TypeOK
<1>2. blobs'[k] = c /\ \A h \in Handles : h # k => blobs'[h] = blobs[h]
  BY <1>1
<1>3. blobs' \in [Handles -> Blob \cup {NoBlob}]
  BY <1>1
<1>4. \A h \in Handles : Later(blobs[h], blobs[h])
  BY DEF Later
<1> QED BY <1>2, <1>3, <1>4, BlobIsABlob DEF BlobsGrow, NoneBegun

LEMMA DiedFields ==
    ASSUME TypeOK, NEW how \in {"exit0", "exit1", "dead"}, Died(how)
    PROVE  /\ BlobsGrow /\ NoneBegun
           /\ plug' \in Plug /\ plug'.child = how /\ plug'.done
           /\ plug'.shutdown = plug.shutdown
           /\ batch' \in Batch /\ batch'.pc = "over" /\ batch'.cap = batch.cap
           /\ batch'.node = batch.node /\ batch'.h = batch.h
           /\ up' = <<>>
<1> DEFINE After(h) == IF blobs[h] # NoBlob THEN [blobs[h] EXCEPT !.writer = FALSE]
                       ELSE NoBlob
<1>1. blobs' = [h \in Handles |-> After(h)]
  BY DEF Died
<1>2. ASSUME NEW h \in Handles, blobs[h] # NoBlob
      PROVE  /\ After(h) \in Blob /\ Later(blobs[h], After(h))
  <2>1. blobs[h] \in Blob
    BY <1>2, BlobFacts
  <2>2. After(h) = [blobs[h] EXCEPT !.writer = FALSE]
    BY <1>2
  <2> QED BY <2>1, <2>2 DEF Blob, Later
<1>3. \A h \in Handles : blobs[h] = NoBlob => After(h) = NoBlob
  OBVIOUS
<1> HIDE DEF After
<1>4. blobs' \in [Handles -> Blob \cup {NoBlob}]
  BY <1>1, <1>2, <1>3
<1>5. BlobsGrow /\ NoneBegun
  BY <1>1, <1>2, <1>3, <1>4, BlobIsABlob DEF BlobsGrow, NoneBegun
<1>6. /\ plug' \in Plug /\ plug'.child = how /\ plug'.done
      /\ plug'.shutdown = plug.shutdown
  BY DEF Died, TypeOK, Plug
<1>7. /\ batch' \in Batch /\ batch'.pc = "over" /\ batch'.cap = batch.cap
      /\ batch'.node = batch.node /\ batch'.h = batch.h
  BY DEF Died, TypeOK, Batch
<1> QED BY <1>5, <1>6, <1>7 DEF Died

\* The process ends: it exits, is killed or crashes.
Ends == Kill \/ PServeReturns \/ PCrash

LEMMA EndsFields ==
    ASSUME Ends
    PROVE  /\ Running
           /\ \E how \in {"exit0", "exit1", "dead"} :
                 /\ Died(how)
                 /\ how = "exit1" => plug.done /\ ~plug.shutdown
           /\ UNCHANGED <<run, err, answer, ctxDone, down, host, result>>
           /\ faults' \in {faults, faults + 1} /\ (faults' # faults => CanFault)
<1>1. CASE Kill
  BY <1>1 DEF Kill
<1>2. CASE PServeReturns
  BY <1>2 DEF PServeReturns, ServeEnd
<1>3. CASE PCrash
  BY <1>3 DEF PCrash
<1> QED BY <1>1, <1>2, <1>3 DEF Ends

\* The handler turns to a capture of the batch.
LEMMA CaptureTyped ==
    ASSUME batch \in Batch, NEW c \in Captures
    PROVE  CaptureAt(c) \in Batch
<1>1. c \in 0..NCaptures /\ 1 \in 0..NNodes /\ batch.refused \in BOOLEAN
  BY ConstantTypes DEF Captures, Batch
<1> QED BY <1>1 DEF CaptureAt, Batch

\* What WriteBlob's failure makes of the batch.
LEMMA FailedFields ==
    ASSUME TypeOK, BatchSound, Working, Failed
    PROVE  /\ batch' \in Batch /\ result' \in [Captures -> {"none", "receipt", "error"}]
           /\ \A c \in Captures : result'[c] = "receipt" => result[c] = "receipt"
           /\ \/ batch'.pc = "over" /\ batch'.cap = batch.cap /\ batch'.node = batch.node
              \/ /\ batch'.pc = "next" /\ batch'.cap \in Captures /\ batch'.node = 1
           /\ batch.refused => batch'.refused
           /\ \/ down' = down
              \/ \E m \in DownMsg : /\ down' = Append(down, m) /\ Connected
                                    /\ \/ m.kind \in {"result", "failed"}
                                       \/ batch'.refused /\ m.kind = "unsupported"
<1>1. batch.cap \in Captures /\ batch \in Batch /\ result \in [Captures -> {"none", "receipt", "error"}]
  BY DEF BatchSound, TypeOK
<1>2. PICK over \in Batch : over = [batch EXCEPT !.pc = "over"]
  BY <1>1 DEF Batch
<1>3. /\ over.pc = "over" /\ over.cap = batch.cap /\ over.node = batch.node
      /\ over.refused = batch.refused
  BY <1>1, <1>2 DEF Batch
<1>4. ASSUME NEW k \in {"result", "failed", "unsupported"}, PReply(Msg(k, None)),
             k = "unsupported" => batch'.refused
      PROVE  \/ down' = down
             \/ \E m \in DownMsg : /\ down' = Append(down, m) /\ Connected
                                   /\ \/ m.kind \in {"result", "failed"}
                                      \/ batch'.refused /\ m.kind = "unsupported"
  <2>1. Msg(k, None) \in DownMsg /\ Msg(k, None).kind = k
    BY MsgTyped DEF InitReply
  <2> QED BY <1>4, <2>1 DEF PReply
<1>5. CASE /\ result' = [result EXCEPT ![batch.cap] = "error"]
           /\ IF MoreCaptures
              THEN batch' = CaptureAt(batch.cap + 1) /\ UNCHANGED down
              ELSE batch' = [batch EXCEPT !.pc = "over"] /\ PReply(Msg("result", None))
  <2>1. /\ result' \in [Captures -> {"none", "receipt", "error"}]
        /\ \A c \in Captures : result'[c] = "receipt" => result[c] = "receipt"
    BY <1>1, <1>5
  <2>2. CASE MoreCaptures
    <3>1. batch.cap + 1 \in Captures /\ batch.cap + 1 \in 0..NCaptures /\ 1 \in 0..NNodes
      BY <1>1, <2>2, ConstantTypes DEF MoreCaptures, Captures
    <3>2. PICK b \in Batch : b = CaptureAt(batch.cap + 1)
      BY <1>1, <3>1, CaptureTyped
    <3>3. /\ b.pc = "next" /\ b.cap = batch.cap + 1 /\ b.node = 1
          /\ b.refused = batch.refused
      BY <3>1, <3>2 DEF CaptureAt
    <3> QED BY <1>5, <2>1, <2>2, <3>1, <3>2, <3>3
  <2>3. CASE ~MoreCaptures
    BY <1>2, <1>3, <1>4, <1>5, <2>1, <2>3
  <2> QED BY <2>2, <2>3
<1>6. CASE /\ batch' = [batch EXCEPT !.pc = "over"] /\ UNCHANGED result
           /\ PReply(Msg("failed", None))
  BY <1>1, <1>2, <1>3, <1>4, <1>6
<1>7. CASE /\ batch' = [batch EXCEPT !.pc = "over", !.refused = TRUE] /\ UNCHANGED result
           /\ PReply(Msg("unsupported", None))
  <2>1. /\ batch' \in Batch /\ batch'.pc = "over" /\ batch'.cap = batch.cap
        /\ batch'.node = batch.node /\ batch'.refused
    BY <1>1, <1>7 DEF Batch
  <2> QED BY <1>1, <1>4, <1>7, <2>1
<1> QED BY <1>5, <1>6, <1>7 DEF Failed

-----------------------------------------------------------------------------
(* Steps that leave the blobs and the batch alone.                          *)

BlobsAlone ==
    /\ UNCHANGED <<blobs, batch, result>>
    /\ host' \in Host /\ host'.serving = host.serving /\ host'.next = host.next
    /\ plug' \in Plug /\ plug'.done = plug.done
    /\ Running => plug'.child = "running"
    /\ up' \in Seq(UpMsg) /\ down' \in Seq(DownMsg)
    /\ SameOrFewer(up, up', BlobReply) /\ SameOrFewer(down, down', BlobCall)

LEMMA BlobsAloneKeeps ==
    ASSUME TypeOK, BlobInv, BlobsAlone, EndsSound'
    PROVE  BlobInv'
<1>1. UNCHANGED <<blobs, batch, result>>
  BY DEF BlobsAlone
<1>2. HandlesFresh' /\ ReceiptIsComplete'
  BY <1>1 DEF BlobInv, BlobsAlone, HandlesFresh, ReceiptIsComplete
<1>3. BatchSound'
  <2>1. \A c, n : Stored(c, n) => Stored(c, n)'
    BY <1>1 DEF Stored
  <2>2. Running => Running'
    BY DEF BlobsAlone, Running
  <2>3. \A h \in Handles : ForNode(h) => ForNode(h)'
    BY <1>1 DEF ForNode
  <2> QED BY <1>1, <2>1, <2>2, <2>3 DEF BlobInv, BatchSound, Working, ForNode
<1>4. CallsInOnePlace'
  BY DEF BlobInv, BlobsAlone, CallsInOnePlace, SameOrFewer
<1>5. CallsAwaited'
  <2>1. ASSUME ~plug.done, NEW i \in 1..Len(down')
        PROVE  /\ down'[i].kind = "begin" => batch.pc = "begin"
               /\ down'[i].kind = "finish" => batch.pc = "finish" /\ down'[i].h = batch.h
    <3>1. down'[i].kind \in BlobCall => \E j \in 1..Len(down) : down'[i] = down[j]
      BY DEF BlobsAlone, SameOrFewer
    <3> QED BY <2>1, <3>1 DEF BlobInv, CallsAwaited, BlobCall
  <2>2. ASSUME ~plug.done, NEW i \in 1..Len(up')
        PROVE  /\ up'[i].kind \in {"pipe", "nopipe"} => batch.pc = "begin"
               /\ up'[i].kind \in {"id", "noid"} =>
                     batch.pc = "finish" /\ up'[i].h = batch.h
    <3>1. up'[i].kind \in BlobReply => \E j \in 1..Len(up) : up'[i] = up[j]
      BY DEF BlobsAlone, SameOrFewer
    <3> QED BY <2>2, <3>1 DEF BlobInv, CallsAwaited, BlobReply
  <2> QED BY <1>1, <2>1, <2>2 DEF BlobInv, CallsAwaited, BlobsAlone
<1>6. MessagesSound'
  <2>1. ASSUME NEW i \in 1..Len(down')
        PROVE  /\ down'[i].kind = "begin" =>
                     batch.cap \in Captures /\ batch.node \in 1..NNodes
               /\ down'[i].kind = "finish" =>
                     down'[i].h \in Handles /\ blobs[down'[i].h] # NoBlob
    <3>1. down'[i].kind \in BlobCall => \E j \in 1..Len(down) : down'[i] = down[j]
      BY DEF BlobsAlone, SameOrFewer
    <3> QED BY <3>1 DEF BlobInv, MessagesSound, BlobCall
  <2>2. ASSUME NEW i \in 1..Len(up')
        PROVE  /\ up'[i].kind = "pipe" => ForNode(up'[i].h)
               /\ up'[i].kind = "id" =>
                     /\ up'[i].h \in Handles /\ blobs[up'[i].h] # NoBlob
                     /\ blobs[up'[i].h].commit = "stored"
    <3>1. up'[i].kind \in BlobReply => \E j \in 1..Len(up) : up'[i] = up[j]
      BY DEF BlobsAlone, SameOrFewer
    <3> QED BY <3>1 DEF BlobInv, MessagesSound, BlobReply
  <2> QED BY <1>1, <2>1, <2>2 DEF BlobInv, MessagesSound, BlobsAlone, ForNode
<1> QED BY <1>2, <1>3, <1>4, <1>5, <1>6 DEF BlobInv

\* Nothing that the blobs' invariant is about changes.
LEMMA NothingSent ==
    ASSUME TypeOK, UNCHANGED <<up, down>>
    PROVE  /\ up' \in Seq(UpMsg) /\ down' \in Seq(DownMsg)
           /\ SameOrFewer(up, up', BlobReply) /\ SameOrFewer(down, down', BlobCall)
BY UnchangedFewer DEF TypeOK

\* The host's session but for what it reads and sends.
LEMMA SessionKeeps ==
    ASSUME TypeOK, BlobInv, SessionSound,
           \/ LaunchOk \/ LaunchFail \/ HostCancelled \/ HostPeerDone \/ ClosePeer
           \/ CloseStdin \/ RunReturns \/ CaptureBatchV1 \/ CancelCapture
           \/ UNCHANGED vars
    PROVE  TypeOK' /\ BlobInv'
<1>0. EndsSound /\ host \in Host /\ plug \in Plug /\ up \in Seq(UpMsg)
  BY DEF BlobInv, TypeOK
<1>1. ASSUME UNCHANGED <<up, down, blobs, batch, result, host, plug>>
      PROVE  BlobInv'
  <2>1. BlobsAlone
    BY <1>0, <1>1, NothingSent DEF BlobsAlone, Running
  <2>2. EndsSound'
    BY <1>0, <1>1 DEF EndsSound, Running
  <2> QED BY <2>1, <2>2, BlobsAloneKeeps
<1>2. CASE LaunchOk
  <2>1. plug' = [plug EXCEPT !.child = "running"]
        /\ UNCHANGED <<up, down, blobs, batch, result, host>>
    BY <1>2 DEF LaunchOk
  <2>2. plug' \in Plug /\ plug'.child = "running" /\ plug'.done = plug.done
    BY <1>0, <2>1 DEF Plug
  <2>3. TypeOK'
    BY <1>2, <2>2 DEF LaunchOk, TypeOK
  <2>4. BlobsAlone
    BY <1>0, <2>1, <2>2, NothingSent DEF BlobsAlone
  <2>5. ~plug.done
    BY <1>0, <1>2 DEF LaunchOk, SessionSound, EndsSound
  <2>6. EndsSound'
    BY <1>0, <2>1, <2>2, <2>5 DEF EndsSound, Running
  <2> QED BY <2>3, <2>4, <2>6, BlobsAloneKeeps
<1>3. CASE LaunchFail
  BY <1>1, <1>3 DEF LaunchFail, TypeOK, Errors
<1>4. CASE HostCancelled
  BY <1>1, <1>4 DEF HostCancelled, HostCallFails, TypeOK, Errors
<1>5. CASE HostPeerDone
  BY <1>1, <1>5 DEF HostPeerDone, HostCallFails, TypeOK, Errors
<1>6. CASE ClosePeer
  <2>1. host' = [host EXCEPT !.closed = TRUE]
        /\ UNCHANGED <<up, down, blobs, batch, result, plug>>
    BY <1>6 DEF ClosePeer
  <2>2. /\ host' \in Host /\ host'.closed /\ host'.serving = host.serving
        /\ host'.next = host.next
    BY <1>0, <2>1 DEF Host
  <2>3. TypeOK'
    BY <1>6, <2>2 DEF ClosePeer, TypeOK
  <2>4. BlobsAlone
    BY <1>0, <2>1, <2>2, NothingSent DEF BlobsAlone, Running
  <2>5. EndsSound'
    BY <1>0, <2>1, <2>2 DEF EndsSound, Running
  <2> QED BY <2>3, <2>4, <2>5, BlobsAloneKeeps
<1>7. CASE CloseStdin
  <2>1. plug' = [plug EXCEPT !.stdin = FALSE]
        /\ UNCHANGED <<up, down, blobs, batch, result, host>>
    BY <1>7 DEF CloseStdin
  <2>2. plug' \in Plug /\ plug'.child = plug.child /\ plug'.done = plug.done
    BY <1>0, <2>1 DEF Plug
  <2>3. TypeOK'
    BY <1>7, <2>2 DEF CloseStdin, TypeOK
  <2>4. BlobsAlone
    BY <1>0, <2>1, <2>2, NothingSent DEF BlobsAlone, Running
  <2>5. EndsSound'
    BY <1>0, <2>1, <2>2 DEF EndsSound, Running
  <2> QED BY <2>3, <2>4, <2>5, BlobsAloneKeeps
<1>8. CASE RunReturns
  <2>1. /\ run' \in {"v1", "done"} /\ err' \in {err, "exit"}
        /\ answer' \in {answer, "receipt", "error"}
        /\ UNCHANGED <<ctxDone, up, down, host, blobs, plug, batch, result, faults>>
    BY <1>8 DEF RunReturns
  <2> QED BY <1>1, <2>1 DEF TypeOK, Errors
<1>9. CASE CaptureBatchV1
  BY <1>1, <1>9 DEF CaptureBatchV1, TypeOK
<1>10. CASE CancelCapture
  BY <1>1, <1>10 DEF CancelCapture, TypeOK
<1>11. CASE UNCHANGED vars
  BY <1>1, <1>11 DEF vars, TypeOK
<1> QED BY <1>2, <1>3, <1>4, <1>5, <1>6, <1>7, <1>8, <1>9, <1>10, <1>11

\* A message that is not about a blob is sent to the plugin.
LEMMA SentUp ==
    ASSUME TypeOK, EndsSound, NEW k \in {"initialize", "batch", "shutdown"},
           up' = IF Connected THEN Append(up, Msg(k, None)) ELSE up
    PROVE  /\ up' \in Seq(UpMsg) /\ SameOrFewer(up, up', BlobReply)
           /\ (plug.done \/ plug.child = "none") => up' = <<>>
<1>1. Msg(k, None) \in UpMsg /\ Msg(k, None).kind \notin BlobReply
  BY MsgTyped DEF BlobReply
<1>2. up \in Seq(UpMsg)
  BY DEF TypeOK
<1>3. CASE Connected
  BY <1>1, <1>2, <1>3, AppendElements, AppendFewer DEF Connected, Running
<1>4. CASE ~Connected
  BY <1>2, <1>4, UnchangedFewer DEF EndsSound
<1> QED BY <1>3, <1>4

\* The host sends initialize, capture.batch or shutdown, and reads an answer.
LEMMA SessionTalks ==
    ASSUME TypeOK, BlobInv,
           \/ Initialize \/ CaptureBatch \/ Notify \/ HostReadResponse \/ HostEOF
    PROVE  TypeOK' /\ BlobInv'
<1>0. EndsSound /\ host \in Host /\ plug \in Plug /\ up \in Seq(UpMsg)
      /\ down \in Seq(DownMsg)
  BY DEF BlobInv, TypeOK
<1>1. ASSUME UNCHANGED <<down, blobs, batch, result, host, plug>>,
             NEW k \in {"initialize", "batch", "shutdown"},
             up' = IF Connected THEN Append(up, Msg(k, None)) ELSE up
      PROVE  BlobInv' /\ up' \in Seq(UpMsg)
  <2>1. /\ up' \in Seq(UpMsg) /\ SameOrFewer(up, up', BlobReply)
        /\ (plug.done \/ plug.child = "none") => up' = <<>>
    BY <1>0, <1>1, SentUp
  <2>2. BlobsAlone
    BY <1>0, <1>1, <2>1, UnchangedFewer DEF BlobsAlone, Running
  <2>3. EndsSound'
    BY <1>0, <1>1, <2>1 DEF EndsSound, Running
  <2> QED BY <2>1, <2>2, <2>3, BlobsAloneKeeps
<1>2. CASE Initialize
  <2>1. /\ up' = IF Connected THEN Append(up, Msg("initialize", None)) ELSE up
        /\ run' \in {"initWait", "closePeer"} /\ err' \in {err, "transport"}
        /\ UNCHANGED <<answer, ctxDone, down, host, blobs, plug, batch, result, faults>>
    BY <1>2 DEF Initialize, HostCall
  <2> QED BY <1>1, <2>1 DEF TypeOK, Errors
<1>3. CASE CaptureBatch
  <2>1. /\ up' = IF Connected THEN Append(up, Msg("batch", None)) ELSE up
        /\ run' \in {"callWait", "closePeer"} /\ err' \in {err, "transport"}
        /\ UNCHANGED <<answer, ctxDone, down, host, blobs, plug, batch, result, faults>>
    BY <1>3 DEF CaptureBatch, HostCall
  <2> QED BY <1>1, <2>1 DEF TypeOK, Errors
<1>4. CASE Notify
  <2>1. /\ up' = IF Connected THEN Append(up, Msg("shutdown", None)) ELSE up
        /\ run' = "closePeer"
        /\ UNCHANGED <<err, answer, ctxDone, down, host, blobs, plug, batch, result, faults>>
    BY <1>4 DEF Notify
  <2> QED BY <1>1, <2>1 DEF TypeOK
<1>5. CASE HostReadResponse
  <2>1. /\ down # <<>> /\ down' = Tail(down)
        /\ Head(down).kind \in InitReply \cup {"result", "failed"}
        /\ UNCHANGED <<answer, ctxDone, up, host, blobs, plug, batch, result, faults>>
    BY <1>5 DEF HostReadResponse
  <2>2. run' \in {run, "call", "closePeer", "notify"}
        /\ err' \in {err, "batch"} \cup InitReply \cup {"result", "failed"}
        /\ err' \in Errors
    <3>1. err \in Errors
      BY DEF TypeOK
    <3>2. CASE run = "initWait" /\ Head(down).kind = "selected"
      BY <1>5, <3>1, <3>2 DEF HostReadResponse
    <3>3. CASE run = "initWait" /\ Head(down).kind \in {"unsupported", "refused"}
      BY <1>5, <3>1, <3>3 DEF HostReadResponse, InitReply, Errors
    <3>4. CASE run = "initWait" /\ Head(down).kind \notin InitReply
      BY <1>5, <3>1, <3>4 DEF HostReadResponse, InitReply
    <3>5. CASE run = "callWait" /\ Head(down).kind = "result"
      BY <1>5, <3>1, <3>5 DEF HostReadResponse
    <3>6. CASE run = "callWait" /\ Head(down).kind \in {"failed", "unsupported"}
      BY <1>5, <3>1, <3>6 DEF HostReadResponse, InitReply, Errors
    <3>8. CASE run = "callWait" /\ Head(down).kind \in {"selected", "refused"}
      BY <1>5, <3>1, <3>8 DEF HostReadResponse
    <3>7. CASE run \notin {"initWait", "callWait"}
      BY <1>5, <3>1, <3>7 DEF HostReadResponse
    <3> QED BY <2>1, <3>2, <3>3, <3>4, <3>5, <3>6, <3>7, <3>8 DEF InitReply
  <2>3. down' \in Seq(DownMsg) /\ SameOrFewer(down, down', BlobCall)
    BY <1>0, <2>1, TailElements, TailFewer
  <2>4. TypeOK'
    BY <2>1, <2>2, <2>3 DEF TypeOK
  <2>5. BlobsAlone
    BY <1>0, <2>1, <2>3, UnchangedFewer DEF BlobsAlone, Running
  <2>6. EndsSound'
    BY <1>0, <2>1 DEF EndsSound, Running
  <2> QED BY <2>4, <2>5, <2>6, BlobsAloneKeeps
<1>6. CASE HostEOF
  <2>1. /\ host' = [host EXCEPT !.done = TRUE] /\ down' = <<>>
        /\ UNCHANGED <<run, err, answer, ctxDone, up, blobs, plug, batch, result, faults>>
    BY <1>6 DEF HostEOF
  <2>2. /\ host' \in Host /\ host'.closed = host.closed /\ host'.serving = host.serving
        /\ host'.next = host.next
    BY <1>0, <2>1 DEF Host
  <2>3. down' \in Seq(DownMsg) /\ SameOrFewer(down, down', BlobCall)
    BY <2>1, EmptyQueue, EmptyFewer
  <2>4. TypeOK'
    BY <2>1, <2>2, <2>3 DEF TypeOK
  <2>5. BlobsAlone
    BY <1>0, <2>1, <2>2, <2>3, UnchangedFewer DEF BlobsAlone, Running
  <2>6. EndsSound'
    BY <1>0, <2>1, <2>2 DEF EndsSound, Running
  <2> QED BY <2>4, <2>5, <2>6, BlobsAloneKeeps
<1> QED BY <1>2, <1>3, <1>4, <1>5, <1>6

\* The plugin reads a message: its end is open.
LEMMA PluginReads ==
    ASSUME TypeOK, EndsSound, NEW k, PServes(k)
    PROVE  /\ ~plug.done /\ plug.child = "running" /\ Running
           /\ up # <<>> /\ up \in Seq(UpMsg) /\ Tail(up) \in Seq(UpMsg)
           /\ Head(up) = up[1] /\ 1 \in 1..Len(up) /\ Head(up).kind = k
           /\ \A K : SameOrFewer(up, Tail(up), K)
           /\ k \notin BlobReply => batch.pc \in {"idle", "over"}
<1>1. Running /\ up # <<>> /\ Head(up).kind = k /\ up \in Seq(UpMsg)
  BY DEF PServes, TypeOK
<1>2. ~plug.done /\ plug.child = "running"
  BY <1>1 DEF EndsSound, Running
<1> QED BY <1>1, <1>2, TailElements, TailFewer DEF PServes

LEMMA PluginSession ==
    ASSUME TypeOK, BlobInv, PInitialize \/ PShutdown
    PROVE  TypeOK' /\ BlobInv'
<1>0. EndsSound /\ host \in Host /\ plug \in Plug /\ down \in Seq(DownMsg)
  BY DEF BlobInv, TypeOK
<1>1. CASE PInitialize
  <2>1. PServes("initialize") /\ up' = Tail(up)
        /\ UNCHANGED <<run, err, answer, ctxDone, host, blobs, plug, batch, result,
                       faults>>
    BY <1>1 DEF PInitialize
  <2>2. down' \in Seq(DownMsg) /\ SameOrFewer(down, down', BlobCall)
    <3>1. PICK k \in InitReply : PReply(Msg(k, None))
      BY <1>1 DEF PInitialize
    <3>2. Msg(k, None) \in DownMsg /\ Msg(k, None).kind \notin BlobCall
      BY MsgTyped DEF InitReply, BlobCall
    <3> QED BY <1>0, <3>1, <3>2, AppendElements, AppendFewer, UnchangedFewer DEF PReply
  <2>3. /\ ~plug.done /\ plug.child = "running" /\ up' \in Seq(UpMsg)
        /\ SameOrFewer(up, up', BlobReply)
    BY <1>0, <2>1, PluginReads
  <2>4. TypeOK'
    BY <2>1, <2>2, <2>3 DEF TypeOK
  <2>5. BlobsAlone
    BY <1>0, <2>1, <2>2, <2>3 DEF BlobsAlone, Running
  <2>6. EndsSound'
    BY <2>1, <2>3 DEF EndsSound, Running
  <2> QED BY <2>4, <2>5, <2>6, BlobsAloneKeeps
<1>2. CASE PShutdown
  <2>1. PServes("shutdown") /\ up' = Tail(up) /\ plug' = [plug EXCEPT !.shutdown = TRUE]
        /\ UNCHANGED <<run, err, answer, ctxDone, down, host, blobs, batch, result,
                       faults>>
    BY <1>2 DEF PShutdown
  <2>2. /\ ~plug.done /\ plug.child = "running" /\ up' \in Seq(UpMsg)
        /\ SameOrFewer(up, up', BlobReply)
    BY <1>0, <2>1, PluginReads
  <2>3. plug' \in Plug /\ plug'.child = plug.child /\ plug'.done = plug.done
    BY <1>0, <2>1 DEF Plug
  <2>4. TypeOK'
    BY <2>1, <2>2, <2>3 DEF TypeOK
  <2>5. BlobsAlone
    BY <1>0, <2>1, <2>2, <2>3, UnchangedFewer DEF BlobsAlone, Running
  <2>6. EndsSound'
    BY <2>1, <2>2, <2>3 DEF EndsSound, Running
  <2> QED BY <2>4, <2>5, <2>6, BlobsAloneKeeps
<1> QED BY <1>1, <1>2

-----------------------------------------------------------------------------
(* Blobs that change.                                                       *)

LEMMA StoredStays ==
    ASSUME TypeOK, BlobsGrow
    PROVE  \A c, n : Stored(c, n) => Stored(c, n)'
<1>1. ASSUME NEW c, NEW n, NEW h \in Handles, blobs[h] # NoBlob,
             blobs[h].cap = c, blobs[h].node = n,
             blobs[h].full, blobs[h].commit = "stored"
      PROVE  /\ blobs'[h] # NoBlob /\ blobs'[h].cap = c /\ blobs'[h].node = n
             /\ blobs'[h].full /\ blobs'[h].commit = "stored"
  BY <1>1 DEF BlobsGrow, Later
<1> QED BY <1>1 DEF Stored

LEMMA ReceiptsOf == ReceiptIsComplete <=>
    \A c \in Captures : result[c] = "receipt" => \A n \in 1..NNodes : Stored(c, n)
BY DEF ReceiptIsComplete, Stored

LEMMA ReceiptsAfter ==
    ASSUME \A c \in Captures : result'[c] = "receipt" =>
              \A n \in 1..NNodes : Stored(c, n)'
    PROVE  ReceiptIsComplete'
<1>1. (\A c \in Captures : result[c] = "receipt" =>
          \A n \in 1..NNodes : Stored(c, n))'
  OBVIOUS
<1> QED BY <1>1, ReceiptsOf, PTL

LEMMA ReceiptsStay ==
    ASSUME TypeOK, ReceiptIsComplete, BlobsGrow,
           \A c \in Captures : result'[c] = "receipt" => result[c] = "receipt"
    PROVE  ReceiptIsComplete'
<1>1. \A c \in Captures : result'[c] = "receipt" =>
          \A n \in 1..NNodes : Stored(c, n)'
  BY StoredStays, ReceiptsOf
<1> QED BY <1>1, ReceiptsAfter

\* A blob of the node at hand stays one while the batch is at that node.
LEMMA ForNodeStays ==
    ASSUME TypeOK, BlobsGrow, batch'.cap = batch.cap, batch'.node = batch.node
    PROVE  \A h : ForNode(h) => ForNode(h)'
BY DEF BlobsGrow, Later, ForNode

\* The batch handler stays at its node.
LEMMA BatchStays ==
    ASSUME TypeOK, BatchSound, BlobsGrow, batch'.cap = batch.cap,
           batch'.node = batch.node, Working
    PROVE  /\ batch'.cap \in Captures /\ batch'.node \in 1..NNodes
           /\ (\A n \in 1..(batch.node - 1) : Stored(batch.cap, n))'
<1>1. PICK c, m : c = batch.cap /\ m = batch.node
  OBVIOUS
<1>2. c \in Captures /\ m \in 1..NNodes /\ \A n \in 1..(m - 1) : Stored(c, n)
  BY <1>1 DEF BatchSound
<1>3. \A n \in 1..(m - 1) : Stored(c, n)'
  BY <1>2, StoredStays
<1>4. c = batch'.cap /\ m = batch'.node
  BY <1>1
<1> QED BY <1>2, <1>3, <1>4 DEF Stored

LEMMA BlobAtHandStays ==
    ASSUME TypeOK, BlobsGrow, ForNode(batch.h), batch'.cap = batch.cap,
           batch'.node = batch.node, batch'.h = batch.h
    PROVE  /\ ForNode(batch.h)' /\ batch.h \in Handles
           /\ blobs[batch.h].full => blobs'[batch'.h].full
<1>1. PICK h : h = batch.h
  OBVIOUS
<1>2. ForNode(h)'
  BY <1>1, ForNodeStays
<1>3. h = batch'.h
  BY <1>1
<1> QED BY <1>1, <1>2, <1>3 DEF ForNode, BlobsGrow, Later

\* What was said of messages and blobs stays true.
LEMMA MessagesStay ==
    ASSUME TypeOK, MessagesSound, BlobsGrow,
           batch'.cap = batch.cap, batch'.node = batch.node,
           SameOrFewer(up, up', BlobReply), SameOrFewer(down, down', BlobCall),
           host'.serving = host.serving, host.serving \in Handles \cup {None}
    PROVE  MessagesSound'
<1>1. ASSUME NEW i \in 1..Len(down')
      PROVE  /\ down'[i].kind = "begin" =>
                   batch'.cap \in Captures /\ batch'.node \in 1..NNodes
             /\ down'[i].kind = "finish" =>
                   down'[i].h \in Handles /\ blobs'[down'[i].h] # NoBlob
  <2>1. down'[i].kind \in BlobCall => \E j \in 1..Len(down) : down'[i] = down[j]
    BY DEF SameOrFewer
  <2> QED BY <2>1 DEF MessagesSound, BlobCall, BlobsGrow
<1>2. ASSUME NEW i \in 1..Len(up')
      PROVE  /\ up'[i].kind = "pipe" =>
                   /\ up'[i].h \in Handles /\ blobs'[up'[i].h] # NoBlob
                   /\ blobs'[up'[i].h].cap = batch'.cap
                   /\ blobs'[up'[i].h].node = batch'.node
             /\ up'[i].kind = "id" =>
                   /\ up'[i].h \in Handles /\ blobs'[up'[i].h] # NoBlob
                   /\ blobs'[up'[i].h].commit = "stored"
  <2>1. up'[i].kind \in BlobReply => \E j \in 1..Len(up) : up'[i] = up[j]
    BY DEF SameOrFewer
  <2>2. PICK m : m = up'[i]
    OBVIOUS
  <2>3. m.kind = "pipe" => ForNode(m.h)
    BY <2>1, <2>2 DEF MessagesSound, BlobReply
  <2>4. m.kind = "pipe" => ForNode(m.h)'
    BY <2>3, ForNodeStays
  <2>5. m.kind = "id" => /\ m.h \in Handles /\ blobs[m.h] # NoBlob
                         /\ blobs[m.h].commit = "stored"
    BY <2>1, <2>2 DEF MessagesSound, BlobReply
  <2>6. m.kind = "id" => /\ m.h \in Handles /\ blobs'[m.h] # NoBlob
                         /\ blobs'[m.h].commit = "stored"
    BY <2>5 DEF BlobsGrow, Later
  <2>7. m.kind = "pipe" => /\ m.h \in Handles /\ blobs'[m.h] # NoBlob
                           /\ blobs'[m.h].cap = batch'.cap
                           /\ blobs'[m.h].node = batch'.node
    BY <2>4 DEF ForNode
  <2> QED BY <2>2, <2>6, <2>7
<1>3. host'.serving # None => blobs'[host'.serving] # NoBlob
  BY DEF MessagesSound, BlobsGrow
<1> QED BY <1>1, <1>2, <1>3 DEF MessagesSound, ForNode

\* The process ends; its pipes, its handler and what it was sent with it.
LEMMA EndsKeeps ==
    ASSUME TypeOK, BlobInv, Ends
    PROVE  TypeOK' /\ BlobInv'
<1>1. PICK how \in {"exit0", "exit1", "dead"} : Died(how)
  BY EndsFields
<1>2. /\ UNCHANGED <<run, err, answer, ctxDone, down, host, result>>
      /\ faults' \in {faults, faults + 1} /\ (faults' # faults => CanFault)
  BY EndsFields
<1>3. /\ BlobsGrow /\ NoneBegun
      /\ plug' \in Plug /\ plug'.child = how /\ plug'.done
      /\ batch' \in Batch /\ batch'.pc = "over" /\ batch'.cap = batch.cap
      /\ batch'.node = batch.node /\ up' = <<>>
  BY <1>1, DiedFields
<1>4. /\ HandlesFresh /\ MessagesSound /\ ReceiptIsComplete
      /\ host.serving \in Handles \cup {None}
  BY DEF BlobInv, TypeOK, Host
<1>5. up' \in Seq(UpMsg) /\ SameOrFewer(up, up', BlobReply)
  BY <1>3, EmptyQueue, EmptyFewer
<1>6. TypeOK'
  <2>1. faults' \in 0..MaxFaults
    BY <1>2, ConstantTypes DEF TypeOK, CanFault
  <2> QED BY <1>2, <1>3, <1>5, <2>1 DEF TypeOK, BlobsGrow
<1>7. HandlesFresh'
  BY <1>2, <1>3, <1>4 DEF HandlesFresh, NoneBegun
<1>8. BatchSound'
  BY <1>3 DEF BatchSound, Working
<1>9. EndsSound'
  BY <1>3 DEF EndsSound, Running
<1>10. CallsInOnePlace' /\ CallsAwaited'
  BY <1>3 DEF CallsInOnePlace, CallsAwaited
<1>11. MessagesSound'
  BY <1>2, <1>3, <1>4, <1>5, MessagesStay, UnchangedFewer
<1>12. ReceiptIsComplete'
  BY <1>2, <1>3, <1>4, ReceiptsStay
<1> QED BY <1>6, <1>7, <1>8, <1>9, <1>10, <1>11, <1>12 DEF BlobInv

\* The host's goroutines commit a blob, or fail to.
LEMMA CommitKeeps ==
    ASSUME TypeOK, BlobInv, NEW h \in Handles, Commit(h) \/ CommitFails(h)
    PROVE  TypeOK' /\ BlobInv'
<1>1. PICK how \in {"stored", "failed"} : blobs' = [blobs EXCEPT ![h].commit = how]
  BY DEF Commit, CommitFails
<1>2. /\ blobs[h] # NoBlob /\ blobs[h].commit = "streaming"
      /\ UNCHANGED <<run, err, answer, ctxDone, up, down, host, plug, batch, result>>
      /\ faults' \in {faults, faults + 1} /\ (faults' # faults => CanFault)
  BY DEF Commit, CommitFails
<1>3. PICK c \in Blob : c = [blobs[h] EXCEPT !.commit = how]
  BY <1>2, BlobFacts DEF Blob
<1>4. c.cap = blobs[h].cap /\ c.node = blobs[h].node /\ c.full = blobs[h].full
  BY <1>2, <1>3, BlobFacts DEF Blob
<1>5. blobs' = [blobs EXCEPT ![h] = c]
  BY <1>1, <1>3
<1>6. BlobsGrow /\ NoneBegun
  BY <1>2, <1>4, <1>5, BlobChanged DEF Later
<1>7. /\ HandlesFresh /\ BatchSound /\ EndsSound /\ CallsInOnePlace /\ CallsAwaited
      /\ MessagesSound /\ ReceiptIsComplete /\ host.serving \in Handles \cup {None}
  BY DEF BlobInv, TypeOK, Host
<1>8. TypeOK'
  <2>1. faults' \in 0..MaxFaults
    BY <1>2, ConstantTypes DEF TypeOK, CanFault
  <2> QED BY <1>2, <1>6, <2>1 DEF TypeOK, BlobsGrow
<1>9. HandlesFresh'
  BY <1>2, <1>6, <1>7 DEF HandlesFresh, NoneBegun
<1>10. BatchSound'
  <2>1. Working' => Working /\ Running'
    BY <1>2, <1>7 DEF BatchSound, Working, Running
  <2>2. Working => /\ batch'.cap \in Captures /\ batch'.node \in 1..NNodes
                   /\ (\A n \in 1..(batch.node - 1) : Stored(batch.cap, n))'
    BY <1>2, <1>6, <1>7, BatchStays
  <2>3. batch.pc \in {"copy", "send", "finish"} =>
           ForNode(batch.h)' /\ (blobs[batch.h].full => blobs'[batch'.h].full)
    BY <1>2, <1>6, <1>7, BlobAtHandStays DEF BatchSound
  <2> QED BY <1>2, <1>7, <2>1, <2>2, <2>3 DEF BatchSound
<1>11. EndsSound' /\ CallsInOnePlace' /\ CallsAwaited'
  BY <1>2, <1>7 DEF EndsSound, Running, CallsInOnePlace, CallsAwaited, Free, Single
<1>12. MessagesSound'
  BY <1>2, <1>6, <1>7, MessagesStay, UnchangedFewer
<1>13. ReceiptIsComplete'
  BY <1>2, <1>6, <1>7, ReceiptsStay
<1> QED BY <1>8, <1>9, <1>10, <1>11, <1>12, <1>13 DEF BlobInv

\* What MessagesSound says of a message, after the step.
GoodReply(m) ==
    /\ m.kind = "pipe" =>
          /\ m.h \in Handles /\ blobs'[m.h] # NoBlob
          /\ blobs'[m.h].cap = batch'.cap /\ blobs'[m.h].node = batch'.node
    /\ m.kind = "id" =>
          /\ m.h \in Handles /\ blobs'[m.h] # NoBlob
          /\ blobs'[m.h].commit = "stored"

GoodCall(m) ==
    /\ m.kind = "begin" => batch'.cap \in Captures /\ batch'.node \in 1..NNodes
    /\ m.kind = "finish" => m.h \in Handles /\ blobs'[m.h] # NoBlob

SameNode == batch'.cap = batch.cap /\ batch'.node = batch.node

LEMMA OldMessages ==
    ASSUME TypeOK, MessagesSound, BlobsGrow
    PROVE  /\ \A i \in 1..Len(up) : (SameNode \/ up[i].kind # "pipe") => GoodReply(up[i])
           /\ \A i \in 1..Len(down) :
                 (SameNode \/ down[i].kind # "begin") => GoodCall(down[i])
           /\ host.serving # None => blobs'[host.serving] # NoBlob
<1>1. host.serving \in Handles \cup {None}
  BY DEF TypeOK, Host
<1>2. ASSUME NEW i \in 1..Len(up), SameNode \/ up[i].kind # "pipe"
      PROVE  GoodReply(up[i])
  BY <1>2 DEF SameNode, MessagesSound, GoodReply, ForNode, BlobsGrow, Later
<1>3. ASSUME NEW i \in 1..Len(down), SameNode \/ down[i].kind # "begin"
      PROVE  GoodCall(down[i])
  BY <1>3 DEF SameNode, MessagesSound, GoodCall, BlobsGrow
<1> QED BY <1>1, <1>2, <1>3 DEF MessagesSound, BlobsGrow

LEMMA GoodMessages ==
    ASSUME \A i \in 1..Len(up') : GoodReply(up'[i]),
           \A i \in 1..Len(down') : GoodCall(down'[i]),
           host'.serving # None => blobs'[host'.serving] # NoBlob
    PROVE  MessagesSound'
BY DEF MessagesSound, GoodReply, GoodCall, ForNode

\* No call of the plugin's is under way.
Quiet == Free(down, BlobCall) /\ Free(up, BlobReply) /\ host.serving = None

LEMMA QuietCalls ==
    ASSUME Quiet'
    PROVE  CallsInOnePlace' /\ CallsAwaited'
<1>1. (\A i \in 1..Len(down) : down[i].kind \notin {"begin", "finish"})'
  BY DEF Quiet, Free, BlobCall
<1>2. (\A i \in 1..Len(up) : up[i].kind \notin {"pipe", "nopipe", "id", "noid"})'
  BY DEF Quiet, Free, BlobReply
<1>3. CallsAwaited'
  BY <1>1, <1>2 DEF Quiet, CallsAwaited
<1>4. CallsInOnePlace'
  BY DEF Quiet, CallsInOnePlace, Free, Single
<1> QED BY <1>3, <1>4

\* The batch handler waits for none.
LEMMA NotWaiting ==
    ASSUME CallsAwaited, ~plug.done, batch.pc \notin {"begin", "finish"}
    PROVE  Quiet
BY DEF CallsAwaited, Quiet, Free, BlobCall, BlobReply

\* Its call is answered.
LEMMA Answered ==
    ASSUME TypeOK, CallsInOnePlace, ~plug.done, up # <<>>, Head(up).kind \in BlobReply
    PROVE  Free(down, BlobCall) /\ Free(Tail(up), BlobReply) /\ host.serving = None
<1>1. up \in Seq(UpMsg)
  BY DEF TypeOK
<1>2. ~Free(up, BlobReply)
  BY <1>1, TailElements DEF Free
<1>3. Free(Tail(up), BlobReply)
  BY <1>1, TailKinds DEF CallsInOnePlace
<1> QED BY <1>2, <1>3 DEF CallsInOnePlace

LEMMA BatchUnchanged ==
    ASSUME TypeOK, BatchSound, BlobsGrow, UNCHANGED <<batch, plug>>
    PROVE  BatchSound'
<1>1. Working' => Working /\ Running'
  BY DEF BatchSound, Working, Running
<1>2. Working => /\ batch'.cap \in Captures /\ batch'.node \in 1..NNodes
                 /\ (\A n \in 1..(batch.node - 1) : Stored(batch.cap, n))'
  BY BatchStays
<1>3. batch.pc \in {"copy", "send", "finish"} =>
         ForNode(batch.h)' /\ (blobs[batch.h].full => blobs'[batch'.h].full)
  BY BlobAtHandStays DEF BatchSound
<1> QED BY <1>1, <1>2, <1>3 DEF BatchSound

\* The host answers a call of the plugin's.
LEMMA HostReplies ==
    ASSUME TypeOK, EndsSound, NEW m \in UpMsg, HostReply(m)
    PROVE  /\ up' \in Seq(UpMsg) /\ ((plug.done \/ plug.child = "none") => up' = <<>>)
           /\ \A i \in 1..Len(up') :
                 \/ up'[i] = m /\ Connected
                 \/ \E j \in 1..Len(up) : up'[i] = up[j]
           /\ Free(up, BlobReply) => Single(up', BlobReply)
<1>1. up \in Seq(UpMsg)
  BY DEF TypeOK
<1>2. CASE Connected
  <2>1. up' = Append(up, m)
    BY <1>2 DEF HostReply
  <2>2. ~plug.done /\ plug.child # "none"
    BY <1>2 DEF Connected, Running
  <2>3. ASSUME NEW i \in 1..Len(up')
        PROVE  up'[i] = m \/ \E j \in 1..Len(up) : up'[i] = up[j]
    <3>1. CASE i = Len(up) + 1
      BY <1>1, <2>1, <3>1, AppendElements
    <3>2. CASE i # Len(up) + 1
      <4>1. i \in 1..Len(up)
        BY <1>1, <2>1, <3>2, AppendElements
      <4> QED BY <1>1, <2>1, <4>1, AppendElements
    <3> QED BY <3>1, <3>2
  <2>4. Free(up, BlobReply) => Single(up', BlobReply)
    BY <1>1, <2>1, AppendKinds
  <2> QED BY <1>1, <1>2, <2>1, <2>2, <2>3, <2>4, AppendElements
<1>3. CASE ~Connected
  BY <1>1, <1>3 DEF HostReply, EndsSound, Free, Single
<1> QED BY <1>2, <1>3


\* The host takes a call of the plugin's.
LEMMA HostTakes ==
    ASSUME TypeOK, BlobInv, NEW k \in BlobCall, HostServes(k), down' = Tail(down)
    PROVE  /\ down' \in Seq(DownMsg) /\ 1 \in 1..Len(down)
           /\ Head(down) = down[1] /\ down[1].kind = k /\ host.serving = None
           /\ \A i \in 1..Len(down') : \E j \in 1..Len(down) : down'[i] = down[j]
           /\ ~plug.done => Free(down', BlobCall) /\ Free(up, BlobReply)
<1>1. /\ down \in Seq(DownMsg) /\ down # <<>> /\ Head(down).kind = k
      /\ host.serving = None
  BY DEF HostServes, TypeOK
<1>2. /\ down' \in Seq(DownMsg) /\ 1 \in 1..Len(down) /\ Head(down) = down[1]
      /\ \A i \in 1..Len(down') : \E j \in 1..Len(down) : down'[i] = down[j]
  BY <1>1, TailElements
<1>3. ~Free(down, BlobCall)
  BY <1>1, <1>2 DEF Free
<1>4. ~plug.done => Free(down', BlobCall)
  BY <1>1, TailKinds DEF BlobInv, CallsInOnePlace
<1> QED BY <1>1, <1>2, <1>3, <1>4 DEF BlobInv, CallsInOnePlace

\* begin is answered, with a pipe or without.
LEMMA BeginAnswered ==
    ASSUME TypeOK, BlobInv, HostServes("begin"), down' = Tail(down), BlobsGrow,
           NEW k \in {"pipe", "nopipe"}, NEW h \in Handles \cup {None},
           HostReply(Msg(k, h)), GoodReply(Msg(k, h)),
           UNCHANGED <<batch, plug>>, host'.serving = None, host'.closed = host.closed
    PROVE  /\ up' \in Seq(UpMsg) /\ down' \in Seq(DownMsg)
           /\ EndsSound' /\ CallsInOnePlace' /\ CallsAwaited' /\ MessagesSound'
<1> DEFINE m == Msg(k, h)
<1>1. m \in UpMsg /\ m.kind = k /\ k \in BlobReply
  BY MsgTyped DEF BlobReply
<1> HIDE DEF m
<1>2. /\ down' \in Seq(DownMsg) /\ 1 \in 1..Len(down)
      /\ Head(down) = down[1] /\ down[1].kind = "begin" /\ host.serving = None
      /\ \A i \in 1..Len(down') : \E j \in 1..Len(down) : down'[i] = down[j]
      /\ ~plug.done => Free(down', BlobCall) /\ Free(up, BlobReply)
  BY HostTakes DEF BlobCall
<1>3. HostReply(m) /\ GoodReply(m)
  BY DEF m
<1>4. /\ up' \in Seq(UpMsg) /\ ((plug.done \/ plug.child = "none") => up' = <<>>)
      /\ \A i \in 1..Len(up') : up'[i] = m \/ \E j \in 1..Len(up) : up'[i] = up[j]
      /\ Free(up, BlobReply) => Single(up', BlobReply)
  BY <1>1, <1>3, HostReplies DEF BlobInv
<1>5. EndsSound'
  BY <1>4 DEF BlobInv, EndsSound, Running
<1>6. MessagesSound'
  BY <1>2, <1>3, <1>4, OldMessages, GoodMessages DEF BlobInv, SameNode
<1>7. CallsInOnePlace'
  BY <1>2, <1>4 DEF CallsInOnePlace, Free, Single
<1>8. CallsAwaited'
  <2>1. ~plug.done => batch.pc = "begin"
    BY <1>2 DEF BlobInv, CallsAwaited
  <2>2. ~plug.done => \A i \in 1..Len(down') : down'[i].kind \notin {"begin", "finish"}
    BY <1>2 DEF Free, BlobCall
  <2>3. ~plug.done => \A i \in 1..Len(up') : up'[i].kind \notin {"id", "noid"}
    BY <1>1, <1>2, <1>4 DEF Free, BlobReply
  <2> QED BY <2>1, <2>2, <2>3 DEF CallsAwaited
<1> QED BY <1>2, <1>4, <1>5, <1>6, <1>7, <1>8

LEMMA BeginKeeps ==
    ASSUME TypeOK, BlobInv, Begin
    PROVE  TypeOK' /\ BlobInv'
<1>1. PICK h : h = host.next + 1
  OBVIOUS
<1>2. /\ HostServes("begin") /\ down' = Tail(down)
      /\ UNCHANGED <<run, err, answer, ctxDone, plug, batch, result, faults>>
  BY DEF Begin
<1>3. /\ host \in Host /\ blobs \in [Handles -> Blob \cup {NoBlob}]
      /\ host.next \in Handles \cup {None} /\ host.serving = None
      /\ HandlesFresh /\ BatchSound /\ ReceiptIsComplete
  BY <1>2 DEF TypeOK, BlobInv, HostServes, Host
<1>4. host.next \in Nat
  <2>1. Handles \subseteq Nat /\ None \in Nat
    BY ConstantTypes
  <2> QED BY <1>3, <2>1
<1>5. CASE BeginAllowed /\ h \in Handles
  <2>1. /\ host' = [host EXCEPT !.open = @ \cup {h}, !.next = h]
        /\ HostReply(Msg("pipe", h))
    BY <1>1, <1>5 DEF Begin
  <2>2. PICK b : /\ b = [cap |-> batch.cap, node |-> batch.node, full |-> FALSE,
                         writer |-> Connected, commit |-> "streaming"]
                 /\ blobs' = [blobs EXCEPT ![h] = b]
    BY <1>1, <1>5 DEF Begin
  <2>3. batch.cap \in Captures /\ batch.node \in 1..NNodes
    <3>1. down[1].kind = "begin" /\ 1 \in 1..Len(down)
      BY <1>2, HostTakes DEF BlobCall
    <3> QED BY <3>1 DEF BlobInv, MessagesSound
  <2>4. b \in Blob /\ b.cap = batch.cap /\ b.node = batch.node
    <3>1. Connected \in BOOLEAN
      BY DEF Connected, Running, TypeOK, Plug, Host
    <3> QED BY <2>2, <2>3, <3>1 DEF Blob
  <2>5. /\ host' \in Host /\ host'.next = h /\ host'.serving = None
        /\ host'.closed = host.closed
    BY <1>3, <1>5, <2>1 DEF Host
  <2>6. blobs[h] = NoBlob
    BY <1>1, <1>3, <1>4, <1>5 DEF HandlesFresh
  <2>7. /\ blobs' \in [Handles -> Blob \cup {NoBlob}] /\ blobs'[h] = b
        /\ \A g \in Handles : g # h => blobs'[g] = blobs[g]
    BY <1>3, <1>5, <2>2, <2>4
  <2>8. BlobsGrow
    BY <2>6, <2>7 DEF BlobsGrow, Later
  <2>9. HandlesFresh'
    <3>1. ASSUME NEW g \in Handles, g > h PROVE g > host.next /\ g # h
      BY <1>1, <1>4, <3>1, ConstantTypes
    <3> QED BY <1>3, <2>5, <2>7, <3>1 DEF HandlesFresh
  <2>10. GoodReply(Msg("pipe", h))
    <3>1. Msg("pipe", h).kind = "pipe" /\ Msg("pipe", h).h = h
      BY DEF Msg
    <3> QED BY <1>2, <1>5, <2>4, <2>7, <3>1, BlobIsABlob DEF GoodReply
  <2>11. /\ up' \in Seq(UpMsg) /\ down' \in Seq(DownMsg)
         /\ EndsSound' /\ CallsInOnePlace' /\ CallsAwaited' /\ MessagesSound'
    BY <1>2, <1>5, <2>1, <2>5, <2>8, <2>10, BeginAnswered
  <2>12. BatchSound' /\ ReceiptIsComplete'
    BY <1>2, <1>3, <2>8, BatchUnchanged, ReceiptsStay
  <2>13. TypeOK'
    BY <1>2, <2>5, <2>7, <2>11 DEF TypeOK
  <2> QED BY <2>9, <2>11, <2>12, <2>13 DEF BlobInv
<1>6. CASE ~(BeginAllowed /\ h \in Handles)
  <2>1. UNCHANGED <<host, blobs>> /\ HostReply(Msg("nopipe", None))
    BY <1>1, <1>6 DEF Begin
  <2>2. BlobsGrow
    BY <2>1, BlobsUnchanged
  <2>3. GoodReply(Msg("nopipe", None))
    BY DEF GoodReply, Msg
  <2>4. /\ up' \in Seq(UpMsg) /\ down' \in Seq(DownMsg)
        /\ EndsSound' /\ CallsInOnePlace' /\ CallsAwaited' /\ MessagesSound'
    BY <1>2, <1>3, <2>1, <2>2, <2>3, BeginAnswered
  <2>5. BatchSound' /\ ReceiptIsComplete' /\ HandlesFresh'
    BY <1>2, <1>3, <2>1, <2>2, BatchUnchanged, ReceiptsStay DEF HandlesFresh
  <2>6. TypeOK'
    BY <1>2, <2>1, <2>4 DEF TypeOK
  <2> QED BY <2>4, <2>5, <2>6 DEF BlobInv
<1> QED BY <1>5, <1>6

\* finish is taken: the handler waits for the commit.
LEMMA FinishTakeKeeps ==
    ASSUME TypeOK, BlobInv, FinishTake
    PROVE  TypeOK' /\ BlobInv'
<1>1. PICK h : h = Head(down).h
  OBVIOUS
<1>2. /\ HostServes("finish") /\ down' = Tail(down)
      /\ host' = [host EXCEPT !.open = @ \ {h}, !.serving = h]
      /\ UNCHANGED <<run, err, answer, ctxDone, up, blobs, plug, batch, result, faults>>
  BY <1>1 DEF FinishTake
<1>3. /\ down' \in Seq(DownMsg) /\ 1 \in 1..Len(down)
      /\ Head(down) = down[1] /\ down[1].kind = "finish"
      /\ \A i \in 1..Len(down') : \E j \in 1..Len(down) : down'[i] = down[j]
      /\ ~plug.done => Free(down', BlobCall) /\ Free(up, BlobReply)
  BY <1>2, HostTakes DEF BlobCall
<1>4. h \in Handles /\ blobs[h] # NoBlob
  BY <1>1, <1>3 DEF BlobInv, MessagesSound
<1>5. /\ host \in Host /\ BatchSound /\ ReceiptIsComplete /\ HandlesFresh /\ EndsSound
  BY DEF TypeOK, BlobInv
<1>6. /\ host' \in Host /\ host'.serving = h /\ host'.next = host.next
      /\ host'.closed = host.closed
  BY <1>2, <1>4, <1>5 DEF Host
<1>7. BlobsGrow
  BY <1>2, BlobsUnchanged
<1>8. TypeOK'
  BY <1>2, <1>3, <1>6 DEF TypeOK
<1>9. HandlesFresh' /\ BatchSound' /\ ReceiptIsComplete' /\ EndsSound'
  BY <1>2, <1>5, <1>6, <1>7, BatchUnchanged, ReceiptsStay
     DEF HandlesFresh, EndsSound, Running
<1>10. MessagesSound'
  <2>1. host'.serving # None => blobs'[host'.serving] # NoBlob
    BY <1>2, <1>4, <1>6
  <2>2. SameNode
    BY <1>2 DEF SameNode
  <2> QED BY <1>2, <1>3, <1>7, <2>1, <2>2, OldMessages, GoodMessages DEF BlobInv
<1>11. CallsInOnePlace'
  BY <1>2, <1>3 DEF CallsInOnePlace, Free, Single
<1>12. CallsAwaited'
  <2>1. ~plug.done => batch.pc = "finish" /\ h = batch.h
    BY <1>1, <1>3 DEF BlobInv, CallsAwaited
  <2>2. ~plug.done => \A i \in 1..Len(down') : down'[i].kind \notin {"begin", "finish"}
    BY <1>3 DEF Free, BlobCall
  <2>3. ~plug.done => \A i \in 1..Len(up) : up[i].kind \notin {"pipe", "nopipe", "id", "noid"}
    BY <1>3 DEF Free, BlobReply
  <2> QED BY <1>2, <1>6, <2>1, <2>2, <2>3 DEF CallsAwaited
<1> QED BY <1>8, <1>9, <1>10, <1>11, <1>12 DEF BlobInv

\* finish is answered: the id of what was stored, or an error.
LEMMA FinishReplyKeeps ==
    ASSUME TypeOK, BlobInv, FinishReply
    PROVE  TypeOK' /\ BlobInv'
<1>1. PICK h : h = host.serving
  OBVIOUS
<1>2. PICK k : k = IF Finished(h) /\ blobs[h].commit # "failed" THEN "id" ELSE "noid"
  OBVIOUS
<1>3. /\ h # None /\ HostReply(Msg(k, h)) /\ host' = [host EXCEPT !.serving = None]
      /\ UNCHANGED <<run, err, answer, ctxDone, down, blobs, plug, batch, result, faults>>
  BY <1>1, <1>2 DEF FinishReply
<1>4. /\ host \in Host /\ BatchSound /\ ReceiptIsComplete /\ HandlesFresh /\ EndsSound
      /\ down \in Seq(DownMsg)
  BY DEF TypeOK, BlobInv
<1>5. h \in Handles /\ blobs[h] # NoBlob
  BY <1>1, <1>3, <1>4 DEF Host, BlobInv, MessagesSound
<1>6. k = "id" => blobs[h].commit = "stored"
  BY <1>2, <1>5, BlobFacts DEF Finished
<1>7. /\ host' \in Host /\ host'.serving = None /\ host'.next = host.next
      /\ host'.closed = host.closed
  BY <1>3, <1>4 DEF Host
<1>8. PICK m \in UpMsg : m = Msg(k, h) /\ m.kind = k /\ m.h = h
  BY <1>2, <1>5, MsgTyped DEF BlobReply
<1>9. /\ up' \in Seq(UpMsg) /\ ((plug.done \/ plug.child = "none") => up' = <<>>)
      /\ \A i \in 1..Len(up') : up'[i] = m \/ \E j \in 1..Len(up) : up'[i] = up[j]
      /\ Free(up, BlobReply) => Single(up', BlobReply)
  BY <1>3, <1>4, <1>8, HostReplies
<1>10. BlobsGrow
  BY <1>3, BlobsUnchanged
<1>11. TypeOK'
  BY <1>3, <1>7, <1>9 DEF TypeOK
<1>12. HandlesFresh' /\ BatchSound' /\ ReceiptIsComplete'
  BY <1>3, <1>4, <1>7, <1>10, BatchUnchanged, ReceiptsStay DEF HandlesFresh
<1>13. EndsSound'
  BY <1>3, <1>4, <1>7, <1>9 DEF EndsSound, Running
<1>14. MessagesSound'
  <2>1. GoodReply(m)
    BY <1>2, <1>3, <1>5, <1>6, <1>8 DEF GoodReply
  <2>2. SameNode
    BY <1>3 DEF SameNode
  <2> QED BY <1>3, <1>7, <1>9, <1>10, <2>1, <2>2, OldMessages, GoodMessages DEF BlobInv
<1>15. ~plug.done => Free(down, BlobCall) /\ Free(up, BlobReply)
  BY <1>1, <1>3 DEF BlobInv, CallsInOnePlace
<1>16. CallsInOnePlace'
  BY <1>3, <1>7, <1>9, <1>15 DEF CallsInOnePlace, Free, Single
<1>17. CallsAwaited'
  <2>1. ~plug.done => batch.pc = "finish" /\ h = batch.h
    BY <1>1, <1>3 DEF BlobInv, CallsAwaited
  <2>2. ~plug.done => \A i \in 1..Len(down) : down[i].kind \notin {"begin", "finish"}
    BY <1>15 DEF Free, BlobCall
  <2>3. ~plug.done => \A i \in 1..Len(up') :
                         /\ up'[i].kind \notin {"pipe", "nopipe"}
                         /\ up'[i].kind \in {"id", "noid"} => up'[i].h = h
    BY <1>2, <1>8, <1>9, <1>15 DEF Free, BlobReply
  <2> QED BY <1>3, <1>7, <2>1, <2>2, <2>3 DEF CallsAwaited
<1> QED BY <1>11, <1>12, <1>13, <1>14, <1>16, <1>17 DEF BlobInv


-----------------------------------------------------------------------------
(* The plugin's batch handler.                                              *)

LEMMA PBatchKeeps ==
    ASSUME TypeOK, BlobInv, PBatch
    PROVE  TypeOK' /\ BlobInv'
<1>1. /\ PServes("batch") /\ up' = Tail(up)
      /\ UNCHANGED <<run, err, answer, ctxDone, down, host, blobs, plug, result, faults>>
  BY DEF PBatch
<1>2. /\ ~plug.done /\ plug.child = "running" /\ up' \in Seq(UpMsg)
      /\ SameOrFewer(up, up', BlobReply) /\ batch.pc \in {"idle", "over"}
  BY <1>1, PluginReads DEF BlobInv, BlobReply
<1>3. /\ batch' \in Batch /\ batch'.pc = "next" /\ batch'.cap = 1 /\ batch'.node = 1
  <2>1. batch \in Batch /\ 1 \in Captures
    BY ConstantTypes DEF TypeOK
  <2>2. batch' = CaptureAt(1)
    BY DEF PBatch
  <2> QED BY <2>1, <2>2, CaptureTyped DEF CaptureAt
<1>4. BlobsGrow
  BY <1>1, BlobsUnchanged
<1>5. Quiet
  BY <1>2, NotWaiting DEF BlobInv
<1>6. Quiet'
  BY <1>1, <1>2, <1>5 DEF Quiet, SameOrFewer
<1>7. TypeOK'
  BY <1>1, <1>2, <1>3 DEF TypeOK
<1>8. HandlesFresh' /\ EndsSound' /\ ReceiptIsComplete'
  BY <1>1, <1>2, <1>4, ReceiptsStay DEF BlobInv, HandlesFresh, EndsSound, Running
<1>9. BatchSound'
  <2>1. 1 \in Captures /\ 1 \in 1..NNodes /\ 1..(1 - 1) = {}
    BY ConstantTypes
  <2> QED BY <1>1, <1>2, <1>3, <2>1 DEF BatchSound, Running
<1>10. MessagesSound'
  <2>1. \A i \in 1..Len(up') : up'[i].kind \notin BlobReply
    BY <1>6 DEF Quiet, Free
  <2>2. \A i \in 1..Len(down') : down'[i].kind \notin BlobCall
    BY <1>6 DEF Quiet, Free
  <2>3. host'.serving = None
    BY <1>6 DEF Quiet
  <2> QED BY <2>1, <2>2, <2>3, GoodMessages DEF GoodReply, GoodCall, BlobReply, BlobCall
<1> QED BY <1>6, <1>7, <1>8, <1>9, <1>10, QuietCalls DEF BlobInv

\* A node that could not be written: the next capture, or the batch's end.
LEMMA FailedKeeps ==
    ASSUME TypeOK, BlobInv, Working, Failed, BlobsGrow, NoneBegun,
           UNCHANGED <<run, err, answer, ctxDone, host, plug>>,
           faults' \in 0..MaxFaults,
           up' \in Seq(UpMsg), plug.done => up' = <<>>,
           ~plug.done => Free(down, BlobCall) /\ Free(up', BlobReply) /\ host.serving = None
    PROVE  TypeOK' /\ BlobInv'
<1>1. /\ batch' \in Batch /\ result' \in [Captures -> {"none", "receipt", "error"}]
      /\ \A c \in Captures : result'[c] = "receipt" => result[c] = "receipt"
      /\ \/ batch'.pc = "over" /\ batch'.cap = batch.cap /\ batch'.node = batch.node
         \/ /\ batch'.pc = "next" /\ batch'.cap \in Captures /\ batch'.node = 1
      /\ \/ down' = down
         \/ \E m \in DownMsg : /\ down' = Append(down, m) /\ Connected
                               /\ \/ m.kind \in {"result", "failed"}
                                  \/ batch'.refused /\ m.kind = "unsupported"
  BY FailedFields DEF BlobInv
<1>2. /\ down \in Seq(DownMsg) /\ BatchSound /\ EndsSound /\ MessagesSound /\ HandlesFresh
      /\ ReceiptIsComplete
  BY DEF BlobInv, TypeOK
<1>3. /\ down' \in Seq(DownMsg) /\ SameOrFewer(down, down', BlobCall)
      /\ \A i \in 1..Len(down') : down'[i].kind \in BlobCall =>
            \E j \in 1..Len(down) : down'[i] = down[j]
  <2>1. CASE down' = down
    BY <1>2, <2>1, UnchangedFewer
  <2>2. CASE \E m \in DownMsg : /\ down' = Append(down, m)
                                /\ m.kind \in {"result", "failed", "unsupported"}
    <3>1. PICK m \in DownMsg : /\ down' = Append(down, m)
                               /\ m.kind \in {"result", "failed", "unsupported"}
      BY <2>2
    <3>2. m.kind \notin BlobCall
      BY <3>1 DEF BlobCall
    <3>3. SameOrFewer(down, down', BlobCall) /\ down' \in Seq(DownMsg)
      BY <1>2, <3>1, <3>2, AppendFewer, AppendElements
    <3> QED BY <3>3 DEF SameOrFewer
  <2> QED BY <1>1, <2>1, <2>2
<1>4. TypeOK'
  BY <1>1, <1>3 DEF TypeOK, BlobsGrow
<1>5. HandlesFresh' /\ ReceiptIsComplete'
  BY <1>1, <1>2, ReceiptsStay DEF HandlesFresh, NoneBegun
<1>6. EndsSound'
  BY <1>2 DEF EndsSound, BatchSound, Running
<1>7. BatchSound'
  <2>1. CASE batch'.pc = "over"
    BY <2>1 DEF BatchSound, Working
  <2>2. CASE batch'.pc = "next" /\ batch'.cap \in Captures /\ batch'.node = 1
    <3>1. 1 \in 1..NNodes /\ 1..(1 - 1) = {}
      BY ConstantTypes
    <3>2. Running'
      BY <1>2 DEF BatchSound, Running
    <3> QED BY <2>2, <3>1, <3>2 DEF BatchSound
  <2> QED BY <1>1, <2>1, <2>2
<1>8. \A i \in 1..Len(up') : up'[i].kind \notin BlobReply
  BY EmptyFewer DEF Free
<1>9. MessagesSound'
  <2>1. \A i \in 1..Len(up') : GoodReply(up'[i])
    BY <1>8 DEF GoodReply, BlobReply
  <2>2. batch'.cap \in Captures /\ batch'.node \in 1..NNodes
    BY <1>1, <1>2, ConstantTypes DEF BatchSound
  <2>3. ASSUME NEW i \in 1..Len(down') PROVE GoodCall(down'[i])
    <3>1. CASE down'[i].kind \in BlobCall
      <4>1. PICK j \in 1..Len(down) : down'[i] = down[j]
        BY <1>3, <3>1
      <4> QED BY <1>2, <2>2, <4>1 DEF MessagesSound, GoodCall, BlobsGrow
    <3>2. CASE down'[i].kind \notin BlobCall
      BY <3>2 DEF GoodCall, BlobCall
    <3> QED BY <3>1, <3>2
  <2>4. host'.serving # None => blobs'[host'.serving] # NoBlob
    BY <1>2, OldMessages
  <2> QED BY <2>1, <2>3, <2>4, GoodMessages
<1>10. CallsInOnePlace' /\ CallsAwaited'
  <2>1. CASE plug.done
    BY <2>1 DEF CallsInOnePlace, CallsAwaited
  <2>2. CASE ~plug.done
    <3>1. Quiet'
      BY <1>3, <2>2 DEF Quiet, SameOrFewer
    <3> QED BY <3>1, QuietCalls
  <2> QED BY <2>1, <2>2
<1> QED BY <1>4, <1>5, <1>6, <1>7, <1>9, <1>10 DEF BlobInv

\* A call to the host: its place is in the queue.
LEMMA PCallKeeps ==
    ASSUME TypeOK, BlobInv, PBegin \/ PFinish
    PROVE  TypeOK' /\ BlobInv'
<1>1. PICK from \in {"next", "send"}, to \in {"begin", "finish"} :
         /\ PCall(from, to, to)
         /\ from = "next" <=> to = "begin"
  BY DEF PBegin, PFinish
<1>2. /\ Running /\ batch.pc = from
      /\ UNCHANGED <<run, err, answer, ctxDone, up, host, blobs, plug, faults>>
  BY <1>1 DEF PCall
<1>3. /\ up \in Seq(UpMsg) /\ down \in Seq(DownMsg) /\ batch \in Batch /\ faults \in 0..MaxFaults
      /\ BatchSound /\ EndsSound /\ CallsAwaited /\ HandlesFresh /\ ReceiptIsComplete
      /\ MessagesSound
  BY DEF TypeOK, BlobInv
<1>4. Working
  BY <1>1, <1>2 DEF Working
<1>5. BlobsGrow /\ NoneBegun
  BY <1>2, BlobsUnchanged
<1>6. CASE plug.done
  <2>1. Failed
    BY <1>1, <1>6 DEF PCall
  <2> QED BY <1>2, <1>3, <1>4, <1>5, <1>6, <2>1, FailedKeeps DEF EndsSound
<1>7. CASE ~plug.done
  <2>1. /\ PReply(Msg(to, batch.h)) /\ batch' = [batch EXCEPT !.pc = to]
        /\ UNCHANGED result
    BY <1>1, <1>7 DEF PCall
  <2>2. PICK h \in Handles \cup {None} : h = batch.h
    BY <1>3 DEF Batch
  <2>3. PICK m \in DownMsg : m = Msg(to, batch.h) /\ m.kind = to /\ m.h = h
    BY <2>2, MsgTyped DEF BlobCall
  <2>4. /\ batch' \in Batch /\ batch'.pc = to /\ batch'.cap = batch.cap
        /\ batch'.node = batch.node /\ batch'.h = batch.h
    BY <1>1, <1>3, <2>1 DEF Batch
  <2>5. Quiet
    BY <1>1, <1>2, <1>3, <1>7, NotWaiting
  <2>6. /\ down' \in Seq(DownMsg) /\ Single(down', BlobCall)
        /\ \A i \in 1..Len(down') : down'[i] = m \/ \E j \in 1..Len(down) : down'[i] = down[j]
    <3>1. CASE Connected
      <4>1. down' = Append(down, m)
        BY <2>1, <2>3, <3>1 DEF PReply
      <4>2. Single(down', BlobCall) /\ down' \in Seq(DownMsg)
        BY <1>3, <2>5, <4>1, AppendKinds, AppendElements DEF Quiet
      <4>3. ASSUME NEW i \in 1..Len(down')
            PROVE  down'[i] = m \/ \E j \in 1..Len(down) : down'[i] = down[j]
        <5>1. CASE i = Len(down) + 1
          BY <1>3, <4>1, <5>1, AppendElements
        <5>2. CASE i # Len(down) + 1
          <6>1. i \in 1..Len(down)
            BY <1>3, <4>1, <5>2, AppendElements
          <6> QED BY <1>3, <4>1, <6>1, AppendElements
        <5> QED BY <5>1, <5>2
      <4> QED BY <4>2, <4>3
    <3>2. CASE ~Connected
      BY <1>3, <2>1, <2>5, <3>2 DEF PReply, Quiet, Free, Single
    <3> QED BY <3>1, <3>2
  <2>7. TypeOK'
    BY <1>2, <2>1, <2>4, <2>6 DEF TypeOK
  <2>8. HandlesFresh' /\ EndsSound' /\ ReceiptIsComplete'
    BY <1>2, <1>3, <1>5, <2>1, ReceiptsStay DEF HandlesFresh, EndsSound, Running
  <2>9. BatchSound'
    <3>1. /\ batch'.cap \in Captures /\ batch'.node \in 1..NNodes
          /\ (\A n \in 1..(batch.node - 1) : Stored(batch.cap, n))'
      BY <1>3, <1>4, <1>5, <2>4, BatchStays
    <3>2. batch'.pc \in {"copy", "send", "finish"} =>
             ForNode(batch.h)' /\ blobs'[batch'.h].full
      BY <1>1, <1>2, <1>3, <1>5, <2>4, BlobAtHandStays DEF BatchSound
    <3> QED BY <1>2, <3>1, <3>2 DEF BatchSound, Running
  <2>10. MessagesSound'
    <3>1. GoodCall(m)
      <4>1. to = "begin" => batch'.cap \in Captures /\ batch'.node \in 1..NNodes
        BY <1>3, <1>4, <2>4 DEF BatchSound
      <4>2. to = "finish" => h \in Handles /\ blobs'[h] # NoBlob
        BY <1>1, <1>2, <1>3, <2>2 DEF BatchSound, ForNode
      <4> QED BY <2>3, <4>1, <4>2 DEF GoodCall
    <3>2. SameNode
      BY <2>4 DEF SameNode
    <3> QED BY <1>2, <1>3, <1>5, <2>6, <3>1, <3>2, OldMessages, GoodMessages
  <2>11. CallsInOnePlace'
    BY <1>2, <2>5, <2>6 DEF CallsInOnePlace, Quiet, Free, Single
  <2>12. CallsAwaited'
    <3>1. \A i \in 1..Len(down) : down[i].kind \notin {"begin", "finish"}
      BY <2>5 DEF Quiet, Free, BlobCall
    <3>2. \A i \in 1..Len(up) : up[i].kind \notin {"pipe", "nopipe", "id", "noid"}
      BY <2>5 DEF Quiet, Free, BlobReply
    <3> QED BY <1>2, <2>2, <2>3, <2>4, <2>5, <2>6, <3>1, <3>2 DEF CallsAwaited, Quiet
  <2> QED BY <2>7, <2>8, <2>9, <2>10, <2>11, <2>12 DEF BlobInv
<1> QED BY <1>6, <1>7


\* The reply to a call is read by the handler that waits for it.
LEMMA PluginAnswered ==
    ASSUME TypeOK, BlobInv, NEW k \in BlobReply, PServes(k), up' = Tail(up)
    PROVE  /\ ~plug.done /\ plug.child = "running" /\ Running
           /\ up' \in Seq(UpMsg) /\ 1 \in 1..Len(up) /\ Head(up) = up[1] /\ up[1].kind = k
           /\ Free(down, BlobCall) /\ Free(up', BlobReply) /\ host.serving = None
<1>1. /\ ~plug.done /\ plug.child = "running" /\ Running
      /\ up # <<>> /\ Tail(up) \in Seq(UpMsg)
      /\ Head(up) = up[1] /\ 1 \in 1..Len(up) /\ Head(up).kind = k
  BY PluginReads DEF BlobInv
<1> QED BY <1>1, Answered DEF BlobInv

\* No call is under way after the step, and no message is about a blob.
LEMMA QuietMessages ==
    ASSUME Quiet'
    PROVE  MessagesSound'
<1>1. /\ \A i \in 1..Len(up') : up'[i].kind \notin {"pipe", "nopipe", "id", "noid"}
      /\ \A i \in 1..Len(down') : down'[i].kind \notin {"begin", "finish"}
      /\ host'.serving = None
  BY DEF Quiet, Free, BlobReply, BlobCall
<1> QED BY <1>1 DEF MessagesSound

LEMMA PPipeKeeps ==
    ASSUME TypeOK, BlobInv, PPipe
    PROVE  TypeOK' /\ BlobInv'
<1>1. PICK h : h = Head(up).h
  OBVIOUS
<1>2. /\ PServes("pipe") /\ batch.pc = "begin" /\ up' = Tail(up)
      /\ batch' = [batch EXCEPT !.pc = "copy", !.h = h]
      /\ UNCHANGED <<run, err, answer, ctxDone, down, host, blobs, plug, result, faults>>
  BY <1>1 DEF PPipe
<1>3. /\ ~plug.done /\ plug.child = "running" /\ Running
      /\ up' \in Seq(UpMsg) /\ 1 \in 1..Len(up) /\ Head(up) = up[1] /\ up[1].kind = "pipe"
      /\ Free(down, BlobCall) /\ Free(up', BlobReply) /\ host.serving = None
  BY <1>2, PluginAnswered DEF BlobReply
<1>4. ForNode(h) /\ h \in Handles
  BY <1>1, <1>3 DEF BlobInv, MessagesSound, ForNode
<1>5. /\ batch' \in Batch /\ batch'.pc = "copy" /\ batch'.cap = batch.cap
      /\ batch'.node = batch.node /\ batch'.h = h
  BY <1>2, <1>4 DEF TypeOK, Batch
<1>6. BlobsGrow
  BY <1>2, BlobsUnchanged
<1>7. Quiet'
  BY <1>2, <1>3 DEF Quiet
<1>8. TypeOK'
  BY <1>2, <1>3, <1>5 DEF TypeOK
<1>9. HandlesFresh' /\ EndsSound' /\ ReceiptIsComplete'
  BY <1>2, <1>3, <1>6, ReceiptsStay DEF BlobInv, HandlesFresh, EndsSound, Running
<1>10. BatchSound'
  <2>1. /\ batch'.cap \in Captures /\ batch'.node \in 1..NNodes
        /\ (\A n \in 1..(batch.node - 1) : Stored(batch.cap, n))'
    BY <1>2, <1>5, <1>6, BatchStays DEF BlobInv, Working
  <2>2. ForNode(h)'
    BY <1>4, <1>5, <1>6, ForNodeStays
  <2>3. ForNode(batch.h)'
    BY <1>5, <2>2 DEF ForNode
  <2> QED BY <1>2, <1>3, <1>5, <2>1, <2>3 DEF BatchSound, Running
<1> QED BY <1>7, <1>8, <1>9, <1>10, QuietCalls, QuietMessages DEF BlobInv

\* The pipe of the node at hand is written to its end, or closed before.
LEMMA PipeClosed ==
    ASSUME TypeOK, BatchSound, batch.pc = "copy", NEW full \in BOOLEAN,
           \/ full /\ blobs' = [blobs EXCEPT ![batch.h].full = TRUE,
                                             ![batch.h].writer = FALSE]
           \/ ~full /\ blobs' = [blobs EXCEPT ![batch.h].writer = FALSE]
    PROVE  /\ BlobsGrow /\ NoneBegun
           /\ full => blobs'[batch.h].full
<1>1. PICK h : h = batch.h
  OBVIOUS
<1>2. h \in Handles /\ blobs[h] # NoBlob
  BY <1>1 DEF BatchSound, ForNode
<1>3. blobs[h] \in Blob /\ blobs \in [Handles -> Blob \cup {NoBlob}]
  BY <1>2, BlobFacts DEF TypeOK
<1>4. CASE full
  <2>1. PICK c \in Blob : c = [blobs[h] EXCEPT !.full = TRUE, !.writer = FALSE]
    BY <1>3 DEF Blob
  <2>2. c.full /\ Later(blobs[h], c)
    BY <1>3, <2>1 DEF Later, Blob
  <2>3. blobs' = [blobs EXCEPT ![h] = c]
    BY <1>1, <1>2, <1>3, <1>4, <2>1
  <2>4. blobs'[h] = c
    BY <1>2, <1>3, <2>3
  <2> QED BY <1>1, <1>2, <2>2, <2>3, <2>4, BlobChanged
<1>5. CASE ~full
  <2>1. PICK c \in Blob : c = [blobs[h] EXCEPT !.writer = FALSE]
    BY <1>3 DEF Blob
  <2>2. Later(blobs[h], c)
    BY <1>3, <2>1 DEF Later, Blob
  <2>3. blobs' = [blobs EXCEPT ![h] = c]
    BY <1>1, <1>5, <2>1
  <2> QED BY <1>2, <1>5, <2>2, <2>3, BlobChanged
<1> QED BY <1>4, <1>5

LEMMA PCopyKeeps ==
    ASSUME TypeOK, BlobInv, PCopy
    PROVE  TypeOK' /\ BlobInv'
<1>1. /\ Running /\ batch.pc = "copy" /\ batch' = [batch EXCEPT !.pc = "send"]
      /\ blobs' = [blobs EXCEPT ![batch.h].full = TRUE, ![batch.h].writer = FALSE]
      /\ UNCHANGED <<run, err, answer, ctxDone, up, down, host, plug, result, faults>>
  BY DEF PCopy
<1>2. BlobsGrow /\ NoneBegun /\ blobs'[batch.h].full
  <2>1. TRUE \in BOOLEAN
    OBVIOUS
  <2> QED BY <1>1, <2>1, PipeClosed DEF BlobInv
<1>3. /\ batch' \in Batch /\ batch'.pc = "send" /\ batch'.cap = batch.cap
      /\ batch'.node = batch.node /\ batch'.h = batch.h
  BY <1>1 DEF TypeOK, Batch
<1>4. /\ BatchSound /\ EndsSound /\ HandlesFresh /\ ReceiptIsComplete /\ MessagesSound
      /\ CallsAwaited /\ CallsInOnePlace
  BY DEF BlobInv
<1>5. TypeOK'
  BY <1>1, <1>2, <1>3 DEF TypeOK, BlobsGrow
<1>6. HandlesFresh' /\ EndsSound' /\ ReceiptIsComplete'
  BY <1>1, <1>2, <1>4, ReceiptsStay DEF HandlesFresh, EndsSound, Running, NoneBegun
<1>7. BatchSound'
  <2>1. /\ batch'.cap \in Captures /\ batch'.node \in 1..NNodes
        /\ (\A n \in 1..(batch.node - 1) : Stored(batch.cap, n))'
    BY <1>1, <1>2, <1>3, <1>4, BatchStays DEF Working
  <2>2. ForNode(batch.h)' /\ blobs'[batch'.h].full
    BY <1>1, <1>2, <1>3, <1>4, BlobAtHandStays DEF BatchSound
  <2> QED BY <1>1, <1>3, <2>1, <2>2 DEF BatchSound, Running
<1>8. MessagesSound'
  <2>1. SameNode
    BY <1>3 DEF SameNode
  <2> QED BY <1>1, <1>2, <1>4, <2>1, OldMessages, GoodMessages
<1>9. CallsInOnePlace' /\ CallsAwaited'
  <2>1. CASE plug.done
    BY <1>1, <2>1 DEF CallsInOnePlace, CallsAwaited
  <2>2. CASE ~plug.done
    <3>1. Quiet'
      BY <1>1, <1>4, <2>2, NotWaiting DEF Quiet
    <3> QED BY <3>1, QuietCalls
  <2> QED BY <2>1, <2>2
<1> QED BY <1>5, <1>6, <1>7, <1>8, <1>9 DEF BlobInv

LEMMA PCopyFailsKeeps ==
    ASSUME TypeOK, BlobInv, PCopyFails
    PROVE  TypeOK' /\ BlobInv'
<1>1. /\ Running /\ batch.pc = "copy" /\ Failed
      /\ blobs' = [blobs EXCEPT ![batch.h].writer = FALSE]
      /\ faults' \in {faults, faults + 1} /\ (faults' # faults => CanFault)
      /\ UNCHANGED <<run, err, answer, ctxDone, up, host, plug>>
  BY DEF PCopyFails, PCopyFailed
<1>2. BlobsGrow /\ NoneBegun
  <2>1. FALSE \in BOOLEAN
    OBVIOUS
  <2> QED BY <1>1, <2>1, PipeClosed DEF BlobInv
<1>3. faults' \in 0..MaxFaults
  BY <1>1, ConstantTypes DEF TypeOK, CanFault
<1>4. up \in Seq(UpMsg) /\ EndsSound /\ CallsAwaited /\ Working
  BY <1>1 DEF TypeOK, BlobInv, Working
<1>5. ~plug.done => Quiet
  BY <1>1, <1>4, NotWaiting
<1> QED BY <1>1, <1>2, <1>3, <1>4, <1>5, FailedKeeps DEF EndsSound, Quiet

LEMMA PCallFailsKeeps ==
    ASSUME TypeOK, BlobInv, PCallFails
    PROVE  TypeOK' /\ BlobInv'
<1>1. /\ Failed /\ batch.pc \in {"begin", "finish"}
      /\ UNCHANGED <<run, err, answer, ctxDone, host, blobs, plug, faults>>
      /\ \/ (PServes("nopipe") \/ PServes("noid")) /\ up' = Tail(up)
         \/ plug.done /\ up' = up
  BY DEF PCallFails
<1>2. Working /\ BlobsGrow /\ NoneBegun /\ faults' \in 0..MaxFaults /\ EndsSound
      /\ up \in Seq(UpMsg)
  BY <1>1, BlobsUnchanged DEF Working, TypeOK, BlobInv
<1>3. CASE (PServes("nopipe") \/ PServes("noid")) /\ up' = Tail(up)
  <2>1. /\ ~plug.done /\ up' \in Seq(UpMsg)
        /\ Free(down, BlobCall) /\ Free(up', BlobReply) /\ host.serving = None
    BY <1>3, PluginAnswered DEF BlobReply
  <2> QED BY <1>1, <1>2, <2>1, FailedKeeps
<1>4. CASE plug.done /\ up' = up
  BY <1>1, <1>2, <1>4, FailedKeeps DEF EndsSound
<1> QED BY <1>1, <1>3, <1>4

LEMMA PEOFKeeps ==
    ASSUME TypeOK, BlobInv, PEOF
    PROVE  TypeOK' /\ BlobInv'
<1>1. /\ Running /\ up = <<>> /\ host.closed /\ plug' = [plug EXCEPT !.done = TRUE]
      /\ UNCHANGED <<run, err, answer, ctxDone, up, down, host, blobs, batch, result,
                     faults>>
  BY DEF PEOF
<1>2. plug' \in Plug /\ plug'.child = plug.child /\ plug'.done
  BY <1>1 DEF TypeOK, Plug
<1>3. /\ BatchSound /\ HandlesFresh /\ ReceiptIsComplete /\ MessagesSound
  BY DEF BlobInv
<1>4. TypeOK'
  BY <1>1, <1>2 DEF TypeOK
<1>5. HandlesFresh' /\ ReceiptIsComplete'
  BY <1>1, <1>3 DEF HandlesFresh, ReceiptIsComplete
<1>6. EndsSound'
  BY <1>1, <1>2 DEF EndsSound, Running
<1>7. BatchSound' /\ MessagesSound'
  <2>1. BlobsGrow
    BY <1>1, BlobsUnchanged
  <2>2. /\ Working => /\ batch'.cap \in Captures /\ batch'.node \in 1..NNodes
                      /\ (\A n \in 1..(batch.node - 1) : Stored(batch.cap, n))'
    BY <1>1, <1>3, <2>1, BatchStays
  <2>3. batch.pc \in {"copy", "send", "finish"} =>
           ForNode(batch.h)' /\ (blobs[batch.h].full => blobs'[batch'.h].full)
    BY <1>1, <1>3, <2>1, BlobAtHandStays DEF BatchSound
  <2>4. Running'
    BY <1>1, <1>2 DEF Running
  <2>5. BatchSound'
    BY <1>1, <1>3, <2>2, <2>3, <2>4 DEF BatchSound, Working
  <2>6. SameNode
    BY <1>1 DEF SameNode
  <2>7. MessagesSound'
    BY <1>1, <1>3, <2>1, <2>6, OldMessages, GoodMessages
  <2> QED BY <2>5, <2>7
<1>8. CallsInOnePlace' /\ CallsAwaited'
  BY <1>2 DEF CallsInOnePlace, CallsAwaited
<1> QED BY <1>4, <1>5, <1>6, <1>7, <1>8 DEF BlobInv


\* The id of the node at hand: it is in the store, whole.
LEMMA PIdKeeps ==
    ASSUME TypeOK, BlobInv, PId
    PROVE  TypeOK' /\ BlobInv'
<1>1. /\ PServes("id") /\ batch.pc = "finish" /\ up' = Tail(up)
      /\ UNCHANGED <<run, err, answer, ctxDone, host, blobs, plug, faults>>
  BY DEF PId
<1>2. /\ ~plug.done /\ plug.child = "running" /\ Running
      /\ up' \in Seq(UpMsg) /\ 1 \in 1..Len(up) /\ Head(up) = up[1] /\ up[1].kind = "id"
      /\ Free(down, BlobCall) /\ Free(up', BlobReply) /\ host.serving = None
  BY <1>1, PluginAnswered DEF BlobReply
<1>3. /\ batch \in Batch /\ down \in Seq(DownMsg)
      /\ result \in [Captures -> {"none", "receipt", "error"}]
      /\ BatchSound /\ HandlesFresh /\ ReceiptIsComplete /\ CallsAwaited /\ MessagesSound
  BY DEF BlobInv, TypeOK
<1>4. PICK c, m : c = batch.cap /\ m = batch.node
  OBVIOUS
<1>5. c \in Captures /\ m \in 1..NNodes
  BY <1>1, <1>3, <1>4 DEF BatchSound, Working
<1>6. \A n \in 1..m : Stored(c, n)
  <2>1. \A n \in 1..(m - 1) : Stored(c, n)
    BY <1>1, <1>3, <1>4 DEF BatchSound, Working
  <2>2. up[1].h = batch.h /\ blobs[batch.h].commit = "stored"
    BY <1>2, <1>3 DEF CallsAwaited, MessagesSound
  <2>3. ForNode(batch.h) /\ blobs[batch.h].full
    BY <1>1, <1>3 DEF BatchSound
  <2>4. Stored(c, m)
    BY <1>4, <2>2, <2>3 DEF Stored, ForNode
  <2>5. \A n \in 1..m : n \in 1..(m - 1) \/ n = m
    BY <1>5
  <2> QED BY <2>1, <2>4, <2>5
<1>7. \A d, n : Stored(d, n) => Stored(d, n)'
  BY <1>1 DEF Stored
<1>8. CASE m < NNodes
  <2>1. batch' = [batch EXCEPT !.pc = "next", !.node = m + 1, !.h = None]
        /\ UNCHANGED <<down, result>>
    BY <1>4, <1>8 DEF PId
  <2>2. m + 1 \in 1..NNodes /\ m + 1 \in 0..NNodes /\ (m + 1) - 1 = m
    BY <1>5, <1>8, ConstantTypes
  <2>3. batch' \in Batch /\ batch'.pc = "next" /\ batch'.cap = c /\ batch'.node = m + 1
    BY <1>3, <1>4, <2>1, <2>2 DEF Batch
  <2>4. TypeOK'
    BY <1>1, <1>2, <2>1, <2>3 DEF TypeOK
  <2>5. Quiet'
    BY <1>1, <1>2, <2>1 DEF Quiet
  <2>6. HandlesFresh' /\ EndsSound' /\ ReceiptIsComplete'
    BY <1>1, <1>2, <1>3, <2>1 DEF HandlesFresh, EndsSound, Running, ReceiptIsComplete
  <2>7. BatchSound'
    <3>1. \A n \in 1..m : Stored(c, n)'
      BY <1>6, <1>7
    <3>2. (\A n \in 1..(batch.node - 1) : Stored(batch.cap, n))'
      BY <2>2, <2>3, <3>1 DEF Stored
    <3>3. Running'
      BY <1>1, <1>2 DEF Running
    <3> QED BY <1>5, <2>2, <2>3, <3>2, <3>3 DEF BatchSound
  <2> QED BY <2>4, <2>5, <2>6, <2>7, QuietCalls, QuietMessages DEF BlobInv
<1>9. CASE ~(m < NNodes)
  <2>1. result' = [result EXCEPT ![c] = "receipt"]
    BY <1>4, <1>9 DEF PId
  <2>2. /\ result' \in [Captures -> {"none", "receipt", "error"}]
        /\ \A d \in Captures : d # c => result'[d] = result[d]
    BY <1>3, <2>1
  <2>3. m = NNodes
    BY <1>5, <1>9, ConstantTypes
  <2>4. ReceiptIsComplete'
    <3>1. \A d \in Captures : result'[d] = "receipt" =>
             \A n \in 1..NNodes : Stored(d, n)'
      BY <1>3, <1>6, <1>7, <2>2, <2>3, ReceiptsOf
    <3> QED BY <3>1, ReceiptsAfter
  <2>5. /\ batch' \in Batch /\ down' \in Seq(DownMsg) /\ Free(down', BlobCall)
        /\ \/ batch'.pc = "next" /\ batch'.cap \in Captures /\ batch'.node = 1
           \/ batch'.pc = "over"
    <3>1. CASE MoreCaptures
      <4>1. batch' = CaptureAt(c + 1) /\ down' = down
        BY <1>4, <1>9, <3>1 DEF PId
      <4>2. c + 1 \in Captures
        BY <1>4, <1>5, <3>1, ConstantTypes DEF MoreCaptures, Captures
      <4>3. batch' \in Batch
        BY <1>3, <4>1, <4>2, CaptureTyped
      <4> QED BY <1>2, <1>3, <4>1, <4>2, <4>3 DEF CaptureAt
    <3>2. CASE ~MoreCaptures
      <4>1. batch' = [batch EXCEPT !.pc = "over"] /\ PReply(Msg("result", None))
        BY <1>4, <1>9, <3>2 DEF PId
      <4>2. batch' \in Batch /\ batch'.pc = "over"
        BY <1>3, <4>1 DEF Batch
      <4>3. PICK r \in DownMsg : r = Msg("result", None) /\ r.kind \notin BlobCall
        BY MsgTyped DEF BlobCall
      <4>4. down' = Append(down, r) \/ down' = down
        BY <4>1, <4>3 DEF PReply
      <4>5. Free(Append(down, r), BlobCall) /\ Append(down, r) \in Seq(DownMsg)
        BY <1>2, <1>3, <4>3, AppendKinds, AppendElements
      <4> QED BY <1>2, <1>3, <4>2, <4>4, <4>5
    <3> QED BY <3>1, <3>2
  <2>6. TypeOK'
    BY <1>1, <1>2, <2>2, <2>5 DEF TypeOK
  <2>7. Quiet'
    BY <1>1, <1>2, <2>5 DEF Quiet
  <2>8. HandlesFresh' /\ EndsSound'
    BY <1>1, <1>2, <1>3 DEF HandlesFresh, EndsSound, Running
  <2>9. BatchSound'
    <3>1. 1 \in 1..NNodes /\ 1..(1 - 1) = {}
      BY ConstantTypes
    <3>2. Running'
      BY <1>1, <1>2 DEF Running
    <3> QED BY <2>5, <3>1, <3>2 DEF BatchSound, Working
  <2> QED BY <2>4, <2>6, <2>7, <2>8, <2>9, QuietCalls, QuietMessages DEF BlobInv
<1> QED BY <1>8, <1>9

LEMMA InitHolds == Init => IInv
<1> SUFFICES ASSUME Init PROVE IInv
  OBVIOUS
<1>1. /\ up = <<>> /\ down = <<>> /\ up \in Seq(UpMsg) /\ down \in Seq(DownMsg)
      /\ Len(up) = 0 /\ Len(down) = 0 /\ 1..Len(up) = {} /\ 1..Len(down) = {}
  BY EmptyQueue DEF Init
<1>2. TypeOK
  <2>1. blobs \in [Handles -> Blob \cup {NoBlob}] /\ result \in [Captures -> {"none", "receipt", "error"}]
    BY DEF Init
  <2>2. host \in Host /\ plug \in Plug
    BY DEF Init, Host, Plug, None
  <2>3. batch \in Batch
    BY ConstantTypes DEF Init, Batch
  <2>4. faults \in 0..MaxFaults
    BY ConstantTypes DEF Init
  <2> QED BY <1>1, <2>1, <2>2, <2>3, <2>4 DEF Init, TypeOK, Errors
<1>3. HandlesFresh /\ BatchSound /\ EndsSound /\ ReceiptIsComplete
  BY <1>1 DEF Init, HandlesFresh, BatchSound, Working, EndsSound, Running, ReceiptIsComplete
<1>4. CallsInOnePlace /\ CallsAwaited /\ MessagesSound
  BY <1>1 DEF Init, CallsInOnePlace, CallsAwaited, MessagesSound, Free, Single
<1>5. SessionSound
  BY <1>1 DEF Init, SessionSound, Running
<1> QED BY <1>2, <1>3, <1>4, <1>5 DEF IInv, BlobInv

\* Every step keeps what the blobs of a receipt need.
LEMMA BlobsKept ==
    ASSUME IInv, [Next]_vars
    PROVE  TypeOK' /\ BlobInv'
<1>0. TypeOK /\ BlobInv /\ SessionSound
  BY DEF IInv
<1>1. CASE HostSession
  BY <1>0, <1>1, SessionKeeps, SessionTalks DEF HostSession
<1>2. CASE HostBlobs
  BY <1>0, <1>2, BeginKeeps, FinishTakeKeeps, FinishReplyKeeps, SessionTalks, CommitKeeps
     DEF HostBlobs
<1>3. CASE Plugin
  BY <1>0, <1>3, PluginSession, PBatchKeeps, PCallKeeps, PPipeKeeps, PCopyKeeps,
     PCopyFailsKeeps, PIdKeeps, PCallFailsKeeps, PEOFKeeps DEF Plugin
<1>4. CASE Ends
  BY <1>0, <1>4, EndsKeeps
<1>5. CASE CancelCapture \/ Done \/ UNCHANGED vars
  BY <1>0, <1>5, SessionKeeps DEF Done
<1> QED BY <1>1, <1>2, <1>3, <1>4, <1>5 DEF Next, Ends


-----------------------------------------------------------------------------
(* The end of the session.                                                  *)

\* The shutdown notification is received or on its way.
ShutdownSent == plug.shutdown \/ ~Free(up, {"shutdown"})

\* Steps that leave the host where it is in the session.
SessionAlone ==
    /\ UNCHANGED <<run, err>>
    /\ plug'.child = plug.child /\ host'.closed = host.closed
    /\ ShutdownSent => ShutdownSent'

LEMMA SessionAloneKeeps ==
    ASSUME SessionSound, SessionAlone
    PROVE  SessionSound'
<1>1. /\ run' = run /\ err' = err /\ plug'.child = plug.child
      /\ host'.closed = host.closed
  BY DEF SessionAlone
<1>2. (err = "none" /\ Running /\ run \in {"closePeer", "close", "wait"})
         => (plug.shutdown \/ ~Free(up, {"shutdown"}))'
  BY DEF SessionSound, SessionAlone, ShutdownSent
<1>3. Running' <=> Running
  BY <1>1 DEF Running
<1> QED BY <1>1, <1>2, <1>3 DEF SessionSound

LEMMA ShutdownStays ==
    ASSUME TypeOK,
           \/ up' = up
           \/ \E m \in UpMsg : up' = Append(up, m)
           \/ up # <<>> /\ Head(up).kind # "shutdown" /\ up' = Tail(up),
           plug'.shutdown = plug.shutdown
    PROVE  ShutdownSent => ShutdownSent'
<1>1. up \in Seq(UpMsg)
  BY DEF TypeOK
<1>2. CASE up' = up
  BY <1>2 DEF ShutdownSent
<1>3. CASE \E m \in UpMsg : up' = Append(up, m)
  BY <1>1, <1>3, AppendKinds DEF ShutdownSent
<1>4. CASE up # <<>> /\ Head(up).kind # "shutdown" /\ up' = Tail(up)
  BY <1>1, <1>4, TailKinds DEF ShutdownSent
<1> QED BY <1>2, <1>3, <1>4

\* The host's blob handler, its commits and the plugin's handlers.
LEMMA WorkLeavesSession ==
    ASSUME TypeOK, BlobInv, HostBlobs \/ Plugin \/ CancelCapture \/ UNCHANGED vars
    PROVE  SessionAlone
<1>0. host \in Host /\ plug \in Plug /\ EndsSound /\ up \in Seq(UpMsg)
  BY DEF TypeOK, BlobInv
<1>1. ASSUME UNCHANGED <<run, err, plug, host>>,
             \/ up' = up
             \/ \E m \in UpMsg : up' = Append(up, m)
             \/ up # <<>> /\ Head(up).kind # "shutdown" /\ up' = Tail(up)
      PROVE  SessionAlone
  BY <1>1, ShutdownStays DEF SessionAlone
<1>2. ASSUME NEW k \in BlobReply \cup {"initialize", "batch"}, PServes(k), up' = Tail(up),
             UNCHANGED <<run, err, plug, host>>
      PROVE  SessionAlone
  <2>1. up # <<>> /\ Head(up).kind # "shutdown"
    BY <1>2 DEF PServes, BlobReply
  <2> QED BY <1>1, <1>2, <2>1
<1>3. CASE Begin \/ FinishReply
  <2>1. PICK m \in UpMsg : HostReply(m)
    <3>1. CASE Begin
      <4>1. PICK h : h = host.next + 1
        OBVIOUS
      <4>2. \/ HostReply(Msg("pipe", h)) /\ h \in Handles
            \/ HostReply(Msg("nopipe", None))
        BY <3>1, <4>1 DEF Begin
      <4> QED BY <4>2, MsgTyped DEF BlobReply
    <3>2. CASE FinishReply
      <4>1. PICK k \in {"id", "noid"} : HostReply(Msg(k, host.serving))
        BY <3>2 DEF FinishReply
      <4>2. host.serving \in Handles \cup {None}
        BY <1>0 DEF Host
      <4> QED BY <4>1, <4>2, MsgTyped DEF BlobReply
    <3> QED BY <1>3, <3>1, <3>2
  <2>2. UNCHANGED <<run, err, plug>> /\ host'.closed = host.closed
    BY <1>0, <1>3 DEF Begin, FinishReply, Host
  <2>3. ShutdownSent => ShutdownSent'
    BY <2>1, <2>2, ShutdownStays DEF HostReply
  <2> QED BY <2>2, <2>3 DEF SessionAlone
<1>4. CASE FinishTake \/ HostEOF
  <2>1. UNCHANGED <<run, err, plug, up>> /\ host'.closed = host.closed
    BY <1>0, <1>4 DEF FinishTake, HostEOF, Host
  <2> QED BY <2>1, ShutdownStays DEF SessionAlone
<1>5. CASE \E h \in Handles : Commit(h) \/ CommitFails(h)
  BY <1>1, <1>5 DEF Commit, CommitFails
<1>6. CASE PInitialize
  BY <1>2, <1>6 DEF PInitialize
<1>7. CASE PBatch
  BY <1>2, <1>7 DEF PBatch
<1>8. CASE PShutdown
  <2>1. plug'.child = plug.child /\ plug'.shutdown
    BY <1>0, <1>8 DEF PShutdown, Plug
  <2> QED BY <1>8, <2>1 DEF PShutdown, SessionAlone, ShutdownSent
<1>9. CASE PBegin \/ PFinish
  BY <1>1, <1>9 DEF PBegin, PFinish, PCall
<1>10. CASE PPipe
  BY <1>2, <1>10 DEF PPipe, BlobReply
<1>11. CASE PCopy
  BY <1>1, <1>11 DEF PCopy
<1>12. CASE PCopyFails
  BY <1>1, <1>12 DEF PCopyFails
<1>13. CASE PId
  BY <1>2, <1>13 DEF PId, BlobReply
<1>14. CASE PCallFails
  <2>1. UNCHANGED <<run, err, plug, host>>
    BY <1>14 DEF PCallFails
  <2>2. \/ (PServes("nopipe") \/ PServes("noid")) /\ up' = Tail(up)
        \/ up' = up
    BY <1>14 DEF PCallFails
  <2> QED BY <1>1, <1>2, <2>1, <2>2 DEF BlobReply
<1>15. CASE PEOF
  <2>1. UNCHANGED <<run, err, host, up>> /\ plug'.child = plug.child
        /\ plug'.shutdown = plug.shutdown
    BY <1>0, <1>15 DEF PEOF, Plug
  <2> QED BY <2>1, ShutdownStays DEF SessionAlone
<1>16. CASE CancelCapture \/ UNCHANGED vars
  BY <1>1, <1>16 DEF CancelCapture, vars
<1> QED BY <1>3, <1>4, <1>5, <1>6, <1>7, <1>8, <1>9, <1>10, <1>11, <1>12, <1>13,
           <1>14, <1>15, <1>16 DEF HostBlobs, Plugin

\* An exit with status 1 is of an end of the socket that no shutdown preceded.
LEMMA EndsKeepSession ==
    ASSUME TypeOK, BlobInv, SessionSound, Ends
    PROVE  SessionSound'
<1>1. PICK how \in {"exit0", "exit1", "dead"} :
         Died(how) /\ (how = "exit1" => plug.done /\ ~plug.shutdown)
  BY EndsFields
<1>2. Running /\ UNCHANGED <<run, err, host>>
  BY EndsFields
<1>3. plug'.child = how
  BY <1>1, DiedFields
<1>4. plug.child = "running" /\ run \notin {"v1", "done", "launch"} /\ err # "exit"
  BY <1>2 DEF Running, SessionSound
<1>5. ASSUME how = "exit1" PROVE err # "none"
  <2>1. plug.done /\ ~plug.shutdown /\ up = <<>> /\ host.closed
    BY <1>1, <1>2, <1>5 DEF BlobInv, EndsSound
  <2>2. run \in {"close", "wait"}
    BY <1>4, <2>1 DEF SessionSound
  <2>3. Free(up, {"shutdown"})
    BY <2>1, EmptyFewer
  <2> QED BY <1>2, <2>1, <2>2, <2>3 DEF SessionSound
<1>6. run' = run /\ err' = err /\ host' = host /\ ~Running'
  BY <1>2, <1>3 DEF Running
<1> QED BY <1>3, <1>4, <1>5, <1>6 DEF SessionSound

LEMMA HostKeepsSession ==
    ASSUME TypeOK, BlobInv, SessionSound, HostSession
    PROVE  SessionSound'
<1>0. host \in Host /\ plug \in Plug /\ EndsSound /\ up \in Seq(UpMsg)
  BY DEF TypeOK, BlobInv
<1>1. CASE LaunchOk
  <2>1. /\ run = "launch" /\ run' = "init" /\ err' = err /\ host' = host
        /\ plug' = [plug EXCEPT !.child = "running"]
    BY <1>1 DEF LaunchOk
  <2>2. plug'.child = "running"
    BY <1>0, <2>1 DEF Plug
  <2>3. err = "none" /\ ~host.closed
    BY <2>1 DEF SessionSound
  <2> QED BY <2>1, <2>2, <2>3 DEF SessionSound, Running
<1>2. CASE LaunchFail
  BY <1>2 DEF LaunchFail, SessionSound, Running
<1>3. CASE Initialize \/ CaptureBatch
  <2>1. /\ run \in {"init", "call"} /\ UNCHANGED <<host, plug>>
        /\ \/ run' \in {"initWait", "callWait"} /\ err' = err
           \/ run' = "closePeer" /\ err' = "transport"
    BY <1>3 DEF Initialize, CaptureBatch, HostCall
  <2> QED BY <2>1 DEF SessionSound, Running
<1>4. CASE HostCancelled \/ HostPeerDone
  <2>1. /\ run \in {"initWait", "callWait"} /\ UNCHANGED <<host, plug, up>>
        /\ run' = "closePeer" /\ err' \in {"cancelled", "transport"}
    BY <1>4 DEF HostCancelled, HostPeerDone, HostCallFails
  <2> QED BY <2>1 DEF SessionSound, Running
<1>5. CASE HostReadResponse
  <2>1. UNCHANGED <<host, plug, up>>
    BY <1>5 DEF HostReadResponse
  <2>2. \/ UNCHANGED <<run, err>>
        \/ run = "initWait" /\ run' = "call" /\ err' = err
        \/ run = "callWait" /\ run' = "notify" /\ err' = err
        \/ /\ run \in {"initWait", "callWait"} /\ run' = "closePeer"
           /\ err' \in {"unsupported", "refused", "batch"}
    <3>1. CASE run = "initWait"
      BY <1>5, <3>1 DEF HostReadResponse
    <3>2. CASE run = "callWait"
      BY <1>5, <3>2 DEF HostReadResponse
    <3>3. CASE run \notin {"initWait", "callWait"}
      BY <1>5, <3>3 DEF HostReadResponse
    <3> QED BY <3>1, <3>2, <3>3
  <2> QED BY <2>1, <2>2 DEF SessionSound, Running
<1>6. CASE Notify
  <2>1. /\ run = "notify" /\ run' = "closePeer" /\ UNCHANGED <<err, host, plug>>
        /\ up' = IF Connected THEN Append(up, Msg("shutdown", None)) ELSE up
    BY <1>6 DEF Notify
  <2>2. err = "none" /\ ~host.closed
    BY <2>1 DEF SessionSound
  <2>3. Running => ~Free(up', {"shutdown"})
    <3>1. Running => Connected
      BY <1>0, <2>2 DEF EndsSound, Connected
    <3>2. Msg("shutdown", None) \in UpMsg /\ Msg("shutdown", None).kind = "shutdown"
      BY MsgTyped
    <3>3. ~Free(Append(up, Msg("shutdown", None)), {"shutdown"})
      BY <1>0, <3>2, AppendKinds
    <3> QED BY <2>1, <3>1, <3>3
  <2> QED BY <2>1, <2>2, <2>3 DEF SessionSound, Running
<1>7. CASE ClosePeer
  <2>1. run = "closePeer" /\ run' = "close" /\ UNCHANGED <<err, plug, up>>
    BY <1>7 DEF ClosePeer
  <2> QED BY <2>1 DEF SessionSound, Running
<1>8. CASE CloseStdin
  <2>1. /\ run = "close" /\ run' = "wait" /\ UNCHANGED <<err, host, up>>
        /\ plug' = [plug EXCEPT !.stdin = FALSE]
    BY <1>8 DEF CloseStdin
  <2>2. plug'.child = plug.child /\ plug'.shutdown = plug.shutdown
    BY <1>0, <2>1 DEF Plug
  <2> QED BY <2>1, <2>2 DEF SessionSound, Running
<1>9. CASE RunReturns
  <2>1. /\ run = "wait" /\ ~Running /\ UNCHANGED <<host, plug, up>>
        /\ \/ run' = "v1" /\ err' = err
           \/ /\ run' = "done" /\ err' = IF ExitedBadly THEN "exit" ELSE err
    BY <1>9 DEF RunReturns, ChildReaped
  <2>2. ExitedBadly => plug.child = "dead"
    BY <1>0, <2>1 DEF ExitedBadly, SessionSound, Running, Plug
  <2> QED BY <2>1, <2>2 DEF SessionSound, Running, ExitedBadly
<1>10. CASE CaptureBatchV1
  BY <1>10 DEF CaptureBatchV1, SessionSound, Running
<1> QED BY <1>1, <1>2, <1>3, <1>4, <1>5, <1>6, <1>7, <1>8, <1>9, <1>10 DEF HostSession

LEMMA SessionKept ==
    ASSUME IInv, [Next]_vars
    PROVE  SessionSound'
<1>0. TypeOK /\ BlobInv /\ SessionSound
  BY DEF IInv
<1>1. CASE HostSession
  BY <1>0, <1>1, HostKeepsSession
<1>2. CASE Ends
  BY <1>0, <1>2, EndsKeepSession
<1>3. CASE HostBlobs \/ Plugin \/ CancelCapture \/ Done \/ UNCHANGED vars
  BY <1>0, <1>3, WorkLeavesSession, SessionAloneKeeps DEF Done
<1> QED BY <1>1, <1>2, <1>3 DEF Next, Ends

-----------------------------------------------------------------------------
(* What follows.                                                            *)

\* The strengthened invariant: where a call of the plugin's is, what its
\* messages are about, and where the session is in its life.
THEOREM InvariantHolds == Spec => []IInv
<1>1. IInv /\ [Next]_vars => IInv'
  BY BlobsKept, SessionKept DEF IInv
<1> QED BY <1>1, InitHolds, PTL DEF Spec

\* Messages, blobs and both processes' states have their types.
THEOREM TypeCorrect == Spec => []TypeOK
<1>1. IInv => TypeOK
  BY DEF IInv
<1> QED BY <1>1, InvariantHolds, PTL

\* A capture reported with a receipt has every node in the store, whole: an id
\* is believed without a look at the handle (blobProtocolWriter.WriteBlob).
THEOREM ReceiptsAreComplete == Spec => []ReceiptIsComplete
<1>1. IInv => ReceiptIsComplete
  BY DEF IInv, BlobInv
<1> QED BY <1>1, InvariantHolds, PTL

\* No child outlives its capture, and a batch that went well fails by the way
\* its session ends only if the plugin was killed or crashed (Session.Close,
\* captureServeV2): for every kind of plugin main and BatchFunc.
THEOREM SessionsEndWell == Spec => []CleanEnd
<1>1. IInv => CleanEnd
  BY DEF IInv, SessionSound, CleanEnd
<1> QED BY <1>1, InvariantHolds, PTL


-----------------------------------------------------------------------------
(* The one-shot path runs only for a batch that was not asked for.          *)

\* While the batch has not been asked for, these steps happen.
UnaskedStep ==
    \/ HostSession \/ HostEOF \/ PInitialize \/ PShutdown \/ PEOF
    \/ Ends \/ CancelCapture \/ UNCHANGED vars

LEMMA UnaskedSteps ==
    ASSUME TypeOK, BlobInv, Unasked, [Next]_vars
    PROVE  UnaskedStep
<1>0. /\ ~Working /\ \A h \in Handles : blobs[h] = NoBlob
      /\ Free(up, {"batch"}) /\ Free(down, {"begin"})
  BY DEF Unasked
<1>1. ~Begin
  <2>1. SUFFICES ASSUME Begin PROVE FALSE
    OBVIOUS
  <2>2. HostServes("begin") /\ down' = Tail(down)
    BY <2>1 DEF Begin
  <2>3. 1 \in 1..Len(down) /\ down[1].kind = "begin"
    BY <2>2, HostTakes DEF BlobCall
  <2> QED BY <1>0, <2>3 DEF Free
<1>2. ~FinishTake
  <2>1. SUFFICES ASSUME FinishTake PROVE FALSE
    OBVIOUS
  <2>2. HostServes("finish") /\ down' = Tail(down)
    BY <2>1 DEF FinishTake
  <2>3. 1 \in 1..Len(down) /\ down[1].kind = "finish"
    BY <2>2, HostTakes DEF BlobCall
  <2> QED BY <1>0, <2>3 DEF BlobInv, MessagesSound
<1>3. ~FinishReply
  <2>1. SUFFICES ASSUME FinishReply PROVE FALSE
    OBVIOUS
  <2>2. host.serving # None /\ host.serving \in Handles \cup {None}
    BY <2>1 DEF FinishReply, TypeOK, Host
  <2> QED BY <1>0, <2>2 DEF BlobInv, MessagesSound
<1>4. \A h \in Handles : ~Commit(h) /\ ~CommitFails(h)
  BY <1>0 DEF Commit, CommitFails
<1>5. ~PBatch
  <2>1. SUFFICES ASSUME PBatch PROVE FALSE
    OBVIOUS
  <2>2. PServes("batch")
    BY <2>1 DEF PBatch
  <2>3. 1 \in 1..Len(up) /\ up[1].kind = "batch"
    BY <2>2, PluginReads DEF BlobInv
  <2> QED BY <1>0, <2>3 DEF Free
<1>6. ~PBegin /\ ~PFinish /\ ~PPipe /\ ~PCopy /\ ~PCopyFails /\ ~PId
  BY <1>0 DEF Working, PBegin, PFinish, PCall, PPipe, PCopy, PCopyFails, PId
<1>7. ~PCallFails
  BY <1>0 DEF Working, PCallFails
<1> QED BY <1>1, <1>2, <1>3, <1>4, <1>5, <1>6, <1>7
        DEF UnaskedStep, Next, HostBlobs, Plugin, Ends, Done

\* The queues of the session under such a step: only the plugin answers
\* initialize, and only the host's session sends.
LEMMA UnaskedQueues ==
    ASSUME TypeOK, BlobInv, UnaskedStep, ~Initialize, ~CaptureBatch, ~Notify,
           NEW K, NEW L
    PROVE  /\ SameOrFewer(up, up', K)
           /\ SameOrFewer(down, down', L) \/ PInitialize
           /\ SameOrFewer(down, down', {"begin"})
           /\ UNCHANGED batch \/ (batch'.cap = batch.cap /\ batch'.pc = "over")
           /\ NoneBegun
<1>0. up \in Seq(UpMsg) /\ down \in Seq(DownMsg) /\ EndsSound
  BY DEF TypeOK, BlobInv
<1>1. CASE PInitialize
  <2>1. PServes("initialize") /\ up' = Tail(up) /\ UNCHANGED <<blobs, batch>>
    BY <1>1 DEF PInitialize
  <2>2. PICK k \in InitReply : PReply(Msg(k, None))
    BY <1>1 DEF PInitialize
  <2>3. Msg(k, None) \in DownMsg /\ Msg(k, None).kind \notin {"begin"}
    BY MsgTyped DEF InitReply
  <2>4. SameOrFewer(down, down', {"begin"})
    BY <1>0, <2>2, <2>3, AppendFewer, UnchangedFewer DEF PReply
  <2> QED BY <1>0, <1>1, <2>1, <2>4, PluginReads, BlobsUnchanged
<1>2. CASE PShutdown
  <2>1. PServes("shutdown") /\ up' = Tail(up) /\ UNCHANGED <<blobs, batch, down>>
    BY <1>2 DEF PShutdown
  <2> QED BY <1>0, <2>1, PluginReads, UnchangedFewer, BlobsUnchanged
<1>3. CASE PEOF \/ CancelCapture \/ UNCHANGED vars
  <2>1. UNCHANGED <<up, down, blobs, batch>>
    BY <1>3 DEF PEOF, CancelCapture, vars
  <2> QED BY <2>1, UnchangedFewer, BlobsUnchanged
<1>4. CASE Ends
  <2>1. PICK how \in {"exit0", "exit1", "dead"} : Died(how)
    BY <1>4, EndsFields
  <2>2. UNCHANGED down
    BY <1>4, EndsFields
  <2> QED BY <2>1, <2>2, DiedFields, EmptyFewer, UnchangedFewer
<1>5. CASE HostEOF
  <2>1. UNCHANGED <<up, blobs, batch>> /\ down' = <<>>
    BY <1>5 DEF HostEOF
  <2> QED BY <2>1, EmptyFewer, UnchangedFewer, BlobsUnchanged
<1>6. CASE HostReadResponse
  <2>1. UNCHANGED <<up, blobs, batch>> /\ down # <<>> /\ down' = Tail(down)
    BY <1>6 DEF HostReadResponse
  <2> QED BY <1>0, <2>1, TailFewer, UnchangedFewer, BlobsUnchanged
<1>7. CASE \/ LaunchOk \/ LaunchFail \/ HostCancelled \/ HostPeerDone \/ ClosePeer
           \/ CloseStdin \/ RunReturns \/ CaptureBatchV1
  <2>1. UNCHANGED <<up, down, blobs, batch>>
    BY <1>7 DEF LaunchOk, LaunchFail, HostCancelled, HostPeerDone, HostCallFails, ClosePeer,
       CloseStdin, RunReturns, CaptureBatchV1
  <2> QED BY <2>1, UnchangedFewer, BlobsUnchanged
<1> QED BY <1>1, <1>2, <1>3, <1>4, <1>5, <1>6, <1>7 DEF UnaskedStep, HostSession

LEMMA SendsOnly ==
    ASSUME TypeOK, NEW k \in {"initialize", "shutdown"}, NEW K, k \notin K,
           up' = IF Connected THEN Append(up, Msg(k, None)) ELSE up
    PROVE  SameOrFewer(up, up', K)
<1>1. PICK m \in UpMsg : m = Msg(k, None) /\ m.kind \notin K
  <2>1. Msg(k, None) \in UpMsg /\ Msg(k, None).kind = k
    BY MsgTyped
  <2> QED BY <2>1
<1>2. up \in Seq(UpMsg)
  BY DEF TypeOK
<1>3. CASE Connected
  BY <1>1, <1>2, <1>3, AppendFewer
<1>4. CASE ~Connected
  BY <1>4, UnchangedFewer
<1> QED BY <1>3, <1>4

LEMMA UnaskedKept ==
    ASSUME TypeOK, BlobInv, Unasked, [Next]_vars, ~CaptureBatch
    PROVE  Unasked'
<1>1. UnaskedStep
  BY UnaskedSteps
<1>2. /\ SameOrFewer(up, up', {"batch"}) /\ SameOrFewer(down, down', {"begin"})
      /\ UNCHANGED batch \/ (batch'.cap = batch.cap /\ batch'.pc = "over")
      /\ NoneBegun
  <2>1. CASE Initialize \/ Notify
    <3>1. PICK k \in {"initialize", "shutdown"} :
             up' = IF Connected THEN Append(up, Msg(k, None)) ELSE up
      BY <2>1 DEF Initialize, Notify, HostCall
    <3>2. UNCHANGED <<down, blobs, batch>>
      BY <2>1 DEF Initialize, Notify, HostCall
    <3>3. SameOrFewer(up, up', {"batch"})
      BY <3>1, SendsOnly
    <3> QED BY <3>2, <3>3, UnchangedFewer, BlobsUnchanged
  <2>2. CASE ~Initialize /\ ~Notify
    BY <1>1, <2>2, UnaskedQueues
  <2> QED BY <2>1, <2>2
<1>3. Free(up', {"batch"}) /\ Free(down', {"begin"})
  BY <1>2 DEF Unasked, SameOrFewer
<1>4. \A h \in Handles : blobs'[h] = NoBlob
  BY <1>2 DEF Unasked, NoneBegun
<1>5. batch'.cap = None /\ ~Working'
  BY <1>2 DEF Unasked, Working
<1> QED BY <1>3, <1>4, <1>5 DEF Unasked


LEMMA OnlyTheSessionDecides ==
    ASSUME [Next]_vars, ~HostSession
    PROVE  UNCHANGED <<run, err, answer>>
<1>1. CASE Begin \/ FinishTake \/ FinishReply \/ HostEOF
  BY <1>1 DEF Begin, FinishTake, FinishReply, HostEOF
<1>2. CASE \E h \in Handles : Commit(h) \/ CommitFails(h)
  BY <1>2 DEF Commit, CommitFails
<1>3. CASE PInitialize \/ PBatch \/ PShutdown \/ PBegin \/ PFinish \/ PPipe
  BY <1>3 DEF PInitialize, PBatch, PShutdown, PBegin, PFinish, PCall, PPipe
<1>4. CASE PCopy \/ PCopyFails \/ PId \/ PCallFails \/ PEOF
  BY <1>4 DEF PCopy, PCopyFails, PId, PCallFails, PEOF
<1>5. CASE Ends
  BY <1>5, EndsFields
<1>6. CASE CancelCapture \/ UNCHANGED vars
  BY <1>6 DEF CancelCapture, vars
<1> QED BY <1>1, <1>2, <1>3, <1>4, <1>5, <1>6
        DEF Next, HostBlobs, Plugin, Ends, Done

\* What HostReadResponse makes of an answer.
LEMMA Decides ==
    ASSUME HostReadResponse
    PROVE  LET k == Head(down).kind
           IN  \/ UNCHANGED <<run, err>>
               \/ run = "initWait" /\ k \in InitReply /\ run' = "call" /\ err' = err
               \/ run = "callWait" /\ run' = "notify" /\ err' = err
               \/ /\ run' = "closePeer" /\ err' = "unsupported"
                  /\ \/ run = "initWait"
                     \/ run = "callWait" /\ k = "unsupported"
               \/ run' = "closePeer" /\ err' \in {"refused", "batch"}
<1>1. CASE run = "initWait"
  BY <1>1 DEF HostReadResponse, InitReply
<1>2. CASE run = "callWait"
  BY <1>2 DEF HostReadResponse
<1>3. CASE run \notin {"initWait", "callWait"}
  BY <1>3 DEF HostReadResponse
<1> QED BY <1>1, <1>2, <1>3

LEMMA BatchStillAhead ==
    ASSUME TypeOK, BlobInv, SessionSound, HandshakeSound, [Next]_vars, BatchAhead'
    PROVE  BatchAhead /\ ~CaptureBatch
<1>0. down \in Seq(DownMsg)
  BY DEF TypeOK
<1>1. CASE ~HostSession
  BY <1>1, OnlyTheSessionDecides DEF BatchAhead, FallbackSignal, HostSession
<1>2. CASE LaunchOk \/ LaunchFail \/ Initialize
  BY <1>2 DEF LaunchOk, LaunchFail, Initialize, HostCall, BatchAhead, CaptureBatch
<1>3. CASE CaptureBatch
  <2>1. /\ run = "call" /\ run' \in {"callWait", "closePeer"}
        /\ err' \in {err, "transport"} /\ answer' = answer
    BY <1>3 DEF CaptureBatch, HostCall
  <2>2. err = "none" /\ answer = "none"
    BY <2>1 DEF SessionSound, HandshakeSound
  <2> QED BY <2>1, <2>2 DEF BatchAhead, FallbackSignal
<1>4. CASE HostCancelled \/ HostPeerDone
  <2>1. /\ run' = "closePeer" /\ err' \in {"cancelled", "transport"} /\ answer' = answer
        /\ run # "call"
    BY <1>4 DEF HostCancelled, HostPeerDone, HostCallFails
  <2> QED BY <2>1 DEF BatchAhead, FallbackSignal, CaptureBatch, HostCall
<1>5. CASE HostReadResponse
  <2>1. answer' = answer /\ down' = Tail(down) /\ down # <<>>
    BY <1>5 DEF HostReadResponse
  <2>2. ~CaptureBatch
    <3>1. SUFFICES ASSUME CaptureBatch PROVE FALSE
      OBVIOUS
    <3>2. UNCHANGED down /\ Len(Tail(down)) = Len(down) - 1 /\ Len(down) \in Nat
      BY <1>0, <2>1, <3>1, TailElements DEF CaptureBatch, HostCall
    <3> QED BY <2>1, <3>2
  <2>3. run = "callWait" => Head(down).kind # "unsupported"
    <3>1. 1 \in 1..Len(down) /\ Head(down) = down[1]
      BY <1>0, <2>1, TailElements
    <3> QED BY <3>1 DEF HandshakeSound, Free
  <2> QED BY <1>5, <2>1, <2>2, <2>3, Decides DEF BatchAhead, FallbackSignal
<1>6. CASE Notify \/ ClosePeer \/ CloseStdin
  BY <1>6 DEF Notify, ClosePeer, CloseStdin, BatchAhead, FallbackSignal, CaptureBatch,
     HostCall
<1>7. CASE RunReturns
  <2>1. \/ FallbackSignal /\ run = "wait"
        \/ /\ run = "wait" /\ run' = "done" /\ ~FallbackSignal
           /\ err' \in {err, "exit"} /\ answer' \in {"receipt", "error"}
    BY <1>7 DEF RunReturns
  <2> QED BY <2>1 DEF BatchAhead, FallbackSignal, CaptureBatch, HostCall
<1>8. CASE CaptureBatchV1
  BY <1>8 DEF CaptureBatchV1, BatchAhead, CaptureBatch, HostCall
<1> QED BY <1>1, <1>2, <1>3, <1>4, <1>5, <1>6, <1>7, <1>8 DEF HostSession

\* Only the plugin's answer to initialize says that it is unsupported.
LEMMA HandshakeQueues ==
    ASSUME TypeOK, BlobInv, ~batch'.refused, [Next]_vars, ~Initialize, ~PInitialize
    PROVE  /\ SameOrFewer(up, up', {"initialize"})
           /\ SameOrFewer(down, down', {"unsupported"})
<1>0. up \in Seq(UpMsg) /\ down \in Seq(DownMsg) /\ EndsSound /\ BatchSound
      /\ host \in Host /\ batch \in Batch
  BY DEF TypeOK, BlobInv
<1> DEFINE I == {"initialize"}
           U == {"unsupported"}
<1>1. ASSUME NEW k, PServes(k), up' = Tail(up) PROVE SameOrFewer(up, up', I)
  BY <1>0, <1>1, PluginReads
<1>2. ASSUME NEW m \in UpMsg, m.kind # "initialize", HostReply(m)
      PROVE  SameOrFewer(up, up', I)
  <2>1. m.kind \notin I
    BY <1>2
  <2> QED BY <1>0, <1>2, <2>1, AppendFewer, UnchangedFewer DEF HostReply
<1>3. ASSUME NEW m \in DownMsg, m.kind # "unsupported", PReply(m)
      PROVE  SameOrFewer(down, down', U)
  <2>1. m.kind \notin U
    BY <1>3
  <2> QED BY <1>0, <1>3, <2>1, AppendFewer, UnchangedFewer DEF PReply
<1>4. down # <<>> /\ down' = Tail(down) => SameOrFewer(down, down', U)
  BY <1>0, TailFewer
<1>5. up' = up => SameOrFewer(up, up', I)
  BY UnchangedFewer
<1>6. down' = down => SameOrFewer(down, down', U)
  BY UnchangedFewer
<1>7. ASSUME Failed, Working PROVE SameOrFewer(down, down', U)
  <2>1. \/ down' = down
        \/ \E m \in DownMsg : down' = Append(down, m) /\ m.kind \in {"result", "failed"}
    BY <1>0, <1>7, FailedFields
  <2>2. ASSUME NEW m \in DownMsg, m.kind \in {"result", "failed"}, down' = Append(down, m)
        PROVE  SameOrFewer(down, down', U)
    <3>1. m.kind \notin U
      BY <2>2
    <3> QED BY <1>0, <2>2, <3>1, AppendFewer
  <2> QED BY <1>6, <2>1, <2>2
<1> HIDE DEF I, U
<1>8. CASE CaptureBatch \/ Notify
  <2>1. /\ UNCHANGED down
        /\ \E m \in {Msg("batch", None), Msg("shutdown", None)} : HostReply(m) \/ up' = up
    BY <1>8 DEF CaptureBatch, Notify, HostCall, HostReply
  <2> QED BY <1>2, <1>5, <1>6, <2>1, MsgTyped DEF I, U
<1>9. CASE HostReadResponse \/ HostEOF
  <2>1. UNCHANGED up /\ ((down # <<>> /\ down' = Tail(down)) \/ down' = <<>>)
    BY <1>9 DEF HostReadResponse, HostEOF
  <2> QED BY <1>4, <1>5, <2>1, EmptyFewer DEF I, U
<1>10. CASE \/ LaunchOk \/ LaunchFail \/ HostCancelled \/ HostPeerDone \/ ClosePeer
            \/ CloseStdin \/ RunReturns \/ CaptureBatchV1 \/ CancelCapture \/ UNCHANGED vars
  <2>1. UNCHANGED <<up, down>>
    BY <1>10 DEF LaunchOk, LaunchFail, HostCancelled, HostPeerDone, HostCallFails, ClosePeer,
       CloseStdin, RunReturns, CaptureBatchV1, CancelCapture, vars
  <2> QED BY <1>5, <1>6, <2>1 DEF I, U
<1>11. CASE Begin
  <2>1. down # <<>> /\ down' = Tail(down)
    BY <1>11 DEF Begin, HostServes
  <2>2. PICK h : h = host.next + 1
    OBVIOUS
  <2>3. \/ HostReply(Msg("pipe", h)) /\ h \in Handles
        \/ HostReply(Msg("nopipe", None))
    BY <1>11, <2>2 DEF Begin
  <2>4. CASE HostReply(Msg("nopipe", None))
    BY <1>2, <1>4, <2>1, <2>4, MsgTyped DEF I, U, BlobReply
  <2>5. CASE HostReply(Msg("pipe", h)) /\ h \in Handles
    BY <1>2, <1>4, <2>1, <2>5, MsgTyped DEF I, U, BlobReply
  <2> QED BY <2>3, <2>4, <2>5
<1>12. CASE FinishTake
  <2>1. down # <<>> /\ down' = Tail(down) /\ up' = up
    BY <1>12 DEF FinishTake, HostServes
  <2> QED BY <1>4, <1>5, <2>1 DEF I, U
<1>13. CASE FinishReply
  <2>1. PICK k \in {"id", "noid"} : HostReply(Msg(k, host.serving))
    BY <1>13 DEF FinishReply
  <2>2. down' = down /\ host.serving \in Handles \cup {None}
    BY <1>0, <1>13 DEF FinishReply, Host
  <2>3. Msg(k, host.serving) \in UpMsg /\ Msg(k, host.serving).kind # "initialize"
    BY <2>2, MsgTyped DEF BlobReply
  <2> QED BY <1>2, <1>6, <2>1, <2>2, <2>3 DEF I, U
<1>14. CASE (\E h \in Handles : Commit(h) \/ CommitFails(h)) \/ PCopy \/ PEOF
  <2>1. UNCHANGED <<up, down>>
    BY <1>14 DEF Commit, CommitFails, PCopy, PEOF
  <2> QED BY <1>5, <1>6, <2>1 DEF I, U
<1>15. CASE PBatch \/ PShutdown \/ PPipe
  <2>1. down' = down /\ up' = Tail(up) /\ \E k : PServes(k)
    BY <1>15 DEF PBatch, PShutdown, PPipe
  <2> QED BY <1>1, <1>6, <2>1 DEF I, U
<1>16. CASE PBegin \/ PFinish
  <2>1. PICK k \in BlobCall : PReply(Msg(k, batch.h)) \/ Failed
    BY <1>16 DEF PBegin, PFinish, PCall, BlobCall
  <2>2. up' = up /\ Working
    BY <1>16 DEF PBegin, PFinish, PCall, Working
  <2>3. Msg(k, batch.h) \in DownMsg /\ Msg(k, batch.h).kind # "unsupported"
    <3>1. batch.h \in Handles \cup {None}
      BY <1>0 DEF Batch
    <3> QED BY <3>1, MsgTyped DEF BlobCall
  <2> QED BY <1>3, <1>5, <1>7, <2>1, <2>2, <2>3 DEF I, U
<1>17. CASE PCopyFails
  <2>1. up' = up /\ Failed /\ Working
    BY <1>17 DEF PCopyFails, PCopyFailed, Working
  <2> QED BY <1>5, <1>7, <2>1 DEF I, U
<1>18. CASE PId
  <2>1. PServes("id") /\ up' = Tail(up) /\ (down' = down \/ PReply(Msg("result", None)))
    BY <1>18 DEF PId
  <2> QED BY <1>1, <1>3, <1>6, <2>1, MsgTyped DEF I, U
<1>19. CASE PCallFails
  <2>1. /\ Failed /\ Working
        /\ up' = up \/ ((PServes("nopipe") \/ PServes("noid")) /\ up' = Tail(up))
    BY <1>19 DEF PCallFails, Working
  <2> QED BY <1>1, <1>5, <1>7, <2>1 DEF I, U
<1>20. CASE Ends
  <2>1. PICK how \in {"exit0", "exit1", "dead"} : Died(how)
    BY <1>20, EndsFields
  <2>2. UNCHANGED down /\ up' = <<>>
    BY <1>20, <2>1, EndsFields, DiedFields
  <2> QED BY <1>6, <2>2, EmptyFewer DEF I, U
<1> QED BY <1>8, <1>9, <1>10, <1>11, <1>12, <1>13, <1>14, <1>15, <1>16, <1>17, <1>18,
           <1>19, <1>20 DEF Next, HostSession, HostBlobs, Plugin, Ends, Done


\* A BatchFunc that has failed with the code has.
LEMMA RefusedStays ==
    ASSUME TypeOK, BlobInv, [Next]_vars, batch.refused
    PROVE  batch'.refused
<1>0. batch \in Batch /\ BatchSound
  BY DEF TypeOK, BlobInv
<1>1. CASE HostSession \/ Begin \/ FinishTake \/ FinishReply \/ HostEOF
  BY <1>1 DEF HostSession, LaunchOk, LaunchFail, Initialize, CaptureBatch, HostCall,
     HostCancelled, HostPeerDone, HostCallFails, HostReadResponse, Notify, ClosePeer, CloseStdin,
     RunReturns, CaptureBatchV1, Begin, FinishTake, FinishReply, HostEOF
<1>2. CASE \/ \E h \in Handles : Commit(h) \/ CommitFails(h)
           \/ PInitialize \/ PShutdown \/ PEOF \/ CancelCapture \/ UNCHANGED vars
  BY <1>2 DEF Commit, CommitFails, PInitialize, PShutdown, PEOF, CancelCapture, vars
<1>3. CASE PBatch
  BY <1>3 DEF PBatch, CaptureAt
<1>4. CASE PPipe \/ PCopy
  BY <1>0, <1>4 DEF PPipe, PCopy, Batch
<1>5. CASE PBegin \/ PFinish
  <2>1. Working /\ (Failed \/ \E to \in {"begin", "finish"} : batch' = [batch EXCEPT !.pc = to])
    BY <1>5 DEF PBegin, PFinish, PCall, Working
  <2> QED BY <1>0, <2>1, FailedFields DEF Batch
<1>6. CASE PCopyFails \/ PCallFails
  <2>1. Working /\ Failed
    BY <1>6 DEF PCopyFails, PCopyFailed, PCallFails, Working
  <2> QED BY <1>0, <2>1, FailedFields
<1>7. CASE PId
  <2>1. \/ batch' = CaptureAt(batch.cap + 1) \/ batch' = [batch EXCEPT !.pc = "over"]
        \/ batch' = [batch EXCEPT !.pc = "next", !.node = @ + 1, !.h = None]
    BY <1>7 DEF PId
  <2>2. CASE batch' = [batch EXCEPT !.pc = "next", !.node = @ + 1, !.h = None]
    <3>1. PICK n : n = batch.node + 1
      OBVIOUS
    <3>2. batch' = [batch EXCEPT !.pc = "next", !.node = n, !.h = None]
      BY <2>2, <3>1
    <3> QED BY <1>0, <3>2 DEF Batch
  <2>3. CASE batch' = CaptureAt(batch.cap + 1)
    BY <2>3 DEF CaptureAt
  <2>4. CASE batch' = [batch EXCEPT !.pc = "over"]
    BY <1>0, <2>4 DEF Batch
  <2> QED BY <2>1, <2>2, <2>3, <2>4
<1>8. CASE Ends
  <2>1. PICK how \in {"exit0", "exit1", "dead"} : Died(how)
    BY <1>8, EndsFields
  <2> QED BY <1>0, <2>1 DEF Died, Batch
<1> QED BY <1>1, <1>2, <1>3, <1>4, <1>5, <1>6, <1>7, <1>8
        DEF Next, HostBlobs, Plugin, Ends, Done

LEMMA HandshakeInit == Init => HandshakeSound
<1> SUFFICES ASSUME Init PROVE HandshakeSound
  OBVIOUS
<1>1. Free(<<>>, {"batch"}) /\ Free(<<>>, {"begin"})
  BY EmptyFewer
<1> QED BY <1>1 DEF Init, HandshakeSound, BatchAhead, Unasked, Working, FallbackSignal,
                    None

LEMMA HandshakeKept ==
    ASSUME IInv, HandshakeSound, ~batch'.refused, [Next]_vars
    PROVE  HandshakeSound'
<1>0. /\ TypeOK /\ BlobInv /\ SessionSound /\ EndsSound
      /\ up \in Seq(UpMsg) /\ down \in Seq(DownMsg)
  BY DEF IInv, TypeOK, BlobInv
<1>1. answer' # "none" => run' = "done"
  <2>1. CASE ~HostSession
    BY <2>1, OnlyTheSessionDecides DEF HandshakeSound
  <2>2. CASE HostSession
    <3>1. CASE RunReturns \/ CaptureBatchV1
      <4>1. run # "done" /\ (run' = "done" \/ answer' = answer)
        BY <3>1 DEF RunReturns, CaptureBatchV1
      <4> QED BY <4>1 DEF HandshakeSound
    <3>2. CASE HostReadResponse
      <4>1. answer' = answer /\ (run = "done" => run' = "done")
        BY <3>2 DEF HostReadResponse
      <4> QED BY <4>1 DEF HandshakeSound
    <3>3. CASE ~RunReturns /\ ~CaptureBatchV1 /\ ~HostReadResponse
      <4>1. answer' = answer /\ run # "done"
        BY <2>2, <3>3 DEF HostSession, LaunchOk, LaunchFail, Initialize, CaptureBatch, HostCall,
           HostCancelled, HostPeerDone, HostCallFails, Notify, ClosePeer, CloseStdin
      <4> QED BY <4>1 DEF HandshakeSound
    <3> QED BY <3>1, <3>2, <3>3
  <2> QED BY <2>1, <2>2
<1>2. BatchAhead' => Unasked'
  <2>1. BatchAhead' => BatchAhead /\ ~CaptureBatch
    BY <1>0, BatchStillAhead
  <2> QED BY <1>0, <2>1, UnaskedKept DEF HandshakeSound
<1>3. (run' \in {"launch", "init"}) => up' = <<>> /\ down' = <<>>
  <2>1. SUFFICES ASSUME run' \in {"launch", "init"}
                 PROVE  up' = <<>> /\ down' = <<>>
    OBVIOUS
  <2>2. run \in {"launch", "init"}
    <3>1. CASE ~HostSession
      BY <2>1, <3>1, OnlyTheSessionDecides
    <3>2. CASE HostReadResponse
      BY <2>1, <3>2, Decides
    <3>3. CASE HostSession /\ ~HostReadResponse
      BY <2>1, <3>3 DEF HostSession, LaunchOk, LaunchFail, Initialize, CaptureBatch, HostCall,
         HostCancelled, HostPeerDone, HostCallFails, Notify, ClosePeer, CloseStdin,
         RunReturns, CaptureBatchV1
    <3> QED BY <3>1, <3>2, <3>3
  <2>3. up = <<>> /\ down = <<>> /\ Unasked
    BY <2>2 DEF HandshakeSound, BatchAhead
  <2>4. UnaskedStep
    BY <1>0, <2>3, UnaskedSteps
  <2>5. ~PInitialize /\ ~PShutdown /\ ~HostReadResponse
    BY <2>3 DEF PInitialize, PShutdown, PServes, HostReadResponse
  <2>6. CASE HostEOF
    BY <2>3, <2>6 DEF HostEOF
  <2>7. CASE Ends
    <3>1. PICK how \in {"exit0", "exit1", "dead"} : Died(how)
      BY <2>7, EndsFields
    <3> QED BY <2>3, <2>7, <3>1, EndsFields DEF Died
  <2>8. CASE HostSession
    BY <2>1, <2>2, <2>3, <2>5, <2>8 DEF HostSession, LaunchOk, LaunchFail, Initialize,
       CaptureBatch, HostCall, HostCancelled, HostPeerDone, HostCallFails, Notify,
       ClosePeer, CloseStdin, RunReturns, CaptureBatchV1
  <2>9. CASE PEOF \/ CancelCapture \/ UNCHANGED vars
    BY <2>3, <2>9 DEF PEOF, CancelCapture, vars
  <2> QED BY <2>4, <2>5, <2>6, <2>7, <2>8, <2>9 DEF UnaskedStep
<1>4. (run' = "initWait") =>
         /\ Single(up', {"initialize"}) /\ Single(down', InitReply)
         /\ Free(up', {"initialize"}) \/ Free(down', InitReply)
  <2>1. SUFFICES ASSUME run' = "initWait"
                 PROVE  /\ Single(up', {"initialize"}) /\ Single(down', InitReply)
                        /\ Free(up', {"initialize"}) \/ Free(down', InitReply)
    OBVIOUS
  <2>2. CASE Initialize
    <3>1. /\ run = "init" /\ up' = Append(up, Msg("initialize", None)) /\ down' = down
      BY <2>1, <2>2 DEF Initialize, HostCall
    <3>2. up = <<>> /\ down = <<>>
      BY <3>1 DEF HandshakeSound
    <3>3. Free(up, {"initialize"}) /\ Free(down, InitReply) /\ Single(down, InitReply)
      BY <3>2, EmptyFewer
    <3>4. Single(Append(up, Msg("initialize", None)), {"initialize"})
      BY <1>0, <3>3, MsgTyped, AppendKinds
    <3> QED BY <3>1, <3>3, <3>4
  <2>3. CASE ~Initialize
    <3>1. run = "initWait"
      <4>1. CASE ~HostSession
        BY <2>1, <4>1, OnlyTheSessionDecides
      <4>2. CASE HostReadResponse
        BY <2>1, <4>2, Decides
      <4>3. CASE HostSession /\ ~HostReadResponse
        BY <2>1, <2>3, <4>3 DEF HostSession, LaunchOk, LaunchFail, CaptureBatch, HostCall,
           HostCancelled, HostPeerDone, HostCallFails, Notify, ClosePeer, CloseStdin,
           RunReturns, CaptureBatchV1
      <4> QED BY <4>1, <4>2, <4>3
    <3>2. UnaskedStep /\ ~CaptureBatch /\ ~Notify
      BY <1>0, <3>1, UnaskedSteps DEF HandshakeSound, BatchAhead, CaptureBatch, HostCall, Notify
    <3>3. SameOrFewer(up, up', {"initialize"})
      BY <1>0, <2>3, <3>2, UnaskedQueues
    <3>4. SameOrFewer(down, down', InitReply) \/ PInitialize
      BY <1>0, <2>3, <3>2, UnaskedQueues
    <3>5. /\ Single(up, {"initialize"}) /\ Single(down, InitReply)
          /\ Free(up, {"initialize"}) \/ Free(down, InitReply)
      BY <3>1 DEF HandshakeSound
    <3>6. CASE SameOrFewer(down, down', InitReply)
      BY <3>3, <3>5, <3>6 DEF SameOrFewer
    <3>7. CASE PInitialize
      <4>1. PServes("initialize") /\ up' = Tail(up)
        BY <3>7 DEF PInitialize
      <4>2. PICK k \in InitReply : PReply(Msg(k, None))
        BY <3>7 DEF PInitialize
      <4>3. PICK m \in DownMsg : m = Msg(k, None)
        BY MsgTyped
      <4>4. /\ up # <<>> /\ Head(up).kind = "initialize" /\ Head(up) = up[1] /\ 1 \in 1..Len(up)
        BY <1>0, <4>1, PluginReads
      <4>5. Free(up', {"initialize"})
        BY <1>0, <3>5, <4>1, <4>4, TailKinds
      <4>6. ~Free(up, {"initialize"})
        BY <4>4 DEF Free
      <4>7. Single(down', InitReply)
        <5>1. Single(Append(down, m), InitReply)
          BY <1>0, <3>5, <4>6, AppendKinds
        <5> QED BY <3>5, <4>2, <4>3, <5>1 DEF PReply
      <4> QED BY <3>3, <3>5, <4>5, <4>7 DEF SameOrFewer
    <3> QED BY <3>4, <3>6, <3>7
  <2> QED BY <2>2, <2>3
<1>5. (run' \in {"call", "callWait"}) =>
         Free(up', {"initialize"}) /\ Free(down', {"unsupported"})
  <2>1. SUFFICES ASSUME run' \in {"call", "callWait"}
                 PROVE  Free(up', {"initialize"}) /\ Free(down', {"unsupported"})
    OBVIOUS
  <2>2. CASE run \in {"call", "callWait"}
    <3>1. Free(up, {"initialize"}) /\ Free(down, {"unsupported"})
      BY <2>2 DEF HandshakeSound
    <3>2. ~PInitialize
      <4>1. SUFFICES ASSUME PInitialize PROVE FALSE
        OBVIOUS
      <4>2. PServes("initialize")
        BY <4>1 DEF PInitialize
      <4>3. 1 \in 1..Len(up) /\ up[1].kind = "initialize"
        BY <1>0, <4>2, PluginReads
      <4> QED BY <3>1, <4>3 DEF Free
    <3>3. ~Initialize
      BY <2>2 DEF Initialize, HostCall
    <3> QED BY <1>0, <3>1, <3>2, <3>3, HandshakeQueues DEF SameOrFewer
  <2>3. CASE run \notin {"call", "callWait"}
    <3>1. HostReadResponse
      <4>1. HostSession
        BY <2>1, <2>3, OnlyTheSessionDecides
      <4> QED BY <2>1, <2>3, <4>1 DEF HostSession, LaunchOk, LaunchFail, Initialize,
           CaptureBatch, HostCall, HostCancelled, HostPeerDone, HostCallFails, Notify,
           ClosePeer, CloseStdin, RunReturns, CaptureBatchV1
    <3>2. run = "initWait" /\ Head(down).kind \in InitReply
      BY <2>1, <2>3, <3>1, Decides
    <3>3. down # <<>> /\ down' = Tail(down) /\ up' = up
      BY <3>1 DEF HostReadResponse
    <3>4. ~Free(down, InitReply)
      BY <1>0, <3>2, <3>3, TailElements DEF Free
    <3>5. Free(up, {"initialize"}) /\ Single(down, InitReply)
      BY <3>2, <3>4 DEF HandshakeSound
    <3>6. Free(Tail(down), InitReply)
      BY <1>0, <3>2, <3>3, <3>5, TailKinds
    <3>7. Free(Tail(down), {"unsupported"})
      BY <3>6 DEF Free, InitReply
    <3> QED BY <3>3, <3>5, <3>7
  <2> QED BY <2>2, <2>3
<1> QED BY <1>1, <1>2, <1>3, <1>4, <1>5 DEF HandshakeSound

\* A capture whose batch was asked for is never repeated on the one-shot path, whatever fails and
\* wherever the session breaks off, but for a BatchFunc that itself fails with the code of a
\* refused handshake (capture, IsFallbackSignal).
THEOREM NoBatchIsRepeated == Spec => []NoSilentRetry
<1> DEFINE Sound == batch.refused \/ HandshakeSound
<1>1. IInv /\ Sound /\ [Next]_vars => IInv' /\ Sound'
  <2> SUFFICES ASSUME IInv, Sound, [Next]_vars PROVE IInv' /\ Sound'
    OBVIOUS
  <2>1. IInv'
    BY BlobsKept, SessionKept DEF IInv
  <2>2. batch.refused => batch'.refused
    BY RefusedStays DEF IInv
  <2>3. ASSUME ~batch'.refused PROVE HandshakeSound'
    <3>1. HandshakeSound
      BY <2>2, <2>3
    <3> QED BY <2>3, <3>1, HandshakeKept
  <2> QED BY <2>1, <2>3
<1>2. Init => IInv /\ Sound
  BY InitHolds, HandshakeInit
<1>3. IInv /\ Sound => NoSilentRetry
  BY DEF HandshakeSound, BatchAhead, Unasked, NoSilentRetry
<1> QED BY <1>1, <1>2, <1>3, PTL DEF Spec

=============================================================================
