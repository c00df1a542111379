---------------------------- MODULE CaptureServe ----------------------------
(***************************************************************************)
(* One capture through a config-declared plugin (internal/capture_wire):   *)
(* the RFC 0008 session of internal/capture_serve, and the one-shot        *)
(* capture-batch it falls back to.                                         *)
(*                                                                         *)
(* Both ends of the session are client and server at once.  The host calls *)
(* initialize and capture.batch; while the batch is outstanding the plugin *)
(* calls blob.begin, is passed the write end of a pipe, streams a node into*)
(* it, and calls blob.finish for the id.  A goroutine of the host drains   *)
(* each pipe into the store.                                               *)
(*                                                                         *)
(* Abstractions.  A datagram socket is a queue of messages per direction.  *)
(* Each side has one call outstanding at a time, so calls need no ids.  The*)
(* nodes of a capture are numbered, and its receipt is its last node.  The *)
(* plugin's BatchFunc writes its captures one after the other; when a node *)
(* fails it records the capture's error and goes on, or gives up.          *)
(***************************************************************************)
EXTENDS Naturals, Sequences

CONSTANTS
    NCaptures,     \* captures of the batch (capture_wire asks for one)
    NNodes,        \* node blobs of a capture, the receipt included
    StdinCancels,  \* the plugin's main cancels Serve's context on stdin EOF
    BatchRefuses,  \* a BatchFunc may fail with CodeUnsupportedVersion
    MaxFaults      \* bound: reads, store writes and processes that fail

ASSUME ConstantsAssumption ==
    /\ NCaptures \in Nat \ {0} /\ NNodes \in Nat \ {0}
    /\ StdinCancels \in BOOLEAN /\ BatchRefuses \in BOOLEAN
    /\ MaxFaults \in Nat

VARIABLES
    run,       \* where captureServeV2, Run and capture are
    err,       \* the error RunBatch or Run returns, "none" for none
    answer,    \* what capture returned
    ctxDone,   \* the capture's context is cancelled
    up,        \* datagrams to the plugin
    down,      \* datagrams to the host
    host,      \* the host's peer: handles open, closed, the handler at work
    blobs,     \* per handle: the pipe and its commit
    plug,      \* the plugin process
    batch,     \* the plugin's batch handler
    result,    \* what the batch reported per capture
    faults

vars == <<run, err, answer, ctxDone, up, down, host, blobs, plug, batch, result,
          faults>>

Captures == 1..NCaptures
Handles  == 1..(NCaptures * NNodes)
None     == 0

Msg(kind, h) == [kind |-> kind, h |-> h]

\* Replies to the plugin's calls, the calls, replies to initialize.
BlobReply == {"pipe", "nopipe", "id", "noid"}
BlobCall  == {"begin", "finish"}
InitReply == {"selected", "unsupported", "refused"}

UpMsg   == [kind : BlobReply \cup {"initialize", "batch", "shutdown"},
            h : Handles \cup {None}]
DownMsg == [kind : BlobCall \cup InitReply \cup {"result", "failed"},
            h : Handles \cup {None}]

\* A pipe: the node it is meant for, whether all its bytes were written,
\* whether a write end is still open, and what WriteBlob made of it.
Blob == [cap : Captures, node : 1..NNodes, full : BOOLEAN,
         writer : BOOLEAN, commit : {"streaming", "stored", "failed"}]
NoBlob == [cap |-> None]

Errors == {"none", "bringup", "unsupported", "refused", "batch", "transport",
           "cancelled", "exit"}

\* serving: the handle blob.finish is waiting for.
Host == [open : SUBSET Handles, next : Handles \cup {None},
         closed : BOOLEAN, done : BOOLEAN, serving : Handles \cup {None}]

Plug == [child : {"none", "running", "exit0", "exit1", "dead"},
         stdin : BOOLEAN, shutdown : BOOLEAN, done : BOOLEAN]

\* The batch handler: the capture and node it is at, the handle in use, and
\* whether it failed with the code of a refused handshake.
Batch == [pc : {"idle", "next", "begin", "copy", "send", "finish", "over"},
          cap : 0..NCaptures, node : 0..NNodes, h : Handles \cup {None},
          refused : BOOLEAN]

TypeOK ==
    /\ run \in {"launch", "init", "initWait", "call", "callWait", "notify",
                "closePeer", "close", "wait", "v1", "done"}
    /\ err \in Errors
    /\ answer \in {"none", "receipt", "error", "v1receipt"}
    /\ ctxDone \in BOOLEAN
    /\ up \in Seq(UpMsg) /\ down \in Seq(DownMsg)
    /\ host \in Host
    /\ blobs \in [Handles -> Blob \cup {NoBlob}]
    /\ plug \in Plug
    /\ batch \in Batch
    /\ result \in [Captures -> {"none", "receipt", "error"}]
    /\ faults \in 0..MaxFaults

Init ==
    /\ run = "launch" /\ err = "none" /\ answer = "none" /\ ctxDone = FALSE
    /\ up = <<>> /\ down = <<>>
    /\ host = [open |-> {}, next |-> 0, closed |-> FALSE, done |-> FALSE,
               serving |-> None]
    /\ blobs = [h \in Handles |-> NoBlob]
    /\ plug = [child |-> "none", stdin |-> TRUE, shutdown |-> FALSE,
               done |-> FALSE]
    /\ batch = [pc |-> "idle", cap |-> 0, node |-> 0, h |-> None, refused |-> FALSE]
    /\ result = [c \in Captures |-> "none"]
    /\ faults = 0

Running == plug.child = "running"
CanFault == faults < MaxFaults

\* The socket carries a message while both ends are open.
Connected == Running /\ ~plug.done /\ ~host.closed

-----------------------------------------------------------------------------
(* The host: Launch, RunBatch, Session.Close, and capture around them.      *)

LaunchOk ==
    /\ run = "launch" /\ ~ctxDone
    /\ run' = "init"
    /\ plug' = [plug EXCEPT !.child = "running"]
    /\ UNCHANGED <<err, answer, ctxDone, up, down, host, blobs, batch, result,
                   faults>>

\* No such subcommand, a polluted or late announce, a failed dial, or the
\* context: the child is killed.
LaunchFail ==
    /\ run = "launch"
    /\ run' = "wait" /\ err' = "bringup"
    /\ UNCHANGED <<answer, ctxDone, up, down, host, blobs, plug, batch, result,
                   faults>>

\* peer.Call: write the request and wait.
HostCall(from, to, kind) ==
    /\ run = from
    /\ IF Connected
       THEN /\ up' = Append(up, Msg(kind, None))
            /\ run' = to
            /\ UNCHANGED err
       ELSE run' = "closePeer" /\ err' = "transport" /\ UNCHANGED up
    /\ UNCHANGED <<answer, ctxDone, down, host, blobs, plug, batch, result, faults>>

Initialize   == HostCall("init", "initWait", "initialize")
CaptureBatch == HostCall("call", "callWait", "batch")

\* Call's select: the context, the peer's end, or the response (HostRead).
HostCallFails(why) ==
    /\ run \in {"initWait", "callWait"}
    /\ run' = "closePeer" /\ err' = why
    /\ UNCHANGED <<answer, ctxDone, up, down, host, blobs, plug, batch, result,
                   faults>>

HostCancelled == ctxDone /\ HostCallFails("cancelled")

HostPeerDoneNever == FALSE

HostPeerDone == host.done /\ HostCallFails("transport")

\* readLoop and deliver for the responses the host waits for; one to no
\* pending call is dropped.
HostReadResponse ==
    LET m == Head(down)
    IN  /\ down # <<>> /\ ~host.done
        /\ m.kind \in InitReply \cup {"result", "failed"}
        /\ down' = Tail(down)
        /\ CASE run = "initWait" /\ m.kind = "selected" ->
                  run' = "call" /\ UNCHANGED err
             [] run = "initWait" /\ m.kind \in {"unsupported", "refused"} ->
                  run' = "closePeer" /\ err' = m.kind
             [] run = "callWait" /\ m.kind = "result" ->
                  run' = "notify" /\ UNCHANGED err
             [] run = "callWait" /\ m.kind \in {"failed", "unsupported"} ->
                  /\ run' = "closePeer"
                  /\ err' = IF m.kind = "failed" THEN "batch" ELSE m.kind
             [] OTHER -> UNCHANGED <<run, err>>
        /\ UNCHANGED <<answer, ctxDone, up, host, blobs, plug, batch, result,
                       faults>>

\* The shutdown notification, best effort.
Notify ==
    /\ run = "notify"
    /\ run' = "closePeer"
    /\ up' = IF Connected THEN Append(up, Msg("shutdown", None)) ELSE up
    /\ UNCHANGED <<err, answer, ctxDone, down, host, blobs, plug, batch, result,
                   faults>>

ClosePeer ==
    /\ run = "closePeer"
    /\ run' = "close"
    /\ host' = [host EXCEPT !.closed = TRUE]
    /\ UNCHANGED <<err, answer, ctxDone, up, down, blobs, plug, batch, result,
                   faults>>

CloseStdin ==
    /\ run = "close"
    /\ run' = "wait"
    /\ plug' = [plug EXCEPT !.stdin = FALSE]
    /\ UNCHANGED <<err, answer, ctxDone, up, down, host, blobs, batch, result,
                   faults>>

\* A process that is gone: its ends of the pipes close.
Died(how) ==
    /\ plug' = [plug EXCEPT !.child = how, !.done = TRUE]
    /\ blobs' = [h \in Handles |->
                    IF blobs[h] # NoBlob THEN [blobs[h] EXCEPT !.writer = FALSE]
                    ELSE NoBlob]
    /\ batch' = [batch EXCEPT !.pc = "over"]
    /\ up' = <<>>

\* The grace is over, or CommandContext kills the child of a cancelled
\* capture.
KillNever == FALSE

Kill ==
    /\ Running
    /\ run = "wait" \/ ctxDone
    /\ Died("dead")
    /\ UNCHANGED <<run, err, answer, ctxDone, down, host, result, faults>>

\* IsFallbackSignal.
FallbackOnLostSession == err \in {"bringup", "unsupported", "transport"}

FallbackSignal == err \in {"bringup", "unsupported"}

\* Run returns: a child that did not exit cleanly fails a batch that went
\* well.
ExitedBadly == err = "none" /\ plug.child # "exit0"

\* Session.Close has reaped the child; captureServeV2 judges the outcome.
ChildReaped == ~Running

ChildUnreaped == TRUE

RunReturns ==
    /\ run = "wait"
    /\ ChildReaped
    /\ IF FallbackSignal
       THEN run' = "v1" /\ UNCHANGED <<err, answer>>
       ELSE /\ run' = "done"
            /\ err' = IF ExitedBadly THEN "exit" ELSE err
            /\ answer' = IF err' = "none" /\ result[1] = "receipt"
                         THEN "receipt" ELSE "error"
    /\ UNCHANGED <<ctxDone, up, down, host, blobs, plug, batch, result, faults>>

\* capture's v1 half: one process, its output decoded whole.
CaptureBatchV1 ==
    /\ run = "v1"
    /\ run' = "done"
    /\ \E a \in {"v1receipt", "error"} : answer' = a
    /\ UNCHANGED <<err, ctxDone, up, down, host, blobs, plug, batch, result, faults>>

CancelCapture ==
    /\ run # "done" /\ ~ctxDone
    /\ ctxDone' = TRUE
    /\ UNCHANGED <<run, err, answer, up, down, host, blobs, plug, batch, result,
                   faults>>

-----------------------------------------------------------------------------
(* The host's blob handler and its commit goroutines.                       *)

HostServes(kind) ==
    /\ down # <<>> /\ ~host.done /\ host.serving = None
    /\ Head(down).kind = kind

HostReply(m) == up' = IF Connected THEN Append(up, m) ELSE up

\* begin: one blob at a time; the write end rides the reply, and is closed by
\* the kernel when the reply cannot be delivered.
BeginAllowed == host.open = {}

Begin ==
    LET h == host.next + 1
    IN  /\ HostServes("begin")
        /\ IF BeginAllowed /\ h \in Handles
           THEN /\ host' = [host EXCEPT !.open = @ \cup {h}, !.next = h]
                /\ blobs' = [blobs EXCEPT ![h] =
                                [cap |-> batch.cap, node |-> batch.node,
                                 full |-> FALSE, writer |-> Connected,
                                 commit |-> "streaming"]]
                /\ HostReply(Msg("pipe", h))
           ELSE /\ UNCHANGED <<host, blobs>>
                /\ HostReply(Msg("nopipe", None))
        /\ down' = Tail(down)
        /\ UNCHANGED <<run, err, answer, ctxDone, plug, batch, result, faults>>

\* finish: the handle is forgotten and the commit joined.
FinishTake ==
    LET h == Head(down).h
    IN  /\ HostServes("finish")
        /\ host' = [host EXCEPT !.open = @ \ {h}, !.serving = h]
        /\ down' = Tail(down)
        /\ UNCHANGED <<run, err, answer, ctxDone, up, blobs, plug, batch, result,
                       faults>>

\* The context handlers and commits run under: the peer's.
PeerCtxDone == host.closed \/ host.done \/ ctxDone

FinishedEarly(h) == TRUE

Finished(h) == blobs[h].commit # "streaming"

FinishReply ==
    LET h == host.serving
    IN  /\ h # None
        /\ Finished(h) \/ PeerCtxDone
        /\ HostReply(Msg(IF Finished(h) /\ blobs[h].commit # "failed"
                         THEN "id" ELSE "noid", h))
        /\ host' = [host EXCEPT !.serving = None]
        /\ UNCHANGED <<run, err, answer, ctxDone, down, blobs, plug, batch,
                       result, faults>>

\* WriteBlob: at the end of the pipe's bytes they are committed, whole or
\* not, under their own id.
Commit(h) ==
    /\ blobs[h] # NoBlob /\ blobs[h].commit = "streaming" /\ ~blobs[h].writer
    /\ blobs' = [blobs EXCEPT ![h].commit = "stored"]
    /\ UNCHANGED <<run, err, answer, ctxDone, up, down, host, plug, batch, result,
                   faults>>

\* The store fails, or the peer's context is cancelled.
CommitFails(h) ==
    /\ blobs[h] # NoBlob /\ blobs[h].commit = "streaming"
    /\ \/ PeerCtxDone /\ UNCHANGED faults
       \/ CanFault /\ faults' = faults + 1
    /\ blobs' = [blobs EXCEPT ![h].commit = "failed"]
    /\ UNCHANGED <<run, err, answer, ctxDone, up, down, host, plug, batch, result>>

\* readLoop's end: closed here, or by the plugin once what it sent is read.
HostEOF ==
    /\ run \notin {"launch", "v1"} /\ ~host.done
    /\ host.closed \/ (down = <<>> /\ (~Running \/ plug.done))
    /\ host' = [host EXCEPT !.done = TRUE]
    /\ down' = <<>>
    /\ UNCHANGED <<run, err, answer, ctxDone, up, blobs, plug, batch, result,
                   faults>>

-----------------------------------------------------------------------------
(* The plugin: Serve, its handlers and blobProtocolWriter.                  *)

PReply(m) == down' = IF Connected THEN Append(down, m) ELSE down

PServes(kind) ==
    /\ Running /\ up # <<>> /\ Head(up).kind = kind
    /\ batch.pc \in {"idle", "over"} \/ kind \in BlobReply

PInitialize ==
    /\ PServes("initialize")
    /\ up' = Tail(up)
    /\ \E kind \in InitReply : PReply(Msg(kind, None))
    /\ UNCHANGED <<run, err, answer, ctxDone, host, blobs, plug, batch, result,
                   faults>>

\* The handler turns to a capture.
CaptureAt(c) ==
    [pc |-> "next", cap |-> c, node |-> 1, h |-> None, refused |-> batch.refused]

PBatch ==
    /\ PServes("batch")
    /\ up' = Tail(up)
    /\ batch' = CaptureAt(1)
    /\ UNCHANGED <<run, err, answer, ctxDone, down, host, blobs, plug, result,
                   faults>>

PShutdown ==
    /\ PServes("shutdown")
    /\ up' = Tail(up)
    /\ plug' = [plug EXCEPT !.shutdown = TRUE]
    /\ UNCHANGED <<run, err, answer, ctxDone, down, host, blobs, batch, result,
                   faults>>

MoreCaptures == batch.cap < NCaptures

\* WriteBlob failed: the capture's error, and on to the next, or the
\* batch's.
Failed ==
    \/ /\ result' = [result EXCEPT ![batch.cap] = "error"]
       /\ IF MoreCaptures
          THEN batch' = CaptureAt(batch.cap + 1) /\ UNCHANGED down
          ELSE batch' = [batch EXCEPT !.pc = "over"] /\ PReply(Msg("result", None))
    \/ /\ UNCHANGED result
       /\ \/ /\ batch' = [batch EXCEPT !.pc = "over"]
             /\ PReply(Msg("failed", None))
          \/ /\ BatchRefuses
             /\ batch' = [batch EXCEPT !.pc = "over", !.refused = TRUE]
             /\ PReply(Msg("unsupported", None))

\* A call of the plugin's: it fails once the peer has ended.
PCall(from, to, kind) ==
    /\ Running /\ batch.pc = from
    /\ IF ~plug.done
       THEN /\ PReply(Msg(kind, batch.h))
            /\ batch' = [batch EXCEPT !.pc = to]
            /\ UNCHANGED result
       ELSE Failed
    /\ UNCHANGED <<run, err, answer, ctxDone, up, host, blobs, plug, faults>>

PBegin  == PCall("next", "begin", "begin")
PFinish == PCall("send", "finish", "finish")

PPipe ==
    /\ PServes("pipe") /\ batch.pc = "begin"
    /\ up' = Tail(up)
    /\ batch' = [batch EXCEPT !.pc = "copy", !.h = Head(up).h]
    /\ UNCHANGED <<run, err, answer, ctxDone, down, host, blobs, plug, result,
                   faults>>

\* The node's bytes are written and the pipe closed.
PCopy ==
    /\ Running /\ batch.pc = "copy"
    /\ blobs[batch.h].commit = "streaming"
    /\ blobs' = [blobs EXCEPT ![batch.h].full = TRUE, ![batch.h].writer = FALSE]
    /\ batch' = [batch EXCEPT !.pc = "send"]
    /\ UNCHANGED <<run, err, answer, ctxDone, up, down, host, plug, result, faults>>

\* Reading the node or writing to the pipe fails: the pipe is closed, the
\* blob not finished.
PCopyFailsMayFinish ==
    \/ Failed
    \/ batch' = [batch EXCEPT !.pc = "send"] /\ UNCHANGED <<result, down>>

PCopyFailed == Failed

PCopyFails ==
    /\ Running /\ batch.pc = "copy"
    /\ \/ blobs[batch.h].commit # "streaming" /\ UNCHANGED faults
       \/ CanFault /\ faults' = faults + 1
    /\ blobs' = [blobs EXCEPT ![batch.h].writer = FALSE]
    /\ PCopyFailed
    /\ UNCHANGED <<run, err, answer, ctxDone, up, host, plug>>

\* The id of a node: the next node, the next capture or the batch's result.
PId ==
    /\ PServes("id") /\ batch.pc = "finish"
    /\ up' = Tail(up)
    /\ IF batch.node < NNodes
       THEN /\ batch' = [batch EXCEPT !.pc = "next", !.node = @ + 1, !.h = None]
            /\ UNCHANGED <<down, result>>
       ELSE /\ result' = [result EXCEPT ![batch.cap] = "receipt"]
            /\ IF MoreCaptures
               THEN batch' = CaptureAt(batch.cap + 1) /\ UNCHANGED down
               ELSE /\ batch' = [batch EXCEPT !.pc = "over"]
                    /\ PReply(Msg("result", None))
    /\ UNCHANGED <<run, err, answer, ctxDone, host, blobs, plug, faults>>

\* An error reply, or the peer ends under the call.
PCallFails ==
    /\ Running
    /\ \/ PServes("nopipe") /\ batch.pc = "begin" /\ up' = Tail(up)
       \/ PServes("noid") /\ batch.pc = "finish" /\ up' = Tail(up)
       \/ batch.pc \in {"begin", "finish"} /\ plug.done /\ UNCHANGED up
    /\ Failed
    /\ UNCHANGED <<run, err, answer, ctxDone, host, blobs, plug, faults>>

PEOF ==
    /\ Running /\ ~plug.done /\ up = <<>> /\ host.closed
    /\ plug' = [plug EXCEPT !.done = TRUE]
    /\ UNCHANGED <<run, err, answer, ctxDone, up, down, host, blobs, batch, result,
                   faults>>

\* Serve's select, and the plugin's main: a cancelled context is no error.
ServeEndUndrained ==
    \/ plug.shutdown /\ Died("exit0")
    \/ StdinCancels /\ ~plug.stdin /\ Died("exit0")
    \/ host.closed /\ Died(IF plug.shutdown THEN "exit0" ELSE "exit1")

ServeEnd ==
    \/ plug.shutdown /\ Died("exit0")
    \/ StdinCancels /\ ~plug.stdin /\ Died("exit0")
    \/ /\ plug.done /\ batch.pc \in {"idle", "over"}
       /\ Died(IF plug.shutdown THEN "exit0" ELSE "exit1")

PServeReturns ==
    /\ Running
    /\ ServeEnd
    /\ UNCHANGED <<run, err, answer, ctxDone, down, host, result, faults>>

PCrash ==
    /\ Running /\ CanFault
    /\ Died("dead")
    /\ faults' = faults + 1
    /\ UNCHANGED <<run, err, answer, ctxDone, down, host, result>>

-----------------------------------------------------------------------------

HostSession ==
    \/ LaunchOk \/ LaunchFail \/ Initialize \/ CaptureBatch
    \/ HostCancelled \/ HostPeerDone \/ HostReadResponse
    \/ Notify \/ ClosePeer \/ CloseStdin \/ RunReturns \/ CaptureBatchV1

HostBlobs ==
    \/ Begin \/ FinishTake \/ FinishReply \/ HostEOF
    \/ \E h \in Handles : Commit(h) \/ CommitFails(h)

Plugin ==
    \/ PInitialize \/ PBatch \/ PShutdown \/ PBegin \/ PPipe \/ PCopy
    \/ PCopyFails \/ PFinish \/ PId \/ PCallFails \/ PEOF

Done == run = "done" /\ ~Running /\ UNCHANGED vars

Next ==
    \/ HostSession \/ HostBlobs \/ Plugin \/ PServeReturns
    \/ Kill \/ PCrash \/ CancelCapture \/ Done

Spec == Init /\ [][Next]_vars

\* Goroutines run; the commit goroutine ends once its pipe does; the grace
\* and CommandContext do kill.  The plugin is not trusted to do anything.
HostFairness ==
    /\ WF_vars(HostSession)
    /\ WF_vars(HostBlobs)
    /\ WF_vars(Kill)

\* A plugin that works on what it is asked for.
PluginFairness == WF_vars(Plugin) /\ WF_vars(PServeReturns)

FairSpec == Spec /\ HostFairness

-----------------------------------------------------------------------------
(* Properties.                                                              *)

\* A capture reported with a receipt has every one of its nodes in the store,
\* each committed from a complete stream: a truncated stream, which the host
\* commits as well, is never part of a receipt (blobProtocolWriter.WriteBlob).
ReceiptIsComplete ==
    \A c \in Captures : result[c] = "receipt" =>
        \A n \in 1..NNodes : \E h \in Handles :
            /\ blobs[h] # NoBlob
            /\ blobs[h].cap = c /\ blobs[h].node = n
            /\ blobs[h].full /\ blobs[h].commit = "stored"

\* A capture that fails once its batch was asked for is not repeated on the
\* one-shot path, wherever the session was when it broke off: the plugin may have
\* captured part of it, or all (capture, IsFallbackSignal).  The one exception is
\* a BatchFunc that itself fails with the code of a refused handshake.
NoSilentRetry ==
    (run = "v1" \/ answer = "v1receipt") =>
        \/ batch.cap = None /\ \A h \in Handles : blobs[h] = NoBlob
        \/ batch.refused

\* "Anything after a successful initialize - a batch error, a blob failure, a
\* dropped session - MUST NOT silently retry on v1": without that exception,
\* which IsFallbackSignal makes by looking at the code alone.
BatchErrorIsFinal ==
    (run = "v1" \/ answer = "v1receipt") => batch.cap = None

\* No child outlives its capture, and a batch that went well is not turned
\* into an error by the way its session ends: Serve answers the shutdown that
\* the end of the socket overtakes.
CleanEnd ==
    /\ run \in {"v1", "done"} => ~Running
    /\ (run = "done" /\ err = "exit") => plug.child = "dead"

\* A cancelled capture returns whatever the plugin does: no handshake, call,
\* blob or teardown outlasts the context and the grace.
CancelledReturns == ctxDone ~> run = "done"

\* With a plugin that does its work every capture returns, through failed
\* reads, failed commits, refused blobs and crashes: host and plugin never
\* wait for each other.
CaptureReturns == PluginFairness => <>(run = "done")

=============================================================================
