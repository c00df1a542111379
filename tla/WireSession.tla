----------------------------- MODULE WireSession -----------------------------
(***************************************************************************)
(* RFC 0013 traversal sessions, both ends: the host's WirePlugin adapter   *)
(* and Session (internal/traversal_serve/adapter.go, launch.go), the Peer  *)
(* both sides run (peer.go) and the plugin's Serve (server.go), joined by  *)
(* one NDJSON byte stream per session.                                     *)
(*                                                                         *)
(* On the host each operation is a goroutine that takes a live session,    *)
(* issues one Call on it and waits for the response, the peer's end or its *)
(* own context; the peer's read loop correlates responses by id.  In the   *)
(* plugin a read loop queues requests, a serve loop answers them one at a  *)
(* time, and Serve ends the session on a shutdown notification, on end of  *)
(* stream or on its context.                                               *)
(*                                                                         *)
(* Abstractions.  w.mu is held for all of liveSession, dial included, so   *)
(* that is one action.  Bring-up (spawn, announce, dial, initialize, the   *)
(* declaration checks) either yields a session or an error.  The host only *)
(* sends well-formed requests after initialize.  Every operation is a      *)
(* mutation: the plugin either applies it or reports an error.             *)
(***************************************************************************)
EXTENDS Naturals, Sequences

CONSTANTS
    Ops,           \* host operations, each issuing one wire call
    QueueDepth,    \* requestQueueDepth
    LineCap,       \* lines the stream buffers per direction
    StdinCancels,  \* sessions whose plugin cancels Serve's context on stdin EOF
    MaxSpawn,      \* bound: children launched
    MaxCrash       \* bound: children that crash or break the framing

ASSUME ConstantsAssumption ==
    /\ QueueDepth \in Nat \ {0} /\ LineCap \in Nat \ {0}
    /\ MaxSpawn \in Nat /\ MaxCrash \in Nat
    /\ StdinCancels \subseteq 1..MaxSpawn

VARIABLES
    session,  \* w.session: id of the cached session, 0 when nil
    fatal,    \* w.fatalErr is set
    spawned,  \* number of sessions launched; ids are 1..spawned
    crashes,  \* child faults so far
    op,       \* host operations
    host,     \* per session: the host's peer and teardown
    line,     \* per session: the stream, up to the plugin and down to the host
    plug,     \* per session: the plugin process
    applied   \* per operation: how often a plugin applied it

vars == <<session, fatal, spawned, crashes, op, host, line, plug, applied>>

Sessions == 1..MaxSpawn

\* A request or response line carries its id and, for a response, whether
\* the plugin applied the operation.  `for` is the operation it is about.
Shutdown == [kind |-> "shutdown"]
Request  == [kind : {"request"}, id : Nat, for : Ops]
Response == [kind : {"response"}, id : Nat, for : Ops, ok : BOOLEAN]

NoMsg == [kind |-> "none"]

\* ready: holds a session; waiting: its request is written.
OpState == [pc : {"idle", "ready", "waiting", "done"}, ses : 0..MaxSpawn,
            id : Nat, got : Response \cup {NoMsg},
            result : {"none", "ok", "rejected", "transport", "abandoned",
                      "unavailable"}]

\* next: the peer's last id; pending: ids with a registered channel; done:
\* the read loop has ended; told: the shutdown line was written; teardown:
\* how far Session.Close has come.
HostState == [next : Nat, pending : SUBSET Nat, done : BOOLEAN,
              closed : BOOLEAN, told : BOOLEAN,
              teardown : {"none", "notify", "stdin", "peer", "wait", "over"}]

LineState == [up : Seq(Request \cup {Shutdown}), down : Seq(Response)]

\* outcome: what the handler of `serving` decided, not yet written back; main:
\* where Serve is, the drain states waiting for ServeDone; child: exit0 and
\* exit1 stand for Serve returning nil and an error.
PlugState == [queue : Seq(Request \cup {Shutdown}),
              serving : Request \cup {NoMsg},
              outcome : {"none", "ok", "rejected"},
              readDone : BOOLEAN, closed : BOOLEAN,
              shutdown : BOOLEAN, stdin : BOOLEAN,
              main : {"select", "drainShutdown", "drainCtx", "drainEnd"},
              child : {"none", "running", "exit0", "exit1", "crashed",
                       "killed"}]

TypeOK ==
    /\ session \in 0..MaxSpawn
    /\ fatal \in BOOLEAN
    /\ spawned \in 0..MaxSpawn
    /\ crashes \in 0..MaxCrash
    /\ op \in [Ops -> OpState]
    /\ host \in [Sessions -> HostState]
    /\ line \in [Sessions -> LineState]
    /\ plug \in [Sessions -> PlugState]
    /\ applied \in [Ops -> Nat]
    /\ \A s \in Sessions : Len(plug[s].queue) <= QueueDepth

Init ==
    /\ session = 0
    /\ fatal = FALSE
    /\ spawned = 0
    /\ crashes = 0
    /\ op = [o \in Ops |-> [pc |-> "idle", ses |-> 0, id |-> 0, got |-> NoMsg,
                            result |-> "none"]]
    /\ host = [s \in Sessions |-> [next |-> 0, pending |-> {}, done |-> FALSE,
                                   closed |-> FALSE, told |-> FALSE,
                                   teardown |-> "none"]]
    /\ line = [s \in Sessions |-> [up |-> <<>>, down |-> <<>>]]
    /\ plug = [s \in Sessions |->
                  [queue |-> <<>>, serving |-> NoMsg, outcome |-> "none",
                   readDone |-> FALSE,
                   closed |-> FALSE, shutdown |-> FALSE,
                   stdin |-> TRUE, main |-> "select",
                   child |-> "none"]]
    /\ applied = [o \in Ops |-> 0]

Running(s) == plug[s].child = "running"

\* A write on either end reaches the other only while both are open; it
\* blocks while the stream's buffer is full.
Open(s) == ~host[s].closed /\ Running(s) /\ ~plug[s].closed
UpBlocked(s) == Open(s) /\ Len(line[s].up) >= LineCap
DownBlocked(s) == Open(s) /\ Len(line[s].down) >= LineCap

\* A process that is gone keeps nothing but how it went.
Gone(p, how) ==
    [p EXCEPT !.queue = <<>>, !.serving = NoMsg, !.outcome = "none",
              !.readDone = TRUE, !.closed = TRUE,
              !.stdin = FALSE, !.main = "select", !.child = how]

Unread(s) == [line EXCEPT ![s].up = <<>>]

Finish(o, result) ==
    [op EXCEPT ![o] = [pc |-> "done", ses |-> @.ses, id |-> @.id,
                       got |-> NoMsg, result |-> result]]

-----------------------------------------------------------------------------
(* Host: liveSession, Call and the peer's read loop.                        *)

\* liveSession, holding w.mu throughout.
Unavailable(o) ==
    /\ op[o].pc = "idle"
    /\ fatal
    /\ op' = Finish(o, "unavailable")
    /\ UNCHANGED <<session, fatal, spawned, crashes, host, line, plug, applied>>

Alive == session # 0 /\ ~host[session].done

UseCached(o) ==
    /\ op[o].pc = "idle"
    /\ ~fatal
    /\ Alive
    /\ op' = [op EXCEPT ![o].pc = "ready", ![o].ses = session]
    /\ UNCHANGED <<session, fatal, spawned, crashes, host, line, plug, applied>>

\* session.Close on a dead session: the child has exited or is killed when
\* the grace is over.  Its shutdown line is written first and may block.
CanReap == ~(session # 0 /\ UpBlocked(session))

\* Mutant: the dead session's child is left running.
ReapedNever == plug

Reaped ==
    IF session = 0 \/ ~Running(session) THEN plug
    ELSE [plug EXCEPT ![session] = Gone(@, "killed")]

Closed ==
    IF session = 0 THEN host
    ELSE [host EXCEPT ![session].closed = TRUE, ![session].teardown = "over"]

\* No session, or a dead one: the one launch this operation may make.
Respawn(o) ==
    /\ op[o].pc = "idle"
    /\ ~fatal
    /\ ~Alive
    /\ CanReap
    /\ spawned < MaxSpawn
    /\ spawned' = spawned + 1
    /\ session' = spawned + 1
    /\ plug' = [Reaped EXCEPT ![spawned + 1].child = "running"]
    /\ host' = Closed
    /\ line' = IF session = 0 THEN line ELSE Unread(session)
    /\ op' = [op EXCEPT ![o].pc = "ready", ![o].ses = spawned + 1]
    /\ UNCHANGED <<fatal, crashes, applied>>

\* The launch fails, or the declaration is refused: fatalErr for good.
DialFails(o) ==
    /\ op[o].pc = "idle"
    /\ ~fatal
    /\ ~Alive
    /\ CanReap
    /\ fatal' = TRUE
    /\ session' = 0
    /\ plug' = Reaped
    /\ host' = Closed
    /\ line' = IF session = 0 THEN line ELSE Unread(session)
    /\ op' = Finish(o, "unavailable")
    /\ UNCHANGED <<spawned, crashes, applied>>

\* Call registers its channel and writes the line.
CallSend(o) ==
    LET s  == op[o].ses
        id == host[s].next + 1
    IN  /\ op[o].pc = "ready"
        /\ ~UpBlocked(s)
        /\ IF ~Open(s)
           THEN /\ op' = Finish(o, "transport")
                /\ host' = [host EXCEPT ![s].next = id]
                /\ UNCHANGED line
           ELSE /\ op' = [op EXCEPT ![o].pc = "waiting", ![o].id = id]
                /\ host' = [host EXCEPT ![s].next = id,
                                        ![s].pending = @ \cup {id}]
                /\ line' = [line EXCEPT ![s].up =
                               Append(@, [kind |-> "request", id |-> id,
                                          for |-> o])]
        /\ UNCHANGED <<session, fatal, spawned, crashes, plug, applied>>

Unregister(o) ==
    [host EXCEPT ![op[o].ses].pending = @ \ {op[o].id}]

\* Call's select: the response, the peer's end, or the caller's context; when
\* several are ready any of them may be taken.
CallReturn(o) ==
    /\ op[o].pc = "waiting"
    /\ op[o].got # NoMsg
    /\ op' = Finish(o, IF op[o].got.ok THEN "ok" ELSE "rejected")
    /\ host' = Unregister(o)
    /\ UNCHANGED <<session, fatal, spawned, crashes, line, plug, applied>>

\* Mutants: a lost call is issued again; the peer's end is not selected on.
CallPeerDoneRetry(o) ==
    /\ op[o].pc = "waiting"
    /\ host[op[o].ses].done
    /\ op' = [op EXCEPT ![o].pc = "idle", ![o].got = NoMsg]
    /\ host' = Unregister(o)
    /\ UNCHANGED <<session, fatal, spawned, crashes, line, plug, applied>>

CallPeerDoneNever(o) == FALSE /\ UNCHANGED vars

CallPeerDone(o) ==
    /\ op[o].pc = "waiting"
    /\ host[op[o].ses].done
    /\ op' = Finish(o, "transport")
    /\ host' = Unregister(o)
    /\ UNCHANGED <<session, fatal, spawned, crashes, line, plug, applied>>

CallAbandon(o) ==
    /\ op[o].pc = "waiting"
    /\ op' = Finish(o, "abandoned")
    /\ host' = Unregister(o)
    /\ UNCHANGED <<session, fatal, spawned, crashes, line, plug, applied>>

\* Mutant: responses are matched by arrival order.
AddresseesInOrder(s, m) ==
    {o \in Ops : /\ op[o].ses = s
                 /\ op[o].pc = "waiting"
                 /\ \A i \in host[s].pending : op[o].id <= i
                 /\ op[o].id \in host[s].pending}

\* The operations a response with this id on session s is delivered to.
Addressees(s, m) ==
    {o \in Ops : /\ op[o].ses = s
                 /\ op[o].pc = "waiting"
                 /\ op[o].id = m.id
                 /\ m.id \in host[s].pending}

\* readLoop and deliver: an unmatched response is dropped.  Lines the scanner
\* has buffered are read even after a close.
HostRead(s) ==
    LET m == Head(line[s].down)
    IN  /\ ~host[s].done
        /\ line[s].down # <<>>
        /\ line' = [line EXCEPT ![s].down = Tail(@)]
        /\ op' = [o \in Ops |-> IF o \in Addressees(s, m)
                                THEN [op[o] EXCEPT !.got = m] ELSE op[o]]
        /\ host' = [host EXCEPT ![s].pending = @ \ {m.id}]
        /\ UNCHANGED <<session, fatal, spawned, crashes, plug, applied>>

\* The stream ends: closed on this side, or by the plugin once what it wrote
\* is read.
HostEOF(s) ==
    /\ s <= spawned
    /\ ~host[s].done
    /\ host[s].closed \/ (line[s].down = <<>> /\ (~Running(s) \/ plug[s].closed))
    /\ host' = [host EXCEPT ![s].done = TRUE]
    /\ line' = [line EXCEPT ![s].down = <<>>]
    /\ UNCHANGED <<session, fatal, spawned, crashes, op, plug, applied>>

-----------------------------------------------------------------------------
(* Host: WirePlugin.Close and Session.teardown.                             *)

CloseBegin ==
    /\ session # 0
    /\ session' = 0
    /\ host' = [host EXCEPT ![session].teardown = "notify"]
    /\ UNCHANGED <<fatal, spawned, crashes, op, line, plug, applied>>

CloseNotify(s) ==
    /\ host[s].teardown = "notify"
    /\ ~UpBlocked(s)
    /\ line' = IF Open(s) THEN [line EXCEPT ![s].up = Append(@, Shutdown)]
               ELSE line
    /\ host' = [host EXCEPT ![s].teardown = "stdin", ![s].told = Open(s)]
    /\ UNCHANGED <<session, fatal, spawned, crashes, op, plug, applied>>

CloseStdin(s) ==
    /\ host[s].teardown = "stdin"
    /\ plug' = [plug EXCEPT ![s].stdin = FALSE]
    /\ host' = [host EXCEPT ![s].teardown = "peer"]
    /\ UNCHANGED <<session, fatal, spawned, crashes, op, line, applied>>

ClosePeer(s) ==
    /\ host[s].teardown = "peer"
    /\ host' = [host EXCEPT ![s].teardown = "wait", ![s].closed = TRUE]
    /\ UNCHANGED <<session, fatal, spawned, crashes, op, line, plug, applied>>

\* Mutant: the grace has no end.
CloseKillNever(s) == FALSE /\ UNCHANGED vars

\* Wait returns, or the grace ends and the child is killed.
CloseReap(s) ==
    /\ host[s].teardown = "wait"
    /\ ~Running(s)
    /\ host' = [host EXCEPT ![s].teardown = "over"]
    /\ UNCHANGED <<session, fatal, spawned, crashes, op, line, plug, applied>>

CloseKill(s) ==
    /\ host[s].teardown = "wait"
    /\ Running(s)
    /\ plug' = [plug EXCEPT ![s] = Gone(@, "killed")]
    /\ line' = Unread(s)
    /\ UNCHANGED <<session, fatal, spawned, crashes, op, host, applied>>

-----------------------------------------------------------------------------
(* Plugin: the peer's read loop, its serve loop and the handler.            *)

\* A request or notification goes to the queue; a full queue holds the loop.
PRead(s) ==
    /\ Running(s) /\ ~plug[s].readDone
    /\ line[s].up # <<>>
    /\ Len(plug[s].queue) < QueueDepth
    /\ plug' = [plug EXCEPT ![s].queue = Append(@, Head(line[s].up))]
    /\ line' = [line EXCEPT ![s].up = Tail(@)]
    /\ UNCHANGED <<session, fatal, spawned, crashes, op, host, applied>>

\* The stream ends, closed by the host after its last line or on this side
\* (what the scanner had not read is lost).
PReadEnd(s) ==
    /\ Running(s) /\ ~plug[s].readDone
    /\ plug[s].closed \/ (line[s].up = <<>> /\ host[s].closed)
    /\ plug' = [plug EXCEPT ![s].readDone = TRUE]
    /\ UNCHANGED <<session, fatal, spawned, crashes, op, host, line, applied>>

PServe(s) ==
    /\ Running(s) /\ plug[s].serving = NoMsg
    /\ plug[s].queue # <<>>
    /\ LET m == Head(plug[s].queue)
       IN  plug' = IF m = Shutdown
                   THEN [plug EXCEPT ![s].queue = Tail(@), ![s].shutdown = TRUE]
                   ELSE [plug EXCEPT ![s].queue = Tail(@), ![s].serving = m]
    /\ UNCHANGED <<session, fatal, spawned, crashes, op, host, line, applied>>

Handling(s) ==
    Running(s) /\ plug[s].serving # NoMsg /\ plug[s].outcome = "none"

PApply(s) ==
    /\ Handling(s)
    /\ applied' = [applied EXCEPT ![plug[s].serving.for] = @ + 1]
    /\ plug' = [plug EXCEPT ![s].outcome = "ok"]
    /\ UNCHANGED <<session, fatal, spawned, crashes, op, host, line>>

\* An error, the handler giving up because its context is cancelled included.
PReject(s) ==
    /\ Handling(s)
    /\ plug' = [plug EXCEPT ![s].outcome = "rejected"]
    /\ UNCHANGED <<session, fatal, spawned, crashes, op, host, line, applied>>

\* serveOne's answer; a failed write is ignored.
PRespond(s) ==
    LET m == plug[s].serving
    IN  /\ Running(s) /\ plug[s].outcome # "none"
        /\ ~DownBlocked(s)
        /\ line' = IF ~Open(s) THEN line
                   ELSE [line EXCEPT ![s].down =
                            Append(@, [kind |-> "response", id |-> m.id,
                                       for |-> m.for,
                                       ok |-> plug[s].outcome = "ok"])]
        /\ plug' = [plug EXCEPT ![s].serving = NoMsg, ![s].outcome = "none"]
        /\ UNCHANGED <<session, fatal, spawned, crashes, op, host, applied>>

-----------------------------------------------------------------------------
(* Plugin: Serve.                                                           *)

\* The arms of the select, any ready one of which may be taken.
ShutdownArm(s) ==
    /\ Running(s) /\ plug[s].main = "select"
    /\ plug[s].shutdown
    /\ plug' = [plug EXCEPT ![s].closed = TRUE, ![s].main = "drainShutdown"]
    /\ UNCHANGED <<session, fatal, spawned, crashes, op, host, line, applied>>

CtxArm(s) ==
    /\ Running(s) /\ plug[s].main = "select"
    /\ s \in StdinCancels /\ ~plug[s].stdin
    /\ plug' = [plug EXCEPT ![s].closed = TRUE, ![s].main = "drainCtx"]
    /\ UNCHANGED <<session, fatal, spawned, crashes, op, host, line, applied>>

DoneArm(s) ==
    /\ Running(s) /\ plug[s].main = "select"
    /\ plug[s].readDone
    /\ plug' = [plug EXCEPT ![s].main = "drainEnd"]
    /\ UNCHANGED <<session, fatal, spawned, crashes, op, host, line, applied>>

ServeDone(s) ==
    plug[s].readDone /\ plug[s].queue = <<>> /\ plug[s].serving = NoMsg

\* Mutant: only the shutdown arm ends the session cleanly.
SessionEndByArm(s) ==
    IF plug[s].main = "drainShutdown" THEN "exit0" ELSE "exit1"

\* What Serve returns once the serve loop has drained: nil when the shutdown
\* was handled, whichever arm was taken (cancelledSessionEnd).
SessionEnd(s) == IF plug[s].shutdown THEN "exit0" ELSE "exit1"

ServeReturn(s) ==
    /\ Running(s) /\ plug[s].main # "select"
    /\ ServeDone(s)
    /\ plug' = [plug EXCEPT ![s] = Gone(@, SessionEnd(s))]
    /\ line' = Unread(s)
    /\ UNCHANGED <<session, fatal, spawned, crashes, op, host, applied>>

\* Faults: the child dies, or writes a line that ends the host's read loop
\* (malformed, over the bound) and lives on.
Crash(s) ==
    /\ Running(s)
    /\ crashes < MaxCrash
    /\ crashes' = crashes + 1
    /\ plug' = [plug EXCEPT ![s] = Gone(@, "crashed")]
    /\ line' = Unread(s)
    /\ UNCHANGED <<session, fatal, spawned, op, host, applied>>

Garble(s) ==
    /\ Open(s) /\ ~host[s].done
    /\ line[s].down = <<>>
    /\ crashes < MaxCrash
    /\ crashes' = crashes + 1
    /\ host' = [host EXCEPT ![s].done = TRUE]
    /\ UNCHANGED <<session, fatal, spawned, op, line, plug, applied>>

-----------------------------------------------------------------------------
Call(o) ==
    \/ Unavailable(o) \/ UseCached(o) \/ Respawn(o) \/ DialFails(o)
    \/ CallSend(o) \/ CallReturn(o) \/ CallPeerDone(o)

HostLoop(s) == HostRead(s) \/ HostEOF(s)

Teardown(s) ==
    CloseNotify(s) \/ CloseStdin(s) \/ ClosePeer(s) \/ CloseReap(s)
        \/ CloseKill(s)

Handler(s) == PApply(s) \/ PReject(s)

PluginLoop(s) ==
    \/ PRead(s) \/ PReadEnd(s) \/ PServe(s) \/ PRespond(s)
    \/ ShutdownArm(s) \/ CtxArm(s) \/ DoneArm(s) \/ ServeReturn(s)

Next ==
    \/ CloseBegin
    \/ \E o \in Ops : Call(o) \/ CallAbandon(o)
    \/ \E s \in Sessions :
          \/ HostLoop(s) \/ Teardown(s) \/ PluginLoop(s) \/ Handler(s)
          \/ Crash(s) \/ Garble(s)

Spec == Init /\ [][Next]_vars

\* Goroutines and processes run when they can; nothing makes a handler
\* return, a caller cancel or a host close the plugin.
Fairness ==
    /\ \A o \in Ops : WF_vars(Call(o))
    /\ \A s \in Sessions :
          /\ WF_vars(HostRead(s)) /\ WF_vars(HostEOF(s))
          /\ WF_vars(Teardown(s))
          /\ WF_vars(PRead(s)) /\ WF_vars(PReadEnd(s)) /\ WF_vars(PServe(s))
          /\ WF_vars(PRespond(s))
          /\ WF_vars(ShutdownArm(s) \/ CtxArm(s) \/ DoneArm(s)
                        \/ ServeReturn(s))

FairSpec == Spec /\ Fairness

-----------------------------------------------------------------------------
(* Properties.                                                              *)

\* The host "MUST NOT transparently retry a mutate method" (adapter.go
\* liveSession): across crashes, broken framing, respawns and abandoned calls
\* no operation is applied twice.
AtMostOnce == \A o \in Ops : applied[o] <= 1

\* Responses are correlated by id, "never by arrival order" (peer.go): what a
\* call returned is what happened to it, late answers to abandoned calls and
\* calls on replaced sessions included.
OutcomeIsTrue ==
    \A o \in Ops :
       /\ op[o].result = "ok" => applied[o] = 1
       /\ op[o].result \in {"rejected", "unavailable"} => applied[o] = 0

\* Where a call is, for MutationService: a call is new until its request is written.
CallStatus(o) ==
    CASE op[o].pc \in {"idle", "ready"}              -> "new"
      [] op[o].pc = "waiting"                        -> "open"
      [] op[o].result \in {"transport", "abandoned"} -> "lost"
      [] op[o].result = "unavailable"                -> "refused"
      [] OTHER                                       -> op[o].result

Service == INSTANCE MutationService WITH
    Calls <- Ops,
    call  <- [o \in Ops |-> CallStatus(o)],
    done  <- {o \in Ops : applied[o] > 0}

\* The sessions, with their respawns, crashes, broken framing, abandoned calls and late
\* answers, implement MutationService: every step of both ends is a step of it or none.
ImplementsService == Service!Spec

\* Every running child is the cached session's or is being torn down: a dead
\* session is reaped before it is replaced, so no child is leaked.
NoLeakedChild ==
    \A s \in Sessions :
       Running(s) => s = session \/ host[s].teardown \notin {"none", "over"}

\* Serve returns nil when the shutdown was handled, whichever arm of its
\* select won (cancelledSessionEnd); and a plugin that does not cancel on
\* stdin always handles a shutdown line that was written, since it precedes
\* the end of the stream.
ShutdownIsClean ==
    \A s \in Sessions :
       plug[s].child = "exit1" =>
          /\ ~plug[s].shutdown
          /\ host[s].told => s \in StdinCancels

\* The shutdown line cannot be written: the stream is full, because the plugin
\* is in a handler or is itself blocked writing an answer.
ShutdownBlocked(s) ==
    /\ host[s].teardown = "notify"
    /\ UpBlocked(s)
    /\ Handling(s) \/ DownBlocked(s)

\* Session.Close gives the child a grace and then kills it: a child whose
\* teardown began stops, whatever its handlers do.  The one exception is a
\* shutdown line that stays blocked for ever, which Close writes before it
\* arms the grace.
ClosedChildEnds ==
    \A s \in Sessions :
       [](host[s].teardown # "none" =>
             <>(host[s].teardown = "over" \/ []ShutdownBlocked(s)))

\* A call whose request was written returns, by its response or by the end of
\* the peer, as long as no handler hangs.
HandlersReturn == \A s \in Sessions : []<>~Handling(s)

CallReturns ==
    HandlersReturn => \A o \in Ops : op[o].pc = "waiting" ~> op[o].pc = "done"

=============================================================================
