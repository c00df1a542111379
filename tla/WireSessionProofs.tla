------------------------- MODULE WireSessionProofs -------------------------
(***************************************************************************)
(* Proofs about WireSession, for any operations, queue depth, buffer and   *)
(* number of sessions and faults.                                          *)
(*                                                                         *)
(* What makes AtMostOnce and OutcomeIsTrue inductive is where a request    *)
(* can be.  A call writes one request, and the request moves along the     *)
(* line, the queue and the handler, which keep the order of their ids; so  *)
(* it is in at most one place, nothing of it is left behind its answer,    *)
(* and it has not been applied before the handler has it.                  *)
(***************************************************************************)
EXTENDS WireSession, SequenceTheorems, TLAPS

Message == Request \cup {Shutdown}

IsRequest(m) == m.kind = "request"

\* Requests in a queue of messages are in the order of their ids, and come
\* after the one with this id.
Ordered(q) ==
    \A i, j \in 1..Len(q) :
        (i < j /\ IsRequest(q[i]) /\ IsRequest(q[j])) => q[i].id < q[j].id

Below(id, q) == \A i \in 1..Len(q) : IsRequest(q[i]) => id < q[i].id

\* The request with this id has left the way from the host to the handler.
Passed(s, id) ==
    /\ Below(id, line[s].up)
    /\ Below(id, plug[s].queue)
    /\ plug[s].serving # NoMsg => id < plug[s].serving.id

\* The message m of session s belongs to the call it names.
Owned(s, m) == op[m.for].ses = s /\ op[m.for].id = m.id /\ m.id # 0

Waits(s, m) == IsRequest(m) => Owned(s, m) /\ applied[m.for] = 0

Answers(s, m) ==
    Owned(s, m) /\ (m.ok <=> applied[m.for] = 1) /\ Passed(s, m.id)

PipeSound(s) ==
    /\ \A i \in 1..Len(line[s].up) : Waits(s, line[s].up[i])
    /\ \A i \in 1..Len(plug[s].queue) : Waits(s, plug[s].queue[i])
    /\ plug[s].serving # NoMsg =>
          /\ Owned(s, plug[s].serving)
          /\ applied[plug[s].serving.for] = IF plug[s].outcome = "ok" THEN 1 ELSE 0
          /\ Below(plug[s].serving.id, plug[s].queue)
          /\ Below(plug[s].serving.id, line[s].up)
    /\ plug[s].outcome # "none" => plug[s].serving # NoMsg
    /\ Ordered(line[s].up)
    /\ Ordered(plug[s].queue)
    /\ \A i \in 1..Len(plug[s].queue) :
          IsRequest(plug[s].queue[i]) => Below(plug[s].queue[i].id, line[s].up)
    /\ \A i \in 1..Len(line[s].down) : Answers(s, line[s].down[i])

PipesSound == \A s \in Sessions : PipeSound(s)

\* What is known of a call.
CallSound(o) ==
    /\ applied[o] <= 1
    /\ op[o].pc \in {"idle", "ready"} =>
          op[o].id = 0 /\ op[o].got = NoMsg /\ op[o].result = "none"
    /\ op[o].pc = "ready" => op[o].ses \in 1..spawned
    /\ op[o].pc = "waiting" => op[o].id # 0 /\ op[o].result = "none"
    /\ op[o].pc = "done" => op[o].got = NoMsg /\ op[o].result # "none"
    /\ op[o].id # 0 => op[o].ses \in 1..spawned /\ op[o].id <= host[op[o].ses].next
    /\ op[o].id = 0 => applied[o] = 0
    /\ op[o].got # NoMsg =>
          (op[o].got.ok <=> applied[o] = 1) /\ Passed(op[o].ses, op[o].id)
    /\ op[o].result = "ok" => op[o].id # 0 /\ applied[o] = 1
    /\ op[o].result = "rejected" =>
          op[o].id # 0 /\ applied[o] = 0 /\ Passed(op[o].ses, op[o].id)
    /\ op[o].result = "unavailable" => op[o].id = 0

CallsSound == \A o \in Ops : CallSound(o)

\* Ids are not shared.
CallsDistinct ==
    \A o, p \in Ops :
        (op[o].id # 0 /\ op[o].ses = op[p].ses /\ op[o].id = op[p].id) => o = p

\* A session that was not launched yet is as Init made it.
Fresh(s) ==
    /\ plug[s].child = "none" /\ plug[s].main = "select"
    /\ ~plug[s].readDone /\ ~plug[s].closed /\ ~plug[s].shutdown
    /\ host[s].teardown = "none" /\ ~host[s].told
    /\ line[s].down = <<>>

Launched ==
    /\ \A s \in Sessions : s > spawned => Fresh(s)
    /\ session <= spawned
    /\ session # 0 => host[session].teardown = "none"

Has(q) == \E i \in 1..Len(q) : q[i] = Shutdown

\* Where a running Serve is, and where the shutdown line that was written is.
ServeSound(s) ==
    Running(s) =>
        /\ plug[s].main = "drainShutdown" => plug[s].shutdown
        /\ plug[s].main = "drainCtx" => s \in StdinCancels
        /\ plug[s].closed => plug[s].main \in {"drainShutdown", "drainCtx"}
        /\ (plug[s].readDone /\ ~plug[s].closed) => host[s].closed /\ line[s].up = <<>>
        /\ host[s].told => plug[s].shutdown \/ Has(plug[s].queue) \/ Has(line[s].up)

ServesSound == \A s \in Sessions : ServeSound(s)

IInv ==
    /\ TypeOK
    /\ PipesSound /\ CallsSound /\ CallsDistinct
    /\ Launched /\ NoLeakedChild
    /\ ServesSound /\ ShutdownIsClean

-----------------------------------------------------------------------------
(* Queues of messages.                                                      *)

\* The head of an ordered queue comes before the rest.
LEMMA OrderedTail ==
    ASSUME NEW q \in Seq(Message), q # <<>>, Ordered(q)
    PROVE  /\ Ordered(Tail(q))
           /\ IsRequest(Head(q)) => Below(Head(q).id, Tail(q))
<1>1. /\ Len(Tail(q)) = Len(q) - 1 /\ Len(q) \in Nat \ {0}
      /\ Head(q) = q[1]
      /\ \A i \in 1..Len(Tail(q)) : Tail(q)[i] = q[i + 1]
  BY HeadTailProperties
<1>2. Ordered(Tail(q))
  <2>1. SUFFICES ASSUME NEW i \in 1..Len(Tail(q)), NEW j \in 1..Len(Tail(q)), i < j,
                        IsRequest(Tail(q)[i]), IsRequest(Tail(q)[j])
                 PROVE  Tail(q)[i].id < Tail(q)[j].id
    BY DEF Ordered
  <2>2. i + 1 \in 1..Len(q) /\ j + 1 \in 1..Len(q) /\ i + 1 < j + 1
    BY <1>1, <2>1
  <2> QED BY <1>1, <2>1, <2>2 DEF Ordered
<1>3. IsRequest(Head(q)) => Below(Head(q).id, Tail(q))
  <2>1. SUFFICES ASSUME IsRequest(Head(q)), NEW i \in 1..Len(Tail(q)),
                        IsRequest(Tail(q)[i])
                 PROVE  Head(q).id < Tail(q)[i].id
    BY DEF Below
  <2>2. 1 \in 1..Len(q) /\ i + 1 \in 1..Len(q) /\ 1 < i + 1
    BY <1>1
  <2> QED BY <1>1, <2>1, <2>2 DEF Ordered
<1> QED BY <1>2, <1>3

\* What is true of every element is true of the head and of the tail's.
LEMMA TailElements ==
    ASSUME NEW q \in Seq(Message), q # <<>>, NEW i \in 1..Len(Tail(q))
    PROVE  /\ i + 1 \in 1..Len(q) /\ Tail(q)[i] = q[i + 1]
           /\ 1 \in 1..Len(q) /\ Head(q) = q[1]
           /\ Head(q) \in Message /\ Tail(q) \in Seq(Message)
BY HeadTailProperties

LEMMA HeadElement ==
    ASSUME NEW q \in Seq(Message), q # <<>>
    PROVE  /\ 1 \in 1..Len(q) /\ Head(q) = q[1]
           /\ Head(q) \in Message /\ Tail(q) \in Seq(Message)
BY HeadTailProperties

LEMMA BelowTail ==
    ASSUME NEW q \in Seq(Message), q # <<>>, NEW id \in Nat, Below(id, q)
    PROVE  /\ Below(id, Tail(q))
           /\ IsRequest(Head(q)) => id < Head(q).id
BY TailElements, HeadElement DEF Below

LEMMA AppendElements ==
    ASSUME NEW q \in Seq(Message), NEW m \in Message, NEW i \in 1..Len(Append(q, m))
    PROVE  \/ i \in 1..Len(q) /\ Append(q, m)[i] = q[i]
           \/ i = Len(q) + 1 /\ Append(q, m)[i] = m
<1>1. Len(q) \in Nat /\ Len(Append(q, m)) = Len(q) + 1
  OBVIOUS
<1> QED BY <1>1, AppendProperties

LEMMA BelowAppend ==
    ASSUME NEW q \in Seq(Message), NEW m \in Message, NEW id \in Nat,
           Below(id, q), IsRequest(m) => id < m.id
    PROVE  Below(id, Append(q, m))
BY AppendElements DEF Below

\* A request with a larger id than the queue's goes to its end.
LEMMA OrderedAppend ==
    ASSUME NEW q \in Seq(Message), NEW m \in Message, Ordered(q),
           IsRequest(m) =>
               \A i \in 1..Len(q) : IsRequest(q[i]) => q[i].id < m.id
    PROVE  Ordered(Append(q, m))
<1>1. SUFFICES ASSUME NEW i \in 1..Len(Append(q, m)), NEW j \in 1..Len(Append(q, m)),
                      i < j, IsRequest(Append(q, m)[i]), IsRequest(Append(q, m)[j])
               PROVE  Append(q, m)[i].id < Append(q, m)[j].id
  BY DEF Ordered
<1>2. Len(Append(q, m)) = Len(q) + 1 /\ Len(q) \in Nat
  OBVIOUS
<1>3. i \in 1..Len(q) /\ Append(q, m)[i] = q[i]
  BY <1>1, <1>2, AppendElements
<1>4. CASE j \in 1..Len(q) /\ Append(q, m)[j] = q[j]
  BY <1>1, <1>3, <1>4 DEF Ordered
<1>5. CASE j = Len(q) + 1 /\ Append(q, m)[j] = m
  BY <1>1, <1>3, <1>5
<1> QED BY <1>4, <1>5, AppendElements

LEMMA EmptyOrdered == Ordered(<<>>) /\ \A id : Below(id, <<>>)
<1>1. 1..Len(<<>>) = {}
  OBVIOUS
<1> QED BY <1>1 DEF Ordered, Below

LEMMA Kinds ==
    ASSUME NEW m \in Message
    PROVE  /\ m = Shutdown \/ (m \in Request /\ IsRequest(m))
           /\ ~IsRequest(Shutdown)
           /\ m # NoMsg
           /\ m \in Request => m.id \in Nat /\ m.for \in Ops
BY DEF Message, Request, Shutdown, IsRequest, NoMsg


-----------------------------------------------------------------------------
(* Types.                                                                   *)

\* The fields, one by one.
LEMMA CallTypes ==
    ASSUME TypeOK, NEW o \in Ops
    PROVE  /\ op[o] \in OpState
           /\ op[o].pc \in {"idle", "ready", "waiting", "done"}
           /\ op[o].ses \in 0..MaxSpawn /\ op[o].id \in Nat
           /\ op[o].got \in Response \cup {NoMsg}
           /\ applied[o] \in Nat
BY DEF TypeOK, OpState

LEMMA SessionTypes ==
    ASSUME TypeOK, NEW s \in Sessions
    PROVE  /\ line[s].up \in Seq(Message) /\ line[s].down \in Seq(Response)
           /\ plug[s].queue \in Seq(Message)
           /\ plug[s].serving \in Request \cup {NoMsg}
           /\ plug[s].outcome \in {"none", "ok", "rejected"}
           /\ host[s].next \in Nat
BY DEF TypeOK, LineState, PlugState, HostState, Message

LEMMA Numbers ==
    ASSUME TypeOK
    PROVE  /\ MaxSpawn \in Nat /\ spawned \in 0..MaxSpawn
           /\ session \in 0..MaxSpawn
           /\ session # 0 => session \in Sessions
BY ConstantsAssumption DEF TypeOK, Sessions

LEMMA EmptyTyped ==
    /\ <<>> \in Seq(Request \cup {Shutdown}) /\ <<>> \in Seq(Response)
    /\ Len(<<>>) = 0 /\ 0 <= QueueDepth
BY ConstantsAssumption

LEMMA InitTyped == ASSUME Init PROVE TypeOK
<1>1. op \in [Ops -> OpState]
  BY ConstantsAssumption DEF Init, OpState
<1>2. host \in [Sessions -> HostState]
  BY DEF Init, HostState
<1>3. line \in [Sessions -> LineState]
  BY DEF Init, LineState
<1>4. plug \in [Sessions -> PlugState]
  BY DEF Init, PlugState
<1>5. applied \in [Ops -> Nat]
  BY DEF Init
<1>6. ASSUME NEW s \in Sessions PROVE Len(plug[s].queue) <= QueueDepth
  <2>1. plug[s].queue = <<>>
    BY DEF Init
  <2> QED BY <2>1, ConstantsAssumption
<1>7. session \in 0..MaxSpawn /\ spawned \in 0..MaxSpawn /\ crashes \in 0..MaxCrash
  BY ConstantsAssumption DEF Init
<1> QED BY <1>1, <1>2, <1>3, <1>4, <1>5, <1>6, <1>7 DEF Init, TypeOK

LEMMA FinishTyped ==
    ASSUME TypeOK, NEW o \in Ops,
           NEW r \in {"none", "ok", "rejected", "transport", "abandoned", "unavailable"}
    PROVE  Finish(o, r) \in [Ops -> OpState]
BY DEF TypeOK, OpState, Finish

LEMMA GoneTyped ==
    ASSUME TypeOK, NEW s \in Sessions, NEW how \in {"exit0", "exit1", "crashed", "killed"}
    PROVE  /\ [plug EXCEPT ![s] = Gone(@, how)] \in [Sessions -> PlugState]
           /\ \A t \in Sessions : Len([plug EXCEPT ![s] = Gone(@, how)][t].queue) <= QueueDepth
           /\ Unread(s) \in [Sessions -> LineState]
<1>1. plug[s] \in PlugState
  BY DEF TypeOK
<1>2. Gone(plug[s], how) \in PlugState /\ Gone(plug[s], how).queue = <<>>
  BY <1>1, EmptyTyped DEF PlugState, Gone, NoMsg
<1>3. Unread(s) \in [Sessions -> LineState]
  BY EmptyTyped DEF TypeOK, LineState, Unread
<1>4. \A t \in Sessions : Len([plug EXCEPT ![s] = Gone(@, how)][t].queue) <= QueueDepth
  BY <1>2, EmptyTyped DEF TypeOK
<1> QED BY <1>2, <1>3, <1>4 DEF TypeOK

\* What reaping a dead session leaves is of the right type.
LEMMA ReapTyped ==
    ASSUME TypeOK
    PROVE  /\ Reaped \in [Sessions -> PlugState]
           /\ \A t \in Sessions : Len(Reaped[t].queue) <= QueueDepth
           /\ Closed \in [Sessions -> HostState]
           /\ (IF session = 0 THEN line ELSE Unread(session)) \in [Sessions -> LineState]
<1>1. CASE session = 0
  BY <1>1 DEF TypeOK, Reaped, Closed
<1>2. CASE session # 0
  <2>1. session \in Sessions
    BY <1>2, Numbers
  <2>2. Closed \in [Sessions -> HostState]
    BY <1>2, <2>1 DEF TypeOK, HostState, Closed
  <2>3. Reaped = plug \/ Reaped = [plug EXCEPT ![session] = Gone(@, "killed")]
    BY DEF Reaped
  <2>4. /\ Reaped \in [Sessions -> PlugState]
        /\ \A t \in Sessions : Len(Reaped[t].queue) <= QueueDepth
    <3>1. CASE Reaped = plug
      BY <3>1 DEF TypeOK
    <3>2. CASE Reaped = [plug EXCEPT ![session] = Gone(@, "killed")]
      BY <3>2, <2>1, GoneTyped
    <3> QED BY <2>3, <3>1, <3>2
  <2> QED BY <1>2, <2>1, <2>2, <2>4, GoneTyped
<1> QED BY <1>1, <1>2

LEMMA RespawnTyped ==
    ASSUME TypeOK, NEW o \in Ops, Respawn(o)
    PROVE  TypeOK'
<1> DEFINE n == spawned + 1
<1>1. n \in Sessions /\ n \in 0..MaxSpawn
  BY Numbers DEF Respawn, Sessions
<1>2. op' = [op EXCEPT ![o].pc = "ready", ![o].ses = n] /\ spawned' = n /\ session' = n
  BY DEF Respawn
<1>3. plug' = [Reaped EXCEPT ![n].child = "running"]
  BY DEF Respawn
<1> HIDE DEF n
<1>4. op' \in [Ops -> OpState]
  BY ZenonT(40), <1>1, <1>2 DEF TypeOK, OpState
<1>5. plug' \in [Sessions -> PlugState]
  BY ZenonT(40), <1>1, <1>3, ReapTyped DEF PlugState
<1>6. \A t \in Sessions : Len(plug'[t].queue) <= QueueDepth
  BY <1>1, <1>3, ReapTyped DEF PlugState
<1> QED BY <1>1, <1>2, <1>4, <1>5, <1>6, ReapTyped DEF TypeOK, Respawn

LEMMA DialFailsTyped ==
    ASSUME TypeOK, NEW o \in Ops, DialFails(o)
    PROVE  TypeOK'
<1>1. op' \in [Ops -> OpState]
  BY FinishTyped DEF DialFails
<1>2. session' \in 0..MaxSpawn
  BY ConstantsAssumption DEF DialFails
<1> QED BY <1>1, <1>2, ReapTyped DEF TypeOK, DialFails

LEMMA CallSendTyped ==
    ASSUME TypeOK, NEW o \in Ops, CallSend(o), op[o].ses \in Sessions
    PROVE  TypeOK'
<1> DEFINE s  == op[o].ses
           id == host[s].next + 1
<1>1. id \in Nat /\ s \in Sessions
  BY DEF TypeOK, HostState
<1>2. CASE ~Open(s)
  <2>1. op' = Finish(o, "transport") /\ host' = [host EXCEPT ![s].next = id] /\ line' = line
    BY <1>2 DEF CallSend
  <2> HIDE DEF id, s
  <2>2. op' \in [Ops -> OpState]
    BY <2>1, FinishTyped
  <2>3. host' \in [Sessions -> HostState]
    BY <2>1, <1>1 DEF TypeOK, HostState
  <2> QED BY <2>1, <2>2, <2>3 DEF TypeOK, CallSend
<1>3. CASE Open(s)
  <2>1. /\ op' = [op EXCEPT ![o].pc = "waiting", ![o].id = id]
        /\ host' = [host EXCEPT ![s].next = id, ![s].pending = @ \cup {id}]
        /\ line' = [line EXCEPT ![s].up =
                       Append(@, [kind |-> "request", id |-> id, for |-> o])]
    BY <1>3 DEF CallSend
  <2> HIDE DEF id, s
  <2>2. op' \in [Ops -> OpState]
    BY ZenonT(40), <2>1, <1>1 DEF TypeOK, OpState
  <2>3. host' \in [Sessions -> HostState]
    BY <2>1, <1>1 DEF TypeOK, HostState
  <2>4. Append(line[s].up, [kind |-> "request", id |-> id, for |-> o])
            \in Seq(Request \cup {Shutdown})
    <3>1. line[s].up \in Seq(Request \cup {Shutdown})
      BY <1>1 DEF TypeOK, LineState
    <3>2. [kind |-> "request", id |-> id, for |-> o] \in Request \cup {Shutdown}
      BY <1>1 DEF Request
    <3> QED BY <3>1, <3>2
  <2>5. line' \in [Sessions -> LineState]
    BY <2>1, <2>4, <1>1 DEF TypeOK, LineState
  <2> QED BY <2>1, <2>2, <2>3, <2>5 DEF TypeOK, CallSend
<1> QED BY <1>2, <1>3

\* A call that returns unregisters its id.
LEMMA UnregisterTyped ==
    ASSUME TypeOK, NEW o \in Ops
    PROVE  Unregister(o) \in [Sessions -> HostState]
<1>1. ASSUME NEW s \in Sessions
      PROVE  [host[s] EXCEPT !.pending = @ \ {op[o].id}] \in HostState
  <2>1. host[s] \in HostState
    BY DEF TypeOK
  <2> QED BY <2>1 DEF HostState
<1>2. host \in [Sessions -> HostState]
  BY DEF TypeOK
<1> QED BY <1>1, <1>2 DEF Unregister

LEMMA CallTyped ==
    ASSUME TypeOK, NEW o \in Ops,
           \/ Unavailable(o) \/ UseCached(o)
           \/ CallReturn(o) \/ CallPeerDone(o) \/ CallAbandon(o)
    PROVE  TypeOK'
<1>1. CASE Unavailable(o)
  BY <1>1, FinishTyped DEF TypeOK, Unavailable
<1>2. CASE UseCached(o)
  <2>1. op' \in [Ops -> OpState]
    BY ZenonT(40), <1>2 DEF TypeOK, UseCached, OpState
  <2> QED BY <1>2, <2>1 DEF TypeOK, UseCached
<1>3. CASE CallReturn(o)
  <2>1. op' \in [Ops -> OpState]
    BY <1>3, FinishTyped DEF CallReturn
  <2> QED BY <1>3, <2>1, UnregisterTyped DEF TypeOK, CallReturn
<1>4. CASE CallPeerDone(o)
  <2>1. op' \in [Ops -> OpState]
    BY <1>4, FinishTyped DEF CallPeerDone
  <2> QED BY <1>4, <2>1, UnregisterTyped DEF TypeOK, CallPeerDone
<1>5. CASE CallAbandon(o)
  <2>1. op' \in [Ops -> OpState]
    BY <1>5, FinishTyped DEF CallAbandon
  <2> QED BY <1>5, <2>1, UnregisterTyped DEF TypeOK, CallAbandon
<1> QED BY <1>1, <1>2, <1>3, <1>4, <1>5

LEMMA HostReadTyped ==
    ASSUME TypeOK, NEW s \in Sessions, HostRead(s)
    PROVE  TypeOK'
<1> DEFINE m == Head(line[s].down)
<1>1. line[s].down \in Seq(Response) /\ line[s].down # <<>>
  BY SessionTypes DEF HostRead
<1>2. m \in Response /\ Tail(line[s].down) \in Seq(Response)
  BY <1>1
<1>3. /\ line' = [line EXCEPT ![s].down = Tail(@)]
      /\ op' = [o \in Ops |-> IF o \in Addressees(s, m)
                              THEN [op[o] EXCEPT !.got = m] ELSE op[o]]
      /\ host' = [host EXCEPT ![s].pending = @ \ {m.id}]
  BY DEF HostRead
<1> HIDE DEF m
<1>4. op' \in [Ops -> OpState]
  BY <1>2, <1>3 DEF TypeOK, OpState
<1>5. host' \in [Sessions -> HostState]
  BY <1>3 DEF TypeOK, HostState
<1>6. line' \in [Sessions -> LineState]
  BY <1>2, <1>3 DEF TypeOK, LineState
<1> QED BY <1>4, <1>5, <1>6 DEF TypeOK, HostRead

LEMMA HostTyped ==
    ASSUME TypeOK, NEW s \in Sessions,
           \/ HostEOF(s) \/ CloseStdin(s) \/ ClosePeer(s) \/ CloseReap(s)
           \/ CloseKill(s) \/ Garble(s)
    PROVE  TypeOK'
<1>1. CASE HostEOF(s)
  <2>1. host' \in [Sessions -> HostState]
    BY <1>1 DEF TypeOK, HostEOF, HostState
  <2>2. line' \in [Sessions -> LineState]
    BY <1>1, EmptyTyped DEF TypeOK, HostEOF, LineState
  <2> QED BY <1>1, <2>1, <2>2 DEF TypeOK, HostEOF
<1>2. CASE CloseStdin(s)
  <2>1. host' \in [Sessions -> HostState]
    BY <1>2 DEF TypeOK, CloseStdin, HostState
  <2>2. plug' \in [Sessions -> PlugState]
    <3>1. plug \in [Sessions -> PlugState] /\ plug[s] \in PlugState
      BY DEF TypeOK
    <3>2. [plug[s] EXCEPT !.stdin = FALSE] \in PlugState
      BY <3>1 DEF PlugState
    <3> QED BY <1>2, <3>1, <3>2 DEF CloseStdin
  <2>3. \A t \in Sessions : plug'[t].queue = plug[t].queue
    BY <1>2 DEF TypeOK, CloseStdin, PlugState
  <2> QED BY <1>2, <2>1, <2>2, <2>3 DEF TypeOK, CloseStdin
<1>3. CASE ClosePeer(s)
  <2>1. host' \in [Sessions -> HostState]
    BY ZenonT(40), <1>3 DEF TypeOK, ClosePeer, HostState
  <2> QED BY <1>3, <2>1 DEF TypeOK, ClosePeer
<1>4. CASE CloseReap(s)
  <2>1. host' \in [Sessions -> HostState]
    BY <1>4 DEF TypeOK, CloseReap, HostState
  <2> QED BY <1>4, <2>1 DEF TypeOK, CloseReap
<1>5. CASE CloseKill(s)
  BY <1>5, GoneTyped DEF TypeOK, CloseKill
<1>6. CASE Garble(s)
  <2>1. host' \in [Sessions -> HostState]
    BY <1>6 DEF TypeOK, Garble, HostState
  <2>2. crashes' \in 0..MaxCrash
    BY <1>6, ConstantsAssumption DEF TypeOK, Garble
  <2> QED BY <1>6, <2>1, <2>2 DEF TypeOK, Garble
<1> QED BY <1>1, <1>2, <1>3, <1>4, <1>5, <1>6

LEMMA CloseBeginTyped ==
    ASSUME TypeOK, CloseBegin
    PROVE  TypeOK'
<1>1. host' \in [Sessions -> HostState]
  BY Numbers DEF TypeOK, CloseBegin, HostState
<1>2. session' \in 0..MaxSpawn
  BY ConstantsAssumption DEF CloseBegin
<1> QED BY <1>1, <1>2 DEF TypeOK, CloseBegin

LEMMA CloseNotifyTyped ==
    ASSUME TypeOK, NEW s \in Sessions, CloseNotify(s)
    PROVE  TypeOK'
<1>1. line[s].up \in Seq(Request \cup {Shutdown})
  BY DEF TypeOK, LineState
<1>2. Append(line[s].up, Shutdown) \in Seq(Request \cup {Shutdown})
  BY <1>1
<1>3. line' = line \/ line' = [line EXCEPT ![s].up = Append(@, Shutdown)]
  BY DEF CloseNotify
<1>4. line' \in [Sessions -> LineState]
  BY <1>2, <1>3 DEF TypeOK, LineState
<1>5. Open(s) \in BOOLEAN
  BY DEF Open
<1>6. host' = [host EXCEPT ![s].teardown = "stdin", ![s].told = Open(s)]
  BY DEF CloseNotify
<1>7. host' \in [Sessions -> HostState]
  BY ZenonT(40), <1>5, <1>6 DEF TypeOK, HostState
<1> QED BY <1>4, <1>7 DEF TypeOK, CloseNotify

LEMMA PReadTyped ==
    ASSUME TypeOK, NEW s \in Sessions, PRead(s)
    PROVE  TypeOK'
<1> DEFINE M == Request \cup {Shutdown}
<1>1. line[s].up \in Seq(M) /\ plug[s].queue \in Seq(M) /\ line[s].up # <<>>
  BY DEF TypeOK, LineState, PlugState, PRead
<1>2. Head(line[s].up) \in M /\ Tail(line[s].up) \in Seq(M)
  BY <1>1
<1>3. /\ Append(plug[s].queue, Head(line[s].up)) \in Seq(M)
      /\ Len(Append(plug[s].queue, Head(line[s].up))) = Len(plug[s].queue) + 1
      /\ Len(plug[s].queue) \in Nat
  BY <1>1, <1>2
<1>4. plug' \in [Sessions -> PlugState]
  BY ZenonT(40), <1>3 DEF TypeOK, PRead, PlugState
<1>5. line' \in [Sessions -> LineState]
  BY <1>2 DEF TypeOK, PRead, LineState
<1>6. plug'[s].queue = Append(plug[s].queue, Head(line[s].up))
  BY DEF TypeOK, PRead, PlugState
<1>7. \A t \in Sessions \ {s} : plug'[t].queue = plug[t].queue
  BY DEF TypeOK, PRead, PlugState
<1>8. \A t \in Sessions : Len(plug'[t].queue) <= QueueDepth
  BY <1>3, <1>6, <1>7, ConstantsAssumption DEF TypeOK, PRead
<1> QED BY <1>4, <1>5, <1>8 DEF TypeOK, PRead

LEMMA PServeTyped ==
    ASSUME TypeOK, NEW s \in Sessions, PServe(s)
    PROVE  TypeOK'
<1> DEFINE M == Request \cup {Shutdown}
           m == Head(plug[s].queue)
<1>1. plug[s].queue \in Seq(M) /\ plug[s].queue # <<>>
  BY DEF TypeOK, PlugState, PServe
<1>2. /\ m \in M /\ Tail(plug[s].queue) \in Seq(M)
      /\ Len(Tail(plug[s].queue)) = Len(plug[s].queue) - 1
      /\ Len(plug[s].queue) \in Nat
  BY <1>1
<1>3. plug' = IF m = Shutdown
              THEN [plug EXCEPT ![s].queue = Tail(@), ![s].shutdown = TRUE]
              ELSE [plug EXCEPT ![s].queue = Tail(@), ![s].serving = m]
  BY DEF PServe
<1> HIDE DEF m
<1>4. plug' \in [Sessions -> PlugState]
  <2>1. CASE m = Shutdown
    <3>1. plug' = [plug EXCEPT ![s].queue = Tail(@), ![s].shutdown = TRUE]
      BY <1>3, <2>1
    <3>2. Tail(plug[s].queue) \in Seq(Request \cup {Shutdown})
      BY <1>2
    <3>3. plug[s] \in PlugState
      BY DEF TypeOK
    <3>4. [plug[s] EXCEPT !.queue = Tail(@), !.shutdown = TRUE] \in PlugState
      BY <3>2, <3>3 DEF PlugState
    <3> QED BY <3>1, <3>4 DEF TypeOK
  <2>2. CASE m # Shutdown
    <3>1. plug' = [plug EXCEPT ![s].queue = Tail(@), ![s].serving = m]
      BY <1>3, <2>2
    <3>2. m \in Request /\ Tail(plug[s].queue) \in Seq(Request \cup {Shutdown})
      BY <1>2, <2>2
    <3>3. plug[s] \in PlugState
      BY DEF TypeOK
    <3>4. [plug[s] EXCEPT !.queue = Tail(@), !.serving = m] \in PlugState
      BY <3>2, <3>3 DEF PlugState
    <3> QED BY <3>1, <3>4 DEF TypeOK
  <2> QED BY <2>1, <2>2
<1>5. /\ plug'[s].queue = Tail(plug[s].queue)
      /\ \A t \in Sessions \ {s} : plug'[t].queue = plug[t].queue
  BY <1>3 DEF TypeOK, PlugState
<1>6. \A t \in Sessions : Len(plug'[t].queue) <= QueueDepth
  <2>1. \A t \in Sessions : Len(plug[t].queue) <= QueueDepth
    BY DEF TypeOK
  <2>2. Len(plug'[s].queue) <= QueueDepth
    BY <2>1, <1>2, <1>5, ConstantsAssumption
  <2> QED BY <2>1, <2>2, <1>5
<1> QED BY <1>4, <1>6 DEF TypeOK, PServe

\* Every other step of the plugin leaves the queue alone.
LEMMA PlugTyped ==
    ASSUME TypeOK, NEW s \in Sessions,
           \/ PReadEnd(s) \/ PReject(s)
           \/ ShutdownArm(s) \/ CtxArm(s) \/ DoneArm(s)
    PROVE  TypeOK'
<1>1. \/ plug' = [plug EXCEPT ![s].readDone = TRUE]
      \/ plug' = [plug EXCEPT ![s].outcome = "rejected"]
      \/ plug' = [plug EXCEPT ![s].closed = TRUE, ![s].main = "drainShutdown"]
      \/ plug' = [plug EXCEPT ![s].closed = TRUE, ![s].main = "drainCtx"]
      \/ plug' = [plug EXCEPT ![s].main = "drainEnd"]
  BY DEF PReadEnd, PReject, ShutdownArm, CtxArm, DoneArm
<1>5. plug[s] \in PlugState
  BY DEF TypeOK
<1>2. plug' \in [Sessions -> PlugState]
  <2>1. CASE plug' = [plug EXCEPT ![s].readDone = TRUE]
    <3>1. [plug[s] EXCEPT !.readDone = TRUE] \in PlugState
      BY <1>5 DEF PlugState
    <3> QED BY <2>1, <3>1 DEF TypeOK
  <2>2. CASE plug' = [plug EXCEPT ![s].outcome = "rejected"]
    <3>1. [plug[s] EXCEPT !.outcome = "rejected"] \in PlugState
      BY <1>5 DEF PlugState
    <3> QED BY <2>2, <3>1 DEF TypeOK
  <2>3. CASE plug' = [plug EXCEPT ![s].closed = TRUE, ![s].main = "drainShutdown"]
    <3>1. [plug[s] EXCEPT !.closed = TRUE, !.main = "drainShutdown"] \in PlugState
      BY <1>5 DEF PlugState
    <3> QED BY <2>3, <3>1 DEF TypeOK
  <2>4. CASE plug' = [plug EXCEPT ![s].closed = TRUE, ![s].main = "drainCtx"]
    <3>1. [plug[s] EXCEPT !.closed = TRUE, !.main = "drainCtx"] \in PlugState
      BY <1>5 DEF PlugState
    <3> QED BY <2>4, <3>1 DEF TypeOK
  <2>5. CASE plug' = [plug EXCEPT ![s].main = "drainEnd"]
    <3>1. [plug[s] EXCEPT !.main = "drainEnd"] \in PlugState
      BY <1>5 DEF PlugState
    <3> QED BY <2>5, <3>1 DEF TypeOK
  <2> QED BY <1>1, <2>1, <2>2, <2>3, <2>4, <2>5
<1>4. \A t \in Sessions : plug'[t].queue = plug[t].queue
  <2>1. CASE plug' = [plug EXCEPT ![s].readDone = TRUE]
    BY <2>1 DEF TypeOK, PlugState
  <2>2. CASE plug' = [plug EXCEPT ![s].outcome = "rejected"]
    BY <2>2 DEF TypeOK, PlugState
  <2>3. CASE plug' = [plug EXCEPT ![s].closed = TRUE, ![s].main = "drainShutdown"]
    BY <2>3 DEF TypeOK, PlugState
  <2>4. CASE plug' = [plug EXCEPT ![s].closed = TRUE, ![s].main = "drainCtx"]
    BY <2>4 DEF TypeOK, PlugState
  <2>5. CASE plug' = [plug EXCEPT ![s].main = "drainEnd"]
    BY <2>5 DEF TypeOK, PlugState
  <2> QED BY <1>1, <2>1, <2>2, <2>3, <2>4, <2>5
<1>3. UNCHANGED <<session, fatal, spawned, crashes, op, host, line, applied>>
  BY DEF PReadEnd, PReject, ShutdownArm, CtxArm, DoneArm
<1> QED BY <1>2, <1>3, <1>4 DEF TypeOK

LEMMA PApplyTyped ==
    ASSUME TypeOK, NEW s \in Sessions, PApply(s)
    PROVE  TypeOK'
<1>1. plug' \in [Sessions -> PlugState]
  BY ZenonT(40) DEF TypeOK, PApply, PlugState
<1>2. \A t \in Sessions : plug'[t].queue = plug[t].queue
  BY DEF TypeOK, PlugState, PApply
<1>3. plug[s].serving.for \in Ops
  BY SessionTypes DEF PApply, Handling, Request
<1>4. applied' \in [Ops -> Nat]
  BY <1>3 DEF TypeOK, PApply
<1> QED BY <1>1, <1>2, <1>4 DEF TypeOK, PApply

LEMMA PRespondTyped ==
    ASSUME TypeOK, NEW s \in Sessions, PRespond(s), plug[s].serving # NoMsg
    PROVE  TypeOK'
<1> DEFINE m == plug[s].serving
           r == [kind |-> "response", id |-> m.id, for |-> m.for,
                 ok |-> plug[s].outcome = "ok"]
<1>1. r \in Response
  BY SessionTypes DEF Request, Response
<1>2. line[s].down \in Seq(Response) /\ Append(line[s].down, r) \in Seq(Response)
  BY <1>1, SessionTypes
<1>3. line' = line \/ line' = [line EXCEPT ![s].down = Append(@, r)]
  BY DEF PRespond
<1> HIDE DEF r
<1>4. line' \in [Sessions -> LineState]
  BY <1>2, <1>3 DEF TypeOK, LineState
<1>5. plug' \in [Sessions -> PlugState]
  BY DEF TypeOK, PRespond, PlugState
<1>6. \A t \in Sessions : plug'[t].queue = plug[t].queue
  BY DEF TypeOK, PlugState, PRespond
<1> QED BY <1>4, <1>5, <1>6 DEF TypeOK, PRespond

LEMMA GoneStepTyped ==
    ASSUME TypeOK, NEW s \in Sessions, ServeReturn(s) \/ Crash(s)
    PROVE  TypeOK'
<1>1. CASE ServeReturn(s)
  <2>1. SessionEnd(s) \in {"exit0", "exit1", "crashed", "killed"}
    BY DEF SessionEnd
  <2> QED BY <1>1, <2>1, GoneTyped DEF TypeOK, ServeReturn
<1>2. CASE Crash(s)
  <2>1. crashes' \in 0..MaxCrash
    BY <1>2, ConstantsAssumption DEF TypeOK, Crash
  <2> QED BY <1>2, <2>1, GoneTyped DEF TypeOK, Crash
<1> QED BY <1>1, <1>2


-----------------------------------------------------------------------------
(* The way of a request, PipesSound.                                        *)

\* A step that only drops what session s carries, or reads an answer.
PipeShrinks(s) ==
    /\ line'[s].up \in {line[s].up, <<>>}
    /\ plug'[s].queue \in {plug[s].queue, <<>>}
    /\ \/ plug'[s].serving = plug[s].serving /\ plug'[s].outcome = plug[s].outcome
       \/ plug'[s].serving = NoMsg /\ plug'[s].outcome = "none"
    /\ \/ line'[s].down \in {line[s].down, <<>>}
       \/ line[s].down # <<>> /\ line'[s].down = Tail(line[s].down)

\* A step that leaves the written calls of session s theirs, and unapplied.
CallsKept(s) ==
    \A o \in Ops :
        (op[o].id # 0 /\ op[o].ses = s) =>
            op'[o].ses = op[o].ses /\ op'[o].id = op[o].id /\ applied'[o] = applied[o]

\* A step after which the requests of calls that have passed still have.
PassedKept(s) ==
    \A o \in Ops, id \in Nat :
        (op[o].ses = s /\ op[o].id = id /\ id # 0 /\ Passed(s, id)) => Passed(s, id)'

LEMMA ShrinkKeeps ==
    ASSUME TypeOK, NEW s \in Sessions, PipeSound(s), PipeShrinks(s), CallsKept(s)
    PROVE  PipeSound(s)' /\ PassedKept(s)
<1> USE SessionTypes
<1>1. ASSUME NEW id \in Nat, Passed(s, id)
      PROVE  Passed(s, id)'
  BY SMTT(30), <1>1 DEF Passed, Below, PipeShrinks
<1>2. ASSUME NEW m, m.for \in Ops, Owned(s, m)
      PROVE  Owned(s, m)' /\ applied'[m.for] = applied[m.for]
  BY <1>2 DEF Owned, CallsKept
<1>3. ASSUME NEW m \in Message, Waits(s, m)
      PROVE  Waits(s, m)'
  BY <1>2, <1>3, Kinds DEF Waits
<1>4. ASSUME NEW i \in 1..Len(line'[s].up)
      PROVE  Waits(s, line[s].up[i])'
  <2>1. line'[s].up = line[s].up /\ i \in 1..Len(line[s].up)
    BY <1>4 DEF PipeShrinks
  <2>2. line[s].up[i] \in Message /\ Waits(s, line[s].up[i])
    BY <2>1 DEF PipeSound
  <2> QED BY <1>3, <2>1, <2>2
<1>5. ASSUME NEW i \in 1..Len(plug'[s].queue)
      PROVE  Waits(s, plug[s].queue[i])'
  <2>1. plug'[s].queue = plug[s].queue /\ i \in 1..Len(plug[s].queue)
    BY <1>5 DEF PipeShrinks
  <2>2. plug[s].queue[i] \in Message /\ Waits(s, plug[s].queue[i])
    BY <2>1 DEF PipeSound
  <2> QED BY <1>3, <2>1, <2>2
<1>6. /\ Ordered(line'[s].up) /\ Ordered(plug'[s].queue)
      /\ \A i \in 1..Len(plug'[s].queue) :
            IsRequest(plug'[s].queue[i]) => Below(plug'[s].queue[i].id, line'[s].up)
  <2>1. /\ Ordered(line[s].up) /\ Ordered(plug[s].queue) /\ Ordered(<<>>)
        /\ \A id : Below(id, <<>>)
    BY EmptyOrdered DEF PipeSound
  <2>2. CASE plug'[s].queue = <<>>
    BY <2>1, <2>2 DEF PipeShrinks
  <2>3. CASE plug'[s].queue = plug[s].queue
    BY <2>1, <2>3 DEF PipeSound, PipeShrinks
  <2> QED BY <2>2, <2>3 DEF PipeShrinks
<1>7. /\ plug'[s].serving # NoMsg =>
            /\ Owned(s, plug[s].serving)'
            /\ applied'[plug'[s].serving.for] = IF plug'[s].outcome = "ok" THEN 1 ELSE 0
            /\ Below(plug'[s].serving.id, plug'[s].queue)
            /\ Below(plug'[s].serving.id, line'[s].up)
      /\ plug'[s].outcome # "none" => plug'[s].serving # NoMsg
  <2>1. CASE plug'[s].serving = NoMsg /\ plug'[s].outcome = "none"
    BY <2>1
  <2>2. CASE /\ plug'[s].serving = plug[s].serving /\ plug'[s].outcome = plug[s].outcome
             /\ plug[s].serving # NoMsg
    <3>1. plug[s].serving.for \in Ops /\ Owned(s, plug[s].serving)
      BY <2>2 DEF PipeSound, Request
    <3>2. Owned(s, plug[s].serving)' /\ applied'[plug[s].serving.for] = applied[plug[s].serving.for]
      BY <1>2, <2>2, <3>1
    <3>3. /\ Below(plug[s].serving.id, plug'[s].queue)
          /\ Below(plug[s].serving.id, line'[s].up)
      BY SMTT(30), <2>2 DEF PipeSound, PipeShrinks, Below
    <3> QED BY <2>2, <3>2, <3>3 DEF PipeSound
  <2>3. CASE /\ plug'[s].serving = plug[s].serving /\ plug'[s].outcome = plug[s].outcome
             /\ plug[s].serving = NoMsg
    BY <2>3 DEF PipeSound
  <2> QED BY <2>1, <2>2, <2>3 DEF PipeShrinks
<1>8. ASSUME NEW i \in 1..Len(line'[s].down)
      PROVE  Answers(s, line[s].down[i])'
  <2>1. PICK j \in 1..Len(line[s].down) : line'[s].down[i] = line[s].down[j]
    <3>1. CASE line'[s].down = <<>>
      BY <1>8, <3>1
    <3>2. CASE line'[s].down = line[s].down
      BY <1>8, <3>2
    <3>3. CASE line[s].down # <<>> /\ line'[s].down = Tail(line[s].down)
      <4>1. i + 1 \in 1..Len(line[s].down) /\ Tail(line[s].down)[i] = line[s].down[i + 1]
        BY <1>8, <3>3, HeadTailProperties
      <4> QED BY <3>3, <4>1
    <3> QED BY <3>1, <3>2, <3>3 DEF PipeShrinks
  <2>2. line[s].down[j] \in Response /\ Answers(s, line[s].down[j])
    BY <2>1 DEF PipeSound
  <2>3. PICK m \in Response : m = line[s].down[j]
    BY <2>2
  <2>4. m.id \in Nat /\ m.for \in Ops /\ Owned(s, m) /\ Passed(s, m.id)
    BY <2>2, <2>3 DEF Response, Answers
  <2>5. Owned(s, m)' /\ applied'[m.for] = applied[m.for] /\ Passed(s, m.id)'
    BY <1>1, <1>2, <2>4
  <2>6. Answers(s, m)'
    BY <2>2, <2>3, <2>5 DEF Answers
  <2> QED BY <2>1, <2>3, <2>6
<1>9. PipeSound(s)'
  BY <1>4, <1>5, <1>6, <1>7, <1>8 DEF PipeSound
<1> QED BY <1>1, <1>9 DEF PassedKept


\* The plugin's read loop moves the head of the line to the end of the queue.
LEMMA PReadPipe ==
    ASSUME TypeOK, NEW s \in Sessions, PipeSound(s), PRead(s)
    PROVE  PipeSound(s)' /\ PassedKept(s)
<1> DEFINE up == line[s].up
           q  == plug[s].queue
<1>1. /\ line'[s].up = Tail(up) /\ line'[s].down = line[s].down
      /\ op' = op /\ applied' = applied
  BY DEF TypeOK, PRead, LineState
<1>2. /\ plug'[s].queue = Append(q, Head(up))
      /\ plug'[s].serving = plug[s].serving /\ plug'[s].outcome = plug[s].outcome
  BY DEF TypeOK, PRead, PlugState
<1>3. up \in Seq(Message) /\ q \in Seq(Message) /\ up # <<>>
  BY SessionTypes DEF PRead
<1>4. Head(up) \in Message /\ 1 \in 1..Len(up) /\ Head(up) = up[1]
  BY <1>3, HeadElement
<1>5. ASSUME NEW id \in Nat, Below(id, up)
      PROVE  Below(id, line'[s].up) /\ (Below(id, q) => Below(id, plug'[s].queue))
  <2>1. Below(id, Tail(up)) /\ (IsRequest(Head(up)) => id < Head(up).id)
    BY <1>3, <1>5, BelowTail
  <2> QED BY <1>1, <1>2, <1>3, <1>4, <2>1, BelowAppend
<1>6. ASSUME NEW id \in Nat, Passed(s, id)
      PROVE  Passed(s, id)'
  BY <1>2, <1>5, <1>6 DEF Passed
<1>7. ASSUME NEW m, Waits(s, m)
      PROVE  Waits(s, m)'
  BY <1>1, <1>7 DEF Waits, Owned
<1>8. ASSUME NEW i \in 1..Len(line'[s].up)
      PROVE  Waits(s, line[s].up[i])'
  <2>1. i + 1 \in 1..Len(up) /\ line'[s].up[i] = up[i + 1]
    BY <1>1, <1>3, <1>8, TailElements
  <2>2. Waits(s, up[i + 1])
    BY <2>1 DEF PipeSound
  <2>3. PICK m : m = up[i + 1]
    OBVIOUS
  <2> QED BY <1>7, <2>1, <2>2, <2>3
<1>9. ASSUME NEW i \in 1..Len(plug'[s].queue)
      PROVE  /\ Waits(s, plug[s].queue[i])'
             /\ IsRequest(plug'[s].queue[i]) => Below(plug'[s].queue[i].id, line'[s].up)
  <2>1. CASE i \in 1..Len(q) /\ plug'[s].queue[i] = q[i]
    <3>1. Waits(s, q[i]) /\ (IsRequest(q[i]) => Below(q[i].id, up))
      BY <2>1 DEF PipeSound
    <3>2. PICK m \in Message : m = q[i]
      BY <1>3, <2>1
    <3> QED BY <1>5, <1>7, <2>1, <3>1, <3>2, Kinds
  <2>2. CASE plug'[s].queue[i] = Head(up)
    <3>1. Waits(s, Head(up)) /\ (IsRequest(Head(up)) => Below(Head(up).id, Tail(up)))
      BY <1>3, <1>4, OrderedTail DEF PipeSound
    <3>2. PICK m \in Message : m = Head(up)
      BY <1>4
    <3> QED BY <1>1, <1>7, <2>2, <3>1, <3>2
  <2> QED BY <1>2, <1>3, <1>4, <1>9, <2>1, <2>2, AppendElements
<1>10. Ordered(line'[s].up)
  BY <1>1, <1>3, OrderedTail DEF PipeSound
<1>11. Ordered(plug'[s].queue)
  <2>1. ASSUME IsRequest(Head(up)), NEW i \in 1..Len(q), IsRequest(q[i])
        PROVE  q[i].id < Head(up).id
    BY <1>4, <2>1 DEF PipeSound, Below
  <2> QED BY <1>2, <1>3, <1>4, <2>1, OrderedAppend DEF PipeSound
<1>12. plug'[s].serving # NoMsg =>
            /\ Owned(s, plug[s].serving)'
            /\ applied'[plug'[s].serving.for] = IF plug'[s].outcome = "ok" THEN 1 ELSE 0
            /\ Below(plug'[s].serving.id, plug'[s].queue)
            /\ Below(plug'[s].serving.id, line'[s].up)
  <2>1. SUFFICES ASSUME plug[s].serving # NoMsg
                 PROVE  /\ Owned(s, plug[s].serving)'
                        /\ applied'[plug'[s].serving.for] =
                              IF plug'[s].outcome = "ok" THEN 1 ELSE 0
                        /\ Below(plug'[s].serving.id, plug'[s].queue)
                        /\ Below(plug'[s].serving.id, line'[s].up)
    BY <1>2
  <2>2. plug[s].serving.id \in Nat
    BY <2>1, SessionTypes DEF Request
  <2>3. Below(plug[s].serving.id, up) /\ Below(plug[s].serving.id, q)
    BY <2>1 DEF PipeSound
  <2> QED BY <1>1, <1>2, <1>5, <2>1, <2>2, <2>3 DEF PipeSound, Owned
<1>13. ASSUME NEW i \in 1..Len(line'[s].down)
       PROVE  Answers(s, line[s].down[i])'
  <2>1. i \in 1..Len(line[s].down)
    BY <1>1, <1>13
  <2>2. PICK m \in Response : m = line[s].down[i]
    BY <2>1, SessionTypes
  <2>3. Answers(s, m) /\ m.id \in Nat
    BY <2>1, <2>2 DEF PipeSound, Response
  <2> QED BY <1>1, <1>6, <2>2, <2>3 DEF Answers, Owned
<1>14. PipeSound(s)'
  BY <1>2, <1>8, <1>9, <1>10, <1>11, <1>12, <1>13 DEF PipeSound
<1> QED BY <1>6, <1>14 DEF PassedKept

\* The serve loop takes the head of the queue.
LEMMA PServePipe ==
    ASSUME TypeOK, NEW s \in Sessions, PipeSound(s), PServe(s)
    PROVE  PipeSound(s)' /\ PassedKept(s)
<1> DEFINE q == plug[s].queue
<1>1. line' = line /\ op' = op /\ applied' = applied /\ plug[s].serving = NoMsg
  BY DEF PServe
<1>2. /\ plug'[s].queue = Tail(q) /\ plug'[s].outcome = plug[s].outcome
      /\ plug'[s].serving = IF Head(q) = Shutdown THEN NoMsg ELSE Head(q)
  <2>1. CASE Head(q) = Shutdown
    <3>1. plug' = [plug EXCEPT ![s].queue = Tail(@), ![s].shutdown = TRUE]
      BY <2>1 DEF PServe
    <3> QED BY <1>1, <2>1, <3>1 DEF TypeOK, PlugState
  <2>2. CASE Head(q) # Shutdown
    <3>1. plug' = [plug EXCEPT ![s].queue = Tail(@), ![s].serving = Head(q)]
      BY <2>2 DEF PServe
    <3> QED BY <1>1, <2>2, <3>1 DEF TypeOK, PlugState
  <2> QED BY <2>1, <2>2
<1>3. q \in Seq(Message) /\ q # <<>> /\ plug[s].outcome = "none"
  BY SessionTypes DEF PServe, PipeSound
<1>4. Head(q) \in Message /\ 1 \in 1..Len(q) /\ Head(q) = q[1]
  BY <1>3, HeadElement
<1>5. Head(q) # Shutdown => IsRequest(Head(q)) /\ Head(q).id \in Nat
  BY <1>4, Kinds
<1>6. ASSUME NEW id \in Nat, Passed(s, id)
      PROVE  Passed(s, id)'
  <2>1. Below(id, Tail(q)) /\ (IsRequest(Head(q)) => id < Head(q).id)
    BY <1>3, <1>6, BelowTail DEF Passed
  <2> QED BY <1>1, <1>2, <1>5, <1>6, <2>1 DEF Passed
<1>7. ASSUME NEW m, Waits(s, m)
      PROVE  Waits(s, m)'
  BY <1>1, <1>7 DEF Waits, Owned
<1>8. ASSUME NEW i \in 1..Len(line'[s].up)
      PROVE  Waits(s, line[s].up[i])'
  <2>1. Waits(s, line[s].up[i])
    BY <1>1, <1>8 DEF PipeSound
  <2>2. PICK m : m = line[s].up[i]
    OBVIOUS
  <2> QED BY <1>1, <1>7, <2>1, <2>2
<1>9. ASSUME NEW i \in 1..Len(plug'[s].queue)
      PROVE  /\ Waits(s, plug[s].queue[i])'
             /\ IsRequest(plug'[s].queue[i]) => Below(plug'[s].queue[i].id, line'[s].up)
  <2>1. i + 1 \in 1..Len(q) /\ plug'[s].queue[i] = q[i + 1]
    BY <1>2, <1>3, <1>9, TailElements
  <2>2. Waits(s, q[i + 1]) /\ (IsRequest(q[i + 1]) => Below(q[i + 1].id, line[s].up))
    BY <2>1 DEF PipeSound
  <2>3. PICK m : m = q[i + 1]
    OBVIOUS
  <2> QED BY <1>1, <1>7, <2>1, <2>2, <2>3
<1>10. Ordered(line'[s].up) /\ Ordered(plug'[s].queue)
  BY <1>1, <1>2, <1>3, OrderedTail DEF PipeSound
<1>11. plug'[s].serving # NoMsg =>
            /\ Owned(s, plug[s].serving)'
            /\ applied'[plug'[s].serving.for] = IF plug'[s].outcome = "ok" THEN 1 ELSE 0
            /\ Below(plug'[s].serving.id, plug'[s].queue)
            /\ Below(plug'[s].serving.id, line'[s].up)
  <2>1. CASE Head(q) = Shutdown
    BY <1>2, <2>1
  <2>2. CASE Head(q) # Shutdown
    <3>1. Waits(s, Head(q)) /\ Below(Head(q).id, line[s].up) /\ IsRequest(Head(q))
      BY <1>4, <1>5, <2>2 DEF PipeSound
    <3>2. Below(Head(q).id, Tail(q))
      BY <1>3, <3>1, OrderedTail DEF PipeSound
    <3> QED BY <1>1, <1>2, <1>3, <2>2, <3>1, <3>2 DEF Waits, Owned
  <2> QED BY <2>1, <2>2
<1>12. ASSUME NEW i \in 1..Len(line'[s].down)
       PROVE  Answers(s, line[s].down[i])'
  <2>1. i \in 1..Len(line[s].down)
    BY <1>1, <1>12
  <2>2. PICK m \in Response : m = line[s].down[i]
    BY <2>1, SessionTypes
  <2>3. Answers(s, m) /\ m.id \in Nat
    BY <2>1, <2>2 DEF PipeSound, Response
  <2> QED BY <1>1, <1>6, <2>2, <2>3 DEF Answers, Owned
<1>13. PipeSound(s)'
  BY <1>2, <1>3, <1>8, <1>9, <1>10, <1>11, <1>12 DEF PipeSound
<1> QED BY <1>6, <1>13 DEF PassedKept


\* The handler applies what it serves: nothing else the session carries is
\* about the same call.
LEMMA PApplyPipe ==
    ASSUME TypeOK, NEW s \in Sessions, PipeSound(s), PApply(s)
    PROVE  PipeSound(s)' /\ PassedKept(s)
<1> DEFINE o == plug[s].serving.for
<1>1. line' = line /\ op' = op /\ plug[s].serving # NoMsg /\ plug[s].outcome = "none"
  BY DEF PApply, Handling
<1>2. /\ plug'[s].queue = plug[s].queue /\ plug'[s].serving = plug[s].serving
      /\ plug'[s].outcome = "ok"
  BY DEF TypeOK, PApply, PlugState
<1>3. plug[s].serving \in Request /\ o \in Ops /\ plug[s].serving.id \in Nat
  BY <1>1, SessionTypes DEF Request
<1>4. /\ applied[o] = 0 /\ applied'[o] = 1
      /\ \A p \in Ops : p # o => applied'[p] = applied[p]
  BY <1>1, <1>3 DEF TypeOK, PApply, PipeSound
<1>5. Owned(s, plug[s].serving)
  BY <1>1 DEF PipeSound
<1>6. ASSUME NEW id \in Nat, Passed(s, id)
      PROVE  Passed(s, id)'
  BY <1>1, <1>2, <1>6 DEF Passed
<1>7. ASSUME NEW m \in Message, Waits(s, m), IsRequest(m) => plug[s].serving.id < m.id
      PROVE  Waits(s, m)'
  BY <1>1, <1>3, <1>4, <1>5, <1>7, Kinds DEF Waits, Owned
<1>8. ASSUME NEW i \in 1..Len(line'[s].up)
      PROVE  Waits(s, line[s].up[i])'
  <2>1. PICK m \in Message : m = line[s].up[i]
    BY <1>1, <1>8, SessionTypes
  <2>2. Waits(s, m) /\ (IsRequest(m) => plug[s].serving.id < m.id)
    BY <1>1, <1>8, <2>1 DEF PipeSound, Below
  <2> QED BY <1>1, <1>7, <2>1, <2>2
<1>9. ASSUME NEW i \in 1..Len(plug'[s].queue)
      PROVE  Waits(s, plug[s].queue[i])'
  <2>1. PICK m \in Message : m = plug[s].queue[i]
    BY <1>2, <1>9, SessionTypes
  <2>2. Waits(s, m) /\ (IsRequest(m) => plug[s].serving.id < m.id)
    BY <1>1, <1>2, <1>9, <2>1 DEF PipeSound, Below
  <2> QED BY <1>2, <1>7, <2>1, <2>2
<1>10. /\ Owned(s, plug[s].serving)'
       /\ applied'[plug'[s].serving.for] = IF plug'[s].outcome = "ok" THEN 1 ELSE 0
  BY <1>1, <1>2, <1>4, <1>5 DEF Owned
<1>11. ASSUME NEW i \in 1..Len(line'[s].down)
       PROVE  Answers(s, line[s].down[i])'
  <2>1. PICK m \in Response : m = line[s].down[i]
    BY <1>1, <1>11, SessionTypes
  <2>2. Answers(s, m) /\ m.id \in Nat /\ m.for \in Ops
    BY <1>1, <1>11, <2>1 DEF PipeSound, Response
  <2>3. m.id < plug[s].serving.id
    BY <1>1, <2>2 DEF Answers, Passed
  <2>4. m.for # o
    BY <1>3, <1>5, <2>2, <2>3 DEF Answers, Owned
  <2> QED BY <1>1, <1>4, <1>6, <2>1, <2>2, <2>4 DEF Answers, Owned
<1>12. PipeSound(s)'
  BY <1>1, <1>2, <1>8, <1>9, <1>10, <1>11 DEF PipeSound
<1> QED BY <1>6, <1>12 DEF PassedKept

LEMMA PRejectPipe ==
    ASSUME TypeOK, NEW s \in Sessions, PipeSound(s), PReject(s)
    PROVE  PipeSound(s)' /\ PassedKept(s)
<1>1. /\ line' = line /\ op' = op /\ applied' = applied
      /\ plug[s].serving # NoMsg /\ plug[s].outcome = "none"
  BY DEF PReject, Handling
<1>2. /\ plug'[s].queue = plug[s].queue /\ plug'[s].serving = plug[s].serving
      /\ plug'[s].outcome = "rejected"
  BY DEF TypeOK, PReject, PlugState
<1>3. ASSUME NEW id \in Nat, Passed(s, id)
      PROVE  Passed(s, id)'
  BY <1>1, <1>2, <1>3 DEF Passed
<1>4. ASSUME NEW i \in 1..Len(line'[s].down)
      PROVE  Answers(s, line[s].down[i])'
  <2>1. PICK m \in Response : m = line[s].down[i]
    BY <1>1, <1>4, SessionTypes
  <2>2. Answers(s, m) /\ m.id \in Nat
    BY <1>1, <1>4, <2>1 DEF PipeSound, Response
  <2> QED BY <1>1, <1>3, <2>1, <2>2 DEF Answers, Owned
<1>5. PipeSound(s)'
  BY <1>1, <1>2, <1>4 DEF PipeSound, Waits, Owned
<1> QED BY <1>3, <1>5 DEF PassedKept

\* The answer is about the request that was served, and no other is left.
LEMMA PRespondPipe ==
    ASSUME TypeOK, NEW s \in Sessions, PipeSound(s), PRespond(s)
    PROVE  PipeSound(s)' /\ PassedKept(s)
<1> DEFINE m == plug[s].serving
           r == [kind |-> "response", id |-> m.id, for |-> m.for,
                 ok |-> plug[s].outcome = "ok"]
<1>1. /\ op' = op /\ applied' = applied /\ plug[s].outcome # "none"
      /\ m # NoMsg
  BY DEF PRespond, PipeSound
<1>2. /\ plug'[s].queue = plug[s].queue /\ plug'[s].serving = NoMsg
      /\ plug'[s].outcome = "none"
  BY DEF TypeOK, PRespond, PlugState
<1>3. m \in Request /\ r \in Response /\ m.id \in Nat /\ m.for \in Ops
  BY <1>1, SessionTypes DEF Request, Response
<1>4. line' = line \/ line' = [line EXCEPT ![s].down = Append(@, r)]
  BY DEF PRespond
<1> HIDE DEF r
<1>5. /\ line'[s].up = line[s].up
      /\ line'[s].down = line[s].down \/ line'[s].down = Append(line[s].down, r)
  BY <1>4 DEF TypeOK, LineState
<1>6. ASSUME NEW id \in Nat, Passed(s, id)
      PROVE  Passed(s, id)'
  BY <1>2, <1>5, <1>6 DEF Passed
<1>7. ASSUME NEW n \in Response, Answers(s, n)
      PROVE  Answers(s, n)'
  BY <1>1, <1>6, <1>7 DEF Answers, Owned, Response
<1>8. PICK a \in Response : a = r
  BY <1>3
<1>9. Answers(s, a)'
  <2>1. a.id = m.id /\ a.for = m.for /\ (a.ok <=> plug[s].outcome = "ok")
    BY <1>8 DEF r
  <2>2. Owned(s, m) /\ (a.ok <=> applied[m.for] = 1)
    BY <1>1, <2>1 DEF PipeSound
  <2>3. Below(m.id, line'[s].up) /\ Below(m.id, plug'[s].queue)
    BY <1>1, <1>2, <1>5 DEF PipeSound
  <2> QED BY <1>1, <1>2, <2>1, <2>2, <2>3 DEF Answers, Owned, Passed
<1>10. ASSUME NEW i \in 1..Len(line'[s].down)
       PROVE  Answers(s, line[s].down[i])'
  <2>1. CASE i \in 1..Len(line[s].down) /\ line'[s].down[i] = line[s].down[i]
    <3>1. PICK n \in Response : n = line[s].down[i]
      BY <2>1, SessionTypes
    <3>2. Answers(s, n)
      BY <2>1, <3>1 DEF PipeSound
    <3> QED BY <1>7, <2>1, <3>1, <3>2
  <2>2. CASE line'[s].down[i] = r
    BY <1>8, <1>9, <2>2
  <2>3. CASE line'[s].down = line[s].down
    BY <1>10, <2>1, <2>3
  <2>4. CASE line'[s].down = Append(line[s].down, r)
    <3>1. line[s].down \in Seq(Response)
      BY SessionTypes
    <3>2. \/ i \in 1..Len(line[s].down) /\ line'[s].down[i] = line[s].down[i]
          \/ line'[s].down[i] = r
      BY <1>3, <1>10, <2>4, <3>1, AppendProperties
    <3> QED BY <2>1, <2>2, <3>2
  <2> QED BY <1>5, <2>3, <2>4
<1>11. PipeSound(s)'
  BY <1>1, <1>2, <1>5, <1>10 DEF PipeSound, Waits, Owned
<1> QED BY <1>6, <1>11 DEF PassedKept

\* The shutdown line follows the requests.
LEMMA CloseNotifyPipe ==
    ASSUME TypeOK, NEW s \in Sessions, PipeSound(s), CloseNotify(s)
    PROVE  PipeSound(s)' /\ PassedKept(s)
<1>1. plug' = plug /\ op' = op /\ applied' = applied
  BY DEF CloseNotify
<1>2. line' = line \/ line' = [line EXCEPT ![s].up = Append(@, Shutdown)]
  BY DEF CloseNotify
<1>3. /\ line'[s].down = line[s].down
      /\ line'[s].up = line[s].up \/ line'[s].up = Append(line[s].up, Shutdown)
  BY <1>2 DEF TypeOK, LineState
<1>4. Shutdown \in Message /\ ~IsRequest(Shutdown) /\ line[s].up \in Seq(Message)
  BY SessionTypes, Kinds DEF Message
<1>5. ASSUME NEW id \in Nat, Below(id, line[s].up)
      PROVE  Below(id, line'[s].up)
  BY <1>3, <1>4, <1>5, BelowAppend
<1>6. ASSUME NEW id \in Nat, Passed(s, id)
      PROVE  Passed(s, id)'
  BY <1>1, <1>5, <1>6 DEF Passed
<1>7. ASSUME NEW i \in 1..Len(line'[s].up)
      PROVE  Waits(s, line[s].up[i])'
  <2>1. \/ i \in 1..Len(line[s].up) /\ line'[s].up[i] = line[s].up[i]
        \/ line'[s].up[i] = Shutdown
    BY <1>3, <1>4, <1>7, AppendElements
  <2> QED BY <1>1, <1>4, <2>1 DEF PipeSound, Waits, Owned
<1>8. Ordered(line'[s].up)
  BY <1>3, <1>4, OrderedAppend DEF PipeSound
<1>9. ASSUME NEW i \in 1..Len(plug'[s].queue), IsRequest(plug'[s].queue[i])
      PROVE  Below(plug'[s].queue[i].id, line'[s].up)
  <2>1. PICK m \in Message : m = plug[s].queue[i]
    BY <1>1, <1>9, SessionTypes
  <2>2. m.id \in Nat /\ Below(m.id, line[s].up)
    BY <1>1, <1>9, <1>4, <2>1, Kinds DEF PipeSound
  <2> QED BY <1>1, <1>5, <2>1, <2>2
<1>10. plug[s].serving # NoMsg => Below(plug[s].serving.id, line'[s].up)
  BY <1>5, SessionTypes DEF PipeSound, Request
<1>11. ASSUME NEW i \in 1..Len(line'[s].down)
       PROVE  Answers(s, line[s].down[i])'
  <2>1. PICK m \in Response : m = line[s].down[i]
    BY <1>3, <1>11, SessionTypes
  <2>2. Answers(s, m) /\ m.id \in Nat
    BY <1>3, <1>11, <2>1 DEF PipeSound, Response
  <2> QED BY <1>1, <1>3, <1>6, <2>1, <2>2 DEF Answers, Owned
<1>12. PipeSound(s)'
  BY <1>1, <1>7, <1>8, <1>9, <1>10, <1>11 DEF PipeSound, Waits, Owned
<1> QED BY <1>6, <1>12 DEF PassedKept


\* A call's request is the newest of its session.
LEMMA CallSendPipe ==
    ASSUME TypeOK, CallsSound, NEW o \in Ops, NEW s \in Sessions, s = op[o].ses,
           PipeSound(s), CallSend(o), Open(s)
    PROVE  PipeSound(s)' /\ PassedKept(s)
<1> DEFINE n == host[s].next + 1
           r == [kind |-> "request", id |-> n, for |-> o]
<1>1. /\ op' = [op EXCEPT ![o].pc = "waiting", ![o].id = n]
      /\ line' = [line EXCEPT ![s].up = Append(@, r)]
      /\ plug' = plug /\ applied' = applied /\ op[o].pc = "ready"
  BY DEF CallSend
<1>2. n \in Nat /\ n # 0 /\ r \in Message /\ IsRequest(r) /\ r.id = n /\ r.for = o
  BY SessionTypes DEF Message, Request, IsRequest
<1>3. op[o].id = 0 /\ applied[o] = 0
  BY <1>1 DEF CallsSound, CallSound
<1> HIDE DEF n, r
<1>4. /\ line'[s].up = Append(line[s].up, r) /\ line'[s].down = line[s].down
      /\ op'[o].ses = s /\ op'[o].id = n
      /\ \A p \in Ops : p # o => op'[p] = op[p]
  BY <1>1 DEF TypeOK, LineState, OpState
<1>5. line[s].up \in Seq(Message)
  BY SessionTypes
<1>6. ASSUME NEW m, m.for \in Ops, Owned(s, m)
      PROVE  /\ Owned(s, m)' /\ applied'[m.for] = applied[m.for]
             /\ m.id < n /\ m.id \in Nat
  <2>1. m.id = op[m.for].id /\ m.id \in Nat /\ m.id # 0 /\ m.for # o
    BY <1>3, <1>6, CallTypes DEF Owned
  <2>2. m.id <= host[s].next
    BY <1>6, <2>1 DEF CallsSound, CallSound, Owned
  <2>3. m.id < n
    BY <2>1, <2>2, SessionTypes DEF n
  <2> QED BY <1>1, <1>4, <1>6, <2>1, <2>3 DEF Owned
<1>7. ASSUME NEW id \in Nat, id < n, Below(id, line[s].up)
      PROVE  Below(id, line'[s].up)
  BY <1>2, <1>4, <1>5, <1>7, BelowAppend
<1>8. ASSUME NEW m, m.for \in Ops, Owned(s, m), Passed(s, m.id)
      PROVE  Passed(s, m.id)'
  BY <1>1, <1>6, <1>7, <1>8 DEF Passed
<1>9. ASSUME NEW m \in Message, Waits(s, m)
      PROVE  Waits(s, m)' /\ (IsRequest(m) => m.id < n /\ m.id \in Nat)
  BY <1>6, <1>9, Kinds DEF Waits
<1>10. ASSUME NEW i \in 1..Len(line'[s].up)
       PROVE  Waits(s, line[s].up[i])'
  <2>1. CASE i \in 1..Len(line[s].up) /\ line'[s].up[i] = line[s].up[i]
    <3>1. PICK m \in Message : m = line[s].up[i]
      BY <1>5, <2>1
    <3>2. Waits(s, m)
      BY <2>1, <3>1 DEF PipeSound
    <3> QED BY <1>9, <2>1, <3>1, <3>2
  <2>2. CASE line'[s].up[i] = r
    BY <1>1, <1>2, <1>3, <1>4, <2>2 DEF Waits, Owned
  <2> QED BY <1>2, <1>4, <1>5, <1>10, <2>1, <2>2, AppendElements
<1>11. ASSUME NEW i \in 1..Len(plug'[s].queue)
       PROVE  /\ Waits(s, plug[s].queue[i])'
              /\ IsRequest(plug'[s].queue[i]) => Below(plug'[s].queue[i].id, line'[s].up)
  <2>1. PICK m \in Message : m = plug[s].queue[i]
    BY <1>1, <1>11, SessionTypes
  <2>2. Waits(s, m) /\ (IsRequest(m) => Below(m.id, line[s].up))
    BY <1>1, <1>11, <2>1 DEF PipeSound
  <2> QED BY <1>1, <1>7, <1>9, <2>1, <2>2
<1>12. Ordered(line'[s].up)
  <2>1. ASSUME NEW i \in 1..Len(line[s].up), IsRequest(line[s].up[i])
        PROVE  line[s].up[i].id < r.id
    <3>1. line[s].up[i] \in Message /\ Waits(s, line[s].up[i])
      BY <1>5 DEF PipeSound
    <3>2. PICK m \in Message : m = line[s].up[i]
      BY <3>1
    <3> QED BY <1>2, <1>9, <2>1, <3>1, <3>2
  <2> QED BY <1>2, <1>4, <1>5, <2>1, OrderedAppend DEF PipeSound
<1>13. plug'[s].serving # NoMsg =>
            /\ Owned(s, plug[s].serving)'
            /\ applied'[plug'[s].serving.for] = IF plug'[s].outcome = "ok" THEN 1 ELSE 0
            /\ Below(plug'[s].serving.id, line'[s].up)
  <2>1. SUFFICES ASSUME plug[s].serving # NoMsg
                 PROVE  /\ Owned(s, plug[s].serving)'
                        /\ applied'[plug'[s].serving.for] =
                              IF plug'[s].outcome = "ok" THEN 1 ELSE 0
                        /\ Below(plug'[s].serving.id, line'[s].up)
    BY <1>1
  <2>2. PICK m \in Request : m = plug[s].serving
    BY <2>1, SessionTypes
  <2>3. Owned(s, m) /\ m.for \in Ops /\ Below(m.id, line[s].up)
    BY <2>1, <2>2 DEF PipeSound, Request
  <2> QED BY <1>1, <1>6, <1>7, <2>1, <2>2, <2>3 DEF PipeSound
<1>14. ASSUME NEW i \in 1..Len(line'[s].down)
       PROVE  Answers(s, line[s].down[i])'
  <2>1. PICK m \in Response : m = line[s].down[i]
    BY <1>4, <1>14, SessionTypes
  <2>2. Answers(s, m) /\ m.for \in Ops
    BY <1>4, <1>14, <2>1 DEF PipeSound, Response
  <2> QED BY <1>4, <1>6, <1>8, <2>1, <2>2 DEF Answers
<1>15. PipeSound(s)'
  BY <1>1, <1>10, <1>11, <1>12, <1>13, <1>14 DEF PipeSound
<1>16. PassedKept(s)
  <2>1. SUFFICES ASSUME NEW p \in Ops, NEW id \in Nat, op[p].ses = s, op[p].id = id,
                        id # 0, Passed(s, id)
                 PROVE  Passed(s, id)'
    BY DEF PassedKept
  <2>2. id <= host[s].next
    BY <2>1 DEF CallsSound, CallSound
  <2>3. id < n
    BY <2>2, SessionTypes DEF n
  <2> QED BY <1>1, <1>7, <2>1, <2>3 DEF Passed
<1> QED BY <1>15, <1>16

-----------------------------------------------------------------------------
(* Which steps shrink what a session carries, and keep its calls.           *)

\* Nothing happens to the session.
LEMMA SameShrinks ==
    ASSUME NEW s \in Sessions, line'[s] = line[s], plug'[s] = plug[s]
    PROVE  PipeShrinks(s)
BY DEF PipeShrinks

LEMMA SameCalls ==
    ASSUME NEW s \in Sessions, op' = op, applied' = applied
    PROVE  CallsKept(s)
BY DEF CallsKept

\* A process that is gone carries nothing.
LEMMA GoneShrinks ==
    ASSUME TypeOK, NEW s \in Sessions, NEW how,
           plug' = [plug EXCEPT ![s] = Gone(@, how)], line' = Unread(s)
    PROVE  \A t \in Sessions : PipeShrinks(t)
<1>1. /\ plug'[s].queue = <<>> /\ plug'[s].serving = NoMsg /\ plug'[s].outcome = "none"
      /\ \A t \in Sessions \ {s} : plug'[t] = plug[t]
  BY DEF TypeOK, PlugState, Gone
<1>2. /\ line'[s].up = <<>> /\ line'[s].down = line[s].down
      /\ \A t \in Sessions \ {s} : line'[t] = line[t]
  BY DEF TypeOK, LineState, Unread
<1> QED BY <1>1, <1>2, SameShrinks DEF PipeShrinks

LEMMA ReapShrinks ==
    ASSUME TypeOK, NEW t \in Sessions
    PROVE  /\ (IF session = 0 THEN line ELSE Unread(session))[t].up \in {line[t].up, <<>>}
           /\ (IF session = 0 THEN line ELSE Unread(session))[t].down = line[t].down
           /\ Reaped[t].queue \in {plug[t].queue, <<>>}
           /\ \/ /\ Reaped[t].serving = plug[t].serving
                 /\ Reaped[t].outcome = plug[t].outcome
              \/ Reaped[t].serving = NoMsg /\ Reaped[t].outcome = "none"
<1>1. CASE session = 0
  BY <1>1 DEF Reaped
<1>2. CASE session # 0
  <2>1. session \in Sessions
    BY <1>2, Numbers
  <2>2. Unread(session)[t].up \in {line[t].up, <<>>} /\ Unread(session)[t].down = line[t].down
    BY <2>1 DEF TypeOK, LineState, Unread
  <2>3. CASE Reaped = plug
    BY <1>2, <2>2, <2>3
  <2>4. CASE Reaped = [plug EXCEPT ![session] = Gone(@, "killed")]
    <3>1. CASE t = session
      BY <1>2, <2>1, <2>2, <2>4, <3>1 DEF TypeOK, PlugState, Gone
    <3>2. CASE t # session
      BY <1>2, <2>1, <2>2, <2>4, <3>2 DEF TypeOK
    <3> QED BY <3>1, <3>2
  <2> QED BY <2>3, <2>4 DEF Reaped
<1> QED BY <1>1, <1>2

\* A call that has no id yet, or finishes, keeps the rest.
LEMMA FinishKeeps ==
    ASSUME TypeOK, NEW o \in Ops, NEW r, op' = Finish(o, r)
    PROVE  /\ op'[o].pc = "done" /\ op'[o].ses = op[o].ses /\ op'[o].id = op[o].id
           /\ op'[o].got = NoMsg /\ op'[o].result = r
           /\ \A p \in Ops : p # o => op'[p] = op[p]
BY DEF TypeOK, OpState, Finish


\* A step of session s leaves the other sessions alone.
LEMMA OneSession ==
    ASSUME TypeOK, PipesSound, NEW s \in Sessions,
           PipeSound(s)' /\ PassedKept(s),
           \A t \in Sessions \ {s} : line'[t] = line[t] /\ plug'[t] = plug[t],
           \A t \in Sessions \ {s} : CallsKept(t)
    PROVE  PipesSound' /\ \A t \in Sessions : PassedKept(t)
<1>1. ASSUME NEW t \in Sessions PROVE PipeSound(t)' /\ PassedKept(t)
  <2>1. CASE t = s
    BY <2>1
  <2>2. CASE t # s
    <3>1. PipeSound(t) /\ PipeShrinks(t) /\ CallsKept(t)
      BY <2>2, SameShrinks DEF PipesSound
    <3> QED BY <3>1, ShrinkKeeps
  <2> QED BY <2>1, <2>2
<1> QED BY <1>1 DEF PipesSound

LEMMA ShrinkStep ==
    ASSUME TypeOK, PipesSound, \A s \in Sessions : PipeShrinks(s),
           \A s \in Sessions : CallsKept(s)
    PROVE  PipesSound' /\ \A s \in Sessions : PassedKept(s)
BY ShrinkKeeps DEF PipesSound

\* The steps of a call.
LEMMA CallPipes ==
    ASSUME TypeOK, PipesSound, CallsSound, NEW o \in Ops, Call(o) \/ CallAbandon(o)
    PROVE  PipesSound' /\ \A s \in Sessions : PassedKept(s)
<1>1. CASE Unavailable(o) \/ CallReturn(o) \/ CallPeerDone(o) \/ CallAbandon(o)
  <2>1. PICK r : op' = Finish(o, r)
    BY <1>1 DEF Unavailable, CallReturn, CallPeerDone, CallAbandon
  <2>2. line' = line /\ plug' = plug /\ applied' = applied
    BY <1>1 DEF Unavailable, CallReturn, CallPeerDone, CallAbandon
  <2>3. \A s \in Sessions : CallsKept(s)
    BY <2>1, <2>2, FinishKeeps DEF CallsKept
  <2> QED BY <2>2, <2>3, SameShrinks, ShrinkStep
<1>2. CASE UseCached(o)
  <2>1. line' = line /\ plug' = plug /\ applied' = applied
    BY <1>2 DEF UseCached
  <2>2. op[o].id = 0 /\ \A p \in Ops : p # o => op'[p] = op[p]
    BY <1>2 DEF UseCached, CallsSound, CallSound, TypeOK
  <2>3. \A s \in Sessions : CallsKept(s)
    BY <2>1, <2>2 DEF CallsKept
  <2> QED BY <2>1, <2>3, SameShrinks, ShrinkStep
<1>3. CASE Respawn(o)
  <2>1. spawned + 1 \in Sessions
    BY <1>3, Numbers DEF Respawn, Sessions
  <2>2. op[o].id = 0 /\ \A p \in Ops : p # o => op'[p] = op[p]
    BY <1>3 DEF Respawn, CallsSound, CallSound, TypeOK
  <2>3. \A s \in Sessions : CallsKept(s)
    BY <1>3, <2>2 DEF CallsKept, Respawn
  <2>4. ASSUME NEW t \in Sessions
        PROVE  /\ plug'[t].queue = Reaped[t].queue /\ plug'[t].serving = Reaped[t].serving
               /\ plug'[t].outcome = Reaped[t].outcome
    <3>1. plug' = [Reaped EXCEPT ![spawned + 1].child = "running"]
      BY <1>3 DEF Respawn
    <3> QED BY <2>1, <3>1, ReapTyped DEF PlugState
  <2>5. line' = IF session = 0 THEN line ELSE Unread(session)
    BY <1>3 DEF Respawn
  <2>6. ASSUME NEW t \in Sessions PROVE PipeShrinks(t)
    BY <2>4, <2>5, ReapShrinks DEF PipeShrinks
  <2> QED BY <2>3, <2>6, ShrinkStep
<1>4. CASE DialFails(o)
  <2>1. op[o].id = 0 /\ op' = Finish(o, "unavailable") /\ applied' = applied
    BY <1>4 DEF DialFails, CallsSound, CallSound
  <2>2. \A s \in Sessions : CallsKept(s)
    BY <2>1, FinishKeeps DEF CallsKept
  <2>3. plug' = Reaped /\ line' = IF session = 0 THEN line ELSE Unread(session)
    BY <1>4 DEF DialFails
  <2>4. ASSUME NEW t \in Sessions PROVE PipeShrinks(t)
    BY <2>3, ReapShrinks DEF PipeShrinks
  <2> QED BY <2>2, <2>4, ShrinkStep
<1>5. CASE CallSend(o)
  <2>1. op[o].pc = "ready" /\ plug' = plug /\ applied' = applied
    BY <1>5 DEF CallSend
  <2>2. op[o].ses \in Sessions /\ op[o].id = 0
    BY <2>1, Numbers DEF CallsSound, CallSound, Sessions
  <2>3. PICK s \in Sessions : s = op[o].ses
    BY <2>2
  <2>4. \A p \in Ops : p # o => op'[p] = op[p]
    BY <1>5, FinishKeeps DEF CallSend, TypeOK
  <2>5. \A t \in Sessions : CallsKept(t)
    BY <2>1, <2>2, <2>4 DEF CallsKept
  <2>6. CASE ~Open(s)
    <3>1. line' = line
      BY <1>5, <2>3, <2>6 DEF CallSend
    <3> QED BY <2>1, <2>5, <3>1, SameShrinks, ShrinkStep
  <2>7. CASE Open(s)
    <3>1. PipeSound(s)' /\ PassedKept(s)
      BY <1>5, <2>3, <2>7, CallSendPipe DEF PipesSound
    <3>2. \A t \in Sessions \ {s} : line'[t] = line[t]
      BY <1>5, <2>3, <2>7 DEF CallSend, TypeOK
    <3> QED BY <2>1, <2>5, <3>1, <3>2, OneSession
  <2> QED BY <2>6, <2>7
<1> QED BY <1>1, <1>2, <1>3, <1>4, <1>5 DEF Call

\* The steps of the host's loops.
LEMMA HostPipes ==
    ASSUME TypeOK, PipesSound, NEW s \in Sessions,
           HostLoop(s) \/ Teardown(s) \/ Crash(s) \/ Garble(s)
    PROVE  PipesSound' /\ \A t \in Sessions : PassedKept(t)
<1>1. CASE HostRead(s)
  <2>1. ASSUME NEW o \in Ops PROVE op'[o].ses = op[o].ses /\ op'[o].id = op[o].id
    <3>1. op[o] \in OpState
      BY CallTypes
    <3>2. op'[o] = op[o] \/ op'[o] = [op[o] EXCEPT !.got = Head(line[s].down)]
      BY <1>1 DEF HostRead
    <3> QED BY <3>1, <3>2 DEF OpState
  <2>2. \A t \in Sessions : CallsKept(t)
    BY <1>1, <2>1 DEF CallsKept, HostRead
  <2>3. /\ line'[s].up = line[s].up /\ line'[s].down = Tail(line[s].down)
        /\ line[s].down # <<>> /\ plug' = plug
        /\ \A t \in Sessions \ {s} : line'[t] = line[t]
    BY <1>1 DEF HostRead, TypeOK, LineState
  <2>4. ASSUME NEW t \in Sessions PROVE PipeShrinks(t)
    BY <2>3 DEF PipeShrinks
  <2> QED BY <2>2, <2>4, ShrinkStep
<1>2. CASE HostEOF(s)
  <2>1. /\ line'[s].up = line[s].up /\ line'[s].down = <<>> /\ plug' = plug
        /\ \A t \in Sessions \ {s} : line'[t] = line[t]
    BY <1>2 DEF HostEOF, TypeOK, LineState
  <2>2. ASSUME NEW t \in Sessions PROVE PipeShrinks(t)
    BY <2>1 DEF PipeShrinks
  <2> QED BY <1>2, <2>2, SameCalls, ShrinkStep DEF HostEOF
<1>3. CASE CloseNotify(s)
  <2>1. PipeSound(s)' /\ PassedKept(s)
    BY <1>3, CloseNotifyPipe DEF PipesSound
  <2>2. \A t \in Sessions \ {s} : line'[t] = line[t] /\ plug'[t] = plug[t]
    BY <1>3 DEF CloseNotify, TypeOK
  <2> QED BY <1>3, <2>1, <2>2, SameCalls, OneSession DEF CloseNotify
<1>4. CASE CloseStdin(s)
  <2>1. /\ line' = line
        /\ \A t \in Sessions : /\ plug'[t].queue = plug[t].queue
                               /\ plug'[t].serving = plug[t].serving
                               /\ plug'[t].outcome = plug[t].outcome
    BY <1>4 DEF CloseStdin, TypeOK, PlugState
  <2>2. ASSUME NEW t \in Sessions PROVE PipeShrinks(t)
    BY <2>1 DEF PipeShrinks
  <2> QED BY <1>4, <2>2, SameCalls, ShrinkStep DEF CloseStdin
<1>5. CASE ClosePeer(s) \/ CloseReap(s) \/ Garble(s)
  <2>1. line' = line /\ plug' = plug /\ op' = op /\ applied' = applied
    BY <1>5 DEF ClosePeer, CloseReap, Garble
  <2> QED BY <2>1, SameShrinks, SameCalls, ShrinkStep
<1>6. CASE CloseKill(s) \/ Crash(s)
  <2>1. /\ op' = op /\ applied' = applied /\ line' = Unread(s)
        /\ \E how : plug' = [plug EXCEPT ![s] = Gone(@, how)]
    BY <1>6 DEF CloseKill, Crash
  <2> QED BY <2>1, GoneShrinks, SameCalls, ShrinkStep
<1> QED BY <1>1, <1>2, <1>3, <1>4, <1>5, <1>6 DEF HostLoop, Teardown

\* The steps of the plugin.
LEMMA PluginPipes ==
    ASSUME TypeOK, PipesSound, NEW s \in Sessions, PluginLoop(s) \/ Handler(s)
    PROVE  PipesSound' /\ \A t \in Sessions : PassedKept(t)
<1>1. CASE PRead(s) \/ PServe(s) \/ PReject(s) \/ PRespond(s)
  <2>1. PipeSound(s)' /\ PassedKept(s)
    BY <1>1, PReadPipe, PServePipe, PRejectPipe, PRespondPipe DEF PipesSound
  <2>2. \A t \in Sessions \ {s} : line'[t] = line[t] /\ plug'[t] = plug[t]
    BY <1>1 DEF PRead, PServe, PReject, PRespond, TypeOK
  <2>3. op' = op /\ applied' = applied
    BY <1>1 DEF PRead, PServe, PReject, PRespond
  <2> QED BY <2>1, <2>2, <2>3, SameCalls, OneSession
<1>2. CASE PApply(s)
  <2>1. PipeSound(s)' /\ PassedKept(s)
    BY <1>2, PApplyPipe DEF PipesSound
  <2>2. /\ \A t \in Sessions \ {s} : line'[t] = line[t] /\ plug'[t] = plug[t]
        /\ op' = op
    BY <1>2 DEF PApply, TypeOK
  <2>3. Owned(s, plug[s].serving) /\ plug[s].serving.for \in Ops
    BY <1>2, SessionTypes DEF PApply, Handling, PipesSound, PipeSound, Request
  <2>4. \A t \in Sessions \ {s} : CallsKept(t)
    BY <1>2, <2>2, <2>3 DEF CallsKept, Owned, PApply, TypeOK
  <2> QED BY <2>1, <2>2, <2>4, OneSession
<1>3. CASE PReadEnd(s) \/ ShutdownArm(s) \/ CtxArm(s) \/ DoneArm(s)
  <2>1. op' = op /\ applied' = applied /\ line' = line
    BY <1>3 DEF PReadEnd, ShutdownArm, CtxArm, DoneArm
  <2>2. ASSUME NEW t \in Sessions
        PROVE  /\ plug'[t].queue = plug[t].queue /\ plug'[t].serving = plug[t].serving
               /\ plug'[t].outcome = plug[t].outcome
    <3>1. CASE PReadEnd(s)
      BY <3>1 DEF PReadEnd, TypeOK, PlugState
    <3>2. CASE ShutdownArm(s)
      BY <3>2 DEF ShutdownArm, TypeOK, PlugState
    <3>3. CASE CtxArm(s)
      BY <3>3 DEF CtxArm, TypeOK, PlugState
    <3>4. CASE DoneArm(s)
      BY <3>4 DEF DoneArm, TypeOK, PlugState
    <3> QED BY <1>3, <3>1, <3>2, <3>3, <3>4
  <2>3. ASSUME NEW t \in Sessions PROVE PipeShrinks(t)
    BY <2>1, <2>2 DEF PipeShrinks
  <2> QED BY <2>1, <2>3, SameCalls, ShrinkStep
<1>4. CASE ServeReturn(s)
  <2>1. /\ op' = op /\ applied' = applied /\ line' = Unread(s)
        /\ \E how : plug' = [plug EXCEPT ![s] = Gone(@, how)]
    BY <1>4 DEF ServeReturn
  <2> QED BY <2>1, GoneShrinks, SameCalls, ShrinkStep
<1> QED BY <1>1, <1>2, <1>3, <1>4 DEF PluginLoop, Handler

LEMMA CloseBeginPipes ==
    ASSUME TypeOK, PipesSound, CloseBegin
    PROVE  PipesSound' /\ \A t \in Sessions : PassedKept(t)
BY SameShrinks, SameCalls, ShrinkStep DEF CloseBegin


-----------------------------------------------------------------------------
(* The calls, CallsSound and CallsDistinct.                                 *)

\* Ids and sessions are only ever added.
Grows ==
    /\ spawned <= spawned'
    /\ \A s \in Sessions : host[s].next <= host'[s].next

\* A step that leaves a call alone.
LEMMA CallKept ==
    ASSUME TypeOK, TypeOK', NEW o \in Ops, CallSound(o), Grows,
           \A s \in Sessions : PassedKept(s),
           op'[o] = op[o], applied'[o] = applied[o]
    PROVE  CallSound(o)'
<1> USE CallTypes, Numbers
<1>1. ASSUME op[o].id # 0
      PROVE  /\ op[o].ses \in Sessions /\ op[o].ses \in 1..spawned'
             /\ op[o].id <= host'[op[o].ses].next
             /\ Passed(op[o].ses, op[o].id) => Passed(op[o].ses, op[o].id)'
  <2>1. op[o].ses \in 1..spawned /\ op[o].id <= host[op[o].ses].next
    BY <1>1 DEF CallSound
  <2>2. op[o].ses \in Sessions
    BY <2>1 DEF Sessions
  <2>3. op[o].ses \in 1..spawned'
    BY <2>1 DEF Grows, TypeOK
  <2>4. op[o].id <= host'[op[o].ses].next
    <3>1. host[op[o].ses].next \in Nat /\ host'[op[o].ses].next \in Nat
      BY <2>2 DEF TypeOK, HostState
    <3> QED BY <2>1, <2>2, <3>1 DEF Grows
  <2>5. PICK s \in Sessions, id \in Nat : s = op[o].ses /\ id = op[o].id
    BY <2>2
  <2>6. Passed(s, id) => Passed(s, id)'
    BY <1>1, <2>5 DEF PassedKept
  <2> QED BY <2>2, <2>3, <2>4, <2>5, <2>6
<1>2. op[o].got # NoMsg => op[o].id # 0
  BY DEF CallSound
<1>3. op[o].pc = "ready" => op[o].ses \in 1..spawned'
  BY DEF CallSound, Grows, TypeOK
<1>4. /\ op'[o].got # NoMsg =>
            (op'[o].got.ok <=> applied'[o] = 1) /\ Passed(op[o].ses, op[o].id)'
      /\ op'[o].result = "rejected" =>
            op'[o].id # 0 /\ applied'[o] = 0 /\ Passed(op[o].ses, op[o].id)'
  BY <1>1, <1>2 DEF CallSound
<1> QED BY <1>1, <1>3, <1>4 DEF CallSound


\* The peer's ids only grow.
LEMMA CallGrows ==
    ASSUME TypeOK, CallsSound, NEW o \in Ops, Call(o) \/ CallAbandon(o)
    PROVE  Grows
<1> USE Numbers, SessionTypes
<1>1. CASE Unavailable(o) \/ UseCached(o)
  BY <1>1 DEF Grows, Unavailable, UseCached
<1>2. CASE Respawn(o) \/ DialFails(o)
  <2>1. host' = Closed /\ spawned <= spawned'
    BY <1>2 DEF Respawn, DialFails
  <2>2. \A s \in Sessions : host'[s].next = host[s].next
    <3>1. CASE session = 0
      BY <2>1, <3>1 DEF Closed
    <3>2. CASE session # 0
      BY <2>1, <3>2 DEF Closed, TypeOK, HostState
    <3> QED BY <3>1, <3>2
  <2> QED BY <2>1, <2>2 DEF Grows
<1>3. CASE CallSend(o)
  <2>1. op[o].ses \in Sessions
    BY <1>3 DEF CallSend, CallsSound, CallSound, Sessions
  <2>2. PICK s \in Sessions, n \in Nat : s = op[o].ses /\ n = host[s].next
    BY <2>1
  <2>3. \/ host' = [host EXCEPT ![s].next = n + 1]
        \/ host' = [host EXCEPT ![s].next = n + 1, ![s].pending = @ \cup {n + 1}]
    BY <1>3, <2>2 DEF CallSend
  <2>4. host'[s].next = n + 1 /\ \A t \in Sessions \ {s} : host'[t] = host[t]
    BY <2>2, <2>3 DEF TypeOK, HostState
  <2> QED BY <1>3, <2>2, <2>4 DEF Grows, CallSend
<1>4. CASE CallReturn(o) \/ CallPeerDone(o) \/ CallAbandon(o)
  <2>1. host' = Unregister(o) /\ spawned' = spawned
    BY <1>4 DEF CallReturn, CallPeerDone, CallAbandon
  <2>2. \A s \in Sessions : host'[s].next = host[s].next
    BY <2>1 DEF Unregister, TypeOK, HostState
  <2> QED BY <2>1, <2>2 DEF Grows
<1> QED BY <1>1, <1>2, <1>3, <1>4 DEF Call

LEMMA HostGrows ==
    ASSUME TypeOK, NEW s \in Sessions,
           HostLoop(s) \/ Teardown(s) \/ Crash(s) \/ Garble(s)
    PROVE  Grows
<1> USE Numbers, SessionTypes
<1>1. spawned' = spawned
  BY DEF HostLoop, HostRead, HostEOF, Teardown, CloseNotify, CloseStdin, ClosePeer, CloseReap,
         CloseKill, Crash, Garble
<1>2. ASSUME NEW t \in Sessions PROVE host'[t].next = host[t].next
  <2>1. CASE HostRead(s)
    BY <2>1 DEF HostRead, TypeOK, HostState
  <2>2. CASE HostEOF(s)
    BY <2>2 DEF HostEOF, TypeOK, HostState
  <2>3. CASE CloseNotify(s)
    BY <2>3 DEF CloseNotify, TypeOK, HostState
  <2>4. CASE CloseStdin(s)
    BY <2>4 DEF CloseStdin, TypeOK, HostState
  <2>5. CASE ClosePeer(s)
    BY <2>5 DEF ClosePeer, TypeOK, HostState
  <2>6. CASE CloseReap(s)
    BY <2>6 DEF CloseReap, TypeOK, HostState
  <2>7. CASE CloseKill(s) \/ Crash(s)
    BY <2>7 DEF CloseKill, Crash
  <2>8. CASE Garble(s)
    BY <2>8 DEF Garble, TypeOK, HostState
  <2> QED BY <2>1, <2>2, <2>3, <2>4, <2>5, <2>6, <2>7, <2>8 DEF HostLoop, Teardown
<1> QED BY <1>1, <1>2 DEF Grows

LEMMA PluginGrows ==
    ASSUME TypeOK, NEW s \in Sessions, PluginLoop(s) \/ Handler(s)
    PROVE  Grows
<1>1. spawned' = spawned /\ host' = host
  BY DEF PluginLoop, Handler, PRead, PReadEnd, PServe, PRespond, ShutdownArm, CtxArm,
         DoneArm, ServeReturn, PApply, PReject
<1> QED BY <1>1, Numbers, SessionTypes DEF Grows

LEMMA CloseBeginGrows == ASSUME TypeOK, CloseBegin PROVE Grows
<1>1. spawned' = spawned /\ \A s \in Sessions : host'[s].next = host[s].next
  BY Numbers DEF CloseBegin, TypeOK, HostState
<1> QED BY <1>1, Numbers, SessionTypes DEF Grows

\* A call's own steps keep what is known of it.
LEMMA CallCalls ==
    ASSUME TypeOK, TypeOK', CallsSound, PipesSound, Grows,
           session <= spawned,
           \A s \in Sessions : PassedKept(s),
           NEW o \in Ops, Call(o) \/ CallAbandon(o)
    PROVE  CallsSound'
<1> USE CallTypes, Numbers
<1>1. applied' = applied /\ \A p \in Ops : p # o => op'[p] = op[p]
  <2>1. CASE UseCached(o) \/ Respawn(o)
    BY <2>1 DEF UseCached, Respawn, TypeOK
  <2>2. CASE CallSend(o)
    BY <2>2, FinishKeeps DEF CallSend, TypeOK
  <2>3. CASE Unavailable(o) \/ DialFails(o) \/ CallReturn(o) \/ CallPeerDone(o) \/ CallAbandon(o)
    <3>1. PICK r : op' = Finish(o, r)
      BY <2>3 DEF Unavailable, DialFails, CallReturn, CallPeerDone, CallAbandon
    <3> QED BY <2>3, <3>1, FinishKeeps
            DEF Unavailable, DialFails, CallReturn, CallPeerDone, CallAbandon
  <2> QED BY <2>1, <2>2, <2>3 DEF Call
<1>2. ASSUME NEW p \in Ops, p # o PROVE CallSound(p)'
  BY <1>1, <1>2, CallKept DEF CallsSound
<1>3. CallSound(o)
  BY DEF CallsSound
<1>4. CallSound(o)'
  <2>1. CASE Unavailable(o) \/ DialFails(o)
    <3>1. op[o].pc = "idle" /\ op' = Finish(o, "unavailable")
      BY <2>1 DEF Unavailable, DialFails
    <3>2. op[o].id = 0 /\ applied[o] = 0
      BY <1>3, <3>1 DEF CallSound
    <3>3. /\ op'[o].pc = "done" /\ op'[o].id = 0 /\ op'[o].got = NoMsg
          /\ op'[o].result = "unavailable" /\ applied'[o] = 0
      BY <1>1, <3>1, <3>2, FinishKeeps
    <3> QED BY <3>3 DEF CallSound
  <2>2. CASE UseCached(o) \/ Respawn(o)
    <3>1. op[o].pc = "idle" /\ op[o].id = 0 /\ applied[o] = 0
      BY <1>3, <2>2 DEF CallSound, UseCached, Respawn
    <3>2. /\ op'[o].pc = "ready" /\ op'[o].id = 0 /\ op'[o].got = op[o].got
          /\ op'[o].result = op[o].result
      BY <2>2, <3>1 DEF UseCached, Respawn, TypeOK, OpState
    <3>3. op'[o].ses \in 1..spawned'
      <4>1. CASE UseCached(o)
        BY <4>1 DEF UseCached, Alive, TypeOK, OpState
      <4>2. CASE Respawn(o)
        BY <4>2 DEF Respawn, TypeOK, OpState
      <4> QED BY <2>2, <4>1, <4>2
    <3>4. op[o].got = NoMsg /\ op[o].result = "none"
      BY <1>3, <3>1 DEF CallSound
    <3> QED BY <1>1, <3>1, <3>2, <3>3, <3>4 DEF CallSound
  <2>3. CASE CallSend(o)
    <3>1. op[o].pc = "ready"
      BY <2>3 DEF CallSend
    <3>2. /\ op[o].ses \in 1..spawned /\ op[o].ses \in Sessions
          /\ op[o].got = NoMsg /\ op[o].result = "none" /\ op[o].id = 0 /\ applied[o] = 0
      BY <1>3, <3>1 DEF CallSound, Sessions
    <3>3. PICK s \in Sessions, n \in Nat : s = op[o].ses /\ n = host[s].next
      BY <3>2, SessionTypes
    <3>4. CASE ~Open(s)
      <4>1. op' = Finish(o, "transport")
        BY <2>3, <3>3, <3>4 DEF CallSend
      <4>2. /\ op'[o].pc = "done" /\ op'[o].id = 0 /\ op'[o].got = NoMsg
            /\ op'[o].result = "transport" /\ applied'[o] = 0
        BY <1>1, <3>2, <4>1, FinishKeeps
      <4> QED BY <4>2 DEF CallSound
    <3>5. CASE Open(s)
      <4>1. /\ op' = [op EXCEPT ![o].pc = "waiting", ![o].id = n + 1]
            /\ host' = [host EXCEPT ![s].next = n + 1, ![s].pending = @ \cup {n + 1}]
            /\ spawned' = spawned
        BY <2>3, <3>3, <3>5 DEF CallSend
      <4>2. /\ op'[o].pc = "waiting" /\ op'[o].id = n + 1 /\ op'[o].ses = s
            /\ op'[o].got = NoMsg /\ op'[o].result = "none"
        BY <3>2, <3>3, <4>1 DEF TypeOK, OpState
      <4>3. host'[s].next = n + 1
        BY <4>1 DEF TypeOK, HostState
      <4>4. op'[o].id # 0 /\ op'[o].id <= host'[op'[o].ses].next
        BY <4>2, <4>3
      <4>5. op'[o].ses \in 1..spawned' /\ applied'[o] = 0
        BY <1>1, <3>2, <3>3, <4>1, <4>2
      <4> QED BY <4>2, <4>4, <4>5 DEF CallSound
    <3> QED BY <3>4, <3>5
  <2>4. CASE CallReturn(o) \/ CallPeerDone(o) \/ CallAbandon(o)
    <3>1. PICK r : /\ op' = Finish(o, r)
                   /\ \/ r \in {"transport", "abandoned"}
                      \/ op[o].got # NoMsg /\ r = IF op[o].got.ok THEN "ok" ELSE "rejected"
      <4>1. CASE CallReturn(o)
        <5>1. op' = Finish(o, IF op[o].got.ok THEN "ok" ELSE "rejected") /\ op[o].got # NoMsg
          BY <4>1 DEF CallReturn
        <5> QED BY <5>1
      <4>2. CASE CallPeerDone(o)
        <5>1. op' = Finish(o, "transport")
          BY <4>2 DEF CallPeerDone
        <5> QED BY <5>1
      <4>3. CASE CallAbandon(o)
        <5>1. op' = Finish(o, "abandoned")
          BY <4>3 DEF CallAbandon
        <5> QED BY <5>1
      <4> QED BY <2>4, <4>1, <4>2, <4>3
    <3>2. op[o].pc = "waiting"
      BY <2>4 DEF CallReturn, CallPeerDone, CallAbandon
    <3>3. /\ op'[o].pc = "done" /\ op'[o].ses = op[o].ses /\ op'[o].id = op[o].id
          /\ op'[o].got = NoMsg /\ op'[o].result = r
      BY <3>1, FinishKeeps
    <3>4. op[o].id # 0 /\ op[o].ses \in 1..spawned /\ op[o].id <= host[op[o].ses].next
      BY <1>3, <3>2 DEF CallSound
    <3>5. op[o].ses \in Sessions
      BY <3>4 DEF Sessions
    <3>6. op'[o].ses \in 1..spawned' /\ op'[o].id <= host'[op'[o].ses].next
      <4>1. host[op[o].ses].next \in Nat /\ host'[op[o].ses].next \in Nat
        BY <3>5 DEF TypeOK, HostState
      <4> QED BY SMTT(30), <3>3, <3>4, <3>5, <4>1 DEF Grows, TypeOK
    <3>7. PICK s \in Sessions, id \in Nat : s = op[o].ses /\ id = op[o].id
      BY <3>5
    <3>8. Passed(s, id) => Passed(op[o].ses, op[o].id)'
      <4>1. Passed(s, id) => Passed(s, id)'
        BY <3>4, <3>7 DEF PassedKept
      <4> QED BY <3>3, <3>7, <4>1
    <3>9. /\ r = "ok" => applied[o] = 1
          /\ r = "rejected" => applied[o] = 0 /\ Passed(s, id)
      BY <1>3, <3>1, <3>7 DEF CallSound
    <3>10. r \in {"transport", "abandoned", "ok", "rejected"}
      BY <3>1
    <3> QED BY <1>1, <1>3, <3>3, <3>4, <3>6, <3>8, <3>9, <3>10 DEF CallSound
  <2> QED BY <2>1, <2>2, <2>3, <2>4 DEF Call
<1> QED BY <1>2, <1>4 DEF CallsSound

\* A response is delivered to the call it is about.
LEMMA HostReadCalls ==
    ASSUME TypeOK, TypeOK', CallsSound, CallsDistinct, PipesSound, Grows,
           \A s \in Sessions : PassedKept(s),
           NEW s \in Sessions, HostRead(s)
    PROVE  CallsSound'
<1> USE CallTypes, Numbers
<1>1. PICK m \in Response : m = Head(line[s].down)
  BY SessionTypes DEF HostRead
<1>2. Answers(s, m) /\ m.for \in Ops /\ m.id \in Nat
  <2>1. 1 \in 1..Len(line[s].down) /\ Head(line[s].down) = line[s].down[1]
    BY SessionTypes, HeadTailProperties DEF HostRead
  <2> QED BY <1>1, <2>1 DEF PipesSound, PipeSound, Response
<1>3. SUFFICES ASSUME NEW o \in Ops PROVE CallSound(o)'
  BY DEF CallsSound
<1>4. applied' = applied /\ CallSound(o)
  BY DEF HostRead, CallsSound
<1>5. CASE o \notin Addressees(s, m)
  <2>1. op'[o] = op[o]
    BY <1>1, <1>5 DEF HostRead
  <2> QED BY <1>4, <2>1, CallKept
<1>6. CASE o \in Addressees(s, m)
  <2>1. op[o].ses = s /\ op[o].pc = "waiting" /\ op[o].id = m.id
    BY <1>6 DEF Addressees
  <2>2. o = m.for
    BY <1>2, <2>1 DEF Answers, Owned, CallsDistinct
  <2>3. op'[o] = [op[o] EXCEPT !.got = m]
    BY <1>1, <1>6 DEF HostRead
  <2>4. /\ op'[o].pc = "waiting" /\ op'[o].ses = s /\ op'[o].id = m.id
        /\ op'[o].got = m /\ op'[o].result = op[o].result
    <3>1. op[o] \in OpState
      OBVIOUS
    <3> QED BY <2>1, <2>3, <3>1 DEF OpState
  <2>5. /\ m.id # 0 /\ op[o].result = "none" /\ s \in 1..spawned
        /\ m.id <= host[s].next /\ applied[o] <= 1
    BY <1>4, <2>1 DEF CallSound
  <2>6. s \in 1..spawned' /\ m.id <= host'[s].next
    <3>1. host[s].next \in Nat /\ host'[s].next \in Nat
      BY DEF TypeOK, HostState
    <3> QED BY SMTT(30), <1>2, <2>5, <3>1 DEF Grows, TypeOK
  <2>7. Passed(op[o].ses, op[o].id)'
    <3>1. Passed(s, m.id)'
      BY <1>2, <2>1, <2>5 DEF PassedKept, Answers
    <3> QED BY <2>4, <3>1
  <2>8. m.ok <=> applied[o] = 1
    BY <1>2, <2>2 DEF Answers
  <2> QED BY <1>4, <2>4, <2>5, <2>6, <2>7, <2>8 DEF CallSound
<1> QED BY <1>5, <1>6

\* The call the handler applies was not applied, and has no answer yet.
LEMMA PApplyCalls ==
    ASSUME TypeOK, TypeOK', CallsSound, PipesSound, Grows,
           \A s \in Sessions : PassedKept(s),
           NEW s \in Sessions, PApply(s)
    PROVE  CallsSound'
<1> USE CallTypes, Numbers
<1>1. PICK m \in Request : m = plug[s].serving
  BY SessionTypes DEF PApply, Handling
<1>2. Owned(s, m) /\ applied[m.for] = 0 /\ m.for \in Ops /\ m.id \in Nat
  BY <1>1 DEF PApply, Handling, PipesSound, PipeSound, Request, NoMsg
<1>3. /\ applied'[m.for] = 1 /\ op' = op
      /\ \A p \in Ops : p # m.for => applied'[p] = applied[p]
  BY <1>1, <1>2 DEF PApply, TypeOK
<1>4. ASSUME NEW p \in Ops, p # m.for PROVE CallSound(p)'
  BY <1>3, <1>4, CallKept DEF CallsSound
<1>5. CallSound(m.for)'
  <2>1. PICK o \in Ops : o = m.for
    BY <1>2
  <2>2. CallSound(o) /\ op[o].ses = s /\ op[o].id = m.id /\ m.id # 0
    BY <1>2, <2>1 DEF CallsSound, Owned
  <2>3. ~Passed(s, m.id)
    BY <1>1, <1>2 DEF Passed, PApply, Handling
  <2>4. /\ op[o].got = NoMsg /\ op[o].result \notin {"ok", "rejected", "unavailable"}
        /\ op[o].pc \in {"waiting", "done"}
    BY <1>2, <2>1, <2>2, <2>3 DEF CallSound
  <2>5. op[o].ses \in 1..spawned' /\ op[o].id <= host'[op[o].ses].next
    <3>1. host[s].next \in Nat /\ host'[s].next \in Nat
      BY DEF TypeOK, HostState
    <3>2. s \in 1..spawned /\ m.id <= host[s].next
      BY <2>2 DEF CallSound
    <3> QED BY SMTT(30), <1>2, <2>2, <3>1, <3>2 DEF Grows, TypeOK
  <2> QED BY <1>3, <2>1, <2>2, <2>4, <2>5 DEF CallSound
<1> QED BY <1>4, <1>5 DEF CallsSound

\* Nothing else touches a call.
LEMMA OtherCalls ==
    ASSUME TypeOK, TypeOK', CallsSound, Grows, \A s \in Sessions : PassedKept(s),
           op' = op, applied' = applied
    PROVE  CallsSound'
BY CallKept DEF CallsSound


-----------------------------------------------------------------------------
(* Ids are not shared, CallsDistinct.                                       *)

LEMMA SameIds ==
    ASSUME CallsDistinct, \A p \in Ops : op'[p].id = op[p].id,
           \A p \in Ops : op[p].id # 0 => op'[p].ses = op[p].ses
    PROVE  CallsDistinct'
BY DEF CallsDistinct

LEMMA CallDistinct ==
    ASSUME TypeOK, CallsSound, CallsDistinct, NEW o \in Ops, Call(o) \/ CallAbandon(o)
    PROVE  CallsDistinct'
<1>1. CASE \/ Unavailable(o) \/ DialFails(o) \/ CallReturn(o)
           \/ CallPeerDone(o) \/ CallAbandon(o)
  <2>1. PICK r : op' = Finish(o, r)
    BY <1>1 DEF Unavailable, DialFails, CallReturn, CallPeerDone, CallAbandon
  <2> QED BY <2>1, FinishKeeps, SameIds
<1>2. CASE UseCached(o) \/ Respawn(o)
  <2>1. /\ op[o].id = 0 /\ op'[o].id = op[o].id
        /\ \A p \in Ops : p # o => op'[p] = op[p]
    BY <1>2 DEF UseCached, Respawn, CallsSound, CallSound, TypeOK, OpState
  <2> QED BY <2>1, SameIds
<1>3. CASE CallSend(o)
  <2>1. op[o].ses \in Sessions /\ op[o].id = 0
    BY <1>3, Numbers DEF CallSend, CallsSound, CallSound, Sessions
  <2>2. PICK s \in Sessions, n \in Nat : s = op[o].ses /\ n = host[s].next
    BY <2>1, SessionTypes
  <2>3. CASE ~Open(s)
    <3>1. op' = Finish(o, "transport")
      BY <1>3, <2>2, <2>3 DEF CallSend
    <3> QED BY <3>1, FinishKeeps, SameIds
  <2>4. CASE Open(s)
    <3>1. op' = [op EXCEPT ![o].pc = "waiting", ![o].id = n + 1]
      BY <1>3, <2>2, <2>4 DEF CallSend
    <3>2. /\ op'[o].id = n + 1 /\ op'[o].ses = s
          /\ \A p \in Ops : p # o => op'[p] = op[p]
      BY <2>2, <3>1 DEF TypeOK, OpState
    <3>3. ASSUME NEW p \in Ops, op[p].id # 0, op[p].ses = s PROVE op[p].id # n + 1
      <4>1. op[p].id <= n /\ op[p].id \in Nat
        BY <2>2, <3>3, CallTypes DEF CallsSound, CallSound
      <4> QED BY <4>1
    <3>4. n + 1 # 0
      OBVIOUS
    <3> QED BY <3>2, <3>3, <3>4 DEF CallsDistinct
  <2> QED BY <2>3, <2>4
<1> QED BY <1>1, <1>2, <1>3 DEF Call

LEMMA HostReadDistinct ==
    ASSUME TypeOK, CallsDistinct, NEW s \in Sessions, HostRead(s)
    PROVE  CallsDistinct'
<1>1. ASSUME NEW o \in Ops PROVE op'[o].ses = op[o].ses /\ op'[o].id = op[o].id
  <2>1. op[o] \in OpState
    BY CallTypes
  <2>2. op'[o] = op[o] \/ op'[o] = [op[o] EXCEPT !.got = Head(line[s].down)]
    BY DEF HostRead
  <2> QED BY <2>1, <2>2 DEF OpState
<1> QED BY <1>1, SameIds

-----------------------------------------------------------------------------
(* Sessions: Launched, NoLeakedChild, ServesSound and ShutdownIsClean.      *)

EndClean(s) ==
    plug[s].child = "exit1" =>
        ~plug[s].shutdown /\ (host[s].told => s \in StdinCancels)

SessionsSound ==
    Launched /\ NoLeakedChild /\ ServesSound /\ ShutdownIsClean

\* Another session's step, or none.
OtherSessions(s) ==
    \A t \in Sessions \ {s} :
        host'[t] = host[t] /\ line'[t] = line[t] /\ plug'[t] = plug[t]

\* A step that does not touch what Serve's end depends on.
SameServe(s) ==
    /\ plug'[s].child = plug[s].child /\ plug'[s].main = plug[s].main
    /\ plug'[s].closed = plug[s].closed /\ plug'[s].readDone = plug[s].readDone
    /\ plug'[s].shutdown = plug[s].shutdown /\ plug'[s].queue = plug[s].queue
    /\ host'[s].closed = host[s].closed /\ host'[s].told = host[s].told
    /\ line'[s].up = line[s].up

LEMMA SameServeKeeps ==
    ASSUME NEW s \in Sessions, ServeSound(s), EndClean(s), SameServe(s)
    PROVE  ServeSound(s)' /\ EndClean(s)'
BY DEF ServeSound, EndClean, SameServe, Running, Has

\* A step of a launched session: its child does not start, and its teardown
\* goes on while the child runs.
LEMMA SessionStep ==
    ASSUME TypeOK, SessionsSound, NEW s \in Sessions, s <= spawned,
           session' = session, spawned' = spawned, OtherSessions(s),
           plug'[s].child = "running" => plug[s].child = "running",
           \/ host'[s].teardown = host[s].teardown
           \/ /\ host[s].teardown # "none"
              /\ \/ host'[s].teardown \in {"stdin", "peer", "wait"}
                 \/ plug'[s].child # "running",
           ServeSound(s)' /\ EndClean(s)'
    PROVE  SessionsSound'
<1> USE Numbers
<1>1. ASSUME NEW t \in Sessions, t > spawned PROVE Fresh(t)'
  <2>1. t # s /\ Fresh(t)
    BY <1>1 DEF SessionsSound, Launched, Sessions
  <2> QED BY <2>1 DEF OtherSessions, Fresh
<1>2. session # 0 => host'[session].teardown = "none"
  BY DEF SessionsSound, Launched, OtherSessions
<1>3. Launched'
  BY <1>1, <1>2 DEF SessionsSound, Launched
<1>4. NoLeakedChild'
  <2>1. SUFFICES ASSUME NEW t \in Sessions, plug'[t].child = "running"
                 PROVE  t = session \/ host'[t].teardown \notin {"none", "over"}
    BY DEF NoLeakedChild, Running
  <2>2. plug[t].child = "running"
    BY <2>1 DEF OtherSessions
  <2>3. t = session \/ host[t].teardown \notin {"none", "over"}
    BY <2>2 DEF SessionsSound, NoLeakedChild, Running
  <2> QED BY <2>1, <2>3 DEF OtherSessions
<1>5. ASSUME NEW t \in Sessions PROVE ServeSound(t)' /\ EndClean(t)'
  <2>1. CASE t = s
    BY <2>1
  <2>2. CASE t # s
    <3>1. ServeSound(t) /\ EndClean(t)
      BY DEF SessionsSound, ServesSound, ShutdownIsClean, EndClean
    <3>2. SameServe(t)
      BY <2>2 DEF OtherSessions, SameServe
    <3> QED BY <3>1, <3>2, SameServeKeeps
  <2> QED BY <2>1, <2>2
<1>6. ServesSound' /\ ShutdownIsClean'
  BY <1>5 DEF ServesSound, ShutdownIsClean, EndClean
<1> QED BY <1>3, <1>4, <1>6 DEF SessionsSound

LEMMA Sound ==
    ASSUME SessionsSound, NEW s \in Sessions
    PROVE  ServeSound(s) /\ EndClean(s)
BY DEF SessionsSound, ServesSound, ShutdownIsClean, EndClean

\* A session that did anything was launched.
LEMMA WasLaunched ==
    ASSUME TypeOK, SessionsSound, NEW s \in Sessions,
           \/ Running(s) \/ host[s].teardown # "none" \/ line[s].down # <<>>
           \/ s = session
    PROVE  s <= spawned
BY Numbers DEF SessionsSound, Launched, Fresh, Running, Sessions

LEMMA HasTail ==
    ASSUME NEW q \in Seq(Message), q # <<>>, Has(q)
    PROVE  Head(q) = Shutdown \/ Has(Tail(q))
<1>1. PICK i \in 1..Len(q) : q[i] = Shutdown
  BY DEF Has
<1>2. CASE i = 1
  BY <1>1, <1>2, HeadElement
<1>3. CASE i # 1
  <2>1. /\ i - 1 \in 1..Len(Tail(q)) /\ Tail(q)[i - 1] = q[i]
    BY <1>3, HeadTailProperties
  <2> QED BY <1>1, <2>1 DEF Has
<1> QED BY <1>2, <1>3

LEMMA HasAppend ==
    ASSUME NEW q \in Seq(Message), NEW m \in Message
    PROVE  /\ Has(q) => Has(Append(q, m))
           /\ m = Shutdown => Has(Append(q, m))
<1>1. /\ Len(Append(q, m)) = Len(q) + 1 /\ Len(q) \in Nat
      /\ Append(q, m)[Len(q) + 1] = m
      /\ \A i \in 1..Len(q) : Append(q, m)[i] = q[i]
  BY AppendProperties
<1> QED BY <1>1 DEF Has


\* What a session's step must show.
LEMMA QuietStep ==
    ASSUME TypeOK, SessionsSound, NEW s \in Sessions, s <= spawned,
           session' = session, spawned' = spawned, OtherSessions(s), SameServe(s),
           \/ host'[s].teardown = host[s].teardown
           \/ /\ host[s].teardown # "none"
              /\ \/ host'[s].teardown \in {"stdin", "peer", "wait"}
                 \/ plug'[s].child # "running"
    PROVE  SessionsSound'
BY Sound, SameServeKeeps, SessionStep DEF SameServe

LEMMA GoneStep ==
    ASSUME TypeOK, SessionsSound, NEW s \in Sessions, Running(s), NEW how, how # "running",
           session' = session, spawned' = spawned, host' = host, line' = Unread(s),
           plug' = [plug EXCEPT ![s] = Gone(@, how)],
           how = "exit1" => ~plug[s].shutdown /\ (host[s].told => s \in StdinCancels)
    PROVE  SessionsSound'
<1>1. plug'[s].child = how /\ plug'[s].shutdown = plug[s].shutdown
  BY DEF TypeOK, PlugState, Gone
<1>2. OtherSessions(s)
  BY DEF OtherSessions, TypeOK, Unread
<1>3. ServeSound(s)' /\ EndClean(s)'
  BY <1>1 DEF ServeSound, EndClean, Running
<1> QED BY <1>1, <1>2, <1>3, WasLaunched, SessionStep

LEMMA HostSessions ==
    ASSUME TypeOK, SessionsSound, NEW s \in Sessions,
           HostLoop(s) \/ Teardown(s) \/ Crash(s) \/ Garble(s)
    PROVE  SessionsSound'
<1>1. CASE HostRead(s)
  <2>1. s <= spawned /\ session' = session /\ spawned' = spawned
    BY <1>1, WasLaunched DEF HostRead
  <2>2. OtherSessions(s)
    BY <1>1 DEF HostRead, OtherSessions, TypeOK
  <2>3. /\ host'[s].teardown = host[s].teardown /\ host'[s].closed = host[s].closed
        /\ host'[s].told = host[s].told
    BY <1>1 DEF HostRead, TypeOK, HostState
  <2>4. line'[s].up = line[s].up /\ plug' = plug
    BY <1>1 DEF HostRead, TypeOK, LineState
  <2> QED BY <2>1, <2>2, <2>3, <2>4, QuietStep DEF SameServe
<1>2. CASE HostEOF(s)
  <2>1. s <= spawned /\ session' = session /\ spawned' = spawned
    BY <1>2 DEF HostEOF
  <2>2. OtherSessions(s)
    BY <1>2 DEF HostEOF, OtherSessions, TypeOK
  <2>3. /\ host'[s].teardown = host[s].teardown /\ host'[s].closed = host[s].closed
        /\ host'[s].told = host[s].told
    BY <1>2 DEF HostEOF, TypeOK, HostState
  <2>4. line'[s].up = line[s].up /\ plug' = plug
    BY <1>2 DEF HostEOF, TypeOK, LineState
  <2> QED BY <2>1, <2>2, <2>3, <2>4, QuietStep DEF SameServe
<1>3. CASE CloseNotify(s)
  <2>1. s <= spawned /\ session' = session /\ spawned' = spawned /\ plug' = plug
    BY <1>3, WasLaunched DEF CloseNotify
  <2>2. OtherSessions(s)
    BY <1>3 DEF CloseNotify, OtherSessions, TypeOK
  <2>3. /\ host[s].teardown # "none" /\ host'[s].teardown = "stdin"
        /\ host'[s].closed = host[s].closed /\ (host'[s].told <=> Open(s))
    BY <1>3 DEF CloseNotify, TypeOK, HostState
  <2>4. ServeSound(s)' /\ EndClean(s)'
    <3>1. CASE Open(s)
      <4>1. line' = [line EXCEPT ![s].up = Append(@, Shutdown)]
        BY <1>3, <3>1 DEF CloseNotify
      <4>2. line'[s].up = Append(line[s].up, Shutdown)
        BY <4>1 DEF TypeOK, LineState
      <4>3. Has(line'[s].up)
        BY <4>2, SessionTypes, HasAppend DEF Message
      <4>4. plug[s].child = "running" /\ ~plug[s].closed /\ ~host[s].closed
        BY <3>1 DEF Open, Running
      <4> QED BY <2>1, <2>3, <4>3, <4>4, Sound DEF ServeSound, EndClean, Running
    <3>2. CASE ~Open(s)
      <4>1. line' = line
        BY <1>3, <3>2 DEF CloseNotify
      <4> QED BY <2>1, <2>3, <3>2, <4>1, Sound DEF ServeSound, EndClean, Running
    <3> QED BY <3>1, <3>2
  <2> QED BY <2>1, <2>2, <2>3, <2>4, SessionStep
<1>4. CASE CloseStdin(s)
  <2>1. s <= spawned /\ session' = session /\ spawned' = spawned /\ line' = line
    BY <1>4, WasLaunched DEF CloseStdin
  <2>2. OtherSessions(s)
    BY <1>4 DEF CloseStdin, OtherSessions, TypeOK
  <2>3. /\ host[s].teardown # "none" /\ host'[s].teardown = "peer"
        /\ host'[s].closed = host[s].closed /\ host'[s].told = host[s].told
    BY <1>4 DEF CloseStdin, TypeOK, HostState
  <2>4. /\ plug'[s].child = plug[s].child /\ plug'[s].main = plug[s].main
        /\ plug'[s].closed = plug[s].closed /\ plug'[s].readDone = plug[s].readDone
        /\ plug'[s].shutdown = plug[s].shutdown /\ plug'[s].queue = plug[s].queue
    BY <1>4 DEF CloseStdin, TypeOK, PlugState
  <2> QED BY <2>1, <2>2, <2>3, <2>4, QuietStep DEF SameServe
<1>5. CASE ClosePeer(s)
  <2>1. /\ s <= spawned /\ session' = session /\ spawned' = spawned
        /\ line' = line /\ plug' = plug
    BY <1>5, WasLaunched DEF ClosePeer
  <2>2. OtherSessions(s)
    BY <1>5 DEF ClosePeer, OtherSessions, TypeOK
  <2>3. /\ host[s].teardown # "none" /\ host'[s].teardown = "wait"
        /\ host'[s].closed /\ host'[s].told = host[s].told
    BY <1>5 DEF ClosePeer, TypeOK, HostState
  <2>4. ServeSound(s)' /\ EndClean(s)'
    BY <2>1, <2>3, Sound DEF ServeSound, EndClean, Running
  <2> QED BY <2>1, <2>2, <2>3, <2>4, SessionStep
<1>6. CASE CloseReap(s)
  <2>1. /\ s <= spawned /\ session' = session /\ spawned' = spawned
        /\ line' = line /\ plug' = plug /\ plug[s].child # "running"
    BY <1>6, WasLaunched DEF CloseReap, Running
  <2>2. OtherSessions(s)
    BY <1>6 DEF CloseReap, OtherSessions, TypeOK
  <2>3. /\ host[s].teardown # "none"
        /\ host'[s].closed = host[s].closed /\ host'[s].told = host[s].told
    BY <1>6 DEF CloseReap, TypeOK, HostState
  <2> QED BY <2>1, <2>2, <2>3, QuietStep DEF SameServe
<1>7. CASE CloseKill(s)
  <2>1. /\ Running(s) /\ session' = session /\ spawned' = spawned /\ host' = host
        /\ plug' = [plug EXCEPT ![s] = Gone(@, "killed")] /\ line' = Unread(s)
    BY <1>7 DEF CloseKill
  <2> QED BY <2>1, GoneStep
<1>8. CASE Crash(s)
  <2>1. /\ Running(s) /\ session' = session /\ spawned' = spawned /\ host' = host
        /\ plug' = [plug EXCEPT ![s] = Gone(@, "crashed")] /\ line' = Unread(s)
    BY <1>8 DEF Crash
  <2> QED BY <2>1, GoneStep
<1>9. CASE Garble(s)
  <2>1. /\ s <= spawned /\ session' = session /\ spawned' = spawned
        /\ line' = line /\ plug' = plug
    BY <1>9, WasLaunched DEF Garble, Open
  <2>2. OtherSessions(s)
    BY <1>9 DEF Garble, OtherSessions, TypeOK
  <2>3. /\ host'[s].teardown = host[s].teardown
        /\ host'[s].closed = host[s].closed /\ host'[s].told = host[s].told
    BY <1>9 DEF Garble, TypeOK, HostState
  <2> QED BY <2>1, <2>2, <2>3, QuietStep DEF SameServe
<1> QED BY <1>1, <1>2, <1>3, <1>4, <1>5, <1>6, <1>7, <1>8, <1>9 DEF HostLoop, Teardown

LEMMA PluginSessions ==
    ASSUME TypeOK, SessionsSound, NEW s \in Sessions, PluginLoop(s) \/ Handler(s)
    PROVE  SessionsSound'
<1>1. Running(s) /\ s <= spawned /\ session' = session /\ spawned' = spawned /\ host' = host
  <2>1. Running(s)
    BY DEF PluginLoop, Handler, PRead, PReadEnd, PServe, PRespond, ShutdownArm, CtxArm,
           DoneArm, ServeReturn, PApply, PReject, Handling
  <2> QED BY <2>1, WasLaunched
          DEF PluginLoop, Handler, PRead, PReadEnd, PServe, PRespond, ShutdownArm, CtxArm,
              DoneArm, ServeReturn, PApply, PReject
<1>2. plug[s].child = "running" /\ ServeSound(s) /\ EndClean(s)
  BY <1>1, Sound DEF Running
<1>3. CASE PRead(s)
  <2>1. OtherSessions(s)
    BY <1>3 DEF PRead, OtherSessions, TypeOK
  <2>2. /\ plug'[s].child = plug[s].child /\ plug'[s].main = plug[s].main
        /\ plug'[s].closed = plug[s].closed /\ plug'[s].readDone = plug[s].readDone
        /\ plug'[s].shutdown = plug[s].shutdown
        /\ plug'[s].queue = Append(plug[s].queue, Head(line[s].up))
    BY <1>3 DEF PRead, TypeOK, PlugState
  <2>3. line'[s].up = Tail(line[s].up) /\ line[s].up # <<>> /\ ~plug[s].readDone
    BY <1>3 DEF PRead, TypeOK, LineState
  <2>4. Has(plug[s].queue) \/ Has(line[s].up) => Has(plug'[s].queue) \/ Has(line'[s].up)
    <3>1. line[s].up \in Seq(Message) /\ plug[s].queue \in Seq(Message)
      BY SessionTypes
    <3>2. Head(line[s].up) \in Message
      BY <2>3, <3>1, HeadElement
    <3> QED BY <2>2, <2>3, <3>1, <3>2, HasTail, HasAppend
  <2>5. ServeSound(s)' /\ EndClean(s)'
    BY <1>1, <1>2, <2>2, <2>3, <2>4 DEF ServeSound, EndClean, Running
  <2> QED BY <1>1, <1>2, <2>1, <2>5, SessionStep
<1>4. CASE PServe(s)
  <2> DEFINE q == plug[s].queue
  <2>1. OtherSessions(s)
    BY <1>1, <1>4 DEF PServe, OtherSessions, TypeOK
  <2>2. /\ plug'[s].child = plug[s].child /\ plug'[s].main = plug[s].main
        /\ plug'[s].closed = plug[s].closed /\ plug'[s].readDone = plug[s].readDone
        /\ plug'[s].shutdown = (plug[s].shutdown \/ Head(q) = Shutdown)
        /\ plug'[s].queue = Tail(q)
    <3>1. CASE Head(q) = Shutdown
      <4>1. plug' = [plug EXCEPT ![s].queue = Tail(@), ![s].shutdown = TRUE]
        BY <1>4, <3>1 DEF PServe
      <4> QED BY <3>1, <4>1 DEF TypeOK, PlugState
    <3>2. CASE Head(q) # Shutdown
      <4>1. plug' = [plug EXCEPT ![s].queue = Tail(@), ![s].serving = Head(q)]
        BY <1>4, <3>2 DEF PServe
      <4> QED BY <3>2, <4>1 DEF TypeOK, PlugState
    <3> QED BY <3>1, <3>2
  <2>3. line' = line /\ q \in Seq(Message) /\ q # <<>>
    BY <1>4, SessionTypes DEF PServe
  <2>4. Has(q) => Head(q) = Shutdown \/ Has(plug'[s].queue)
    BY <2>2, <2>3, HasTail
  <2>5. ServeSound(s)' /\ EndClean(s)'
    BY <1>1, <1>2, <2>2, <2>3, <2>4 DEF ServeSound, EndClean, Running
  <2> QED BY <1>1, <1>2, <2>1, <2>5, SessionStep
<1>5. CASE PReadEnd(s)
  <2>1. OtherSessions(s)
    BY <1>1, <1>5 DEF PReadEnd, OtherSessions, TypeOK
  <2>2. /\ plug'[s].child = plug[s].child /\ plug'[s].main = plug[s].main
        /\ plug'[s].closed = plug[s].closed /\ plug'[s].readDone
        /\ plug'[s].shutdown = plug[s].shutdown /\ plug'[s].queue = plug[s].queue
    BY <1>5 DEF PReadEnd, TypeOK, PlugState
  <2>3. line' = line /\ (plug[s].closed \/ (line[s].up = <<>> /\ host[s].closed))
    BY <1>5 DEF PReadEnd
  <2>4. ServeSound(s)' /\ EndClean(s)'
    BY <1>1, <1>2, <2>2, <2>3 DEF ServeSound, EndClean, Running
  <2> QED BY <1>1, <1>2, <2>1, <2>4, SessionStep
<1>6. CASE PRespond(s)
  <2>1. OtherSessions(s)
    BY <1>1, <1>6 DEF PRespond, OtherSessions, TypeOK
  <2>2. /\ plug'[s].child = plug[s].child /\ plug'[s].main = plug[s].main
        /\ plug'[s].closed = plug[s].closed /\ plug'[s].readDone = plug[s].readDone
        /\ plug'[s].shutdown = plug[s].shutdown /\ plug'[s].queue = plug[s].queue
    BY <1>6 DEF PRespond, TypeOK, PlugState
  <2>3. line'[s].up = line[s].up
    BY <1>6 DEF PRespond, TypeOK, LineState
  <2> QED BY <1>1, <2>1, <2>2, <2>3, QuietStep DEF SameServe
<1>7. CASE ShutdownArm(s)
  <2>1. OtherSessions(s) /\ line' = line /\ plug[s].shutdown
    BY <1>1, <1>7 DEF ShutdownArm, OtherSessions, TypeOK
  <2>2. /\ plug'[s].child = plug[s].child /\ plug'[s].main = "drainShutdown"
        /\ plug'[s].closed /\ plug'[s].readDone = plug[s].readDone
        /\ plug'[s].shutdown = plug[s].shutdown /\ plug'[s].queue = plug[s].queue
    BY <1>7 DEF ShutdownArm, TypeOK, PlugState
  <2>3. ServeSound(s)' /\ EndClean(s)'
    BY <1>1, <1>2, <2>1, <2>2 DEF ServeSound, EndClean, Running
  <2> QED BY <1>1, <1>2, <2>1, <2>3, SessionStep
<1>8. CASE CtxArm(s)
  <2>1. OtherSessions(s) /\ line' = line /\ s \in StdinCancels
    BY <1>1, <1>8 DEF CtxArm, OtherSessions, TypeOK
  <2>2. /\ plug'[s].child = plug[s].child /\ plug'[s].main = "drainCtx"
        /\ plug'[s].closed /\ plug'[s].readDone = plug[s].readDone
        /\ plug'[s].shutdown = plug[s].shutdown /\ plug'[s].queue = plug[s].queue
    BY <1>8 DEF CtxArm, TypeOK, PlugState
  <2>3. ServeSound(s)' /\ EndClean(s)'
    BY <1>1, <1>2, <2>1, <2>2 DEF ServeSound, EndClean, Running
  <2> QED BY <1>1, <1>2, <2>1, <2>3, SessionStep
<1>9. CASE DoneArm(s)
  <2>1. OtherSessions(s) /\ line' = line /\ plug[s].main = "select"
    BY <1>1, <1>9 DEF DoneArm, OtherSessions, TypeOK
  <2>2. /\ plug'[s].child = plug[s].child /\ plug'[s].main = "drainEnd"
        /\ plug'[s].closed = plug[s].closed /\ plug'[s].readDone = plug[s].readDone
        /\ plug'[s].shutdown = plug[s].shutdown /\ plug'[s].queue = plug[s].queue
    BY <1>9 DEF DoneArm, TypeOK, PlugState
  <2>3. ServeSound(s)' /\ EndClean(s)'
    BY <1>1, <1>2, <2>1, <2>2 DEF ServeSound, EndClean, Running
  <2> QED BY <1>1, <1>2, <2>1, <2>3, SessionStep
<1>10. CASE ServeReturn(s)
  <2>1. /\ plug' = [plug EXCEPT ![s] = Gone(@, SessionEnd(s))] /\ line' = Unread(s)
        /\ plug[s].readDone /\ plug[s].queue = <<>> /\ plug[s].main # "select"
    BY <1>10 DEF ServeReturn, ServeDone
  <2>2. ~Has(<<>>)
    BY DEF Has
  <2>3. PICK how : how = SessionEnd(s)
    OBVIOUS
  <2>4. /\ how # "running"
        /\ how = "exit1" => ~plug[s].shutdown /\ (host[s].told => s \in StdinCancels)
    BY <1>2, <2>1, <2>2, <2>3 DEF SessionEnd, ServeSound, Running
  <2> QED BY <1>1, <2>1, <2>3, <2>4, GoneStep
<1>11. CASE PApply(s)
  <2>1. OtherSessions(s) /\ line' = line
    BY <1>1, <1>11 DEF PApply, OtherSessions, TypeOK
  <2>2. /\ plug'[s].child = plug[s].child /\ plug'[s].main = plug[s].main
        /\ plug'[s].closed = plug[s].closed /\ plug'[s].readDone = plug[s].readDone
        /\ plug'[s].shutdown = plug[s].shutdown /\ plug'[s].queue = plug[s].queue
    BY <1>11 DEF PApply, TypeOK, PlugState
  <2> QED BY <1>1, <2>1, <2>2, QuietStep DEF SameServe
<1>12. CASE PReject(s)
  <2>1. OtherSessions(s) /\ line' = line
    BY <1>1, <1>12 DEF PReject, OtherSessions, TypeOK
  <2>2. /\ plug'[s].child = plug[s].child /\ plug'[s].main = plug[s].main
        /\ plug'[s].closed = plug[s].closed /\ plug'[s].readDone = plug[s].readDone
        /\ plug'[s].shutdown = plug[s].shutdown /\ plug'[s].queue = plug[s].queue
    BY <1>12 DEF PReject, TypeOK, PlugState
  <2> QED BY <1>1, <2>1, <2>2, QuietStep DEF SameServe
<1> QED BY <1>3, <1>4, <1>5, <1>6, <1>7, <1>8, <1>9, <1>10, <1>11, <1>12
        DEF PluginLoop, Handler


LEMMA CloseBeginSessions ==
    ASSUME TypeOK, SessionsSound, CloseBegin
    PROVE  SessionsSound'
<1> USE Numbers
<1>1. PICK s \in Sessions : s = session
  BY DEF CloseBegin
<1>2. /\ session' = 0 /\ spawned' = spawned /\ line' = line /\ plug' = plug
      /\ host' = [host EXCEPT ![s].teardown = "notify"]
  BY <1>1 DEF CloseBegin
<1>3. /\ host'[s].teardown = "notify"
      /\ host'[s].closed = host[s].closed /\ host'[s].told = host[s].told
      /\ \A t \in Sessions \ {s} : host'[t] = host[t]
  BY <1>2 DEF TypeOK, HostState
<1>4. s <= spawned
  BY <1>1, WasLaunched
<1>5. Launched'
  <2>1. ASSUME NEW t \in Sessions, t > spawned PROVE Fresh(t)'
    <3>1. t # s /\ Fresh(t)
      BY <1>4, <2>1 DEF SessionsSound, Launched, Sessions
    <3> QED BY <1>2, <1>3, <3>1 DEF Fresh
  <2> QED BY <1>2, <2>1 DEF Launched
<1>6. NoLeakedChild'
  BY <1>1, <1>2, <1>3 DEF SessionsSound, NoLeakedChild, Running
<1>7. ASSUME NEW t \in Sessions PROVE ServeSound(t)' /\ EndClean(t)'
  <2>1. SameServe(t)
    BY <1>2, <1>3 DEF SameServe
  <2> QED BY <2>1, Sound, SameServeKeeps
<1> QED BY <1>5, <1>6, <1>7 DEF SessionsSound, ServesSound, ShutdownIsClean, EndClean

\* What reaping the cached session leaves of any session.
LEMMA ReapSessions ==
    ASSUME TypeOK, SessionsSound, NEW t \in Sessions,
           NEW up, up = (IF session = 0 THEN line ELSE Unread(session))[t].up
    PROVE  /\ t # session =>
                 Reaped[t] = plug[t] /\ Closed[t] = host[t] /\ up = line[t].up
           /\ t = session =>
                 /\ Reaped[t].child # "running" /\ Reaped[t].shutdown = plug[t].shutdown
                 /\ Reaped[t].child = "exit1" => plug[t].child = "exit1"
                 /\ Closed[t].told = host[t].told
<1> USE Numbers
<1>1. CASE session = 0
  BY <1>1 DEF Reaped, Closed, Sessions
<1>2. CASE session # 0 /\ t # session
  <2>1. Reaped[t] = plug[t]
    BY <1>2 DEF Reaped, TypeOK
  <2>2. Closed[t] = host[t]
    BY <1>2 DEF Closed, TypeOK
  <2>3. up = line[t].up
    BY <1>2 DEF Unread, TypeOK
  <2> QED BY <1>2, <2>1, <2>2, <2>3
<1>3. CASE session # 0 /\ t = session
  <2>1. CASE Running(session)
    <3>1. Reaped = [plug EXCEPT ![session] = Gone(@, "killed")]
      BY <1>3, <2>1 DEF Reaped
    <3>2. Reaped[t].child = "killed" /\ Reaped[t].shutdown = plug[t].shutdown
      BY <1>3, <3>1 DEF TypeOK, PlugState, Gone
    <3>3. Closed[t].told = host[t].told
      BY <1>3 DEF Closed, TypeOK, HostState
    <3> QED BY <1>3, <3>2, <3>3
  <2>2. CASE ~Running(session)
    <3>1. Reaped = plug /\ plug[t].child # "running"
      BY <1>3, <2>2 DEF Reaped, Running
    <3>3. Closed[t].told = host[t].told
      BY <1>3 DEF Closed, TypeOK, HostState
    <3> QED BY <1>3, <3>1, <3>3
  <2> QED BY <2>1, <2>2
<1> QED BY <1>1, <1>2, <1>3

LEMMA RespawnSessions ==
    ASSUME TypeOK, SessionsSound, NEW o \in Ops, Respawn(o)
    PROVE  SessionsSound'
<1> USE Numbers
<1>1. PICK n \in Sessions : n = spawned + 1
  BY DEF Respawn, Sessions
<1>2. /\ session' = n /\ spawned' = n /\ host' = Closed
      /\ line' = IF session = 0 THEN line ELSE Unread(session)
      /\ plug' = [Reaped EXCEPT ![n].child = "running"]
  BY <1>1 DEF Respawn
<1>3. n # session /\ session <= spawned /\ Fresh(n)
  BY <1>1 DEF SessionsSound, Launched
<1>4. /\ plug'[n].child = "running" /\ plug'[n].main = Reaped[n].main
      /\ plug'[n].closed = Reaped[n].closed /\ plug'[n].readDone = Reaped[n].readDone
      /\ plug'[n].shutdown = Reaped[n].shutdown
      /\ \A t \in Sessions \ {n} : plug'[t] = Reaped[t]
  BY <1>2, ReapTyped DEF PlugState
<1>5. /\ Reaped[n] = plug[n] /\ host'[n] = host[n]
  BY <1>2, <1>3, ReapSessions
<1>6. ASSUME NEW t \in Sessions, t # n, t # session
      PROVE  /\ plug'[t] = plug[t] /\ host'[t] = host[t] /\ line'[t].up = line[t].up
             /\ line'[t].down = line[t].down
  BY <1>2, <1>4, <1>6, ReapSessions, ReapShrinks
<1>7. Launched'
  <2>1. ASSUME NEW t \in Sessions, t > n PROVE Fresh(t)'
    <3>1. t # session /\ t # n /\ t > spawned
      BY <1>1, <1>3, <2>1 DEF Sessions
    <3>2. Fresh(t)
      BY <3>1 DEF SessionsSound, Launched
    <3> QED BY <1>6, <3>1, <3>2 DEF Fresh
  <2>2. host'[n].teardown = "none" /\ n <= n
    BY <1>3, <1>5 DEF Fresh, Sessions
  <2> QED BY <1>2, <2>1, <2>2 DEF Launched
<1>8. NoLeakedChild'
  <2>1. SUFFICES ASSUME NEW t \in Sessions, plug'[t].child = "running", t # n
                 PROVE  host'[t].teardown \notin {"none", "over"}
    BY <1>2 DEF NoLeakedChild, Running
  <2>2. t # session
    BY <1>4, <2>1, ReapSessions
  <2> QED BY <1>6, <2>1, <2>2 DEF SessionsSound, NoLeakedChild, Running
<1>9. ASSUME NEW t \in Sessions PROVE ServeSound(t)' /\ EndClean(t)'
  <2>1. CASE t = n
    BY <1>3, <1>4, <1>5, <2>1 DEF ServeSound, EndClean, Running, Fresh
  <2>2. CASE t = session
    <3>1. /\ plug'[t].child # "running" /\ plug'[t].shutdown = plug[t].shutdown
          /\ plug'[t].child = "exit1" => plug[t].child = "exit1"
          /\ host'[t].told = host[t].told
      BY <1>2, <1>3, <1>4, <2>2, ReapSessions
    <3> QED BY <3>1, Sound DEF ServeSound, EndClean, Running
  <2>3. CASE t # n /\ t # session
    <3>1. SameServe(t)
      BY <1>6, <2>3 DEF SameServe
    <3> QED BY <3>1, Sound, SameServeKeeps
  <2> QED BY <2>1, <2>2, <2>3
<1> QED BY <1>7, <1>8, <1>9 DEF SessionsSound, ServesSound, ShutdownIsClean, EndClean

LEMMA DialFailsSessions ==
    ASSUME TypeOK, SessionsSound, NEW o \in Ops, DialFails(o)
    PROVE  SessionsSound'
<1> USE Numbers
<1>1. /\ session' = 0 /\ spawned' = spawned /\ host' = Closed /\ plug' = Reaped
      /\ line' = IF session = 0 THEN line ELSE Unread(session)
  BY DEF DialFails
<1>2. ASSUME NEW t \in Sessions, t # session
      PROVE  /\ plug'[t] = plug[t] /\ host'[t] = host[t] /\ line'[t].up = line[t].up
             /\ line'[t].down = line[t].down
  BY <1>1, <1>2, ReapSessions, ReapShrinks
<1>3. Launched'
  <2>1. ASSUME NEW t \in Sessions, t > spawned PROVE Fresh(t)'
    <3>1. t # session /\ Fresh(t)
      BY <2>1 DEF SessionsSound, Launched, Sessions
    <3> QED BY <1>2, <3>1 DEF Fresh
  <2> QED BY <1>1, <2>1 DEF Launched
<1>4. NoLeakedChild'
  <2>1. SUFFICES ASSUME NEW t \in Sessions, plug'[t].child = "running"
                 PROVE  host'[t].teardown \notin {"none", "over"}
    BY DEF NoLeakedChild, Running
  <2>2. t # session
    BY <1>1, <2>1, ReapSessions
  <2> QED BY <1>2, <2>1, <2>2 DEF SessionsSound, NoLeakedChild, Running
<1>5. ASSUME NEW t \in Sessions PROVE ServeSound(t)' /\ EndClean(t)'
  <2>1. CASE t = session
    <3>1. /\ plug'[t].child # "running" /\ plug'[t].shutdown = plug[t].shutdown
          /\ plug'[t].child = "exit1" => plug[t].child = "exit1"
          /\ host'[t].told = host[t].told
      BY <1>1, <2>1, ReapSessions
    <3> QED BY <3>1, Sound DEF ServeSound, EndClean, Running
  <2>2. CASE t # session
    <3>1. SameServe(t)
      BY <1>2, <2>2 DEF SameServe
    <3> QED BY <3>1, Sound, SameServeKeeps
  <2> QED BY <2>1, <2>2
<1> QED BY <1>3, <1>4, <1>5 DEF SessionsSound, ServesSound, ShutdownIsClean, EndClean

LEMMA CallSessions ==
    ASSUME TypeOK, CallsSound, SessionsSound, NEW o \in Ops, Call(o) \/ CallAbandon(o)
    PROVE  SessionsSound'
<1> USE Numbers
<1>1. CASE Unavailable(o) \/ UseCached(o)
  <2>1. UNCHANGED <<session, spawned, host, line, plug>>
    BY <1>1 DEF Unavailable, UseCached
  <2>2. Launched' /\ NoLeakedChild'
    BY <2>1 DEF SessionsSound, Launched, Fresh, NoLeakedChild, Running
  <2>3. ASSUME NEW t \in Sessions PROVE ServeSound(t)' /\ EndClean(t)'
    BY <2>1, Sound, SameServeKeeps DEF SameServe
  <2> QED BY <2>2, <2>3 DEF SessionsSound, ServesSound, ShutdownIsClean, EndClean
<1>2. CASE Respawn(o)
  BY <1>2, RespawnSessions
<1>3. CASE DialFails(o)
  BY <1>3, DialFailsSessions
<1>4. CASE CallSend(o)
  <2>1. op[o].ses \in 1..spawned
    <3>1. op[o].pc = "ready"
      BY <1>4 DEF CallSend
    <3> QED BY <3>1 DEF CallsSound, CallSound
  <2>2. PICK s \in Sessions, n \in Nat : s = op[o].ses /\ s <= spawned /\ n = host[s].next
    <3>1. op[o].ses \in Sessions /\ op[o].ses <= spawned
      BY <2>1 DEF Sessions
    <3>2. host[op[o].ses].next \in Nat
      BY <3>1, SessionTypes
    <3> QED BY <3>1, <3>2
  <2>3. session' = session /\ spawned' = spawned /\ plug' = plug
    BY <1>4 DEF CallSend
  <2>4. \/ host' = [host EXCEPT ![s].next = n + 1]
        \/ host' = [host EXCEPT ![s].next = n + 1, ![s].pending = @ \cup {n + 1}]
    BY <1>4, <2>2 DEF CallSend
  <2>5. /\ host'[s].teardown = host[s].teardown
        /\ host'[s].closed = host[s].closed /\ host'[s].told = host[s].told
        /\ \A t \in Sessions \ {s} : host'[t] = host[t]
    BY <2>4 DEF TypeOK, HostState
  <2>6. CASE ~Open(s)
    <3>1. line' = line
      BY <1>4, <2>2, <2>6 DEF CallSend
    <3> QED BY <2>2, <2>3, <2>5, <3>1, QuietStep DEF SameServe, OtherSessions
  <2>7. CASE Open(s)
    <3> DEFINE r == [kind |-> "request", id |-> n + 1, for |-> o]
    <3>1. line' = [line EXCEPT ![s].up = Append(@, r)]
      BY <1>4, <2>2, <2>7 DEF CallSend
    <3>2. r \in Message
      BY <2>2 DEF Message, Request
    <3> HIDE DEF r
    <3>3. /\ line'[s].up = Append(line[s].up, r)
          /\ \A t \in Sessions \ {s} : line'[t] = line[t]
      BY <3>1 DEF TypeOK, LineState
    <3>4. Has(line[s].up) => Has(line'[s].up)
      BY <3>2, <3>3, SessionTypes, HasAppend
    <3>5. plug[s].child = "running" /\ ~plug[s].closed /\ ~host[s].closed
      BY <2>7 DEF Open, Running
    <3>6. ServeSound(s)' /\ EndClean(s)'
      BY <2>3, <2>5, <3>4, <3>5, Sound DEF ServeSound, EndClean, Running
    <3> QED BY <2>2, <2>3, <2>5, <3>3, <3>6, SessionStep DEF OtherSessions
  <2> QED BY <2>6, <2>7
<1>5. CASE CallReturn(o) \/ CallPeerDone(o) \/ CallAbandon(o)
  <2>1. /\ op[o].pc = "waiting" /\ host' = Unregister(o)
        /\ UNCHANGED <<session, spawned, line, plug>>
    BY <1>5 DEF CallReturn, CallPeerDone, CallAbandon
  <2>2. PICK s \in Sessions : s = op[o].ses /\ s <= spawned
    BY <2>1 DEF CallsSound, CallSound, Sessions
  <2>3. /\ host'[s].teardown = host[s].teardown
        /\ host'[s].closed = host[s].closed /\ host'[s].told = host[s].told
        /\ \A t \in Sessions \ {s} : host'[t] = host[t]
    BY <2>1, <2>2 DEF Unregister, TypeOK, HostState
  <2> QED BY <2>1, <2>2, <2>3, QuietStep DEF SameServe, OtherSessions
<1> QED BY <1>1, <1>2, <1>3, <1>4, <1>5 DEF Call


-----------------------------------------------------------------------------
(* The invariant.                                                           *)

LEMMA InitInvariant == ASSUME Init PROVE IInv
<1>1. TypeOK
  BY InitTyped
<1>2. ASSUME NEW s \in Sessions
      PROVE  /\ line[s].up = <<>> /\ line[s].down = <<>> /\ plug[s].queue = <<>>
             /\ plug[s].serving = NoMsg /\ plug[s].outcome = "none"
             /\ plug[s].child = "none" /\ plug[s].main = "select"
             /\ ~plug[s].readDone /\ ~plug[s].closed /\ ~plug[s].shutdown
             /\ host[s].teardown = "none" /\ ~host[s].told
  BY DEF Init
<1>3. ASSUME NEW o \in Ops
      PROVE  /\ op[o].pc = "idle" /\ op[o].id = 0 /\ op[o].got = NoMsg
             /\ op[o].result = "none" /\ applied[o] = 0
  BY DEF Init
<1>4. PipesSound
  <2>1. 1..Len(<<>>) = {}
    OBVIOUS
  <2> QED BY <1>2, <2>1, EmptyOrdered DEF PipesSound, PipeSound
<1>5. CallsSound /\ CallsDistinct
  BY <1>3 DEF CallsSound, CallSound, CallsDistinct
<1>6. Launched
  BY <1>2 DEF Init, Launched, Fresh
<1>7. NoLeakedChild /\ ServesSound /\ ShutdownIsClean
  BY <1>2 DEF NoLeakedChild, ServesSound, ServeSound, ShutdownIsClean, Running
<1> QED BY <1>1, <1>4, <1>5, <1>6, <1>7 DEF IInv

\* Type correctness of a step.
LEMMA NextTyped ==
    ASSUME TypeOK, PipesSound, CallsSound, Next
    PROVE  TypeOK'
<1>1. CASE CloseBegin
  BY <1>1, CloseBeginTyped
<1>2. ASSUME NEW o \in Ops, Call(o) \/ CallAbandon(o) PROVE TypeOK'
  <2>1. CASE CallSend(o)
    <3>1. op[o].pc = "ready"
      BY <2>1 DEF CallSend
    <3>2. op[o].ses \in Sessions
      BY <3>1, Numbers DEF CallsSound, CallSound, Sessions
    <3> QED BY <2>1, <3>2, CallSendTyped
  <2> QED BY <1>2, <2>1, RespawnTyped, DialFailsTyped, CallTyped DEF Call
<1>3. ASSUME NEW s \in Sessions, HostLoop(s) \/ Teardown(s) \/ Crash(s) \/ Garble(s)
      PROVE  TypeOK'
  BY <1>3, HostReadTyped, HostTyped, CloseNotifyTyped, GoneStepTyped DEF HostLoop, Teardown
<1>4. ASSUME NEW s \in Sessions, PluginLoop(s) \/ Handler(s) PROVE TypeOK'
  <2>1. CASE PRespond(s)
    <3>1. plug[s].serving # NoMsg
      BY <2>1 DEF PRespond, PipesSound, PipeSound
    <3> QED BY <2>1, <3>1, PRespondTyped
  <2> QED BY <1>4, <2>1, PReadTyped, PServeTyped, PlugTyped, PApplyTyped, GoneStepTyped
          DEF PluginLoop, Handler
<1> QED BY <1>1, <1>2, <1>3, <1>4 DEF Next

LEMMA NextInvariant == ASSUME IInv, [Next]_vars PROVE IInv'
<1> USE DEF IInv
<1>1. CASE UNCHANGED vars
  BY SMTT(30), <1>1 DEF vars, TypeOK, PipesSound,
         PipeSound, Waits, Owned, Answers, Passed, CallsSound,
              CallSound, CallsDistinct, Launched, Fresh, NoLeakedChild, Running, ServesSound,
              ServeSound, ShutdownIsClean
<1>2. CASE Next
  <2>1. TypeOK'
    BY <1>2, NextTyped
  <2>2. SessionsSound
    BY DEF SessionsSound
  <2>3. session <= spawned
    BY DEF Launched
  <2>4. CASE CloseBegin
    <3>1. PipesSound' /\ \A t \in Sessions : PassedKept(t)
      BY <2>4, CloseBeginPipes
    <3>2. op' = op /\ applied' = applied
      BY <2>4 DEF CloseBegin
    <3>3. CallsSound'
      BY <2>1, <2>4, <3>1, <3>2, CloseBeginGrows, OtherCalls
    <3>4. CallsDistinct'
      BY <3>2, SameIds
    <3>5. SessionsSound'
      BY <2>2, <2>4, CloseBeginSessions
    <3> QED BY <2>1, <3>1, <3>3, <3>4, <3>5 DEF SessionsSound
  <2>5. ASSUME NEW o \in Ops, Call(o) \/ CallAbandon(o) PROVE IInv'
    <3>1. PipesSound' /\ \A t \in Sessions : PassedKept(t)
      BY <2>5, CallPipes
    <3>2. CallsSound'
      BY <2>1, <2>3, <2>5, <3>1, CallGrows, CallCalls
    <3>3. CallsDistinct'
      BY <2>5, CallDistinct
    <3>4. SessionsSound'
      BY <2>2, <2>5, CallSessions
    <3> QED BY <2>1, <3>1, <3>2, <3>3, <3>4 DEF SessionsSound
  <2>6. ASSUME NEW s \in Sessions, HostLoop(s) \/ Teardown(s) \/ Crash(s) \/ Garble(s)
        PROVE  IInv'
    <3>1. PipesSound' /\ \A t \in Sessions : PassedKept(t)
      BY <2>6, HostPipes
    <3>2. Grows
      BY <2>6, HostGrows
    <3>3. CallsSound' /\ CallsDistinct'
      <4>1. CASE HostRead(s)
        BY <2>1, <3>1, <3>2, <4>1, HostReadCalls, HostReadDistinct
      <4>2. CASE ~HostRead(s)
        <5>1. op' = op /\ applied' = applied
          BY <2>6, <4>2 DEF HostLoop, HostEOF, Teardown, CloseNotify, CloseStdin, ClosePeer,
                            CloseReap, CloseKill, Crash, Garble
        <5> QED BY <2>1, <3>1, <3>2, <5>1, OtherCalls, SameIds
      <4> QED BY <4>1, <4>2
    <3>4. SessionsSound'
      BY <2>2, <2>6, HostSessions
    <3> QED BY <2>1, <3>1, <3>3, <3>4 DEF SessionsSound
  <2>7. ASSUME NEW s \in Sessions, PluginLoop(s) \/ Handler(s) PROVE IInv'
    <3>1. PipesSound' /\ \A t \in Sessions : PassedKept(t)
      BY <2>7, PluginPipes
    <3>2. Grows
      BY <2>7, PluginGrows
    <3>3. op' = op
      BY <2>7 DEF PluginLoop, Handler, PRead, PReadEnd, PServe, PRespond, ShutdownArm,
                  CtxArm, DoneArm, ServeReturn, PApply, PReject
    <3>4. CallsSound'
      <4>1. CASE PApply(s)
        BY <2>1, <3>1, <3>2, <4>1, PApplyCalls
      <4>2. CASE ~PApply(s)
        <5>1. applied' = applied
          BY <2>7, <4>2 DEF PluginLoop, Handler, PRead, PReadEnd, PServe, PRespond,
                            ShutdownArm, CtxArm, DoneArm, ServeReturn, PReject
        <5> QED BY <2>1, <3>1, <3>2, <3>3, <5>1, OtherCalls
      <4> QED BY <4>1, <4>2
    <3>5. CallsDistinct'
      BY <3>3, SameIds
    <3>6. SessionsSound'
      BY <2>2, <2>7, PluginSessions
    <3> QED BY <2>1, <3>1, <3>4, <3>5, <3>6 DEF SessionsSound
  <2> QED BY <1>2, <2>4, <2>5, <2>6, <2>7 DEF Next
<1> QED BY <1>1, <1>2

\* The invariant holds of every reachable state.
THEOREM InvariantHolds == Spec => []IInv
<1>1. Init => IInv
  BY InitInvariant
<1>2. IInv /\ [Next]_vars => IInv'
  BY NextInvariant
<1> QED BY <1>1, <1>2, PTL DEF Spec

\* The state of both ends has its type; the queue's bound is part of it.
THEOREM TypeCorrect == Spec => []TypeOK
<1>1. IInv => TypeOK
  BY DEF IInv
<1> QED BY <1>1, InvariantHolds, PTL

\* No operation is applied twice (adapter.go, liveSession): a call writes one
\* request, and that request reaches one handler once, whatever crashes.
THEOREM AppliedAtMostOnce == Spec => []AtMostOnce
<1>1. IInv => AtMostOnce
  BY DEF IInv, CallsSound, CallSound, AtMostOnce
<1> QED BY <1>1, InvariantHolds, PTL

\* What a call returned is what happened to it (peer.go): an answer is
\* delivered to the call it is about, after which nothing of the call is left
\* that could still be applied.
THEOREM OutcomesAreTrue == Spec => []OutcomeIsTrue
<1>1. IInv => OutcomeIsTrue
  BY DEF IInv, CallsSound, CallSound, OutcomeIsTrue
<1> QED BY <1>1, InvariantHolds, PTL

\* A child that runs is the cached session's or is being torn down.
THEOREM NoChildLeaks == Spec => []NoLeakedChild
<1>1. IInv => NoLeakedChild
  BY DEF IInv
<1> QED BY <1>1, InvariantHolds, PTL

\* Serve returns nil when it handled a shutdown (server.go,
\* cancelledSessionEnd), and only a plugin that cancels on stdin misses one.
THEOREM ShutdownsAreClean == Spec => []ShutdownIsClean
<1>1. IInv => ShutdownIsClean
  BY DEF IInv
<1> QED BY <1>1, InvariantHolds, PTL


-----------------------------------------------------------------------------
(* The refinement of MutationService.                                       *)

Calls == [o \in Ops |-> CallStatus(o)]
Done  == {o \in Ops : applied[o] > 0}

ServiceStep == Service!Next \/ (Calls' = Calls /\ Done' = Done)

\* The status, from the fields; a call has no result before it is done.
LEMMA StatusIs ==
    ASSUME NEW o \in Ops, CallSound(o)
    PROVE  /\ op[o].pc \in {"idle", "ready"} => CallStatus(o) = "new"
           /\ op[o].pc = "waiting" => CallStatus(o) = "open"
BY DEF CallStatus, CallSound

LEMMA StatusBecomes ==
    ASSUME NEW o \in Ops, CallSound(o)'
    PROVE  /\ op'[o].pc \in {"idle", "ready"} => CallStatus(o)' = "new"
           /\ op'[o].pc = "waiting" => CallStatus(o)' = "open"
           /\ (op'[o].pc = "done" /\ op'[o].result \in {"transport", "abandoned"}) =>
                 CallStatus(o)' = "lost"
           /\ (op'[o].pc = "done" /\ op'[o].result = "unavailable") =>
                 CallStatus(o)' = "refused"
           /\ (op'[o].pc = "done" /\ op'[o].result \in {"ok", "rejected"}) =>
                 CallStatus(o)' = op'[o].result
BY DEF CallStatus, CallSound

\* A call that changes its status.
LEMMA StatusStep ==
    ASSUME NEW o \in Ops, applied' = applied, \A p \in Ops : p # o => op'[p] = op[p]
    PROVE  Calls' = [Calls EXCEPT ![o] = CallStatus(o)'] /\ Done' = Done
<1>1. ASSUME NEW p \in Ops, p # o PROVE CallStatus(p)' = CallStatus(p)
  BY <1>1 DEF CallStatus
<1>2. Done' = Done
  BY DEF Done
<1> QED BY <1>1, <1>2 DEF Calls

LEMMA BecomesStep ==
    ASSUME NEW o \in Ops, applied' = applied, \A p \in Ops : p # o => op'[p] = op[p],
           \/ CallStatus(o) = "new" /\ CallStatus(o)' \in {"open", "refused", "lost"}
           \/ CallStatus(o) = "open" /\ CallStatus(o)' = "lost"
           \/ /\ CallStatus(o) = "open"
              /\ CallStatus(o)' = IF applied[o] > 0 THEN "ok" ELSE "rejected"
    PROVE  Service!Next
<1>1. /\ [p \in Ops |-> CallStatus(p)]' =
            [[p \in Ops |-> CallStatus(p)] EXCEPT ![o] = CallStatus(o)']
      /\ {p \in Ops : applied[p] > 0}' = {p \in Ops : applied[p] > 0}
  BY StatusStep DEF Calls, Done
<1>2. [p \in Ops |-> CallStatus(p)][o] = CallStatus(o)
  OBVIOUS
<1>3. o \in {p \in Ops : applied[p] > 0} <=> applied[o] > 0
  OBVIOUS
<1> QED BY <1>1, <1>2, <1>3
        DEF Service!Next, Service!Issue, Service!Refuse, Service!Lose, Service!Answer,
            Service!Becomes

LEMMA CallRefines ==
    ASSUME IInv, IInv', NEW o \in Ops, Call(o) \/ CallAbandon(o)
    PROVE  ServiceStep
<1> USE DEF IInv, ServiceStep
<1>1. CallSound(o) /\ CallSound(o)'
  BY DEF CallsSound
<1>2. CASE Unavailable(o) \/ DialFails(o)
  <2>1. op[o].pc = "idle" /\ op' = Finish(o, "unavailable") /\ applied' = applied
    BY <1>2 DEF Unavailable, DialFails
  <2>2. CallStatus(o) = "new" /\ CallStatus(o)' = "refused"
    BY <1>1, <2>1, FinishKeeps, StatusIs, StatusBecomes
  <2> QED BY <2>1, <2>2, FinishKeeps, BecomesStep
<1>3. CASE UseCached(o) \/ Respawn(o)
  <2>1. op[o].pc = "idle" /\ applied' = applied /\ \A p \in Ops : p # o => op'[p] = op[p]
    BY <1>3 DEF UseCached, Respawn, TypeOK
  <2>2. op'[o].pc = "ready"
    BY <1>3 DEF UseCached, Respawn, TypeOK, OpState
  <2>3. CallStatus(o) = "new" /\ CallStatus(o)' = "new"
    BY <1>1, <2>1, <2>2, StatusIs, StatusBecomes
  <2>4. Calls' = [Calls EXCEPT ![o] = "new"] /\ Done' = Done
    BY <2>1, <2>3, StatusStep
  <2> QED BY <2>3, <2>4 DEF Calls
<1>4. CASE CallSend(o)
  <2>1. op[o].pc = "ready" /\ applied' = applied
    BY <1>4 DEF CallSend
  <2>2. CallStatus(o) = "new"
    BY <1>1, <2>1, StatusIs
  <2>3. PICK s : s = op[o].ses
    OBVIOUS
  <2>4. CASE ~Open(s)
    <3>1. op' = Finish(o, "transport")
      BY <1>4, <2>3, <2>4 DEF CallSend
    <3>2. CallStatus(o)' = "lost"
      BY <1>1, <3>1, FinishKeeps, StatusBecomes
    <3> QED BY <2>1, <2>2, <3>1, <3>2, FinishKeeps, BecomesStep
  <2>5. CASE Open(s)
    <3>1. op' = [op EXCEPT ![o].pc = "waiting", ![o].id = host[s].next + 1]
      BY <1>4, <2>3, <2>5 DEF CallSend
    <3>2. op'[o].pc = "waiting" /\ \A p \in Ops : p # o => op'[p] = op[p]
      BY <3>1 DEF TypeOK, OpState
    <3>3. CallStatus(o)' = "open"
      BY <1>1, <3>2, StatusBecomes
    <3> QED BY <2>1, <2>2, <3>2, <3>3, BecomesStep
  <2> QED BY <2>4, <2>5
<1>5. CASE CallReturn(o)
  <2>1. /\ op[o].pc = "waiting" /\ op[o].got # NoMsg /\ applied' = applied
        /\ op' = Finish(o, IF op[o].got.ok THEN "ok" ELSE "rejected")
    BY <1>5 DEF CallReturn
  <2>2. CallStatus(o) = "open"
    BY <1>1, <2>1, StatusIs
  <2>3. PICK r : r = IF op[o].got.ok THEN "ok" ELSE "rejected"
    OBVIOUS
  <2>4. op'[o].pc = "done" /\ op'[o].result = r
    BY <2>1, <2>3, FinishKeeps
  <2>5. r = IF applied[o] > 0 THEN "ok" ELSE "rejected"
    BY <1>1, <2>1, <2>3, CallTypes DEF CallSound
  <2>6. CallStatus(o)' = r
    BY <1>1, <2>4, <2>5, StatusBecomes
  <2> QED BY <2>1, <2>2, <2>3, <2>5, <2>6, FinishKeeps, BecomesStep
<1>6. CASE CallPeerDone(o) \/ CallAbandon(o)
  <2>1. PICK r \in {"transport", "abandoned"} : op' = Finish(o, r)
    BY <1>6 DEF CallPeerDone, CallAbandon
  <2>2. op[o].pc = "waiting" /\ applied' = applied
    BY <1>6 DEF CallPeerDone, CallAbandon
  <2>3. CallStatus(o) = "open" /\ CallStatus(o)' = "lost"
    BY <1>1, <2>1, <2>2, FinishKeeps, StatusIs, StatusBecomes
  <2> QED BY <2>1, <2>2, <2>3, FinishKeeps, BecomesStep
<1> QED BY <1>2, <1>3, <1>4, <1>5, <1>6 DEF Call

\* The effect of a call that is open or lost.
LEMMA PApplyRefines ==
    ASSUME IInv, NEW s \in Sessions, PApply(s)
    PROVE  ServiceStep
<1> USE DEF IInv
<1>1. PICK m \in Request : m = plug[s].serving
  BY SessionTypes DEF PApply, Handling
<1>2. PICK o \in Ops : o = m.for
  BY DEF Request
<1>3. Owned(s, m) /\ applied[o] = 0 /\ m.id \in Nat
  BY <1>1, <1>2 DEF PApply, Handling, PipesSound, PipeSound, Request, NoMsg
<1>4. op' = op /\ applied' = [applied EXCEPT ![o] = @ + 1]
  BY <1>1, <1>2 DEF PApply
<1>5. ~Passed(s, m.id)
  BY <1>1, <1>3 DEF Passed, PApply, Handling
<1>6. CallStatus(o) \in {"open", "lost"}
  <2>1. CallSound(o) /\ op[o].ses = s /\ op[o].id = m.id /\ m.id # 0
    BY <1>2, <1>3 DEF CallsSound, Owned
  <2>2. /\ op[o].pc \in {"waiting", "done"}
        /\ op[o].result \notin {"ok", "rejected", "unavailable"}
        /\ op[o].pc = "done" => op[o].result # "none"
    BY <1>3, <1>5, <2>1, CallTypes DEF CallSound
  <2>3. op[o].result \in {"none", "ok", "rejected", "transport", "abandoned", "unavailable"}
    BY DEF TypeOK, OpState
  <2> QED BY <2>2, <2>3 DEF CallStatus
<1>7. /\ [p \in Ops |-> CallStatus(p)]' = [p \in Ops |-> CallStatus(p)]
      /\ {p \in Ops : applied[p] > 0}' = {p \in Ops : applied[p] > 0} \cup {o}
      /\ o \notin {p \in Ops : applied[p] > 0}
  <2>1. \A p \in Ops : CallStatus(p)' = CallStatus(p)
    BY <1>4 DEF CallStatus
  <2>2. applied'[o] > 0 /\ ~(applied[o] > 0) /\ \A p \in Ops : p # o => applied'[p] = applied[p]
    BY <1>3, <1>4 DEF TypeOK
  <2> QED BY <2>1, <2>2
<1>8. [p \in Ops |-> CallStatus(p)][o] = CallStatus(o)
  OBVIOUS
<1> QED BY <1>6, <1>7, <1>8 DEF ServiceStep, Service!Next, Service!Effect

LEMMA HostReadRefines ==
    ASSUME IInv, NEW s \in Sessions, HostRead(s)
    PROVE  ServiceStep
<1>1. ASSUME NEW o \in Ops PROVE CallStatus(o)' = CallStatus(o)
  <2>1. op[o] \in OpState
    BY CallTypes DEF IInv
  <2>2. op'[o] = op[o] \/ op'[o] = [op[o] EXCEPT !.got = Head(line[s].down)]
    BY DEF HostRead
  <2>3. op'[o].pc = op[o].pc /\ op'[o].result = op[o].result
    BY <2>1, <2>2 DEF OpState
  <2> QED BY <2>3 DEF CallStatus
<1> QED BY <1>1 DEF ServiceStep, Calls, Done, HostRead

LEMMA OtherRefines ==
    ASSUME op' = op, applied' = applied
    PROVE  ServiceStep
BY DEF ServiceStep, Calls, Done, CallStatus

LEMMA NextRefines == ASSUME IInv, IInv', [Next]_vars PROVE ServiceStep
<1>1. CASE UNCHANGED vars
  BY <1>1, OtherRefines DEF vars
<1>2. CASE CloseBegin
  BY <1>2, OtherRefines DEF CloseBegin
<1>3. ASSUME NEW o \in Ops, Call(o) \/ CallAbandon(o) PROVE ServiceStep
  BY <1>3, CallRefines
<1>4. ASSUME NEW s \in Sessions, HostLoop(s) \/ Teardown(s) \/ Crash(s) \/ Garble(s)
      PROVE  ServiceStep
  <2>1. CASE HostRead(s)
    BY <2>1, HostReadRefines
  <2>2. CASE ~HostRead(s)
    <3>1. op' = op /\ applied' = applied
      BY <1>4, <2>2 DEF HostLoop, HostEOF, Teardown, CloseNotify, CloseStdin, ClosePeer,
                        CloseReap, CloseKill, Crash, Garble
    <3> QED BY <3>1, OtherRefines
  <2> QED BY <2>1, <2>2
<1>5. ASSUME NEW s \in Sessions, PluginLoop(s) \/ Handler(s) PROVE ServiceStep
  <2>1. CASE PApply(s)
    BY <2>1, PApplyRefines
  <2>2. CASE ~PApply(s)
    <3>1. op' = op /\ applied' = applied
      BY <1>5, <2>2 DEF PluginLoop, Handler, PRead, PReadEnd, PServe, PRespond,
                        ShutdownArm, CtxArm, DoneArm, ServeReturn, PReject
    <3> QED BY <3>1, OtherRefines
  <2> QED BY <2>1, <2>2
<1> QED BY <1>1, <1>2, <1>3, <1>4, <1>5 DEF Next

\* The wire sessions implement MutationService: a call is issued, refused or
\* lost once, takes effect at most once, while it is open or lost, and is
\* answered with what happened.
THEOREM SessionsImplementService == Spec => ImplementsService
<1>1. Init => Service!Init
  <2>1. SUFFICES ASSUME Init PROVE Service!Init
    OBVIOUS
  <2>2. IInv /\ \A o \in Ops : op[o].pc = "idle"
    BY <2>1, InitInvariant DEF Init
  <2>3. \A o \in Ops : CallStatus(o) = "new"
    BY <2>2, StatusIs DEF IInv, CallsSound
  <2>4. \A o \in Ops : applied[o] = 0
    BY <2>1 DEF Init
  <2> QED BY <2>3, <2>4 DEF Service!Init
<1>2. IInv /\ IInv' /\ [Next]_vars =>
          [Service!Next]_<<[o \in Ops |-> CallStatus(o)], {o \in Ops : applied[o] > 0}>>
  BY NextRefines DEF ServiceStep, Calls, Done
<1> QED BY <1>1, <1>2, InvariantHolds, PTL DEF Spec, ImplementsService, Service!Spec


=============================================================================
