----------------------------- MODULE Connection -----------------------------
(***************************************************************************)
(* One ConnectionImpl (src/src/connectionimpl.cpp) with several channels:  *)
(* the handshake and the queue of frames that wait for its end, the        *)
(* channel numbers, and closing from either side.                          *)
(*                                                                         *)
(* A channel is reduced to what the connection sees of it: its number, its *)
(* state, whether it waits for the answer to a synchronous frame, and the  *)
(* frames queued behind that one (module Channel has the rest).  Frames    *)
(* carry the object they belong to (of), which is not on the real wire: it *)
(* shows when a number means different channels to the two sides.  The     *)
(* server is strict: a frame that the protocol does not allow surprises    *)
(* it.                                                                     *)
(***************************************************************************)
EXTENDS Naturals, Sequences, FiniteSets, Frames

CONSTANTS
    Objects,        \* the channel objects that the application creates
    None,           \* no channel object: frames of the connection itself
    MaxNumber,      \* the highest channel number, 65535 in the code
    ChannelMax,     \* values that the server may propose as channel-max
    MaxCalls,       \* bound on the calls other than creating and closing
    ServerRaises,   \* may the server close a channel?
    ServerCloses,   \* may the server close the connection?
    MayFail         \* may the transport be lost?

ASSUME ConnectionAssumption ==
    /\ None \notin Objects
    /\ (Objects \union {None}) \intersect Nat = {}
    /\ MaxNumber \in Nat \ {0}
    /\ ChannelMax \subseteq Nat
    /\ MaxCalls \in Nat
    /\ {ServerRaises, ServerCloses, MayFail} \subseteq BOOLEAN

VARIABLES
    state,          \* _state
    closed,         \* _closed: close() was called
    maxChannels,    \* _maxChannels, 0 is no limit
    next,           \* _nextFreeChannel
    channels,       \* _channels: the object registered for each number, or None
    queue,          \* _queue
    running,        \* what parse() is doing: "no", "frame" or "onReady"
    chan,           \* the channel objects
    calls,          \* number of calls made
    told,           \* the calls on the handler that end the connection's life
    toServer,       \* the wires
    toClient,
    server          \* the server's view

connVars == <<state, closed, maxChannels, next, channels, queue>>
vars == <<connVars, running, chan, calls, told, toServer, toClient, server>>

Numbers == 1..MaxNumber
(* A frame; of is the object it belongs to, in a tune frame the channel-max. *)
Frame(kind, number, of) == [kind |-> kind, channel |-> number, of |-> of]
Own(kind) == Frame(kind, 0, None)

-----------------------------------------------------------------------------
(* Sending.                                                                 *)

(* ConnectionImpl::send(const Frame &): what is refused, and what goes out  *)
(* at once.                                                                 *)
Accepts(f) ==
    /\ state \notin {"closing", "closed"}
    /\ closed => Catalogue[f.kind].shutdown \/ Catalogue[f.kind].handshake

(* Seeded fault: frames overtake the queue once the connection is ready.    *)
HeldBackNever(q) == q # q

HeldBack(q) == q # <<>>
Direct(f) == (state = "connected" /\ ~HeldBack(queue)) \/ Catalogue[f.kind].handshake

Put(f) ==
    \/ /\ Direct(f)
       /\ toServer' = Append(toServer, f)
       /\ UNCHANGED queue
    \/ /\ ~Direct(f)
       /\ queue' = Append(queue, f)
       /\ UNCHANGED toServer

send(f) ==
    \/ Accepts(f) /\ Put(f)
    \/ ~Accepts(f) /\ UNCHANGED <<queue, toServer>>

usable == state \in {"protocol", "handshake", "connected"} /\ ~closed

waiting(c) == c.synchronous \/ c.queue # <<>>
Registered(o) == \E n \in Numbers : channels[n] = o
waitingChannels(objs) == \E n \in Numbers : channels[n] # None /\ waiting(objs[channels[n]])

(* ConnectionImpl::sendClose, after the frames that are put on the wire     *)
(* before it; pending is what is left of the queue.                         *)
sendClose(pending, before) ==
    /\ state' = "closing"
    /\ IF HeldBack(pending)
         THEN toServer' = toServer \o before /\ queue' = Append(pending, Own("ConnectionClose"))
         ELSE toServer' = toServer \o before \o <<Own("ConnectionClose")>> /\ queue' = pending

-----------------------------------------------------------------------------
(* The calls of the application, made from the event loop or in a callback. *)
(* After onError() the connection may not be used (connectionhandler.h).    *)
MayCall == ~told.error /\ state # "closed"

(* Seeded fault: the next number is taken whether it is in use or not.      *)
FreeNumberUnchecked(n) == n = IF next = 0 THEN 1 ELSE next

(* Seeded fault: the counter of the numbers does not wrap.                  *)
StepUnwrapped(n) == n + 1

(* ConnectionImpl::add: the first number from next on, cyclically and       *)
(* without 0, that is not in use.                                           *)
Step(n) == (n + 1) % (MaxNumber + 1)
Distance(n) == IF n >= next THEN n - next ELSE n + MaxNumber + 1 - next
FreeNumber(n) ==
    /\ channels[n] = None
    /\ \A m \in Numbers : Distance(m) < Distance(n) => channels[m] # None

(* Channel::Channel and ChannelImpl::attach.  At the limit, and on a        *)
(* connection that is not usable, the constructor throws.                   *)
openChannel(o) ==
    /\ MayCall /\ usable /\ chan[o].state = "none"
    /\ maxChannels > 0 => Cardinality({n \in Numbers : channels[n] # None}) < maxChannels
    /\ \E n \in Numbers :
         /\ FreeNumber(n)
         /\ channels' = [channels EXCEPT ![n] = o]
         /\ next' = Step(n)
         /\ chan' = [chan EXCEPT ![o] = [id |-> n, state |-> "connected", queue |-> <<>>,
                                         synchronous |-> "ChannelOpen" \in SynchronousKinds]]
         /\ send(Frame("ChannelOpen", n, o))
    /\ UNCHANGED <<state, closed, maxChannels, running, calls, told, toClient, server>>

(* ChannelImpl::send on a usable channel: behind a synchronous frame it is  *)
(* queued, otherwise it goes to the connection, which may refuse it.        *)
channelSend(o, f) ==
    \/ /\ waiting(chan[o])
       /\ chan' = [chan EXCEPT ![o].queue = Append(@, f),
                               ![o].state = IF f.kind = "ChannelClose" THEN "closing" ELSE @]
       /\ UNCHANGED <<queue, toServer>>
    \/ /\ ~waiting(chan[o]) /\ Accepts(f)
       /\ Put(f)
       /\ chan' = [chan EXCEPT ![o].synchronous = f.kind \in SynchronousKinds,
                               ![o].state = IF f.kind = "ChannelClose" THEN "closing" ELSE @]
    \/ /\ ~waiting(chan[o]) /\ ~Accepts(f)
       /\ UNCHANGED <<chan, queue, toServer>>

callChannel(o) ==
    /\ MayCall /\ calls < MaxCalls
    /\ chan[o].state \in {"connected", "ready"}
    /\ \E kind \in {"QueueDeclare", "BasicAck"} : channelSend(o, Frame(kind, chan[o].id, o))
    /\ calls' = calls + 1
    /\ UNCHANGED <<state, closed, maxChannels, next, channels, running, told, toClient, server>>

closeChannel(o) ==
    /\ MayCall /\ chan[o].state \in {"connected", "ready"}
    /\ channelSend(o, Frame("ChannelClose", chan[o].id, o))
    /\ UNCHANGED <<state, closed, maxChannels, next, channels, running, calls, told, toClient, server>>

(* ConnectionImpl::heartbeat.                                               *)
heartbeat ==
    /\ MayCall /\ calls < MaxCalls
    /\ send(Own("Heartbeat"))
    /\ calls' = calls + 1
    /\ UNCHANGED <<state, closed, maxChannels, next, channels, running, chan, told, toClient, server>>

(* Channels after ConnectionImpl::close has closed them: the close frame of *)
(* a channel that waits is queued behind its other frames, that of any      *)
(* other channel is refused, as _closed is set already.                     *)
ChannelsClosed ==
    [o \in Objects |->
        IF Registered(o) /\ chan[o].state \in {"connected", "ready"} /\ waiting(chan[o])
          THEN [chan[o] EXCEPT !.queue = Append(@, Frame("ChannelClose", chan[o].id, o)),
                               !.state = "closing"]
          ELSE chan[o]]

(* Seeded fault: close() does not wait for the channels.                    *)
closeAtOnce ==
    /\ MayCall /\ ~closed
    /\ closed' = TRUE
    /\ chan' = ChannelsClosed
    /\ \/ state = "connected" /\ sendClose(queue, <<>>)
       \/ state # "connected" /\ UNCHANGED <<state, queue, toServer>>
    /\ UNCHANGED <<maxChannels, next, channels, running, calls, told, toClient, server>>

close ==
    /\ MayCall /\ ~closed
    /\ closed' = TRUE
    /\ chan' = ChannelsClosed
    /\ \/ state = "connected" /\ ~waitingChannels(chan) /\ sendClose(queue, <<>>)
       \/ state # "connected" /\ UNCHANGED <<state, queue, toServer>>
       \/ waitingChannels(chan) /\ UNCHANGED <<state, queue, toServer>>
    /\ UNCHANGED <<maxChannels, next, channels, running, calls, told, toClient, server>>

-----------------------------------------------------------------------------
(* ConnectionImpl::parse.  A frame is processed (running = "frame"), which  *)
(* may run callbacks; then comes the next frame of the same buffer, or the  *)
(* end of the buffer.                                                       *)

Receive(handler) ==
    /\ toClient # <<>> /\ state # "closed" /\ running # "onReady"
    /\ Catalogue[Head(toClient).kind].process = handler
    /\ toClient' = Tail(toClient)

(* the channel that a received frame is for                                 *)
Target == channels[Head(toClient).channel]

(* Seeded fault: end of the buffer, the pending close frame is forgotten.   *)
parseEndForgets ==
    /\ running = "frame"
    /\ running' = "no"
    /\ UNCHANGED <<connVars, chan, calls, told, toServer, toClient, server>>

(* The end of the buffer: a close() that had to wait may now send its       *)
(* frame, unless the buffer ends in the middle of a frame.                  *)
parseEnd ==
    /\ running = "frame"
    /\ running' = "no"
    /\ \/ /\ closed /\ state = "connected" /\ ~waitingChannels(chan)
          /\ sendClose(queue, <<>>)
       \/ /\ ~closed \/ state # "connected" \/ waitingChannels(chan) \/ toClient # <<>>
          /\ UNCHANGED <<state, queue, toServer>>
    /\ UNCHANGED <<closed, maxChannels, next, channels, chan, calls, told, toClient, server>>

(* ConnectionStartFrame::process and setProtocolOk.                         *)
start ==
    /\ Receive("start")
    /\ state' = IF state = "protocol" THEN "handshake" ELSE state
    /\ send(Own("ConnectionStartOK"))
    /\ running' = "frame"
    /\ UNCHANGED <<closed, maxChannels, next, channels, chan, calls, told, server>>

(* ConnectionTuneFrame::process: both answers are part of the handshake.    *)
tune ==
    /\ Receive("tune")
    /\ maxChannels' = Head(toClient).of
    /\ toServer' = IF state \in {"closing", "closed"} THEN toServer
                     ELSE toServer \o <<Own("ConnectionTuneOK"), Own("ConnectionOpen")>>
    /\ running' = "frame"
    /\ UNCHANGED <<state, closed, next, channels, queue, chan, calls, told, server>>

(* ConnectionImpl::setReady, first up to the callback onReady() and then    *)
(* from its return on: the queue is sent, and if close() was called and     *)
(* nobody waits the close frame behind it.                                  *)
setReady ==
    /\ Receive("setReady")
    /\ state' = "connected"
    /\ running' = "onReady"
    /\ UNCHANGED <<closed, maxChannels, next, channels, queue, chan, calls, told, toServer, server>>

onReadyReturns ==
    /\ running = "onReady"
    /\ running' = "frame"
    /\ \/ /\ closed /\ state = "connected" /\ ~waitingChannels(chan)
          /\ sendClose(<<>>, queue)
       \/ /\ ~closed \/ state # "connected" \/ waitingChannels(chan)
          /\ toServer' = toServer \o queue
          /\ queue' = <<>>
          /\ UNCHANGED state
    /\ UNCHANGED <<closed, maxChannels, next, channels, chan, calls, told, toClient, server>>

(* ConnectionImpl::fail(monitor, message): ChannelImpl::reportError for all *)
(* channels that are registered, until there are none.                      *)
ClosedChannel(c) == [c EXCEPT !.state = "closed", !.synchronous = FALSE, !.queue = <<>>]
failChannels ==
    /\ chan' = [o \in Objects |-> IF Registered(o) THEN ClosedChannel(chan[o]) ELSE chan[o]]
    /\ channels' = [n \in Numbers |-> None]

(* ConnectionCloseFrame::process: the answer is refused after close() and   *)
(* queued during the handshake; reportError leaves the state as it is.      *)
connectionError ==
    /\ Receive("connectionError")
    /\ send(Own("ConnectionCloseOK"))
    /\ failChannels
    /\ told' = [told EXCEPT !.error = TRUE]
    /\ running' = "frame"
    /\ UNCHANGED <<state, closed, maxChannels, next, calls, server>>

(* ConnectionCloseOKFrame::process and reportClosed: no channel is told.    *)
connectionClosed ==
    /\ Receive("connectionClosed")
    /\ state' = "closed"
    /\ told' = [told EXCEPT !.closed = TRUE]
    /\ running' = "frame"
    /\ UNCHANGED <<closed, maxChannels, next, channels, queue, chan, calls, toServer, server>>

(* ConnectionImpl::fail(message), when the transport is lost.               *)
fail ==
    /\ MayFail /\ state # "closed" /\ running = "no"
    /\ state' = "closed"
    /\ failChannels
    /\ UNCHANGED <<closed, maxChannels, next, queue, running, calls, told, toServer, toClient, server>>

(* ChannelImpl::flush through send(CopiedBuffer &&): up to and including    *)
(* the next synchronous frame, and only while the connection is connected;  *)
(* a buffer that is not taken is lost.                                      *)
FlushPoint(q, k) ==
    /\ \A i \in 1..(k - 1) : q[i].kind \notin SynchronousKinds
    /\ k < Len(q) => k > 0 /\ q[k].kind \in SynchronousKinds

flush(o, c) ==
    \/ /\ state = "connected"
       /\ \E k \in 0..Len(c.queue) :
            /\ FlushPoint(c.queue, k)
            /\ IF HeldBack(queue)
                 THEN queue' = queue \o SubSeq(c.queue, 1, k) /\ UNCHANGED toServer
                 ELSE toServer' = toServer \o SubSeq(c.queue, 1, k) /\ UNCHANGED queue
            /\ chan' = [chan EXCEPT ![o] =
                          [c EXCEPT !.queue = SubSeq(@, k + 1, Len(@)),
                                    !.synchronous = k > 0 /\ c.queue[k].kind \in SynchronousKinds]]
    \/ /\ state # "connected"
       /\ chan' = [chan EXCEPT ![o] = [c EXCEPT !.queue = IF @ = <<>> THEN <<>> ELSE Tail(@),
                                                !.synchronous = FALSE]]
       /\ UNCHANGED <<queue, toServer>>

(* ChannelOpenOKFrame::process and ChannelImpl::reportReady; an answer to a *)
(* call and ChannelImpl::reportSuccess.                                     *)
reportReady ==
    /\ Receive("reportReady") /\ Target # None
    /\ LET c == chan[Target]
       IN  flush(Target, [c EXCEPT !.state = IF @ = "connected" THEN "ready" ELSE @])
    /\ running' = "frame"
    /\ UNCHANGED <<state, closed, maxChannels, next, channels, calls, told, server>>

reportSuccess ==
    /\ Receive("reportSuccess") /\ Target # None
    /\ flush(Target, chan[Target])
    /\ running' = "frame"
    /\ UNCHANGED <<state, closed, maxChannels, next, channels, calls, told, server>>

(* ChannelImpl::reportError, and with it ConnectionImpl::remove.  Nothing   *)
(* is queued any more when reportClosed flushes: the close frame was last.  *)
Remove(o) ==
    /\ chan' = [chan EXCEPT ![o] = ClosedChannel(@)]
    /\ channels' = [channels EXCEPT ![chan[o].id] = None]

reportClosed ==
    /\ Receive("reportClosed") /\ Target # None
    /\ Remove(Target)
    /\ running' = "frame"
    /\ UNCHANGED <<state, closed, maxChannels, next, queue, calls, told, toServer, server>>

(* ChannelCloseFrame::process: the confirmation is sent for any number.     *)
channelError ==
    /\ Receive("reportError")
    /\ send(Frame("ChannelCloseOK", Head(toClient).channel, Head(toClient).of))
    /\ \/ Target # None /\ Remove(Target)
       \/ Target = None /\ UNCHANGED <<chan, channels>>
    /\ running' = "frame"
    /\ UNCHANGED <<state, closed, maxChannels, next, calls, told, server>>

(* A frame for a number without a channel.                                  *)
ignored ==
    /\ \E handler \in {"reportReady", "reportSuccess", "reportClosed"} : Receive(handler)
    /\ Target = None
    /\ running' = "frame"
    /\ UNCHANGED <<connVars, chan, calls, told, toServer, server>>

-----------------------------------------------------------------------------
(* The server (external).  phase is the frame it waits for in the           *)
(* handshake, then "running", "closing" (it sent connection.close and       *)
(* discards what is no part of the shutdown) or "closed".                   *)

Expected == [ProtocolHeader |-> "ConnectionStartOK", ConnectionStartOK |-> "ConnectionTuneOK",
             ConnectionTuneOK |-> "ConnectionOpen", ConnectionOpen |-> "running"]
Reply == [ProtocolHeader |-> {Own("ConnectionStart")},
          ConnectionStartOK |-> {Frame("ConnectionTune", 0, max) : max \in ChannelMax},
          ConnectionTuneOK |-> {}, ConnectionOpen |-> {Own("ConnectionOpenOK")}]

answer(reply) ==
    \/ reply = {} /\ UNCHANGED toClient
    \/ \E r \in reply : toClient' = Append(toClient, r)

(* what a server that is running makes of frame f: its answer and its view; *)
(* a channel that it has closed itself gets no answer but to a close        *)
onChannel(f) ==
    LET n == f.channel
        Answered(kind, view) == answer({Frame(kind, n, f.of)}) /\ server' = view
    IN  \/ /\ f.kind = "ChannelOpen" /\ n \notin server.open \union server.closing
           /\ Answered("ChannelOpenOK", [server EXCEPT !.open = @ \union {n}])
        \/ /\ f.kind = "QueueDeclare" /\ n \in server.open
           /\ Answered("QueueDeclareOK", server)
        \/ /\ f.kind = "ChannelClose" /\ n \in server.open
           /\ Answered("ChannelCloseOK", [server EXCEPT !.open = @ \ {n}])
        \/ /\ f.kind = "ChannelClose" /\ n \in server.closing
           /\ Answered("ChannelCloseOK", server)
        \/ /\ f.kind = "ChannelCloseOK" /\ n \in server.closing
           /\ answer({}) /\ server' = [server EXCEPT !.closing = @ \ {n}]
        \/ /\ f.kind = "BasicAck" /\ n \in server.open \union server.closing
           /\ answer({}) /\ UNCHANGED server
        \/ /\ f.kind = "QueueDeclare" /\ n \in server.closing
           /\ answer({}) /\ UNCHANGED server

surprise == server' = [server EXCEPT !.surprised = TRUE] /\ UNCHANGED toClient

ExpectedNow(f) ==
    LET n == f.channel
    IN  \/ f.kind \in {"Heartbeat", "ConnectionClose"}
        \/ f.kind = "ChannelOpen" /\ n \notin server.open \union server.closing
        \/ f.kind \in {"QueueDeclare", "ChannelClose", "BasicAck"} /\ n \in server.open \union server.closing
        \/ f.kind = "ChannelCloseOK" /\ n \in server.closing

serverReceive ==
    /\ toServer # <<>>
    /\ toServer' = Tail(toServer)
    /\ LET f == Head(toServer)
       IN  \/ /\ server.phase \in DOMAIN Expected /\ f.kind = server.phase
              /\ answer(Reply[f.kind])
              /\ server' = [server EXCEPT !.phase = Expected[f.kind]]
           \/ /\ server.phase \in DOMAIN Expected /\ f.kind # server.phase
              /\ surprise
           \/ /\ server.phase = "running" /\ ExpectedNow(f)
              /\ \/ onChannel(f)
                 \/ f.kind = "Heartbeat" /\ answer({}) /\ UNCHANGED server
                 \/ /\ f.kind = "ConnectionClose"
                    /\ answer({Own("ConnectionCloseOK")})
                    /\ server' = [server EXCEPT !.phase = "closed"]
           \/ /\ server.phase = "running" /\ ~ExpectedNow(f)
              /\ surprise
           \/ /\ server.phase = "closing"
              /\ answer(IF f.kind = "ConnectionClose" THEN {Own("ConnectionCloseOK")} ELSE {})
              /\ server' = IF f.kind \in {"ConnectionClose", "ConnectionCloseOK"}
                             THEN [server EXCEPT !.phase = "closed"] ELSE server
           \/ /\ server.phase = "closed"
              /\ surprise
    /\ UNCHANGED <<connVars, running, chan, calls, told>>

serverRaises ==
    /\ ServerRaises /\ server.phase = "running"
    /\ \E n \in server.open :
         /\ server' = [server EXCEPT !.open = @ \ {n}, !.closing = @ \union {n}]
         /\ toClient' = Append(toClient, Frame("ChannelClose", n, None))
    /\ UNCHANGED <<connVars, running, chan, calls, told, toServer>>

serverCloses ==
    /\ ServerCloses /\ server.phase \in {"ConnectionTuneOK", "ConnectionOpen", "running"}
    /\ server' = [server EXCEPT !.phase = "closing"]
    /\ toClient' = Append(toClient, Own("ConnectionClose"))
    /\ UNCHANGED <<connVars, running, chan, calls, told, toServer>>

-----------------------------------------------------------------------------
(* The constructor sends the protocol header.                               *)
Init ==
    /\ state = "protocol" /\ closed = FALSE
    /\ maxChannels = 0 /\ next = 1
    /\ channels = [n \in Numbers |-> None]
    /\ queue = <<>> /\ running = "no"
    /\ chan = [o \in Objects |-> [id |-> 0, state |-> "none", queue |-> <<>>, synchronous |-> FALSE]]
    /\ calls = 0
    /\ told = [error |-> FALSE, closed |-> FALSE]
    /\ toServer = <<Own("ProtocolHeader")>> /\ toClient = <<>>
    /\ server = [phase |-> "ProtocolHeader", open |-> {}, closing |-> {}, surprised |-> FALSE]

Application ==
    \/ \E o \in Objects : openChannel(o) \/ callChannel(o) \/ closeChannel(o)
    \/ heartbeat \/ close

Library ==
    \/ start \/ tune \/ setReady \/ onReadyReturns \/ connectionError \/ connectionClosed
    \/ reportReady \/ reportSuccess \/ reportClosed \/ channelError \/ ignored \/ parseEnd

Server == serverReceive \/ serverRaises \/ serverCloses

Next == Application \/ Library \/ fail \/ Server

(* The event loop goes on delivering what arrives, callbacks return and the *)
(* server answers; nothing is assumed of the application or of failures.    *)
Fairness == WF_vars(Library) /\ WF_vars(serverReceive)
Spec == Init /\ [][Next]_vars /\ Fairness

(* When both sides close a channel, the number is free for the client once  *)
(* it has the server's close frame, but its own close frame is still to be  *)
(* answered.  A patient application does not give such a number to a new    *)
(* channel.  The library does not see to that: add() takes the number if    *)
(* the counter stands there (65535 channels later, or when the others are   *)
(* in use).                                                                 *)
Late(n) ==
    \/ \E i \in 1..Len(toServer) : toServer[i].kind = "ChannelClose" /\ toServer[i].channel = n
    \/ \E i \in 1..Len(queue) : queue[i].kind = "ChannelClose" /\ queue[i].channel = n
    \/ \E i \in 1..Len(toClient) : toClient[i].kind = "ChannelCloseOK" /\ toClient[i].channel = n
Unhurried == \A n \in Numbers : channels[n] = None /\ Late(n) => channels'[n] = None
PatientSpec == Init /\ [][Next /\ Unhurried]_vars /\ Fairness

-----------------------------------------------------------------------------
(* What must hold.                                                          *)

FrameType == [kind : Kinds, channel : 0..MaxNumber, of : Objects \union {None} \union ChannelMax]

(* Type correctness; the owner of a number knows it.                        *)
TypeOK ==
    /\ state \in {"protocol", "handshake", "connected", "closing", "closed"}
    /\ closed \in BOOLEAN /\ maxChannels \in ChannelMax \union {0} /\ next \in 0..MaxNumber
    /\ channels \in [Numbers -> Objects \union {None}]
    /\ \A n \in Numbers : channels[n] # None => chan[channels[n]].id = n
    /\ running \in {"no", "frame", "onReady"}
    /\ calls \in 0..MaxCalls
    /\ queue \in Seq(FrameType) /\ toServer \in Seq(FrameType) /\ toClient \in Seq(FrameType)

(* The server never gets a frame that the protocol does not allow at that   *)
(* point: nothing but the handshake before the connection is open, a        *)
(* channel's open frame before its others and only for a number that is     *)
(* free on both sides, nothing for a channel after its close frame, nothing *)
(* at all after connection.close.  Queued frames and direct ones must keep  *)
(* their order for that, through the handshake and the onReady() callback.  *)
NoSurprise == ~server.surprised

(* What the server sends for a channel number never reaches an object other *)
(* than the one it is meant for, although numbers are used again.  It holds *)
(* for a patient application.                                               *)
NoCrossTalk ==
    \A i \in 1..Len(toClient) :
        LET f == toClient[i]
        IN  f.of \in Objects => channels[f.channel] \in {f.of, None}

(* The close frame is not sent while a channel still has frames to send or  *)
(* an answer to get, and no channel gets into that position afterwards.     *)
NothingLeftBehind ==
    state \in {"closing", "closed"} => \A o \in Objects : ~waiting(chan[o])

(* Connection::close() ends, whether it was called during the handshake, in *)
(* the onReady() callback or while channels wait: the connection is closed  *)
(* or reports an error.                                                     *)
CloseCompletes == closed ~> (state = "closed" \/ told.error)
=============================================================================
