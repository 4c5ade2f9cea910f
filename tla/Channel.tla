------------------------------ MODULE Channel ------------------------------
(***************************************************************************)
(* One ChannelImpl (src/src/channelimpl.cpp): the queue of frames that     *)
(* wait for the answer to a synchronous frame, and the chain of deferred   *)
(* results that the answers resolve in order.                              *)
(*                                                                         *)
(* The connection under the channel is represented by what the channel     *)
(* sees of it (conn), the server by a process that reads frames in order   *)
(* and answers them; the two wires are FIFO, as TCP is.  The library is    *)
(* single threaded: a step is one call of the application, one received    *)
(* frame, or the return from a callback.  A success callback of the        *)
(* application may call the channel again before the library has taken     *)
(* the resolved deferred off the chain (active # 0).                       *)
(***************************************************************************)
EXTENDS Naturals, Sequences, Frames

CONSTANTS
    Requests,       \* the frames that the application's calls may send
    MaxCalls,       \* bound on the number of calls of the application
    MayExceed,      \* requests that may be larger than the negotiated maximum
    ServerRaises,   \* may the server raise a channel error?
    ConnMayClose,   \* may the application close the connection?
    ConnMayFail,    \* may the connection be lost?
    FailInCallback  \* ... also while a callback of the channel runs?

ASSUME ChannelAssumption ==
    /\ MaxCalls \in Nat
    /\ Requests \subseteq Kinds
    /\ MayExceed \subseteq Requests
    /\ {ServerRaises, ConnMayClose, ConnMayFail, FailInCallback} \subseteq BOOLEAN

VARIABLES
    state,          \* _state
    linked,         \* _connection is set and the connection knows the channel
    synchronous,    \* _synchronous
    queue,          \* _queue
    chain,          \* _oldestCallback ... _newestCallback, as call numbers
    receiver,       \* _receiver: the get() that is receiving content, or 0
    active,         \* the deferred whose success callback is running, or 0
    after,          \* what is left to do when that callback returns
    calls,          \* the application's calls with their results
    conn,           \* the connection: see Accepts and Relays
    toServer,       \* the wires
    toClient,
    server          \* the server's view of the channel

channelVars == <<state, linked, synchronous, queue, chain, receiver, active, after>>
wireVars == <<toServer, toClient>>
vars == <<channelVars, calls, conn, wireVars, server>>

-----------------------------------------------------------------------------
(* A frame that is sent: id is the number of the call that sent it, 0 when  *)
(* there is none; big: it is larger than the maximum that was negotiated.   *)
Frame(kind, id, big) == [kind |-> kind, id |-> id, big |-> big]

(* A frame that is received: id is the call it answers; more: part of the   *)
(* message content is still to come.                                        *)
Answer(kind, id, more) == [kind |-> kind, id |-> id, more |-> more]

(* The server's answer to a frame (external).                               *)
AnswerOf ==
    [ChannelOpen |-> "ChannelOpenOK", ChannelFlow |-> "ChannelFlowOK",
     ChannelClose |-> "ChannelCloseOK", ConfirmSelect |-> "ConfirmSelectOK",
     TransactionSelect |-> "TransactionSelectOK", TransactionCommit |-> "TransactionCommitOK",
     TransactionRollback |-> "TransactionRollbackOK", ExchangeDeclare |-> "ExchangeDeclareOK",
     ExchangeDelete |-> "ExchangeDeleteOK", ExchangeBind |-> "ExchangeBindOK",
     ExchangeUnbind |-> "ExchangeUnbindOK", QueueDeclare |-> "QueueDeclareOK",
     QueueBind |-> "QueueBindOK", QueueUnbind |-> "QueueUnbindOK", QueuePurge |-> "QueuePurgeOK",
     QueueDelete |-> "QueueDeleteOK", BasicQos |-> "BasicQosOK",
     BasicConsume |-> "BasicConsumeOK", BasicCancel |-> "BasicCancelOK",
     BasicRecover |-> "BasicRecoverOK"]

Answered == DOMAIN AnswerOf \union {"BasicGet"}

(* What the connection does with a frame: send(const Frame &) refuses one   *)
(* that is too large and every one after close(); send(CopiedBuffer &&),    *)
(* which flush() uses, goes on until the close frame is sent.               *)
Accepts(f) == conn = "connected" /\ ~f.big
Relays == conn \in {"connected", "shutdown"}

usable == state \in {"connected", "ready"}
waiting == synchronous \/ queue # <<>>

-----------------------------------------------------------------------------
(* Seeded faults are variants of the definition that follows; no action     *)
(* uses them.  They stand for a plausible error in the code, and show that  *)
(* a property would catch it.                                               *)

(* Seeded fault: a frame does not wait for the answer to a synchronous one. *)
sendAtOnce(f, ok) ==
    \/ /\ ~usable \/ ~linked \/ ~Accepts(f)
       /\ ok <=> (state = "closing" /\ linked)
       /\ UNCHANGED <<queue, synchronous, toServer>>
    \/ /\ usable /\ linked /\ Accepts(f)
       /\ ok
       /\ toServer' = Append(toServer, f)
       /\ synchronous' = (f.kind \in SynchronousKinds)
       /\ UNCHANGED queue

(* Seeded fault: a frame that has to wait goes to the front of the queue.   *)
sendInFront(f, ok) ==
    \/ /\ ~(usable /\ linked /\ waiting)
       /\ sendAtOnce(f, ok)
    \/ /\ usable /\ linked /\ waiting
       /\ ok
       /\ queue' = <<f>> \o queue
       /\ UNCHANGED <<synchronous, toServer>>

(* ChannelImpl::send(const Frame &); ok is what it returns.                 *)
send(f, ok) ==
    \/ /\ state = "closed" \/ ~linked
       /\ ~ok
       /\ UNCHANGED <<queue, synchronous, toServer>>
    \/ /\ state = "closing" /\ linked
       /\ ok
       /\ UNCHANGED <<queue, synchronous, toServer>>
    \/ /\ usable /\ linked /\ waiting
       /\ ok
       /\ queue' = Append(queue, f)
       /\ UNCHANGED <<synchronous, toServer>>
    \/ /\ usable /\ linked /\ ~waiting /\ ~Accepts(f)
       /\ ~ok
       /\ UNCHANGED <<queue, synchronous, toServer>>
    \/ /\ usable /\ linked /\ ~waiting /\ Accepts(f)
       /\ ok
       /\ toServer' = Append(toServer, f)
       /\ synchronous' = (f.kind \in SynchronousKinds)
       /\ UNCHANGED queue

(* The same for the frames of one message: the first one that cannot be     *)
(* sent ends the call, and none of them is synchronous.                     *)
sendAll(fs, ok) ==
    LET Fits(k) == \A i \in 1..k : ~fs[i].big
    IN  \/ /\ state = "closed" \/ ~linked
           /\ ~ok
           /\ UNCHANGED <<queue, synchronous, toServer>>
        \/ /\ state = "closing" /\ linked
           /\ ok
           /\ UNCHANGED <<queue, synchronous, toServer>>
        \/ /\ usable /\ linked /\ waiting
           /\ ok
           /\ queue' = queue \o fs
           /\ UNCHANGED <<synchronous, toServer>>
        \/ /\ usable /\ linked /\ ~waiting
           /\ \E k \in 0..Len(fs) :
                /\ IF conn = "connected"
                     THEN Fits(k) /\ (k < Len(fs) => fs[k + 1].big)
                     ELSE k = 0
                /\ ok <=> (k = Len(fs))
                /\ toServer' = toServer \o SubSeq(fs, 1, k)
           /\ UNCHANGED <<queue, synchronous>>

(* ChannelImpl::flush: leave synchronous mode and send up to and including  *)
(* the next synchronous frame.  A buffer that the connection does not take  *)
(* is lost, and ends the loop.                                              *)
FlushPoint(k) ==
    /\ \A i \in 1..(k - 1) : queue[i].kind \notin SynchronousKinds
    /\ k < Len(queue) => k > 0 /\ queue[k].kind \in SynchronousKinds

flush ==
    \/ /\ Relays
       /\ \E k \in 0..Len(queue) :
            /\ FlushPoint(k)
            /\ toServer' = toServer \o SubSeq(queue, 1, k)
            /\ queue' = SubSeq(queue, k + 1, Len(queue))
            /\ synchronous' = (k > 0 /\ queue[k].kind \in SynchronousKinds)
    \/ /\ ~Relays
       /\ queue' = IF queue = <<>> THEN <<>> ELSE Tail(queue)
       /\ synchronous' = FALSE
       /\ UNCHANGED toServer

(* A call of the application: its frame, the deferred result it returns     *)
(* ("none" for a call that returns a bool) and the answer that resolved it. *)
Call(kind, result) == [kind |-> kind, at |-> state, result |-> result, by |-> 0]

(* ChannelImpl::push: the deferred is chained whether the frame was         *)
(* accepted or not; one that starts as failed reports its error at once.    *)
push(kind, ok) ==
    /\ calls' = Append(calls, Call(kind, IF ok THEN "pending" ELSE "error"))
    /\ chain' = Append(chain, Len(calls) + 1)

(* Seeded fault: only the oldest deferred is told of the error.             *)
reportErrorToOldest(rest) ==
    /\ state' = "closed"
    /\ synchronous' = FALSE
    /\ queue' = <<>>
    /\ calls' = [n \in DOMAIN calls |->
                   IF rest # <<>> /\ n = Head(rest) THEN [calls[n] EXCEPT !.result = "error"] ELSE calls[n]]
    /\ chain' = <<>>
    /\ linked' = FALSE

(* ChannelImpl::reportError: every deferred on the chain fails, the queue   *)
(* is dropped and the channel leaves the connection.                        *)
Failed(cs, ids) ==
    [n \in DOMAIN cs |-> IF n \in ids THEN [cs[n] EXCEPT !.result = "error"] ELSE cs[n]]
ChainIds(c) == {c[i] : i \in DOMAIN c}

reportError(rest) ==
    /\ state' = "closed"
    /\ synchronous' = FALSE
    /\ queue' = <<>>
    /\ calls' = Failed(calls, ChainIds(rest))
    /\ chain' = <<>>
    /\ linked' = FALSE

-----------------------------------------------------------------------------
(* The application's calls.                                                 *)

Sizes(kind) == IF kind \in MayExceed THEN BOOLEAN ELSE {FALSE}

(* Seeded fault: calls are taken before the channel is attached.            *)
MayCallEarly(kind) == kind \in Requests /\ Len(calls) < MaxCalls

MayCall(kind) == kind \in Requests /\ Len(calls) < MaxCalls /\ state # "unattached"

(* A call that sends one frame and returns a deferred.                      *)
Request(kind) ==
    /\ MayCall(kind)
    /\ \E ok \in BOOLEAN, big \in Sizes(kind) :
         /\ send(Frame(kind, Len(calls) + 1, big), ok)
         /\ push(kind, ok)
    /\ UNCHANGED <<state, linked, receiver, active, after, conn, toClient, server>>

(* A call that sends one frame and returns whether it was sent.             *)
Notify(kind) ==
    /\ MayCall(kind)
    /\ \E ok \in BOOLEAN :
         /\ send(Frame(kind, Len(calls) + 1, FALSE), ok)
         /\ calls' = Append(calls, Call(kind, "none"))
    /\ UNCHANGED <<state, linked, chain, receiver, active, after, conn, toClient, server>>

pause == Request("ChannelFlow")
resume == Request("ChannelFlow")
confirmSelect == Request("ConfirmSelect")
startTransaction == Request("TransactionSelect")
commitTransaction == Request("TransactionCommit")
rollbackTransaction == Request("TransactionRollback")
declareExchange == Request("ExchangeDeclare") \/ Request("ExchangeDeclareNoWait")
bindExchange == Request("ExchangeBind")
unbindExchange == Request("ExchangeUnbind")
removeExchange == Request("ExchangeDelete")
declareQueue == Request("QueueDeclare")
bindQueue == Request("QueueBind")
unbindQueue == Request("QueueUnbind")
purgeQueue == Request("QueuePurge")
removeQueue == Request("QueueDelete")
setQos == Request("BasicQos")
consume == Request("BasicConsume")
cancel == Request("BasicCancel")
get == Request("BasicGet")
recover == Request("BasicRecover")
ack == Notify("BasicAck")
reject == Notify("BasicReject") \/ Notify("BasicNack")

(* ChannelImpl::publish: the message goes out as a publish frame, a header  *)
(* (that may be too large) and zero or more body frames, here at most one.  *)
MessageFrames(id, big, bodySize) ==
    LET head == <<Frame("BasicPublish", id, FALSE), Frame("BasicHeader", id, big)>>
    IN  IF bodySize = 0 THEN head ELSE Append(head, Frame("Body", id, FALSE))

publish ==
    /\ MayCall("BasicPublish")
    /\ \E ok \in BOOLEAN, big \in Sizes("BasicPublish"), bodySize \in {0, 1} :
         /\ sendAll(MessageFrames(Len(calls) + 1, big, bodySize), ok)
         /\ calls' = Append(calls, Call("BasicPublish", "none"))
    /\ UNCHANGED <<state, linked, chain, receiver, active, after, conn, toClient, server>>

(* Seeded fault: the channel stays usable after its close frame.            *)
closeStaysOpen ==
    \E ok \in BOOLEAN :
        /\ send(Frame("ChannelClose", Len(calls) + 1, FALSE), ok)
        /\ push("ChannelClose", ok)
        /\ UNCHANGED state

(* ChannelImpl::close: on a channel that cannot be used no frame is sent,   *)
(* and the deferred is failed only if the channel was closing already.      *)
closeChannel ==
    \/ /\ ~usable
       /\ push("ChannelClose", state # "closing")
       /\ UNCHANGED <<state, queue, synchronous, toServer>>
    \/ /\ usable
       /\ \E ok \in BOOLEAN :
            /\ send(Frame("ChannelClose", Len(calls) + 1, FALSE), ok)
            /\ push("ChannelClose", ok)
            /\ state' = IF ok THEN "closing" ELSE state

close ==
    /\ MayCall("ChannelClose")
    /\ closeChannel
    /\ UNCHANGED <<linked, receiver, active, after, conn, toClient, server>>

(* ChannelImpl::attach: the constructor of Channel, on a usable connection  *)
(* with a free channel number.                                              *)
attach ==
    /\ state = "unattached"
    /\ state' = "connected"
    /\ linked' = TRUE
    /\ toServer' = <<Frame("ChannelOpen", 0, FALSE)>>
    /\ synchronous' = ("ChannelOpen" \in SynchronousKinds)
    /\ UNCHANGED <<queue, chain, receiver, active, after, calls, conn, toClient, server>>

-----------------------------------------------------------------------------
(* Received frames.  ConnectionImpl::parse hands a frame to the channel it  *)
(* is addressed to; a channel that has left the connection gets nothing.    *)

Receive(handler) ==
    /\ toClient # <<>> /\ active = 0 /\ conn # "closed"
    /\ Catalogue[Head(toClient).kind].process = handler
    /\ toClient' = Tail(toClient)

ignored ==
    /\ \E handler \in {"reportReady", "reportSuccess", "reportClosed", "getOK", "header", "body"} :
          Receive(handler)
    /\ ~linked
    /\ UNCHANGED <<channelVars, calls, conn, toServer, server>>

reportReady ==
    /\ Receive("reportReady") /\ linked
    /\ state' = IF state = "connected" THEN "ready" ELSE state
    /\ flush
    /\ UNCHANGED <<linked, chain, receiver, active, after, calls, conn, server>>

(* Seeded fault: the answer resolves the newest deferred.                   *)
resolveNewest(r) ==
    /\ chain # <<>>
    /\ flush
    /\ active' = chain[Len(chain)]
    /\ calls' = [calls EXCEPT ![chain[Len(chain)]].result = "success", ![chain[Len(chain)]].by = r]

(* Seeded fault: the frames that wait are not sent on.                      *)
resolveWithoutFlush(r) ==
    /\ chain # <<>>
    /\ UNCHANGED <<queue, synchronous, toServer>>
    /\ active' = Head(chain)
    /\ calls' = [calls EXCEPT ![Head(chain)].result = "success", ![Head(chain)].by = r]

(* ChannelImpl::reportSuccess up to the callback: the answer to call r      *)
(* resolves the oldest deferred.                                            *)
resolveOldest(r) ==
    /\ chain # <<>>
    /\ flush
    /\ active' = Head(chain)
    /\ calls' = [calls EXCEPT ![Head(chain)].result = "success", ![Head(chain)].by = r]

reportSuccess ==
    /\ Receive("reportSuccess") /\ linked
    /\ \/ /\ resolveOldest(Head(toClient).id)
       \/ /\ chain = <<>>
          /\ UNCHANGED <<queue, synchronous, toServer, active, calls>>
    /\ UNCHANGED <<state, linked, chain, receiver, after, conn, server>>

(* BasicGetOKFrame::process: as reportSuccess, but a DeferredGet also       *)
(* becomes the receiver of the content that follows.                        *)
getOK ==
    /\ Receive("getOK") /\ linked
    /\ \/ /\ resolveOldest(Head(toClient).id)
          /\ receiver' = IF calls[Head(chain)].kind = "BasicGet" THEN Head(chain) ELSE receiver
       \/ /\ chain = <<>>
          /\ UNCHANGED <<queue, synchronous, toServer, active, calls, receiver>>
    /\ UNCHANGED <<state, linked, chain, after, conn, server>>

(* DeferredReceiver::process and DeferredGet::complete: with the last byte  *)
(* of the message the channel is flushed and the receiver uninstalled.      *)
content(handler) ==
    /\ Receive(handler) /\ linked
    /\ \/ /\ receiver # 0
          /\ ~Head(toClient).more
          /\ flush
          /\ receiver' = 0
       \/ /\ receiver = 0 \/ Head(toClient).more
          /\ UNCHANGED <<queue, synchronous, toServer, receiver>>
    /\ UNCHANGED <<state, linked, chain, active, after, calls, conn, server>>

header == content("header")
body == content("body")

(* ChannelImpl::reportClosed: the answer to close() resolves the oldest     *)
(* deferred, all others fail.                                               *)
reportClosed ==
    /\ Receive("reportClosed") /\ linked
    /\ \/ /\ resolveOldest(Head(toClient).id)
          /\ state' = "closed"
          /\ after' = "reportError"
          /\ UNCHANGED <<chain, linked>>
       \/ /\ chain = <<>>
          /\ reportError(chain)
          /\ UNCHANGED <<active, after, toServer>>
    /\ UNCHANGED <<receiver, conn, server>>

(* Seeded fault: the deferred stays on the chain after its callback.        *)
callbackReturnsChained ==
    /\ active # 0
    /\ active' = 0
    /\ after' = "none"
    /\ \/ /\ after = "none"
          /\ UNCHANGED <<state, linked, synchronous, queue, chain, calls>>
       \/ /\ after = "reportError"
          /\ reportError(chain)
    /\ UNCHANGED <<receiver, conn, wireVars, server>>

(* The success callback returns to reportSuccess, which takes the deferred  *)
(* off the chain.  If the channel failed in the meantime the chain that the *)
(* deferred was part of is gone.                                            *)
callbackReturns ==
    LET rest == IF chain # <<>> /\ Head(chain) = active THEN Tail(chain) ELSE <<>>
    IN  /\ active # 0
        /\ active' = 0
        /\ after' = "none"
        /\ \/ /\ after = "none"
              /\ chain' = rest
              /\ UNCHANGED <<state, linked, synchronous, queue, calls>>
           \/ /\ after = "reportError"
              /\ reportError(rest)
        /\ UNCHANGED <<receiver, conn, wireVars, server>>

(* ChannelCloseFrame::process: the server closes the channel.  The answer   *)
(* goes to the connection, past the queue of the channel.                   *)
channelClose ==
    /\ Receive("reportError")
    /\ toServer' = LET f == Frame("ChannelCloseOK", 0, FALSE)
                   IN  IF Accepts(f) THEN Append(toServer, f) ELSE toServer
    /\ \/ linked /\ reportError(chain)
       \/ ~linked /\ UNCHANGED <<state, linked, synchronous, queue, chain, calls>>
    /\ UNCHANGED <<receiver, active, after, conn, server>>

-----------------------------------------------------------------------------
(* The connection, as far as the channel can tell.  "shutdown": close() was *)
(* called but a channel is still waiting; "closing": the close frame is     *)
(* sent; "closed": the answer came, or the connection was lost.             *)

connectionClose ==
    /\ ConnMayClose /\ conn = "connected" /\ linked
    /\ Len(calls) < MaxCalls
    /\ \/ /\ usable /\ ~waiting         \* the close frame is refused
          /\ push("ChannelClose", FALSE)
          /\ conn' \in {"shutdown", "closing"}
          /\ UNCHANGED <<state, queue>>
       \/ /\ usable /\ waiting
          /\ queue' = Append(queue, Frame("ChannelClose", Len(calls) + 1, FALSE))
          /\ push("ChannelClose", TRUE)
          /\ state' = "closing"
          /\ conn' = "shutdown"
       \/ /\ ~usable
          /\ push("ChannelClose", state # "closing")
          /\ conn' \in IF waiting THEN {"shutdown"} ELSE {"shutdown", "closing"}
          /\ UNCHANGED <<state, queue>>
    /\ UNCHANGED <<linked, synchronous, receiver, active, after, wireVars, server>>

(* parse() sends the close frame when no channel is waiting any more.       *)
connectionSendClose ==
    /\ conn = "shutdown" /\ active = 0 /\ ~(linked /\ waiting)
    /\ conn' = "closing"
    /\ UNCHANGED <<channelVars, calls, wireVars, server>>

(* ConnectionImpl::reportClosed does not tell the channels.  The answer     *)
(* comes behind all that the server has read and sent before it.            *)
connectionClosed ==
    /\ conn = "closing" /\ active = 0
    /\ toServer = <<>> /\ toClient = <<>>
    /\ conn' = "closed"
    /\ UNCHANGED <<channelVars, calls, wireVars, server>>

(* ConnectionImpl::fail(message): the connection is lost.                   *)
connectionFail ==
    /\ ConnMayFail /\ conn # "closed" /\ state # "unattached"
    /\ active = 0 \/ FailInCallback
    /\ conn' = "closed"
    /\ \/ linked /\ reportError(chain)
       \/ ~linked /\ UNCHANGED <<state, linked, synchronous, queue, chain, calls>>
    /\ UNCHANGED <<receiver, active, after, wireVars, server>>

-----------------------------------------------------------------------------
(* The server (external): it reads the frames of the channel in order and   *)
(* answers them in order.  After a channel error it discards what it reads  *)
(* until the client confirms.                                               *)

Content(f, len) ==
    IF len = 0 THEN <<Answer("BasicGetOK", f.id, FALSE), Answer("BasicHeader", f.id, FALSE)>>
               ELSE <<Answer("BasicGetOK", f.id, FALSE), Answer("BasicHeader", f.id, TRUE),
                      Answer("Body", f.id, FALSE)>>

Answers(f) ==
    IF f.kind = "BasicGet"
      THEN {<<Answer("BasicGetEmpty", f.id, FALSE)>>, Content(f, 0), Content(f, 1)}
    ELSE IF f.kind \in DOMAIN AnswerOf THEN {<<Answer(AnswerOf[f.kind], f.id, FALSE)>>}
    ELSE {<<>>}

serverReceive ==
    /\ toServer # <<>>
    /\ toServer' = Tail(toServer)
    /\ LET f == Head(toServer)
       IN  \/ /\ server \in {"idle", "open"}
              /\ \E answer \in Answers(f) : toClient' = toClient \o answer
              /\ server' = IF f.kind = "ChannelClose" THEN "closed" ELSE "open"
           \/ /\ server = "closing"
              /\ toClient' = IF f.kind = "ChannelClose"
                               THEN Append(toClient, Answer("ChannelCloseOK", f.id, FALSE))
                               ELSE toClient
              /\ server' = IF f.kind = "ChannelCloseOK" THEN "closed" ELSE server
           \/ /\ server = "closed"
              /\ UNCHANGED <<toClient, server>>
    /\ UNCHANGED <<channelVars, calls, conn>>

serverRaises ==
    /\ ServerRaises /\ server = "open"
    /\ server' = "closing"
    /\ toClient' = Append(toClient, Answer("ChannelClose", 0, FALSE))
    /\ UNCHANGED <<channelVars, calls, conn, toServer>>

-----------------------------------------------------------------------------
Init ==
    /\ state = "unattached"
    /\ linked = FALSE
    /\ synchronous = FALSE
    /\ queue = <<>> /\ chain = <<>>
    /\ receiver = 0 /\ active = 0 /\ after = "none"
    /\ calls = <<>>
    /\ conn = "connected"
    /\ toServer = <<>> /\ toClient = <<>>
    /\ server = "idle"

Application ==
    \/ attach \/ close \/ publish \/ ack \/ reject \/ get \/ recover
    \/ pause \/ resume \/ confirmSelect \/ startTransaction \/ commitTransaction
    \/ rollbackTransaction \/ declareExchange \/ bindExchange \/ unbindExchange
    \/ removeExchange \/ declareQueue \/ bindQueue \/ unbindQueue \/ purgeQueue
    \/ removeQueue \/ setQos \/ consume \/ cancel

Library ==
    \/ ignored \/ reportReady \/ reportSuccess \/ getOK \/ header \/ body
    \/ reportClosed \/ callbackReturns \/ channelClose

Connection ==
    connectionClose \/ connectionSendClose \/ connectionClosed \/ connectionFail

Server == serverReceive \/ serverRaises

Next == Application \/ Library \/ Connection \/ Server

(* The event loop keeps parsing what arrives, callbacks return, and the     *)
(* server reads and answers.  Nothing is assumed of the application.        *)
Fairness ==
    /\ WF_vars(Library)
    /\ WF_vars(serverReceive)
    /\ WF_vars(connectionSendClose)
    /\ WF_vars(connectionClosed)

Spec == Init /\ [][Next]_vars
FairSpec == Spec /\ Fairness
-----------------------------------------------------------------------------
(* What must hold.                                                          *)

Deferreds == {"pending", "success", "error"}
FrameType == [kind : Kinds, id : Nat, big : BOOLEAN]
AnswerType == [kind : Kinds, id : Nat, more : BOOLEAN]
CallType ==
    [kind : Kinds, at : {"connected", "ready", "closing", "closed"},
     result : Deferreds \union {"none"}, by : Nat]

(* Type correctness of the channel, the calls and the wires.                *)
TypeOK ==
    /\ state \in {"unattached", "connected", "ready", "closing", "closed"}
    /\ linked \in BOOLEAN /\ synchronous \in BOOLEAN
    /\ queue \in Seq(FrameType)
    /\ chain \in Seq(Nat)
    /\ receiver \in Nat /\ active \in Nat
    /\ after \in {"none", "reportError"}
    /\ calls \in Seq(CallType)
    /\ conn \in {"connected", "shutdown", "closing", "closed"}
    /\ toServer \in Seq(FrameType)
    /\ toClient \in Seq(AnswerType)
    /\ server \in {"idle", "open", "closing", "closed"}

(* After a synchronous frame nothing follows on the wire until its answer   *)
(* has arrived (Frame::synchronous): behind an unanswered synchronous frame *)
(* there is at most the confirmation of a close by the server, and while an *)
(* answer is under way to the client no call of the application is under    *)
(* way to the server.  The content behind a get-ok is not an answer.        *)
OneAtATime ==
    /\ \A i, j \in 1..Len(toServer) :
          i < j /\ toServer[i].kind \in SynchronousKinds => toServer[j].kind = "ChannelCloseOK"
    /\ (\E i \in 1..Len(toClient) : toClient[i].kind \notin {"ChannelClose", "BasicHeader", "Body"}) =>
          \A j \in 1..Len(toServer) : toServer[j].kind = "ChannelCloseOK"

(* A deferred is resolved by the answer to its own call and never by the    *)
(* answer to another one, although answers carry no reference to a call and *)
(* callbacks add new calls while an answer is being processed.              *)
AnswersMatch ==
    \A n \in 1..Len(calls) : calls[n].result = "success" => calls[n].by = n

(* The frames of the calls reach the wire in the order of the calls, those  *)
(* of one message without another frame in between, whether they were sent  *)
(* at once or queued first.                                                 *)
InOrder ==
    LET s == toServer \o queue
    IN  \A i, j \in 1..Len(s) : i < j /\ s[i].id > 0 /\ s[j].id > 0 => s[i].id <= s[j].id

(* Once the channel has asked to be closed it sends nothing more, except    *)
(* that it confirms a close that the server asked for at the same time.     *)
NothingAfterClose ==
    LET s == toServer \o queue
    IN  \A i, j \in 1..Len(s) : i < j /\ s[i].kind = "ChannelClose" => s[j].kind = "ChannelCloseOK"

(* A deferred that was handed out before the channel was closed and that is *)
(* still open.                                                              *)
Unsettled(n) == n <= Len(calls) /\ calls[n].result = "pending" /\ calls[n].at # "closed"

(* A channel that is closed leaves no frame queued and no deferred that was *)
(* handed out before open, whichever of the four ways it got closed.        *)
ClosedIsSettled ==
    state = "closed" /\ after = "none" =>
        /\ queue = <<>> /\ ~synchronous
        /\ \A n \in 1..Len(calls) : ~Unsettled(n)

(* Why that is so, as an inductive invariant: every open deferred is on the *)
(* chain that reportError empties; the deferred whose callback is running   *)
(* is settled and heads the chain, unless the channel failed meanwhile.     *)
Settling ==
    /\ linked => state # "unattached"
    /\ state = "unattached" => active = 0 /\ after = "none"
    /\ \A i \in 1..Len(chain) : chain[i] \in 1..Len(calls)
    /\ \A n \in 1..Len(calls) : Unsettled(n) => n \in ChainIds(chain)
    /\ ClosedIsSettled
    /\ state = "closed" /\ after = "none" => ~linked
    /\ active # 0 => active \in 1..Len(calls) /\ calls[active].result # "pending"
    /\ active # 0 /\ (chain = <<>> \/ Head(chain) # active) =>
          state = "closed" /\ \A n \in 1..Len(calls) : ~Unsettled(n)
    /\ after = "reportError" => state = "closed" /\ active # 0

(* A deferred that was resolved is not resolved again with another outcome. *)
ResolvedOnce ==
    [][\A n \in 1..Len(calls) :
          calls[n].result \in {"success", "error"} => calls'[n].result = calls[n].result]_vars

(* Every deferred that was handed out before the channel was closed is      *)
(* eventually resolved.                                                     *)
EveryCallSettles == \A n \in 1..MaxCalls : Unsettled(n) ~> ~Unsettled(n)

(* Connection::close() waits for the channels: this one stops waiting.      *)
ShutdownCompletes == (conn = "shutdown") ~> (conn # "shutdown")
=============================================================================
