------------------------------ MODULE Delivery ------------------------------
(***************************************************************************)
(* Messages on one channel, there and back: publish() cuts a body into     *)
(* frames; the server delivers it to a consumer, gives it to a get() or    *)
(* returns it; ChannelImpl finds the DeferredConsumer, DeferredGet or      *)
(* DeferredRecall that receives the frames, and that puts the message      *)
(* together again.  Consumers come and go in the meantime: consume(),      *)
(* cancel(), and a cancel by the server.                                   *)
(*                                                                         *)
(* A message is its number (it stands for exchange, routing key and meta   *)
(* data), a byte of its body is its place in it.  A receiving object is    *)
(* the number of the call that made it; object 0 is the DeferredRecall.    *)
(* Holding calls back and failing them is left to module Channel: here the *)
(* server may take the requests as soon as they are made.                  *)
(***************************************************************************)
EXTENDS Integers, Sequences, SequencesExt

CONSTANTS
    Tags,           \* consumer tags
    Sizes,          \* body sizes that are published
    MaxPayload,     \* ConnectionImpl::maxPayload()
    MaxMessages,    \* bound on the messages that are published
    MaxCalls,       \* bound on the calls of consume(), cancel() and get()
    Width,          \* number of values of the unsigned integer _bodySize
    None            \* no object

ASSUME DeliveryAssumption ==
    /\ Sizes \subseteq 0..(Width - 1) /\ Width \in Nat \ {0}
    /\ MaxPayload \in Nat \ {0} /\ MaxMessages \in Nat /\ MaxCalls \in Nat
    /\ None \notin Tags \union Nat

VARIABLES
    consumers,      \* ChannelImpl::_consumers: object by tag
    recall,         \* is there an object in ChannelImpl::_recall?
    receiver,       \* ChannelImpl::_receiver
    chain,          \* the deferreds from _oldestCallback on
    object,         \* _bodySize and _message of each receiving object, and what it streamed
    bodies,         \* the sizes of the published bodies, by message
    calls,          \* number of calls made
    up, down,       \* frames on their way to and from the server
    queue,          \* the server: messages in its queue
    subscribed,     \* the server: the consumer of each tag
    sent,           \* the server: for each message sent, its receiver and its number
    got             \* what complete() handed to the application

clientVars == <<consumers, recall, receiver, chain, object>>
serverVars == <<queue, subscribed, sent>>
vars == <<clientVars, bodies, calls, up, down, serverVars, got>>

-----------------------------------------------------------------------------
(* Cutting a body into frames.                                              *)

Body(size) == [i \in 1..size |-> i]

(* The loop in ChannelImpl::publish.                                        *)
Split(body, k) ==
    [i \in 1..((Len(body) + k - 1) \div k) |->
        SubSeq(body, (i - 1) * k + 1, IF i * k < Len(body) THEN i * k ELSE Len(body))]

-----------------------------------------------------------------------------
(* Calls of the application.                                                *)

publish ==
    /\ Len(bodies) < MaxMessages
    /\ \E size \in Sizes :
         LET id == Len(bodies) + 1
         IN  /\ bodies' = Append(bodies, size)
             /\ up' = Append(up, [type |-> "publish", id |-> id, size |-> size,
                                  pieces |-> Split(Body(size), MaxPayload)])
    /\ UNCHANGED <<clientVars, calls, down, serverVars, got>>

(* The frame is sent and the deferred is pushed.                            *)
Call(type, tag) ==
    /\ calls < MaxCalls
    /\ calls' = calls + 1
    /\ up' = Append(up, [type |-> type, tag |-> tag, object |-> calls + 1])
    /\ chain' = Append(chain, [type |-> type, object |-> calls + 1])
    /\ UNCHANGED <<consumers, recall, receiver, object, bodies, down, serverVars, got>>

consume == \E tag \in Tags : Call("consume", tag)
cancel == \E tag \in Tags : Call("cancel", tag)
get == Call("get", None)

(* ChannelImpl::recall makes the object that receives returned messages.    *)
recalls ==
    /\ ~recall
    /\ recall' = TRUE
    /\ UNCHANGED <<consumers, receiver, chain, object, bodies, calls, up, down, serverVars, got>>

-----------------------------------------------------------------------------
(* DeferredReceiver.                                                        *)

NoMessage == [id |-> 0, size |-> 0, body |-> <<>>]

(* initialize: the callback hears where the message comes from, and a new   *)
(* Message is constructed.                                                  *)
initialize(o, id) == [object EXCEPT ![o].message = [NoMessage EXCEPT !.id = id],
                                    ![o].data = <<>>]

(* Seeded fault: the receiver stays installed after the message.            *)
completeStays(o, state) ==
    /\ got' = Append(got, [object |-> o, id |-> state.message.id,
                           body |-> state.message.body, data |-> state.data])
    /\ object' = [object EXCEPT ![o] = [state EXCEPT !.message = NoMessage]]
    /\ UNCHANGED receiver

(* complete: the application gets the message, the object is ready for the  *)
(* next one, and the channel forgets the receiver.                          *)
complete(o, state) ==
    /\ got' = Append(got, [object |-> o, id |-> state.message.id,
                           body |-> state.message.body, data |-> state.data])
    /\ object' = [object EXCEPT ![o] = [state EXCEPT !.message = NoMessage]]
    /\ receiver' = None

(* The last part of both process() functions.                               *)
completeIfDone(o, state) ==
    \/ state.bodySize = 0 /\ complete(o, state)
    \/ /\ state.bodySize # 0
       /\ object' = [object EXCEPT ![o] = state]
       /\ UNCHANGED <<receiver, got>>

(* DeferredReceiver::process(BasicHeaderFrame), Message::setBodySize.       *)
processHeader(frame) ==
    completeIfDone(receiver,
        [object[receiver] EXCEPT !.bodySize = frame.size, !.message.size = frame.size])

(* Message::append never takes more than the header announced.              *)
append(message, piece) ==
    [message EXCEPT !.body = SubSeq(@ \o piece, 1,
        IF Len(@) + Len(piece) < message.size THEN Len(@) + Len(piece) ELSE message.size)]

(* Seeded fault: the bytes of the frame are counted with its header.        *)
processBodyMiscounts(frame) ==
    completeIfDone(receiver,
        [object[receiver] EXCEPT
            !.bodySize = (@ - Len(frame.piece) - 1) % Width,
            !.data = @ \o frame.piece,
            !.message = append(@, frame.piece)])

(* DeferredReceiver::process(BodyFrame): an unsigned subtraction.           *)
processBody(frame) ==
    completeIfDone(receiver,
        [object[receiver] EXCEPT
            !.bodySize = (@ - Len(frame.piece)) % Width,
            !.data = @ \o frame.piece,
            !.message = append(@, frame.piece)])

-----------------------------------------------------------------------------
(* Frames from the server.                                                  *)

Receive(type) == down # <<>> /\ Head(down).type = type /\ down' = Tail(down)

(* DeferredConsumer::reportSuccess installs the consumer.                   *)
consumeOk ==
    /\ Receive("consume-ok") /\ chain # <<>>
    /\ consumers' = [consumers EXCEPT ![Head(down).tag] = Head(chain).object]
    /\ chain' = Tail(chain)
    /\ UNCHANGED <<recall, receiver, object, bodies, calls, up, serverVars, got>>

(* DeferredCancel::reportSuccess uninstalls it.                             *)
cancelOk ==
    /\ Receive("cancel-ok") /\ chain # <<>>
    /\ consumers' = [consumers EXCEPT ![Head(down).tag] = None]
    /\ chain' = Tail(chain)
    /\ UNCHANGED <<recall, receiver, object, bodies, calls, up, serverVars, got>>

(* ChannelImpl::reportCancelled: the server has cancelled the consumer.     *)
cancelled ==
    /\ Receive("cancel")
    /\ consumers' = [consumers EXCEPT ![Head(down).tag] = None]
    /\ UNCHANGED <<recall, receiver, chain, object, bodies, calls, up, serverVars, got>>

(* Seeded fault: the deferred stays at the head of the chain.               *)
getOkStays ==
    /\ Receive("get-ok") /\ chain # <<>>
    /\ receiver' = Head(chain).object
    /\ object' = initialize(Head(chain).object, Head(down).id)
    /\ UNCHANGED <<chain, consumers, recall, bodies, calls, up, serverVars, got>>

(* BasicGetOKFrame::process, DeferredGet::reportSuccess: the oldest         *)
(* deferred becomes the receiver.                                           *)
getOk ==
    /\ Receive("get-ok") /\ chain # <<>>
    /\ receiver' = Head(chain).object
    /\ object' = initialize(Head(chain).object, Head(down).id)
    /\ chain' = Tail(chain)
    /\ UNCHANGED <<consumers, recall, bodies, calls, up, serverVars, got>>

getEmpty ==
    /\ Receive("get-empty") /\ chain # <<>>
    /\ chain' = Tail(chain)
    /\ UNCHANGED <<consumers, recall, receiver, object, bodies, calls, up, serverVars, got>>

(* BasicDeliverFrame::process, DeferredConsumer::process: a frame for a tag *)
(* that is not known is skipped.                                            *)
deliver ==
    /\ Receive("deliver")
    /\ LET o == consumers[Head(down).tag]
       IN  \/ o # None /\ receiver' = o /\ object' = initialize(o, Head(down).id)
           \/ o = None /\ UNCHANGED <<receiver, object>>
    /\ UNCHANGED <<consumers, recall, chain, bodies, calls, up, serverVars, got>>

(* BasicReturnFrame::process, DeferredRecall::process.                      *)
return ==
    /\ Receive("return")
    /\ \/ recall /\ receiver' = 0 /\ object' = initialize(0, Head(down).id)
       \/ ~recall /\ UNCHANGED <<receiver, object>>
    /\ UNCHANGED <<consumers, recall, chain, bodies, calls, up, serverVars, got>>

(* BasicHeaderFrame::process and BodyFrame::process: the frames of a        *)
(* message that nobody receives are skipped.                                *)
header ==
    /\ Receive("header")
    /\ \/ receiver # None /\ processHeader(Head(down))
       \/ receiver = None /\ UNCHANGED <<receiver, object, got>>
    /\ UNCHANGED <<consumers, recall, chain, bodies, calls, up, serverVars>>

body ==
    /\ Receive("body")
    /\ \/ receiver # None /\ processBody(Head(down))
       \/ receiver = None /\ UNCHANGED <<receiver, object, got>>
    /\ UNCHANGED <<consumers, recall, chain, bodies, calls, up, serverVars>>

-----------------------------------------------------------------------------
(* The server.  It takes the requests in order, and cuts the bodies that it *)
(* sends into frames of its own size.                                       *)

Request(type) == up # <<>> /\ Head(up).type = type /\ up' = Tail(up)

(* A message goes to an object: a method frame, a header and body frames.   *)
Send(method, message, o) ==
    /\ \E k \in 1..MaxPayload :
         LET pieces == Split(message.body, k)
         IN  down' = down \o <<method, [type |-> "header", size |-> message.size]>>
                         \o [i \in DOMAIN pieces |-> [type |-> "body", piece |-> pieces[i]]]
    /\ sent' = Append(sent, [object |-> o, id |-> message.id])

Stored(request) ==
    [id |-> request.id, size |-> request.size, body |-> FlattenSeq(request.pieces)]

serverRoutes ==
    /\ Request("publish")
    /\ queue' = Append(queue, Stored(Head(up)))
    /\ UNCHANGED <<clientVars, bodies, calls, down, subscribed, sent, got>>

serverReturns ==
    /\ Request("publish")
    /\ Send([type |-> "return", id |-> Head(up).id], Stored(Head(up)), 0)
    /\ UNCHANGED <<clientVars, bodies, calls, queue, subscribed, got>>

serverDelivers ==
    /\ queue # <<>>
    /\ \E tag \in Tags :
         /\ subscribed[tag] # None
         /\ Send([type |-> "deliver", tag |-> tag, id |-> Head(queue).id],
                 Head(queue), subscribed[tag])
    /\ queue' = Tail(queue)
    /\ UNCHANGED <<clientVars, bodies, calls, up, subscribed, got>>

serverSubscribes ==
    /\ Request("consume") /\ subscribed[Head(up).tag] = None
    /\ subscribed' = [subscribed EXCEPT ![Head(up).tag] = Head(up).object]
    /\ down' = Append(down, [type |-> "consume-ok", tag |-> Head(up).tag])
    /\ UNCHANGED <<clientVars, bodies, calls, queue, sent, got>>

serverUnsubscribes ==
    /\ Request("cancel")
    /\ subscribed' = [subscribed EXCEPT ![Head(up).tag] = None]
    /\ down' = Append(down, [type |-> "cancel-ok", tag |-> Head(up).tag])
    /\ UNCHANGED <<clientVars, bodies, calls, queue, sent, got>>

(* The server cancels: the queue has gone.                                  *)
serverCancels ==
    /\ \E tag \in Tags :
         /\ subscribed[tag] # None
         /\ subscribed' = [subscribed EXCEPT ![tag] = None]
         /\ down' = Append(down, [type |-> "cancel", tag |-> tag])
    /\ UNCHANGED <<clientVars, bodies, calls, up, queue, sent, got>>

serverGets ==
    /\ Request("get")
    /\ \/ /\ queue # <<>>
          /\ Send([type |-> "get-ok", id |-> Head(queue).id], Head(queue), Head(up).object)
          /\ queue' = Tail(queue)
       \/ /\ queue = <<>>
          /\ down' = Append(down, [type |-> "get-empty"])
          /\ UNCHANGED <<queue, sent>>
    /\ UNCHANGED <<clientVars, bodies, calls, subscribed, got>>

-----------------------------------------------------------------------------
Init ==
    /\ consumers = [tag \in Tags |-> None] /\ recall = FALSE /\ receiver = None
    /\ chain = <<>>
    /\ object = [o \in 0..MaxCalls |-> [bodySize |-> 0, message |-> NoMessage, data |-> <<>>]]
    /\ bodies = <<>> /\ calls = 0 /\ up = <<>> /\ down = <<>>
    /\ queue = <<>> /\ subscribed = [tag \in Tags |-> None]
    /\ sent = <<>> /\ got = <<>>

Application == publish \/ consume \/ cancel \/ get \/ recalls
Frames ==
    \/ consumeOk \/ cancelOk \/ cancelled \/ getOk \/ getEmpty
    \/ deliver \/ return \/ header \/ body
Server ==
    \/ serverRoutes \/ serverReturns \/ serverDelivers \/ serverSubscribes
    \/ serverUnsubscribes \/ serverCancels \/ serverGets

Next == Application \/ Frames \/ Server
Spec == Init /\ [][Next]_vars

-----------------------------------------------------------------------------
(* The receiver is an object that exists, what a message still lacks is     *)
(* less than what its header announced - an unsigned subtraction never      *)
(* wraps around -, and a message in the making is not longer than announced.*)
TypeOK ==
    /\ receiver \in {None} \union 0..calls
    /\ consumers \in [Tags -> {None} \union 1..calls]
    /\ \A o \in 0..MaxCalls :
         /\ object[o].bodySize \in 0..(Width - 1)
         /\ object[o].bodySize <= object[o].message.size
         /\ Len(object[o].message.body) <= object[o].message.size
         /\ object[o].message.size # 0 => o = receiver

(* A message that is handed over is the one that was published: the whole   *)
(* body, in order, both in the Message and in the streamed pieces, however  *)
(* the client and the server have cut it into frames.                       *)
Intact ==
    \A i \in DOMAIN got :
        /\ got[i].id \in DOMAIN bodies
        /\ got[i].body = Body(bodies[got[i].id])
        /\ got[i].data = got[i].body

(* Of a list of messages, object and number of those that are not returns.  *)
Known(m) == [object |-> m.object, id |-> m.id]
Wanted(ms) == FlattenSeq([i \in DOMAIN ms |-> IF ms[i].object = 0 THEN <<>> ELSE <<Known(ms[i])>>])

(* Every message goes to the object for which the server sent it - the      *)
(* consumer that was subscribed under this tag, the get() that asked for    *)
(* it, the recall object - once and in order, also when a tag is cancelled  *)
(* and used again.  Only returned messages may be skipped.                  *)
RightReceiver ==
    LET came == Wanted(got)
        went == Wanted(sent)
    IN  /\ IsPrefix(came, went)
        /\ down = <<>> => came = went
        /\ \A i \in DOMAIN got : \E j \in DOMAIN sent : sent[j] = Known(got[i])
=============================================================================
