----------------------------- MODULE Publisher -----------------------------
(***************************************************************************)
(* Publishing with confirms: Tagger (src/src/tagger.cpp) numbers the       *)
(* messages, Throttle (src/src/throttle.cpp) limits how many of them may   *)
(* be unconfirmed, and Reliable (include/amqpcpp/reliable.h) hands out a   *)
(* deferred result per message.  Throttled and Individual say which of the *)
(* layers are used: Throttle, Reliable<Tagger> or Reliable<Throttle>.      *)
(*                                                                         *)
(* Below them is a channel in confirm mode on an ordered connection, on    *)
(* which no other channel waits for an answer: Connection::close() then    *)
(* sends its frame at once, and ConnectionImpl::send() refuses frames as   *)
(* well as buffers (otherwise buffers would still leave until then).  The  *)
(* callbacks of a DeferredPublish may publish, close, flush or change the  *)
(* throttle: a confirm is processed in several steps (task), between which *)
(* the application may call.                                               *)
(***************************************************************************)
EXTENDS Integers, Sequences, FiniteSets

CONSTANTS
    Throttled,      \* is Throttle one of the layers?
    Individual,     \* is Reliable one of the layers?
    Windows,        \* the values that the throttle may be set to
    MaxMessages,    \* bound on the number of calls to publish()
    Flushes,        \* the arguments with which the application calls flush()
    PublishClosed,  \* does the application publish when that must fail?
    ServerRaises,   \* may the server raise a channel error?
    ConnMayClose,   \* may the application close the connection?
    ConnMayFail     \* may the connection be lost?

ASSUME PublisherAssumption ==
    /\ {Throttled, Individual, PublishClosed, ServerRaises, ConnMayClose, ConnMayFail}
          \subseteq BOOLEAN
    /\ Throttled \/ Individual
    /\ Windows \subseteq Nat /\ Windows # {}
    /\ MaxMessages \in Nat /\ Flushes \subseteq Nat

VARIABLES
    current,        \* Tagger::_current
    last,           \* Throttle::_last
    open,           \* Throttle::_open
    queue,          \* Throttle::_queue
    window,         \* Throttle::_throttle
    handlers,       \* Reliable::_handlers, from tags to messages
    task,           \* the confirm or error that is being processed
    lost,           \* the handlers that Reliable::reportError still has to call
    closing,        \* Tagger::_close is set
    closers,        \* the deferreds of channel->close() that report to it
    closeReports,   \* what was reported to the application about close()
    messages,       \* every message with what the application was told of it
    chan,           \* state of the channel
    link,           \* the connection: "up", "refusing" (state_closing), "down"
    toServer,       \* frames to the server, those queued in the channel included
    toClient,
    server,         \* the server's side of the channel
    received,       \* the messages that the server has received
    confirmed       \* the server's verdict, for the tags that it has confirmed

layerVars == <<current, last, open, queue, window, handlers>>
closeVars == <<closing, closers, closeReports>>
serverVars == <<server, received, confirmed>>
taskVars == <<task, lost>>
vars == <<layerVars, taskVars, closeVars, messages, chan, link, toServer, toClient, serverVars>>

-----------------------------------------------------------------------------
(* A message is sent as a first part (the publish and the header frame) and *)
(* a second one (the body).                                                 *)
Parts(tag, msg) == <<[tag |-> tag, msg |-> msg, part |-> 1], [tag |-> tag, msg |-> msg, part |-> 2]>>

(* What the client receives: tags is what the server confirms, of which the *)
(* frame only carries tag and multiple.                                     *)
Event(kind, tag, multiple, tags) ==
    [kind |-> kind, tag |-> tag, multiple |-> multiple, tags |-> tags]
Plain(kind) == Event(kind, 0, FALSE, {})
Idle == Plain("none")

(* ChannelImpl::usable, and whether its send() gets a frame to the server.  *)
usable == chan = "open"
Sends == chan = "open" /\ link = "up"

(* What the application is told of a message.                               *)
Report(ms, m, outcome) == [ms EXCEPT ![m].outcome = outcome]

-----------------------------------------------------------------------------
(* Seeded faults are variants of the definition that follows; no action     *)
(* uses them.  They stand for a plausible error in the code, and show that  *)
(* a property would catch it.                                               *)

(* Seeded fault: a message overtakes those that are queued.                 *)
directWhenRoom == Throttled => Cardinality(open) < window \/ last = current

(* Tagger::publish with Tagger::send or Throttle::send: direct is whether   *)
(* the frames bypass the queue of the throttle.  The tag is taken only when *)
(* every frame was accepted.                                                *)
direct == Throttled => queue = <<>> /\ (Cardinality(open) < window \/ last = current)

taggerPublish(msg, tag) ==
    \/ /\ closing
       /\ tag = 0
       /\ UNCHANGED <<current, last, open, queue, toServer>>
    \/ /\ ~closing /\ direct
       /\ last' = IF Throttled THEN current ELSE last
       /\ open' = IF Throttled THEN open \union {current} ELSE open
       /\ \/ /\ Sends
             /\ tag = current
             /\ toServer' = toServer \o Parts(current, msg)
             /\ current' = current + 1
          \/ /\ ~Sends
             /\ tag = 0
             /\ UNCHANGED <<toServer, current>>
       /\ UNCHANGED queue
    \/ /\ ~closing /\ ~direct
       /\ \/ /\ usable
             /\ tag = current
             /\ queue' = queue \o Parts(current, msg)
             /\ current' = current + 1
          \/ /\ ~usable
             /\ tag = 0
             /\ queue' = Append(queue, Parts(current, msg)[1])
             /\ UNCHANGED current
       /\ UNCHANGED <<last, open, toServer>>

(* Reliable::publish stores a handler, under tag 0 when the call failed.    *)
publish ==
    LET m == Len(messages) + 1
    IN  /\ m <= MaxMessages
        /\ PublishClosed \/ (~closing /\ Sends)
        /\ \E tag \in {0, current} :
             /\ taggerPublish(m, tag)
             /\ handlers' = IF Individual
                              THEN [t \in DOMAIN handlers \union {tag} |-> IF t = tag THEN m ELSE handlers[t]]
                              ELSE handlers
             /\ messages' = Append(messages, [tag |-> tag, outcome |-> IF tag = 0 THEN "error" ELSE "pending"])
        /\ UNCHANGED <<window, taskVars, closeVars, chan, link, toClient, serverVars>>

(* unacknowledged() of the outermost layer, after a step.                   *)
unacknowledged(hs, os, l) ==
    IF Individual THEN Cardinality(DOMAIN hs) ELSE Cardinality(os) + (current - l - 1)

(* ChannelImpl::close as Tagger calls it: a deferred that starts as failed  *)
(* reports at once, one that is made on a closed channel never does.        *)
channelClose(frames) ==
    \/ /\ Sends
       /\ chan' = "closing"
       /\ toServer' = Append(toServer \o frames, [tag |-> 0, msg |-> 0, part |-> 0])
       /\ closers' = closers + 1
       /\ UNCHANGED closeReports
    \/ /\ chan = "closing" \/ (chan = "open" /\ ~Sends)
       /\ closers' = closers + 1
       /\ closeReports' = Append(closeReports, "error")
       /\ toServer' = toServer \o frames
       /\ UNCHANGED chan
    \/ /\ chan = "closed"
       /\ toServer' = toServer \o frames
       /\ UNCHANGED <<chan, closers, closeReports>>

(* Tagger::close.  The deferred that it returns starts as failed when the   *)
(* channel cannot be used; what the channel reports before it is returned   *)
(* finds no callback yet, and shows when the application installs one.      *)
close ==
    /\ ~closing
    /\ closing' = TRUE
    /\ \/ /\ unacknowledged(handlers, open, last) # 0
          /\ closeReports' = IF usable THEN closeReports ELSE Append(closeReports, "error")
          /\ UNCHANGED <<closers, chan, toServer>>
       \/ /\ unacknowledged(handlers, open, last) = 0
          /\ \/ chan # "closed" /\ channelClose(<<>>)
             \/ /\ chan = "closed"
                /\ closeReports' = Append(closeReports, "error")
                /\ UNCHANGED <<closers, chan, toServer>>
    /\ UNCHANGED <<layerVars, taskVars, messages, link, toClient, serverVars>>

(* Throttle::throttle(n).                                                   *)
throttle ==
    /\ Throttled
    /\ window' \in Windows \ {window}
    /\ UNCHANGED <<current, last, open, queue, handlers, taskVars, closeVars, messages, chan, link,
                   toServer, toClient, serverVars>>

(* Throttle::flush(max): the frames of at most max messages leave the       *)
(* queue, of all messages when max is 0.  They are gone even when the       *)
(* channel does not take them.                                              *)
NewTags(k) == {queue[i].tag : i \in 1..k} \ {last}

(* Seeded fault: one message more than there is room for.                   *)
FlushPointLate(k, max) ==
    /\ max > 0 => Cardinality(NewTags(k)) <= max + 1
    /\ k < Len(queue) => /\ max > 0
                         /\ Cardinality(NewTags(k)) = max + 1
                         /\ queue[k + 1].tag \notin NewTags(k) \union {last}

FlushPoint(k, max) ==
    /\ max > 0 => Cardinality(NewTags(k)) <= max
    /\ k < Len(queue) => /\ max > 0
                         /\ Cardinality(NewTags(k)) = max
                         /\ queue[k + 1].tag \notin NewTags(k) \union {last}
LastTag(k) == IF k = 0 THEN last ELSE queue[k].tag
Flushed(k) == IF Sends THEN SubSeq(queue, 1, k) ELSE <<>>

flush ==
    /\ Throttled /\ queue # <<>>
    /\ \E max \in Flushes, k \in 0..Len(queue) :
         /\ FlushPoint(k, max)
         /\ queue' = SubSeq(queue, k + 1, Len(queue))
         /\ open' = open \union NewTags(k)
         /\ last' = LastTag(k)
         /\ toServer' = toServer \o Flushed(k)
    /\ UNCHANGED <<current, window, handlers, taskVars, closeVars, messages, chan, link, toClient, serverVars>>

-----------------------------------------------------------------------------
(* Confirms.                                                                *)

(* Seeded faults: every confirm is taken for a multiple one; a multiple one *)
(* does not include its own tag.                                            *)
CoversAll(e, tags) == {t \in tags : t <= e.tag}
CoversBelow(e, tags) == IF e.multiple THEN {t \in tags : t < e.tag} ELSE tags \intersect {e.tag}

Covers(e, tags) == IF e.multiple THEN {t \in tags : t <= e.tag} ELSE tags \intersect {e.tag}
Lowest(tags) == CHOOSE t \in tags : \A u \in tags : t <= u

(* Seeded fault: the handler is called but not erased.                      *)
reportHandlerKept(e) ==
    LET t == Lowest(Covers(e, DOMAIN handlers))
    IN  /\ messages' = Report(messages, handlers[t], e.kind)
        /\ UNCHANGED handlers

(* One turn of the loop in Reliable::onAck and onNack: the handler is       *)
(* erased before its callback runs.                                         *)
reportHandler(e) ==
    LET t == Lowest(Covers(e, DOMAIN handlers))
    IN  /\ handlers' = [u \in DOMAIN handlers \ {t} |-> handlers[u]]
        /\ messages' = Report(messages, handlers[t], e.kind)

(* Seeded faults: the channel is closed with the first confirm after        *)
(* close(); it is never closed.                                             *)
closeAtOnce(os, l, frames) ==
    \/ closing /\ channelClose(frames)
    \/ ~closing /\ toServer' = toServer \o frames /\ UNCHANGED <<chan, closers, closeReports>>
closeNever(os, l, frames) ==
    toServer' = toServer \o frames /\ UNCHANGED <<chan, closers, closeReports>>

(* Throttle::onAck and onNack, then those of Tagger, which close the        *)
(* channel when close() was called and nothing is left to be confirmed.     *)
closeWhenDone(os, l, frames) ==
    LET done == closing /\ unacknowledged(handlers, os, l) = 0
    IN  \/ done /\ channelClose(frames)
        \/ ~done /\ toServer' = toServer \o frames /\ UNCHANGED <<chan, closers, closeReports>>

baseConfirm(e) ==
    LET left == open \ Covers(e, open)
        room == window - Cardinality(left)
    IN  /\ \/ /\ Throttled /\ room > 0
              /\ \E k \in 0..Len(queue) :
                   /\ FlushPoint(k, room)
                   /\ queue' = SubSeq(queue, k + 1, Len(queue))
                   /\ open' = left \union NewTags(k)
                   /\ last' = LastTag(k)
                   /\ closeWhenDone(open', last', Flushed(k))
           \/ /\ Throttled => room <= 0
              /\ open' = left
              /\ closeWhenDone(left, last, <<>>)
              /\ UNCHANGED <<queue, last>>
        /\ UNCHANGED <<current, window, closing>>

(* BasicAckFrame::process and BasicNackFrame::process.                      *)
Receive(kinds) ==
    /\ toClient # <<>> /\ task = Idle /\ link # "down" /\ chan # "closed"
    /\ Head(toClient).kind \in kinds
    /\ toClient' = Tail(toClient)

onConfirm ==
    /\ Receive({"ack", "nack"})
    /\ LET e == Head(toClient)
       IN  \/ /\ Covers(e, DOMAIN handlers) # {}
              /\ reportHandler(e)
              /\ task' = e
              /\ UNCHANGED <<current, last, open, queue, window, closeVars, chan, toServer>>
           \/ /\ Covers(e, DOMAIN handlers) = {}
              /\ baseConfirm(e)
              /\ UNCHANGED <<handlers, messages, task>>
    /\ UNCHANGED <<lost, link, serverVars>>

(* The callback of a handler has returned: the next handler, or the base.   *)
nextHandler ==
    /\ task.kind \in {"ack", "nack"} /\ task.multiple
    /\ Covers(task, DOMAIN handlers) # {}
    /\ reportHandler(task)
    /\ UNCHANGED <<current, last, open, queue, window, taskVars, closeVars, chan, link, toServer, toClient, serverVars>>

handlersDone ==
    /\ task.kind \in {"ack", "nack"}
    /\ task.multiple => Covers(task, DOMAIN handlers) = {}
    /\ baseConfirm(task)
    /\ task' = Idle
    /\ UNCHANGED <<lost, handlers, messages, link, toClient, serverVars>>

-----------------------------------------------------------------------------
(* Errors and the end of the channel.                                       *)

(* Throttle::reportError and Tagger::reportError.                           *)
forget == queue' = <<>> /\ open' = {} /\ last' = 0 /\ current' = 1

(* Seeded fault: the handlers are dropped without a call.                   *)
reportLostNever(hs) ==
    /\ forget
    /\ task' = Idle
    /\ lost' = <<>>
    /\ UNCHANGED messages

(* Reliable::reportError has taken out the handlers hs and calls them one   *)
(* by one; then the base classes forget everything.                         *)
reportLost(hs) ==
    \/ /\ DOMAIN hs # {}
       /\ LET t == Lowest(DOMAIN hs)
          IN  /\ messages' = Report(messages, hs[t], "error")
              /\ lost' = [u \in DOMAIN hs \ {t} |-> hs[u]]
       /\ task' = Plain("error")
       /\ UNCHANGED <<current, last, open, queue>>
    \/ /\ DOMAIN hs = {}
       /\ forget
       /\ task' = Idle
       /\ UNCHANGED <<messages, lost>>

(* ChannelImpl::reportError fails the deferreds of the channel and calls    *)
(* the error callback, which is the outermost reportError.                  *)
reportError ==
    /\ chan' = "closed"
    /\ closeReports' = closeReports \o [n \in 1..closers |-> "error"]
    /\ closers' = 0
    /\ handlers' = <<>>
    /\ reportLost(handlers)

(* The callback of a lost message has returned.                             *)
nextLost ==
    /\ task.kind = "error"
    /\ reportLost(lost)
    /\ UNCHANGED <<window, handlers, closeVars, chan, link, toServer, toClient, serverVars>>

(* The server closes the channel because of an error.                       *)
channelError ==
    /\ Receive({"close"})
    /\ reportError
    /\ UNCHANGED <<window, closing, link, toServer, serverVars>>

(* The server confirms the close: ChannelImpl::reportClosed.  The error     *)
(* callback of the channel is not called.                                   *)
channelClosed ==
    /\ Receive({"close-ok"})
    /\ chan' = "closed"
    /\ closeReports' = closeReports \o [n \in 1..closers |-> IF n = 1 THEN "success" ELSE "error"]
    /\ closers' = 0
    /\ UNCHANGED <<layerVars, closing, taskVars, messages, link, toServer, serverVars>>

(* Connection::close(), and its end: no channel is told.                    *)
connectionClose ==
    /\ ConnMayClose /\ link = "up"
    /\ link' = "refusing"
    /\ UNCHANGED <<layerVars, taskVars, closeVars, messages, chan, toServer, toClient, serverVars>>

connectionClosed ==
    /\ link = "refusing" /\ task = Idle
    /\ toServer = <<>> /\ (toClient = <<>> \/ chan = "closed")
    /\ link' = "down"
    /\ UNCHANGED <<layerVars, taskVars, closeVars, messages, chan, toServer, toClient, serverVars>>

(* ConnectionImpl::fail(message): the channels are told.                    *)
connectionFail ==
    /\ ConnMayFail /\ link # "down" /\ task = Idle
    /\ link' = "down"
    /\ \/ chan # "closed" /\ reportError
       \/ /\ chan = "closed"
          /\ UNCHANGED <<current, last, open, queue, handlers, taskVars, closers, closeReports,
                         messages, chan>>
    /\ UNCHANGED <<window, closing, toServer, toClient, serverVars>>

-----------------------------------------------------------------------------
(* The server (external): messages are numbered as they arrive, and each is *)
(* confirmed once, alone or together with all earlier ones.                 *)

serverReceive ==
    /\ toServer # <<>> /\ link # "down"
    /\ toServer' = Tail(toServer)
    /\ LET f == Head(toServer)
       IN  \/ /\ server = "open"
              /\ received' = IF f.part = 2 THEN Append(received, f.msg) ELSE received
              /\ toClient' = IF f.part = 0 THEN Append(toClient, Plain("close-ok")) ELSE toClient
              /\ server' = IF f.part = 0 THEN "closed" ELSE "open"
           \/ /\ server = "closed"
              /\ UNCHANGED <<received, toClient, server>>
    /\ UNCHANGED <<layerVars, taskVars, closeVars, messages, chan, link, confirmed>>

Unconfirmed == (1..Len(received)) \ DOMAIN confirmed

serverConfirm ==
    /\ server = "open" /\ link # "down"
    /\ \E t \in Unconfirmed, multiple \in BOOLEAN, kind \in {"ack", "nack"} :
         LET tags == IF multiple THEN {u \in Unconfirmed : u <= t} ELSE {t}
         IN  /\ toClient' = Append(toClient, Event(kind, t, multiple, tags))
             /\ confirmed' = [u \in DOMAIN confirmed \union tags |->
                                IF u \in tags THEN kind ELSE confirmed[u]]
    /\ UNCHANGED <<layerVars, taskVars, closeVars, messages, chan, link, toServer, server, received>>

serverRaises ==
    /\ ServerRaises /\ server = "open" /\ link # "down"
    /\ server' = "closed"
    /\ toClient' = Append(toClient, Plain("close"))
    /\ UNCHANGED <<layerVars, taskVars, closeVars, messages, chan, link, toServer, received, confirmed>>

-----------------------------------------------------------------------------
(* The channel is ready and in confirm mode.                                *)
Init ==
    /\ current = 1 /\ last = 0 /\ open = {} /\ queue = <<>>
    /\ window \in Windows
    /\ handlers = <<>>
    /\ task = Idle /\ lost = <<>>
    /\ closing = FALSE /\ closers = 0 /\ closeReports = <<>>
    /\ messages = <<>>
    /\ chan = "open" /\ link = "up"
    /\ toServer = <<>> /\ toClient = <<>>
    /\ server = "open" /\ received = <<>> /\ confirmed = <<>>

Application == publish \/ close \/ throttle \/ flush \/ connectionClose
Library ==
    \/ onConfirm \/ nextHandler \/ handlersDone \/ nextLost
    \/ channelError \/ channelClosed \/ connectionClosed
Server == serverReceive \/ serverConfirm \/ serverRaises

Next == Application \/ Library \/ Server \/ connectionFail

(* The event loop handles what arrives, callbacks return, and the server    *)
(* reads and confirms every message.                                        *)
Fairness == WF_vars(Library) /\ WF_vars(serverReceive) /\ WF_vars(serverConfirm)

Spec == Init /\ [][Next]_vars
FairSpec == Spec /\ Fairness

-----------------------------------------------------------------------------
(* What must hold.                                                          *)

(* The tags that the client hands out are the numbers that the server gives *)
(* to the messages, although messages wait in the throttle and publishes    *)
(* fail: a confirm for a tag is about the message that was given that tag.  *)
TagAgreement == \A i \in 1..Len(received) : messages[received[i]].tag = i

(* An ack or nack that is reported for a message is the verdict of the      *)
(* server on that very message.                                             *)
Truthful ==
    \A m \in 1..Len(messages) :
        LET t == messages[m].tag
        IN  messages[m].outcome \in {"ack", "nack"} =>
                t \in DOMAIN confirmed /\ confirmed[t] = messages[m].outcome

TagsUnderWay ==
    {toServer[i].tag : i \in 1..Len(toServer)} \union Unconfirmed \union task.tags
        \union UNION {toClient[i].tags : i \in 1..Len(toClient)}

(* The tags that the throttle counts as open are those of the messages that *)
(* are on their way to the server, unconfirmed there, or whose confirm is   *)
(* on its way back: a slot of the window is neither leaked nor freed early. *)
OpenIsInFlight ==
    Throttled /\ chan = "open" /\ link = "up" /\ server = "open" => open = TagsUnderWay

Outstanding == {toServer[i].msg : i \in 1..Len(toServer)} \union {received[t] : t \in Unconfirmed}

(* Throttle: a step that sends another message leaves no more messages      *)
(* unconfirmed at the server than the throttle allows (unless it is a       *)
(* flush() of the application).                                             *)
ThrottleBound ==
    [][Throttled /\ ~(Outstanding' \subseteq Outstanding) /\ chan' = "open" =>
          Cardinality(Outstanding') <= window']_vars

(* Tagger::close closes the channel only when every message that was        *)
(* accepted has been sent and confirmed, those in the throttle included.    *)
CloseAfterConfirms ==
    chan = "closing" =>
        \A m \in 1..Len(messages) :
            messages[m].tag > 0 => /\ messages[m].tag \in DOMAIN confirmed
                                   /\ Individual => messages[m].outcome # "pending"

(* What was reported for a message is not reported otherwise later.         *)
ReportedOnce ==
    [][\A m \in 1..Len(messages) :
          messages[m].outcome # "pending" => messages'[m].outcome = messages[m].outcome]_vars

Pending(m) == m <= Len(messages) /\ messages[m].outcome = "pending"

(* Every message that Reliable accepts is eventually acked, nacked or       *)
(* reported as lost.                                                        *)
EveryMessageReported == Individual => \A m \in 1..MaxMessages : Pending(m) ~> ~Pending(m)

(* A call of Tagger::close is answered, by the confirm of the last message, *)
(* unless the channel fails or its connection ends first.                   *)
CloseIsAnswered == closing ~> (closeReports # <<>> \/ chan = "closed" \/ link = "down")
=============================================================================
