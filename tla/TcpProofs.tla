----------------------------- MODULE TcpProofs -----------------------------
(***************************************************************************)
(* How a TcpConnection ends and what it writes, for every way through its  *)
(* states: plain and with TLS, with any sizes of the buffers, with and     *)
(* without close(true).                                                    *)
(*                                                                         *)
(* The destructor of the last state that has the socket makes the calls    *)
(* onLost() and onDetached().  So the socket must belong to the state from *)
(* TcpConnected or SslHandshake on, nothing but the resolver may have the  *)
(* pipe, and every way on which the AMQP connection stops being open must  *)
(* have told the handler why (EndInv).                                     *)
(*                                                                         *)
(* The bytes in the TcpOutBuffer are what its chunks hold, less what is    *)
(* skipped in the first one.  add() and shrink() keep the chunks non-empty *)
(* and the skipped part inside the first chunk, and change the bytes as a  *)
(* queue does; with that (BufInv) every step is one of ByteFifo, or none.  *)
(***************************************************************************)
EXTENDS Tcp, Flattening

HandlerType ==
    [pipe : SUBSET Both, socket : SUBSET Both, connected : BOOLEAN, error : BOOLEAN,
     closed : BOOLEAN, lost : BOOLEAN, detached : BOOLEAN]

Shapes ==
    /\ impl \in {"resolver", "tcp", "handshake", "ssl", "shutdown", "closed"}
    /\ thread \in {"running", "connected", "failed"}
    /\ socket \in BOOLEAN /\ closing \in BOOLEAN /\ secure \in BOOLEAN
    /\ ssl \in {"idle", "sending", "receiving", "error"}
    /\ step \in {"idle", "write", "receive", "parse"}
    /\ amqp \in {"open", "error", "closed"}
    /\ handler \in HandlerType

(* Who has the pipe and the socket, and in which states process() can be.   *)
Ownership ==
    /\ impl = "resolver" => /\ handler.socket = {} /\ ~handler.connected
                            /\ socket <=> thread = "connected"
    /\ impl # "resolver" => handler.pipe = {} /\ thread # "running"
    /\ impl \in {"tcp", "handshake", "ssl", "shutdown"} => socket
    /\ step \in {"write", "receive"} => impl = "ssl"
    /\ step = "parse" => impl \in {"tcp", "ssl"}

(* The handler knows why the AMQP connection is no longer open.             *)
Reasons ==
    /\ amqp # "open" => handler.closed \/ handler.error
    /\ closing => amqp # "open"
    /\ impl = "shutdown" => amqp # "open"
    /\ impl = "ssl" /\ ssl = "error" => amqp # "open"

EndInv == Shapes /\ Ownership /\ Reasons /\ CleanEnd

-----------------------------------------------------------------------------
(* The calls on the handler.                                                *)

Same(g, h) ==
    g.connected = h.connected /\ g.error = h.error /\ g.closed = h.closed

(* monitor(): the socket.                                                   *)
LEMMA SocketShape ==
    ASSUME NEW h \in HandlerType, NEW events \in SUBSET Both
    PROVE  LET g == monitor(h, "socket", events)
           IN  /\ g \in HandlerType /\ Same(g, h) /\ g.pipe = h.pipe /\ g.socket = events
               /\ g.lost = h.lost /\ g.detached = h.detached
BY DEF monitor, HandlerType, Same

(* monitor(): the pipe is left.                                             *)
LEMMA PipeShape ==
    ASSUME NEW h \in HandlerType
    PROVE  LET g == monitor(h, "pipe", {})
           IN  /\ g \in HandlerType /\ Same(g, h) /\ g.pipe = {} /\ g.socket = h.socket
               /\ g.lost = h.lost /\ g.detached = h.detached
BY DEF monitor, HandlerType, Same

(* onConnected().                                                           *)
LEMMA ConnectedShape ==
    ASSUME NEW h \in HandlerType
    PROVE  LET g == onConnected(h)
           IN  /\ g \in HandlerType /\ g.pipe = h.pipe /\ g.socket = h.socket
               /\ g.lost = h.lost /\ g.detached = h.detached
               /\ g.error = h.error /\ g.closed = h.closed
BY DEF onConnected, HandlerType, Same

(* onDetached().                                                            *)
LEMMA DetachedShape ==
    ASSUME NEW h \in HandlerType
    PROVE  LET g == onDetached(h)
           IN  /\ g \in HandlerType /\ Same(g, h) /\ g.pipe = h.pipe /\ g.socket = h.socket
               /\ g.lost = h.lost /\ g.detached
BY DEF onDetached, HandlerType, Same

(* onLost(), which onDetached() follows.                                    *)
LEMMA LostShape ==
    ASSUME NEW h \in HandlerType
    PROVE  LET g == onLost(h)
           IN  /\ g \in HandlerType /\ Same(g, h) /\ g.pipe = h.pipe /\ g.socket = h.socket
               /\ g.lost /\ g.detached
<1> DEFINE c == [h EXCEPT !.lost = TRUE]
<1>1. c \in HandlerType /\ Same(c, h) /\ c.pipe = h.pipe /\ c.socket = h.socket /\ c.lost
  BY DEF HandlerType, Same
<1>2. onLost(h) = onDetached(c)
  BY DEF onLost
<1> HIDE DEF c
<1> QED
  BY <1>1, <1>2, DetachedShape DEF Same

(* onError(): the handler has been told why.                                *)
LEMMA ErrorShape ==
    ASSUME NEW h \in HandlerType, NEW connected \in BOOLEAN, amqp = "closed" => h.closed \/ h.error
    PROVE  LET g == onError(h, connected)
           IN  /\ g \in HandlerType /\ g.connected = h.connected /\ g.pipe = h.pipe /\ g.socket = h.socket
               /\ g.lost = h.lost /\ (g.closed \/ g.error)
               /\ ~connected => g.detached
               /\ connected => g.detached = h.detached
<1> DEFINE told == IF amqp = "closed" THEN h ELSE [h EXCEPT !.error = TRUE]
<1>1. /\ told \in HandlerType /\ told.connected = h.connected /\ told.pipe = h.pipe
      /\ told.socket = h.socket /\ told.lost = h.lost /\ (told.closed \/ told.error)
      /\ told.detached = h.detached
  <2>1. CASE amqp = "closed"
    BY <2>1
  <2>2. CASE amqp # "closed"
    BY <2>2 DEF HandlerType
  <2> QED
    BY <2>1, <2>2
<1>2. onError(h, connected) = IF connected THEN told ELSE onDetached(told)
  BY DEF onError
<1> HIDE DEF told
<1> QED
  BY <1>1, <1>2, DetachedShape DEF Same

(* A state with the socket is destructed: the handler hears of the end.     *)
LEMMA CleanupShape ==
    ASSUME NEW h \in HandlerType
    PROVE  LET g == cleanup(h, TRUE)
           IN  /\ g \in HandlerType /\ Same(g, h) /\ g.pipe = h.pipe /\ g.socket = {}
               /\ g.lost /\ g.detached
<1>1. {} \in SUBSET Both
  OBVIOUS
<1> DEFINE m == monitor(h, "socket", {})
<1>2. m \in HandlerType /\ Same(m, h) /\ m.pipe = h.pipe /\ m.socket = {}
  BY <1>1, SocketShape
<1>3. cleanup(h, TRUE) = onLost(m)
  BY DEF cleanup
<1> HIDE DEF m
<1> QED
  BY <1>2, <1>3, LostShape DEF Same

(* What is known of the handler once its connection is in TcpClosed.        *)
Ended(h) ==
    /\ h \in HandlerType /\ h.pipe = {} /\ h.socket = {}
    /\ h.detached /\ (h.connected => h.lost) /\ (h.closed \/ h.error)

(* The way to TcpClosed: every state but the resolver has the socket.       *)
LEMMA ClosedKeeps ==
    ASSUME Shapes, impl' = "closed", socket' = FALSE, step' = "idle", Ended(handler'),
           amqp' \in {"open", "error", "closed"}, ssl' \in {"idle", "sending", "receiving", "error"},
           UNCHANGED <<secure, closing>>, closing => amqp' # "open",
           thread' \in {"connected", "failed"}
    PROVE  EndInv'
<1>1. Shapes'
  BY DEF Shapes, Ended
<1>2. Ownership'
  BY DEF Ownership, Ended
<1>3. Reasons'
  BY DEF Reasons, Ended
<1>4. CleanEnd'
  BY DEF CleanEnd, Ended
<1> QED
  BY <1>1, <1>2, <1>3, <1>4 DEF EndInv

-----------------------------------------------------------------------------
(* A step between states that have the socket.                              *)

Live == {"tcp", "handshake", "ssl", "shutdown"}

(* The flags that are watched.                                              *)
LEMMA EventSets == Both \in SUBSET Both /\ Readable \in SUBSET Both /\ Writable \in SUBSET Both /\ {} \in SUBSET Both
BY DEF Both, Readable, Writable

(* The parts of EndInv, one by one.                                         *)
LEMMA LiveKeeps ==
    ASSUME EndInv, impl \in Live, impl' \in Live, handler' \in HandlerType, handler'.pipe = {},
           UNCHANGED <<secure, thread, socket>>,
           amqp' \in {"open", "error", "closed"}, amqp' # "open" => handler'.closed \/ handler'.error,
           closing' \in BOOLEAN, closing' => amqp' # "open", impl' = "shutdown" => amqp' # "open",
           ssl' \in {"idle", "sending", "receiving", "error"},
           impl' = "ssl" /\ ssl' = "error" => amqp' # "open",
           step' \in {"idle", "write", "receive", "parse"},
           step' \in {"write", "receive"} => impl' = "ssl", step' = "parse" => impl' \in {"tcp", "ssl"}
    PROVE  EndInv'
<1>1. thread # "running" /\ socket
  BY DEF EndInv, Ownership, Live
<1>2. Shapes'
  BY DEF EndInv, Shapes, Live
<1>3. Ownership'
  BY <1>1 DEF Ownership, Live
<1>4. Reasons'
  BY DEF Reasons
<1>5. CleanEnd'
  BY DEF CleanEnd, Live
<1> QED
  BY <1>2, <1>3, <1>4, <1>5 DEF EndInv

(* Nothing that EndInv speaks of changes.                                   *)
LEMMA SameKeeps ==
    ASSUME EndInv, UNCHANGED <<secure, impl, thread, socket, closing, ssl, step, amqp, handler>>
    PROVE  EndInv'
BY DEF EndInv, Shapes, Ownership, Reasons, CleanEnd

(* The handler as it is, and as monitor() leaves it.                        *)
LEMMA HandlerNow ==
    ASSUME EndInv
    PROVE  /\ handler \in HandlerType /\ (amqp # "open" => handler.closed \/ handler.error)
           /\ impl \in Live => handler.pipe = {} /\ thread \in {"connected", "failed"} /\ socket = TRUE
           /\ \A events \in SUBSET Both :
                LET g == monitor(handler, "socket", events)
                IN  /\ g \in HandlerType /\ g.pipe = handler.pipe
                    /\ g.closed = handler.closed /\ g.error = handler.error
<1>1. handler \in HandlerType
  BY DEF EndInv, Shapes
<1>2. \A events \in SUBSET Both :
        LET g == monitor(handler, "socket", events)
        IN  /\ g \in HandlerType /\ g.pipe = handler.pipe
            /\ g.closed = handler.closed /\ g.error = handler.error
  BY <1>1, SocketShape DEF Same
<1>3. amqp # "open" => handler.closed \/ handler.error
  BY DEF EndInv, Reasons
<1>4. impl \in Live => handler.pipe = {} /\ thread \in {"connected", "failed"} /\ socket = TRUE
  BY DEF EndInv, Ownership, Shapes, Live
<1> QED
  BY <1>1, <1>2, <1>3, <1>4

(* The destructor of the state, after the handler has been told why.        *)
LEMMA LiveCloses ==
    ASSUME EndInv, impl \in Live, NEW h \in HandlerType, h.pipe = {}, h.closed \/ h.error, toClosed(h),
           amqp' \in {"open", "error", "closed"}, closing => amqp' # "open",
           ssl' \in {"idle", "sending", "receiving", "error"}, UNCHANGED <<secure, thread, closing>>
    PROVE  EndInv'
<1>1. socket = TRUE /\ thread \in {"connected", "failed"}
  BY HandlerNow
<1>2. impl' = "closed" /\ socket' = FALSE /\ step' = "idle" /\ handler' = cleanup(h, TRUE)
  BY <1>1 DEF toClosed
<1>3. Ended(handler')
  BY <1>2, CleanupShape DEF Ended, Same
<1> QED
  BY <1>1, <1>2, <1>3, ClosedKeeps DEF EndInv

-----------------------------------------------------------------------------
(* One lemma for each group of steps.                                       *)

(* The thread, and the first state after the resolver.                      *)
LEMMA ConnectingEnds ==
    ASSUME EndInv, Connecting
    PROVE  EndInv'
<1>1. handler \in HandlerType /\ amqp \in {"open", "error", "closed"} /\ closing \in BOOLEAN
      /\ ssl \in {"idle", "sending", "receiving", "error"}
  BY DEF EndInv, Shapes
<1>2. CASE threadEnds
  <2>1. UNCHANGED <<secure, impl, closing, ssl, step, amqp, handler>> /\ thread = "running"
        /\ \E result \in {"connected", "failed"} : thread' = result /\ socket' = (result = "connected")
    BY <1>2 DEF threadEnds
  <2>2. impl = "resolver"
    BY <2>1 DEF EndInv, Ownership
  <2>3. Shapes'
    BY <2>1 DEF EndInv, Shapes
  <2>4. Ownership'
    BY <2>1, <2>2 DEF EndInv, Ownership
  <2>5. Reasons' /\ CleanEnd'
    BY <2>1, <2>2 DEF EndInv, Reasons, CleanEnd
  <2> QED
    BY <2>3, <2>4, <2>5 DEF EndInv
<1>3. ASSUME resolved
      PROVE  /\ handler.socket = {} /\ ~handler.connected /\ thread # "running"
             /\ socket = (thread = "connected") /\ impl = "resolver" /\ step = "idle"
  <2>1. impl = "resolver" /\ thread # "running"
    BY <1>3 DEF resolved
  <2> QED
    BY <2>1 DEF EndInv, Ownership, Shapes
<1>4. amqp = "closed" => handler.closed \/ handler.error
  BY DEF EndInv, Reasons
<1>5. CASE resolveFails
  <2>1. /\ resolved /\ thread = "failed" /\ amqp' = "closed"
        /\ toClosed(monitor(onError(handler, FALSE), "pipe", {}))
        /\ UNCHANGED <<secure, thread, closing, ssl>>
    BY <1>5 DEF resolveFails
  <2>2. socket = FALSE /\ handler.socket = {} /\ ~handler.connected
    BY <1>3, <2>1
  <2> DEFINE e == onError(handler, FALSE)
  <2>3. /\ e \in HandlerType /\ e.connected = handler.connected /\ e.socket = {}
        /\ (e.closed \/ e.error) /\ e.detached
    BY <1>1, <1>4, <2>2, ErrorShape
  <2>4. /\ impl' = "closed" /\ socket' = FALSE /\ step' = "idle"
        /\ handler' = monitor(e, "pipe", {})
    BY <2>1, <2>2 DEF toClosed, cleanup
  <2> HIDE DEF e
  <2>5. Ended(handler')
    BY <2>2, <2>3, <2>4, PipeShape DEF Ended, Same
  <2> QED
    BY <1>1, <2>1, <2>4, <2>5, ClosedKeeps DEF EndInv
<1>6. ASSUME resolved, thread = "connected", NEW events \in SUBSET Both, impl' \in {"tcp", "handshake"},
             handler' = monitor(monitor(onConnected(handler), "socket", events), "pipe", {}),
             UNCHANGED <<secure, thread, socket, closing, ssl, step, amqp>>
      PROVE  EndInv'
  <2> DEFINE c == onConnected(handler)
             m == monitor(c, "socket", events)
  <2>1. c \in HandlerType /\ c.error = handler.error /\ c.closed = handler.closed
    BY <1>1, ConnectedShape
  <2>2. m \in HandlerType /\ Same(m, c)
    BY <2>1, <1>6, SocketShape
  <2>3. handler' = monitor(m, "pipe", {})
    BY <1>6
  <2> HIDE DEF c, m
  <2>4. /\ handler' \in HandlerType /\ handler'.pipe = {}
        /\ handler'.closed = handler.closed /\ handler'.error = handler.error
    BY <2>1, <2>2, <2>3, PipeShape DEF Same
  <2>5. socket = TRUE /\ step = "idle"
    BY <1>3, <1>6
  <2>6. Shapes'
    BY <2>4, <1>6 DEF EndInv, Shapes
  <2>7. Ownership'
    BY <2>4, <2>5, <1>6 DEF Ownership
  <2>8. Reasons' /\ CleanEnd'
    BY <2>4, <1>6 DEF EndInv, Reasons, CleanEnd
  <2> QED
    BY <2>6, <2>7, <2>8 DEF EndInv
<1>7. CASE connectPlain
  <2>1. \E events \in {Both, Readable} :
          handler' = monitor(monitor(onConnected(handler), "socket", events), "pipe", {})
    BY <1>7 DEF connectPlain
  <2> QED
    BY <1>6, <1>7, <2>1, EventSets DEF connectPlain
<1>8. CASE connectSecure
  BY <1>6, <1>8, EventSets DEF connectSecure
<1>9. CASE connectRefused
  <2>1. /\ resolved /\ thread = "connected" /\ impl' = "closed" /\ socket' = FALSE /\ amqp' = "closed"
        /\ handler' = monitor(onError(cleanup(onConnected(handler), TRUE), FALSE), "pipe", {})
        /\ UNCHANGED <<secure, thread, closing, ssl, step>>
    BY <1>9 DEF connectRefused
  <2> DEFINE c == onConnected(handler)
             d == cleanup(c, TRUE)
             e == onError(d, FALSE)
  <2>2. c \in HandlerType /\ c.error = handler.error /\ c.closed = handler.closed
    BY <1>1, ConnectedShape
  <2>3. d \in HandlerType /\ Same(d, c) /\ d.socket = {} /\ d.lost
    BY <2>2, CleanupShape
  <2> HIDE DEF c
  <2>4. amqp = "closed" => d.closed \/ d.error
    BY <1>4, <2>2, <2>3 DEF Same
  <2> HIDE DEF d
  <2>5. /\ e \in HandlerType /\ e.socket = {} /\ e.lost = d.lost /\ (e.closed \/ e.error) /\ e.detached
    BY <2>3, <2>4, ErrorShape
  <2>6. handler' = monitor(e, "pipe", {})
    BY <2>1 DEF e, d, c
  <2> HIDE DEF e
  <2>7. Ended(handler')
    BY <2>3, <2>5, <2>6, PipeShape DEF Ended, Same
  <2>8. step' = "idle"
    BY <1>3, <2>1
  <2> QED
    BY <1>1, <2>1, <2>7, <2>8, ClosedKeeps DEF EndInv
<1> QED
  BY <1>2, <1>5, <1>7, <1>8, <1>9 DEF Connecting

(* Facts about a state that has the socket.                                 *)
LEMMA LiveFacts ==
    ASSUME EndInv
    PROVE  /\ handler \in HandlerType /\ amqp \in {"open", "error", "closed"} /\ closing \in BOOLEAN
           /\ ssl \in {"idle", "sending", "receiving", "error"}
           /\ step \in {"idle", "write", "receive", "parse"}
           /\ closing => amqp # "open"
           /\ impl = "shutdown" => amqp # "open"
           /\ impl = "ssl" /\ ssl = "error" => amqp # "open"
           /\ step \in {"write", "receive"} => impl = "ssl"
           /\ step = "parse" => impl \in {"tcp", "ssl"}
BY DEF EndInv, Shapes, Ownership, Reasons

(* Sending does not end anything.                                           *)
LEMMA SendingEnds ==
    ASSUME EndInv, Sending
    PROVE  EndInv'
<1>1. CASE sendLater
  BY <1>1, SameKeeps DEF sendLater
<1>2. CASE sendPlain
  <2>1. /\ impl = "tcp" /\ UNCHANGED <<secure, impl, thread, socket, closing, ssl, step, amqp>>
        /\ handler' = handler \/ handler' = monitor(handler, "socket", Both)
    BY <1>2 DEF sendPlain
  <2> QED
    BY <2>1, HandlerNow, LiveFacts, LiveKeeps, EventSets DEF Live
<1>3. CASE sendSecure
  <2>1. /\ impl = "ssl" /\ ssl = "idle" /\ ~closing /\ amqp # "closed"
        /\ UNCHANGED <<secure, impl, thread, socket, closing, step>>
    BY <1>3 DEF sendSecure
  <2>2. CASE UNCHANGED <<ssl, handler, amqp>>
    BY <2>1, <2>2, SameKeeps
  <2>3. CASE repeat("sending", handler) /\ UNCHANGED amqp
    <3>1. ssl' = "sending" /\ \E events \in {Readable, Both} : handler' = monitor(handler, "socket", events)
      BY <2>3 DEF repeat
    <3> QED
      BY <2>1, <2>3, <3>1, HandlerNow, LiveFacts, LiveKeeps, EventSets DEF Live
  <2>4. CASE /\ ssl' = "error" /\ amqp' = "closed"
             /\ handler' = monitor(onError(handler, TRUE), "socket", Readable)
    <3> DEFINE e == onError(handler, TRUE)
    <3>1. e \in HandlerType /\ e.pipe = handler.pipe /\ (e.closed \/ e.error)
      BY <2>1, HandlerNow, ErrorShape
    <3>2. handler' = monitor(e, "socket", Readable)
      BY <2>4
    <3> HIDE DEF e
    <3>3. handler' \in HandlerType /\ handler'.pipe = handler.pipe /\ (handler'.closed \/ handler'.error)
      BY <3>1, <3>2, SocketShape, EventSets DEF Same
    <3> QED
      BY <2>1, <2>4, <3>3, HandlerNow, LiveFacts, LiveKeeps DEF Live
  <2> QED
    BY <1>3, <2>2, <2>3, <2>4 DEF sendSecure
<1> QED
  BY <1>1, <1>2, <1>3 DEF Sending

(* close() after the end of the AMQP connection.                            *)
LEMMA AmqpEnds ==
    ASSUME EndInv, amqpClosed \/ amqpError
    PROVE  EndInv'
<1>1. PICK h : /\ \/ h = [handler EXCEPT !.closed = TRUE]
                  \/ h = [handler EXCEPT !.error = TRUE]
               /\ close(h) /\ step = "parse" /\ amqp' \in {"closed", "error"}
               /\ UNCHANGED <<secure, impl, thread, socket, ssl, step>>
  BY DEF amqpClosed, amqpError
<1>2. impl \in {"tcp", "ssl"} /\ handler \in HandlerType
  BY <1>1, LiveFacts
<1>3. h \in HandlerType /\ h.pipe = handler.pipe /\ (h.closed \/ h.error)
  BY <1>1, <1>2 DEF HandlerType
<1>4. closing' = TRUE /\ (handler' = h \/ \E events \in {Readable, Both} : handler' = monitor(h, "socket", events))
  BY <1>1 DEF close
<1>5. handler' \in HandlerType /\ handler'.pipe = handler.pipe /\ (handler'.closed \/ handler'.error)
  BY <1>3, <1>4, SocketShape, EventSets DEF Same
<1> QED
  BY <1>1, <1>2, <1>4, <1>5, HandlerNow, LiveFacts, LiveKeeps DEF Live

(* TcpConnected::process.                                                   *)
LEMMA PlainEnds ==
    ASSUME EndInv, Plain
    PROVE  EndInv'
<1>1. CASE tcpWritable
  <2>1. /\ impl = "tcp" /\ UNCHANGED <<secure, impl, thread, socket, closing, ssl, step, amqp>>
        /\ handler' = handler \/ handler' = monitor(handler, "socket", Readable)
    BY <1>1 DEF tcpWritable, tcpEvent
  <2> QED
    BY <2>1, HandlerNow, LiveFacts, LiveKeeps, EventSets DEF Live
<1>2. CASE tcpReadable \/ tcpParsed
  <2>1. /\ impl = "tcp" /\ step' \in {"idle", "parse"}
        /\ UNCHANGED <<secure, impl, thread, socket, closing, ssl, amqp, handler>>
    BY <1>2 DEF tcpReadable, tcpParsed, tcpEvent
  <2> QED
    BY <2>1, HandlerNow, LiveFacts, LiveKeeps DEF Live
<1>3. CASE tcpLost
  <2>1. /\ impl = "tcp" /\ toClosed(IF closing THEN handler ELSE onError(handler, TRUE))
        /\ amqp' = IF closing THEN amqp ELSE "closed"
        /\ UNCHANGED <<secure, thread, closing, ssl>>
    BY <1>3 DEF tcpLost, tcpEvent
  <2>2. CASE closing
    BY <2>1, <2>2, HandlerNow, LiveFacts, LiveCloses DEF Live
  <2>3. CASE ~closing
    <3> DEFINE e == onError(handler, TRUE)
    <3>1. e \in HandlerType /\ e.pipe = handler.pipe /\ (e.closed \/ e.error)
      BY HandlerNow, ErrorShape
    <3>2. toClosed(e) /\ amqp' = "closed"
      BY <2>1, <2>3
    <3> HIDE DEF e
    <3> QED
      BY <2>1, <3>1, <3>2, HandlerNow, LiveFacts, LiveCloses DEF Live
  <2> QED
    BY <2>2, <2>3
<1> QED
  BY <1>1, <1>2, <1>3 DEF Plain

(* SslHandshake::process.                                                   *)
LEMMA HandshakeEnds ==
    ASSUME EndInv, Handshake
    PROVE  EndInv'
<1>1. impl = "handshake" /\ UNCHANGED <<secure, thread, closing>>
  BY DEF Handshake, handshakeDone, handshakeRejected, handshakeWants, handshakeFails, handshakeEvent, tcpVars
<1>2. step = "idle"
  BY <1>1, LiveFacts
<1> DEFINE e == onError(handler, TRUE)
<1>3. e \in HandlerType /\ e.pipe = handler.pipe /\ (e.closed \/ e.error)
  BY HandlerNow, ErrorShape
<1>4. CASE handshakeDone
  <2>2. \E events \in {Readable, Both} : handler' = monitor(handler, "socket", events)
    BY <1>4 DEF handshakeDone
  <2>3. /\ handler' \in HandlerType /\ handler'.pipe = handler.pipe
        /\ handler'.closed = handler.closed /\ handler'.error = handler.error
    BY <2>2, HandlerNow, SocketShape, EventSets DEF Same
  <2>4. impl' = "ssl" /\ ssl' \in {"sending", "idle"} /\ UNCHANGED <<socket, step, amqp>>
    BY <1>4 DEF handshakeDone
  <2> QED
    BY <1>1, <1>2, <2>3, <2>4, HandlerNow, LiveFacts, LiveKeeps DEF Live
<1>5. CASE handshakeRejected
  <2>1. /\ impl' = "shutdown" /\ handler' = monitor(e, "socket", Both) /\ amqp' = "closed"
        /\ UNCHANGED <<socket, ssl, step>>
    BY <1>5 DEF handshakeRejected
  <2> HIDE DEF e
  <2>2. handler' \in HandlerType /\ handler'.pipe = handler.pipe /\ (handler'.closed \/ handler'.error)
    BY <1>3, <2>1, SocketShape, EventSets DEF Same
  <2> QED
    BY <1>1, <1>2, <2>1, <2>2, HandlerNow, LiveFacts, LiveKeeps DEF Live
<1>6. CASE handshakeWants
  <2>1. /\ UNCHANGED <<impl, socket, ssl, step, amqp>>
        /\ \E events \in {Readable, Both} : handler' = monitor(handler, "socket", events)
    BY <1>6 DEF handshakeWants, tcpVars
  <2> QED
    BY <1>1, <1>2, <2>1, HandlerNow, LiveFacts, LiveKeeps, EventSets DEF Live
<1>7. CASE handshakeFails
  <2>1. toClosed(e) /\ amqp' = "closed" /\ ssl' = ssl
    BY <1>7 DEF handshakeFails
  <2> HIDE DEF e
  <2> QED
    BY <1>1, <1>3, <2>1, HandlerNow, LiveFacts, LiveCloses DEF Live
<1> QED
  BY <1>4, <1>5, <1>6, <1>7 DEF Handshake

(* SslConnected::process.                                                   *)
LEMMA SecureEnds ==
    ASSUME EndInv, Secure
    PROVE  EndInv'
<1>1. impl = "ssl"
  BY LiveFacts DEF Secure, sslEvent, sslBroken, Working, sslWritten, sslReceived, sslWants, sslFails,
                   sslInterrupted, sslWriteNext, sslParsed
<1>2. UNCHANGED <<secure, thread, closing>>
  BY DEF Secure, sslEvent, sslBroken, Working, sslWritten, sslReceived, sslWants, sslFails,
         sslInterrupted, sslWriteNext, sslParsed
<1>3. ASSUME NEW o, proceed(o), UNCHANGED <<socket, amqp>>, ssl' \in {ssl, "idle"} PROVE EndInv'
  <2>1. /\ step' = "idle" /\ impl' \in {"shutdown", "ssl"} /\ (impl' = "shutdown" => closing)
        /\ \E events \in {Readable, Both} : handler' = monitor(handler, "socket", events)
    BY <1>3 DEF proceed
  <2>2. PICK events \in {Readable, Both} : handler' = monitor(handler, "socket", events)
    BY <2>1
  <2>3. /\ handler' \in HandlerType /\ handler'.pipe = handler.pipe
        /\ handler'.closed = handler.closed /\ handler'.error = handler.error
    BY <2>2, HandlerNow, EventSets
  <2> QED
    BY <1>1, <1>2, <1>3, <2>1, <2>3, HandlerNow, LiveFacts, LiveKeeps DEF Live
<1>4. ASSUME step' \in {"idle", "write", "receive", "parse"}, UNCHANGED <<impl, socket, amqp, handler>>,
             ssl' \in {ssl, "idle"}
      PROVE  EndInv'
  BY <1>1, <1>2, <1>4, HandlerNow, LiveFacts, LiveKeeps DEF Live
<1>5. CASE sslEvent
  <2>1. UNCHANGED <<socket, ssl, amqp>>
        /\ (proceed(out) \/ (UNCHANGED <<impl, handler>> /\ step' \in {"write", "receive"}))
    BY <1>5 DEF sslEvent, goesOn
  <2> QED
    BY <2>1, <1>3, <1>4
<1>6. CASE sslBroken
  <2>1. toClosed(handler) /\ UNCHANGED <<ssl, amqp>> /\ ssl = "error"
    BY <1>6 DEF sslBroken
  <2> QED
    BY <1>1, <1>2, <2>1, HandlerNow, LiveFacts, LiveCloses DEF Live
<1>7. CASE sslWritten \/ sslReceived \/ sslInterrupted \/ sslWriteNext \/ sslParsed
  <2>1. /\ UNCHANGED <<socket, amqp>> /\ ssl' \in {ssl, "idle"}
        /\ \/ \E o : proceed(o)
           \/ UNCHANGED <<impl, handler>> /\ step' \in {"idle", "write", "receive", "parse"}
    BY <1>7 DEF sslWritten, sslReceived, sslInterrupted, sslWriteNext, sslParsed
  <2> QED
    BY <2>1, <1>3, <1>4
<1>8. CASE sslWants
  <2>1. /\ step' = "idle" /\ ssl' \in {"sending", "receiving"} /\ UNCHANGED <<impl, socket, amqp>>
        /\ \E events \in {Readable, Both} : handler' = monitor(handler, "socket", events)
    BY <1>8 DEF sslWants, repeat
  <2> QED
    BY <1>1, <1>2, <2>1, HandlerNow, LiveFacts, LiveKeeps, EventSets DEF Live
<1>9. CASE sslFails
  <2> DEFINE e == onError(handler, TRUE)
  <2>1. e \in HandlerType /\ e.pipe = handler.pipe /\ (e.closed \/ e.error)
    BY HandlerNow, ErrorShape
  <2>2. toClosed(e) /\ amqp' = "closed" /\ ssl' = "error"
    BY <1>9 DEF sslFails
  <2> HIDE DEF e
  <2> QED
    BY <1>1, <1>2, <2>1, <2>2, HandlerNow, LiveFacts, LiveCloses DEF Live
<1> QED
  BY <1>5, <1>6, <1>7, <1>8, <1>9 DEF Secure, Working

(* SslShutdown::process.                                                    *)
LEMMA ShutdownEnds ==
    ASSUME EndInv, shutdownDone \/ shutdownWants
    PROVE  EndInv'
<1>1. CASE shutdownDone
  <2>1. impl = "shutdown" /\ toClosed(handler) /\ UNCHANGED <<secure, thread, closing, ssl, amqp>>
    BY <1>1 DEF shutdownDone
  <2> QED
    BY <2>1, HandlerNow, LiveFacts, LiveCloses DEF Live
<1>2. CASE shutdownWants
  <2>1. /\ impl = "shutdown" /\ UNCHANGED <<secure, impl, thread, socket, closing, ssl, step, amqp>>
        /\ \E events \in {Readable, Both} : handler' = monitor(handler, "socket", events)
    BY <1>2 DEF shutdownWants, tcpVars
  <2> QED
    BY <2>1, HandlerNow, LiveFacts, LiveKeeps, EventSets DEF Live
<1> QED
  BY <1>1, <1>2

(* close(true), in any state: the resolver may have got a socket.           *)
LEMMA ForceEnds ==
    ASSUME EndInv, forceClose
    PROVE  EndInv'
<1> DEFINE fails == IF amqp = "closed" THEN handler ELSE [handler EXCEPT !.error = TRUE]
           told == onLost(fails)
           left == IF impl = "resolver" THEN monitor(told, "pipe", {}) ELSE told
<1>1. PICK result \in IF thread = "running" THEN {"connected", "failed"} ELSE {thread} :
        /\ thread' = result
        /\ handler' = cleanup(left, socket \/ (thread = "running" /\ result = "connected"))
  BY DEF forceClose
<1>2. /\ step' = "idle" /\ impl' = "closed" /\ socket' = FALSE /\ amqp' = "closed"
      /\ UNCHANGED <<secure, closing, ssl>>
  BY DEF forceClose
<1>3. fails \in HandlerType /\ fails.pipe = handler.pipe /\ fails.socket = handler.socket
      /\ (fails.closed \/ fails.error)
  BY HandlerNow DEF HandlerType
<1> HIDE DEF fails
<1>4. /\ told \in HandlerType /\ told.pipe = handler.pipe /\ told.socket = handler.socket
      /\ (told.closed \/ told.error) /\ told.lost /\ told.detached
  BY <1>3, LostShape DEF Same
<1> HIDE DEF told
<1>5. impl # "resolver" => handler.pipe = {}
  BY DEF EndInv, Ownership
<1>6. /\ left \in HandlerType /\ left.pipe = {} /\ left.socket = handler.socket
      /\ (left.closed \/ left.error) /\ left.lost /\ left.detached
  BY <1>4, <1>5, PipeShape DEF Same
<1> HIDE DEF left
<1>7. thread' \in {"connected", "failed"}
  BY <1>1 DEF EndInv, Shapes
<1>8. Ended(handler')
  <2>1. CASE socket \/ (thread = "running" /\ result = "connected")
    <3>1. handler' = cleanup(left, TRUE)
      BY <1>1, <2>1 DEF cleanup
    <3> QED
      BY <3>1, <1>6, CleanupShape DEF Ended, Same
  <2>2. CASE ~(socket \/ (thread = "running" /\ result = "connected"))
    <3>1. handler' = left
      BY <1>1, <2>2 DEF cleanup
    <3>2. handler.socket = {}
      BY <2>2 DEF EndInv, Shapes, Ownership, CleanEnd
    <3> QED
      BY <3>1, <3>2, <1>6 DEF Ended
  <2> QED
    BY <2>1, <2>2
<1> QED
  BY <1>2, <1>7, <1>8, LiveFacts, ClosedKeeps DEF EndInv

-----------------------------------------------------------------------------
(* The inductive argument of the first part.                                *)
LEMMA EndInit ==
    ASSUME Init
    PROVE  EndInv
<1>1. secure \in BOOLEAN
  BY TcpAssumption DEF Init
<1>2. Shapes
  BY <1>1 DEF Init, Shapes, HandlerType, Readable, Both
<1>3. Ownership /\ Reasons /\ CleanEnd
  BY DEF Init, Ownership, Reasons, CleanEnd
<1> QED
  BY <1>2, <1>3 DEF EndInv

LEMMA EndNext ==
    ASSUME EndInv, [Next]_vars
    PROVE  EndInv'
<1>1. CASE UNCHANGED vars
  BY <1>1, SameKeeps DEF vars, tcpVars
<1> QED
  BY <1>1, ConnectingEnds, SendingEnds, AmqpEnds, PlainEnds, HandshakeEnds, SecureEnds, ShutdownEnds, ForceEnds
     DEF Next

(* Whatever the thread, the socket, OpenSSL and the application do, a       *)
(* connection that has come to TcpClosed watches nothing, has closed its    *)
(* socket, and has called onDetached(), onLost() if it was connected, and   *)
(* one of onClosed() and onError().                                         *)
THEOREM EndsAreClean == Spec => []CleanEnd
<1>1. Init => EndInv
  BY EndInit
<1>2. EndInv /\ [Next]_vars => EndInv'
  BY EndNext
<1>3. EndInv => CleanEnd
  BY DEF EndInv
<1> QED
  BY <1>1, <1>2, <1>3, PTL DEF Spec

-----------------------------------------------------------------------------
(* A buffer as the code keeps it: chunks that are not empty, less is        *)
(* skipped than the first one has, and the counted size is the real one.    *)
Bytes == Seq(Nat)
Buffered(o) == FlattenSeq(o.buffers)
BufferType ==
    {o \in [buffers : Seq(Bytes), skip : Nat, size : Nat] :
        /\ \A i \in 1..Len(o.buffers) : o.buffers[i] # <<>>
        /\ o.buffers = <<>> => o.skip = 0
        /\ o.buffers # <<>> => o.skip < Len(o.buffers[1])
        /\ o.size = Len(Buffered(o)) - o.skip}

(* Its bytes, as many as were counted.                                      *)
LEMMA BufferFacts ==
    ASSUME NEW o \in BufferType
    PROVE  /\ o.buffers \in Seq(Bytes) /\ o.skip \in Nat /\ o.size \in Nat
           /\ Buffered(o) \in Bytes /\ o.skip \in 0..Len(Buffered(o))
           /\ Content(o) = Trailing(Buffered(o), o.skip)
           /\ Content(o) \in Bytes /\ Len(Content(o)) = o.size
           /\ o.size = Len(Buffered(o)) - o.skip
<1>1. o.buffers \in Seq(Bytes) /\ o.skip \in Nat /\ o.size \in Nat
      /\ o.size = Len(Buffered(o)) - o.skip
  BY DEF BufferType
<1>2. Buffered(o) \in Bytes
  BY <1>1, FlattenType DEF Buffered, Bytes
<1>3. Len(Buffered(o)) \in Nat
  BY <1>2, LenProperties DEF Bytes
<1>4. Content(o) = Trailing(Buffered(o), o.skip)
  BY DEF Content, Buffered, Trailing
<1>5. o.skip \in 0..Len(Buffered(o))
  BY <1>1, <1>3
<1>6. Trailing(Buffered(o), o.skip) \in Bytes /\ Len(Trailing(Buffered(o), o.skip)) = Len(Buffered(o)) - o.skip
  BY <1>2, <1>5, TrailingFacts DEF Bytes
<1> QED
  BY <1>1, <1>2, <1>4, <1>5, <1>6

(* A new buffer.                                                            *)
LEMMA EmptyBuffer == Empty \in BufferType /\ Content(Empty) = <<>> /\ Empty.size = 0
<1>1. Buffered(Empty) = <<>> /\ Empty.skip = 0 /\ Empty.size = 0 /\ Empty.buffers = <<>>
  BY FlattenEmpty DEF Empty, Buffered
<1>2. Empty \in [buffers : Seq(Bytes), skip : Nat, size : Nat]
  BY EmptySeq DEF Empty
<1>3. Empty \in BufferType
  BY <1>1, <1>2, EmptySeq DEF BufferType
<1> QED
  BY <1>1, <1>3, BufferFacts, EmptySeq DEF Bytes

(* TcpOutBuffer::add puts the bytes at the end.                             *)
LEMMA AddKeeps ==
    ASSUME NEW o \in BufferType, NEW chunk \in Bytes, chunk # <<>>
    PROVE  /\ add(o, chunk) \in BufferType
           /\ add(o, chunk).size = o.size + Len(chunk)
           /\ Content(add(o, chunk)) = Content(o) \o chunk
<1> DEFINE a == add(o, chunk)
           f == Buffered(o)
<1>1. /\ o.buffers \in Seq(Bytes) /\ o.skip \in Nat /\ o.size \in Nat
      /\ f \in Bytes /\ o.skip \in 0..Len(f) /\ Content(o) = Trailing(f, o.skip)
  BY BufferFacts
<1>2. /\ \A i \in 1..Len(o.buffers) : o.buffers[i] # <<>>
      /\ o.buffers = <<>> => o.skip = 0
      /\ o.buffers # <<>> => o.skip < Len(o.buffers[1])
      /\ o.size = Len(f) - o.skip
      /\ o \in [buffers : Seq(Bytes), skip : Nat, size : Nat]
  BY DEF BufferType
<1>3. Len(chunk) \in Nat \ {0}
  BY EmptySeq DEF Bytes
<1>4. /\ a.buffers = Append(o.buffers, chunk) /\ a.skip = o.skip /\ a.size = o.size + Len(chunk)
      /\ a \in [buffers : Seq(Bytes), skip : Nat, size : Nat]
  <2> DEFINE b == Append(o.buffers, chunk)
             n == o.size + Len(chunk)
  <2>1. b \in Seq(Bytes) /\ n \in Nat
    BY <1>1, <1>3, AppendProperties
  <2>2. a = [o EXCEPT !.buffers = b, !.size = n]
    BY DEF add
  <2> HIDE DEF a, b, n
  <2>3. a.buffers = b /\ a.skip = o.skip /\ a.size = n
        /\ a \in [buffers : Seq(Bytes), skip : Nat, size : Nat]
    BY <1>2, <2>1, <2>2
  <2> QED
    BY <2>3 DEF b, n
<1>5. Buffered(a) = f \o chunk
  BY <1>1, <1>4, FlattenAppend DEF Buffered, Bytes
<1> HIDE DEF a, f
<1>6. Len(f \o chunk) = Len(f) + Len(chunk) /\ Len(f) \in Nat
  BY <1>1 DEF Bytes
<1>7. a \in BufferType
  <2> DEFINE b == Append(o.buffers, chunk)
  <2>1. /\ Len(b) = Len(o.buffers) + 1 /\ Len(o.buffers) \in Nat
        /\ \A i \in 1..Len(o.buffers) : b[i] = o.buffers[i]
        /\ b[Len(o.buffers) + 1] = chunk /\ b # <<>>
    BY <1>1, AppendProperties, LenProperties
  <2> HIDE DEF b
  <2>2. ASSUME NEW i \in 1..Len(b) PROVE b[i] # <<>>
    BY <1>2, <2>1
  <2>3. a.skip < Len(b[1])
    <3>1. CASE o.buffers = <<>>
      <4>1. Len(o.buffers) = 0
        BY <3>1
      <4> QED
        BY <1>2, <1>3, <1>4, <2>1, <3>1, <4>1
    <3>2. CASE o.buffers # <<>>
      <4>1. 1 \in 1..Len(o.buffers)
        BY <1>1, <3>2, EmptySeq
      <4> QED
        BY <1>2, <1>4, <2>1, <3>2, <4>1
    <3> QED
      BY <3>1, <3>2
  <2>4. a.size = Len(Buffered(a)) - a.skip
    BY <1>1, <1>2, <1>3, <1>4, <1>5, <1>6
  <2>5. a.buffers = b
    BY <1>4 DEF b
  <2> QED
    BY <1>4, <2>1, <2>2, <2>3, <2>4, <2>5 DEF BufferType
<1>8. Content(a) = Content(o) \o chunk
  <2>1. Content(a) = Trailing(f \o chunk, o.skip)
    BY <1>4, <1>5, <1>7, BufferFacts
  <2>2. Trailing(f \o chunk, o.skip) = Trailing(f, o.skip) \o chunk
    BY <1>1, TrailingConcat DEF Bytes
  <2> QED
    BY <1>1, <2>1, <2>2
<1> QED
  BY <1>4, <1>7, <1>8 DEF a

(* The first k chunks and the others.                                       *)
LEMMA ChunksSplit ==
    ASSUME NEW o \in BufferType, NEW k \in 0..Len(o.buffers)
    PROVE  LET f == Leading(o.buffers, k)
               r == Trailing(o.buffers, k)
           IN  /\ f \in Seq(Bytes) /\ r \in Seq(Bytes)
               /\ FlattenSeq(f) \in Bytes /\ FlattenSeq(r) \in Bytes
               /\ Buffered(o) = FlattenSeq(f) \o FlattenSeq(r)
<1> DEFINE b == o.buffers
           s == Leading(b, k)
           t == Trailing(b, k)
<1>1. b \in Seq(Bytes)
  BY BufferFacts
<1>2. s \in Seq(Bytes) /\ t \in Seq(Bytes) /\ s \o t = b
  BY <1>1, LeadingFacts, TrailingFacts, LeadingTrailing
<1> HIDE DEF s, t
<1>3. FlattenSeq(s \o t) = FlattenSeq(s) \o FlattenSeq(t)
  BY <1>2, FlattenConcat DEF Bytes
<1>4. FlattenSeq(s) \in Bytes /\ FlattenSeq(t) \in Bytes
  BY <1>2, FlattenType DEF Bytes
<1> QED
  BY <1>2, <1>3, <1>4 DEF s, t, Buffered

(* The bytes in the first k chunks.                                         *)
Amount(o, k) == Len(FlattenSeq(Leading(o.buffers, k)))

(* It grows by a chunk at a time.                                           *)
LEMMA AmountFacts ==
    ASSUME NEW o \in BufferType
    PROVE  /\ Amount(o, 0) = 0 /\ Amount(o, Len(o.buffers)) = Len(Buffered(o))
           /\ \A k \in 0..Len(o.buffers) : Amount(o, k) \in Nat
           /\ \A k \in 0..Len(o.buffers) :
                Upto(o, k) = IF k = 0 THEN 0 ELSE Amount(o, k) - o.skip
           /\ \A k \in 0..Len(o.buffers) : k < Len(o.buffers) =>
                Amount(o, k + 1) = Amount(o, k) + Len(o.buffers[k + 1])
<1> DEFINE b == o.buffers
<1>1. b \in Seq(Bytes) /\ Len(b) \in Nat
  BY BufferFacts, LenProperties
<1>2. Amount(o, 0) = 0
  <2>1. Leading(b, 0) = <<>>
    BY SubSeqEmpty DEF Leading
  <2> QED
    BY <2>1, FlattenEmpty, EmptySeq DEF Amount
<1>3. Amount(o, Len(b)) = Len(Buffered(o))
  <2>1. Leading(b, Len(b)) = b
    BY <1>1, SubSeqFull DEF Leading
  <2> QED
    BY <2>1 DEF Amount, Buffered
<1>4. ASSUME NEW k \in 0..Len(b) PROVE Amount(o, k) \in Nat
  <2>1. FlattenSeq(Leading(b, k)) \in Bytes
    BY ChunksSplit
  <2> QED
    BY <2>1, LenProperties DEF Amount, Bytes
<1>5. ASSUME NEW k \in 0..Len(b) PROVE Upto(o, k) = IF k = 0 THEN 0 ELSE Amount(o, k) - o.skip
  BY DEF Upto, Amount, Leading
<1>6. ASSUME NEW k \in 0..Len(b), k < Len(b)
      PROVE  Amount(o, k + 1) = Amount(o, k) + Len(b[k + 1])
  <2> DEFINE f == Leading(b, k)
             c == b[k + 1]
  <2>1. f \in Seq(Bytes) /\ FlattenSeq(f) \in Bytes
    BY ChunksSplit
  <2>2. c \in Bytes
    BY <1>1, <1>6, ElementOfSeq
  <2>3. Leading(b, k + 1) = Append(f, c)
    <3>1. k + 1 \in 1..Len(b) /\ 1 \in 1..Len(b) /\ k + 1 \in 1..Len(b) /\ k + 1 - 1 = k
      BY <1>1, <1>6
    <3>2. SubSeq(b, 1, k + 1) = SubSeq(b, 1, k + 1 - 1) \o <<b[k + 1]>>
      BY <1>1, <3>1, SubSeqRecursiveSecond
    <3>3. Append(f, c) = f \o <<c>>
      BY <2>1, <2>2, AppendIsConcat
    <3> QED
      BY <3>1, <3>2, <3>3 DEF Leading
  <2> HIDE DEF f, c
  <2>4. FlattenSeq(Append(f, c)) = FlattenSeq(f) \o c
    BY <2>1, <2>2, FlattenAppend DEF Bytes
  <2>5. Len(FlattenSeq(f) \o c) = Len(FlattenSeq(f)) + Len(c)
    BY <2>1, <2>2, ConcatProperties DEF Bytes
  <2> QED
    BY <2>3, <2>4, <2>5 DEF Amount, f, c
<1> QED
  BY <1>2, <1>3, <1>4, <1>5, <1>6

(* Where shrink() stops: the chunk that is not sent as a whole.             *)
Stop(o, n, k) == Upto(o, k) <= n /\ (k < Len(o.buffers) => Upto(o, k + 1) > n)

(* There is such a chunk.                                                   *)
LEMMA StopExists ==
    ASSUME NEW o \in BufferType, NEW n \in Nat, n < o.size
    PROVE  \E k \in 0..Len(o.buffers) : Stop(o, n, k)
<1> DEFINE l == Len(o.buffers)
           T == {i \in 0..l : Upto(o, i) > n}
<1>1. l \in Nat /\ o.skip \in Nat /\ o.size \in Nat
  BY BufferFacts, LenProperties
<1>2. l \in T
  <2>1. Upto(o, l) = IF l = 0 THEN 0 ELSE Amount(o, l) - o.skip
    BY <1>1, AmountFacts
  <2>2. Amount(o, l) = Len(Buffered(o)) /\ o.size = Len(Buffered(o)) - o.skip /\ Len(Buffered(o)) \in Nat
    BY AmountFacts, BufferFacts, LenProperties DEF Bytes
  <2>3. l # 0
    <3>1. l = 0 => Len(Buffered(o)) = 0
      BY <2>2, AmountFacts
    <3> QED
      BY <1>1, <2>2, <3>1
  <2> QED
    BY <1>1, <2>1, <2>2, <2>3
<1>3. PICK x \in T : \A y \in T : x <= y
  <2>1. T \in SUBSET Nat /\ T # {}
    BY <1>1, <1>2
  <2> HIDE DEF T
  <2> QED
    BY <2>1, LeastElement
<1>4. x \in 0..l /\ Upto(o, x) > n
  OBVIOUS
<1>5. Upto(o, 0) = 0
  BY <1>1, AmountFacts
<1>6. x # 0
  BY <1>4, <1>5
<1> DEFINE k == x - 1
<1>7. k \in 0..l /\ k + 1 = x /\ k < x
  BY <1>1, <1>4, <1>6
<1> HIDE DEF k
<1>8. ~(Upto(o, k) > n)
  <2>1. k \notin T
    BY <1>1, <1>3, <1>4, <1>7
  <2> QED
    BY <1>7, <2>1
<1>9. Upto(o, k) \in Int
  <2>1. Upto(o, k) = IF k = 0 THEN 0 ELSE Amount(o, k) - o.skip
    BY <1>7, AmountFacts
  <2>2. Amount(o, k) \in Nat
    BY <1>7, AmountFacts
  <2> QED
    BY <1>1, <2>1, <2>2
<1> QED
  BY <1>4, <1>7, <1>8, <1>9 DEF Stop

(* TcpOutBuffer::shrink removes that many bytes at the front.               *)
LEMMA ShrinkKeeps ==
    ASSUME NEW o \in BufferType, NEW n \in 0..o.size
    PROVE  /\ shrink(o, n) \in BufferType
           /\ shrink(o, n).size = o.size - n
           /\ Content(shrink(o, n)) = Trailing(Content(o), n)
<1>1. /\ o.buffers \in Seq(Bytes) /\ o.skip \in Nat /\ o.size \in Nat
      /\ Buffered(o) \in Bytes /\ o.skip \in 0..Len(Buffered(o))
      /\ Content(o) = Trailing(Buffered(o), o.skip)
      /\ Content(o) \in Bytes /\ Len(Content(o)) = o.size
      /\ o.size = Len(Buffered(o)) - o.skip
  BY BufferFacts
<1>2. Len(o.buffers) \in Nat /\ Len(Buffered(o)) \in Nat /\ n \in Nat
  BY <1>1, LenProperties DEF Bytes
<1>3. CASE n >= o.size
  <2>1. n = o.size /\ shrink(o, n) = Empty
    BY <1>1, <1>3 DEF shrink
  <2>2. Trailing(Content(o), o.size) = <<>>
    BY <1>1, TrailingAll DEF Bytes
  <2> QED
    BY <1>1, <2>1, <2>2, EmptyBuffer
<1>4. CASE ~(n >= o.size)
  <2> DEFINE k == CHOOSE i \in 0..Len(o.buffers) : Stop(o, n, i)
             b == o.buffers
             s == shrink(o, n)
             r == Trailing(b, k)
             skip == n + o.skip - Amount(o, k)
  <2>1. k \in 0..Len(b) /\ Stop(o, n, k)
    <3>1. n < o.size
      BY <1>1, <1>2, <1>4
    <3> QED
      BY <1>2, <3>1, StopExists
  <2>2. s = [buffers |-> SubSeq(b, k + 1, Len(b)),
             skip |-> (IF k = 0 THEN o.skip ELSE 0) + n - Upto(o, k),
             size |-> o.size - n]
    BY <1>4 DEF shrink, Stop
  <2> HIDE DEF k, s
  <2>3. /\ Upto(o, k) = IF k = 0 THEN 0 ELSE Amount(o, k) - o.skip
        /\ Amount(o, k) \in Nat /\ (k = 0 => Amount(o, k) = 0)
    BY <2>1, AmountFacts
  <2>4. s = [buffers |-> r, skip |-> skip, size |-> o.size - n]
    <3>1. (IF k = 0 THEN o.skip ELSE 0) + n - Upto(o, k) = skip
      BY <1>1, <1>2, <2>3
    <3> QED
      BY <2>2, <3>1 DEF Trailing
  <2>5. k < Len(b)
    <3>1. Upto(o, Len(b)) = IF Len(b) = 0 THEN 0 ELSE Len(Buffered(o)) - o.skip
      BY <1>2, AmountFacts
    <3>2. Len(b) = 0 => Len(Buffered(o)) = 0
      BY AmountFacts
    <3> QED
      BY <1>1, <1>2, <1>4, <2>1, <3>1, <3>2 DEF Stop
  <2>6. Upto(o, k + 1) = Amount(o, k) + Len(b[k + 1]) - o.skip /\ Len(b[k + 1]) \in Nat
    <3>1. k + 1 \in 1..Len(b) /\ k + 1 # 0 /\ k + 1 \in 0..Len(b)
      BY <1>2, <2>1, <2>5
    <3>2. b[k + 1] \in Bytes
      BY <1>1, <3>1, ElementOfSeq
    <3>3. Upto(o, k + 1) = Amount(o, k + 1) - o.skip
      BY <3>1, AmountFacts
    <3>4. Amount(o, k + 1) = Amount(o, k) + Len(b[k + 1])
      BY <2>1, <2>5, AmountFacts
    <3>5. Len(b[k + 1]) \in Nat
      BY <3>2, LenProperties DEF Bytes
    <3> QED
      BY <1>1, <2>1, <2>3, <3>3, <3>4, <3>5
  <2>7. skip \in Nat /\ skip < Len(b[k + 1])
    <3>1. Upto(o, k) <= n /\ Upto(o, k + 1) > n
      BY <2>1, <2>5 DEF Stop
    <3> DEFINE c == Len(b[k + 1])
               u == Upto(o, k + 1)
    <3>2. u = Amount(o, k) + c - o.skip /\ c \in Nat /\ u > n
      BY <2>6, <3>1
    <3> HIDE DEF c, u
    <3>3. skip \in Nat
      BY <1>1, <1>2, <2>3, <3>1
    <3>4. skip < c
      BY <1>1, <1>2, <2>3, <3>2
    <3> QED
      BY <3>3, <3>4 DEF c
  <2>8. /\ r \in Seq(Bytes) /\ FlattenSeq(r) \in Bytes /\ FlattenSeq(Leading(b, k)) \in Bytes
        /\ Buffered(o) = FlattenSeq(Leading(b, k)) \o FlattenSeq(r)
    BY <2>1, ChunksSplit
  <2>9. /\ Len(r) = Len(b) - k
        /\ \A i \in 1..(Len(b) - k) : r[i] = b[k + i]
    BY <1>1, <2>1, TrailingFacts
  <2>10. Len(Buffered(o)) = Amount(o, k) + Len(FlattenSeq(r)) /\ Len(FlattenSeq(r)) \in Nat
    BY <2>8, ConcatProperties, LenProperties DEF Amount, Bytes
  <2> HIDE DEF r
  <2>11. o.size - n \in Nat /\ o.size - n = Len(FlattenSeq(r)) - skip
    BY <1>1, <1>2, <1>4, <2>3, <2>10
  <2> HIDE DEF skip
  <2>12. s \in BufferType
    <3>1. s \in [buffers : Seq(Bytes), skip : Nat, size : Nat]
      BY <2>4, <2>7, <2>8, <2>11
    <3>2. ASSUME NEW i \in 1..Len(r) PROVE r[i] # <<>>
      <4>1. k + i \in 1..Len(b) /\ i \in 1..(Len(b) - k)
        BY <1>2, <2>1, <2>9
      <4>2. b[k + i] # <<>>
        BY <4>1 DEF BufferType
      <4> QED
        BY <2>9, <4>1, <4>2
    <3>3. r[1] = b[k + 1] /\ r # <<>>
      <4>1. 1 \in 1..(Len(b) - k) /\ Len(r) # 0
        BY <1>2, <2>1, <2>5, <2>9
      <4> QED
        BY <2>9, <4>1, EmptySeq
    <3>4. s.buffers = r /\ s.skip = skip /\ s.size = o.size - n
      BY <2>4
    <3> QED
      BY <2>7, <2>11, <3>1, <3>2, <3>3, <3>4 DEF BufferType, Buffered
  <2>13. Content(s) = Trailing(FlattenSeq(r), skip)
    BY <2>4, <2>12, BufferFacts DEF Buffered
  <2>14. Trailing(Buffered(o), Amount(o, k) + skip) = Trailing(FlattenSeq(r), skip)
    <3>1. skip \in 0..Len(FlattenSeq(r))
      BY <2>7, <2>10, <2>11
    <3> QED
      BY <2>8, <3>1, TrailingBehind DEF Amount, Bytes
  <2>15. Amount(o, k) + skip = o.skip + n
    BY <1>1, <1>2, <2>3 DEF skip
  <2>16. Trailing(Trailing(Buffered(o), o.skip), n) = Trailing(Buffered(o), o.skip + n)
    <3>1. n \in 0..(Len(Buffered(o)) - o.skip)
      BY <1>1
    <3> QED
      BY <1>1, <3>1, TrailingTwice DEF Bytes
  <2>17. s.size = o.size - n
    BY <2>4
  <2> QED
    BY <1>1, <2>12, <2>13, <2>14, <2>15, <2>16, <2>17 DEF s
<1> QED
  BY <1>3, <1>4

(* What SSL_write gets is the first part of the buffer.                     *)
LEMMA FirstFacts ==
    ASSUME out \in BufferType, out.size > 0
    PROVE  /\ Len(First) \in 1..out.size
           /\ First = Leading(Content(out), Len(First))
<1> DEFINE b == out.buffers
           c == b[1]
           r == FlattenSeq(Trailing(b, 1))
<1>1. /\ b \in Seq(Bytes) /\ out.skip \in Nat /\ out.size \in Nat
      /\ Content(out) = Trailing(Buffered(out), out.skip) /\ Len(Content(out)) = out.size
      /\ Content(out) \in Bytes
  BY BufferFacts
<1>2. b # <<>>
  <2>1. CASE b = <<>>
    <3>1. Buffered(out) = <<>> /\ Len(<<>>) = 0
      BY <2>1, FlattenEmpty, EmptySeq DEF Buffered
    <3>2. out.size = Len(Buffered(out)) - out.skip
      BY BufferFacts
    <3> QED
      BY <1>1, <3>1, <3>2
  <2> QED
    BY <2>1
<1>3. 1 \in 1..Len(b) /\ 1 \in 0..Len(b) /\ Len(b) \in Nat
  BY <1>1, <1>2, EmptySeq
<1>4. c \in Bytes /\ out.skip < Len(c) /\ Len(c) \in Nat
  <2>1. c \in Bytes
    BY <1>1, <1>3, ElementOfSeq
  <2> QED
    BY <1>2, <2>1, LenProperties DEF BufferType, Bytes
<1>5. Buffered(out) = c \o r /\ r \in Bytes
  <2>1. FlattenSeq(Trailing(b, 1)) \in Bytes /\ Buffered(out) = FlattenSeq(Leading(b, 1)) \o FlattenSeq(Trailing(b, 1))
    BY <1>3, ChunksSplit
  <2>2. Leading(b, 1) = Append(<<>>, c)
    <3>1. SubSeq(b, 1, 1) = SubSeq(b, 1, 1 - 1) \o <<b[1]>>
      BY <1>1, <1>3, SubSeqRecursiveSecond
    <3>2. SubSeq(b, 1, 1 - 1) = <<>>
      BY SubSeqEmpty
    <3>3. Append(<<>>, c) = <<>> \o <<c>>
      BY <1>4, EmptySeq, AppendIsConcat
    <3> QED
      BY <3>1, <3>2, <3>3 DEF Leading
  <2>3. FlattenSeq(Append(<<>>, c)) = FlattenSeq(<<>>) \o c
    BY <1>4, EmptySeq, FlattenAppend DEF Bytes
  <2>4. FlattenSeq(<<>>) \o c = c
    BY <1>4, FlattenEmpty, ConcatEmptySeq DEF Bytes
  <2> QED
    BY <2>1, <2>2, <2>3, <2>4
<1> HIDE DEF r
<1>6. First = Trailing(c, out.skip)
  <2>1. Head(b) = c
    BY <1>1, <1>2
  <2> QED
    BY <2>1 DEF First, Trailing
<1> HIDE DEF c
<1>7. out.skip \in 0..Len(c)
  BY <1>1, <1>4
<1>8. First \in Bytes /\ Len(First) = Len(c) - out.skip
  BY <1>4, <1>6, <1>7, TrailingFacts DEF Bytes
<1>9. Content(out) = First \o r
  BY <1>1, <1>4, <1>5, <1>6, <1>7, TrailingConcat DEF Bytes
<1>10. Leading(First \o r, Len(First)) = First
  BY <1>5, <1>8, LeadingConcat DEF Bytes
<1>11. Len(First \o r) = Len(First) + Len(r) /\ Len(r) \in Nat
  BY <1>5, <1>8, ConcatProperties, LenProperties DEF Bytes
<1> QED
  BY <1>1, <1>4, <1>8, <1>9, <1>10, <1>11

-----------------------------------------------------------------------------
(* The buffer in the states: nothing is left in it when the socket is gone, *)
(* close() comes only when the connection is up, and whoever is about to    *)
(* write, or to repeat an SSL_write, finds something to write.              *)
Over == {"shutdown", "closed"}
Waits ==
    /\ step = "write" => out.size > 0
    /\ ssl = "sending" /\ impl = "ssl" => out.size > 0
BufInv ==
    /\ out \in BufferType /\ wire \in Bytes /\ taken \in 0..MaxBytes
    /\ impl \in {"resolver", "handshake"} => ~closing
    /\ impl \in Over => out.size = 0
    /\ Waits

Mode == IF impl \in Over THEN "closed" ELSE IF closing THEN "closing" ELSE "open"
FifoStep == [Fifo!Next]_(Fifo!vars)

(* The steps of the byte queue, in terms of the buffer.                     *)
LEMMA TakeStep ==
    ASSUME Mode = "open", Mode' = "open", NEW n \in Sizes, taken' = taken + n,
           NEW k \in 0..Len(Content(out) \o Chunk(n)),
           wire' = wire \o Leading(Content(out) \o Chunk(n), k),
           Content(out)' = Trailing(Content(out) \o Chunk(n), k)
    PROVE  FifoStep
<1>1. Fifo!Drain(Content(out) \o Chunk(n))
  BY DEF Fifo!Drain, Leading, Trailing
<1> QED
  BY <1>1 DEF FifoStep, Fifo!Next, Fifo!Take, Mode, Over, Chunk

LEMMA WriteStep ==
    ASSUME Mode # "closed", Mode' = Mode, taken' = taken, NEW k \in 0..Len(Content(out)),
           wire' = wire \o Leading(Content(out), k),
           Content(out)' = Trailing(Content(out), k)
    PROVE  FifoStep
<1>1. Fifo!Drain(Content(out))
  BY DEF Fifo!Drain, Leading, Trailing
<1> QED
  BY <1>1 DEF FifoStep, Fifo!Next, Fifo!Write, Mode, Over

LEMMA CloseStep ==
    ASSUME Mode # "closed", Mode' = "closed", taken' = taken, NEW k \in 0..Len(Content(out)),
           wire' = wire \o Leading(Content(out), k),
           Content(out)' = <<>>
    PROVE  FifoStep
BY DEF FifoStep, Fifo!Next, Fifo!Close, Mode, Over, Leading

LEMMA ClosingStep ==
    ASSUME Mode = "open", Mode' = "closing", UNCHANGED <<taken, wire, Content(out)>>
    PROVE  FifoStep
BY DEF FifoStep, Fifo!Next, Fifo!StartClosing, Mode, Over

LEMMA StutterStep ==
    ASSUME UNCHANGED <<taken, wire, Content(out), Mode>>
    PROVE  FifoStep
BY DEF FifoStep, Fifo!vars, Mode, Over

-----------------------------------------------------------------------------
(* What the steps do to the buffer.                                         *)

(* The bytes of the buffer now.                                             *)
LEMMA BufFacts ==
    ASSUME BufInv
    PROVE  /\ Content(out) \in Bytes /\ Len(Content(out)) = out.size /\ out.size \in Nat
           /\ out.size = 0 => Content(out) = <<>>
           /\ wire \o <<>> = wire /\ wire \in Bytes
<1>1. out \in BufferType /\ wire \in Bytes
  BY DEF BufInv
<1>2. Content(out) \in Bytes /\ Len(Content(out)) = out.size /\ out.size \in Nat
  BY <1>1, BufferFacts
<1>3. out.size = 0 => Content(out) = <<>>
  BY <1>2, EmptySeq DEF Bytes
<1>4. wire \o <<>> = wire
  BY <1>1, ConcatEmptySeq DEF Bytes
<1> QED
  BY <1>1, <1>2, <1>3, <1>4

(* The buffer is left alone.                                                *)
LEMMA Stays ==
    ASSUME BufInv, UNCHANGED <<out, wire, taken, closing>>, impl \in Over <=> impl' \in Over,
           impl' \in {"resolver", "handshake"} => impl \in {"resolver", "handshake"}, Waits'
    PROVE  BufInv' /\ FifoStep
<1>1. BufInv'
  BY DEF BufInv
<1>2. UNCHANGED Content(out)
  BY DEF Content
<1>3. UNCHANGED Mode
  BY DEF Mode
<1> QED
  BY <1>1, <1>2, <1>3, StutterStep

(* The socket took some bytes.                                              *)
LEMMA Written ==
    ASSUME BufInv, NEW n \in 0..out.size, sendto(n), UNCHANGED <<taken, closing>>,
           impl \notin Over, impl' \notin Over, Waits',
           impl' \in {"resolver", "handshake"} => impl \in {"resolver", "handshake"}
    PROVE  BufInv' /\ FifoStep
<1>1. out \in BufferType /\ wire \in Bytes /\ out' = shrink(out, n)
  BY DEF BufInv, sendto
<1>2. out' \in BufferType /\ Content(out') = Trailing(Content(out), n)
  BY <1>1, ShrinkKeeps
<1>3. wire' = wire \o Leading(Content(out), n)
  BY DEF sendto, Leading
<1>4. n \in 0..Len(Content(out)) /\ Content(out) \in Bytes
  BY BufFacts
<1>5. wire' \in Bytes
  BY <1>1, <1>3, <1>4, LeadingFacts, ConcatProperties DEF Bytes
<1>6. BufInv'
  BY <1>2, <1>5 DEF BufInv
<1>7. Mode # "closed" /\ Mode' = Mode
  BY DEF Mode
<1>8. Content(out)' = Trailing(Content(out), n)
  BY <1>2
<1> QED
  BY <1>3, <1>4, <1>6, <1>7, <1>8, WriteStep

(* The connection ends, possibly after some last bytes; what is left is     *)
(* dropped.                                                                 *)
LEMMA Finished ==
    ASSUME BufInv, impl \notin Over, impl' \in Over, NEW n \in 0..out.size,
           wire' = wire \o Leading(Content(out), n), out' \in BufferType, out'.size = 0,
           taken' = taken, step' # "write"
    PROVE  BufInv' /\ FifoStep
<1>1. n \in 0..Len(Content(out)) /\ Content(out) \in Bytes /\ wire \in Bytes
  BY BufFacts
<1>2. wire' \in Bytes
  BY <1>1, LeadingFacts, ConcatProperties DEF Bytes
<1>3. BufInv'
  BY <1>2 DEF BufInv, Waits, Over
<1>4. Content(out') = <<>>
  BY BufferFacts, EmptySeq DEF Bytes
<1>5. Content(out)' = <<>>
  BY <1>4
<1>6. Mode # "closed" /\ Mode' = "closed"
  BY DEF Mode
<1> QED
  BY <1>1, <1>3, <1>5, <1>6, CloseStep

LEMMA Ends ==
    ASSUME BufInv, impl' \in Over, out' \in BufferType, out'.size = 0,
           UNCHANGED <<wire, taken, closing>>, step' # "write"
    PROVE  BufInv' /\ FifoStep
<1>1. CASE impl \in Over
  <2>1. BufInv'
    BY DEF BufInv, Waits, Over
  <2>2. Content(out') = <<>> /\ Content(out) = <<>>
    BY <1>1, BufFacts, BufferFacts, EmptySeq DEF BufInv, Bytes
  <2>3. UNCHANGED Content(out) /\ UNCHANGED Mode
    BY <1>1, <2>2 DEF Mode
  <2> QED
    BY <2>1, <2>3, StutterStep
<1>2. CASE impl \notin Over
  <2>1. 0 \in 0..out.size /\ wire' = wire \o Leading(Content(out), 0)
    <3>1. Leading(Content(out), 0) = <<>>
      BY SubSeqEmpty DEF Leading
    <3>2. 0 \in 0..out.size
      BY BufFacts
    <3>3. wire \o <<>> = wire /\ wire' = wire
      BY BufFacts
    <3>4. wire' = wire \o Leading(Content(out), 0)
      BY <3>1, <3>3, Zenon
    <3> QED
      BY <3>2, <3>4
  <2> QED
    BY <1>2, <2>1, Finished
<1> QED
  BY <1>1, <1>2

(* The bytes of one call of onData().                                       *)
LEMMA ChunkFacts ==
    ASSUME NEW n \in Sizes, taken \in Nat
    PROVE  Chunk(n) \in Bytes /\ Len(Chunk(n)) = n /\ n \in Nat \ {0} /\ Chunk(n) # <<>>
<1>1. n \in Nat \ {0}
  BY TcpAssumption
<1>2. Chunk(n) \in [1..n -> Nat]
  BY <1>1 DEF Chunk
<1>3. Chunk(n) \in Seq(Nat) /\ Len(Chunk(n)) = n
  BY <1>1, <1>2, SeqDef
<1> QED
  BY <1>1, <1>3, EmptySeq DEF Bytes

(* A buffer is taken; k bytes of what there is then are written at once.    *)
LEMMA TakenOver ==
    ASSUME BufInv, Mode = "open", UNCHANGED <<impl, closing>>, NEW n \in Sizes, taken + n <= MaxBytes,
           taken' = taken + n, NEW k \in 0..(out.size + n),
           wire' = wire \o Leading(Content(out) \o Chunk(n), k), out' \in BufferType,
           Content(out') = Trailing(Content(out) \o Chunk(n), k), Waits'
    PROVE  BufInv' /\ FifoStep
<1>1. taken \in Nat /\ MaxBytes \in Nat
  BY TcpAssumption DEF BufInv
<1>2. Chunk(n) \in Bytes /\ Len(Chunk(n)) = n /\ n \in Nat
  BY <1>1, ChunkFacts
<1>3. Content(out) \in Bytes /\ Len(Content(out)) = out.size /\ out.size \in Nat /\ wire \in Bytes
  BY BufFacts
<1> DEFINE all == Content(out) \o Chunk(n)
<1>4. all \in Bytes /\ Len(all) = out.size + n
  <2> DEFINE a == Content(out)
             b == Chunk(n)
  <2>1. a \in Seq(Nat) /\ b \in Seq(Nat)
    BY <1>2, <1>3 DEF Bytes
  <2> HIDE DEF a, b
  <2>2. a \o b \in Seq(Nat) /\ Len(a \o b) = Len(a) + Len(b)
    BY <2>1, ConcatProperties
  <2> QED
    BY <1>2, <1>3, <2>2 DEF a, b, Bytes
<1>5. wire' \in Bytes
  <2> HIDE DEF all
  <2>1. Leading(all, k) \in Bytes
    BY <1>4, LeadingFacts DEF Bytes
  <2>2. wire' = wire \o Leading(all, k)
    BY DEF all
  <2> QED
    BY <1>3, <2>1, <2>2, ConcatProperties DEF Bytes
<1>6. taken' \in 0..MaxBytes
  BY <1>1, <1>2
<1>7. BufInv'
  BY <1>5, <1>6 DEF BufInv, Mode
<1>8. Mode' = "open" /\ Content(out)' = Trailing(all, k) /\ k \in 0..Len(all)
  BY <1>4 DEF Mode
<1> QED
  BY <1>7, <1>8, TakeStep

-----------------------------------------------------------------------------
(* One lemma for each group of steps.                                       *)

(* The destructor of the last state drops the buffer.                       *)
LEMMA ToClosedBuffer ==
    ASSUME BufInv, NEW h, toClosed(h), UNCHANGED <<wire, taken, closing>>
    PROVE  BufInv' /\ FifoStep
<1>1. impl' = "closed" /\ out' = Empty /\ step' = "idle"
  BY DEF toClosed
<1> QED
  BY <1>1, EmptyBuffer, Ends DEF Over

(* The first state after the resolver gets the buffer.                      *)
LEMMA ConnectingBuffer ==
    ASSUME EndInv, BufInv, Connecting
    PROVE  BufInv' /\ FifoStep
<1>1. CASE threadEnds
  <2>1. UNCHANGED <<impl, closing, out, ssl, step, taken, wire>>
    BY <1>1 DEF threadEnds
  <2>2. Waits'
    BY <2>1 DEF BufInv, Waits
  <2> QED
    BY <2>1, <2>2, Stays
<1>2. ASSUME resolved PROVE impl = "resolver" /\ step = "idle"
  BY <1>2, LiveFacts DEF resolved
<1>3. CASE resolveFails
  <2>1. toClosed(monitor(onError(handler, FALSE), "pipe", {})) /\ UNCHANGED <<wire, taken, closing>>
    BY <1>3 DEF resolveFails
  <2> QED
    BY <2>1, ToClosedBuffer
<1>4. CASE connectPlain
  <2>1. /\ resolved /\ impl' = "tcp" /\ UNCHANGED <<closing, ssl, step, taken>>
        /\ \E n \in 0..out.size : sendto(n)
    BY <1>4 DEF connectPlain
  <2>2. impl \notin Over /\ impl' \notin Over /\ impl' \notin {"resolver", "handshake"} /\ Waits'
    BY <1>2, <2>1 DEF Over, Waits
  <2> QED
    BY <2>1, <2>2, Written
<1>5. CASE connectSecure
  <2>1. resolved /\ impl' = "handshake" /\ UNCHANGED <<closing, ssl, step, taken, out, wire>>
    BY <1>5 DEF connectSecure
  <2>2. Waits' /\ (impl \in Over <=> impl' \in Over)
    BY <1>2, <2>1 DEF Waits, Over
  <2> QED
    BY <1>2, <2>1, <2>2, Stays
<1>6. CASE connectRefused
  <2>1. resolved /\ impl' = "closed" /\ out' = Empty /\ UNCHANGED <<closing, step, taken, wire>>
    BY <1>6 DEF connectRefused
  <2> QED
    BY <1>2, <2>1, EmptyBuffer, Ends DEF Over
<1> QED
  BY <1>1, <1>3, <1>4, <1>5, <1>6 DEF Connecting

(* A buffer is taken as a whole into the output buffer.                     *)
LEMMA Buffers ==
    ASSUME BufInv, Mode = "open", UNCHANGED <<impl, closing, wire>>, NEW n \in Sizes,
           taken + n <= MaxBytes, taken' = taken + n, out' = add(out, Chunk(n))
    PROVE  BufInv' /\ FifoStep
<1>1. taken \in Nat
  BY DEF BufInv
<1>2. Chunk(n) \in Bytes /\ Len(Chunk(n)) = n /\ n \in Nat \ {0} /\ Chunk(n) # <<>>
  BY <1>1, ChunkFacts
<1>3. out \in BufferType
  BY DEF BufInv
<1>4. /\ out' \in BufferType /\ out'.size = out.size + Len(Chunk(n))
      /\ Content(out') = Content(out) \o Chunk(n)
  BY <1>2, <1>3, AddKeeps
<1> DEFINE all == Content(out) \o Chunk(n)
<1>5. out.size \in Nat /\ 0 \in 0..(out.size + n) /\ out'.size > 0
  BY <1>2, <1>4, BufFacts
<1>6. Leading(all, 0) = <<>>
  BY SubSeqEmpty DEF Leading
<1>7. wire' = wire \o Leading(all, 0)
  <2>1. wire \o <<>> = wire /\ wire' = wire
    BY BufFacts
  <2> QED
    BY <1>6, <2>1, Zenon
<1>8. Trailing(all, 0) = all
  <2>1. all \in Bytes
    BY <1>4, BufferFacts
  <2> HIDE DEF all
  <2> QED
    BY <2>1, SubSeqFull DEF Trailing, Bytes
<1>9. Waits'
  BY <1>5 DEF Waits
<1>10. Content(out') = Trailing(all, 0)
  BY <1>4, <1>8
<1> QED
  BY <1>4, <1>5, <1>7, <1>9, <1>10, TakenOver

(* TcpConnection::onData.                                                   *)
LEMMA SendingBuffer ==
    ASSUME EndInv, BufInv, Sending
    PROVE  BufInv' /\ FifoStep
<1>1. CASE sendLater
  <2>1. /\ sendBuffered /\ UNCHANGED <<impl, closing, wire>>
        /\ \E n \in Sizes : taken + n <= MaxBytes /\ taken' = taken + n /\ out' = add(out, Chunk(n))
    BY <1>1 DEF sendLater
  <2>2. Mode = "open"
    BY <2>1 DEF sendBuffered, BufInv, Mode, Over
  <2> QED
    BY <2>1, <2>2, Buffers
<1>2. CASE sendPlain
  <2>1. /\ impl = "tcp" /\ ~closing /\ out.size = 0 /\ UNCHANGED <<impl, closing, step, ssl>> /\ Unbusy
        /\ \E n \in Sizes : \E m \in 0..n :
             /\ taken + n <= MaxBytes /\ taken' = taken + n
             /\ wire' = wire \o SubSeq(Chunk(n), 1, m)
             /\ out' = IF m = n THEN out ELSE add(out, SubSeq(Chunk(n), m + 1, n))
    BY <1>2 DEF sendPlain
  <2>20. PICK n \in Sizes : \E m \in 0..n :
             /\ taken + n <= MaxBytes /\ taken' = taken + n
             /\ wire' = wire \o SubSeq(Chunk(n), 1, m)
             /\ out' = IF m = n THEN out ELSE add(out, SubSeq(Chunk(n), m + 1, n))
    BY <2>1
  <2>2. PICK m \in 0..n :
             /\ taken + n <= MaxBytes /\ taken' = taken + n
             /\ wire' = wire \o SubSeq(Chunk(n), 1, m)
             /\ out' = IF m = n THEN out ELSE add(out, SubSeq(Chunk(n), m + 1, n))
    BY <2>20
  <2> DEFINE c == Chunk(n)
  <2>3. taken \in Nat /\ out \in BufferType
    BY DEF BufInv
  <2>4. c \in Bytes /\ Len(c) = n /\ n \in Nat
    BY <2>3, ChunkFacts
  <2>5. Content(out) = <<>>
    BY <2>1, BufFacts
  <2>6. wire' = wire \o Leading(c, m) /\ out' = IF m = n THEN out ELSE add(out, Trailing(c, m))
    BY <2>2, <2>4 DEF Leading, Trailing
  <2>7. Content(out) \o c = c
    <3> HIDE DEF c
    <3> QED
      BY <2>4, <2>5, ConcatEmptySeq DEF Bytes
  <2> HIDE DEF c
  <2>8. out' \in BufferType /\ Content(out') = Trailing(c, m)
    <3>1. CASE m = n
      <4>1. Trailing(c, m) = <<>>
        BY <2>4, <3>1, TrailingAll DEF Bytes
      <4> QED
        BY <2>3, <2>5, <2>6, <3>1, <4>1
    <3>2. CASE m # n
      <4> DEFINE r == Trailing(c, m)
      <4>1. m \in 0..Len(c) /\ m < n
        BY <2>4, <3>2
      <4>2. r \in Bytes /\ Len(r) = Len(c) - m
        BY <2>4, <4>1, TrailingFacts DEF Bytes
      <4>3. r # <<>>
        BY <2>4, <4>1, <4>2, EmptySeq
      <4>4. out' = add(out, r)
        BY <2>6, <3>2
      <4> HIDE DEF r
      <4>5. out' \in BufferType /\ Content(out') = Content(out) \o r
        BY <2>3, <4>2, <4>3, <4>4, AddKeeps
      <4>6. <<>> \o r = r
        BY <4>2, ConcatEmptySeq DEF Bytes
      <4> QED
        BY <2>5, <4>5, <4>6 DEF r
    <3> QED
      BY <3>1, <3>2
  <2>9. Waits'
    BY <2>1 DEF Waits, Unbusy
  <2>10. Mode = "open"
    BY <2>1 DEF Mode, Over
  <2>11. m \in 0..(out.size + n)
    BY <2>1, <2>4
  <2>12. /\ wire' = wire \o Leading(Content(out) \o Chunk(n), m)
         /\ Content(out') = Trailing(Content(out) \o Chunk(n), m)
    BY <2>6, <2>7, <2>8 DEF c
  <2> QED
    BY <2>1, <2>2, <2>8, <2>9, <2>10, <2>11, <2>12, TakenOver
<1>3. CASE sendSecure
  <2>1. /\ impl = "ssl" /\ ~closing /\ out.size = 0 /\ UNCHANGED <<impl, closing, step>> /\ Unbusy /\ ssl = "idle"
        /\ \E n \in Sizes :
             /\ taken + n <= MaxBytes /\ taken' = taken + n
             /\ \/ wire' = wire \o Chunk(n) /\ out' = out /\ ssl' = ssl
                \/ out' = add(out, Chunk(n)) /\ wire' = wire
    BY <1>3 DEF sendSecure
  <2>2. PICK n \in Sizes :
             /\ taken + n <= MaxBytes /\ taken' = taken + n
             /\ \/ wire' = wire \o Chunk(n) /\ out' = out /\ ssl' = ssl
                \/ out' = add(out, Chunk(n)) /\ wire' = wire
    BY <2>1
  <2>3. Mode = "open"
    BY <2>1 DEF Mode, Over
  <2>4. CASE out' = add(out, Chunk(n)) /\ wire' = wire
    BY <2>1, <2>2, <2>3, <2>4, Buffers
  <2>5. CASE wire' = wire \o Chunk(n) /\ out' = out /\ ssl' = ssl
    <3> DEFINE c == Chunk(n)
    <3>1. taken \in Nat /\ out \in BufferType
      BY DEF BufInv
    <3>2. c \in Bytes /\ Len(c) = n /\ n \in Nat
      BY <3>1, ChunkFacts
    <3>3. Content(out) = <<>>
      BY <2>1, BufFacts
    <3>4. wire' = wire \o c
      BY <2>5
    <3> HIDE DEF c
    <3>5. Content(out) \o c = c
      BY <3>2, <3>3, ConcatEmptySeq DEF Bytes
    <3>6. Leading(c, n) = c /\ Trailing(c, n) = <<>>
      BY <3>2, SubSeqFull, TrailingAll DEF Bytes, Leading
    <3>7. n \in 0..(out.size + n)
      BY <2>1, <3>2
    <3>8. Waits'
      BY <2>1, <2>5 DEF Waits, Unbusy
    <3>9. out' \in BufferType /\ Content(out') = <<>>
      BY <2>5, <3>1, <3>3
    <3>10. /\ wire' = wire \o Leading(Content(out) \o Chunk(n), n)
           /\ Content(out') = Trailing(Content(out) \o Chunk(n), n)
      BY <3>4, <3>5, <3>6, <3>9 DEF c
    <3> QED
      BY <2>1, <2>2, <2>3, <3>7, <3>8, <3>9, <3>10, TakenOver
  <2> QED
    BY <2>2, <2>4, <2>5
<1> QED
  BY <1>1, <1>2, <1>3 DEF Sending

(* close(): nothing more is taken.                                          *)
LEMMA AmqpBuffer ==
    ASSUME EndInv, BufInv, amqpClosed \/ amqpError
    PROVE  BufInv' /\ FifoStep
<1>1. step = "parse" /\ closing' = TRUE /\ UNCHANGED <<impl, out, ssl, step, taken, wire>>
  BY DEF amqpClosed, amqpError, close
<1>2. impl \in {"tcp", "ssl"} /\ closing \in BOOLEAN
  BY <1>1, LiveFacts
<1>3. BufInv'
  BY <1>1, <1>2 DEF BufInv, Waits, Over
<1>4. UNCHANGED Content(out)
  BY <1>1 DEF Content
<1>5. CASE closing
  <2>1. UNCHANGED Mode
    BY <1>1, <1>2, <1>5 DEF Mode
  <2> QED
    BY <1>1, <1>3, <1>4, <2>1, StutterStep
<1>6. CASE ~closing
  <2>1. Mode = "open" /\ Mode' = "closing"
    BY <1>1, <1>2, <1>6 DEF Mode, Over
  <2> QED
    BY <1>1, <1>3, <1>4, <2>1, ClosingStep
<1> QED
  BY <1>2, <1>5, <1>6

(* TcpConnected::process.                                                   *)
LEMMA PlainBuffer ==
    ASSUME EndInv, BufInv, Plain
    PROVE  BufInv' /\ FifoStep
<1>1. CASE tcpWritable
  <2>1. /\ impl = "tcp" /\ step = "idle" /\ UNCHANGED <<impl, closing, ssl, step, taken>>
        /\ \E n \in 1..out.size : sendto(n)
    BY <1>1 DEF tcpWritable, tcpEvent
  <2>2. PICK n \in 1..out.size : sendto(n)
    BY <2>1
  <2>3. n \in 0..out.size
    BY BufFacts
  <2>4. impl \notin Over /\ impl' \notin Over /\ impl' \notin {"resolver", "handshake"} /\ Waits'
    BY <2>1 DEF Over, Waits
  <2> QED
    BY <2>1, <2>2, <2>3, <2>4, Written
<1>2. CASE tcpReadable \/ tcpParsed
  <2>1. /\ impl = "tcp" /\ step' \in {"idle", "parse"}
        /\ UNCHANGED <<impl, closing, out, ssl, taken, wire>>
    BY <1>2 DEF tcpReadable, tcpParsed, tcpEvent
  <2>2. Waits'
    BY <2>1 DEF Waits
  <2> QED
    BY <2>1, <2>2, Stays
<1>3. CASE tcpLost
  <2>1. /\ toClosed(IF closing THEN handler ELSE onError(handler, TRUE))
        /\ UNCHANGED <<closing, taken, wire>>
    BY <1>3 DEF tcpLost
  <2> QED
    BY <2>1, ToClosedBuffer
<1> QED
  BY <1>1, <1>2, <1>3 DEF Plain

(* SslHandshake::process.                                                   *)
LEMMA HandshakeBuffer ==
    ASSUME EndInv, BufInv, Handshake
    PROVE  BufInv' /\ FifoStep
<1>1. impl = "handshake" /\ UNCHANGED <<closing, taken, wire>>
  BY DEF Handshake, handshakeDone, handshakeRejected, handshakeWants, handshakeFails, handshakeEvent, tcpVars
<1>2. step = "idle"
  BY <1>1, LiveFacts
<1>3. CASE handshakeDone
  <2>1. impl' = "ssl" /\ ssl' = (IF out.size > 0 THEN "sending" ELSE "idle") /\ UNCHANGED <<out, step>>
    BY <1>3 DEF handshakeDone
  <2>2. Waits' /\ (impl \in Over <=> impl' \in Over)
    BY <1>1, <1>2, <2>1 DEF Waits, Over
  <2> QED
    BY <1>1, <2>1, <2>2, Stays
<1>4. CASE handshakeRejected
  <2>1. impl' = "shutdown" /\ out' = Empty /\ step' = step
    BY <1>4 DEF handshakeRejected
  <2> QED
    BY <1>1, <1>2, <2>1, EmptyBuffer, Ends DEF Over
<1>5. CASE handshakeWants
  <2>1. UNCHANGED <<impl, out, ssl, step>>
    BY <1>5 DEF handshakeWants, tcpVars
  <2>2. Waits'
    BY <2>1 DEF BufInv, Waits
  <2> QED
    BY <1>1, <2>1, <2>2, Stays
<1>6. CASE handshakeFails
  <2>1. toClosed(onError(handler, TRUE))
    BY <1>6 DEF handshakeFails
  <2> QED
    BY <1>1, <2>1, ToClosedBuffer
<1> QED
  BY <1>3, <1>4, <1>5, <1>6 DEF Handshake

(* SslConnected::proceed after a step that left the buffer alone.           *)
LEMMA ProceedBuffer ==
    ASSUME BufInv, impl = "ssl", proceed(out), UNCHANGED <<closing, out, ssl, taken, wire>>
    PROVE  BufInv' /\ FifoStep
<1>1. /\ step' = "idle"
      /\ impl' = IF out.size = 0 /\ closing THEN "shutdown" ELSE "ssl"
  BY DEF proceed
<1>2. CASE out.size = 0 /\ closing
  BY <1>1, <1>2, Ends DEF Over, BufInv
<1>3. CASE ~(out.size = 0 /\ closing)
  <2>1. impl' = "ssl" /\ Waits'
    BY <1>1, <1>3 DEF BufInv, Waits
  <2> QED
    BY <2>1, Stays
<1> QED
  BY <1>2, <1>3

(* SslConnected::process.                                                   *)
LEMMA SecureBuffer ==
    ASSUME EndInv, BufInv, Secure
    PROVE  BufInv' /\ FifoStep
<1>1. impl = "ssl" /\ UNCHANGED <<closing, taken>>
  BY LiveFacts DEF Secure, sslEvent, sslBroken, Working, sslWritten, sslReceived, sslWants, sslFails,
                   sslInterrupted, sslWriteNext, sslParsed
<1>2. ASSUME UNCHANGED <<impl, out, wire>>, Waits' PROVE BufInv' /\ FifoStep
  BY <1>1, <1>2, Stays
<1>3. CASE sslEvent
  <2>1. /\ UNCHANGED <<out, ssl, wire>>
        /\ \/ proceed(out)
           \/ UNCHANGED impl /\ step' = "receive"
           \/ UNCHANGED impl /\ step' = "write" /\ (ssl = "sending" \/ out.size > 0)
    BY <1>3 DEF sslEvent, goesOn
  <2>2. CASE proceed(out)
    BY <1>1, <2>1, <2>2, ProceedBuffer
  <2>3. CASE UNCHANGED impl /\ step' = "receive"
    <3>1. Waits'
      BY <2>1, <2>3 DEF BufInv, Waits
    <3> QED
      BY <1>2, <2>1, <2>3, <3>1
  <2>4. CASE UNCHANGED impl /\ step' = "write" /\ (ssl = "sending" \/ out.size > 0)
    <3>1. Waits'
      BY <1>1, <2>1, <2>4 DEF BufInv, Waits
    <3> QED
      BY <1>2, <2>1, <2>4, <3>1
  <2> QED
    BY <2>1, <2>2, <2>3, <2>4
<1>4. CASE sslBroken \/ sslFails
  <2>1. (toClosed(handler) \/ toClosed(onError(handler, TRUE))) /\ wire' = wire
    BY <1>4 DEF sslBroken, sslFails
  <2> QED
    BY <1>1, <2>1, ToClosedBuffer
<1>5. CASE sslWritten
  <2> DEFINE n == Len(First)
  <2>1. /\ step = "write" /\ ssl' = "idle" /\ wire' = wire \o First /\ out' = shrink(out, n)
        /\ \/ out'.size > 0 /\ step' = "write" /\ UNCHANGED impl
           \/ step' = "receive" /\ UNCHANGED impl
           \/ proceed(out')
    BY <1>5 DEF sslWritten
  <2>2. out \in BufferType /\ out.size > 0
    BY <2>1 DEF BufInv, Waits
  <2>3. n \in 1..out.size /\ First = Leading(Content(out), n)
    BY <2>2, FirstFacts
  <2>4. n \in 0..out.size
    BY <2>3, BufFacts
  <2> HIDE DEF n
  <2>5. out' \in BufferType /\ wire' = wire \o Leading(Content(out), n)
    BY <2>1, <2>2, <2>3, <2>4, ShrinkKeeps
  <2>6. sendto(n)
    BY <2>1, <2>5 DEF sendto, Leading
  <2>7. ASSUME impl' = "ssl", step' = "write" => out'.size > 0 PROVE BufInv' /\ FifoStep
    <3>1. impl \notin Over /\ impl' \notin Over /\ impl' \notin {"resolver", "handshake"} /\ Waits'
      BY <1>1, <2>1, <2>7 DEF Over, Waits
    <3> QED
      BY <1>1, <2>4, <2>6, <3>1, Written
  <2>8. CASE proceed(out')
    <3>1. /\ step' = "idle"
          /\ impl' = IF out'.size = 0 /\ closing THEN "shutdown" ELSE "ssl"
      BY <2>8 DEF proceed
    <3>2. CASE out'.size = 0 /\ closing
      BY <1>1, <2>4, <2>5, <3>1, <3>2, Finished DEF Over
    <3> QED
      BY <2>7, <3>1, <3>2
  <2> QED
    BY <1>1, <2>1, <2>7, <2>8
<1>6. CASE sslReceived
  <2>1. UNCHANGED <<impl, out, wire>> /\ Waits'
    BY <1>6 DEF sslReceived, Waits
  <2> QED
    BY <1>2, <2>1
<1>7. CASE sslWants
  <2>1. /\ UNCHANGED <<impl, out, wire>> /\ step' = "idle"
        /\ ssl' = IF step = "write" THEN "sending" ELSE "receiving"
    BY <1>7 DEF sslWants, repeat
  <2>2. Waits'
    BY <2>1 DEF BufInv, Waits
  <2> QED
    BY <1>2, <2>1, <2>2
<1>8. CASE sslInterrupted
  <2>1. UNCHANGED <<impl, out, wire, ssl>> /\ step' = "idle"
    BY <1>8 DEF sslInterrupted
  <2>2. Waits'
    BY <2>1 DEF BufInv, Waits
  <2> QED
    BY <1>2, <2>1, <2>2
<1>9. CASE sslWriteNext
  <2>1. UNCHANGED <<impl, out, wire, ssl>> /\ out.size > 0
    BY <1>9 DEF sslWriteNext
  <2>2. Waits'
    BY <2>1 DEF Waits
  <2> QED
    BY <1>2, <2>1, <2>2
<1>10. CASE sslParsed
  <2>1. UNCHANGED <<out, wire, ssl>> /\ (proceed(out) \/ (step' = "receive" /\ UNCHANGED impl))
    BY <1>10 DEF sslParsed
  <2>2. CASE proceed(out)
    BY <1>1, <2>1, <2>2, ProceedBuffer
  <2>3. CASE step' = "receive" /\ UNCHANGED impl
    <3>1. Waits'
      BY <2>1, <2>3 DEF BufInv, Waits
    <3> QED
      BY <1>2, <2>1, <2>3, <3>1
  <2> QED
    BY <2>1, <2>2, <2>3
<1> QED
  BY <1>3, <1>4, <1>5, <1>6, <1>7, <1>8, <1>9, <1>10 DEF Secure, Working

(* The end of the connection.                                               *)
LEMMA EndBuffer ==
    ASSUME EndInv, BufInv, shutdownDone \/ shutdownWants \/ forceClose
    PROVE  BufInv' /\ FifoStep
<1>1. CASE shutdownDone
  <2>1. toClosed(handler) /\ UNCHANGED <<wire, taken, closing>>
    BY <1>1 DEF shutdownDone
  <2> QED
    BY <2>1, ToClosedBuffer
<1>2. CASE shutdownWants
  <2>1. UNCHANGED <<impl, closing, out, ssl, step, taken, wire>>
    BY <1>2 DEF shutdownWants, tcpVars
  <2>2. Waits'
    BY <2>1 DEF BufInv, Waits
  <2> QED
    BY <2>1, <2>2, Stays
<1>3. CASE forceClose
  <2>1. /\ step = "idle" /\ impl' = "closed" /\ out' = Empty
        /\ UNCHANGED <<closing, step, taken, wire>>
    BY <1>3 DEF forceClose
  <2> QED
    BY <2>1, EmptyBuffer, Ends DEF Over
<1> QED
  BY <1>1, <1>2, <1>3

-----------------------------------------------------------------------------
(* The inductive argument of both parts.                                    *)
LEMMA BufInit ==
    ASSUME Init
    PROVE  BufInv /\ Fifo!Init
<1>1. Content(out) = <<>> /\ out \in BufferType /\ out.size = 0
  BY EmptyBuffer DEF Init
<1>2. wire \in Bytes /\ wire = <<>>
  BY EmptySeq DEF Init, Bytes
<1>3. taken = 0 /\ impl = "resolver" /\ ~closing /\ step = "idle" /\ ssl = "idle"
  BY DEF Init
<1>4. taken \in 0..MaxBytes
  BY <1>3, TcpAssumption
<1>5. BufInv
  BY <1>1, <1>2, <1>3, <1>4 DEF BufInv, Waits, Over
<1>6. Fifo!Init
  BY <1>1, <1>2, <1>3 DEF Fifo!Init
<1> QED
  BY <1>5, <1>6

LEMMA BufNext ==
    ASSUME EndInv, BufInv, [Next]_vars
    PROVE  BufInv' /\ FifoStep
<1>1. CASE UNCHANGED vars
  <2>1. UNCHANGED <<impl, closing, out, ssl, step, taken, wire>>
    BY <1>1 DEF vars, tcpVars
  <2>2. Waits'
    BY <2>1 DEF BufInv, Waits
  <2> QED
    BY <2>1, <2>2, Stays
<1> QED
  BY <1>1, ConnectingBuffer, SendingBuffer, AmqpBuffer, PlainBuffer, HandshakeBuffer, SecureBuffer, EndBuffer
     DEF Next

LEMMA TcpInvariance == Spec => [](EndInv /\ BufInv)
<1>1. Init => EndInv /\ BufInv
  BY EndInit, BufInit
<1>2. EndInv /\ BufInv /\ [Next]_vars => (EndInv /\ BufInv)'
  BY EndNext, BufNext
<1> QED
  BY <1>1, <1>2, PTL DEF Spec

(* The counted size of the TcpOutBuffer is the number of bytes that it      *)
(* still has, after any sequence of add() and of shrink() in the middle of  *)
(* a chunk, and an SSL_write that must be repeated still finds its bytes.   *)
THEOREM TransportTypes == Spec => []TypeOK
<1>1. EndInv /\ BufInv => TypeOK
  <2> SUFFICES ASSUME EndInv, BufInv PROVE TypeOK
    OBVIOUS
  <2>1. out.size = Len(Content(out))
    BY BufFacts
  <2>2. handler.pipe \subseteq Both /\ handler.socket \subseteq Both
    BY DEF EndInv, Shapes, HandlerType
  <2> QED
    BY <2>1, <2>2 DEF TypeOK, EndInv, Shapes, BufInv, Waits
<1> QED
  BY <1>1, TcpInvariance, PTL

(* The transport implements the byte queue: through every change of state,  *)
(* every partial write and every repeated SSL_write, the bytes that it took *)
(* reach the socket in order, each once and without a gap.                  *)
THEOREM TransportIsFifo == Spec => InOrderOnce
<1>1. Init => Fifo!Init
  BY BufInit
<1>2. EndInv /\ BufInv /\ [Next]_vars => [Fifo!Next]_(Fifo!vars)
  BY BufNext DEF FifoStep
<1> QED
  BY <1>1, <1>2, TcpInvariance, PTL DEF Spec, InOrderOnce, Fifo!Spec
=============================================================================
