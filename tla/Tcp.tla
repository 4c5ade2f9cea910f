-------------------------------- MODULE Tcp --------------------------------
(***************************************************************************)
(* TcpConnection (src/src/linux_tcp): the state objects that replace each  *)
(* other - TcpResolver with its thread, TcpConnected, SslHandshake,        *)
(* SslConnected, SslShutdown, TcpClosed -, the buffer of bytes that could  *)
(* not be written yet, and the calls on the application's handler.         *)
(*                                                                         *)
(* A step is a file descriptor that the event loop reports, a call of the  *)
(* AMQP connection above, a call of the application, or a step of the      *)
(* resolver thread.  A call on SSL_read, SSL_write and so on has any of    *)
(* the results that OpenSSL may give.  A byte is its number in the order   *)
(* in which bytes were taken for sending.                                  *)
(***************************************************************************)
EXTENDS Naturals, Sequences, SequencesExt

CONSTANTS
    Secures,        \* is the connection amqps?  a set of BOOLEANs to try
    Sizes,          \* sizes of the buffers that are sent
    MaxBytes,       \* bound on the bytes that are sent
    MayForce        \* may the application call close(true)?

ASSUME TcpAssumption ==
    /\ Secures \subseteq BOOLEAN /\ MayForce \in BOOLEAN
    /\ Sizes \subseteq Nat \ {0} /\ MaxBytes \in Nat

VARIABLES
    secure,         \* TcpResolver::_secure
    impl,           \* the class of the object in TcpConnection::_state
    thread,         \* the resolver thread: "running", or how it ended
    socket,         \* is there an open socket?
    closing,        \* _closed of TcpConnected and SslConnected
    out,            \* the TcpOutBuffer, handed on from state to state
    ssl,            \* SslConnected::_state
    step,           \* where process() stands: "idle", "write", "receive" or "parse"
    amqp,           \* the AMQP connection: "open", "error" (reported) or "closed"
    handler,        \* what the handler was told
    taken,          \* number of bytes taken for sending
    wire            \* the bytes written to the socket

tcpVars == <<secure, impl, thread, socket, closing, out, ssl, step>>
vars == <<tcpVars, amqp, handler, taken, wire>>

Readable == {"r"}
Writable == {"w"}
Both == {"r", "w"}

-----------------------------------------------------------------------------
(* TcpOutBuffer: chunks, with the first skip bytes of the first one gone.   *)

Empty == [buffers |-> <<>>, skip |-> 0, size |-> 0]
Content(o) == SubSeq(FlattenSeq(o.buffers), o.skip + 1, Len(FlattenSeq(o.buffers)))

add(o, chunk) ==
    [o EXCEPT !.buffers = Append(@, chunk), !.size = @ + Len(chunk)]

(* bytes in the first k chunks that are still to be sent                    *)
Upto(o, k) == IF k = 0 THEN 0 ELSE Len(FlattenSeq(SubSeq(o.buffers, 1, k))) - o.skip

(* Seeded fault: a chunk that was sent in part is counted in full.          *)
shrinkMiscounts(o, n) ==
    LET k == CHOOSE i \in 0..Len(o.buffers) :
                Upto(o, i) <= n /\ (i < Len(o.buffers) => Upto(o, i + 1) > n)
    IN  IF n >= o.size THEN Empty
        ELSE [buffers |-> SubSeq(o.buffers, k + 1, Len(o.buffers)),
              skip |-> (IF k = 0 THEN o.skip ELSE 0) + n - Upto(o, k),
              size |-> o.size - Upto(o, k)]

(* Seeded fault: skip is not reset when a chunk is removed.                 *)
shrinkKeepsSkip(o, n) ==
    LET k == CHOOSE i \in 0..Len(o.buffers) :
                Upto(o, i) <= n /\ (i < Len(o.buffers) => Upto(o, i + 1) > n)
    IN  IF n >= o.size THEN Empty
        ELSE [buffers |-> SubSeq(o.buffers, k + 1, Len(o.buffers)),
              skip |-> o.skip + n - Upto(o, k),
              size |-> o.size - n]

(* TcpOutBuffer::shrink: chunks that are sent as a whole are removed, the   *)
(* rest is skipped in the next one.                                         *)
shrink(o, n) ==
    LET k == CHOOSE i \in 0..Len(o.buffers) :
                Upto(o, i) <= n /\ (i < Len(o.buffers) => Upto(o, i + 1) > n)
    IN  IF n >= o.size THEN Empty
        ELSE [buffers |-> SubSeq(o.buffers, k + 1, Len(o.buffers)),
              skip |-> (IF k = 0 THEN o.skip ELSE 0) + n - Upto(o, k),
              size |-> o.size - n]

(* TcpOutBuffer::sendto(socket): the calls of sendmsg() write n bytes.      *)
sendto(n) ==
    /\ wire' = wire \o SubSeq(Content(out), 1, n)
    /\ out' = shrink(out, n)

(* TcpOutBuffer::fill(buffers, 1): the chunk that SSL_write gets.           *)
First == SubSeq(Head(out.buffers), out.skip + 1, Len(Head(out.buffers)))

-----------------------------------------------------------------------------
(* Calls on the handler.                                                    *)

monitor(h, fd, events) == [h EXCEPT ![fd] = events]
onConnected(h) == [h EXCEPT !.connected = TRUE]
onDetached(h) == [h EXCEPT !.detached = TRUE]
onLost(h) == onDetached([h EXCEPT !.lost = TRUE])

(* TcpConnection::onError(state, message, connected): the AMQP connection   *)
(* fails; the handler is told unless it was closed before.                  *)
onError(h, connected) ==
    LET told == IF amqp = "closed" THEN h ELSE [h EXCEPT !.error = TRUE]
    IN  IF connected THEN told ELSE onDetached(told)

(* Seeded fault: the socket is forgotten without telling anyone.            *)
cleanupSilent(h, s) == h

(* TcpExtState::cleanup, in the destructor of a state that has a socket.    *)
cleanup(h, s) == IF s THEN onLost(monitor(h, "socket", {})) ELSE h

(* The state is replaced by TcpClosed, and its destructor cleans up.        *)
toClosed(h) ==
    /\ impl' = "closed"
    /\ handler' = cleanup(h, socket)
    /\ socket' = FALSE
    /\ out' = Empty
    /\ step' = "idle"

-----------------------------------------------------------------------------
(* TcpResolver.                                                             *)

(* TcpResolver::run: the name is resolved and its addresses are tried; then *)
(* a byte on the pipe wakes up the event loop.                              *)
threadEnds ==
    /\ thread = "running"
    /\ \E result \in {"connected", "failed"} :
         /\ thread' = result
         /\ socket' = (result = "connected")
    /\ UNCHANGED <<secure, impl, closing, out, ssl, step, amqp, handler, taken, wire>>

(* TcpResolver::process and proceed, which joins the thread.  The new state *)
(* takes the socket, then the resolver is destructed and leaves the pipe.   *)
resolved ==
    /\ impl = "resolver" /\ thread # "running"
    /\ "r" \in handler.pipe

resolveFails ==
    /\ resolved /\ thread = "failed"
    /\ toClosed(monitor(onError(handler, FALSE), "pipe", {}))
    /\ amqp' = "closed"
    /\ UNCHANGED <<secure, thread, closing, ssl, taken, wire>>

(* TcpConnected::TcpConnected: writes what there is.                        *)
connectPlain ==
    /\ resolved /\ thread = "connected" /\ ~secure
    /\ impl' = "tcp"
    /\ \E n \in 0..out.size : sendto(n)
    /\ handler' = monitor(monitor(onConnected(handler), "socket",
                                  IF out'.size > 0 THEN Both ELSE Readable), "pipe", {})
    /\ UNCHANGED <<secure, thread, socket, closing, ssl, step, amqp, taken>>

(* SslHandshake::SslHandshake.                                              *)
connectSecure ==
    /\ resolved /\ thread = "connected" /\ secure
    /\ impl' = "handshake"
    /\ handler' = monitor(monitor(onConnected(handler), "socket", Writable), "pipe", {})
    /\ UNCHANGED <<secure, thread, socket, closing, out, ssl, step, amqp, taken, wire>>

(* It throws, because OpenSSL or the handler refuses: the socket had been   *)
(* taken over, so that the base class cleans up before the error is caught. *)
connectRefused ==
    /\ resolved /\ thread = "connected" /\ secure
    /\ impl' = "closed" /\ socket' = FALSE /\ out' = Empty
    /\ handler' = monitor(onError(cleanup(onConnected(handler), TRUE), FALSE), "pipe", {})
    /\ amqp' = "closed"
    /\ UNCHANGED <<secure, thread, closing, ssl, step, taken, wire>>

-----------------------------------------------------------------------------
(* Sending: TcpConnection::onData, called by the AMQP connection.           *)

Unbusy == step \in {"idle", "parse"}
Chunk(n) == [i \in 1..n |-> taken + i]

sendBuffered ==
    \/ impl \in {"resolver", "handshake"}
    \/ impl = "tcp" /\ ~closing /\ out.size > 0
    \/ impl = "ssl" /\ ~closing /\ (ssl # "idle" \/ out.size > 0)

(* TcpResolver::send, SslHandshake::send, and the others when they are busy.*)
sendLater ==
    /\ Unbusy /\ amqp # "closed" /\ sendBuffered
    /\ \E n \in Sizes :
         /\ taken + n <= MaxBytes
         /\ taken' = taken + n
         /\ out' = add(out, Chunk(n))
    /\ UNCHANGED <<secure, impl, thread, socket, closing, ssl, step, amqp, handler, wire>>

(* TcpConnected::send: what the socket does not take at once is buffered.   *)
sendPlain ==
    /\ Unbusy /\ amqp # "closed"
    /\ impl = "tcp" /\ ~closing /\ out.size = 0
    /\ \E n \in Sizes : \E m \in 0..n :
         /\ taken + n <= MaxBytes
         /\ taken' = taken + n
         /\ wire' = wire \o SubSeq(Chunk(n), 1, m)
         /\ out' = IF m = n THEN out ELSE add(out, SubSeq(Chunk(n), m + 1, n))
         /\ handler' = IF m = n THEN handler ELSE monitor(handler, "socket", Both)
    /\ UNCHANGED <<secure, impl, thread, socket, closing, ssl, step, amqp>>

(* SslConnected::repeat(state, error): the same call must be made again     *)
(* when the socket is ready for what OpenSSL wants.                         *)
repeat(state, h) ==
    /\ ssl' = state
    /\ \E events \in {Readable, Both} : handler' = monitor(h, "socket", events)

(* SslConnected::send: SSL_write takes all, or has to be repeated, or fails;*)
(* then the next event finds the error state.                               *)
sendSecure ==
    /\ Unbusy /\ amqp # "closed"
    /\ impl = "ssl" /\ ~closing /\ ssl = "idle" /\ out.size = 0
    /\ \E n \in Sizes :
         /\ taken + n <= MaxBytes
         /\ taken' = taken + n
         /\ \/ wire' = wire \o Chunk(n)
               /\ UNCHANGED <<out, ssl, handler, amqp>>
            \/ out' = add(out, Chunk(n))
               /\ repeat("sending", handler)
               /\ UNCHANGED <<wire, amqp>>
            \/ out' = add(out, Chunk(n))
               /\ ssl' = "error" /\ amqp' = "closed"
               /\ handler' = monitor(onError(handler, TRUE), "socket", Readable)
               /\ UNCHANGED wire
    /\ UNCHANGED <<secure, impl, thread, socket, closing, step>>

-----------------------------------------------------------------------------
(* What the parsed frames may do: TcpConnection::onClosed and onError of    *)
(* the AMQP connection, which end in the close() of the state.              *)

close(h) ==
    /\ closing' = TRUE
    /\ handler' = IF \/ impl = "tcp" /\ (closing \/ out.size > 0)
                     \/ impl = "ssl" /\ ssl # "idle"
                  THEN h
                  ELSE monitor(h, "socket", IF impl = "tcp" THEN Readable ELSE Both)

amqpClosed ==
    /\ step = "parse" /\ amqp # "closed"
    /\ amqp' = "closed"
    /\ close([handler EXCEPT !.closed = TRUE])
    /\ UNCHANGED <<secure, impl, thread, socket, out, ssl, step, taken, wire>>

amqpError ==
    /\ step = "parse" /\ amqp # "closed"
    /\ amqp' = "error"
    /\ close([handler EXCEPT !.error = TRUE])
    /\ UNCHANGED <<secure, impl, thread, socket, out, ssl, step, taken, wire>>

-----------------------------------------------------------------------------
(* TcpConnected::process.                                                   *)

tcpEvent(flag) == impl = "tcp" /\ step = "idle" /\ flag \in handler.socket

(* The socket takes some bytes.  When all are gone only readability is of   *)
(* interest, which after close() is the end of the stream.                  *)
tcpWritable ==
    /\ tcpEvent("w")
    /\ \E n \in 1..out.size : sendto(n)
    /\ handler' = IF out'.size > 0 THEN handler ELSE monitor(handler, "socket", Readable)
    /\ UNCHANGED <<secure, impl, thread, socket, closing, ssl, step, amqp, taken>>

tcpReadable ==
    /\ tcpEvent("r")
    /\ step' = "parse"
    /\ UNCHANGED <<secure, impl, thread, socket, closing, out, ssl, amqp, handler, taken, wire>>

(* TcpConnected::reportError and finalState: end of file, or an error.      *)
tcpLost ==
    /\ \E flag \in Both : tcpEvent(flag)
    /\ toClosed(IF closing THEN handler ELSE onError(handler, TRUE))
    /\ amqp' = IF closing THEN amqp ELSE "closed"
    /\ UNCHANGED <<secure, thread, closing, ssl, taken, wire>>

(* parse() returns.                                                         *)
tcpParsed ==
    /\ impl = "tcp" /\ step = "parse"
    /\ step' = "idle"
    /\ UNCHANGED <<secure, impl, thread, socket, closing, out, ssl, amqp, handler, taken, wire>>

-----------------------------------------------------------------------------
(* SslHandshake::process.                                                   *)

handshakeEvent == impl = "handshake" /\ handler.socket # {}

(* SSL_do_handshake succeeds and the handler allows the connection.         *)
handshakeDone ==
    /\ handshakeEvent
    /\ impl' = "ssl"
    /\ ssl' = IF out.size > 0 THEN "sending" ELSE "idle"
    /\ handler' = monitor(handler, "socket", IF out.size > 0 THEN Both ELSE Readable)
    /\ UNCHANGED <<secure, thread, socket, closing, out, step, amqp, taken, wire>>

(* It succeeds, but the handler does not allow the connection.              *)
handshakeRejected ==
    /\ handshakeEvent
    /\ impl' = "shutdown" /\ out' = Empty
    /\ handler' = monitor(onError(handler, TRUE), "socket", Both)
    /\ amqp' = "closed"
    /\ UNCHANGED <<secure, thread, socket, closing, ssl, step, taken, wire>>

handshakeWants ==
    /\ handshakeEvent
    /\ \E events \in {Readable, Both} : handler' = monitor(handler, "socket", events)
    /\ UNCHANGED <<tcpVars, amqp, taken, wire>>

handshakeFails ==
    /\ handshakeEvent
    /\ toClosed(onError(handler, TRUE))
    /\ amqp' = "closed"
    /\ UNCHANGED <<secure, thread, closing, ssl, taken, wire>>

-----------------------------------------------------------------------------
(* SslConnected::process.                                                   *)

(* Seeded fault: the buffer is forgotten when the next event is chosen.     *)
proceedDeaf(o) ==
    /\ step' = "idle"
    /\ impl' = IF o.size = 0 /\ closing THEN "shutdown" ELSE "ssl"
    /\ handler' = monitor(handler, "socket", IF closing THEN Both ELSE Readable)

(* Seeded fault: a close() that came while data was waiting is forgotten.   *)
proceedStays(o) ==
    /\ step' = "idle"
    /\ impl' = "ssl"
    /\ handler' = monitor(handler, "socket", IF o.size > 0 THEN Both ELSE Readable)

(* SslConnected::proceed, with what is then in the buffer.                  *)
proceed(o) ==
    /\ step' = "idle"
    /\ impl' = IF o.size = 0 /\ closing THEN "shutdown" ELSE "ssl"
    /\ handler' = monitor(handler, "socket", IF o.size > 0 \/ closing THEN Both ELSE Readable)

(* Which operation an event starts or repeats.                              *)
goesOn(flags) ==
    IF ssl = "sending" THEN "write"
    ELSE IF ssl = "receiving" \/ "r" \in flags THEN "receive"
    ELSE IF out.size > 0 THEN "write" ELSE "proceed"

sslEvent ==
    /\ impl = "ssl" /\ step = "idle" /\ ssl # "error"
    /\ \E flags \in (SUBSET handler.socket) \ {{}} :
         IF goesOn(flags) = "proceed"
         THEN proceed(out)
         ELSE step' = goesOn(flags) /\ UNCHANGED <<impl, handler>>
    /\ UNCHANGED <<secure, thread, socket, closing, out, ssl, amqp, taken, wire>>

(* An event in the error state that send() left behind.                     *)
sslBroken ==
    /\ impl = "ssl" /\ step = "idle" /\ ssl = "error" /\ handler.socket # {}
    /\ toClosed(handler)
    /\ UNCHANGED <<secure, thread, closing, ssl, amqp, taken, wire>>

(* write: SSL_write takes the first buffer, and the loop goes on until the  *)
(* socket is readable, which is asked twice.                                *)
sslWritten ==
    /\ step = "write"
    /\ ssl' = "idle"
    /\ wire' = wire \o First
    /\ out' = shrink(out, Len(First))
    /\ \/ out'.size > 0 /\ step' = "write" /\ UNCHANGED <<impl, handler>>
       \/ step' = "receive" /\ UNCHANGED <<impl, handler>>
       \/ proceed(out')
    /\ UNCHANGED <<secure, thread, socket, closing, amqp, taken>>

(* receive: SSL_read returns data, which is parsed.                         *)
sslReceived ==
    /\ step = "receive"
    /\ ssl' = "idle" /\ step' = "parse"
    /\ UNCHANGED <<secure, impl, thread, socket, closing, out, amqp, handler, taken, wire>>

(* Either of them must be repeated later.                                   *)
sslWants ==
    /\ step \in {"write", "receive"}
    /\ repeat(IF step = "write" THEN "sending" ELSE "receiving", handler)
    /\ step' = "idle"
    /\ UNCHANGED <<secure, impl, thread, socket, closing, out, amqp, taken, wire>>

(* Either of them fails.                                                    *)
sslFails ==
    /\ step \in {"write", "receive"}
    /\ ssl' = "error"
    /\ toClosed(onError(handler, TRUE))
    /\ amqp' = "closed"
    /\ UNCHANGED <<secure, thread, closing, taken, wire>>

(* parse() returned, and send() left a call that must be repeated.          *)
sslInterrupted ==
    /\ impl = "ssl" /\ step = "parse" /\ ssl # "idle"
    /\ step' = "idle"
    /\ UNCHANGED <<secure, impl, thread, socket, closing, out, ssl, amqp, handler, taken, wire>>

(* parse() returned; the socket is writable and there is data to write.     *)
sslWriteNext ==
    /\ impl = "ssl" /\ step = "parse" /\ ssl = "idle" /\ out.size > 0
    /\ step' = "write"
    /\ UNCHANGED <<secure, impl, thread, socket, closing, out, ssl, amqp, handler, taken, wire>>

(* parse() returned; SSL_pending() is positive, or the event is finished.   *)
sslParsed ==
    /\ impl = "ssl" /\ step = "parse" /\ ssl = "idle"
    /\ \/ step' = "receive" /\ UNCHANGED <<impl, handler>>
       \/ proceed(out)
    /\ UNCHANGED <<secure, thread, socket, closing, out, ssl, amqp, taken, wire>>

-----------------------------------------------------------------------------
(* SslShutdown::process.                                                    *)

shutdownDone ==
    /\ impl = "shutdown" /\ handler.socket # {}
    /\ toClosed(handler)
    /\ UNCHANGED <<secure, thread, closing, ssl, amqp, taken, wire>>

shutdownWants ==
    /\ impl = "shutdown" /\ handler.socket # {}
    /\ \E events \in {Readable, Both} : handler' = monitor(handler, "socket", events)
    /\ UNCHANGED <<tcpVars, amqp, taken, wire>>

-----------------------------------------------------------------------------
(* TcpConnection::close(true), called from outside of process(): the        *)
(* connection fails and the handler hears onLost() and onDetached(); then   *)
(* the state is destructed.  The destructor of TcpResolver leaves the pipe  *)
(* and waits for the thread, which may have got a socket in the meantime.   *)
forceClose ==
    /\ MayForce /\ step = "idle"
    /\ \E result \in IF thread = "running" THEN {"connected", "failed"} ELSE {thread} :
         LET fails == IF amqp = "closed" THEN handler
                      ELSE [handler EXCEPT !.error = TRUE]
             told == onLost(fails)
             left == IF impl = "resolver" THEN monitor(told, "pipe", {}) ELSE told
         IN  /\ thread' = result
             /\ handler' = cleanup(left, socket \/ (thread = "running" /\ result = "connected"))
    /\ impl' = "closed" /\ socket' = FALSE /\ out' = Empty
    /\ amqp' = "closed"
    /\ UNCHANGED <<secure, closing, ssl, step, taken, wire>>

-----------------------------------------------------------------------------
(* The resolver is constructed first, and has the pipe watched.             *)
Init ==
    /\ secure \in Secures
    /\ impl = "resolver" /\ thread = "running" /\ socket = FALSE
    /\ closing = FALSE /\ out = Empty /\ ssl = "idle" /\ step = "idle"
    /\ amqp = "open"
    /\ handler = [pipe |-> Readable, socket |-> {}, connected |-> FALSE, error |-> FALSE,
                  closed |-> FALSE, lost |-> FALSE, detached |-> FALSE]
    /\ taken = 0 /\ wire = <<>>

Connecting == threadEnds \/ resolveFails \/ connectPlain \/ connectSecure \/ connectRefused
Sending == sendLater \/ sendPlain \/ sendSecure
Plain == tcpWritable \/ tcpReadable \/ tcpLost \/ tcpParsed
Handshake == handshakeDone \/ handshakeRejected \/ handshakeWants \/ handshakeFails
Working ==
    \/ sslWritten \/ sslReceived \/ sslWants \/ sslFails
    \/ sslInterrupted \/ sslWriteNext \/ sslParsed
Secure == sslEvent \/ sslBroken \/ Working

Next ==
    \/ Connecting \/ Sending \/ amqpClosed \/ amqpError
    \/ Plain \/ Handshake \/ Secure \/ shutdownDone \/ shutdownWants
    \/ forceClose

(* The thread ends, and a call of process() runs to its end.  A descriptor  *)
(* that is watched for writing gets writable (TcpConnected::process looks   *)
(* at that flag first, so that reading cannot starve it).  One that is      *)
(* watched only for reading need not get readable, unless the peer owes     *)
(* something: the rest of a TLS handshake, which is what SSL_do_handshake   *)
(* and SSL_write wait for, or the end of the stream after a failure of TLS  *)
(* or once the AMQP connection has ended.  An SSL_read that waits for more  *)
(* is owed nothing.  And OpenSSL, when it is called again and again, does   *)
(* not ask for a repetition for ever.                                       *)
SslOwed == ssl = "sending" \/ "w" \in handler.socket \/ amqp # "open"

Fairness ==
    /\ WF_vars(Connecting) /\ SF_vars(tcpWritable \/ (tcpLost /\ out.size > 0))
    /\ WF_vars(tcpParsed) /\ SF_vars(tcpLost /\ closing /\ out.size = 0)
    /\ WF_vars(Handshake) /\ SF_vars(handshakeDone \/ handshakeRejected \/ handshakeFails)
    /\ WF_vars(sslEvent /\ SslOwed) /\ WF_vars(sslBroken)
    /\ WF_vars(Working) /\ SF_vars(sslWritten) /\ SF_vars(sslReceived) /\ SF_vars(sslWriteNext)
    /\ SF_vars(sslParsed /\ step' = "idle")
    /\ SF_vars(shutdownDone)

Spec == Init /\ [][Next]_vars
FairSpec == Spec /\ Fairness

-----------------------------------------------------------------------------
(* The buffer, the watched descriptors and the results of the calls have    *)
(* the shapes that the code gives them; the counted size is the real one,   *)
(* and an interrupted SSL_write still finds its bytes in the buffer         *)
(* (otherwise the repeated call would have nothing to repeat).              *)
TypeOK ==
    /\ impl \in {"resolver", "tcp", "handshake", "ssl", "shutdown", "closed"}
    /\ thread \in {"running", "connected", "failed"}
    /\ ssl \in {"idle", "sending", "receiving", "error"}
    /\ step \in {"idle", "write", "receive", "parse"}
    /\ handler.pipe \subseteq Both /\ handler.socket \subseteq Both
    /\ taken \in 0..MaxBytes
    /\ out.size = Len(Content(out))
    /\ ssl = "sending" /\ impl = "ssl" => out.size > 0

(* The bytes that the AMQP connection hands over reach the socket as        *)
(* ByteFifo says: in order, once, without gaps.                             *)
Fifo == INSTANCE ByteFifo WITH
    pending <- Content(out), delivered <- wire,
    mode <- IF impl \in {"shutdown", "closed"} THEN "closed"
            ELSE IF closing THEN "closing" ELSE "open"
InOrderOnce == Fifo!Spec

(* When a connection has come to TcpClosed nothing is watched any more, the *)
(* socket is closed, and the handler was told: onDetached() in any case,    *)
(* onLost() if it was told onConnected(), and why: onClosed() or onError(). *)
CleanEnd ==
    impl = "closed" =>
        /\ handler.pipe = {} /\ handler.socket = {} /\ ~socket
        /\ handler.detached /\ (handler.connected => handler.lost)
        /\ (handler.closed \/ handler.error)

(* Bytes that were taken do not stay in the buffer: they are written, or    *)
(* the connection ends.  The one exception is AwaitsRead: after an SSL_read *)
(* that wants to read more, SslConnected has only readability watched and   *)
(* send() just adds to the buffer, so that nothing leaves until the peer    *)
(* says something.  Nowhere else does it wait for the wrong event while it  *)
(* has something to send.                                                   *)
AwaitsRead ==
    /\ impl = "ssl" /\ ssl = "receiving" /\ step = "idle" /\ amqp = "open"
    /\ handler.socket = Readable
EverythingLeaves == out.size > 0 ~> (out.size = 0 \/ []AwaitsRead)

(* Once the AMQP connection is closed or has failed, the transport comes to *)
(* its end as well and the handler hears that it is detached.               *)
EndIsReported == (amqp # "open") ~> (impl = "closed" /\ handler.detached)
=============================================================================
