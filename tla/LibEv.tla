------------------------------- MODULE LibEv -------------------------------
(***************************************************************************)
(* LibEvHandler (include/amqpcpp/libev.h): the Wrapper that it keeps for a *)
(* connection, with the one timer that guards the connect, sends our       *)
(* heartbeats and notices that the server is silent; and the references by *)
(* which libev decides whether the loop still has something to do.         *)
(*                                                                         *)
(* Time counts in half seconds, because a server is given up after one and *)
(* a half times the timeout.  Timers fire when they are due, or up to Lag  *)
(* later when the loop is busy.  The transport below is what module Tcp    *)
(* says of the calls on its handler.                                       *)
(***************************************************************************)
EXTENDS Integers

CONSTANTS
    Timeouts,       \* heartbeat intervals in seconds that may be negotiated
    Connect,        \* the time in which a connection must be made (60 seconds)
    Lag,            \* how late the loop may be
    MaxTime,        \* bound on the time
    None            \* no wrapper, no timer, not yet

(* A wrapper as it can be: the times of the next heartbeat and of the end   *)
(* of our patience, the interval, and when the timer fires.                 *)
Wrappers == [next : Nat, expire : Nat, timeout : Nat, due : Nat \union {None}]

ASSUME LibEvAssumption ==
    /\ Timeouts \subseteq Nat /\ Connect \in Nat \ {0}
    /\ Lag \in Nat /\ MaxTime \in Nat
    /\ None \notin Int /\ None \notin Wrappers

VARIABLES
    now,            \* ev_now()
    wrapper,        \* the Wrapper of the connection, with its timer
    refs,           \* calls of ev_ref() minus calls of ev_unref()
    conn,           \* the connection: resolving, connecting, tuned, ready, closed
    agreed,         \* the interval that was negotiated
    heard,          \* when the server was last readable
    closing,        \* close() was called, or the server has closed the connection
    queued,         \* a heartbeat waits in the queue of the handshake
    beat,           \* when a heartbeat (at first, tune-ok) last went to the transport
    ended           \* why the timer closed the connection, and after which silence

vars == <<now, wrapper, refs, conn, agreed, heard, closing, queued, beat, ended>>

Max(a, b) == IF a >= b THEN a ELSE b
Min(a, b) == IF a <= b THEN a ELSE b

-----------------------------------------------------------------------------
(* The wrappers and the loop, as a record of both.                          *)

Loop == [wrapper |-> wrapper, refs |-> refs]
Becomes(l) == wrapper' = l.wrapper /\ refs' = l.refs

timed(w) == w.expire > 0 \/ w.next > 0

(* LibEvHandler::lookup makes a wrapper when there is none; it is called by *)
(* monitor(), also with flags 0.                                            *)
lookup(l) ==
    IF l.wrapper # None THEN l
    ELSE [wrapper |-> [next |-> 0, expire |-> now + Connect, timeout |-> 0,
                       due |-> now + Connect],
          refs |-> l.refs - 1]

(* Seeded fault: the reference is not restored with the wrapper.            *)
onDetachedLeaks(l) == [l EXCEPT !.wrapper = None]

(* The destructor of Wrapper restores the reference of a timer that runs.   *)
restored(w) == IF timed(w) THEN 1 ELSE 0

(* LibEvHandler::onDetached.                                                *)
onDetached(l) ==
    IF l.wrapper = None THEN l
    ELSE [wrapper |-> None, refs |-> l.refs + restored(l.wrapper)]

(* TcpConnection::close(true) in the calls that it makes on the handler:    *)
(* onDetached(), then monitor() by the destructor of the state, and, if it  *)
(* had a socket, onDetached() again.  The thread of the resolver may have a *)
(* socket that nobody has looked at yet.                                    *)
closeImmediately(l, socket) ==
    IF conn = "closed" THEN onDetached(l)
    ELSE IF ~socket THEN lookup(onDetached(l))
    ELSE onDetached(lookup(onDetached(l)))

HasSocket == IF conn = "resolving" THEN BOOLEAN ELSE {TRUE}

-----------------------------------------------------------------------------
(* What happens to the connection.                                          *)

(* TcpResolver has a socket: the pipe is left, the socket is watched.       *)
connected ==
    /\ conn = "resolving" /\ conn' = "connecting"
    /\ Becomes(lookup(Loop))
    /\ UNCHANGED <<now, agreed, heard, closing, queued, beat, ended>>

(* It has none: onDetached() comes before the pipe is left.                 *)
unresolved ==
    /\ conn = "resolving" /\ conn' = "closed"
    /\ Becomes(lookup(onDetached(Loop)))
    /\ UNCHANGED <<now, agreed, heard, closing, queued, beat, ended>>

(* Wrapper::onActive, when the socket is readable.                          *)
active(w) == IF w.timeout # 0 THEN [w EXCEPT !.expire = now + 3 * w.timeout] ELSE w

(* Wrapper::start, by onNegotiate: without heartbeats the timer of the      *)
(* connect goes on.                                                         *)
start(w, timeout) ==
    IF timeout = 0 THEN [w EXCEPT !.timeout = 0]
    ELSE LET next == now + 2 * Max(timeout \div 2, 1)
             expire == now + 3 * timeout
         IN  [next |-> next, expire |-> expire, timeout |-> timeout, due |-> Min(next, expire)]

(* The tune frame is read.                                                  *)
negotiate ==
    /\ conn = "connecting" /\ conn' = "tuned"
    /\ \E timeout \in Timeouts :
         /\ Becomes([lookup(Loop) EXCEPT !.wrapper = start(active(@), timeout)])
         /\ agreed' = timeout
    /\ heard' = now /\ beat' = now
    /\ UNCHANGED <<now, closing, queued, ended>>

(* Anything is read but the frame open-ok.                                  *)
readable ==
    /\ conn \in {"connecting", "tuned", "ready"}
    /\ wrapper' = active(wrapper)
    /\ heard' = now
    /\ UNCHANGED <<now, refs, conn, agreed, closing, queued, beat, ended>>

(* The frame open-ok makes the connection ready, which is what              *)
(* TcpConnection::initialized() tells, and ConnectionImpl::setReady sends   *)
(* the frames that had to wait.                                             *)
setReady ==
    /\ conn = "tuned" /\ conn' = "ready"
    /\ wrapper' = active(wrapper)
    /\ heard' = now
    /\ beat' = IF queued THEN now ELSE beat
    /\ queued' = FALSE
    /\ UNCHANGED <<now, refs, agreed, closing, ended>>

(* The connection ends otherwise: cleanup() leaves the socket, and the      *)
(* handler is detached.                                                     *)
lost ==
    /\ conn \in {"connecting", "tuned", "ready"} /\ conn' = "closed"
    /\ Becomes(onDetached(lookup(Loop)))
    /\ UNCHANGED <<now, agreed, heard, closing, queued, beat, ended>>

(* The application calls close(), or the server closes the connection: the  *)
(* timer and the socket go on, until the transport has ended.               *)
close ==
    /\ conn # "closed" /\ ~closing
    /\ closing' = TRUE
    /\ UNCHANGED <<now, wrapper, refs, conn, agreed, heard, queued, beat, ended>>

(* The application calls close(true).                                       *)
closes ==
    /\ conn # "closed" /\ conn' = "closed"
    /\ \E socket \in HasSocket : Becomes(closeImmediately(Loop, socket))
    /\ UNCHANGED <<now, agreed, heard, closing, queued, beat, ended>>

-----------------------------------------------------------------------------
(* Wrapper::onExpired.                                                      *)

Fired == wrapper # None /\ wrapper.due # None /\ wrapper.due <= now

(* The timer no longer runs, its reference is restored, and the times are   *)
(* forgotten.                                                               *)
Reset == [wrapper |-> [next |-> 0, expire |-> 0, timeout |-> 0, due |-> None], refs |-> refs + 1]

(* No heartbeats were agreed.  initialized() also holds of a connection     *)
(* that has failed.                                                         *)
connectTimer ==
    /\ Fired /\ wrapper.timeout = 0
    /\ \/ /\ conn \in {"ready", "closed"}
          /\ Becomes(Reset)
          /\ UNCHANGED <<conn, ended>>
       \/ /\ conn \in {"resolving", "connecting", "tuned"}
          /\ \E socket \in HasSocket : Becomes(closeImmediately(Reset, socket))
          /\ conn' = "closed" /\ ended' = [why |-> "connect", silence |-> 0]
    /\ UNCHANGED <<now, agreed, heard, closing, queued, beat>>

(* Seeded fault: the wrong one of the two times is looked at.               *)
silentEarly == now >= wrapper.next

silent == now >= wrapper.expire

expired ==
    /\ Fired /\ wrapper.timeout # 0 /\ silent
    /\ \E socket \in HasSocket : Becomes(closeImmediately(Reset, socket))
    /\ conn' = "closed" /\ ended' = [why |-> "silence", silence |-> now - heard]
    /\ UNCHANGED <<now, agreed, heard, closing, queued, beat>>

(* Seeded fault: a heartbeat that has to wait is dropped.                   *)
sendHeartbeatDrops ==
    /\ beat' = IF conn = "ready" /\ ~closing THEN now ELSE beat
    /\ UNCHANGED queued

(* ConnectionImpl::heartbeat and its send(): the frame is queued until the  *)
(* connection is ready, and refused once the connection is being closed.    *)
sendHeartbeat ==
    /\ beat' = IF conn = "ready" /\ ~closing THEN now ELSE beat
    /\ queued' = (queued \/ (conn = "tuned" /\ ~closing))

(* A heartbeat, if it is time for one; then the timer is set again.         *)
heartbeat ==
    /\ Fired /\ wrapper.timeout # 0 /\ ~silent
    /\ LET next == IF now >= wrapper.next THEN now + 2 * Max(wrapper.timeout \div 2, 1)
                   ELSE wrapper.next
       IN  wrapper' = [wrapper EXCEPT !.next = next, !.due = Min(next, wrapper.expire)]
    /\ \/ now >= wrapper.next /\ sendHeartbeat
       \/ now < wrapper.next /\ UNCHANGED <<queued, beat>>
    /\ UNCHANGED <<now, refs, conn, agreed, heard, closing, ended>>

(* Time goes on, and the loop is not later than Lag.                        *)
tick ==
    /\ now < MaxTime
    /\ wrapper # None /\ wrapper.due # None => now + 1 <= wrapper.due + Lag
    /\ now' = now + 1
    /\ UNCHANGED <<wrapper, refs, conn, agreed, heard, closing, queued, beat, ended>>

-----------------------------------------------------------------------------
(* The constructor of TcpResolver has watched the pipe.                     *)
Init ==
    /\ now = 1
    /\ wrapper = [next |-> 0, expire |-> 1 + Connect, timeout |-> 0, due |-> 1 + Connect]
    /\ refs = -1
    /\ conn = "resolving" /\ agreed = None /\ heard = None /\ beat = None
    /\ closing = FALSE /\ queued = FALSE
    /\ ended = [why |-> "no", silence |-> 0]

Next ==
    \/ connected \/ unresolved \/ negotiate \/ readable \/ setReady
    \/ lost \/ close \/ closes
    \/ connectTimer \/ expired \/ heartbeat \/ tick

Spec == Init /\ [][Next]_vars

-----------------------------------------------------------------------------
(* A server that says nothing is given up when one and a half times the     *)
(* timeout has passed, late by no more than the loop is, and never sooner:  *)
(* a server that is heard in time keeps its connection, although reading    *)
(* does not touch the timer.                                                *)
SilenceIsNoticed ==
    /\ conn \in {"tuned", "ready"} /\ agreed # 0 => now <= heard + 3 * agreed + Lag
    /\ ended.why = "silence" => ended.silence >= 3 * agreed

(* From open-ok until the connection is being closed, the transport gets a  *)
(* heartbeat within the interval that was agreed (of at least a second).    *)
(* It holds from the first moment on, although heartbeats that were due     *)
(* before open-ok had to wait in the queue, for as long as that took.       *)
WeAreHeard ==
    conn = "ready" /\ ~closing /\ agreed # 0 => now <= beat + 2 * agreed + Lag

(* The loop counts one reference less exactly while the timer of a wrapper  *)
(* is running.  Otherwise ev_run() would return while connections are open, *)
(* or would never return: every path that ends a timer or a wrapper         *)
(* restores the reference once.                                             *)
RefsBalanced == refs = (IF wrapper # None /\ wrapper.due # None THEN -1 ELSE 0)
=============================================================================
