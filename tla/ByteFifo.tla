------------------------------ MODULE ByteFifo ------------------------------
(***************************************************************************)
(* What the transport promises to the AMQP connection above it: while it   *)
(* is open it takes every byte that it is given, and the bytes reach the   *)
(* socket in that order, each of them once and without gaps.  A closing    *)
(* transport takes nothing new and may still write what it has; a closed   *)
(* one has dropped what it had not written.                                *)
(***************************************************************************)
EXTENDS Naturals, Sequences

CONSTANT Sizes          \* how many bytes may be handed over in one call
VARIABLES
    taken,              \* how many bytes were handed over; a byte is its number
    pending,            \* the bytes that are not yet written
    delivered,          \* the bytes that are written
    mode                \* "open", "closing" or "closed"

vars == <<taken, pending, delivered, mode>>

Init == taken = 0 /\ pending = <<>> /\ delivered = <<>> /\ mode = "open"

(* Bytes of this sequence leave at the front, as many as the socket takes.  *)
Drain(bytes) ==
    \E k \in 0..Len(bytes) :
        /\ delivered' = delivered \o SubSeq(bytes, 1, k)
        /\ pending' = SubSeq(bytes, k + 1, Len(bytes))

Take ==
    /\ mode = "open"
    /\ \E n \in Sizes :
         /\ taken' = taken + n
         /\ Drain(pending \o [i \in 1..n |-> taken + i])
    /\ UNCHANGED mode

Write == mode # "closed" /\ Drain(pending) /\ UNCHANGED <<taken, mode>>

StartClosing ==
    /\ mode = "open" /\ mode' = "closing"
    /\ UNCHANGED <<taken, pending, delivered>>

(* The step that closes may still write; the rest is dropped.               *)
Close ==
    /\ mode # "closed" /\ mode' = "closed"
    /\ \E k \in 0..Len(pending) : delivered' = delivered \o SubSeq(pending, 1, k)
    /\ pending' = <<>>
    /\ UNCHANGED taken

Next == Take \/ Write \/ StartClosing \/ Close
Spec == Init /\ [][Next]_vars
=============================================================================
