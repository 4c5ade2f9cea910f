------------------------------- MODULE MCWire -------------------------------
(* Wire for TLC: a small stream of frames of which the limit is changed, and *)
(* every frame class by itself.                                             *)
EXTENDS Wire

(* Frames that fit, just fit and do not fit before or after the limit is    *)
(* lowered to 20 or raised to 32, two of them in the stream at a time.      *)
Renegotiation ==
    {[tcp |-> reader, kinds |-> {"ConnectionTune", "Body", "Heartbeat", "QueueUnbindOK"},
      lengths |-> {0, 1, 12, 16, 24}, initial |-> 24, limits |-> {20, 32}, unread |-> 2] :
        reader \in BOOLEAN}

(* One class, with its variable fields empty or not.                        *)
EveryClass ==
    {[tcp |-> TRUE, kinds |-> {k}, lengths |-> {0, 3}, initial |-> 64, limits |-> {64},
      unread |-> 1] : k \in WireKinds}

AllSetups == Renegotiation \union EveryClass
=============================================================================
