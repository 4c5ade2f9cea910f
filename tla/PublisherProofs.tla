-------------------------- MODULE PublisherProofs --------------------------
(***************************************************************************)
(* Publishing with confirms, for any number of messages, every window and  *)
(* every combination of layers.                                            *)
(*                                                                         *)
(* The frames on their way to the server, followed by those in the queue   *)
(* of the throttle, are the two parts of consecutive messages, up to the   *)
(* last tag that was handed out and beginning where the server has got to: *)
(* that is why counting on both sides gives the same numbers (Pipe and     *)
(* Waiting).  A confirm covers no tag that a later frame confirms          *)
(* (Confirms), so that what it takes from the throttle's set of open tags  *)
(* is what the server has confirmed with it (Slots).                       *)
(***************************************************************************)
EXTENDS Publisher, SequenceTheorems, FiniteSetTheorems, WellFoundedInduction, TLAPS

PartType == [tag : Nat, msg : Nat, part : {0, 1, 2}]
EventType ==
    [kind : {"ack", "nack", "close", "close-ok", "error", "none"}, tag : Nat, multiple : BOOLEAN,
     tags : SUBSET Nat]
MessageType == [tag : Nat, outcome : {"pending", "ack", "nack", "error"}]

Types ==
    /\ toServer \in Seq(PartType) /\ toClient \in Seq(EventType) /\ task \in EventType
    /\ messages \in Seq(MessageType) /\ received \in Seq(Nat) /\ current \in Nat
    /\ task.kind = "error" => chan = "closed"

(* The place of a part in the sequence of all parts, and the parts that     *)
(* continue those up to place b; a close frame ends them.                   *)
Place(f) == 2 * f.tag + f.part - 2

Continues(s, b) ==
    \A i \in 1..Len(s) :
        /\ s[i].part = 0 => i = Len(s)
        /\ s[i].part # 0 => s[i].tag > 0 /\ Place(s[i]) = b + i

Open(s) == \A i \in 1..Len(s) : s[i].part # 0

(* The last tag that was sent.                                              *)
Sent == IF Throttled THEN last ELSE current - 1

(* The server has got to place b of what the client sends.                  *)
Pipe ==
    \E b \in Nat :
        /\ Continues(toServer, b)
        /\ 2 * Len(received) <= b
        /\ server = "open" => b <= 2 * Len(received) + 1
        /\ Sends => Open(toServer) /\ b + Len(toServer) = 2 * Sent

(* The queue of the throttle continues what was sent.                       *)
Waiting ==
    Sends => /\ current \in Nat /\ last \in Nat /\ Sent \in Nat /\ queue \in Seq(PartType)
             /\ Open(queue) /\ Continues(queue, 2 * Sent)
             /\ 2 * Sent + Len(queue) = 2 * (current - 1)

(* The tag of a part is the one that its message was given.                 *)
Tagged(s, ms) ==
    \A i \in 1..Len(s) :
        s[i].part # 0 => s[i].msg \in 1..Len(ms) /\ ms[s[i].msg].tag = s[i].tag

Tagging ==
    /\ Tagged(toServer, messages)
    /\ \A i \in 1..Len(received) : received[i] \in 1..Len(messages) /\ messages[received[i]].tag = i
    /\ Sends => /\ Tagged(queue, messages)
                /\ \A m \in 1..Len(messages) : messages[m].tag < current
                /\ \A m, n \in 1..Len(messages) :
                     messages[m].tag = messages[n].tag /\ messages[m].tag > 0 => m = n

(* A confirm, and what it says to a client that has read all earlier ones.  *)
Confirming(e) ==
    /\ e.kind \in {"ack", "nack"} => e.tag \in DOMAIN confirmed
    /\ e.kind \notin {"ack", "nack"} => e = Plain(e.kind)
    /\ e.tags = Covers(e, e.tags)
    /\ ~e.multiple /\ e.kind \in {"ack", "nack"} => e.tags = {e.tag}
    /\ e.multiple => 1..e.tag \subseteq DOMAIN confirmed
    /\ \A t \in e.tags : t \in DOMAIN confirmed /\ confirmed[t] = e.kind

Confirms ==
    /\ DOMAIN confirmed \subseteq 1..Len(received)
    /\ Confirming(task) /\ \A i \in 1..Len(toClient) : Confirming(toClient[i])
    /\ \A i \in 1..Len(toClient) : Covers(task, toClient[i].tags) = {}
    /\ \A i, j \in 1..Len(toClient) : i < j => Covers(toClient[i], toClient[j].tags) = {}

(* The slots of the throttle.                                               *)
Slots ==
    Throttled /\ Sends =>
        /\ TagsUnderWay \subseteq open
        /\ server = "open" => open \subseteq TagsUnderWay
        /\ open \subseteq 1..last
        /\ \A t \in 1..last : t \in open \/ t \in DOMAIN confirmed

PubInv == Types /\ Pipe /\ Waiting /\ Tagging /\ Confirms /\ Slots

-----------------------------------------------------------------------------
(* The queue.                                                               *)

LEMMA ThrottledBoolean == Throttled \in BOOLEAN /\ Individual \in BOOLEAN
BY PublisherAssumption

(* Tags and parts in the queue follow from the position.                    *)
LEMMA QueueShape ==
    ASSUME Throttled, Sends, Waiting, NEW i \in 1..Len(queue)
    PROVE  /\ queue[i] \in PartType /\ queue[i].tag \in Nat /\ queue[i].part \in {1, 2}
           /\ 2 * queue[i].tag + queue[i].part - 2 = 2 * last + i
<1>1. queue[i] \in PartType
  BY ElementOfSeq DEF Waiting
<1>2. queue[i].tag \in Nat /\ queue[i].part \in {1, 2}
  BY <1>1 DEF PartType, Waiting, Open
<1> QED
  BY <1>1, <1>2 DEF Waiting, Continues, Place, Sent

(* Between two parts of different messages an even number has passed.       *)
LEMMA NewMessage ==
    ASSUME NEW l \in Nat, NEW k \in Nat, NEW a \in Nat, NEW b \in Nat,
           NEW p \in {1, 2}, NEW q \in {1, 2}, a # b,
           2 * a + p - 2 = 2 * l + k, 2 * b + q - 2 = 2 * l + k + 1
    PROVE  k = 2 * (a - l) /\ a - l \in Nat
<1>1. p = 2
  OBVIOUS
<1>2. k = 2 * (a - l)
  BY <1>1
<1> QED
  BY <1>2

(* The throttle takes whole messages from its queue, in order: n of them.   *)
LEMMA FlushShape ==
    ASSUME Throttled, Sends, Waiting, NEW k \in 0..Len(queue), NEW max, FlushPoint(k, max)
    PROVE  \E n \in Nat : /\ k = 2 * n /\ LastTag(k) = last + n
                          /\ NewTags(k) = (last + 1)..(last + n)
<1>1. last \in Nat /\ current \in Nat /\ Len(queue) \in Nat /\ k \in Nat
  BY LenProperties DEF Waiting
<1>2. \A i \in 1..Len(queue) : /\ queue[i].tag \in Nat /\ queue[i].part \in {1, 2}
                               /\ 2 * queue[i].tag + queue[i].part - 2 = 2 * last + i
  BY QueueShape
<1>3. \E n \in Nat : k = 2 * n
  <2>1. CASE k = Len(queue)
    <3>1. 2 * last + k = 2 * (current - 1)
      BY <2>1 DEF Waiting, Sent
    <3>2. k = 2 * (current - 1 - last) /\ current - 1 - last \in Nat
      BY <3>1, <1>1
    <3> QED
      BY <3>2
  <2>2. CASE k < Len(queue) /\ k > 0
    <3>1. k \in 1..Len(queue) /\ k + 1 \in 1..Len(queue)
      BY <2>2, <1>1
    <3>2. queue[k + 1].tag # queue[k].tag
      BY <3>1, <2>2, <1>1 DEF FlushPoint, NewTags
    <3>3. /\ queue[k].tag \in Nat /\ queue[k].part \in {1, 2}
          /\ 2 * queue[k].tag + queue[k].part - 2 = 2 * last + k
      BY <3>1, <1>2
    <3>4. /\ queue[k + 1].tag \in Nat /\ queue[k + 1].part \in {1, 2}
          /\ 2 * queue[k + 1].tag + queue[k + 1].part - 2 = 2 * last + k + 1
      BY <3>1, <1>2, <1>1
    <3>6. k = 2 * (queue[k].tag - last) /\ queue[k].tag - last \in Nat
      <4> DEFINE a == queue[k].tag
                 b == queue[k + 1].tag
                 p == queue[k].part
                 q == queue[k + 1].part
      <4>1. /\ last \in Nat /\ k \in Nat /\ a \in Nat /\ b \in Nat /\ a # b
            /\ p \in {1, 2} /\ q \in {1, 2}
            /\ 2 * a + p - 2 = 2 * last + k /\ 2 * b + q - 2 = 2 * last + k + 1
        BY <3>2, <3>3, <3>4, <1>1
      <4> HIDE DEF a, b, p, q
      <4>2. k = 2 * (a - last) /\ a - last \in Nat
        BY <4>1, NewMessage
      <4> QED
        BY <4>2 DEF a
    <3> QED
      BY <3>6
  <2>3. CASE k = 0
    BY <2>3
  <2> QED
    BY <2>1, <2>2, <2>3, <1>1
<1>4. PICK n \in Nat : k = 2 * n
  BY <1>3
<1>5. LastTag(k) = last + n
  <2>1. CASE n = 0
    BY <2>1, <1>4, <1>1 DEF LastTag
  <2>2. CASE n > 0
    <3>1. k \in 1..Len(queue)
      BY <2>2, <1>4, <1>1
    <3>2. /\ queue[k].tag \in Nat /\ queue[k].part \in {1, 2}
          /\ 2 * queue[k].tag + queue[k].part - 2 = 2 * last + k
      BY <3>1, <1>2
    <3>3. queue[k].tag = last + n
      BY <3>2, <1>4, <1>1
    <3> QED
      BY <3>3, <2>2, <1>4 DEF LastTag
  <2> QED
    BY <2>1, <2>2
<1>6. NewTags(k) = (last + 1)..(last + n)
  <2>1. ASSUME NEW i \in 1..k PROVE queue[i].tag \in (last + 1)..(last + n)
    <3>1. i \in 1..Len(queue)
      BY <1>1
    <3>2. /\ queue[i].tag \in Nat /\ queue[i].part \in {1, 2}
          /\ 2 * queue[i].tag + queue[i].part - 2 = 2 * last + i
      BY <3>1, <1>2
    <3> QED
      BY <3>2, <1>4, <1>1
  <2>2. ASSUME NEW t \in (last + 1)..(last + n) PROVE \E i \in 1..k : t = queue[i].tag
    <3>1. 2 * (t - last) \in 1..k /\ 2 * (t - last) \in 1..Len(queue)
      BY <1>4, <1>1
    <3> DEFINE j == 2 * (t - last)
    <3>2. j \in 1..Len(queue) /\ j = 2 * (t - last)
      BY <3>1
    <3> HIDE DEF j
    <3>3. /\ queue[j].tag \in Nat /\ queue[j].part \in {1, 2}
          /\ 2 * queue[j].tag + queue[j].part - 2 = 2 * last + j
      BY <3>2, <1>2
    <3>4. queue[j].tag = t
      BY <3>2, <3>3, <1>1
    <3> QED
      BY <3>1, <3>2, <3>4
  <2>3. last \notin (last + 1)..(last + n)
    BY <1>1
  <2> QED
    BY <2>1, <2>2, <2>3 DEF NewTags
<1> QED
  BY <1>4, <1>5, <1>6

-----------------------------------------------------------------------------
(* Sequences of parts.                                                      *)

CloseFrame == [tag |-> 0, msg |-> 0, part |-> 0]

LEMMA ConcatParts ==
    ASSUME NEW s \in Seq(PartType), NEW t \in Seq(PartType), NEW b \in Nat, NEW ms,
           Open(s), Continues(s, b), Continues(t, b + Len(s)), Tagged(s, ms), Tagged(t, ms)
    PROVE  /\ s \o t \in Seq(PartType) /\ Len(s \o t) = Len(s) + Len(t)
           /\ Continues(s \o t, b) /\ Tagged(s \o t, ms)
           /\ Open(t) => Open(s \o t)
<1>1. /\ s \o t \in Seq(PartType) /\ Len(s \o t) = Len(s) + Len(t)
      /\ \A i \in 1..(Len(s) + Len(t)) : (s \o t)[i] = IF i <= Len(s) THEN s[i] ELSE t[i - Len(s)]
  BY ConcatProperties
<1>2. Len(s) \in Nat /\ Len(t) \in Nat
  BY LenProperties
<1>3. ASSUME NEW i \in 1..Len(s \o t)
      PROVE  \/ i \in 1..Len(s) /\ (s \o t)[i] = s[i]
             \/ /\ i - Len(s) \in 1..Len(t) /\ (s \o t)[i] = t[i - Len(s)]
                /\ i > Len(s) /\ i \in Nat
  BY <1>1, <1>2
<1>4. Continues(s \o t, b)
  <2> SUFFICES ASSUME NEW i \in 1..Len(s \o t)
               PROVE  /\ (s \o t)[i].part = 0 => i = Len(s \o t)
                      /\ (s \o t)[i].part # 0 => (s \o t)[i].tag > 0 /\ Place((s \o t)[i]) = b + i
    BY DEF Continues
  <2>1. CASE i \in 1..Len(s) /\ (s \o t)[i] = s[i]
    BY <2>1 DEF Continues, Open
  <2>2. CASE /\ i - Len(s) \in 1..Len(t) /\ (s \o t)[i] = t[i - Len(s)]
             /\ i > Len(s) /\ i \in Nat
    <3> DEFINE j == i - Len(s)
    <3>1. j \in 1..Len(t) /\ (s \o t)[i] = t[j] /\ i = Len(s) + j /\ b + Len(s) + j = b + i
      BY <2>2, <1>2
    <3> HIDE DEF j
    <3>2. /\ t[j].part = 0 => j = Len(t)
          /\ t[j].part # 0 => t[j].tag > 0 /\ Place(t[j]) = b + Len(s) + j
      BY <3>1 DEF Continues
    <3> QED
      BY <3>1, <3>2, <1>1, <1>2
  <2> QED
    BY <2>1, <2>2, <1>3
<1>5. Tagged(s \o t, ms)
  <2> SUFFICES ASSUME NEW i \in 1..Len(s \o t), (s \o t)[i].part # 0
               PROVE  /\ (s \o t)[i].msg \in 1..Len(ms)
                      /\ ms[(s \o t)[i].msg].tag = (s \o t)[i].tag
    BY DEF Tagged
  <2> QED
    BY <1>3 DEF Tagged
<1>6. Open(t) => Open(s \o t)
  BY <1>3 DEF Open
<1> QED
  BY <1>1, <1>4, <1>5, <1>6

LEMMA SplitParts ==
    ASSUME NEW s \in Seq(PartType), NEW b \in Nat, NEW ms, NEW m \in 0..Len(s),
           Open(s), Continues(s, b), Tagged(s, ms)
    PROVE  LET before == SubSeq(s, 1, m)
               after == SubSeq(s, m + 1, Len(s))
           IN  /\ before \in Seq(PartType) /\ Len(before) = m
               /\ \A i \in 1..m : before[i] = s[i]
               /\ Continues(before, b) /\ Open(before) /\ Tagged(before, ms)
               /\ after \in Seq(PartType) /\ Len(after) = Len(s) - m
               /\ Continues(after, b + m) /\ Open(after) /\ Tagged(after, ms)
<1> DEFINE before == SubSeq(s, 1, m)
           after == SubSeq(s, m + 1, Len(s))
<1>1. Len(s) \in Nat /\ m \in Nat
  BY LenProperties
<1>2. \A i \in 1..Len(s) : s[i] \in PartType
  BY ElementOfSeq
<1>3. /\ before \in Seq(PartType) /\ Len(before) = m
      /\ \A i \in 1..m : before[i] = s[i]
  <2>1. \A i \in 1..m : s[i] \in PartType
    BY <1>1, <1>2
  <2>2. /\ before \in Seq(PartType) /\ Len(before) = IF 1 <= m THEN m - 1 + 1 ELSE 0
        /\ \A i \in 1..(m - 1 + 1) : before[i] = s[1 + i - 1]
    BY <2>1, <1>1, SubSeqProperties
  <2> QED
    BY <2>2, <1>1
<1>4. /\ after \in Seq(PartType) /\ Len(after) = Len(s) - m
      /\ \A i \in 1..(Len(s) - m) : after[i] = s[m + i]
  <2>1. \A i \in (m + 1)..Len(s) : s[i] \in PartType
    BY <1>1, <1>2
  <2>2. m + 1 \in Int /\ Len(s) \in Int
    BY <1>1
  <2>3. /\ after \in Seq(PartType)
        /\ Len(after) = IF m + 1 <= Len(s) THEN Len(s) - (m + 1) + 1 ELSE 0
        /\ \A i \in 1..(Len(s) - (m + 1) + 1) : after[i] = s[m + 1 + i - 1]
    BY <2>1, <2>2, SubSeqProperties
  <2> QED
    BY <2>3, <1>1
<1> HIDE DEF before, after
<1>5. Continues(before, b) /\ Open(before) /\ Tagged(before, ms)
  <2>1. \A i \in 1..m : i \in 1..Len(s)
    BY <1>1
  <2> QED
    BY <1>3, <2>1 DEF Continues, Open, Tagged
<1>6. Continues(after, b + m) /\ Open(after) /\ Tagged(after, ms)
  <2> SUFFICES ASSUME NEW i \in 1..Len(after)
               PROVE  /\ after[i].part # 0 /\ after[i].tag > 0 /\ Place(after[i]) = b + m + i
                      /\ after[i].msg \in 1..Len(ms)
                      /\ ms[after[i].msg].tag = after[i].tag
    BY DEF Continues, Open, Tagged
  <2> DEFINE j == m + i
  <2>1. j \in 1..Len(s) /\ after[i] = s[j] /\ b + j = b + m + i
    BY <1>4, <1>1
  <2> HIDE DEF j
  <2>2. /\ s[j].part # 0 /\ s[j].tag > 0 /\ Place(s[j]) = b + j
        /\ s[j].msg \in 1..Len(ms) /\ ms[s[j].msg].tag = s[j].tag
    BY <2>1 DEF Continues, Open, Tagged
  <2> QED
    BY <2>1, <2>2
<1> QED
  BY <1>3, <1>4, <1>5, <1>6 DEF before, after

LEMMA ClosedParts ==
    ASSUME NEW s \in Seq(PartType), NEW b \in Nat, NEW ms, Open(s), Continues(s, b), Tagged(s, ms)
    PROVE  LET t == Append(s, CloseFrame)
           IN  t \in Seq(PartType) /\ Continues(t, b) /\ Tagged(t, ms)
<1>1. CloseFrame \in PartType /\ CloseFrame.part = 0
  BY DEF CloseFrame, PartType
<1> DEFINE t == Append(s, CloseFrame)
<1>2. /\ t \in Seq(PartType) /\ Len(t) = Len(s) + 1
      /\ \A i \in 1..Len(s) : t[i] = s[i]
      /\ t[Len(s) + 1] = CloseFrame
  BY <1>1, AppendProperties
<1>3. Len(s) \in Nat
  BY LenProperties
<1> HIDE DEF t
<1>4. \A i \in 1..Len(t) : \/ i \in 1..Len(s) /\ t[i] = s[i]
                           \/ i = Len(t) /\ t[i] = CloseFrame
  <2> SUFFICES ASSUME NEW i \in 1..Len(t)
               PROVE  \/ i \in 1..Len(s) /\ t[i] = s[i]
                      \/ i = Len(t) /\ t[i] = CloseFrame
    OBVIOUS
  <2>1. i \in 1..Len(s) \/ i = Len(s) + 1
    BY <1>2, <1>3
  <2> QED
    BY <2>1, <1>2
<1>5. Continues(t, b)
  <2> SUFFICES ASSUME NEW i \in 1..Len(t)
               PROVE  /\ t[i].part = 0 => i = Len(t)
                      /\ t[i].part # 0 => t[i].tag > 0 /\ Place(t[i]) = b + i
    BY DEF Continues
  <2>1. CASE i \in 1..Len(s) /\ t[i] = s[i]
    BY <2>1 DEF Continues, Open
  <2>2. CASE i = Len(t) /\ t[i] = CloseFrame
    BY <2>2, <1>1
  <2> QED
    BY <2>1, <2>2, <1>4
<1>6. Tagged(t, ms)
  BY <1>1, <1>4 DEF Tagged
<1> QED
  BY <1>2, <1>5, <1>6 DEF t

-----------------------------------------------------------------------------
(* Frames leave the queue of the throttle, and the channel may be closed    *)
(* behind them.                                                             *)

Move(n) ==
    /\ 2 * n <= Len(queue)
    /\ queue' = SubSeq(queue, 2 * n + 1, Len(queue))
    /\ last' = last + n
    /\ \/ toServer' = toServer \o SubSeq(queue, 1, 2 * n) /\ chan' = "open"
       \/ toServer' = Append(toServer \o SubSeq(queue, 1, 2 * n), CloseFrame) /\ chan' = "closing"
    /\ UNCHANGED <<current, messages, link, server, received>>

LEMMA MoveKeeps ==
    ASSUME Sends, Types, Pipe, Waiting, Tagging, NEW n \in Nat, Move(n)
    PROVE  /\ toServer' \in Seq(PartType) /\ Pipe' /\ Waiting' /\ Tagging'
           /\ Sends' => /\ toServer' = toServer \o SubSeq(queue, 1, 2 * n)
                        /\ \A i \in 1..(2 * n) : SubSeq(queue, 1, 2 * n)[i] = queue[i]
                        /\ SubSeq(queue, 1, 2 * n) \in Seq(PartType)
                        /\ Len(SubSeq(queue, 1, 2 * n)) = 2 * n
<1> DEFINE m == 2 * n
           before == SubSeq(queue, 1, m)
           after == SubSeq(queue, m + 1, Len(queue))
           whole == toServer \o before
<1>1. PICK b \in Nat :
        /\ Continues(toServer, b)
        /\ 2 * Len(received) <= b
        /\ server = "open" => b <= 2 * Len(received) + 1
        /\ Open(toServer) /\ b + Len(toServer) = 2 * Sent
  BY DEF Pipe
<1>2. /\ queue \in Seq(PartType) /\ toServer \in Seq(PartType) /\ Sent \in Nat
      /\ current \in Nat /\ last \in Nat
      /\ Open(queue) /\ Continues(queue, 2 * Sent) /\ Tagged(queue, messages) /\ Tagged(toServer, messages)
      /\ 2 * Sent + Len(queue) = 2 * (current - 1)
  BY DEF Types, Waiting, Tagging
<1>3. Len(queue) \in Nat /\ Len(toServer) \in Nat /\ 2 * Sent \in Nat
  BY <1>2, LenProperties
<1>4. m \in 0..Len(queue)
  BY <1>3 DEF Move
<1> HIDE DEF m
<1>5. /\ before \in Seq(PartType) /\ Len(before) = m
      /\ \A i \in 1..m : before[i] = queue[i]
      /\ Continues(before, 2 * Sent) /\ Open(before) /\ Tagged(before, messages)
      /\ after \in Seq(PartType) /\ Len(after) = Len(queue) - m
      /\ Continues(after, 2 * Sent + m) /\ Open(after) /\ Tagged(after, messages)
  BY <1>2, <1>3, <1>4, SplitParts
<1> HIDE DEF before, after
<1>6. /\ whole \in Seq(PartType) /\ Len(whole) = Len(toServer) + m
      /\ Continues(whole, b) /\ Tagged(whole, messages) /\ Open(whole)
  <2>1. Continues(before, b + Len(toServer))
    BY <1>1, <1>5
  <2> QED
    BY <2>1, <1>1, <1>2, <1>5, ConcatParts
<1> HIDE DEF whole
<1>7. LET t == Append(whole, CloseFrame)
      IN  t \in Seq(PartType) /\ Continues(t, b) /\ Tagged(t, messages)
  BY <1>6, ClosedParts
<1>8. /\ queue' = after /\ last' = last + n
      /\ \/ toServer' = whole /\ chan' = "open"
         \/ toServer' = Append(whole, CloseFrame) /\ chan' = "closing"
      /\ UNCHANGED <<current, messages, link, server, received>>
  BY DEF Move, whole, before, after, m
<1>9. Sent' = Sent + n
  <2>1. CASE Throttled
    BY <2>1, <1>8 DEF Sent
  <2>2. CASE ~Throttled
    <3>1. n = 0
      BY <2>2, <1>2, <1>3, <1>4 DEF Sent, m
    <3> QED
      BY <2>2, <3>1, <1>8, <1>2 DEF Sent
  <2> QED
    BY <2>1, <2>2
<1>10. Tagged(toServer', messages') /\ Continues(toServer', b) /\ toServer' \in Seq(PartType)
  BY <1>6, <1>7, <1>8 DEF Tagged
<1>11. Sends' => /\ toServer' = whole /\ Open(toServer') /\ b + Len(toServer') = 2 * Sent'
  <2> SUFFICES ASSUME Sends' PROVE toServer' = whole /\ Open(toServer') /\ b + Len(toServer') = 2 * Sent'
    OBVIOUS
  <2>1. toServer' = whole
    BY <1>8 DEF Sends
  <2>2. b + (Len(toServer) + m) = 2 * (Sent + n)
    BY <1>1, <1>2, <1>3 DEF m
  <2> QED
    BY <2>1, <2>2, <1>6, <1>9
<1>12. Pipe'
  BY <1>1, <1>8, <1>10, <1>11 DEF Pipe, Continues, Open
<1>13. Waiting'
  <2>1. 2 * Sent' = 2 * Sent + m /\ Sent' \in Nat
    BY <1>9, <1>2 DEF m
  <2>2. 2 * Sent' + Len(queue') = 2 * (current - 1)
    <3>1. Len(queue') = Len(queue) - m /\ m \in Nat
      BY <1>8, <1>5, <1>3, <1>4
    <3>2. (2 * Sent + m) + (Len(queue) - m) = 2 * Sent + Len(queue)
      BY <3>1, <1>3
    <3> QED
      BY <3>1, <3>2, <2>1, <1>2
  <2>3. Continues(queue', 2 * Sent') /\ Open(queue') /\ queue' \in Seq(PartType)
    BY <2>1, <1>8, <1>5
  <2>4. last' \in Nat
    BY <1>8, <1>2
  <2> QED
    BY <2>1, <2>2, <2>3, <2>4, <1>8, <1>2 DEF Waiting, Continues, Open
<1>14. Tagging'
  <2>1. Tagged(queue', messages')
    BY <1>5, <1>8 DEF Tagged
  <2>2. /\ \A i \in 1..Len(received) : received[i] \in 1..Len(messages) /\ messages[received[i]].tag = i
        /\ \A i \in 1..Len(messages) : messages[i].tag < current
        /\ \A i, j \in 1..Len(messages) :
             messages[i].tag = messages[j].tag /\ messages[i].tag > 0 => i = j
    BY DEF Tagging
  <2>3. received' = received /\ messages' = messages /\ current' = current
    BY <1>8
  <2> QED
    BY <2>1, <2>2, <2>3, <1>10 DEF Tagging
<1> QED
  BY <1>5, <1>10, <1>11, <1>12, <1>13, <1>14 DEF whole, before, m

-----------------------------------------------------------------------------
(* Steps that leave what was sent alone.                                    *)

(* Tags are kept; messages may be added.                                    *)
TagsKept == \A i \in 1..Len(messages) : i \in 1..Len(messages') /\ messages'[i].tag = messages[i].tag

LEMMA TagsKeptKeeps ==
    ASSUME TagsKept, NEW s, Tagged(s, messages)
    PROVE  Tagged(s, messages')
BY DEF TagsKept, Tagged

LEMMA QuietKeeps ==
    ASSUME Pipe, Tagging, TagsKept, ~Sends', server' \in {server, "closed"},
           UNCHANGED <<toServer, received>>
    PROVE  Pipe' /\ Waiting' /\ Tagging' /\ Slots'
<1>1. Pipe'
  BY DEF Pipe
<1>2. Tagged(toServer', messages')
  BY TagsKeptKeeps DEF Tagging, Tagged
<1>3. \A i \in 1..Len(received) : received[i] \in 1..Len(messages') /\ messages'[received[i]].tag = i
  BY DEF Tagging, TagsKept
<1>4. Tagging'
  BY <1>2, <1>3 DEF Tagging
<1> QED
  BY <1>1, <1>4 DEF Waiting, Slots

LEMMA SameKeeps ==
    ASSUME Pipe, Waiting, Tagging, TagsKept, Len(messages') = Len(messages),
           server' \in {server, "closed"},
           UNCHANGED <<toServer, received, current, last, queue, chan, link>>
    PROVE  Pipe' /\ Waiting' /\ Tagging'
<1>1. (Sends' <=> Sends) /\ Sent' = Sent
  BY DEF Sends, Sent
<1>2. Pipe'
  BY <1>1 DEF Pipe
<1>3. Waiting'
  BY <1>1 DEF Waiting
<1>4. Tagged(toServer', messages') /\ (Sends => Tagged(queue', messages'))
  <2>1. Tagged(toServer', messages')
    BY TagsKeptKeeps DEF Tagging, Tagged
  <2>2. ASSUME Sends PROVE Tagged(queue', messages')
    <3>1. Tagged(queue, messages)
      BY <2>2 DEF Tagging
    <3> QED
      BY <3>1, TagsKeptKeeps DEF Tagged
  <2> QED
    BY <2>1, <2>2
<1>5. \A i \in 1..Len(received) : received[i] \in 1..Len(messages') /\ messages'[received[i]].tag = i
  BY DEF Tagging, TagsKept
<1>6. Sends => /\ \A m \in 1..Len(messages') : messages'[m].tag < current
               /\ \A m, n \in 1..Len(messages') :
                    messages'[m].tag = messages'[n].tag /\ messages'[m].tag > 0 => m = n
  BY DEF Tagging, TagsKept
<1>7. Tagging'
  BY <1>1, <1>4, <1>5, <1>6 DEF Tagging
<1> QED
  BY <1>2, <1>3, <1>7

(* What is reported for a message changes no tag.                           *)
LEMMA ReportKeeps ==
    ASSUME messages \in Seq(MessageType), NEW m, NEW o \in {"ack", "nack", "error"},
           messages' = Report(messages, m, o)
    PROVE  messages' \in Seq(MessageType) /\ TagsKept /\ Len(messages') = Len(messages)
<1>1. CASE m \in 1..Len(messages)
  <2>1. messages[m] \in MessageType
    BY <1>1, ElementOfSeq
  <2> DEFINE e == [messages[m] EXCEPT !.outcome = o]
  <2>2. e \in MessageType /\ e.tag = messages[m].tag
    BY <2>1 DEF MessageType
  <2>3. messages' = [messages EXCEPT ![m] = e]
    BY DEF Report
  <2> HIDE DEF e
  <2>4. /\ messages' \in Seq(MessageType) /\ Len(messages') = Len(messages)
        /\ \A j \in 1..Len(messages) : messages'[j] = IF j = m THEN e ELSE messages[j]
    BY <1>1, <2>2, <2>3, ExceptSeq
  <2> QED
    BY <2>2, <2>4 DEF TagsKept
<1>2. CASE m \notin 1..Len(messages)
  <2>1. DOMAIN messages = 1..Len(messages) /\ messages \in [1..Len(messages) -> MessageType]
    BY LenProperties
  <2>2. messages' = messages
    BY <1>2, <2>1 DEF Report
  <2> QED
    BY <2>2 DEF TagsKept
<1> QED
  BY <1>1, <1>2

LEMMA AppendKeeps ==
    ASSUME messages \in Seq(MessageType), NEW x \in MessageType, messages' = Append(messages, x)
    PROVE  /\ messages' \in Seq(MessageType) /\ TagsKept /\ Len(messages') = Len(messages) + 1
           /\ \A i \in 1..Len(messages) : messages'[i] = messages[i]
           /\ messages'[Len(messages) + 1] = x
           /\ Len(messages) + 1 \in 1..Len(messages')
<1>1. /\ messages' \in Seq(MessageType) /\ Len(messages') = Len(messages) + 1
      /\ \A i \in 1..Len(messages) : messages'[i] = messages[i]
      /\ messages'[Len(messages) + 1] = x
  BY AppendProperties
<1>2. Len(messages) \in Nat
  BY LenProperties
<1> QED
  BY <1>1, <1>2 DEF TagsKept

-----------------------------------------------------------------------------
(* Publishing.                                                              *)

(* The two parts of the next message continue what was sent up to place b.  *)
LEMMA PartsShape ==
    ASSUME NEW c \in Nat, c > 0, NEW m \in Nat, NEW b \in Nat, b = 2 * (c - 1)
    PROVE  /\ Parts(c, m) \in Seq(PartType) /\ Len(Parts(c, m)) = 2
           /\ Open(Parts(c, m)) /\ Continues(Parts(c, m), b)
           /\ \A i \in 1..2 : Parts(c, m)[i].msg = m /\ Parts(c, m)[i].tag = c
<1> DEFINE p == Parts(c, m)
<1>1. p[1] = [tag |-> c, msg |-> m, part |-> 1] /\ p[2] = [tag |-> c, msg |-> m, part |-> 2]
  BY DEF Parts
<1>2. Len(p) = 2 /\ p \in Seq(PartType)
  BY DEF Parts, PartType
<1> HIDE DEF p
<1>3. \A i \in 1..2 : i = 1 \/ i = 2
  OBVIOUS
<1>4. \A i \in 1..2 : p[i].msg = m /\ p[i].tag = c
  BY <1>1, <1>3
<1>5. Open(p)
  BY <1>1, <1>2, <1>3 DEF Open
<1>6. Continues(p, b)
  <2>1. p[1].part # 0 /\ p[1].tag > 0 /\ Place(p[1]) = b + 1
    BY <1>1 DEF Place
  <2>2. p[2].part # 0 /\ p[2].tag > 0 /\ Place(p[2]) = b + 2
    BY <1>1 DEF Place
  <2> QED
    BY <2>1, <2>2, <1>2, <1>3 DEF Continues
<1> QED
  BY <1>2, <1>4, <1>5, <1>6 DEF p

LEMMA NextTag ==
    ASSUME NEW a \in Int, NEW l \in Int, NEW c \in Int, a + l = 2 * (c - 1)
    PROVE  a + (l + 2) = 2 * c /\ a + (l + 2) = 2 * (c + 1 - 1)
OBVIOUS

TagsOf(s) == {s[i].tag : i \in 1..Len(s)}
LaterTags == Unconfirmed \union task.tags \union UNION {toClient[i].tags : i \in 1..Len(toClient)}

LEMMA UnderWay ==
    /\ TagsUnderWay = TagsOf(toServer) \union LaterTags
    /\ TagsUnderWay' = TagsOf(toServer') \union LaterTags'
BY DEF TagsUnderWay, TagsOf, LaterTags

LEMMA TagsOfConcat ==
    ASSUME NEW s \in Seq(PartType), NEW t \in Seq(PartType)
    PROVE  TagsOf(s \o t) = TagsOf(s) \union TagsOf(t)
<1>1. /\ s \o t \in Seq(PartType) /\ Len(s \o t) = Len(s) + Len(t)
      /\ \A i \in 1..(Len(s) + Len(t)) : (s \o t)[i] = IF i <= Len(s) THEN s[i] ELSE t[i - Len(s)]
  BY ConcatProperties
<1>2. Len(s) \in Nat /\ Len(t) \in Nat
  BY LenProperties
<1> DEFINE u == s \o t
<1>3. \A i \in 1..Len(u) : \/ i \in 1..Len(s) /\ u[i] = s[i]
                           \/ i - Len(s) \in 1..Len(t) /\ u[i] = t[i - Len(s)]
  BY <1>1, <1>2
<1>4. \A i \in 1..Len(s) : i \in 1..Len(u) /\ u[i] = s[i]
  BY <1>1, <1>2
<1>5. \A i \in 1..Len(t) : Len(s) + i \in 1..Len(u) /\ u[Len(s) + i] = t[i]
  <2> SUFFICES ASSUME NEW i \in 1..Len(t)
               PROVE  Len(s) + i \in 1..Len(u) /\ u[Len(s) + i] = t[i]
    OBVIOUS
  <2>1. Len(s) + i \in 1..(Len(s) + Len(t)) /\ ~(Len(s) + i <= Len(s)) /\ Len(s) + i - Len(s) = i
    BY <1>2
  <2> QED
    BY <2>1, <1>1
<1> HIDE DEF u
<1>6. TagsOf(u) = TagsOf(s) \union TagsOf(t)
  <2>1. TagsOf(u) \subseteq TagsOf(s) \union TagsOf(t)
    <3> SUFFICES ASSUME NEW i \in 1..Len(u) PROVE u[i].tag \in TagsOf(s) \union TagsOf(t)
      BY DEF TagsOf
    <3> QED
      BY <1>3 DEF TagsOf
  <2>2. TagsOf(s) \subseteq TagsOf(u)
    BY <1>4 DEF TagsOf
  <2>3. TagsOf(t) \subseteq TagsOf(u)
    <3> SUFFICES ASSUME NEW i \in 1..Len(t) PROVE t[i].tag \in TagsOf(u)
      BY DEF TagsOf
    <3> DEFINE j == Len(s) + i
    <3>1. j \in 1..Len(u) /\ u[j] = t[i]
      BY <1>5
    <3> QED
      BY <3>1 DEF TagsOf
  <2> QED
    BY <2>1, <2>2, <2>3
<1> QED
  BY <1>6 DEF u

LEMMA ConfirmsSame ==
    ASSUME Confirms, UNCHANGED <<received, confirmed, task, toClient>>
    PROVE  Confirms'
<1>1. \A e, tags : Covers(e, tags)' = Covers(e, tags)
  BY DEF Covers
<1>2. \A e : Confirming(e)' <=> Confirming(e)
  BY DEF Confirming, Covers, Plain, Event
<1> QED
  BY <1>1, <1>2 DEF Confirms

LEMMA PublishKeeps ==
    ASSUME PubInv, publish
    PROVE  PubInv'
<1> DEFINE m == Len(messages) + 1
           x(tag) == [tag |-> tag, outcome |-> IF tag = 0 THEN "error" ELSE "pending"]
<1>1. PICK tag \in {0, current} : taggerPublish(m, tag) /\ messages' = Append(messages, x(tag))
  BY DEF publish
<1>2. UNCHANGED <<task, toClient, received, confirmed, chan, link, server>> /\ (Sends' <=> Sends)
  BY DEF publish, taskVars, serverVars, Sends
<1>3. /\ toServer \in Seq(PartType) /\ messages \in Seq(MessageType) /\ received \in Seq(Nat)
      /\ Len(messages) \in Nat /\ m \in Nat /\ Len(toServer) \in Nat /\ current \in Nat
  BY LenProperties DEF PubInv, Types
<1>4. Confirms'
  BY <1>2, ConfirmsSame DEF PubInv
<1>5. LaterTags' = LaterTags
  BY <1>2 DEF LaterTags, Unconfirmed
<1>6. x(tag) \in MessageType /\ x(tag).tag = tag
  BY <1>3 DEF MessageType
<1>7. /\ messages' \in Seq(MessageType) /\ TagsKept /\ Len(messages') = m
      /\ \A i \in 1..Len(messages) : messages'[i] = messages[i]
      /\ messages'[m] = x(tag)
      /\ m \in 1..Len(messages')
  BY <1>1, <1>3, <1>6, AppendKeeps
<1>8. \A i \in 1..Len(messages') : i \in 1..Len(messages) \/ i = m
  BY <1>7, <1>3
<1>9. m \notin 1..Len(messages)
  BY <1>3
<1> HIDE DEF m, x
<1>10. CASE ~Sends
  <2>1. toServer' = toServer /\ current' \in Nat
    BY <1>1, <1>3, <1>10 DEF taggerPublish
  <2>2. Pipe' /\ Waiting' /\ Tagging' /\ Slots'
    BY <1>2, <1>7, <1>10, <2>1, QuietKeeps DEF PubInv
  <2>3. Types'
    BY <1>2, <1>3, <1>7, <2>1 DEF PubInv, Types
  <2> QED
    BY <1>4, <2>2, <2>3 DEF PubInv
<1>11. CASE Sends
  <2>1. /\ queue \in Seq(PartType) /\ Sent \in Nat /\ last \in Nat /\ Len(queue) \in Nat
        /\ 2 * Sent + Len(queue) = 2 * (current - 1)
        /\ Open(queue) /\ Continues(queue, 2 * Sent)
    BY <1>11, LenProperties DEF PubInv, Waiting
  <2>2. /\ \A i \in 1..Len(messages) : messages[i].tag < current
        /\ \A i, j \in 1..Len(messages) :
             messages[i].tag = messages[j].tag /\ messages[i].tag > 0 => i = j
        /\ Tagged(queue, messages) /\ Tagged(toServer, messages)
        /\ \A i \in 1..Len(received) : received[i] \in 1..Len(messages) /\ messages[received[i]].tag = i
    BY <1>11 DEF PubInv, Tagging
  <2>3. Tagged(toServer, messages')
    BY <2>2, <1>7, TagsKeptKeeps
  <2>4. Tagged(queue, messages')
    BY <2>2, <1>7, TagsKeptKeeps
  <2>5. \A i \in 1..Len(received) : received[i] \in 1..Len(messages') /\ messages'[received[i]].tag = i
    BY <2>2, <1>7 DEF TagsKept
  <2>6. PICK b \in Nat :
          /\ Continues(toServer, b)
          /\ 2 * Len(received) <= b
          /\ server = "open" => b <= 2 * Len(received) + 1
          /\ Open(toServer) /\ b + Len(toServer) = 2 * Sent
    BY <1>11 DEF PubInv, Pipe
  <2>7. current > 0
    BY <2>1, <1>3
  <2>8. CASE tag = 0 /\ UNCHANGED <<current, last, open, queue, toServer>>
    <3>1. Pipe' /\ Waiting'
      BY <2>8, <1>2, <2>6, <2>1, <1>3 DEF Pipe, Waiting, Sent
    <3>2. /\ \A i \in 1..Len(messages') : messages'[i].tag < current
          /\ \A i, j \in 1..Len(messages') :
               messages'[i].tag = messages'[j].tag /\ messages'[i].tag > 0 => i = j
      BY <2>8, <2>2, <1>6, <1>7, <1>8, <2>7
    <3>3. Tagging'
      BY <3>2, <2>3, <2>4, <2>5, <2>8, <1>2 DEF Tagging
    <3>4. Slots'
      BY <2>8, <1>2, <1>5, UnderWay DEF PubInv, Slots
    <3>5. Types'
      BY <2>8, <1>2, <1>3, <1>7 DEF PubInv, Types
    <3> QED
      BY <3>1, <3>3, <3>4, <3>5, <1>4 DEF PubInv
  <2>9. CASE tag = current /\ current' = current + 1
    <3> DEFINE p == Parts(current, m)
    <3>1. /\ p \in Seq(PartType) /\ Len(p) = 2 /\ Open(p) /\ Continues(p, 2 * (current - 1))
          /\ \A i \in 1..2 : p[i].msg = m /\ p[i].tag = current
      <4>1. current \in Nat /\ current > 0 /\ m \in Nat
        BY <2>7, <1>3
      <4>2. PICK c \in Nat : c = 2 * (current - 1)
        BY <4>1
      <4>3. /\ Parts(current, m) \in Seq(PartType) /\ Len(Parts(current, m)) = 2
            /\ Open(Parts(current, m)) /\ Continues(Parts(current, m), c)
            /\ \A i \in 1..2 : Parts(current, m)[i].msg = m /\ Parts(current, m)[i].tag = current
        BY <4>1, <4>2, PartsShape
      <4> QED
        BY <4>2, <4>3
    <3> HIDE DEF p
    <3>2. /\ \A i \in 1..Len(messages') : messages'[i].tag < current'
          /\ \A i, j \in 1..Len(messages') :
               messages'[i].tag = messages'[j].tag /\ messages'[i].tag > 0 => i = j
      <4>1. \A i \in 1..Len(messages) : messages[i].tag \in Nat
        <5>1. \A i \in 1..Len(messages) : messages[i] \in MessageType
          BY <1>3, ElementOfSeq
        <5> QED
          BY <5>1 DEF MessageType
      <4>2. \A i \in 1..Len(messages) : messages'[i].tag < current /\ messages'[i].tag \in Nat
        BY <4>1, <2>2, <1>7
      <4>3. messages'[m].tag = current
        BY <2>9, <1>6, <1>7
      <4>4. \A i \in 1..Len(messages') : messages'[i].tag < current'
        BY <4>2, <4>3, <2>9, <1>3, <1>8
      <4>5. ASSUME NEW i \in 1..Len(messages'), NEW j \in 1..Len(messages'),
                   messages'[i].tag = messages'[j].tag, messages'[i].tag > 0
            PROVE  i = j
        <5>1. CASE i \in 1..Len(messages) /\ j \in 1..Len(messages)
          BY <5>1, <4>5, <2>2, <1>7
        <5>2. CASE i = m /\ j \in 1..Len(messages)
          BY <5>2, <4>5, <4>2, <4>3, <1>3
        <5>3. CASE j = m /\ i \in 1..Len(messages)
          BY <5>3, <4>5, <4>2, <4>3, <1>3
        <5> QED
          BY <5>1, <5>2, <5>3, <1>8
      <4> QED
        BY <4>4, <4>5
    <3>3. \A i \in 1..Len(p) :
            p[i].part # 0 => p[i].msg \in 1..Len(messages') /\ messages'[p[i].msg].tag = p[i].tag
      BY <3>1, <2>9, <1>6, <1>7
    <3>4. Tagged(p, messages') /\ Tagged(toServer, messages') /\ Tagged(queue, messages')
      BY <3>3, <2>3, <2>4 DEF Tagged
    <3>5. TagsOf(p) = {current}
      <4>1. TagsOf(p) \subseteq {current}
        BY <3>1 DEF TagsOf
      <4>2. 1 \in 1..Len(p) /\ p[1].tag = current
        BY <3>1
      <4> QED
        BY <4>1, <4>2 DEF TagsOf
    <3>6. Sends'
      BY <1>2, <1>11
    <3>7. CASE /\ direct /\ queue' = queue /\ toServer' = toServer \o p
               /\ last' = IF Throttled THEN current ELSE last
               /\ open' = IF Throttled THEN open \union {current} ELSE open
      <4>1. Len(queue) = 0 /\ Sent = current - 1
        <5>1. CASE Throttled
          <6>1. queue = <<>>
            BY <5>1, <3>7 DEF direct
          <6>2. Len(queue) = 0
            BY <6>1
          <6> QED
            BY <6>2, <5>1, <2>1, <1>3 DEF Sent
        <5>2. CASE ~Throttled
          BY <5>2, <2>1, <1>3 DEF Sent
        <5> QED
          BY <5>1, <5>2
      <4>2. Continues(p, b + Len(toServer))
        BY <4>1, <3>1, <2>6
      <4>3. /\ toServer' \in Seq(PartType) /\ Len(toServer') = Len(toServer) + 2
            /\ Continues(toServer', b) /\ Open(toServer') /\ Tagged(toServer', messages')
        BY <4>2, <3>1, <3>4, <3>7, <2>6, <1>3, ConcatParts
      <4>4. Sent' = current
        BY <2>9, <3>7, <1>3 DEF Sent
      <4>5. b + Len(toServer') = 2 * Sent'
        <5>1. b + Len(toServer) = 2 * (current - 1)
          BY <4>1, <2>6
        <5>2. b + (Len(toServer) + 2) = 2 * current
          <6>1. Len(toServer) \in Nat /\ current \in Nat
            BY <1>3
          <6> QED
            BY <6>1, <5>1, NextTag
        <5> QED
          BY <5>2, <4>3, <4>4
      <4>6. Pipe'
        BY <4>3, <4>5, <2>6, <1>2 DEF Pipe
      <4>7. 2 * Sent' + Len(queue') = 2 * (current' - 1) /\ Sent' \in Nat /\ last' \in Nat
        BY <4>1, <4>4, <3>7, <2>9, <2>1, <1>3
      <4>8. Continues(queue', 2 * Sent') /\ Open(queue') /\ Tagged(queue', messages')
        BY <4>1, <3>7 DEF Continues, Open, Tagged
      <4>9. Waiting'
        BY <4>7, <4>8, <3>7, <2>1, <2>9, <1>3 DEF Waiting
      <4>10. Tagging'
        BY <4>3, <4>8, <3>2, <2>5, <1>2 DEF Tagging
      <4>11. Types'
        BY <4>3, <2>9, <1>2, <1>3, <1>7 DEF PubInv, Types
      <4>12. Slots'
        <5> SUFFICES ASSUME Throttled PROVE Slots'
          BY DEF Slots
        <5>1. TagsUnderWay' = TagsUnderWay \union {current}
          <6>1. TagsOf(toServer') = TagsOf(toServer) \union {current}
            BY <3>1, <3>5, <3>7, <1>3, TagsOfConcat
          <6> QED
            BY <6>1, <1>5, UnderWay
        <5>2. open' = open \union {current} /\ last' = current /\ last = current - 1
          BY <3>7, <4>1 DEF Sent
        <5>3. /\ TagsUnderWay \subseteq open
              /\ server = "open" => open \subseteq TagsUnderWay
              /\ open \subseteq 1..last
              /\ \A t \in 1..last : t \in open \/ t \in DOMAIN confirmed
          BY <1>11 DEF PubInv, Slots
        <5>4. open' \subseteq 1..last' /\ \A t \in 1..last' : t \in open' \/ t \in DOMAIN confirmed
          <6>1. 1..current = 1..(current - 1) \union {current}
            BY <2>7, <1>3
          <6> QED
            BY <6>1, <5>2, <5>3
        <5> QED
          BY <5>1, <5>2, <5>3, <5>4, <1>2 DEF Slots
      <4> QED
        BY <4>6, <4>9, <4>10, <4>11, <4>12, <1>4 DEF PubInv
    <3>8. CASE /\ ~direct /\ queue' = queue \o p /\ UNCHANGED <<last, open, toServer>>
      <4>1. Throttled
        BY <3>8 DEF direct
      <4>2. Sent = last /\ Sent' = last
        BY <4>1, <3>8 DEF Sent
      <4>3. Continues(p, 2 * Sent + Len(queue))
        BY <3>1, <2>1
      <4>4. /\ queue' \in Seq(PartType) /\ Len(queue') = Len(queue) + 2
            /\ Continues(queue', 2 * Sent) /\ Open(queue') /\ Tagged(queue', messages')
        <5>1. 2 * Sent \in Nat
          BY <2>1
        <5> QED
          BY <5>1, <4>3, <3>1, <3>4, <3>8, <2>1, ConcatParts
      <4>5. 2 * Sent' + Len(queue') = 2 * (current' - 1)
        <5>1. 2 * Sent \in Int
          BY <2>1
        <5>2. 2 * Sent + (Len(queue) + 2) = 2 * (current + 1 - 1)
          <6>1. Len(queue) \in Nat /\ current \in Nat /\ 2 * Sent + Len(queue) = 2 * (current - 1)
            BY <1>3, <2>1
          <6> QED
            BY <6>1, <5>1, NextTag
        <5> QED
          BY <5>2, <4>2, <4>4, <2>9
      <4>6. Pipe'
        BY <4>2, <3>8, <2>6, <1>2 DEF Pipe
      <4>7. Waiting'
        BY <4>2, <4>4, <4>5, <3>8, <2>1, <2>9, <1>3 DEF Waiting
      <4>8. Tagging'
        BY <4>4, <3>2, <3>4, <3>8, <2>5, <1>2 DEF Tagging
      <4>9. Types'
        BY <3>8, <2>9, <1>2, <1>3, <1>7 DEF PubInv, Types
      <4>10. Slots'
        BY <3>8, <1>2, <1>5, UnderWay DEF PubInv, Slots
      <4> QED
        BY <4>6, <4>7, <4>8, <4>9, <4>10, <1>4 DEF PubInv
    <3> QED
      BY <1>1, <1>11, <2>7, <2>9, <3>7, <3>8 DEF taggerPublish, Sends, usable, p
  <2> QED
    BY <1>1, <1>11, <2>8, <2>9 DEF taggerPublish, Sends, usable
<1> QED
  BY <1>10, <1>11

-----------------------------------------------------------------------------
(* Confirms at the client.                                                  *)

LEMMA PlainConfirms ==
    ASSUME NEW kind \in {"close", "close-ok", "error", "none"}
    PROVE  /\ Plain(kind) \in EventType /\ Plain(kind).kind = kind /\ Plain(kind).tags = {}
           /\ Confirming(Plain(kind)) /\ Confirming(Plain(kind))'
           /\ \A tags : 0 \notin tags => Covers(Plain(kind), tags) = {}
<1>1. /\ Plain(kind).kind = kind /\ Plain(kind).tag = 0
      /\ Plain(kind).multiple = FALSE /\ Plain(kind).tags = {}
  BY DEF Plain, Event
<1>2. Plain(kind) \in EventType
  BY DEF Plain, Event, EventType
<1> QED
  BY <1>1, <1>2 DEF Confirming, Covers

LEMMA ConfirmedTags ==
    ASSUME Types, Confirms, NEW i \in 1..Len(toClient)
    PROVE  /\ toClient[i] \in EventType /\ toClient[i].tags \subseteq DOMAIN confirmed
           /\ 0 \notin toClient[i].tags
<1>1. toClient[i] \in EventType
  BY ElementOfSeq DEF Types
<1>2. toClient[i].tags \subseteq DOMAIN confirmed
  BY DEF Confirms, Confirming
<1>3. 0 \notin DOMAIN confirmed
  BY DEF Confirms
<1> QED
  BY <1>1, <1>2, <1>3

(* The client reads the next frame, or is done with the last one.           *)
Reads ==
    \/ toClient' = toClient
    \/ toClient # <<>> /\ toClient' = Tail(toClient)

LEMMA ReadsShape ==
    ASSUME Types, Reads
    PROVE  /\ toClient' \in Seq(EventType)
           /\ \E d \in {0, 1} : \A i \in 1..Len(toClient') :
                i + d \in 1..Len(toClient) /\ toClient'[i] = toClient[i + d]
<1>1. toClient \in Seq(EventType) /\ Len(toClient) \in Nat
  BY LenProperties DEF Types
<1>2. CASE toClient' = toClient
  <2>1. \A i \in 1..Len(toClient') : i + 0 \in 1..Len(toClient) /\ toClient'[i] = toClient[i + 0]
    BY <1>1, <1>2
  <2> QED
    BY <2>1, <1>1, <1>2
<1>3. CASE toClient # <<>> /\ toClient' = Tail(toClient)
  <2>1. /\ toClient' \in Seq(EventType) /\ Len(toClient') = Len(toClient) - 1
        /\ \A i \in 1..Len(toClient') : toClient'[i] = toClient[i + 1]
    BY <1>1, <1>3, HeadTailProperties
  <2>2. \A i \in 1..Len(toClient') : i + 1 \in 1..Len(toClient) /\ toClient'[i] = toClient[i + 1]
    BY <2>1, <1>1
  <2> QED
    BY <2>1, <2>2
<1> QED
  BY <1>2, <1>3 DEF Reads

LEMMA ReadKeeps ==
    ASSUME Types, Confirms, Reads, UNCHANGED <<received, confirmed>>,
           Confirming(task'),
           \A i \in 1..Len(toClient') : Covers(task', toClient'[i].tags) = {}
    PROVE  Confirms'
<1>1. PICK d \in {0, 1} : \A i \in 1..Len(toClient') :
                i + d \in 1..Len(toClient) /\ toClient'[i] = toClient[i + d]
  BY ReadsShape
<1>3. Confirming(task)'
  BY DEF Confirming, Covers, Plain, Event
<1>4. \A i \in 1..Len(toClient') : Confirming(toClient'[i])
  BY <1>1 DEF Confirms
<1>5. (\A i \in 1..Len(toClient) : Confirming(toClient[i]))'
  BY <1>4 DEF Confirming, Covers, Plain, Event
<1>6. (\A i, j \in 1..Len(toClient) : i < j => Covers(toClient[i], toClient[j].tags) = {})'
  <2> SUFFICES ASSUME NEW i \in 1..Len(toClient'), NEW j \in 1..Len(toClient'), i < j
               PROVE  Covers(toClient'[i], toClient'[j].tags) = {}
    BY DEF Covers
  <2>1. i + d < j + d
    OBVIOUS
  <2> QED
    BY <1>1, <2>1 DEF Confirms
<1>7. (\A i \in 1..Len(toClient) : Covers(task, toClient[i].tags) = {})'
  BY DEF Covers
<1>8. (DOMAIN confirmed \subseteq 1..Len(received))'
  BY DEF Confirms
<1> QED
  BY <1>3, <1>5, <1>6, <1>7, <1>8 DEF Confirms

(* The next frame is taken up, to be processed in several steps.            *)
LEMMA TakeKeeps ==
    ASSUME Types, Confirms, UNCHANGED <<received, confirmed>>, toClient # <<>>,
           toClient' = Tail(toClient), task' = Head(toClient)
    PROVE  Confirms' /\ toClient' \in Seq(EventType) /\ task' \in EventType
<1>1. toClient \in Seq(EventType) /\ Len(toClient) \in Nat \ {0} /\ Head(toClient) = toClient[1]
  BY EmptySeq DEF Types
<1>2. /\ toClient' \in Seq(EventType) /\ task' \in EventType /\ Len(toClient') = Len(toClient) - 1
      /\ \A i \in 1..Len(toClient') : toClient'[i] = toClient[i + 1]
  BY <1>1, HeadTailProperties
<1>3. Confirming(task')
  BY <1>1 DEF Confirms
<1>4. \A i \in 1..Len(toClient') : Covers(task', toClient'[i].tags) = {}
  <2> SUFFICES ASSUME NEW i \in 1..Len(toClient') PROVE Covers(task', toClient'[i].tags) = {}
    OBVIOUS
  <2>1. 1 \in 1..Len(toClient) /\ i + 1 \in 1..Len(toClient) /\ 1 < i + 1
    BY <1>1, <1>2
  <2> QED
    BY <1>1, <1>2, <2>1 DEF Confirms
<1> QED
  BY <1>2, <1>3, <1>4, ReadKeeps DEF Reads

(* The client is done with a frame.                                         *)
LEMMA DoneKeeps ==
    ASSUME Types, Confirms, UNCHANGED <<received, confirmed>>, Reads,
           task' = Idle \/ task' = Plain("error")
    PROVE  Confirms' /\ toClient' \in Seq(EventType) /\ task' \in EventType
<1>1. /\ Confirming(task') /\ task' \in EventType
      /\ \A tags : 0 \notin tags => Covers(task', tags) = {}
  BY PlainConfirms DEF Idle
<1>2. \A i \in 1..Len(toClient') : 0 \notin toClient'[i].tags
  BY ReadsShape, ConfirmedTags
<1> QED
  BY <1>1, <1>2, ReadKeeps, ReadsShape

-----------------------------------------------------------------------------
(* What the base classes make of a confirm.                                 *)

LEMMA BaseQuiet ==
    ASSUME ~Sends, toServer \in Seq(PartType), NEW e, baseConfirm(e), link' = link
    PROVE  toServer' = toServer /\ ~Sends' /\ current' = current
<1>1. toServer \o <<>> = toServer
  BY ConcatEmptySeq
<1>2. \A k : Flushed(k) = <<>>
  BY DEF Flushed
<1>3. ASSUME NEW os, NEW l, closeWhenDone(os, l, <<>>)
      PROVE  toServer' = toServer /\ ~Sends'
  BY <1>1, <1>3 DEF closeWhenDone, channelClose, Sends
<1> QED
  BY <1>2, <1>3 DEF baseConfirm

LEMMA CloseMoves ==
    ASSUME Sends, NEW frames, channelClose(frames)
    PROVE  toServer' = Append(toServer \o frames, CloseFrame) /\ chan' = "closing"
BY DEF channelClose, Sends, CloseFrame

LEMMA DoneMoves ==
    ASSUME Sends, NEW os, NEW l, NEW frames, closeWhenDone(os, l, frames)
    PROVE  \/ toServer' = toServer \o frames /\ chan' = "open"
           \/ toServer' = Append(toServer \o frames, CloseFrame) /\ chan' = "closing"
<1>1. chan = "open"
  BY DEF Sends
<1> QED
  BY <1>1, CloseMoves DEF closeWhenDone

(* n messages leave the queue, and they are the new open tags.              *)
LEMMA FlushMoves ==
    ASSUME Throttled, Sends, Waiting, NEW k \in 0..Len(queue), NEW max, FlushPoint(k, max),
           queue' = SubSeq(queue, k + 1, Len(queue)), last' = LastTag(k),
           \/ toServer' = toServer \o Flushed(k) /\ chan' = "open"
           \/ toServer' = Append(toServer \o Flushed(k), CloseFrame) /\ chan' = "closing",
           UNCHANGED <<current, messages, link, server, received>>
    PROVE  \E n \in Nat : /\ Move(n) /\ k = 2 * n /\ NewTags(k) = (last + 1)..(last + n)
<1>1. PICK n \in Nat : k = 2 * n /\ LastTag(k) = last + n /\ NewTags(k) = (last + 1)..(last + n)
  BY FlushShape
<1>2. Flushed(k) = SubSeq(queue, 1, 2 * n)
  BY <1>1 DEF Flushed
<1>3. 2 * n <= Len(queue)
  <2>1. Len(queue) \in Nat
    BY LenProperties DEF Waiting
  <2> QED
    BY <2>1, <1>1
<1>4. Move(n)
  BY <1>1, <1>2, <1>3 DEF Move
<1> QED
  BY <1>1, <1>4

LEMMA BaseMoves ==
    ASSUME Sends, Waiting, NEW e, baseConfirm(e),
           UNCHANGED <<messages, link, server, received>>
    PROVE  \E n \in Nat : /\ Move(n)
                          /\ Throttled => open' = (open \ Covers(e, open)) \union ((last + 1)..(last + n))
<1>1. queue \in Seq(PartType) /\ Len(queue) \in Nat /\ last \in Nat
  BY LenProperties DEF Waiting
<1>2. current' = current
  BY DEF baseConfirm
<1> DEFINE left == open \ Covers(e, open)
           room == window - Cardinality(left)
<1>3. CASE /\ Throttled /\ room > 0
           /\ \E k \in 0..Len(queue) :
                   /\ FlushPoint(k, room)
                   /\ queue' = SubSeq(queue, k + 1, Len(queue))
                   /\ open' = left \union NewTags(k)
                   /\ last' = LastTag(k)
                   /\ closeWhenDone(open', last', Flushed(k))
  <2> HIDE DEF left, room
  <2>1. PICK k \in 0..Len(queue) :
                   /\ FlushPoint(k, room)
                   /\ queue' = SubSeq(queue, k + 1, Len(queue))
                   /\ open' = left \union NewTags(k)
                   /\ last' = LastTag(k)
                   /\ closeWhenDone(open', last', Flushed(k))
    BY <1>3
  <2>2. \/ toServer' = toServer \o Flushed(k) /\ chan' = "open"
        \/ toServer' = Append(toServer \o Flushed(k), CloseFrame) /\ chan' = "closing"
    BY <2>1, DoneMoves
  <2>3. PICK n \in Nat : Move(n) /\ k = 2 * n /\ NewTags(k) = (last + 1)..(last + n)
    BY <1>2, <1>3, <2>1, <2>2, FlushMoves
  <2> QED
    BY <2>1, <2>3 DEF left
<1>4. CASE /\ open' = left
           /\ closeWhenDone(left, last, <<>>)
           /\ UNCHANGED <<queue, last>>
  <2> HIDE DEF left
  <2>1. SubSeq(queue, 2 * 0 + 1, Len(queue)) = queue /\ SubSeq(queue, 1, 2 * 0) = <<>>
    BY <1>1, SubSeqFull, SubSeqEmpty
  <2>2. \/ toServer' = toServer \o <<>> /\ chan' = "open"
        \/ toServer' = Append(toServer \o <<>>, CloseFrame) /\ chan' = "closing"
    BY <1>4, DoneMoves
  <2>3. last + 0 = last /\ 2 * 0 <= Len(queue) /\ (last + 1)..(last + 0) = {}
    BY <1>1
  <2>4. Move(0)
    BY <1>2, <1>4, <2>1, <2>2, <2>3 DEF Move
  <2>5. open' = left \union ((last + 1)..(last + 0))
    BY <1>4, <2>3
  <2> QED
    BY <2>4, <2>5 DEF left
<1> QED
  BY <1>3, <1>4 DEF baseConfirm

(* What is still on its way to the server is newer than what it has got.    *)
LEMMA SentIsNewer ==
    ASSUME Types, Pipe, NEW i \in 1..Len(toServer), toServer[i].part # 0
    PROVE  toServer[i].tag \in Nat /\ toServer[i].tag > Len(received)
<1>1. PICK b \in Nat : Continues(toServer, b) /\ 2 * Len(received) <= b
  BY DEF Pipe
<1>2. toServer[i] \in PartType /\ Len(received) \in Nat
  BY ElementOfSeq, LenProperties DEF Types
<1>3. 2 * toServer[i].tag + toServer[i].part - 2 = b + i /\ i \in Nat /\ i > 0
  BY <1>1 DEF Continues, Place
<1>4. toServer[i].tag \in Nat /\ toServer[i].part \in {1, 2}
  BY <1>2 DEF PartType
<1> DEFINE t == toServer[i].tag
           p == toServer[i].part
<1>5. 2 * t + p - 2 = b + i /\ t \in Nat /\ p \in {1, 2}
  BY <1>3, <1>4
<1> HIDE DEF t, p
<1>6. t > Len(received)
  BY <1>1, <1>2, <1>3, <1>5
<1> QED
  BY <1>4, <1>6 DEF t

(* Every tag that was sent keeps its slot or is confirmed.                  *)
LEMMA SlotsCovered ==
    ASSUME PubInv, Sends, Throttled, NEW n \in Nat, last' = last + n,
           NEW e \in EventType, Confirming(e),
           open' = (open \ Covers(e, open)) \union ((last + 1)..(last + n)), confirmed' = confirmed
    PROVE  open' \subseteq 1..last' /\ \A t \in 1..last' : t \in open' \/ t \in DOMAIN confirmed
<1> DEFINE new == (last + 1)..(last + n)
<1>1. /\ open \subseteq 1..last
      /\ \A t \in 1..last : t \in open \/ t \in DOMAIN confirmed
  BY DEF PubInv, Slots
<1>2. last \in Nat
  BY DEF PubInv, Waiting
<1>nat. last \in Nat /\ n \in Nat
  BY <1>2
<1>3. e.tag \in Nat /\ e.multiple \in BOOLEAN
  BY DEF EventType
<1>4. last' = last + n
  OBVIOUS
<1>5. open' \subseteq 1..last'
  <2>1. 1..last \subseteq 1..(last + n) /\ new \subseteq 1..(last + n)
    BY <1>nat
  <2> QED
    BY <2>1, <1>1, <1>4
<1>6. \A t \in 1..last' : t \in open' \/ t \in DOMAIN confirmed'
  <2> SUFFICES ASSUME NEW t \in 1..last' PROVE t \in open' \/ t \in DOMAIN confirmed
    OBVIOUS
  <2>1. t \in 1..last \/ t \in new
    BY <1>2, <1>4
  <2>2. t \in Covers(e, open) => t \in DOMAIN confirmed
    <3>1. ASSUME t \in Covers(e, open), e.multiple PROVE t \in DOMAIN confirmed
      <4>1. t <= e.tag /\ t \in 1..e.tag
        BY <3>1, <1>3, <1>1, <1>2 DEF Covers
      <4> QED
        BY <4>1, <3>1 DEF Confirming
    <3>2. ASSUME t \in Covers(e, open), ~e.multiple PROVE t \in DOMAIN confirmed
      <4>1. t = e.tag /\ t > 0
        BY <3>2, <1>1, <1>2 DEF Covers
      <4>2. e.kind \in {"ack", "nack"}
        BY <4>1 DEF Confirming, Plain, Event
      <4> QED
        BY <4>1, <4>2 DEF Confirming
    <3> QED
      BY <3>1, <3>2
  <2> QED
    BY <2>1, <2>2, <1>1
<1> QED
  BY <1>5, <1>6

(* A confirm frees no slot of a message that is still under way.            *)
LEMMA SlotsMove ==
    ASSUME PubInv, Sends, Throttled, NEW n \in Nat, Move(n),
           NEW e \in EventType, Confirming(e),
           open' = (open \ Covers(e, open)) \union ((last + 1)..(last + n)),
           LaterTags' \subseteq LaterTags, LaterTags \subseteq LaterTags' \union e.tags,
           Covers(e, LaterTags') = {}, confirmed' = confirmed
    PROVE  Slots'
<1> SUFFICES ASSUME Sends' PROVE Slots'
  BY DEF Slots
<1> DEFINE new == (last + 1)..(last + n)
           moved == SubSeq(queue, 1, 2 * n)
<1>1. /\ TagsUnderWay \subseteq open
      /\ server = "open" => open \subseteq TagsUnderWay
      /\ open \subseteq 1..last
      /\ \A t \in 1..last : t \in open \/ t \in DOMAIN confirmed
  BY DEF PubInv, Slots
<1>2. /\ last \in Nat /\ queue \in Seq(PartType) /\ Len(queue) \in Nat
      /\ toServer \in Seq(PartType) /\ Len(received) \in Nat /\ Waiting /\ received \in Seq(Nat)
  BY LenProperties DEF PubInv, Waiting, Types
<1>nat. last \in Nat /\ n \in Nat
  BY <1>2
<1>3. /\ toServer' = toServer \o moved
      /\ \A i \in 1..(2 * n) : moved[i] = queue[i]
      /\ moved \in Seq(PartType) /\ Len(moved) = 2 * n
  BY MoveKeeps DEF PubInv
<1>4. last' = last + n /\ server' = server /\ 2 * n <= Len(queue)
  BY DEF Move
<1> HIDE DEF moved
<1>5. TagsOf(moved) = new
  <2>1. \A i \in 1..(2 * n) : /\ queue[i].tag \in Nat /\ queue[i].part \in {1, 2}
                              /\ 2 * queue[i].tag + queue[i].part - 2 = 2 * last + i
    <3>1. \A i \in 1..(2 * n) : i \in 1..Len(queue)
      BY <1>4, <1>2
    <3> QED
      BY <3>1, <1>2, QueueShape
  <2>2. ASSUME NEW i \in 1..(2 * n) PROVE queue[i].tag \in new
    <3>1. /\ queue[i].tag \in Nat /\ queue[i].part \in {1, 2}
          /\ 2 * queue[i].tag + queue[i].part - 2 = 2 * last + i
      BY <2>1
    <3> QED
      BY <3>1, <1>nat
  <2>3. ASSUME NEW t \in new PROVE \E i \in 1..(2 * n) : t = queue[i].tag
    <3> DEFINE j == 2 * (t - last)
    <3>1. j \in 1..(2 * n) /\ j = 2 * (t - last)
      BY <1>2
    <3> HIDE DEF j
    <3>2. /\ queue[j].tag \in Nat /\ queue[j].part \in {1, 2}
          /\ 2 * queue[j].tag + queue[j].part - 2 = 2 * last + j
      BY <3>1, <2>1
    <3>3. queue[j].tag = t
      BY <3>1, <3>2, <1>nat
    <3> QED
      BY <3>1, <3>3
  <2> HIDE DEF new
  <2>4. TagsOf(moved) \subseteq new
    BY <1>3, <2>2 DEF TagsOf
  <2>5. new \subseteq TagsOf(moved)
    BY <1>3, <2>3 DEF TagsOf
  <2> QED
    BY <2>4, <2>5
<1>6. TagsOf(toServer') = TagsOf(toServer) \union new
  BY <1>2, <1>3, <1>5, TagsOfConcat
<1>7. e.tag \in Nat /\ e.tag <= Len(received) /\ e.multiple \in BOOLEAN
  <2>1. e.tag \in Nat /\ e.multiple \in BOOLEAN
    BY DEF EventType
  <2>2. CASE e.kind \in {"ack", "nack"}
    BY <2>1, <2>2, <1>2 DEF PubInv, Confirms, Confirming
  <2>3. CASE e.kind \notin {"ack", "nack"}
    <3>1. e.tag = 0
      BY <2>3 DEF Confirming, Plain, Event
    <3> QED
      BY <2>1, <3>1, <1>2
  <2> QED
    BY <2>1, <2>2, <2>3
<1>8. Covers(e, TagsOf(toServer)) = {}
  <2>1. \A t \in TagsOf(toServer) : t \in Nat /\ t > Len(received)
    <3>1. Open(toServer)
      BY DEF PubInv, Pipe
    <3> QED
      BY <3>1, SentIsNewer DEF PubInv, TagsOf, Open
  <2> QED
    BY <2>1, <1>2, <1>7 DEF Covers
<1>9. Covers(e, TagsUnderWay') \subseteq new
  BY <1>6, <1>8, UnderWay DEF Covers
<1>10. TagsUnderWay' \subseteq open'
  <2> SUFFICES ASSUME NEW t \in TagsUnderWay', t \notin new PROVE t \in open \ Covers(e, open)
    OBVIOUS
  <2>1. t \in open
    BY <1>1, <1>6, UnderWay
  <2>2. t \notin Covers(e, open)
    BY <1>9 DEF Covers
  <2> QED
    BY <2>1, <2>2
<1>11. server' = "open" => open' \subseteq TagsUnderWay'
  <2> SUFFICES ASSUME server = "open", NEW t \in open, t \notin Covers(e, open)
               PROVE  t \in TagsUnderWay'
    BY <1>4, <1>6, UnderWay
  <2>1. t \in TagsUnderWay
    BY <1>1
  <2>2. t \notin e.tags
    BY DEF Confirming, Covers
  <2> QED
    BY <2>1, <2>2, <1>6, UnderWay
<1>12. open' \subseteq 1..last' /\ \A t \in 1..last' : t \in open' \/ t \in DOMAIN confirmed
  BY <1>4, SlotsCovered
<1> QED
  BY <1>10, <1>11, <1>12 DEF Slots

-----------------------------------------------------------------------------
(* The actions.                                                             *)

LEMMA NotUnconfirmed ==
    ASSUME NEW e \in EventType, Confirming(e), received \in Seq(Nat)
    PROVE  Covers(e, Unconfirmed) = {}
<1> SUFFICES ASSUME NEW t \in Covers(e, Unconfirmed) PROVE FALSE
  OBVIOUS
<1>1. e.tag \in Nat /\ e.multiple \in BOOLEAN /\ Len(received) \in Nat
  BY LenProperties DEF EventType
<1>2. t \in 1..Len(received) /\ t \notin DOMAIN confirmed
  BY DEF Covers, Unconfirmed
<1>3. CASE e.multiple
  <2>1. t \in 1..e.tag
    BY <1>1, <1>2, <1>3 DEF Covers
  <2> QED
    BY <2>1, <1>2, <1>3 DEF Confirming
<1>4. CASE ~e.multiple
  <2>1. t = e.tag /\ t > 0
    BY <1>2, <1>4 DEF Covers
  <2>2. e.kind \in {"ack", "nack"}
    BY <2>1 DEF Confirming, Plain, Event
  <2> QED
    BY <2>1, <2>2, <1>2 DEF Confirming
<1> QED
  BY <1>3, <1>4

(* A confirm that the base classes get.                                     *)
LEMMA BaseKeeps ==
    ASSUME PubInv, NEW e \in EventType, Confirming(e), baseConfirm(e),
           UNCHANGED <<messages, link, server, received, confirmed>>, task' = Idle, Reads,
           LaterTags' \subseteq LaterTags, LaterTags \subseteq LaterTags' \union e.tags,
           Covers(e, LaterTags') = {}
    PROVE  PubInv'
<1>1. Confirms' /\ toClient' \in Seq(EventType) /\ task' \in EventType /\ task'.kind = "none"
  BY DoneKeeps, PlainConfirms DEF PubInv, Idle
<1>2. /\ messages' \in Seq(MessageType) /\ received' \in Seq(Nat) /\ toServer \in Seq(PartType)
      /\ current' \in Nat
  BY DEF PubInv, Types, baseConfirm
<1>3. CASE ~Sends
  <2>1. toServer' = toServer /\ ~Sends'
    BY <1>2, <1>3, BaseQuiet
  <2>2. Pipe' /\ Waiting' /\ Tagging' /\ Slots'
    BY <2>1, QuietKeeps DEF PubInv, TagsKept
  <2>3. Types'
    BY <1>1, <1>2, <2>1 DEF Types
  <2> QED
    BY <1>1, <2>2, <2>3 DEF PubInv
<1>4. CASE Sends
  <2>1. PICK n \in Nat :
          /\ Move(n)
          /\ Throttled => open' = (open \ Covers(e, open)) \union ((last + 1)..(last + n))
    BY <1>4, BaseMoves DEF PubInv
  <2>2. toServer' \in Seq(PartType) /\ Pipe' /\ Waiting' /\ Tagging'
    BY <1>4, <2>1, MoveKeeps DEF PubInv
  <2>3. Slots'
    <3>1. CASE Throttled
      BY <3>1, <1>4, <2>1, SlotsMove
    <3>2. CASE ~Throttled
      BY <3>2 DEF Slots
    <3> QED
      BY <3>1, <3>2
  <2>4. Types'
    BY <1>1, <1>2, <2>2 DEF Types
  <2> QED
    BY <1>1, <2>2, <2>3, <2>4 DEF PubInv
<1> QED
  BY <1>3, <1>4

ClientTags == UNION {toClient[i].tags : i \in 1..Len(toClient)}

LEMMA HandlersDoneKeeps ==
    ASSUME PubInv, handlersDone
    PROVE  PubInv'
<1>1. /\ baseConfirm(task) /\ task' = Idle
      /\ UNCHANGED <<messages, link, toClient, server, received, confirmed>>
  BY DEF handlersDone, serverVars
<1>2. task \in EventType /\ Confirming(task) /\ received \in Seq(Nat)
  BY DEF PubInv, Types, Confirms
<1>3. LaterTags = Unconfirmed \union task.tags \union ClientTags
  BY DEF LaterTags, ClientTags
<1>4. LaterTags' = Unconfirmed \union ClientTags
  <2>1. task'.tags = {}
    BY <1>1, PlainConfirms DEF Idle
  <2>2. Unconfirmed' = Unconfirmed /\ ClientTags' = ClientTags
    BY <1>1 DEF Unconfirmed, ClientTags
  <2> QED
    BY <2>1, <2>2 DEF LaterTags, ClientTags
<1>5. Covers(task, LaterTags') = {}
  <2>1. Covers(task, Unconfirmed) = {}
    BY <1>2, NotUnconfirmed
  <2>2. \A i \in 1..Len(toClient) : Covers(task, toClient[i].tags) = {}
    BY DEF PubInv, Confirms
  <2> QED
    BY <1>4, <2>1, <2>2 DEF Covers, ClientTags
<1> QED
  BY <1>1, <1>2, <1>3, <1>4, <1>5, BaseKeeps DEF Reads

LEMMA HeadTags ==
    ASSUME Types, Confirms, toClient # <<>>, toClient' = Tail(toClient),
           UNCHANGED <<received, confirmed>>
    PROVE  /\ Head(toClient) \in EventType /\ Confirming(Head(toClient))
           /\ ClientTags = ClientTags' \union Head(toClient).tags
           /\ Covers(Head(toClient), ClientTags') = {}
           /\ Covers(Head(toClient), Unconfirmed) = {} /\ Unconfirmed' = Unconfirmed
<1>1. toClient \in Seq(EventType) /\ Len(toClient) \in Nat \ {0} /\ Head(toClient) = toClient[1]
  BY EmptySeq DEF Types
<1>2. /\ Head(toClient) \in EventType /\ toClient' \in Seq(EventType)
      /\ Len(toClient') = Len(toClient) - 1
      /\ \A i \in 1..Len(toClient') : toClient'[i] = toClient[i + 1]
  BY <1>1, HeadTailProperties
<1>3. 1 \in 1..Len(toClient)
  BY <1>1
<1>4. Confirming(Head(toClient))
  BY <1>1, <1>3 DEF Confirms
<1>5. \A i \in 1..Len(toClient') : i + 1 \in 1..Len(toClient) /\ 1 < i + 1
  BY <1>1, <1>2
<1>6. \A i \in 1..Len(toClient) : i = 1 \/ (i - 1 \in 1..Len(toClient') /\ toClient'[i - 1] = toClient[i])
  <2> SUFFICES ASSUME NEW i \in 1..Len(toClient), i # 1
               PROVE  i - 1 \in 1..Len(toClient') /\ toClient'[i - 1] = toClient[i]
    OBVIOUS
  <2>1. i - 1 \in 1..Len(toClient') /\ i - 1 + 1 = i
    BY <1>1, <1>2
  <2> QED
    BY <2>1, <1>2
<1>7. ClientTags = ClientTags' \union Head(toClient).tags
  <2>1. ClientTags \subseteq ClientTags' \union Head(toClient).tags
    <3> SUFFICES ASSUME NEW i \in 1..Len(toClient), NEW t \in toClient[i].tags
                 PROVE  t \in ClientTags' \union Head(toClient).tags
      BY DEF ClientTags
    <3>1. CASE i = 1
      BY <1>1, <3>1
    <3>2. CASE i - 1 \in 1..Len(toClient') /\ toClient'[i - 1] = toClient[i]
      BY <3>2 DEF ClientTags
    <3> QED
      BY <1>6, <3>1, <3>2
  <2>2. ClientTags' \subseteq ClientTags
    BY <1>2, <1>5 DEF ClientTags
  <2>3. Head(toClient).tags \subseteq ClientTags
    BY <1>1, <1>3 DEF ClientTags
  <2> QED
    BY <2>1, <2>2, <2>3
<1>8. \A i \in 1..Len(toClient') : Covers(Head(toClient), toClient'[i].tags) = {}
  BY <1>1, <1>2, <1>3, <1>5 DEF Confirms
<1>9. Covers(Head(toClient), ClientTags') = {}
  <2> SUFFICES ASSUME NEW t \in Covers(Head(toClient), ClientTags') PROVE FALSE
    OBVIOUS
  <2>1. t \in ClientTags'
    BY DEF Covers
  <2>2. PICK i \in 1..Len(toClient') : t \in toClient'[i].tags
    BY <2>1 DEF ClientTags
  <2>3. t \in Covers(Head(toClient), toClient'[i].tags)
    BY <2>2 DEF Covers
  <2> QED
    BY <2>3, <1>8
<1>10. Covers(Head(toClient), Unconfirmed) = {} /\ Unconfirmed' = Unconfirmed
  <2>1. received \in Seq(Nat)
    BY DEF Types
  <2> QED
    BY <2>1, <1>2, <1>4, NotUnconfirmed DEF Unconfirmed
<1> QED
  BY <1>2, <1>4, <1>7, <1>9, <1>10

LEMMA OnConfirmKeeps ==
    ASSUME PubInv, onConfirm
    PROVE  PubInv'
<1> DEFINE e == Head(toClient)
<1>1. /\ toClient # <<>> /\ toClient' = Tail(toClient) /\ task = Idle
      /\ e.kind \in {"ack", "nack"}
      /\ UNCHANGED <<link, server, received, confirmed>>
  BY DEF onConfirm, Receive, serverVars
<1>2. Types /\ Confirms
  BY DEF PubInv
<1>3. /\ e \in EventType /\ Confirming(e)
      /\ ClientTags = ClientTags' \union e.tags
      /\ Covers(e, ClientTags') = {}
      /\ Covers(e, Unconfirmed) = {} /\ Unconfirmed' = Unconfirmed
  BY <1>1, <1>2, HeadTags
<1>4. LaterTags = Unconfirmed \union ClientTags
  <2>1. task.tags = {}
    BY <1>1, PlainConfirms DEF Idle
  <2> QED
    BY <2>1 DEF LaterTags, ClientTags
<1>5. LaterTags' = Unconfirmed \union task'.tags \union ClientTags'
  BY <1>3 DEF LaterTags, ClientTags
<1>6. CASE /\ reportHandler(e) /\ task' = e
           /\ UNCHANGED <<current, last, open, queue, chan, toServer>>
  <2>1. Confirms' /\ toClient' \in Seq(EventType) /\ task' \in EventType
    BY <1>1, <1>2, <1>6, TakeKeeps
  <2>2. messages' \in Seq(MessageType) /\ TagsKept /\ Len(messages') = Len(messages)
    BY <1>1, <1>2, <1>6, ReportKeeps DEF reportHandler, Types
  <2>3. Pipe' /\ Waiting' /\ Tagging'
    BY <1>1, <1>6, <2>2, SameKeeps DEF PubInv
  <2>4. Types'
    BY <1>1, <1>2, <1>6, <2>1, <2>2 DEF Types
  <2>5. Slots'
    <3>1. LaterTags' = LaterTags
      BY <1>3, <1>4, <1>5, <1>6
    <3> QED
      BY <3>1, <1>1, <1>6, UnderWay DEF PubInv, Slots, Sends
  <2> QED
    BY <2>1, <2>3, <2>4, <2>5 DEF PubInv
<1>7. CASE baseConfirm(e) /\ UNCHANGED <<messages, task>>
  <2>1. LaterTags' = Unconfirmed \union ClientTags'
    <3>1. task'.tags = {}
      BY <1>1, <1>7, PlainConfirms DEF Idle
    <3> QED
      BY <3>1, <1>5
  <2>2. Covers(e, LaterTags') = {}
    BY <2>1, <1>3 DEF Covers
  <2>3. LaterTags' \subseteq LaterTags /\ LaterTags \subseteq LaterTags' \union e.tags
    BY <2>1, <1>3, <1>4
  <2>4. task' = Idle /\ Reads
    BY <1>1, <1>7 DEF Reads
  <2> HIDE DEF e
  <2> QED
    BY <2>2, <2>3, <2>4, <1>1, <1>3, <1>7, BaseKeeps
<1> QED
  BY <1>6, <1>7 DEF onConfirm

LEMMA NextHandlerKeeps ==
    ASSUME PubInv, nextHandler
    PROVE  PubInv'
<1>1. /\ reportHandler(task) /\ task.kind \in {"ack", "nack"}
      /\ UNCHANGED <<current, last, open, queue, task, chan, link, toServer, toClient, server, received, confirmed>>
  BY DEF nextHandler, taskVars, serverVars
<1>2. messages' \in Seq(MessageType) /\ TagsKept /\ Len(messages') = Len(messages)
  BY <1>1, ReportKeeps DEF reportHandler, Types, PubInv
<1>3. Pipe' /\ Waiting' /\ Tagging'
  BY <1>1, <1>2, SameKeeps DEF PubInv
<1>4. Types'
  BY <1>1, <1>2 DEF Types, PubInv
<1>5. Confirms'
  BY <1>1, ConfirmsSame DEF PubInv
<1>6. Slots'
  BY <1>1 DEF PubInv, Slots, Sends, TagsUnderWay, Unconfirmed
<1> QED
  BY <1>3, <1>4, <1>5, <1>6 DEF PubInv

LEMMA FlushKeeps ==
    ASSUME PubInv, flush
    PROVE  PubInv'
<1>1. UNCHANGED <<current, task, messages, chan, link, toClient, server, received, confirmed>>
  BY DEF flush, taskVars, serverVars
<1>2. Types /\ Confirms /\ Throttled /\ toServer \in Seq(PartType)
  BY DEF PubInv, flush, Types
<1>3. PICK max \in Flushes, k \in 0..Len(queue) :
         /\ FlushPoint(k, max)
         /\ queue' = SubSeq(queue, k + 1, Len(queue))
         /\ open' = open \union NewTags(k)
         /\ last' = LastTag(k)
         /\ toServer' = toServer \o Flushed(k)
  BY DEF flush
<1>4. Confirms'
  BY <1>1, <1>2, ConfirmsSame
<1>5. LaterTags' = LaterTags
  BY <1>1 DEF LaterTags, Unconfirmed
<1>6. CASE ~Sends
  <2>1. toServer' = toServer /\ ~Sends'
    BY <1>1, <1>2, <1>3, <1>6, ConcatEmptySeq DEF Flushed, Sends
  <2>2. Pipe' /\ Waiting' /\ Tagging' /\ Slots'
    BY <1>1, <2>1, QuietKeeps DEF PubInv, TagsKept
  <2>3. Types'
    BY <1>1, <1>2, <2>1 DEF Types
  <2> QED
    BY <1>4, <2>2, <2>3 DEF PubInv
<1>7. CASE Sends
  <2>1. chan' = "open"
    BY <1>1, <1>7 DEF Sends
  <2>2. PICK n \in Nat : Move(n) /\ NewTags(k) = (last + 1)..(last + n)
    BY <1>1, <1>2, <1>3, <1>7, <2>1, FlushMoves DEF PubInv
  <2>3. toServer' \in Seq(PartType) /\ Pipe' /\ Waiting' /\ Tagging'
    BY <1>7, <2>2, MoveKeeps DEF PubInv
  <2>4. Types'
    BY <1>1, <1>2, <2>3 DEF Types
  <2>5. Slots'
    <3>1. /\ Idle \in EventType /\ Confirming(Idle) /\ Idle.tags = {}
          /\ \A tags : 0 \notin tags => Covers(Idle, tags) = {}
      BY PlainConfirms DEF Idle
    <3>2. TagsUnderWay \subseteq open /\ open \subseteq 1..last
      BY <1>2, <1>7 DEF PubInv, Slots
    <3>3. 0 \notin open
      BY <3>2
    <3>4. 0 \notin LaterTags
      BY <3>2, <3>3, UnderWay
    <3>5. Covers(Idle, LaterTags') = {} /\ Covers(Idle, open) = {}
      BY <3>1, <3>3, <3>4, <1>5
    <3>6. open' = (open \ Covers(Idle, open)) \union ((last + 1)..(last + n))
      BY <3>5, <2>2, <1>3
    <3> QED
      BY <3>1, <3>5, <3>6, <1>1, <1>2, <1>5, <1>7, <2>2, SlotsMove
  <2> QED
    BY <1>4, <2>3, <2>4, <2>5 DEF PubInv
<1> QED
  BY <1>6, <1>7

LEMMA CloseKeeps ==
    ASSUME PubInv, close
    PROVE  PubInv'
<1>1. UNCHANGED <<current, last, open, queue, task, messages, link, toClient, server, received, confirmed>>
  BY DEF close, layerVars, taskVars, serverVars
<1>2. Types /\ Confirms /\ toServer \in Seq(PartType)
  BY DEF PubInv, Types
<1>3. Confirms'
  BY <1>1, <1>2, ConfirmsSame
<1>4. UNCHANGED <<chan, toServer>> \/ channelClose(<<>>)
  BY DEF close
<1>5. toServer \o <<>> = toServer
  BY <1>2, ConcatEmptySeq
<1>6. CASE UNCHANGED <<chan, toServer>>
  <2>1. Pipe' /\ Waiting' /\ Tagging'
    BY <1>1, <1>6, SameKeeps DEF PubInv, TagsKept
  <2>2. Types'
    BY <1>1, <1>2, <1>6 DEF Types
  <2>3. Slots'
    BY <1>1, <1>6 DEF PubInv, Slots, Sends, TagsUnderWay, Unconfirmed
  <2> QED
    BY <1>3, <2>1, <2>2, <2>3 DEF PubInv
<1>7. CASE channelClose(<<>>) /\ ~Sends
  <2>1. toServer' = toServer /\ ~Sends' /\ (chan = "closed" => chan' = "closed")
    BY <1>1, <1>5, <1>7 DEF channelClose, Sends
  <2>2. Pipe' /\ Waiting' /\ Tagging' /\ Slots'
    BY <1>1, <2>1, QuietKeeps DEF PubInv, TagsKept
  <2>3. Types'
    BY <1>1, <1>2, <2>1 DEF Types
  <2> QED
    BY <1>3, <2>2, <2>3 DEF PubInv
<1>8. CASE channelClose(<<>>) /\ Sends
  <2>1. queue \in Seq(PartType) /\ Len(queue) \in Nat /\ last \in Nat
    BY <1>8, LenProperties DEF PubInv, Waiting
  <2>2. SubSeq(queue, 2 * 0 + 1, Len(queue)) = queue /\ SubSeq(queue, 1, 2 * 0) = <<>>
    BY <2>1, SubSeqFull, SubSeqEmpty
  <2>3. last + 0 = last /\ 2 * 0 <= Len(queue)
    BY <2>1
  <2>4. toServer' = Append(toServer \o <<>>, CloseFrame) /\ chan' = "closing"
    BY <1>8, CloseMoves
  <2>5. Move(0)
    BY <1>1, <2>2, <2>3, <2>4 DEF Move
  <2>6. toServer' \in Seq(PartType) /\ Pipe' /\ Waiting' /\ Tagging'
    BY <1>8, <2>5, MoveKeeps DEF PubInv
  <2>7. task.kind # "error"
    BY <1>2, <1>8 DEF Types, Sends
  <2>8. Types' /\ Slots'
    BY <1>1, <1>2, <2>4, <2>6, <2>7 DEF Types, Slots, Sends
  <2> QED
    BY <1>3, <2>6, <2>8 DEF PubInv
<1> QED
  BY <1>4, <1>6, <1>7, <1>8

(* The channel is over: nothing that was sent changes.                      *)
LEMMA EndKeeps ==
    ASSUME PubInv, chan' = "closed", Reads, current' \in Nat,
           messages' \in Seq(MessageType), TagsKept,
           \/ task' = Idle \/ task' = Plain("error") \/ UNCHANGED <<task, toClient>>,
           UNCHANGED <<toServer, server, received, confirmed>>
    PROVE  PubInv'
<1>1. ~Sends'
  BY DEF Sends
<1>2. Pipe' /\ Waiting' /\ Tagging' /\ Slots'
  BY <1>1, QuietKeeps DEF PubInv
<1>3. Types /\ Confirms
  BY DEF PubInv
<1>4. Confirms' /\ toClient' \in Seq(EventType) /\ task' \in EventType
  <2>1. CASE UNCHANGED <<task, toClient>>
    BY <2>1, <1>3, ConfirmsSame DEF Types
  <2>2. CASE task' = Idle \/ task' = Plain("error")
    BY <2>2, <1>3, DoneKeeps
  <2> QED
    BY <2>1, <2>2
<1>5. Types'
  BY <1>3, <1>4 DEF Types
<1> QED
  BY <1>2, <1>4, <1>5 DEF PubInv

LEMMA LostShape ==
    ASSUME messages \in Seq(MessageType), current \in Nat, NEW hs, reportLost(hs)
    PROVE  /\ messages' \in Seq(MessageType) /\ TagsKept /\ current' \in Nat
           /\ task' = Idle \/ task' = Plain("error")
<1>1. CASE messages' = messages
  BY <1>1 DEF reportLost, forget, TagsKept
<1>2. CASE messages' # messages
  <2>1. PICK m : messages' = Report(messages, m, "error")
    BY <1>2 DEF reportLost
  <2>2. messages' \in Seq(MessageType) /\ TagsKept
    BY <2>1, ReportKeeps
  <2> QED
    BY <2>2 DEF reportLost, forget
<1> QED
  BY <1>1, <1>2

LEMMA EndingKeeps ==
    ASSUME PubInv, nextLost \/ channelError \/ channelClosed \/ connectionFail
    PROVE  PubInv'
<1>1. messages \in Seq(MessageType) /\ current \in Nat /\ task \in EventType
      /\ (task.kind = "error" => chan = "closed") /\ toClient \in Seq(EventType)
  BY DEF PubInv, Types
<1>2. CASE nextLost
  <2>1. reportLost(lost) /\ chan' = "closed" /\ toClient' = toClient
        /\ UNCHANGED <<toServer, server, received, confirmed>>
    BY <1>1, <1>2 DEF nextLost, serverVars
  <2> QED
    BY <1>1, <2>1, LostShape, EndKeeps DEF Reads
<1>3. CASE channelError
  <2>1. /\ reportLost(handlers) /\ chan' = "closed" /\ toClient # <<>> /\ toClient' = Tail(toClient)
        /\ UNCHANGED <<toServer, server, received, confirmed>>
    BY <1>3 DEF channelError, Receive, reportError, serverVars
  <2> QED
    BY <1>1, <2>1, LostShape, EndKeeps DEF Reads
<1>4. CASE channelClosed
  <2>1. /\ chan' = "closed" /\ toClient # <<>> /\ toClient' = Tail(toClient) /\ task' = Idle
        /\ UNCHANGED <<current, messages, toServer, server, received, confirmed>>
    BY <1>4 DEF channelClosed, Receive, taskVars, layerVars, serverVars
  <2> QED
    BY <1>1, <2>1, EndKeeps DEF Reads, TagsKept
<1>5. CASE connectionFail
  <2>1. toClient' = toClient /\ UNCHANGED <<toServer, server, received, confirmed>>
    BY <1>5 DEF connectionFail, serverVars
  <2>2. CASE reportError
    <3>1. reportLost(handlers) /\ chan' = "closed"
      BY <2>2 DEF reportError
    <3> QED
      BY <1>1, <2>1, <3>1, LostShape, EndKeeps DEF Reads
  <2>3. CASE chan = "closed" /\ UNCHANGED <<current, task, messages, chan>>
    BY <1>1, <2>1, <2>3, EndKeeps DEF Reads, TagsKept
  <2> QED
    BY <1>5, <2>2, <2>3 DEF connectionFail, taskVars
<1> QED
  BY <1>2, <1>3, <1>4, <1>5

(* The connection is closed, or has been.                                   *)
LEMMA LinkKeeps ==
    ASSUME PubInv, connectionClose \/ connectionClosed
    PROVE  PubInv'
<1>1. /\ UNCHANGED <<current, task, messages, toClient, chan, toServer, server, received, confirmed>>
      /\ link' \in {"refusing", "down"}
  BY DEF connectionClose, connectionClosed, layerVars, taskVars, serverVars
<1>2. ~Sends'
  BY <1>1 DEF Sends
<1>3. Pipe' /\ Waiting' /\ Tagging' /\ Slots'
  BY <1>1, <1>2, QuietKeeps DEF PubInv, TagsKept
<1>4. Confirms'
  BY <1>1, ConfirmsSame DEF PubInv
<1>5. Types'
  BY <1>1 DEF PubInv, Types
<1> QED
  BY <1>3, <1>4, <1>5 DEF PubInv

(* A step that changes nothing of this: throttle(), or a stuttering step.   *)
LEMMA StutterKeeps ==
    ASSUME PubInv,
           UNCHANGED <<current, last, open, queue, task, messages, toClient, chan, link, toServer,
                       server, received, confirmed>>
    PROVE  PubInv'
<1>1. Pipe' /\ Waiting' /\ Tagging'
  BY SameKeeps DEF PubInv, TagsKept
<1>2. Confirms'
  BY ConfirmsSame DEF PubInv
<1>3. Types'
  BY DEF PubInv, Types
<1>4. Slots'
  BY DEF PubInv, Slots, Sends, TagsUnderWay, Unconfirmed
<1> QED
  BY <1>1, <1>2, <1>3, <1>4 DEF PubInv

-----------------------------------------------------------------------------
(* The server.                                                              *)

LEMMA ServerSays ==
    ASSUME Types, Confirms, NEW x \in EventType, toClient' = Append(toClient, x), task' = task,
           \A e \in EventType : Confirming(e) => Confirming(e)',
           \A e : e = x => Confirming(e)',
           \A i \in 1..Len(toClient) : Covers(toClient[i], x.tags) = {},
           Covers(task, x.tags) = {}, DOMAIN confirmed' \subseteq 1..Len(received')
    PROVE  /\ Confirms' /\ toClient' \in Seq(EventType)
           /\ ClientTags' = ClientTags \union x.tags
<1>1. toClient \in Seq(EventType) /\ Len(toClient) \in Nat /\ task \in EventType
  BY LenProperties DEF Types
<1>2. /\ toClient' \in Seq(EventType) /\ Len(toClient') = Len(toClient) + 1
      /\ \A i \in 1..Len(toClient) : toClient'[i] = toClient[i]
      /\ toClient'[Len(toClient) + 1] = x
  BY <1>1, AppendProperties
<1>3. \A i \in 1..Len(toClient') : \/ i \in 1..Len(toClient) /\ toClient'[i] = toClient[i]
                                   \/ i = Len(toClient) + 1 /\ toClient'[i] = x
  <2> SUFFICES ASSUME NEW i \in 1..Len(toClient'), i \notin 1..Len(toClient) PROVE i = Len(toClient) + 1
    BY <1>2
  <2> QED
    BY <1>1, <1>2
<1>4. (\A i \in 1..Len(toClient) : Confirming(toClient[i]))'
  <2>1. \A i \in 1..Len(toClient') : \A e : e = toClient'[i] => Confirming(e)'
    <3> SUFFICES ASSUME NEW i \in 1..Len(toClient'), NEW e, e = toClient'[i] PROVE Confirming(e)'
      OBVIOUS
    <3>1. CASE i \in 1..Len(toClient) /\ toClient'[i] = toClient[i]
      <4>1. Confirming(e) /\ e \in EventType
        BY <3>1, <1>1, ElementOfSeq DEF Confirms
      <4> QED
        BY <4>1
    <3>2. CASE i = Len(toClient) + 1 /\ toClient'[i] = x
      BY <3>2
    <3> QED
      BY <3>1, <3>2, <1>3
  <2> QED
    BY <2>1 DEF Confirming, Covers, Plain, Event
<1>5. Confirming(task)'
  <2>1. PICK e : e = task' /\ e = task
    OBVIOUS
  <2>2. Confirming(e)'
    BY <2>1, <1>1 DEF Confirms
  <2> QED
    BY <2>1, <2>2 DEF Confirming, Covers, Plain, Event
<1>6. (\A i \in 1..Len(toClient) : Covers(task, toClient[i].tags) = {})'
  <2> SUFFICES ASSUME NEW i \in 1..Len(toClient') PROVE Covers(task, toClient'[i].tags) = {}
    BY DEF Covers
  <2> QED
    BY <1>3 DEF Confirms
<1>7. (\A i, j \in 1..Len(toClient) : i < j => Covers(toClient[i], toClient[j].tags) = {})'
  <2> SUFFICES ASSUME NEW i \in 1..Len(toClient'), NEW j \in 1..Len(toClient'), i < j
               PROVE  Covers(toClient'[i], toClient'[j].tags) = {}
    BY DEF Covers
  <2>1. i \in 1..Len(toClient) /\ toClient'[i] = toClient[i]
    BY <1>1, <1>2, <1>3
  <2> QED
    BY <2>1, <1>3 DEF Confirms
<1>8. ClientTags' = ClientTags \union x.tags
  <2>1. ClientTags \subseteq ClientTags'
    <3>1. \A i \in 1..Len(toClient) : i \in 1..Len(toClient') /\ toClient'[i] = toClient[i]
      BY <1>1, <1>2
    <3> QED
      BY <3>1 DEF ClientTags
  <2>2. x.tags \subseteq ClientTags'
    <3>1. Len(toClient) + 1 \in 1..Len(toClient')
      BY <1>1, <1>2
    <3> QED
      BY <3>1, <1>2 DEF ClientTags
  <2>3. ClientTags' \subseteq ClientTags \union x.tags
    <3> SUFFICES ASSUME NEW i \in 1..Len(toClient'), NEW t \in toClient'[i].tags
                 PROVE  t \in ClientTags \union x.tags
      BY DEF ClientTags
    <3> QED
      BY <1>3 DEF ClientTags
  <2> QED
    BY <2>1, <2>2, <2>3
<1> QED
  BY <1>2, <1>4, <1>5, <1>6, <1>7, <1>8 DEF Confirms

LEMMA ServerConfirmKeeps ==
    ASSUME PubInv, serverConfirm
    PROVE  PubInv'
<1>1. UNCHANGED <<current, last, open, queue, task, messages, chan, link, toServer, server, received>>
  BY DEF serverConfirm, layerVars, taskVars
<1>2. PICK t \in Unconfirmed, multiple \in BOOLEAN, kind \in {"ack", "nack"} :
         LET tags == IF multiple THEN {u \in Unconfirmed : u <= t} ELSE {t}
         IN  /\ toClient' = Append(toClient, Event(kind, t, multiple, tags))
             /\ confirmed' = [u \in DOMAIN confirmed \union tags |->
                                IF u \in tags THEN kind ELSE confirmed[u]]
  BY DEF serverConfirm
<1> DEFINE tags == IF multiple THEN {u \in Unconfirmed : u <= t} ELSE {t}
           x == Event(kind, t, multiple, tags)
<1>3. /\ toClient' = Append(toClient, x)
      /\ confirmed' = [u \in DOMAIN confirmed \union tags |-> IF u \in tags THEN kind ELSE confirmed[u]]
  BY <1>2
<1>4. Types /\ Confirms /\ received \in Seq(Nat) /\ Len(received) \in Nat /\ task \in EventType
      /\ toClient \in Seq(EventType)
  BY LenProperties DEF PubInv, Types
<1>5. t \in 1..Len(received) /\ t \notin DOMAIN confirmed /\ t \in Nat
  BY <1>4 DEF Unconfirmed
<1>6. t \in tags /\ tags \subseteq Unconfirmed /\ \A u \in tags : u <= t
  BY <1>5
<1>7. /\ x.kind = kind /\ x.tag = t /\ x.multiple = multiple /\ x.tags = tags
      /\ (~multiple => tags = {t}) /\ (multiple => tags = {u \in Unconfirmed : u <= t})
  BY DEF Event
<1>8. x \in EventType
  <2>1. tags \in SUBSET Nat
    BY <1>6, <1>4 DEF Unconfirmed
  <2> QED
    BY <2>1, <1>5 DEF Event, EventType
<1> HIDE DEF tags, x
<1>9. /\ DOMAIN confirmed' = DOMAIN confirmed \union tags
      /\ \A u \in tags : confirmed'[u] = kind
      /\ \A u \in DOMAIN confirmed : confirmed'[u] = confirmed[u]
  BY <1>3, <1>6 DEF Unconfirmed
<1>10. \A e \in EventType : Confirming(e) => Confirming(e)'
  BY <1>9 DEF Confirming
<1>11. ASSUME NEW e, e = x PROVE Confirming(e)'
  <2>1. x.tags = Covers(x, x.tags)
    BY <1>6, <1>7 DEF Covers
  <2>2. x.multiple => 1..x.tag \subseteq DOMAIN confirmed'
    <3> SUFFICES ASSUME multiple, NEW u \in 1..t PROVE u \in DOMAIN confirmed'
      BY <1>7
    <3>1. u \in 1..Len(received) /\ u <= t
      BY <1>4, <1>5
    <3> QED
      BY <3>1, <1>7, <1>9 DEF Unconfirmed
  <2> QED
    BY <1>11, <2>1, <2>2, <1>6, <1>7, <1>9 DEF Confirming
<1>12. ASSUME NEW e \in EventType, Confirming(e) PROVE Covers(e, x.tags) = {}
  <2>1. Covers(e, Unconfirmed) = {}
    BY <1>4, <1>12, NotUnconfirmed
  <2> QED
    BY <2>1, <1>6, <1>7 DEF Covers
<1>13. /\ \A i \in 1..Len(toClient) : Covers(toClient[i], x.tags) = {}
       /\ Covers(task, x.tags) = {}
  <2>1. \A i \in 1..Len(toClient) : toClient[i] \in EventType /\ Confirming(toClient[i])
    BY <1>4, ElementOfSeq DEF Confirms
  <2> QED
    BY <2>1, <1>4, <1>12 DEF Confirms
<1>14. DOMAIN confirmed' \subseteq 1..Len(received')
  BY <1>1, <1>4, <1>6, <1>9 DEF Confirms, Unconfirmed
<1>15. Confirms' /\ toClient' \in Seq(EventType) /\ ClientTags' = ClientTags \union tags
  BY <1>1, <1>3, <1>4, <1>7, <1>8, <1>10, <1>11, <1>13, <1>14, ServerSays
<1>16. Pipe' /\ Waiting' /\ Tagging'
  BY <1>1, SameKeeps DEF PubInv, TagsKept
<1>17. Types'
  BY <1>1, <1>4, <1>15 DEF Types
<1>18. Slots'
  <2>1. Unconfirmed' = Unconfirmed \ tags
    BY <1>1, <1>9 DEF Unconfirmed
  <2>2. LaterTags' = LaterTags
    BY <2>1, <1>1, <1>6, <1>15 DEF LaterTags, ClientTags
  <2>3. TagsUnderWay' = TagsUnderWay
    BY <2>2, <1>1, UnderWay
  <2> QED
    BY <2>3, <1>1, <1>9 DEF PubInv, Slots, Sends
<1> QED
  BY <1>15, <1>16, <1>17, <1>18 DEF PubInv

LEMMA ServerRaisesKeeps ==
    ASSUME PubInv, serverRaises
    PROVE  PubInv'
<1>1. /\ UNCHANGED <<current, last, open, queue, task, messages, chan, link, toServer, received, confirmed>>
      /\ server' = "closed" /\ toClient' = Append(toClient, Plain("close"))
  BY DEF serverRaises, layerVars, taskVars
<1> DEFINE x == Plain("close")
<1>2. x \in EventType /\ x.tags = {} /\ Confirming(x)'
  BY PlainConfirms
<1>3. Types /\ Confirms
  BY DEF PubInv
<1>4. \A e : e = x => Confirming(e)'
  BY <1>2
<1>5. \A e \in EventType : Confirming(e) => Confirming(e)'
  BY <1>1 DEF Confirming
<1>6. \A e : Covers(e, x.tags) = {}
  BY <1>2 DEF Covers
<1>7. DOMAIN confirmed' \subseteq 1..Len(received')
  BY <1>1, <1>3 DEF Confirms
<1> HIDE DEF x
<1>8. Confirms' /\ toClient' \in Seq(EventType) /\ ClientTags' = ClientTags
  BY <1>1, <1>2, <1>3, <1>4, <1>5, <1>6, <1>7, ServerSays DEF x
<1>9. Pipe' /\ Waiting' /\ Tagging'
  BY <1>1, SameKeeps DEF PubInv, TagsKept
<1>10. Types'
  BY <1>1, <1>3, <1>8 DEF Types
<1>11. Slots'
  <2>1. LaterTags' = LaterTags
    BY <1>1, <1>8 DEF LaterTags, ClientTags, Unconfirmed
  <2> QED
    BY <2>1, <1>1, UnderWay DEF PubInv, Slots, Sends
<1> QED
  BY <1>8, <1>9, <1>10, <1>11 DEF PubInv

LEMMA ServerReceiveKeeps ==
    ASSUME PubInv, serverReceive
    PROVE  PubInv'
<1>1. UNCHANGED <<current, last, open, queue, task, messages, chan, link, confirmed>>
      /\ toServer # <<>> /\ toServer' = Tail(toServer) /\ (Sends' <=> Sends) /\ Sent' = Sent
  BY DEF serverReceive, layerVars, taskVars, Sends, Sent
<1> DEFINE f == Head(toServer)
<1>2. Types /\ Confirms /\ toServer \in Seq(PartType) /\ received \in Seq(Nat)
      /\ toClient \in Seq(EventType) /\ task \in EventType
  BY DEF PubInv, Types
<1>3. Len(toServer) \in Nat \ {0} /\ f = toServer[1] /\ Len(received) \in Nat
  BY <1>1, <1>2, EmptySeq, LenProperties
<1>4. /\ f \in PartType /\ toServer' \in Seq(PartType) /\ Len(toServer') = Len(toServer) - 1
      /\ \A i \in 1..Len(toServer') : toServer'[i] = toServer[i + 1]
  BY <1>1, <1>2, HeadTailProperties
<1>5. f.tag \in Nat /\ f.msg \in Nat /\ f.part \in {0, 1, 2}
  BY <1>4 DEF PartType
<1>6. \A i \in 1..Len(toServer') : i + 1 \in 1..Len(toServer)
  BY <1>3, <1>4
<1>7. 1 \in 1..Len(toServer)
  BY <1>3
<1>8. PICK b \in Nat :
        /\ Continues(toServer, b)
        /\ 2 * Len(received) <= b
        /\ server = "open" => b <= 2 * Len(received) + 1
        /\ Sends => Open(toServer) /\ b + Len(toServer) = 2 * Sent
  BY DEF PubInv, Pipe
<1>9. Tagged(toServer, messages) /\ (f.part # 0 => f.msg \in 1..Len(messages) /\ messages[f.msg].tag = f.tag)
  BY <1>3, <1>7 DEF PubInv, Tagging, Tagged
<1> HIDE DEF f
<1>10. \/ f.part = 0 /\ Len(toServer) = 1
       \/ f.part \in {1, 2} /\ 2 * f.tag + f.part - 2 = b + 1
  BY <1>3, <1>5, <1>7, <1>8 DEF Continues, Place
<1>11. Continues(toServer', b + 1) /\ Tagged(toServer', messages) /\ (Sends => Open(toServer'))
  <2>1. ASSUME NEW i \in 1..Len(toServer')
        PROVE  /\ toServer'[i].part = 0 => i = Len(toServer')
               /\ toServer'[i].part # 0 => toServer'[i].tag > 0 /\ Place(toServer'[i]) = b + 1 + i
    <3> DEFINE j == i + 1
    <3>1. j \in 1..Len(toServer) /\ toServer'[i] = toServer[j]
      BY <1>4, <1>6
    <3>2. i \in Nat /\ b + 1 + i = b + j /\ (j = Len(toServer) => i = Len(toServer'))
      BY <1>3, <1>4
    <3> HIDE DEF j
    <3> QED
      BY <3>1, <3>2, <1>8 DEF Continues
  <2>2. Continues(toServer', b + 1)
    BY <2>1 DEF Continues
  <2>3. Tagged(toServer', messages)
    BY <1>4, <1>6, <1>9 DEF Tagged
  <2>4. Sends => Open(toServer')
    BY <1>4, <1>6, <1>8 DEF Open
  <2> QED
    BY <2>2, <2>3, <2>4
<1>12. Sends => b + 1 + Len(toServer') = 2 * Sent'
  <2>1. b + 1 + (Len(toServer) - 1) = b + Len(toServer)
    BY <1>3
  <2> QED
    BY <2>1, <1>1, <1>4, <1>8
<1>13. Sends => f.part # 0
  BY <1>3, <1>7, <1>8 DEF Open
<1>14. b + 1 \in Nat
  OBVIOUS
<1>15. TagsOf(toServer) = TagsOf(toServer') \union {f.tag}
  <2>1. ASSUME NEW i \in 1..Len(toServer) PROVE toServer[i].tag \in TagsOf(toServer') \union {f.tag}
    <3>1. CASE i = 1
      BY <3>1, <1>3
    <3>2. CASE i # 1
      <4> DEFINE j == i - 1
      <4>1. j \in 1..Len(toServer') /\ j + 1 = i
        BY <3>2, <1>3, <1>4
      <4> HIDE DEF j
      <4>2. toServer'[j] = toServer[i]
        BY <4>1, <1>4
      <4> QED
        BY <4>1, <4>2 DEF TagsOf
    <3> QED
      BY <3>1, <3>2
  <2>2. TagsOf(toServer') \subseteq TagsOf(toServer)
    BY <1>4, <1>6 DEF TagsOf
  <2>3. f.tag \in TagsOf(toServer)
    BY <1>3, <1>7 DEF TagsOf
  <2> QED
    BY <2>1, <2>2, <2>3 DEF TagsOf
<1>16. Waiting'
  BY <1>1 DEF PubInv, Waiting
<1>17. ASSUME received' = received PROVE Tagging'
  BY <1>1, <1>11, <1>17 DEF PubInv, Tagging
<1>18. CASE server = "open" /\ f.part = 2
  <2>1. received' = Append(received, f.msg) /\ toClient' = toClient /\ server' = "open"
    BY <1>18 DEF serverReceive, f
  <2>2. /\ received' \in Seq(Nat) /\ Len(received') = Len(received) + 1
        /\ \A i \in 1..Len(received) : received'[i] = received[i]
        /\ received'[Len(received) + 1] = f.msg
    BY <2>1, <1>2, <1>5, AppendProperties
  <2>3. f.tag = Len(received) + 1 /\ b + 1 = 2 * (Len(received) + 1)
    <3> DEFINE l == Len(received)
               t == f.tag
    <3>1. 2 * l <= b /\ b <= 2 * l + 1 /\ 2 * t + 2 - 2 = b + 1 /\ l \in Nat /\ t \in Nat
      BY <1>3, <1>5, <1>8, <1>10, <1>18
    <3> HIDE DEF l, t
    <3>2. t = l + 1 /\ b + 1 = 2 * (l + 1)
      BY <3>1
    <3> QED
      BY <3>2 DEF l, t
  <2>4. \A i \in 1..Len(received') : i \in 1..Len(received) \/ i = Len(received) + 1
    BY <2>2, <1>3
  <2>5. Pipe'
    <3>1. 2 * Len(received') <= b + 1 /\ b + 1 <= 2 * Len(received') + 1
      BY <2>2, <2>3, <1>3
    <3> QED
      BY <3>1, <1>1, <1>11, <1>12, <1>14 DEF Pipe
  <2>6. Tagging'
    <3>1. \A i \in 1..Len(received') : received'[i] \in 1..Len(messages) /\ messages[received'[i]].tag = i
      <4> SUFFICES ASSUME NEW i \in 1..Len(received')
                   PROVE  received'[i] \in 1..Len(messages) /\ messages[received'[i]].tag = i
        OBVIOUS
      <4>1. CASE i \in 1..Len(received)
        BY <4>1, <2>2 DEF PubInv, Tagging
      <4>2. CASE i = Len(received) + 1
        <5>1. received'[i] = f.msg /\ f.tag = i
          BY <4>2, <2>2, <2>3
        <5> QED
          BY <5>1, <1>9, <1>18
      <4> QED
        BY <4>1, <4>2, <2>4
    <3> QED
      BY <3>1, <1>1, <1>11 DEF PubInv, Tagging
  <2>7. Confirms'
    <3>1. 1..Len(received) \subseteq 1..Len(received')
      BY <2>2, <1>3
    <3>2. DOMAIN confirmed \subseteq 1..Len(received')
      BY <3>1, <1>2 DEF Confirms
    <3> QED
      <4>1. \A e, tags : Covers(e, tags)' = Covers(e, tags)
        BY DEF Covers
      <4>2. \A e : Confirming(e)' <=> Confirming(e)
        BY <1>1, <2>1 DEF Confirming, Covers, Plain, Event
      <4> QED
        BY <3>2, <4>1, <4>2, <1>1, <1>2, <2>1 DEF Confirms
  <2>8. Slots'
    <3>1. f.tag \notin DOMAIN confirmed
      BY <2>3, <1>2, <1>3 DEF Confirms
    <3>2. 1..Len(received') = 1..Len(received) \union {f.tag}
      BY <2>2, <2>3, <1>3
    <3>3. Unconfirmed' = Unconfirmed \union {f.tag}
      BY <3>1, <3>2, <1>1 DEF Unconfirmed
    <3>4. LaterTags' = LaterTags \union {f.tag}
      BY <3>3, <2>1, <1>1 DEF LaterTags
    <3>5. TagsUnderWay' = TagsUnderWay
      BY <3>4, <1>15, UnderWay
    <3> QED
      BY <3>5, <2>1, <1>1, <1>18 DEF PubInv, Slots
  <2>9. Types'
    BY <1>1, <1>2, <1>4, <2>1, <2>2 DEF Types
  <2> QED
    BY <2>5, <2>6, <2>7, <2>8, <2>9, <1>16 DEF PubInv
<1>19. CASE server = "open" /\ f.part = 1
  <2>1. received' = received /\ toClient' = toClient /\ server' = "open"
    BY <1>19 DEF serverReceive, f
  <2>2. b = 2 * Len(received) /\ b = 2 * f.tag - 2
    <3> DEFINE l == Len(received)
               t == f.tag
    <3>1. 2 * l <= b /\ b <= 2 * l + 1 /\ 2 * t + 1 - 2 = b + 1 /\ l \in Nat /\ t \in Nat
      BY <1>3, <1>5, <1>8, <1>10, <1>19
    <3> HIDE DEF l, t
    <3>2. b = 2 * l /\ b = 2 * t - 2
      BY <3>1
    <3> QED
      BY <3>2 DEF l, t
  <2>3. Pipe'
    <3>1. 2 * Len(received) <= b + 1 /\ b + 1 <= 2 * Len(received) + 1
      BY <2>2, <1>3
    <3> QED
      BY <3>1, <2>1, <1>1, <1>11, <1>12, <1>14 DEF Pipe
  <2>4. Confirms'
    BY <1>1, <1>2, <2>1, ConfirmsSame
  <2>5. Slots'
    <3> SUFFICES ASSUME Sends PROVE Slots'
      BY <1>1 DEF Slots
    <3>1. Len(toServer) > 1
      <4>1. Sent \in Nat /\ b + Len(toServer) = 2 * Sent
        BY <1>8 DEF PubInv, Waiting
      <4> DEFINE l == Len(toServer)
      <4>2. l \in Nat \ {0} /\ b + l = 2 * Sent /\ b = 2 * Len(received)
        BY <4>1, <1>3, <2>2
      <4>3. Sent \in Nat /\ Len(received) \in Nat
        BY <4>1, <1>3
      <4> HIDE DEF l
      <4>4. l # 1
        BY <4>2, <4>3
      <4>5. l > 1
        BY <4>2, <4>4
      <4> QED
        BY <4>5 DEF l
    <3>2. 1 \in 1..Len(toServer') /\ 2 \in 1..Len(toServer) /\ toServer'[1] = toServer[2]
      BY <3>1, <1>3, <1>4
    <3>3. toServer[2] \in PartType
      BY <3>2, <1>2, ElementOfSeq
    <3>4. toServer[2].part \in {1, 2} /\ toServer[2].tag \in Nat
      BY <3>2, <3>3, <1>8 DEF PartType, Open
    <3>5. 2 * toServer[2].tag + toServer[2].part - 2 = b + 2
      BY <3>2, <3>4, <1>8 DEF Continues, Place
    <3>6. toServer[2].tag = f.tag
      <4> DEFINE t == toServer[2].tag
                 q == toServer[2].part
                 u == f.tag
      <4>1. 2 * t + q - 2 = b + 2 /\ b = 2 * u - 2 /\ q \in {1, 2} /\ t \in Nat /\ u \in Nat
        BY <3>4, <3>5, <2>2, <1>5
      <4> HIDE DEF t, q, u
      <4>2. t = u
        BY <4>1
      <4> QED
        BY <4>2 DEF t, u
    <3>7. f.tag \in TagsOf(toServer')
      BY <3>2, <3>6 DEF TagsOf
    <3>8. LaterTags' = LaterTags
      BY <2>1, <1>1 DEF LaterTags, Unconfirmed
    <3>9. TagsUnderWay' = TagsUnderWay
      BY <3>7, <3>8, <1>15, UnderWay
    <3> QED
      BY <3>9, <2>1, <1>1, <1>19 DEF PubInv, Slots
  <2>6. Types'
    BY <1>1, <1>2, <1>4, <2>1 DEF Types
  <2> QED
    BY <2>1, <2>3, <2>4, <2>5, <2>6, <1>16, <1>17 DEF PubInv
<1>20. CASE server = "open" /\ f.part = 0
  <2>1. received' = received /\ toClient' = Append(toClient, Plain("close-ok")) /\ server' = "closed"
    BY <1>20 DEF serverReceive, f
  <2>2. ~Sends'
    BY <1>1, <1>13, <1>20
  <2>3. Pipe'
    <3>1. 2 * Len(received) <= b + 1
      BY <1>3, <1>8
    <3> QED
      BY <3>1, <2>1, <2>2, <1>11, <1>14 DEF Pipe
  <2> DEFINE x == Plain("close-ok")
  <2>4. x \in EventType /\ x.tags = {} /\ Confirming(x)'
    BY PlainConfirms
  <2>5. \A e : e = x => Confirming(e)'
    BY <2>4
  <2>6. \A e \in EventType : Confirming(e) => Confirming(e)'
    BY <1>1 DEF Confirming
  <2>7. \A e : Covers(e, x.tags) = {}
    BY <2>4 DEF Covers
  <2>8. DOMAIN confirmed' \subseteq 1..Len(received')
    BY <1>1, <1>2, <2>1 DEF Confirms
  <2> HIDE DEF x
  <2>9. Confirms' /\ toClient' \in Seq(EventType)
    BY <1>1, <1>2, <2>1, <2>4, <2>5, <2>6, <2>7, <2>8, ServerSays DEF x
  <2>10. Types' /\ Slots'
    BY <1>1, <1>2, <1>4, <2>1, <2>2, <2>9 DEF Types, Slots
  <2> QED
    BY <2>1, <2>3, <2>9, <2>10, <1>16, <1>17 DEF PubInv
<1>21. CASE server = "closed"
  <2>1. received' = received /\ toClient' = toClient /\ server' = "closed"
    BY <1>21 DEF serverReceive
  <2>2. Pipe'
    <3>1. 2 * Len(received) <= b + 1
      BY <1>3, <1>8
    <3> QED
      BY <3>1, <2>1, <1>1, <1>11, <1>12, <1>14 DEF Pipe
  <2>3. Confirms'
    BY <1>1, <1>2, <2>1, ConfirmsSame
  <2>4. Slots'
    <3>1. LaterTags' = LaterTags
      BY <2>1, <1>1 DEF LaterTags, Unconfirmed
    <3>2. TagsUnderWay' \subseteq TagsUnderWay
      BY <3>1, <1>15, UnderWay
    <3> QED
      BY <3>2, <2>1, <1>1 DEF PubInv, Slots
  <2>5. Types'
    BY <1>1, <1>2, <1>4, <2>1 DEF Types
  <2> QED
    BY <2>1, <2>2, <2>3, <2>4, <2>5, <1>16, <1>17 DEF PubInv
<1> QED
  BY <1>5, <1>18, <1>19, <1>20, <1>21 DEF serverReceive, f

-----------------------------------------------------------------------------
(* The invariant.                                                           *)

LEMMA PubInit == Init => PubInv
<1> SUFFICES ASSUME Init PROVE PubInv
  OBVIOUS
<1>1. /\ current = 1 /\ last = 0 /\ open = {} /\ queue = <<>> /\ task = Idle /\ messages = <<>>
      /\ toServer = <<>> /\ toClient = <<>> /\ received = <<>> /\ confirmed = <<>>
  BY DEF Init
<1>2. Len(<<>>) = 0 /\ 1..0 = {} /\ DOMAIN <<>> = {}
  OBVIOUS
<1>3. /\ Idle \in EventType /\ Idle.kind = "none" /\ Idle.tags = {} /\ Confirming(Idle)
  BY PlainConfirms DEF Idle
<1>4. Types
  BY <1>1, <1>3 DEF Types
<1>5. Sent = 0
  BY <1>1 DEF Sent
<1>6. Continues(<<>>, 0) /\ Open(<<>>) /\ Tagged(<<>>, messages)
  BY <1>2 DEF Continues, Open, Tagged
<1>7. Pipe
  BY <1>1, <1>2, <1>5, <1>6 DEF Pipe
<1>8. Waiting
  <2>1. <<>> \in Seq(PartType)
    BY EmptySeq
  <2> QED
    BY <2>1, <1>1, <1>2, <1>5, <1>6 DEF Waiting
<1>9. Tagging
  BY <1>1, <1>2, <1>6 DEF Tagging
<1>10. Confirms
  BY <1>1, <1>2, <1>3 DEF Confirms
<1>11. Slots
  BY <1>1, <1>2, <1>3 DEF Slots, TagsUnderWay, Unconfirmed
<1> QED
  BY <1>4, <1>7, <1>8, <1>9, <1>10, <1>11 DEF PubInv

LEMMA PubStep == PubInv /\ [Next]_vars => PubInv'
<1> SUFFICES ASSUME PubInv, [Next]_vars PROVE PubInv'
  OBVIOUS
<1>1. CASE publish
  BY <1>1, PublishKeeps
<1>2. CASE close
  BY <1>2, CloseKeeps
<1>3. CASE throttle
  BY <1>3, StutterKeeps DEF throttle, taskVars, serverVars
<1>4. CASE flush
  BY <1>4, FlushKeeps
<1>5. CASE connectionClose \/ connectionClosed
  BY <1>5, LinkKeeps
<1>6. CASE onConfirm
  BY <1>6, OnConfirmKeeps
<1>7. CASE nextHandler
  BY <1>7, NextHandlerKeeps
<1>8. CASE handlersDone
  BY <1>8, HandlersDoneKeeps
<1>9. CASE nextLost \/ channelError \/ channelClosed \/ connectionFail
  BY <1>9, EndingKeeps
<1>10. CASE serverReceive
  BY <1>10, ServerReceiveKeeps
<1>11. CASE serverConfirm
  BY <1>11, ServerConfirmKeeps
<1>12. CASE serverRaises
  BY <1>12, ServerRaisesKeeps
<1>13. CASE UNCHANGED vars
  BY <1>13, StutterKeeps DEF vars, layerVars, taskVars, serverVars
<1> QED
  BY <1>1, <1>2, <1>3, <1>4, <1>5, <1>6, <1>7, <1>8, <1>9, <1>10, <1>11, <1>12, <1>13
     DEF Next, Application, Library, Server

(* Every behaviour keeps the client, the frames under way and the server in *)
(* step, with any layers, windows, numbers of messages and failures.        *)
THEOREM CountingAgrees == Spec => []PubInv
<1>1. Init => PubInv
  BY PubInit
<1>2. PubInv /\ [Next]_vars => PubInv'
  BY PubStep
<1> QED
  BY <1>1, <1>2, PTL DEF Spec

(* Tagger counts as the server does: the i-th message that the server gets  *)
(* is the one that publish() gave the tag i, however many messages waited   *)
(* in the throttle and however many calls failed before.                    *)
THEOREM TagsAgree == Spec => []TagAgreement
<1>1. PubInv => TagAgreement
  BY DEF PubInv, Tagging, TagAgreement
<1> QED
  BY <1>1, CountingAgrees, PTL

(* The open tags of the throttle are the tags of the messages that are not  *)
(* confirmed yet: no slot is leaked or freed early, by single confirms,     *)
(* multiple ones or flush().                                                *)
THEOREM SlotsAreInFlight == Spec => []OpenIsInFlight
<1>1. PubInv => OpenIsInFlight
  BY DEF PubInv, Slots, OpenIsInFlight, Sends
<1> QED
  BY <1>1, CountingAgrees, PTL

-----------------------------------------------------------------------------
(* The window.                                                              *)

(* The messages that the server has not confirmed fit in the open slots.    *)
Fits ==
    Throttled /\ Sends => /\ IsFiniteSet(open) /\ IsFiniteSet(Outstanding)
                          /\ Cardinality(Outstanding) <= Cardinality(open)

LEMMA OutstandingFits == PubInv => Fits
<1> SUFFICES ASSUME PubInv, Throttled, Sends
             PROVE  /\ IsFiniteSet(open) /\ IsFiniteSet(Outstanding)
                    /\ Cardinality(Outstanding) <= Cardinality(open)
  BY DEF Fits
<1>1. TagsUnderWay \subseteq open /\ open \subseteq 1..last /\ last \in Nat
  BY DEF PubInv, Slots, Waiting
<1>2. IsFiniteSet(open)
  <2>1. IsFiniteSet(1..last)
    BY <1>1, FS_Interval
  <2> QED
    BY <2>1, <1>1, FS_Subset
<1>3. ASSUME NEW m \in Outstanding
      PROVE  m \in 1..Len(messages) /\ messages[m].tag \in open /\ messages[m].tag > 0
  <2>1. CASE \E i \in 1..Len(toServer) : m = toServer[i].msg
    <3>1. PICK i \in 1..Len(toServer) : m = toServer[i].msg
      BY <2>1
    <3>2. toServer[i].part # 0
      BY DEF PubInv, Pipe, Open
    <3>3. m \in 1..Len(messages) /\ messages[m].tag = toServer[i].tag
      BY <3>1, <3>2 DEF PubInv, Tagging, Tagged
    <3>4. toServer[i].tag \in open
      BY <1>1 DEF TagsUnderWay
    <3> QED
      BY <3>3, <3>4, <1>1
  <2>2. CASE \E t \in Unconfirmed : m = received[t]
    <3>1. PICK t \in Unconfirmed : m = received[t]
      BY <2>2
    <3>2. t \in 1..Len(received) /\ t \in open
      BY <1>1 DEF TagsUnderWay, Unconfirmed
    <3>3. m \in 1..Len(messages) /\ messages[m].tag = t
      BY <3>1, <3>2 DEF PubInv, Tagging
    <3> QED
      BY <3>2, <3>3, <1>1
  <2> QED
    BY <2>1, <2>2 DEF Outstanding
<1> DEFINE f == [m \in Outstanding |-> messages[m].tag]
<1>4. f \in Injection(Outstanding, open)
  <2>1. f \in [Outstanding -> open]
    BY <1>3
  <2>2. ASSUME NEW m \in Outstanding, NEW n \in Outstanding, f[m] = f[n] PROVE m = n
    BY <2>2, <1>3 DEF PubInv, Tagging
  <2> QED
    BY <2>1, <2>2 DEF Injection, IsInjective
<1> HIDE DEF f
<1> QED
  BY <1>2, <1>4, FS_Injection

LEMMA OutstandingFitsThen == PubInv' => Fits'
BY OutstandingFits, PTL

(* n messages leave the queue: how many that may be.                        *)
LEMMA BaseBound ==
    ASSUME PubInv, Sends, Throttled, window \in Nat, NEW e, baseConfirm(e),
           Sends', Fits', ~(toServer' = toServer)
    PROVE  Cardinality(open') <= window'
<1> DEFINE left == open \ Covers(e, open)
           room == window - Cardinality(left)
<1>1. open \subseteq 1..last /\ last \in Nat /\ toServer \in Seq(PartType)
  BY DEF PubInv, Slots, Waiting, Types
<1>2. IsFiniteSet(open)
  <2>1. IsFiniteSet(1..last)
    BY <1>1, FS_Interval
  <2> QED
    BY <2>1, <1>1, FS_Subset
<1>3. IsFiniteSet(left) /\ Cardinality(left) \in Nat
  BY <1>2, FS_Difference, FS_CardinalityType
<1>4. toServer \o <<>> = toServer
  BY <1>1, ConcatEmptySeq
<1>5. ~closeWhenDone(left, last, <<>>)
  <2>1. chan' = "open"
    BY DEF Sends
  <2> QED
    BY <2>1, <1>4, DoneMoves
<1> HIDE DEF left
<1>6. /\ room > 0 /\ window' = window
      /\ \E k \in 0..Len(queue) : FlushPoint(k, room) /\ open' = left \union NewTags(k)
  BY <1>5 DEF baseConfirm, left
<1>7. PICK k \in 0..Len(queue) : FlushPoint(k, room) /\ open' = left \union NewTags(k)
  BY <1>6
<1>8. IsFiniteSet(NewTags(k))
  <2>1. PICK n \in Nat : NewTags(k) = (last + 1)..(last + n)
    BY <1>7, FlushShape DEF PubInv
  <2> QED
    BY <2>1, <1>1, FS_Interval
<1>9. Cardinality(NewTags(k)) \in Nat /\ Cardinality(NewTags(k)) <= room
  BY <1>6, <1>7, <1>8, FS_CardinalityType DEF FlushPoint
<1>10. /\ Cardinality(open') = Cardinality(left) + Cardinality(NewTags(k)) - Cardinality(left \cap NewTags(k))
       /\ Cardinality(left \cap NewTags(k)) \in Nat
  BY <1>3, <1>7, <1>8, FS_Union, FS_Intersection, FS_CardinalityType
<1> QED
  BY <1>3, <1>6, <1>9, <1>10

(* Nothing gets to the server with a step of the server.                    *)
LEMMA ServerOutstanding ==
    ASSUME PubInv, serverReceive \/ serverConfirm
    PROVE  Outstanding' \subseteq Outstanding
<1>1. CASE serverConfirm
  <2>1. toServer' = toServer /\ received' = received
    BY <1>1 DEF serverConfirm
  <2>2. DOMAIN confirmed \subseteq DOMAIN confirmed'
    BY <1>1 DEF serverConfirm
  <2>3. Unconfirmed' \subseteq Unconfirmed
    BY <2>1, <2>2 DEF Unconfirmed
  <2> QED
    BY <2>1, <2>3 DEF Outstanding
<1>2. CASE serverReceive
  <2>1. /\ toServer # <<>> /\ toServer' = Tail(toServer) /\ confirmed' = confirmed
        /\ \/ received' = received
           \/ received' = Append(received, Head(toServer).msg)
    BY <1>2 DEF serverReceive
  <2>2. toServer \in Seq(PartType) /\ received \in Seq(Nat)
    BY DEF PubInv, Types
  <2>3. Len(toServer) \in Nat \ {0} /\ Head(toServer) = toServer[1] /\ Len(received) \in Nat
    BY <2>1, <2>2, EmptySeq, LenProperties
  <2>4. /\ Head(toServer) \in PartType /\ Len(toServer') = Len(toServer) - 1
        /\ \A i \in 1..Len(toServer') : toServer'[i] = toServer[i + 1]
    BY <2>1, <2>2, HeadTailProperties
  <2>5. 1 \in 1..Len(toServer) /\ \A i \in 1..Len(toServer') : i + 1 \in 1..Len(toServer)
    BY <2>3, <2>4
  <2>6. \A i \in 1..Len(toServer') : toServer'[i].msg \in Outstanding
    BY <2>4, <2>5 DEF Outstanding
  <2>7. ASSUME NEW t \in Unconfirmed' PROVE received'[t] \in Outstanding
    <3>1. CASE t \in Unconfirmed /\ received'[t] = received[t]
      BY <3>1 DEF Outstanding
    <3>2. CASE received'[t] = Head(toServer).msg
      BY <3>2, <2>3, <2>5 DEF Outstanding
    <3>3. CASE received' = received
      BY <3>1, <3>3, <2>1 DEF Unconfirmed
    <3>4. CASE received' = Append(received, Head(toServer).msg)
      <4>1. Head(toServer).msg \in Nat
        BY <2>4 DEF PartType
      <4>2. /\ Len(received') = Len(received) + 1
            /\ \A i \in 1..Len(received) : received'[i] = received[i]
            /\ received'[Len(received) + 1] = Head(toServer).msg
        BY <3>4, <4>1, <2>2, AppendProperties
      <4>3. t \in 1..Len(received') /\ t \notin DOMAIN confirmed
        BY <2>1 DEF Unconfirmed
      <4>4. t \in 1..Len(received) \/ t = Len(received) + 1
        BY <4>2, <4>3, <2>3
      <4> QED
        BY <4>2, <4>3, <4>4, <3>1, <3>2 DEF Unconfirmed
    <3> QED
      BY <3>3, <3>4, <2>1
  <2> QED
    BY <2>6, <2>7 DEF Outstanding
<1> QED
  BY <1>1, <1>2

LEMMA SameOutstanding ==
    ASSUME UNCHANGED <<toServer, received, confirmed>>
    PROVE  Outstanding' = Outstanding
BY DEF Outstanding, Unconfirmed

LEMMA PublishBound ==
    ASSUME PubInv, publish, Throttled, window \in Nat, toServer' # toServer
    PROVE  Cardinality(open') <= window' /\ Sends'
<1>1. PICK tag \in {0, current} : taggerPublish(Len(messages) + 1, tag)
  BY DEF publish
<1>2. direct /\ Sends /\ open' = open \union {current}
  BY <1>1 DEF taggerPublish
<1>3. UNCHANGED <<window, chan, link>>
  BY DEF publish
<1>4. /\ open \subseteq 1..last /\ last \in Nat /\ current \in Nat /\ queue \in Seq(PartType)
      /\ 2 * last + Len(queue) = 2 * (current - 1)
  BY <1>2 DEF PubInv, Slots, Waiting, Sent
<1>5. IsFiniteSet(open) /\ Cardinality(open) \in Nat
  <2>1. IsFiniteSet(1..last)
    BY <1>4, FS_Interval
  <2> QED
    BY <2>1, <1>4, FS_Subset, FS_CardinalityType
<1>6. last # current
  <2>1. Len(queue) \in Nat
    BY <1>4, LenProperties
  <2>2. last \in Nat /\ current \in Nat /\ 2 * last + Len(queue) = 2 * (current - 1)
    BY <1>4
  <2> QED
    BY <2>1, <2>2
<1>7. Cardinality(open) < window
  BY <1>2, <1>6 DEF direct
<1>8. Cardinality(open') <= Cardinality(open) + 1 /\ Cardinality(open') \in Nat
  <2>1. Cardinality(open \union {current}) = IF current \in open THEN Cardinality(open) ELSE Cardinality(open) + 1
    BY <1>5, FS_AddElement
  <2> QED
    BY <2>1, <1>2, <1>5
<1> QED
  BY <1>2, <1>3, <1>5, <1>7, <1>8 DEF Sends

(* The steps that the theorem is about.                                     *)
Overfull ==
    /\ Throttled /\ ~(Outstanding' \subseteq Outstanding) /\ chan' = "open"
    /\ ~(Cardinality(Outstanding') <= window')

LEMMA WindowStep ==
    ASSUME Flushes = {}, PubInv, PubInv', window \in Nat, Next
    PROVE  ~Overfull
<1> SUFFICES ASSUME Throttled, ~(Outstanding' \subseteq Outstanding), chan' = "open"
             PROVE  Cardinality(Outstanding') <= window'
  BY DEF Overfull
<1>1. Fits'
  BY OutstandingFitsThen
<1>2. ~UNCHANGED <<toServer, received, confirmed>>
  BY SameOutstanding
<1>3. window' \in Nat
  BY PublisherAssumption
     DEF Next, Application, Library, Server, publish, close, throttle, flush, connectionClose,
         onConfirm, nextHandler, handlersDone, nextLost, channelError, channelClosed, connectionClosed,
         serverReceive, serverConfirm, serverRaises, connectionFail, layerVars, baseConfirm
<1>4. ASSUME Sends', Cardinality(open') <= window' PROVE Cardinality(Outstanding') <= window'
  <2>1. /\ Cardinality(Outstanding') <= Cardinality(open')
        /\ IsFiniteSet(open') /\ IsFiniteSet(Outstanding')
    BY <1>1, <1>4 DEF Fits
  <2>2. Cardinality(Outstanding') \in Nat /\ Cardinality(open') \in Nat
    BY <2>1, FS_CardinalityType
  <2> QED
    BY <2>1, <2>2, <1>3, <1>4
<1>5. CASE publish
  <2>1. toServer' # toServer
    BY <1>2, <1>5 DEF publish, serverVars
  <2> QED
    BY <2>1, <1>4, <1>5, PublishBound
<1>6. ASSUME NEW e, baseConfirm(e), UNCHANGED <<link, received, confirmed>>
      PROVE  Cardinality(Outstanding') <= window'
  <2>1. toServer' # toServer
    BY <1>2, <1>6
  <2>2. Sends
    <3>1. toServer \in Seq(PartType)
      BY DEF PubInv, Types
    <3> QED
      BY <3>1, <1>6, <2>1, BaseQuiet
  <2>3. Sends'
    BY <1>6, <2>2 DEF Sends
  <2>4. Cardinality(open') <= window'
    BY <1>1, <1>6, <2>1, <2>2, <2>3, BaseBound
  <2> QED
    BY <2>3, <2>4, <1>4
<1>7. CASE onConfirm
  BY <1>2, <1>6, <1>7 DEF onConfirm, serverVars
<1>8. CASE handlersDone
  BY <1>6, <1>8 DEF handlersDone, serverVars
<1>9. CASE close
  <2>1. toServer \in Seq(PartType)
    BY DEF PubInv, Types
  <2>2. toServer \o <<>> = toServer
    BY <2>1, ConcatEmptySeq
  <2> QED
    BY <1>2, <1>9, <2>2 DEF close, channelClose, serverVars
<1>10. CASE serverReceive \/ serverConfirm
  BY <1>10, ServerOutstanding
<1>11. CASE flush
  BY <1>11 DEF flush
<1>12. CASE \/ throttle \/ connectionClose \/ nextHandler \/ nextLost \/ channelError \/ channelClosed
            \/ connectionClosed \/ serverRaises \/ connectionFail
  BY <1>2, <1>12 DEF throttle, connectionClose, nextHandler, nextLost, channelError, channelClosed,
                     connectionClosed, serverRaises, connectionFail, serverVars
<1> QED
  BY <1>5, <1>7, <1>8, <1>9, <1>10, <1>11, <1>12 DEF Next, Application, Library, Server

WindowOK == window \in Nat

LEMMA WindowTyped ==
    /\ Init => WindowOK
    /\ WindowOK /\ [Next]_vars => WindowOK'
BY PublisherAssumption
   DEF WindowOK, Init, Next, Application, Library, Server, publish, close, throttle, flush, connectionClose,
       onConfirm, nextHandler, handlersDone, nextLost, channelError, channelClosed, connectionClosed,
       serverReceive, serverConfirm, serverRaises, connectionFail, layerVars, baseConfirm, vars

(* The throttle never has more messages unconfirmed at the server than the  *)
(* window allows when it sends another one, through any changes of the      *)
(* window and whatever the server confirms at once; an application that     *)
(* calls flush() asks for more, hence the assumption.                       *)
THEOREM WindowIsKept == Flushes = {} /\ Spec => ThrottleBound
<1> SUFFICES ASSUME Flushes = {} PROVE Spec => ThrottleBound
  OBVIOUS
<1>1. Spec => []WindowOK
  BY WindowTyped, PTL DEF Spec
<1>2. PubInv /\ PubInv' /\ WindowOK /\ [Next]_vars
        => [Throttled /\ ~(Outstanding' \subseteq Outstanding) /\ chan' = "open" =>
              Cardinality(Outstanding') <= window']_vars
  BY WindowStep DEF Overfull, WindowOK
<1> QED
  BY <1>1, <1>2, CountingAgrees, PTL DEF Spec, ThrottleBound

-----------------------------------------------------------------------------
(***************************************************************************)
(* What an application is told of its messages: Truthful, ReportedOnce and *)
(* CloseAfterConfirms, for every number of messages, every window and both *)
(* with and without Throttle.                                              *)
(*                                                                         *)
(* Reliable keeps a handler for exactly the messages that are pending, and *)
(* the confirm of a tag that still has a handler is either being processed *)
(* or not read yet (Handling).  The theorems assume that the application   *)
(* does not publish where that must fail: Reliable stores the handler of   *)
(* such a call under tag 0, which every multiple confirm covers.           *)
(***************************************************************************)

Obedient == PublishClosed = FALSE

(* Handlers are for pending messages, under the tag of the message.         *)
Handled(h, ms) ==
    \A t \in DOMAIN h : /\ t \in Nat /\ t > 0 /\ h[t] \in 1..Len(ms)
                        /\ ms[h[t]].tag = t /\ ms[h[t]].outcome = "pending"

Handling ==
    /\ Handled(handlers, messages) /\ Handled(lost, messages)
    /\ DOMAIN handlers # {} => Individual
    /\ DOMAIN lost # {} => DOMAIN handlers = {} /\ chan = "closed"
    /\ task.kind \in {"ack", "nack"} => /\ chan # "closed"
                                        /\ ~task.multiple => task.tag \notin DOMAIN handlers
    /\ chan # "closed" => \A t \in DOMAIN handlers : t \in DOMAIN confirmed => t \in task.tags \union ClientTags

(* Until the channel is closed every message is pending, and then has a     *)
(* handler, or confirmed.                                                   *)
Pendings ==
    chan # "closed" =>
        \A m \in 1..Len(messages) :
            /\ messages[m].tag > 0 /\ messages[m].outcome # "error"
            /\ Individual /\ messages[m].outcome = "pending" =>
                 messages[m].tag \in DOMAIN handlers /\ handlers[messages[m].tag] = m

ReportInv == Handling /\ Pendings /\ Truthful /\ CloseAfterConfirms

-----------------------------------------------------------------------------
(* The first of a set of tags, and the report about one message.            *)

LEMMA LowestIn ==
    ASSUME NEW S, S \subseteq Nat, S # {}
    PROVE  Lowest(S) \in S
<1>1. IsWellFoundedOn(OpToRel(<, Nat), Nat)
  BY NatLessThanWellFounded
<1>2. PICK x \in S : \A y \in S : ~(<<y, x>> \in OpToRel(<, Nat))
  BY <1>1, WFMin
<1>3. ASSUME NEW y \in S PROVE x <= y
  <2>1. ~(<<y, x>> \in OpToRel(<, Nat))
    BY <1>2
  <2>2. x \in Nat /\ y \in Nat
    OBVIOUS
  <2>3. OpToRel(<, Nat) = {p \in Nat \X Nat : p[1] < p[2]}
    BY Zenon DEF OpToRel
  <2>4. ~(y < x)
    BY <2>1, <2>2, <2>3
  <2> QED
    BY <2>2, <2>4
<1> QED
  BY <1>3 DEF Lowest

LEMMA Reported ==
    ASSUME messages \in Seq(MessageType), NEW m \in 1..Len(messages), NEW o \in {"ack", "nack", "error"},
           messages' = Report(messages, m, o)
    PROVE  /\ Len(messages') = Len(messages)
           /\ \A j \in 1..Len(messages) :
                /\ messages'[j].tag = messages[j].tag
                /\ messages'[j].outcome = IF j = m THEN o ELSE messages[j].outcome
<1>1. messages[m] \in MessageType
  BY ElementOfSeq
<1> DEFINE e == [messages[m] EXCEPT !.outcome = o]
<1>2. e \in MessageType /\ e.tag = messages[m].tag /\ e.outcome = o
  BY <1>1 DEF MessageType
<1>3. messages' = [messages EXCEPT ![m] = e]
  BY DEF Report
<1> HIDE DEF e
<1>4. /\ messages' \in Seq(MessageType) /\ Len(messages') = Len(messages)
      /\ \A j \in 1..Len(messages) : messages'[j] = IF j = m THEN e ELSE messages[j]
  BY <1>2, <1>3, ExceptSeq
<1> QED
  BY <1>2, <1>4

(* A handler is called and erased: the others are for other messages.       *)
LEMMA HandledAfter ==
    ASSUME messages \in Seq(MessageType), NEW h, Handled(h, messages), NEW t \in DOMAIN h,
           NEW o \in {"ack", "nack", "error"}, messages' = Report(messages, h[t], o)
    PROVE  /\ Handled([u \in DOMAIN h \ {t} |-> h[u]], messages')
           /\ h[t] \in 1..Len(messages) /\ messages[h[t]].tag = t /\ messages[h[t]].outcome = "pending"
<1>1. h[t] \in 1..Len(messages) /\ messages[h[t]].tag = t /\ messages[h[t]].outcome = "pending"
  BY DEF Handled
<1>2. /\ Len(messages') = Len(messages)
      /\ \A j \in 1..Len(messages) :
           /\ messages'[j].tag = messages[j].tag
           /\ messages'[j].outcome = IF j = h[t] THEN o ELSE messages[j].outcome
  BY <1>1, Reported
<1>3. ASSUME NEW u \in DOMAIN h \ {t}
      PROVE  /\ u \in Nat /\ u > 0 /\ h[u] \in 1..Len(messages')
             /\ messages'[h[u]].tag = u /\ messages'[h[u]].outcome = "pending"
  <2>1. /\ u \in Nat /\ u > 0 /\ h[u] \in 1..Len(messages)
        /\ messages[h[u]].tag = u /\ messages[h[u]].outcome = "pending"
    BY DEF Handled
  <2>2. h[u] # h[t]
    BY <1>1, <2>1
  <2> QED
    BY <1>2, <2>1, <2>2
<1> QED
  BY <1>1, <1>3 DEF Handled

LEMMA AppendTags ==
    ASSUME toClient \in Seq(EventType), NEW x \in EventType, toClient' = Append(toClient, x)
    PROVE  ClientTags \subseteq ClientTags' /\ x.tags \subseteq ClientTags'
<1>1. /\ Len(toClient') = Len(toClient) + 1 /\ Len(toClient) \in Nat
      /\ \A i \in 1..Len(toClient) : toClient'[i] = toClient[i]
      /\ toClient'[Len(toClient) + 1] = x
  BY AppendProperties, LenProperties
<1>2. \A i \in 1..Len(toClient) : i \in 1..Len(toClient') /\ toClient'[i] = toClient[i]
  BY <1>1
<1>3. Len(toClient) + 1 \in 1..Len(toClient')
  BY <1>1
<1> QED
  BY <1>1, <1>2, <1>3 DEF ClientTags

-----------------------------------------------------------------------------
(* A handler is called with the confirm e.                                  *)

LEMMA HandlerKeeps ==
    ASSUME PubInv, ReportInv, chan # "closed", NEW e \in EventType, Confirming(e), e.kind \in {"ack", "nack"},
           Covers(e, DOMAIN handlers) # {}, reportHandler(e), task' = e,
           UNCHANGED <<lost, chan, confirmed>>,
           task.tags \union ClientTags \subseteq e.tags \union ClientTags',
           Covers(e, ClientTags') = {}
    PROVE  ReportInv'
<1> DEFINE t == Lowest(Covers(e, DOMAIN handlers))
<1>1. Handled(handlers, messages) /\ messages \in Seq(MessageType)
  BY DEF ReportInv, Handling, PubInv, Types
<1>2. Covers(e, DOMAIN handlers) \subseteq DOMAIN handlers
  BY DEF Covers
<1>3. DOMAIN handlers \subseteq Nat
  BY <1>1 DEF Handled
<1>4. t \in Covers(e, DOMAIN handlers)
  BY <1>2, <1>3, LowestIn
<1>5. /\ handlers' = [u \in DOMAIN handlers \ {t} |-> handlers[u]]
      /\ messages' = Report(messages, handlers[t], e.kind)
  BY DEF reportHandler
<1> HIDE DEF t
<1>6. t \in DOMAIN handlers /\ t \in Nat /\ t > 0
  BY <1>1, <1>2, <1>4 DEF Handled
<1>7. /\ Handled(handlers', messages')
      /\ handlers[t] \in 1..Len(messages) /\ messages[handlers[t]].tag = t
      /\ messages[handlers[t]].outcome = "pending"
  BY <1>1, <1>5, <1>6, HandledAfter
<1>8. /\ Len(messages') = Len(messages)
      /\ \A j \in 1..Len(messages) :
           /\ messages'[j].tag = messages[j].tag
           /\ messages'[j].outcome = IF j = handlers[t] THEN e.kind ELSE messages[j].outcome
  BY <1>1, <1>5, <1>7, Reported
<1>9. t \in DOMAIN confirmed
  <2>1. e.tag \in Nat
    BY DEF EventType
  <2>2. CASE e.multiple
    <3>1. t <= e.tag
      BY <1>4, <2>2 DEF Covers
    <3>2. t \in 1..e.tag
      BY <3>1, <2>1, <1>6
    <3> QED
      BY <3>2, <2>2 DEF Confirming
  <2>3. CASE ~e.multiple
    BY <1>4, <2>3 DEF Covers, Confirming
  <2> QED
    BY <2>2, <2>3
<1>10. t \in e.tags
  <2>1. t \in e.tags \union ClientTags'
    BY <1>6, <1>9 DEF ReportInv, Handling
  <2>2. t \notin ClientTags'
    BY <1>4 DEF Covers
  <2> QED
    BY <2>1, <2>2
<1>11. confirmed[t] = e.kind
  BY <1>10 DEF Confirming
<1>12. DOMAIN handlers' = DOMAIN handlers \ {t} /\ \A u \in DOMAIN handlers' : handlers'[u] = handlers[u]
  BY <1>5
<1>13. Handling'
  <2>1. Handled(lost, messages)'
    BY DEF ReportInv, Handling, Handled
  <2>2. (DOMAIN handlers # {} => Individual)'
    BY <1>6 DEF ReportInv, Handling
  <2>3. (DOMAIN lost # {} => DOMAIN handlers = {} /\ chan = "closed")'
    BY DEF ReportInv, Handling
  <2>4. (task.kind \in {"ack", "nack"} => /\ chan # "closed"
                                          /\ ~task.multiple => task.tag \notin DOMAIN handlers)'
    <3>1. ~e.multiple => t = e.tag
      BY <1>4 DEF Covers
    <3> QED
      BY <3>1, <1>12
  <2>5. (chan # "closed" => \A u \in DOMAIN handlers : u \in DOMAIN confirmed => u \in task.tags \union ClientTags)'
    BY <1>12 DEF ReportInv, Handling
  <2>6. Handled(handlers, messages)'
    BY <1>7 DEF Handled
  <2> QED
    BY <2>1, <2>2, <2>3, <2>4, <2>5, <2>6 DEF Handling
<1>14. Pendings'
  <2> SUFFICES ASSUME NEW m \in 1..Len(messages)
               PROVE  /\ messages'[m].tag > 0 /\ messages'[m].outcome # "error"
                      /\ Individual /\ messages'[m].outcome = "pending" =>
                           messages'[m].tag \in DOMAIN handlers' /\ handlers'[messages'[m].tag] = m
    BY <1>8 DEF Pendings
  <2>1. /\ messages[m].tag > 0 /\ messages[m].outcome # "error"
        /\ Individual /\ messages[m].outcome = "pending" =>
             messages[m].tag \in DOMAIN handlers /\ handlers[messages[m].tag] = m
    BY DEF ReportInv, Pendings
  <2>2. CASE m = handlers[t]
    BY <2>1, <2>2, <1>8
  <2>3. CASE m # handlers[t]
    BY <2>1, <2>3, <1>8, <1>12
  <2> QED
    BY <2>2, <2>3
<1>15. Truthful'
  <2> SUFFICES ASSUME NEW m \in 1..Len(messages), messages'[m].outcome \in {"ack", "nack"}
               PROVE  messages'[m].tag \in DOMAIN confirmed /\ confirmed[messages'[m].tag] = messages'[m].outcome
    BY <1>8 DEF Truthful
  <2>1. CASE m = handlers[t]
    BY <2>1, <1>7, <1>8, <1>9, <1>11
  <2>2. CASE m # handlers[t]
    BY <2>2, <1>8 DEF ReportInv, Truthful
  <2> QED
    BY <2>1, <2>2
<1>16. CloseAfterConfirms'
  <2> SUFFICES ASSUME chan = "closing", NEW m \in 1..Len(messages), messages'[m].tag > 0
               PROVE  /\ messages'[m].tag \in DOMAIN confirmed
                      /\ Individual => messages'[m].outcome # "pending"
    BY <1>8 DEF CloseAfterConfirms
  <2>1. messages[m].tag \in DOMAIN confirmed /\ (Individual => messages[m].outcome # "pending")
    BY <1>8 DEF ReportInv, CloseAfterConfirms
  <2> QED
    BY <2>1, <1>8
<1> QED
  BY <1>13, <1>14, <1>15, <1>16 DEF ReportInv

-----------------------------------------------------------------------------
(* Nothing is left to be confirmed, by the count of the outermost layer.    *)

LEMMA AllConfirmed ==
    ASSUME PubInv, ReportInv, Sends, NEW os, NEW l \in Nat, unacknowledged(handlers, os, l) = 0,
           Throttled => /\ l <= current - 1 /\ os \subseteq 1..l
                        /\ \A t \in 1..l : t \in os \/ t \in DOMAIN confirmed
    PROVE  \A m \in 1..Len(messages) : /\ messages[m].tag \in DOMAIN confirmed
                                       /\ Individual => messages[m].outcome # "pending"
<1> SUFFICES ASSUME NEW m \in 1..Len(messages)
             PROVE  /\ messages[m].tag \in DOMAIN confirmed
                    /\ Individual => messages[m].outcome # "pending"
  OBVIOUS
<1>1. messages[m] \in MessageType /\ current \in Nat /\ chan = "open"
  BY ElementOfSeq DEF PubInv, Types, Sends
<1>2. /\ messages[m].tag > 0 /\ messages[m].outcome # "error"
      /\ Individual /\ messages[m].outcome = "pending" => messages[m].tag \in DOMAIN handlers
  BY <1>1 DEF ReportInv, Pendings
<1>3. \A n \in 1..Len(messages) : messages[n].tag < current
  BY DEF PubInv, Tagging
<1>4. CASE Individual
  <2>1. DOMAIN handlers \subseteq 1..current
    <3> SUFFICES ASSUME NEW t \in DOMAIN handlers PROVE t \in 1..current
      OBVIOUS
    <3>1. /\ t \in Nat /\ t > 0 /\ t < current
      BY <1>3 DEF ReportInv, Handling, Handled
    <3> QED
      BY <3>1, <1>1
  <2>2. IsFiniteSet(DOMAIN handlers)
    <3>1. 1 \in Int /\ current \in Int
      BY <1>1
    <3>2. IsFiniteSet(1..current)
      BY <3>1, FS_Interval
    <3> QED
      BY <3>2, <2>1, FS_Subset
  <2>3. DOMAIN handlers = {}
    BY <1>4, <2>2, FS_EmptySet DEF unacknowledged
  <2>4. messages[m].outcome \in {"ack", "nack"}
    BY <1>1, <1>2, <1>4, <2>3 DEF MessageType
  <2> QED
    BY <2>4 DEF ReportInv, Truthful
<1>5. CASE ~Individual
  <2>1. Throttled
    BY <1>5, PublisherAssumption
  <2>2. Cardinality(os) + (current - l - 1) = 0
    BY <1>5 DEF unacknowledged
  <2>3. IsFiniteSet(os)
    <3>1. 1 \in Int /\ l \in Int
      OBVIOUS
    <3>2. IsFiniteSet(1..l)
      BY <3>1, FS_Interval
    <3> QED
      BY <3>2, <2>1, FS_Subset
  <2>4. Cardinality(os) \in Nat
    BY <2>3, FS_CardinalityType
  <2>5. Cardinality(os) = 0 /\ l = current - 1
    BY <1>1, <2>1, <2>2, <2>4
  <2>6. os = {}
    BY <2>3, <2>5, FS_EmptySet
  <2>7. messages[m].tag \in Nat
    BY <1>1 DEF MessageType
  <2>8. messages[m].tag \in 1..l
    <3>1. messages[m].tag < current
      BY <1>3
    <3> QED
      BY <3>1, <1>1, <1>2, <2>5, <2>7
  <2> QED
    BY <1>5, <2>1, <2>6, <2>8
<1> QED
  BY <1>4, <1>5

(* A step that leaves messages and handlers alone, and perhaps closes the   *)
(* channel when everything is confirmed.                                    *)
LEMMA SilentKeeps ==
    ASSUME ReportInv, UNCHANGED <<handlers, lost, messages, confirmed>>,
           \/ chan' = chan
           \/ /\ chan # "closed" /\ chan' = "closing"
              /\ \A m \in 1..Len(messages) : /\ messages[m].tag \in DOMAIN confirmed
                                             /\ Individual => messages[m].outcome # "pending",
           \/ task' = task
           \/ task'.kind \notin {"ack", "nack"},
           chan # "closed" => \A t \in DOMAIN handlers :
              t \in task.tags \union ClientTags => t \in task'.tags \union ClientTags'
    PROVE  ReportInv'
<1>1. chan = "closed" <=> chan' = "closed"
  OBVIOUS
<1>2. Handling'
  <2>1. Handled(handlers, messages)' /\ Handled(lost, messages)'
    BY DEF ReportInv, Handling, Handled
  <2>2. (DOMAIN handlers # {} => Individual)'
    BY DEF ReportInv, Handling
  <2>3. (DOMAIN lost # {} => DOMAIN handlers = {} /\ chan = "closed")'
    BY <1>1 DEF ReportInv, Handling
  <2>4. (task.kind \in {"ack", "nack"} => /\ chan # "closed"
                                          /\ ~task.multiple => task.tag \notin DOMAIN handlers)'
    BY <1>1 DEF ReportInv, Handling
  <2>5. (chan # "closed" => \A u \in DOMAIN handlers : u \in DOMAIN confirmed => u \in task.tags \union ClientTags)'
    BY <1>1 DEF ReportInv, Handling
  <2> QED
    BY <2>1, <2>2, <2>3, <2>4, <2>5 DEF Handling
<1>3. Pendings'
  BY <1>1 DEF ReportInv, Pendings
<1>4. Truthful'
  BY DEF ReportInv, Truthful
<1>5. CloseAfterConfirms'
  BY DEF ReportInv, CloseAfterConfirms
<1> QED
  BY <1>2, <1>3, <1>4, <1>5 DEF ReportInv

(* Throttle and Tagger have seen the confirm e.                             *)
LEMMA DoneCloses ==
    ASSUME chan # "closed", NEW os, NEW l, NEW frames, closeWhenDone(os, l, frames)
    PROVE  \/ chan' = chan
           \/ Sends /\ chan' = "closing" /\ unacknowledged(handlers, os, l) = 0
BY DEF closeWhenDone, channelClose, Sends

LEMMA BaseReports ==
    ASSUME PubInv, ReportInv, chan # "closed", NEW e \in EventType, Confirming(e), baseConfirm(e), task' = Idle,
           UNCHANGED <<handlers, lost, messages, confirmed, link, server, received>>,
           DOMAIN handlers \intersect e.tags = {},
           task.tags \union ClientTags \subseteq e.tags \union ClientTags'
    PROVE  ReportInv'
<1>1. task'.kind \notin {"ack", "nack"}
  BY PlainConfirms DEF Idle
<1>2. \/ chan' = chan
      \/ Sends /\ chan' = "closing" /\ unacknowledged(handlers, open', last') = 0
  BY DoneCloses DEF baseConfirm
<1>3. ASSUME Sends, chan' = "closing", unacknowledged(handlers, open', last') = 0
      PROVE  \A m \in 1..Len(messages) : /\ messages[m].tag \in DOMAIN confirmed
                                         /\ Individual => messages[m].outcome # "pending"
  <2>1. /\ current \in Nat /\ last \in Nat /\ queue \in Seq(PartType) /\ Len(queue) \in Nat
        /\ Throttled => 2 * last + Len(queue) = 2 * (current - 1)
    BY <1>3, LenProperties DEF PubInv, Waiting, Sent
  <2>2. PICK n \in Nat : /\ Move(n)
                         /\ Throttled => open' = (open \ Covers(e, open)) \union ((last + 1)..(last + n))
    BY <1>3, BaseMoves DEF PubInv
  <2>3. last' = last + n /\ 2 * n <= Len(queue)
    BY <2>2 DEF Move
  <2>4. last' \in Nat
    BY <2>1, <2>3
  <2>5. Throttled => last' <= current - 1
    BY <2>1, <2>3
  <2>6. Throttled => open' \subseteq 1..last' /\ \A t \in 1..last' : t \in open' \/ t \in DOMAIN confirmed
    BY <1>3, <2>2, <2>3, SlotsCovered
  <2> QED
    BY <1>3, <2>4, <2>5, <2>6, AllConfirmed
<1>4. \A t \in DOMAIN handlers : t \in task.tags \union ClientTags => t \in task'.tags \union ClientTags'
  OBVIOUS
<1> QED
  BY <1>1, <1>2, <1>3, <1>4, SilentKeeps

LEMMA CloseReports ==
    ASSUME PubInv, ReportInv, close
    PROVE  ReportInv'
<1>1. UNCHANGED <<handlers, lost, messages, confirmed, task, toClient>>
  BY DEF close, layerVars, taskVars, serverVars
<1>2. ClientTags' = ClientTags
  BY <1>1 DEF ClientTags
<1>3. \/ chan' = chan
      \/ Sends /\ chan' = "closing" /\ unacknowledged(handlers, open, last) = 0
  BY DEF close, channelClose, Sends
<1>4. ASSUME Sends, unacknowledged(handlers, open, last) = 0
      PROVE  \A m \in 1..Len(messages) : /\ messages[m].tag \in DOMAIN confirmed
                                         /\ Individual => messages[m].outcome # "pending"
  <2>1. /\ current \in Nat /\ last \in Nat /\ queue \in Seq(PartType) /\ Len(queue) \in Nat
        /\ Throttled => 2 * last + Len(queue) = 2 * (current - 1)
    BY <1>4, LenProperties DEF PubInv, Waiting, Sent
  <2>2. Throttled => last <= current - 1
    BY <2>1
  <2>3. Throttled => open \subseteq 1..last /\ \A t \in 1..last : t \in open \/ t \in DOMAIN confirmed
    BY <1>4 DEF PubInv, Slots
  <2> QED
    BY <1>4, <2>1, <2>2, <2>3, AllConfirmed
<1>5. Sends => chan # "closed"
  BY DEF Sends
<1> QED
  BY <1>1, <1>2, <1>3, <1>4, <1>5, SilentKeeps

-----------------------------------------------------------------------------
(* publish() stores a handler under a tag that no confirm is about yet.     *)

LEMMA TagIsNew ==
    ASSUME PubInv, Sends
    PROVE  Len(received) \in Nat /\ current \in Nat /\ Len(received) < current
<1>1. received \in Seq(Nat) /\ toServer \in Seq(PartType) /\ current \in Nat
  BY DEF PubInv, Types
<1>2. PICK b \in Nat : 2 * Len(received) <= b /\ b + Len(toServer) = 2 * Sent
  BY DEF PubInv, Pipe
<1>3. Sent \in Nat /\ queue \in Seq(PartType) /\ 2 * Sent + Len(queue) = 2 * (current - 1)
  BY DEF PubInv, Waiting
<1>4. Len(received) \in Nat /\ Len(toServer) \in Nat /\ Len(queue) \in Nat
  BY <1>1, <1>3, LenProperties
<1> DEFINE r == Len(received)
           s == Len(toServer)
           q == Len(queue)
<1>5. /\ r \in Nat /\ s \in Nat /\ q \in Nat /\ current \in Nat /\ Sent \in Nat
      /\ 2 * r <= b /\ b + s = 2 * Sent /\ 2 * Sent + q = 2 * (current - 1)
  BY <1>1, <1>2, <1>3, <1>4
<1> HIDE DEF r, s, q
<1>6. r < current
  BY <1>5
<1> QED
  BY <1>5, <1>6 DEF r

LEMMA PublishReports ==
    ASSUME Obedient, PubInv, ReportInv, publish
    PROVE  ReportInv'
<1> DEFINE m == Len(messages) + 1
           x(tag) == [tag |-> tag, outcome |-> IF tag = 0 THEN "error" ELSE "pending"]
<1>1. PICK tag \in {0, current} :
        /\ taggerPublish(m, tag)
        /\ handlers' = IF Individual
                         THEN [t \in DOMAIN handlers \union {tag} |-> IF t = tag THEN m ELSE handlers[t]]
                         ELSE handlers
        /\ messages' = Append(messages, x(tag))
  BY DEF publish
<1>2. ~closing /\ Sends
  BY DEF publish, Obedient
<1>3. UNCHANGED <<task, lost, toClient, confirmed, chan>> /\ chan = "open"
  BY <1>2 DEF publish, taskVars, serverVars, Sends
<1>4. ClientTags' = ClientTags
  BY <1>3 DEF ClientTags
<1>5. messages \in Seq(MessageType) /\ Len(messages) \in Nat /\ task \in EventType
  BY LenProperties DEF PubInv, Types
<1>6. Len(received) \in Nat /\ current \in Nat /\ Len(received) < current
  BY <1>2, TagIsNew
<1>7. tag = current /\ current > 0
  <2>1. tag = current
    BY <1>1, <1>2 DEF taggerPublish, Sends, usable
  <2> QED
    BY <2>1, <1>6
<1>8. x(tag) \in MessageType /\ x(tag).tag = current /\ x(tag).outcome = "pending"
  BY <1>6, <1>7 DEF MessageType
<1>9. current \notin DOMAIN confirmed
  BY <1>6 DEF PubInv, Confirms
<1>10. /\ Len(messages') = Len(messages) + 1
       /\ \A i \in 1..Len(messages) : messages'[i] = messages[i]
       /\ messages'[m] = x(tag)
       /\ m \in 1..Len(messages')
  BY <1>1, <1>5, <1>8, AppendKeeps
<1>11. \A i \in 1..Len(messages') : i \in 1..Len(messages) \/ i = m
  BY <1>5, <1>10
<1> HIDE DEF m, x
<1>12. \A t \in DOMAIN handlers : t # current
  BY <1>2, <1>6 DEF ReportInv, Handling, Handled, PubInv, Tagging
<1>13. \/ /\ Individual
          /\ DOMAIN handlers' = DOMAIN handlers \union {current} /\ handlers'[current] = m
          /\ \A t \in DOMAIN handlers : handlers'[t] = handlers[t]
       \/ ~Individual /\ handlers' = handlers
  BY <1>1, <1>7, <1>12
<1>14. Handling'
  <2>1. Handled(handlers, messages)'
    <3> SUFFICES ASSUME NEW t \in DOMAIN handlers'
                 PROVE  /\ t \in Nat /\ t > 0 /\ handlers'[t] \in 1..Len(messages')
                        /\ messages'[handlers'[t]].tag = t /\ messages'[handlers'[t]].outcome = "pending"
      BY DEF Handled
    <3>1. CASE t \in DOMAIN handlers
      <4>1. handlers'[t] = handlers[t]
        BY <1>13, <3>1
      <4>2. /\ t \in Nat /\ t > 0 /\ handlers[t] \in 1..Len(messages)
            /\ messages[handlers[t]].tag = t /\ messages[handlers[t]].outcome = "pending"
        BY <3>1 DEF ReportInv, Handling, Handled
      <4>3. 1..Len(messages) \subseteq 1..Len(messages')
        BY <1>5, <1>10
      <4> QED
        BY <4>1, <4>2, <4>3, <1>10
    <3>2. CASE t \notin DOMAIN handlers
      <4>1. t = current /\ handlers'[t] = m
        BY <1>13, <3>2
      <4> QED
        BY <4>1, <1>6, <1>7, <1>8, <1>10
    <3> QED
      BY <3>1, <3>2
  <2>2. Handled(lost, messages)'
    BY <1>3 DEF ReportInv, Handling, Handled
  <2>3. (DOMAIN handlers # {} => Individual)'
    BY <1>13 DEF ReportInv, Handling
  <2>4. (DOMAIN lost # {} => DOMAIN handlers = {} /\ chan = "closed")'
    BY <1>3 DEF ReportInv, Handling
  <2>5. (task.kind \in {"ack", "nack"} => /\ chan # "closed"
                                          /\ ~task.multiple => task.tag \notin DOMAIN handlers)'
    <3>1. task.kind \in {"ack", "nack"} => task.tag \in DOMAIN confirmed
      BY DEF PubInv, Confirms, Confirming
    <3>2. task.kind \in {"ack", "nack"} => task.tag # current
      BY <3>1, <1>9
    <3> QED
      BY <3>2, <1>3, <1>13 DEF ReportInv, Handling
  <2>6. (chan # "closed" => \A u \in DOMAIN handlers : u \in DOMAIN confirmed => u \in task.tags \union ClientTags)'
    BY <1>3, <1>4, <1>9, <1>13 DEF ReportInv, Handling
  <2> QED
    BY <2>1, <2>2, <2>3, <2>4, <2>5, <2>6 DEF Handling
<1>15. Pendings'
  <2> SUFFICES ASSUME NEW i \in 1..Len(messages')
               PROVE  /\ messages'[i].tag > 0 /\ messages'[i].outcome # "error"
                      /\ Individual /\ messages'[i].outcome = "pending" =>
                           messages'[i].tag \in DOMAIN handlers' /\ handlers'[messages'[i].tag] = i
    BY DEF Pendings
  <2>1. CASE i \in 1..Len(messages)
    BY <2>1, <1>3, <1>10, <1>13 DEF ReportInv, Pendings
  <2>2. CASE i = m
    BY <2>2, <1>7, <1>8, <1>10, <1>13
  <2> QED
    BY <2>1, <2>2, <1>11
<1>16. Truthful'
  <2> SUFFICES ASSUME NEW i \in 1..Len(messages'), messages'[i].outcome \in {"ack", "nack"}
               PROVE  messages'[i].tag \in DOMAIN confirmed /\ confirmed[messages'[i].tag] = messages'[i].outcome
    BY <1>3 DEF Truthful
  <2>1. i \in 1..Len(messages)
    BY <1>8, <1>10, <1>11
  <2> QED
    BY <2>1, <1>10 DEF ReportInv, Truthful
<1>17. CloseAfterConfirms'
  BY <1>3 DEF CloseAfterConfirms
<1> QED
  BY <1>14, <1>15, <1>16, <1>17 DEF ReportInv

-----------------------------------------------------------------------------
(* Confirms.                                                                *)

LEMMA OnConfirmReports ==
    ASSUME PubInv, ReportInv, onConfirm
    PROVE  ReportInv'
<1> DEFINE e == Head(toClient)
<1>1. /\ toClient # <<>> /\ toClient' = Tail(toClient) /\ task = Idle /\ chan # "closed"
      /\ e.kind \in {"ack", "nack"}
      /\ UNCHANGED <<lost, link, server, received, confirmed>>
  BY DEF onConfirm, Receive, serverVars
<1>2. /\ e \in EventType /\ Confirming(e)
      /\ ClientTags = ClientTags' \union e.tags
      /\ Covers(e, ClientTags') = {}
  BY <1>1, HeadTags DEF PubInv
<1>3. task.tags = {}
  BY <1>1, PlainConfirms DEF Idle
<1>4. task.tags \union ClientTags \subseteq e.tags \union ClientTags'
  BY <1>2, <1>3
<1>5. CASE Covers(e, DOMAIN handlers) # {} /\ reportHandler(e) /\ task' = e /\ chan' = chan
  <2> HIDE DEF e
  <2> QED
    BY <1>1, <1>2, <1>4, <1>5, HandlerKeeps
<1>6. CASE Covers(e, DOMAIN handlers) = {} /\ baseConfirm(e) /\ UNCHANGED <<handlers, messages, task>>
  <2>1. DOMAIN handlers \intersect e.tags = {}
    <3> SUFFICES ASSUME NEW t \in DOMAIN handlers, t \in e.tags PROVE FALSE
      OBVIOUS
    <3>1. t \in Covers(e, e.tags)
      BY <1>2 DEF Confirming
    <3>2. t \in Covers(e, DOMAIN handlers)
      BY <3>1 DEF Covers
    <3> QED
      BY <3>2, <1>6
  <2>2. task' = Idle
    BY <1>1, <1>6
  <2> HIDE DEF e
  <2> QED
    BY <1>1, <1>2, <1>4, <1>6, <2>1, <2>2, BaseReports
<1> QED
  BY <1>5, <1>6 DEF onConfirm

LEMMA TaskTags ==
    ASSUME PubInv
    PROVE  Covers(task, ClientTags) = {}
<1>1. \A i \in 1..Len(toClient) : Covers(task, toClient[i].tags) = {}
  BY DEF PubInv, Confirms
<1> QED
  BY <1>1 DEF Covers, ClientTags

LEMMA NextHandlerReports ==
    ASSUME PubInv, ReportInv, nextHandler
    PROVE  ReportInv'
<1>1. /\ task.kind \in {"ack", "nack"} /\ Covers(task, DOMAIN handlers) # {} /\ reportHandler(task)
      /\ UNCHANGED <<lost, task, chan, toClient, confirmed>>
  BY DEF nextHandler, taskVars, serverVars
<1>2. chan # "closed"
  BY <1>1 DEF ReportInv, Handling
<1>3. task \in EventType /\ Confirming(task) /\ task' = task
  BY <1>1 DEF PubInv, Types, Confirms
<1>4. ClientTags' = ClientTags
  BY <1>1 DEF ClientTags
<1>5. Covers(task, ClientTags') = {}
  BY <1>4, TaskTags
<1> QED
  BY <1>1, <1>2, <1>3, <1>4, <1>5, HandlerKeeps

LEMMA HandlersDoneReports ==
    ASSUME PubInv, ReportInv, handlersDone
    PROVE  ReportInv'
<1>1. /\ task.kind \in {"ack", "nack"} /\ baseConfirm(task) /\ task' = Idle
      /\ task.multiple => Covers(task, DOMAIN handlers) = {}
      /\ UNCHANGED <<handlers, lost, messages, link, toClient, server, received, confirmed>>
  BY DEF handlersDone, serverVars
<1>2. chan # "closed" /\ (~task.multiple => task.tag \notin DOMAIN handlers)
  BY <1>1 DEF ReportInv, Handling
<1>3. task \in EventType /\ Confirming(task)
  BY DEF PubInv, Types, Confirms
<1>4. ClientTags' = ClientTags
  BY <1>1 DEF ClientTags
<1>5. DOMAIN handlers \intersect task.tags = {}
  <2>1. CASE task.multiple
    <3> SUFFICES ASSUME NEW t \in DOMAIN handlers, t \in task.tags PROVE FALSE
      OBVIOUS
    <3>1. t \in Covers(task, task.tags)
      BY <1>3 DEF Confirming
    <3>2. t \in Covers(task, DOMAIN handlers)
      BY <3>1 DEF Covers
    <3> QED
      BY <3>2, <2>1, <1>1
  <2>2. CASE ~task.multiple
    BY <2>2, <1>1, <1>2, <1>3 DEF Confirming
  <2> QED
    BY <2>1, <2>2
<1> QED
  BY <1>1, <1>2, <1>3, <1>4, <1>5, BaseReports

-----------------------------------------------------------------------------
(* The server confirms: the confirm is among those to be read.              *)

LEMMA ServerConfirmReports ==
    ASSUME PubInv, ReportInv, serverConfirm
    PROVE  ReportInv'
<1>1. UNCHANGED <<handlers, task, lost, messages, chan>>
  BY DEF serverConfirm, layerVars, taskVars
<1>2. PICK t \in Unconfirmed, multiple \in BOOLEAN, kind \in {"ack", "nack"} :
         LET tags == IF multiple THEN {u \in Unconfirmed : u <= t} ELSE {t}
         IN  /\ toClient' = Append(toClient, Event(kind, t, multiple, tags))
             /\ confirmed' = [u \in DOMAIN confirmed \union tags |->
                                IF u \in tags THEN kind ELSE confirmed[u]]
  BY DEF serverConfirm
<1> DEFINE tags == IF multiple THEN {u \in Unconfirmed : u <= t} ELSE {t}
           x == Event(kind, t, multiple, tags)
<1>3. /\ toClient' = Append(toClient, x)
      /\ confirmed' = [u \in DOMAIN confirmed \union tags |-> IF u \in tags THEN kind ELSE confirmed[u]]
  BY <1>2
<1>4. received \in Seq(Nat) /\ Len(received) \in Nat /\ toClient \in Seq(EventType)
  BY LenProperties DEF PubInv, Types
<1>5. tags \subseteq Unconfirmed
  OBVIOUS
<1>6. Unconfirmed \subseteq Nat /\ Unconfirmed \intersect DOMAIN confirmed = {}
  BY <1>4 DEF Unconfirmed
<1>7. x \in EventType /\ x.tags = tags
  <2>1. tags \in SUBSET Nat /\ t \in Nat
    BY <1>5, <1>6
  <2> QED
    BY <2>1 DEF Event, EventType
<1> HIDE DEF tags, x
<1>8. /\ DOMAIN confirmed' = DOMAIN confirmed \union tags
      /\ \A u \in DOMAIN confirmed : confirmed'[u] = confirmed[u]
  BY <1>3, <1>5, <1>6
<1>9. ClientTags \subseteq ClientTags' /\ tags \subseteq ClientTags'
  BY <1>3, <1>4, <1>7, AppendTags
<1>10. Handling'
  <2>1. Handled(handlers, messages)' /\ Handled(lost, messages)'
    BY <1>1 DEF ReportInv, Handling, Handled
  <2>2. (DOMAIN handlers # {} => Individual)'
    BY <1>1 DEF ReportInv, Handling
  <2>3. (DOMAIN lost # {} => DOMAIN handlers = {} /\ chan = "closed")'
    BY <1>1 DEF ReportInv, Handling
  <2>4. (task.kind \in {"ack", "nack"} => /\ chan # "closed"
                                          /\ ~task.multiple => task.tag \notin DOMAIN handlers)'
    BY <1>1 DEF ReportInv, Handling
  <2>5. (chan # "closed" => \A u \in DOMAIN handlers : u \in DOMAIN confirmed => u \in task.tags \union ClientTags)'
    BY <1>1, <1>8, <1>9 DEF ReportInv, Handling
  <2> QED
    BY <2>1, <2>2, <2>3, <2>4, <2>5 DEF Handling
<1>11. Pendings'
  BY <1>1 DEF ReportInv, Pendings
<1>12. Truthful'
  BY <1>1, <1>8 DEF ReportInv, Truthful
<1>13. CloseAfterConfirms'
  BY <1>1, <1>8 DEF ReportInv, CloseAfterConfirms
<1> QED
  BY <1>10, <1>11, <1>12, <1>13 DEF ReportInv

(* Other frames of the server, and calls that do not touch the messages.    *)
LEMMA QuietReports ==
    ASSUME PubInv, ReportInv, UNCHANGED <<handlers, lost, messages, confirmed, chan, task>>,
           \/ toClient' = toClient
           \/ \E kind \in {"close", "close-ok"} : toClient' = Append(toClient, Plain(kind))
    PROVE  ReportInv'
<1>1. ClientTags \subseteq ClientTags'
  <2>1. CASE toClient' = toClient
    BY <2>1 DEF ClientTags
  <2>2. ASSUME NEW kind \in {"close", "close-ok"}, toClient' = Append(toClient, Plain(kind))
        PROVE  ClientTags \subseteq ClientTags'
    <3>1. Plain(kind) \in EventType /\ toClient \in Seq(EventType)
      BY PlainConfirms DEF PubInv, Types
    <3> QED
      BY <3>1, <2>2, AppendTags
  <2> QED
    BY <2>1, <2>2
<1> QED
  BY <1>1, SilentKeeps

-----------------------------------------------------------------------------
(* The end of the channel.                                                  *)

LEMMA LostReports ==
    ASSUME PubInv, ReportInv, NEW hs, Handled(hs, messages), reportLost(hs),
           hs = lost \/ DOMAIN lost = {},
           chan' = "closed", confirmed' = confirmed, DOMAIN handlers' = {}
    PROVE  ReportInv'
<1>1. messages \in Seq(MessageType)
  BY DEF PubInv, Types
<1>2. task' = Idle \/ task' = Plain("error")
  BY DEF reportLost
<1>3. task'.kind \notin {"ack", "nack"}
  BY <1>2, PlainConfirms DEF Idle
<1>4. /\ Handled(lost', messages')
      /\ \A m \in 1..Len(messages') : /\ m \in 1..Len(messages) /\ messages'[m].tag = messages[m].tag
                                      /\ messages'[m].outcome \in {messages[m].outcome, "error"}
  <2>1. CASE messages' = messages /\ lost' = lost
    BY <2>1 DEF ReportInv, Handling
  <2>2. CASE DOMAIN hs # {}
    <3> DEFINE t == Lowest(DOMAIN hs)
    <3>1. DOMAIN hs \subseteq Nat
      BY DEF Handled
    <3>2. t \in DOMAIN hs
      BY <2>2, <3>1, LowestIn
    <3>3. messages' = Report(messages, hs[t], "error") /\ lost' = [u \in DOMAIN hs \ {t} |-> hs[u]]
      BY <2>2 DEF reportLost
    <3> HIDE DEF t
    <3>4. Handled(lost', messages') /\ hs[t] \in 1..Len(messages)
      BY <1>1, <3>2, <3>3, HandledAfter
    <3>5. /\ Len(messages') = Len(messages)
          /\ \A j \in 1..Len(messages) :
               /\ messages'[j].tag = messages[j].tag
               /\ messages'[j].outcome = IF j = hs[t] THEN "error" ELSE messages[j].outcome
      BY <1>1, <3>3, <3>4, Reported
    <3> QED
      BY <3>4, <3>5
  <2> QED
    BY <2>1, <2>2 DEF reportLost
<1>5. Handling'
  <2>1. Handled(handlers, messages)' /\ Handled(lost, messages)'
    BY <1>4 DEF Handled
  <2> QED
    BY <2>1, <1>3 DEF Handling
<1>6. Pendings' /\ CloseAfterConfirms'
  BY DEF Pendings, CloseAfterConfirms
<1>7. Truthful'
  BY <1>4 DEF ReportInv, Truthful
<1> QED
  BY <1>5, <1>6, <1>7 DEF ReportInv

LEMMA EndingReports ==
    ASSUME PubInv, ReportInv, nextLost \/ channelError \/ channelClosed \/ connectionFail
    PROVE  ReportInv'
<1>1. /\ Handled(handlers, messages) /\ Handled(lost, messages)
      /\ DOMAIN lost # {} => DOMAIN handlers = {} /\ chan = "closed"
  BY DEF ReportInv, Handling
<1>2. ASSUME reportError, chan # "closed", confirmed' = confirmed PROVE ReportInv'
  <2>1. /\ chan' = "closed" /\ reportLost(handlers) /\ handlers' = <<>>
    BY <1>2 DEF reportError
  <2>2. DOMAIN handlers' = {} /\ DOMAIN lost = {}
    BY <2>1, <1>1, <1>2
  <2> QED
    BY <2>1, <2>2, <1>1, <1>2, LostReports
<1>3. CASE nextLost
  <2>1. /\ task.kind = "error" /\ reportLost(lost) /\ UNCHANGED <<handlers, chan, confirmed>>
    BY <1>3 DEF nextLost, serverVars
  <2>2. chan = "closed"
    BY <2>1 DEF PubInv, Types
  <2>3. CASE DOMAIN handlers = {}
    BY <2>1, <2>2, <2>3, <1>1, LostReports
  <2>4. CASE DOMAIN handlers # {}
    <3>1. DOMAIN lost = {}
      BY <2>4, <1>1
    <3>2. UNCHANGED <<messages, lost>> /\ task' = Idle
      BY <2>1, <3>1 DEF reportLost
    <3>3. task'.kind \notin {"ack", "nack"}
      BY <3>2, PlainConfirms DEF Idle
    <3> QED
      BY <2>1, <2>2, <3>2, <3>3, SilentKeeps
  <2> QED
    BY <2>3, <2>4
<1>4. CASE channelError
  BY <1>2, <1>4 DEF channelError, Receive, serverVars
<1>5. CASE channelClosed
  <2>1. /\ chan' = "closed" /\ chan # "closed" /\ task = Idle
        /\ UNCHANGED <<handlers, task, lost, messages, confirmed>>
    BY <1>5 DEF channelClosed, Receive, taskVars, layerVars, serverVars
  <2>2. task'.kind \notin {"ack", "nack"}
    BY <2>1, PlainConfirms DEF Idle
  <2>3. Handling'
    <3>1. Handled(handlers, messages)' /\ Handled(lost, messages)'
      BY <2>1, <1>1 DEF Handled
    <3>2. (DOMAIN handlers # {} => Individual)' /\ DOMAIN lost' = {}
      BY <2>1, <1>1 DEF ReportInv, Handling
    <3> QED
      BY <3>1, <3>2, <2>1, <2>2 DEF Handling
  <2>4. Truthful'
    BY <2>1 DEF ReportInv, Truthful
  <2>5. Pendings' /\ CloseAfterConfirms'
    BY <2>1 DEF Pendings, CloseAfterConfirms
  <2> QED
    BY <2>3, <2>4, <2>5 DEF ReportInv
<1>6. CASE connectionFail
  <2>1. toClient' = toClient /\ confirmed' = confirmed
    BY <1>6 DEF connectionFail, serverVars
  <2>2. CASE chan # "closed" /\ reportError
    BY <2>1, <2>2, <1>2
  <2>3. CASE chan = "closed" /\ UNCHANGED <<handlers, task, lost, messages, chan>>
    BY <2>1, <2>3, QuietReports
  <2> QED
    BY <1>6, <2>2, <2>3 DEF connectionFail, taskVars
<1> QED
  BY <1>3, <1>4, <1>5, <1>6

-----------------------------------------------------------------------------
(* What the application is told.                                            *)

LEMMA ReportInit == Init => ReportInv
<1> SUFFICES ASSUME Init PROVE ReportInv
  OBVIOUS
<1>1. /\ handlers = <<>> /\ lost = <<>> /\ messages = <<>> /\ chan = "open" /\ task = Idle
  BY DEF Init
<1>2. Len(<<>>) = 0 /\ 1..0 = {} /\ DOMAIN <<>> = {}
  OBVIOUS
<1>3. Idle.kind = "none"
  BY PlainConfirms DEF Idle
<1>4. Handling
  BY <1>1, <1>2, <1>3 DEF Handling, Handled
<1>5. Pendings /\ Truthful /\ CloseAfterConfirms
  BY <1>1, <1>2 DEF Pendings, Truthful, CloseAfterConfirms
<1> QED
  BY <1>4, <1>5 DEF ReportInv

LEMMA ReportStep ==
    ASSUME Obedient
    PROVE  PubInv /\ ReportInv /\ [Next]_vars => ReportInv'
<1> SUFFICES ASSUME PubInv, ReportInv, [Next]_vars PROVE ReportInv'
  OBVIOUS
<1>1. CASE publish
  BY <1>1, PublishReports
<1>2. CASE close
  BY <1>2, CloseReports
<1>3. CASE throttle \/ flush \/ connectionClose \/ connectionClosed
  <2>1. UNCHANGED <<handlers, lost, messages, confirmed, chan, task, toClient>>
    BY <1>3 DEF throttle, flush, connectionClose, connectionClosed, layerVars, taskVars, serverVars
  <2> QED
    BY <2>1, QuietReports
<1>4. CASE onConfirm
  BY <1>4, OnConfirmReports
<1>5. CASE nextHandler
  BY <1>5, NextHandlerReports
<1>6. CASE handlersDone
  BY <1>6, HandlersDoneReports
<1>7. CASE nextLost \/ channelError \/ channelClosed \/ connectionFail
  BY <1>7, EndingReports
<1>8. CASE serverReceive \/ serverRaises
  <2>1. UNCHANGED <<handlers, lost, messages, confirmed, chan, task>>
    BY <1>8 DEF serverReceive, serverRaises, layerVars, taskVars
  <2>2. toClient' = toClient \/ \E kind \in {"close", "close-ok"} : toClient' = Append(toClient, Plain(kind))
    BY <1>8 DEF serverReceive, serverRaises
  <2> QED
    BY <2>1, <2>2, QuietReports
<1>9. CASE serverConfirm
  BY <1>9, ServerConfirmReports
<1>10. CASE UNCHANGED vars
  BY <1>10, QuietReports DEF vars, layerVars, taskVars, serverVars
<1> QED
  BY <1>1, <1>2, <1>3, <1>4, <1>5, <1>6, <1>7, <1>8, <1>9, <1>10
     DEF Next, Application, Library, Server

(* Reliable keeps a handler for exactly the messages that have no outcome,  *)
(* from publish() to the confirm or the error, whatever mixture of single   *)
(* and multiple confirms the server sends and whatever the application does *)
(* in the callbacks.                                                        *)
THEOREM HandlersArePending == Obedient /\ Spec => []ReportInv
<1> SUFFICES ASSUME Obedient PROVE Spec => []ReportInv
  OBVIOUS
<1>1. Init => ReportInv
  BY ReportInit
<1>2. PubInv /\ ReportInv /\ [Next]_vars => ReportInv'
  BY ReportStep
<1> QED
  BY <1>1, <1>2, CountingAgrees, PTL DEF Spec

(* The ack or nack that Reliable::onAck or onNack reports for a message is  *)
(* the server's verdict on that message.                                    *)
THEOREM ReportsAreTrue == Obedient /\ Spec => []Truthful
<1>1. ReportInv => Truthful
  BY DEF ReportInv
<1> QED
  BY <1>1, HandlersArePending, PTL

(* Tagger::close lets the channel go only when every message was sent and   *)
(* confirmed, those that waited in the throttle included.                   *)
THEOREM ClosesAfterTheLast == Obedient /\ Spec => []CloseAfterConfirms
<1>1. ReportInv => CloseAfterConfirms
  BY DEF ReportInv
<1> QED
  BY <1>1, HandlersArePending, PTL

-----------------------------------------------------------------------------
(* A report is final.                                                       *)

ReportsKept ==
    \A m \in 1..Len(messages) :
        messages[m].outcome # "pending" => messages'[m].outcome = messages[m].outcome

LEMMA ReportFinal ==
    ASSUME messages \in Seq(MessageType), NEW h, Handled(h, messages), NEW T, T \subseteq DOMAIN h, T # {},
           NEW o \in {"ack", "nack", "error"}, messages' = Report(messages, h[Lowest(T)], o)
    PROVE  ReportsKept
<1>1. T \subseteq Nat
  BY DEF Handled
<1>2. Lowest(T) \in DOMAIN h
  BY <1>1, LowestIn
<1>3. h[Lowest(T)] \in 1..Len(messages) /\ messages[h[Lowest(T)]].outcome = "pending"
  BY <1>2 DEF Handled
<1>4. \A j \in 1..Len(messages) :
        messages'[j].outcome = IF j = h[Lowest(T)] THEN o ELSE messages[j].outcome
  BY <1>3, Reported
<1> QED
  BY <1>3, <1>4 DEF ReportsKept

LEMMA ReportsStep ==
    ASSUME PubInv, ReportInv, [Next]_vars
    PROVE  ReportsKept
<1>1. messages \in Seq(MessageType) /\ Handled(handlers, messages) /\ Handled(lost, messages)
  BY DEF PubInv, Types, ReportInv, Handling
<1>2. CASE messages' = messages
  BY <1>2 DEF ReportsKept
<1>3. CASE publish
  <2>1. PICK tag \in {0, current} :
          messages' = Append(messages, [tag |-> tag, outcome |-> IF tag = 0 THEN "error" ELSE "pending"])
    BY <1>3 DEF publish
  <2>2. [tag |-> tag, outcome |-> IF tag = 0 THEN "error" ELSE "pending"] \in MessageType
    BY DEF MessageType, PubInv, Types
  <2>3. \A i \in 1..Len(messages) : messages'[i] = messages[i]
    BY <1>1, <2>1, <2>2, AppendKeeps
  <2> QED
    BY <2>3 DEF ReportsKept
<1>4. ASSUME NEW e, e.kind \in {"ack", "nack"}, Covers(e, DOMAIN handlers) # {}, reportHandler(e)
      PROVE  ReportsKept
  <2>1. Covers(e, DOMAIN handlers) \subseteq DOMAIN handlers
    BY DEF Covers
  <2>2. messages' = Report(messages, handlers[Lowest(Covers(e, DOMAIN handlers))], e.kind)
    BY <1>4 DEF reportHandler
  <2> QED
    BY <1>1, <1>4, <2>1, <2>2, ReportFinal
<1>5. CASE onConfirm
  <2>1. Head(toClient).kind \in {"ack", "nack"}
    BY <1>5 DEF onConfirm, Receive
  <2> QED
    BY <1>2, <1>4, <1>5, <2>1 DEF onConfirm
<1>6. CASE nextHandler
  BY <1>4, <1>6 DEF nextHandler
<1>7. ASSUME NEW hs, Handled(hs, messages), reportLost(hs) PROVE ReportsKept
  <2>1. CASE DOMAIN hs # {}
    <3>1. messages' = Report(messages, hs[Lowest(DOMAIN hs)], "error")
      BY <1>7, <2>1 DEF reportLost
    <3> QED
      BY <1>1, <1>7, <2>1, <3>1, ReportFinal
  <2>2. CASE DOMAIN hs = {}
    BY <1>2, <1>7, <2>2 DEF reportLost
  <2> QED
    BY <2>1, <2>2
<1>8. CASE nextLost
  BY <1>1, <1>7, <1>8 DEF nextLost
<1>9. CASE channelError
  BY <1>1, <1>7, <1>9 DEF channelError, reportError
<1>10. CASE connectionFail
  BY <1>1, <1>2, <1>7, <1>10 DEF connectionFail, reportError
<1>11. CASE \/ close \/ throttle \/ flush \/ connectionClose \/ handlersDone \/ channelClosed
            \/ connectionClosed \/ serverReceive \/ serverConfirm \/ serverRaises \/ UNCHANGED vars
  BY <1>2, <1>11 DEF close, throttle, flush, connectionClose, handlersDone, channelClosed,
                     connectionClosed, serverReceive, serverConfirm, serverRaises, vars
<1> QED
  BY <1>3, <1>5, <1>6, <1>8, <1>9, <1>10, <1>11 DEF Next, Application, Library, Server

(* What Reliable has reported for a message stays: no message is acked      *)
(* after it was reported as lost, or reported twice in any other way.       *)
THEOREM ReportsAreFinal == Obedient /\ Spec => ReportedOnce
<1>1. PubInv /\ ReportInv /\ [Next]_vars
        => [\A m \in 1..Len(messages) :
              messages[m].outcome # "pending" => messages'[m].outcome = messages[m].outcome]_vars
  BY ReportsStep DEF ReportsKept
<1> QED
  BY <1>1, HandlersArePending, CountingAgrees, PTL DEF Spec, ReportedOnce
=============================================================================
