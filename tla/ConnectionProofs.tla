-------------------------- MODULE ConnectionProofs --------------------------
(***************************************************************************)
(* Proofs about Connection, for any number of channel objects and channel  *)
(* numbers, every limit on the channels and every combination of failures: *)
(* TypeOK, NothingLeftBehind, NoCrossTalk and NoSurprise, all for an       *)
(* application that is patient (PatientSpec).                              *)
(*                                                                         *)
(* As for a single channel, what matters of the client's frames is the     *)
(* pipeline, the wire followed by the queue of the connection.  Of a       *)
(* sequence the invariant only uses which elements it has (Range) and      *)
(* which of them comes before which (Before).                              *)
(***************************************************************************)
EXTENDS Connection, SequenceTheorems, TLAPS

Live == {"connected", "ready", "closing"}
Greetings == {"ProtocolHeader", "ConnectionStartOK", "ConnectionTuneOK", "ConnectionOpen"}
Requests == {"QueueDeclare", "BasicAck"}
Calls == Requests \union {"ChannelClose"}
Final == {"ConnectionClose", "ConnectionCloseOK"}

ChannelType ==
    [id : 0..MaxNumber, state : Live \union {"none", "closed"}, queue : Seq(FrameType),
     synchronous : BOOLEAN]
ServerType ==
    [phase : Greetings \union {"running", "closing", "closed"},
     open : SUBSET Numbers, closing : SUBSET Numbers, surprised : BOOLEAN]

Before(s, x, y) == \E i, j \in 1..Len(s) : i < j /\ x = s[i] /\ y = s[j]

Pipeline == toServer \o queue
Sent == Range(Pipeline)
Got == Range(toClient)

(* The frames that begin and end the use of a number.                       *)
Opening(n, o) == Frame("ChannelOpen", n, o)
Confirmation(n) == Frame("ChannelCloseOK", n, None)

(* The frames of the two sides.                                             *)
FromClient(f) ==
    \/ f.kind \in Calls \union {"ChannelOpen"} /\ f.channel \in Numbers /\ f.of \in Objects
    \/ f.kind = "ChannelCloseOK" /\ f.channel \in Numbers /\ f.of = None
    \/ f.kind \in Greetings \union Final \union {"Heartbeat"} /\ f.channel = 0 /\ f.of = None
FromServer(f) ==
    \/ /\ f.kind \in {"ChannelOpenOK", "QueueDeclareOK", "ChannelCloseOK"}
       /\ f.channel \in Numbers /\ f.of \in Objects
    \/ f.kind = "ChannelClose" /\ f.channel \in Numbers /\ f.of = None
    \/ f.kind = "ConnectionTune" /\ f.channel = 0 /\ f.of \in ChannelMax
    \/ f.kind \in {"ConnectionStart", "ConnectionOpenOK"} \union Final /\ f.channel = 0 /\ f.of = None

Types ==
    /\ TypeOK
    /\ chan \in [Objects -> ChannelType]
    /\ told \in [error : BOOLEAN, closed : BOOLEAN]
    /\ server \in ServerType
    /\ \A f \in Sent : FromClient(f)
    /\ \A f \in Got : FromServer(f)

(* The frames that wait in a channel: its own, and a close frame is last.   *)
QueueFits(c, o) ==
    \A i \in 1..Len(c.queue) :
        LET f == c.queue[i]
        IN  /\ f.kind \in Calls /\ f.channel = c.id /\ f.of = o
            /\ f.kind = "ChannelClose" => i = Len(c.queue) /\ c.state = "closing"

(* _channels holds exactly the channels that are open or closing; only      *)
(* these wait or have frames in their queue.                                *)
Registry ==
    /\ \A n \in Numbers : channels[n] # None => chan[channels[n]].state \in Live
    /\ \A o \in Objects : chan[o].state \in Live => chan[o].id \in Numbers /\ channels[chan[o].id] = o
    /\ \A o \in Objects : chan[o].state \notin Live => ~waiting(chan[o])
    /\ \A o \in Objects : QueueFits(chan[o], o)

(* The number in a frame is that of the object the frame belongs to.        *)
(* Nobody else has it, unless the number was closed by the server and used  *)
(* again: then what the old owner has sent is followed by our confirmation. *)
Owned ==
    /\ \A f \in Sent \union Got :
          f.of \in Objects => chan[f.of].state # "none" /\ chan[f.of].id = f.channel
    /\ \A g \in Got : g.of \in Objects => channels[g.channel] \in {g.of, None}
    /\ \A f \in Sent : f.of \in Objects =>
          \/ channels[f.channel] \in {f.of, None}
          \/ f.kind \in Requests /\ Before(Pipeline, f, Confirmation(f.channel))

(* The handshake, step by step.                                             *)
At(phase, out, in, st) ==
    /\ server.phase = phase /\ server.open = {} /\ server.closing = {}
    /\ toServer = out /\ toClient = in
    /\ state \in {st, "closed"}
Stage ==
    \/ At("ProtocolHeader", <<Own("ProtocolHeader")>>, <<>>, "protocol")
    \/ At("ConnectionStartOK", <<>>, <<Own("ConnectionStart")>>, "protocol")
    \/ At("ConnectionStartOK", <<Own("ConnectionStartOK")>>, <<>>, "handshake")
    \/ \E max \in ChannelMax :
         At("ConnectionTuneOK", <<>>, <<Frame("ConnectionTune", 0, max)>>, "handshake")
    \/ At("ConnectionTuneOK", <<>>, <<>>, "handshake")     \* the server proposes nothing
    \/ At("ConnectionTuneOK", <<Own("ConnectionTuneOK"), Own("ConnectionOpen")>>, <<>>, "handshake")
    \/ At("ConnectionOpen", <<Own("ConnectionOpen")>>, <<>>, "handshake")

(* Frames of the handshake are never queued, and none of them is left when  *)
(* the server runs; open-ok comes once, and before the client is connected. *)
Hand ==
    /\ \A f \in Range(queue) : f.kind \notin Greetings
    /\ server.phase \in Greetings => Stage /\ running # "onReady"
    /\ server.phase \notin Greetings => state # "protocol"
    /\ server.phase = "running" =>
          /\ \A f \in Sent : f.kind \notin Greetings
          /\ \A g \in Got : g.kind # "ConnectionTune"
    /\ \A g \in Got :
          /\ g.kind = "ConnectionStart" => server.phase \in Greetings
          /\ g.kind \in {"ConnectionTune", "ConnectionOpenOK"} => state \in {"handshake", "closed"}
    /\ \A g, h \in Got : Before(toClient, g, h) /\ g.kind = "ConnectionOpenOK" =>
          h.kind \notin {"ConnectionOpenOK", "ConnectionTune"}

(* The end: when one side has sent its close frame, or its answer to one,   *)
(* nothing follows on that wire.                                            *)
Ended == state \in {"closing", "closed"}
Silent == Ended \/ (told.error /\ ~closed)
End ==
    /\ \A f \in Sent :
          /\ f.kind = "ConnectionClose" => Ended
          /\ f.kind = "ConnectionCloseOK" => Silent /\ server.phase \in {"closing", "closed"}
    /\ server.phase = "closed" => Sent = {} /\ Silent
    /\ \A g \in Got :
          /\ g.kind = "ConnectionCloseOK" => Ended
          /\ g.kind = "ConnectionClose" => server.phase \in {"closing", "closed"}
    /\ \A g, h \in Got : Before(toClient, g, h) /\ g.kind = "ConnectionClose" =>
          h.kind = "ConnectionCloseOK"
    /\ told.error => /\ server.phase \in {"closing", "closed"}
                     /\ \A g \in Got : g.kind = "ConnectionCloseOK"

(* May frame g come behind frame f in the pipeline?                         *)
MayFollow(f, g) ==
    /\ f.kind \notin Final
    /\ f.channel = g.channel /\ f.channel # 0 =>
         /\ g.kind = "ChannelOpen" => /\ f.kind \notin {"ChannelOpen", "ChannelClose"}
                                     /\ f.of # g.of
         /\ f.kind = "ChannelClose" => g.kind = "ChannelCloseOK"
         /\ g.kind = "ChannelCloseOK" => f.kind \notin {"ChannelOpen", "ChannelCloseOK"}

(* Is a number open for the server when the frames of object o arrive?      *)
Opened(n, o) == n \in server.open \union server.closing \/ Opening(n, o) \in Sent
(* Will the channel still send frames?                                      *)
Sending(o) == chan[o].state \in {"connected", "ready"} \/ chan[o].queue # <<>>
Talking == server.phase \in Greetings \union {"running"}

(* The order of the pipeline, and that order against the server's view.     *)
(* What follows a confirmation belongs to the new owner of the number.      *)
Order ==
    /\ \A f, g \in Sent : Before(Pipeline, f, g) => MayFollow(f, g)
    /\ \A o \in Objects : Sending(o) =>
          \A f \in Sent : f.kind = "ChannelClose" => f.channel # chan[o].id
    /\ \A f \in Sent : f.kind = "ChannelCloseOK" =>
          /\ \/ channels[f.channel] = None
             \/ Before(Pipeline, f, Opening(f.channel, channels[f.channel]))
          /\ \A g \in Got : g.kind = "ChannelClose" => g.channel # f.channel
          /\ \A g \in Sent : Before(Pipeline, f, g) /\ g.kind \in Calls /\ g.channel = f.channel =>
                Opening(g.channel, g.of) \in Sent
View ==
    /\ server.open \intersect server.closing = {}
    /\ \A g, h \in Got :
          Before(toClient, g, h) /\ g.kind = "ChannelClose" /\ g.channel = h.channel =>
              h.kind = "ChannelCloseOK"
    /\ \A g \in Got : g.kind = "ChannelClose" =>
          \A f \in Sent : f.kind = "ChannelOpen" => f.channel # g.channel
    /\ Talking =>
         /\ \A f \in Sent :
              /\ f.kind = "ChannelOpen" =>
                    /\ f.channel \notin server.open
                    /\ f.channel \in server.closing => Before(Pipeline, Confirmation(f.channel), f)
              /\ f.kind \in Calls => Opened(f.channel, f.of)
              /\ f.kind = "ChannelCloseOK" => f.channel \in server.closing
         /\ \A g \in Got : g.kind = "ChannelClose" => g.channel \in server.closing
         /\ \A o \in Objects : Sending(o) => Opened(chan[o].id, o)

(* As long as channels may be opened, a number that is free here is free    *)
(* at the server too, once it has our confirmation; all that may come for   *)
(* such a number is the answer to a close frame.  Such an answer is the     *)
(* last that comes for its number, and nothing but a confirmation is under  *)
(* way to the server.                                                       *)
Opens == usable /\ ~told.error
Free(n) ==
    /\ \A g \in Got : g.channel = n => g.kind = "ChannelCloseOK"
    /\ \A f \in Sent : f.channel = n =>
          /\ f.kind # "ChannelOpen"
          /\ f.kind \in Requests => Before(Pipeline, f, Confirmation(n))
    /\ Talking => n \notin server.open
Released(n) ==
    /\ n \notin server.open
    /\ \A f \in Sent : f.channel = n => f.kind = "ChannelCloseOK"
    /\ channels[n] # None => ~Sending(channels[n])
Reuse ==
    /\ \A g \in Got : g.kind = "ChannelCloseOK" => Released(g.channel)
    /\ \A g, h \in Got : Before(toClient, g, h) /\ g.kind = "ChannelCloseOK" =>
          h.channel # g.channel
    /\ Opens => \A n \in Numbers : channels[n] = None => Free(n)
    /\ Opens /\ Talking => \A n \in server.closing :
          Confirmation(n) \in Sent \/ \E g \in Got : g.kind = "ChannelClose" /\ g.channel = n

Inv ==
    /\ Types /\ Registry /\ Owned /\ Hand /\ End /\ Order /\ View /\ Reuse
    /\ NothingLeftBehind /\ NoSurprise

-----------------------------------------------------------------------------
(* Sequences: their elements and the order of these.                        *)

(* The elements of a sequence, by index.                                    *)
LEMMA RangeIndex ==
    ASSUME NEW S, NEW s \in Seq(S)
    PROVE  \A x : x \in Range(s) <=> \E i \in 1..Len(s) : x = s[i]
BY RangeEquality

(* A sequence of one element, and the empty one.                            *)
LEMMA OneElement ==
    ASSUME NEW S, NEW e \in S
    PROVE  <<e>> \in Seq(S) /\ Range(<<e>>) = {e} /\ \A x, y : ~Before(<<e>>, x, y)
<1>1. <<e>> \in Seq(S) /\ Len(<<e>>) = 1 /\ <<e>>[1] = e  OBVIOUS
<1>2. \A x : x \in Range(<<e>>) <=> \E i \in 1..Len(<<e>>) : x = <<e>>[i]  BY <1>1, RangeIndex
<1>3. Range(<<e>>) = {e}  BY <1>1, <1>2
<1>4. \A x, y : ~Before(<<e>>, x, y)  BY <1>1 DEF Before
<1> QED  BY <1>1, <1>3, <1>4

LEMMA EmptySequence ==
    /\ \A S : <<>> \in Seq(S)
    /\ Range(<<>>) = {} /\ \A x, y : ~Before(<<>>, x, y)
<1>1. \A S : <<>> \in Seq(S)  OBVIOUS
<1>2. Len(<<>>) = 0  OBVIOUS
<1>3. Range(<<>>) = {}  BY DEF Range
<1>4. \A x, y : ~Before(<<>>, x, y)  BY <1>2 DEF Before
<1> QED  BY <1>1, <1>3, <1>4

(* What is ordered is in the sequence.                                      *)
LEMMA BeforeRange ==
    ASSUME NEW S, NEW s \in Seq(S)
    PROVE  \A x, y : Before(s, x, y) => x \in Range(s) /\ y \in Range(s)
<1>1. \A x : x \in Range(s) <=> \E i \in 1..Len(s) : x = s[i]  BY RangeIndex
<1> QED  BY <1>1 DEF Before

(* Any two elements are ordered, one way or the other.                      *)
LEMMA BeforeTotal ==
    ASSUME NEW S, NEW s \in Seq(S)
    PROVE  \A x, y \in Range(s) : x = y \/ Before(s, x, y) \/ Before(s, y, x)
<1>1. \A x : x \in Range(s) <=> \E i \in 1..Len(s) : x = s[i]  BY RangeIndex
<1>2. Len(s) \in Nat  BY LenProperties
<1> SUFFICES ASSUME NEW x \in Range(s), NEW y \in Range(s), x # y
             PROVE  Before(s, x, y) \/ Before(s, y, x)
  OBVIOUS
<1>3. PICK i \in 1..Len(s) : x = s[i]  BY <1>1
<1>4. PICK j \in 1..Len(s) : y = s[j]  BY <1>1
<1>5. i < j \/ j < i  BY <1>2, <1>3, <1>4
<1> QED  BY <1>3, <1>4, <1>5 DEF Before

(* The order in a concatenation.                                            *)
LEMMA BeforeConcat ==
    ASSUME NEW S, NEW s \in Seq(S), NEW t \in Seq(S)
    PROVE  \A x, y : Before(s \o t, x, y) <=>
               Before(s, x, y) \/ Before(t, x, y) \/ (x \in Range(s) /\ y \in Range(t))
<1> DEFINE u == s \o t
<1>1. /\ u \in Seq(S) /\ Len(u) = Len(s) + Len(t)
      /\ \A i \in 1..(Len(s) + Len(t)) : u[i] = IF i <= Len(s) THEN s[i] ELSE t[i - Len(s)]
  BY ConcatProperties
<1>2. Len(s) \in Nat /\ Len(t) \in Nat  BY LenProperties
<1>3. \A x : x \in Range(s) <=> \E i \in 1..Len(s) : x = s[i]  BY RangeIndex
<1>4. \A x : x \in Range(t) <=> \E i \in 1..Len(t) : x = t[i]  BY RangeIndex
<1> HIDE DEF u
<1>5. \A i \in 1..Len(s) : i \in 1..Len(u) /\ u[i] = s[i]  BY <1>1, <1>2
<1>6. ASSUME NEW i \in 1..Len(t) PROVE i + Len(s) \in 1..Len(u) /\ u[i + Len(s)] = t[i]
  <2>1. i + Len(s) \in 1..(Len(s) + Len(t)) /\ ~(i + Len(s) <= Len(s)) /\ (i + Len(s)) - Len(s) = i
    BY <1>2
  <2> QED  BY <1>1, <2>1
<1>7. ASSUME NEW x, NEW y, Before(u, x, y)
      PROVE  Before(s, x, y) \/ Before(t, x, y) \/ (x \in Range(s) /\ y \in Range(t))
  <2>1. PICK i, j \in 1..Len(u) : i < j /\ x = u[i] /\ y = u[j]  BY <1>7 DEF Before
  <2>2. CASE j <= Len(s)
    <3>1. i \in 1..Len(s) /\ j \in 1..Len(s) /\ x = s[i] /\ y = s[j]  BY <1>1, <1>2, <2>1, <2>2
    <3> QED  BY <2>1, <3>1 DEF Before
  <2>3. CASE i > Len(s)
    <3>1. i - Len(s) \in 1..Len(t) /\ j - Len(s) \in 1..Len(t) /\ i - Len(s) < j - Len(s)
      BY <1>1, <1>2, <2>1, <2>3
    <3>2. x = t[i - Len(s)] /\ y = t[j - Len(s)]  BY <1>1, <1>2, <2>1, <2>3
    <3> QED  BY <3>1, <3>2 DEF Before
  <2>4. CASE i <= Len(s) /\ j > Len(s)
    <3>1. i \in 1..Len(s) /\ x = s[i]  BY <1>1, <1>2, <2>1, <2>4
    <3>2. j - Len(s) \in 1..Len(t) /\ y = t[j - Len(s)]  BY <1>1, <1>2, <2>1, <2>4
    <3> QED  BY <1>3, <1>4, <3>1, <3>2
  <2> QED  BY <1>2, <2>1, <2>2, <2>3, <2>4
<1>8. ASSUME NEW x, NEW y, Before(s, x, y) PROVE Before(u, x, y)
  <2>1. PICK i, j \in 1..Len(s) : i < j /\ x = s[i] /\ y = s[j]  BY <1>8 DEF Before
  <2> QED  BY <1>5, <2>1 DEF Before
<1>9. ASSUME NEW x, NEW y, Before(t, x, y) PROVE Before(u, x, y)
  <2>1. PICK i, j \in 1..Len(t) : i < j /\ x = t[i] /\ y = t[j]  BY <1>9 DEF Before
  <2>2. i + Len(s) < j + Len(s)  BY <1>2, <2>1
  <2> QED  BY <1>6, <2>1, <2>2 DEF Before
<1>10. ASSUME NEW x \in Range(s), NEW y \in Range(t) PROVE Before(u, x, y)
  <2>1. PICK i \in 1..Len(s) : x = s[i]  BY <1>3
  <2>2. PICK j \in 1..Len(t) : y = t[j]  BY <1>4
  <2>3. i < j + Len(s)  BY <1>2, <2>1, <2>2
  <2> QED  BY <1>5, <1>6, <2>1, <2>2, <2>3 DEF Before
<1> QED  BY <1>7, <1>8, <1>9, <1>10 DEF u

(* What Append does to the elements and their order.                        *)
LEMMA AppendOrder ==
    ASSUME NEW S, NEW s \in Seq(S), NEW e \in S
    PROVE  /\ Append(s, e) \in Seq(S) /\ Append(s, e) = s \o <<e>>
           /\ Range(Append(s, e)) = Range(s) \union {e}
           /\ \A x, y : Before(Append(s, e), x, y) <=> Before(s, x, y) \/ (x \in Range(s) /\ y = e)
<1> DEFINE v == <<e>>
<1>1. v \in Seq(S) /\ Range(v) = {e} /\ \A x, y : ~Before(v, x, y)  BY OneElement
<1>2. Append(s, e) \in Seq(S) /\ Append(s, e) = s \o v  BY AppendProperties, AppendIsConcat
<1> HIDE DEF v
<1>3. Range(s \o v) = Range(s) \union Range(v)  BY <1>1, RangeConcatenation
<1>4. \A x, y : Before(s \o v, x, y) <=>
          Before(s, x, y) \/ Before(v, x, y) \/ (x \in Range(s) /\ y \in Range(v))
  BY <1>1, BeforeConcat
<1>5. Range(Append(s, e)) = Range(s) \union {e}  BY <1>1, <1>2, <1>3
<1>6. \A x, y : Before(Append(s, e), x, y) <=> Before(s, x, y) \/ (x \in Range(s) /\ y = e)
  BY <1>1, <1>2, <1>4
<1> QED  BY <1>2, <1>5, <1>6 DEF v

(* A sequence that is not empty is its head followed by its tail.           *)
LEMMA HeadTailOrder ==
    ASSUME NEW S, NEW s \in Seq(S), s # <<>>
    PROVE  /\ Head(s) \in S /\ Tail(s) \in Seq(S) /\ s = <<Head(s)>> \o Tail(s)
           /\ Range(s) = {Head(s)} \union Range(Tail(s))
           /\ \A x, y : Before(s, x, y) <=>
                  Before(Tail(s), x, y) \/ (x = Head(s) /\ y \in Range(Tail(s)))
<1> DEFINE h == <<Head(s)>>
           t == Tail(s)
<1>1. /\ Head(s) \in S /\ t \in Seq(S) /\ Len(t) = Len(s) - 1
      /\ \A i \in 1..Len(t) : t[i] = s[i + 1]
  BY HeadTailProperties
<1>2. Len(s) \in Nat \ {0} /\ Head(s) = s[1]  BY EmptySeq
<1>3. h \in Seq(S) /\ Range(h) = {Head(s)} /\ \A x, y : ~Before(h, x, y)  BY <1>1, OneElement
<1>4. Len(h) = 1 /\ h[1] = Head(s)  OBVIOUS
<1> HIDE DEF h, t
<1>5. /\ h \o t \in Seq(S) /\ Len(h \o t) = Len(h) + Len(t)
      /\ \A i \in 1..(Len(h) + Len(t)) : (h \o t)[i] = IF i <= Len(h) THEN h[i] ELSE t[i - Len(h)]
  BY <1>1, <1>3, ConcatProperties
<1>6. Len(t) \in Nat  BY <1>1, LenProperties
<1>7. Len(h \o t) = Len(s)  BY <1>1, <1>2, <1>4, <1>5
<1>8. ASSUME NEW i \in 1..Len(s) PROVE s[i] = (h \o t)[i]
  <2>1. CASE i = 1  BY <1>2, <1>4, <1>5, <1>6, <2>1
  <2>2. CASE i # 1
    <3>1. i - 1 \in 1..Len(t) /\ (i - 1) + 1 = i  BY <1>1, <1>2, <2>2
    <3>2. t[i - 1] = s[i]  BY <1>1, <3>1
    <3>3. i \in 1..(Len(h) + Len(t)) /\ ~(i <= Len(h))  BY <1>1, <1>2, <1>4, <2>2
    <3> QED  BY <1>4, <1>5, <3>2, <3>3
  <2> QED  BY <2>1, <2>2
<1>9. s = h \o t  BY <1>5, <1>7, <1>8, SeqEqual
<1>10. Range(h \o t) = Range(h) \union Range(t)  BY <1>1, <1>3, RangeConcatenation
<1>11. \A x, y : Before(h \o t, x, y) <=>
           Before(h, x, y) \/ Before(t, x, y) \/ (x \in Range(h) /\ y \in Range(t))
  BY <1>1, <1>3, BeforeConcat
<1> QED  BY <1>1, <1>3, <1>9, <1>10, <1>11 DEF h, t

-----------------------------------------------------------------------------
(* What the catalogue says of the frames involved.                          *)

(* The members that the frame classes override.                             *)
LEMMA FrameMembers ==
    ASSUME NEW type, NEW fields, NEW fixed, NEW operands
    PROVE  LET e == ExtFrame(type, fields, fixed, operands)
           IN  /\ {"class", "method", "synchronous", "handshake", "shutdown", "process"} \subseteq DOMAIN e
               /\ e.handshake = FALSE /\ e.shutdown = FALSE
BY DEF ExtFrame

(* A frame class that does not override member m, and what keeps it so.     *)
Inherits(f, m) == m \in DOMAIN f /\ f[m] = FALSE

LEMMA InheritedMembers ==
    ASSUME NEW m \in {"handshake", "shutdown"}
    PROVE  /\ \A t, fields, fixed, operands : Inherits(ExtFrame(t, fields, fixed, operands), m)
           /\ \A class, method, fields, fixed, operands :
                 Inherits(MethodFrame(class, method, fields, fixed, operands), m)
           /\ \A f, x : Inherits(f, m) => /\ Inherits(Processed(f, x), m)
                                          /\ Inherits(UnlessNoWait(f, x), m)
                                          /\ Inherits(Asynchronous(f), m)
           /\ \A f : Inherits(f, "handshake") => Inherits(PartOfShutdown(f), "handshake")
<1>1. \A t, fields, fixed, operands : Inherits(ExtFrame(t, fields, fixed, operands), m)
  BY FrameMembers DEF Inherits
<1>2. ASSUME NEW class, NEW method, NEW fields, NEW fixed, NEW operands
      PROVE  Inherits(MethodFrame(class, method, fields, fixed, operands), m)
  <2> DEFINE e == ExtFrame(1, <<"short", "short">> \o fields, fixed + 4, operands)
  <2>1. Inherits(e, m)  BY <1>1
  <2>2. MethodFrame(class, method, fields, fixed, operands) =
            [e EXCEPT !.class = class, !.method = method, !.synchronous = TRUE]
    BY DEF MethodFrame
  <2> HIDE DEF e
  <2> QED  BY <2>1, <2>2 DEF Inherits
<1>3. ASSUME NEW f, NEW x, Inherits(f, m)
      PROVE  Inherits(Processed(f, x), m) /\ Inherits(UnlessNoWait(f, x), m) /\ Inherits(Asynchronous(f), m)
  BY <1>3 DEF Inherits, Processed, UnlessNoWait, Asynchronous
<1>4. ASSUME NEW f, Inherits(f, "handshake") PROVE Inherits(PartOfShutdown(f), "handshake")
  BY <1>4 DEF Inherits, PartOfShutdown
<1> QED  BY <1>1, <1>2, <1>3, <1>4

(* partOfHandshake() and partOfShutdown().                                  *)
LEMMA PartFacts ==
    /\ \A k \in Calls \union Final \union {"ChannelOpen", "ChannelCloseOK", "Heartbeat"} :
          k \in Kinds /\ Catalogue[k].handshake = FALSE
    /\ \A k \in Greetings : k \in Kinds /\ Catalogue[k].handshake = TRUE
    /\ \A k \in {"ConnectionCloseOK", "ChannelCloseOK"} : Catalogue[k].shutdown = FALSE
<1>1. /\ Catalogue["ProtocolHeader"] = ProtocolHeaderFrame
      /\ Catalogue["ConnectionStartOK"] = ConnectionStartOKFrame
      /\ Catalogue["ConnectionTuneOK"] = ConnectionTuneOKFrame
      /\ Catalogue["ConnectionOpen"] = ConnectionOpenFrame
      /\ Catalogue["ConnectionClose"] = ConnectionCloseFrame
      /\ Catalogue["ConnectionCloseOK"] = ConnectionCloseOKFrame
  BY DEF Catalogue
<1>2. /\ Catalogue["ChannelOpen"] = ChannelOpenFrame /\ Catalogue["ChannelClose"] = ChannelCloseFrame
      /\ Catalogue["ChannelCloseOK"] = ChannelCloseOKFrame
      /\ Catalogue["QueueDeclare"] = QueueDeclareFrame(FALSE)
      /\ Catalogue["BasicAck"] = BasicAckFrame /\ Catalogue["Heartbeat"] = HeartbeatFrame
  BY DEF Catalogue
<1>3. ProtocolHeaderFrame.handshake = TRUE
  BY FrameMembers DEF ProtocolHeaderFrame, PartOfHandshake
<1>4. /\ ConnectionStartOKFrame.handshake = TRUE /\ ConnectionTuneOKFrame.handshake = TRUE
      /\ ConnectionOpenFrame.handshake = TRUE
  BY FrameMembers DEF ConnectionStartOKFrame, ConnectionTuneOKFrame, ConnectionOpenFrame,
     ConnectionFrame, MethodFrame, PartOfHandshake
<1>5. Inherits(ConnectionCloseFrame, "handshake")
  BY InheritedMembers DEF ConnectionCloseFrame, ConnectionFrame
<1>6. Inherits(ConnectionCloseOKFrame, "handshake") /\ Inherits(ConnectionCloseOKFrame, "shutdown")
  BY InheritedMembers DEF ConnectionCloseOKFrame, ConnectionFrame
<1>7. Inherits(ChannelOpenFrame, "handshake") /\ Inherits(ChannelCloseFrame, "handshake")
  BY InheritedMembers DEF ChannelOpenFrame, ChannelCloseFrame, ChannelFrame
<1>8. Inherits(ChannelCloseOKFrame, "handshake") /\ Inherits(ChannelCloseOKFrame, "shutdown")
  BY InheritedMembers DEF ChannelCloseOKFrame, ChannelFrame
<1>9. Inherits(QueueDeclareFrame(FALSE), "handshake")
  BY InheritedMembers DEF QueueDeclareFrame, QueueFrame
<1>10. Inherits(BasicAckFrame, "handshake")
  BY InheritedMembers DEF BasicAckFrame, BasicFrame
<1>11. Inherits(HeartbeatFrame, "handshake")
  BY InheritedMembers DEF HeartbeatFrame
<1>12. Calls \union Final \union Greetings \union {"ChannelOpen", "ChannelCloseOK", "Heartbeat"} \subseteq Kinds
  BY DEF Calls, Requests, Final, Greetings, Kinds, Catalogue
<1>13. \A k \in Greetings : Catalogue[k].handshake = TRUE
  BY <1>1, <1>3, <1>4 DEF Greetings
<1>14. \A k \in {"ConnectionCloseOK", "ChannelCloseOK"} : Catalogue[k].shutdown = FALSE
  BY <1>1, <1>2, <1>6, <1>8 DEF Inherits
<1>15. \A k \in Calls \union Final \union {"ChannelOpen", "ChannelCloseOK", "Heartbeat"} :
          Catalogue[k].handshake = FALSE
  BY <1>1, <1>2, <1>5, <1>6, <1>7, <1>8, <1>9, <1>10, <1>11 DEF Calls, Requests, Final, Inherits
<1> QED  BY <1>12, <1>13, <1>14, <1>15

(* process() of the frames that the server sends.                           *)
Handler ==
    [ConnectionStart |-> "start", ConnectionTune |-> "tune", ConnectionOpenOK |-> "setReady",
     ConnectionClose |-> "connectionError", ConnectionCloseOK |-> "connectionClosed",
     ChannelOpenOK |-> "reportReady", QueueDeclareOK |-> "reportSuccess",
     ChannelClose |-> "reportError", ChannelCloseOK |-> "reportClosed"]

LEMMA HandlerFacts ==
    \A k \in DOMAIN Handler : k \in Kinds /\ Catalogue[k].process = Handler[k]
<1>1. /\ Catalogue["ConnectionStart"] = ConnectionStartFrame
      /\ Catalogue["ConnectionTune"] = ConnectionTuneFrame
      /\ Catalogue["ConnectionOpenOK"] = ConnectionOpenOKFrame
      /\ Catalogue["ConnectionClose"] = ConnectionCloseFrame
      /\ Catalogue["ConnectionCloseOK"] = ConnectionCloseOKFrame
      /\ Catalogue["ChannelOpenOK"] = ChannelOpenOKFrame
      /\ Catalogue["QueueDeclareOK"] = QueueDeclareOKFrame
      /\ Catalogue["ChannelClose"] = ChannelCloseFrame
      /\ Catalogue["ChannelCloseOK"] = ChannelCloseOKFrame
  BY DEF Catalogue
<1>2. /\ ConnectionStartFrame.process = "start" /\ ConnectionTuneFrame.process = "tune"
      /\ ConnectionOpenOKFrame.process = "setReady"
      /\ ConnectionCloseOKFrame.process = "connectionClosed"
  BY FrameMembers DEF ConnectionStartFrame, ConnectionTuneFrame, ConnectionOpenOKFrame,
     ConnectionCloseOKFrame, ConnectionFrame, MethodFrame, Processed
<1>3. ConnectionCloseFrame.process = "connectionError"
  BY FrameMembers DEF ConnectionCloseFrame, ConnectionFrame, MethodFrame, PartOfShutdown, Processed
<1>4. /\ ChannelOpenOKFrame.process = "reportReady" /\ ChannelCloseOKFrame.process = "reportClosed"
  BY FrameMembers DEF ChannelOpenOKFrame, ChannelCloseOKFrame, ChannelFrame, MethodFrame, Processed
<1>5. ChannelCloseFrame.process = "reportError"
  BY FrameMembers DEF ChannelCloseFrame, ChannelFrame, MethodFrame, Processed, PartOfShutdown
<1>6. QueueDeclareOKFrame.process = "reportSuccess"
  BY FrameMembers DEF QueueDeclareOKFrame, QueueFrame, MethodFrame, Processed
<1>7. DOMAIN Handler \subseteq Kinds  BY DEF Handler, Kinds, Catalogue
<1>8. DOMAIN Handler = {"ConnectionStart", "ConnectionTune", "ConnectionOpenOK", "ConnectionClose",
          "ConnectionCloseOK", "ChannelOpenOK", "QueueDeclareOK", "ChannelClose", "ChannelCloseOK"}
  BY DEF Handler
<1> QED  BY <1>1, <1>2, <1>3, <1>4, <1>5, <1>6, <1>7, <1>8 DEF Handler

-----------------------------------------------------------------------------
(* The pipeline.                                                            *)

LEMMA PipelineTypes ==
    ASSUME Types
    PROVE  /\ toServer \in Seq(FrameType) /\ queue \in Seq(FrameType) /\ toClient \in Seq(FrameType)
           /\ Pipeline \in Seq(FrameType)
           /\ Sent = Range(toServer) \union Range(queue)
           /\ Sent \subseteq FrameType /\ Got \subseteq FrameType
<1>1. toServer \in Seq(FrameType) /\ queue \in Seq(FrameType) /\ toClient \in Seq(FrameType)
  BY DEF Types, TypeOK
<1>2. Pipeline \in Seq(FrameType)  BY <1>1, ConcatProperties DEF Pipeline
<1>3. Sent = Range(toServer) \union Range(queue)  BY <1>1, RangeConcatenation DEF Sent, Pipeline
<1>4. Sent \subseteq FrameType /\ Got \subseteq FrameType  BY <1>1, <1>2, RangeOfSeq DEF Sent, Got
<1> QED  BY <1>1, <1>2, <1>3, <1>4

(* Frames at the end of the pipeline.                                       *)
LEMMA PipelineGrows ==
    ASSUME Types, NEW s \in Seq(FrameType), Pipeline' = Pipeline \o s
    PROVE  /\ Sent' = Sent \union Range(s)
           /\ \A f, g : Before(Pipeline', f, g) <=>
                 Before(Pipeline, f, g) \/ Before(s, f, g) \/ (f \in Sent /\ g \in Range(s))
           /\ \A f, g : Before(s, f, g) => f \in Range(s) /\ g \in Range(s)
           /\ \A f, g : Before(Pipeline, f, g) => f \in Sent /\ g \in Sent
<1>1. Pipeline \in Seq(FrameType)  BY PipelineTypes
<1>2. Sent' = Sent \union Range(s)  BY <1>1, RangeConcatenation DEF Sent
<1>3. \A f, g : Before(Pipeline \o s, f, g) <=>
          Before(Pipeline, f, g) \/ Before(s, f, g) \/ (f \in Range(Pipeline) /\ g \in Range(s))
  BY <1>1, BeforeConcat
<1>4. \A f, g : Before(s, f, g) => f \in Range(s) /\ g \in Range(s)  BY BeforeRange
<1>5. \A f, g : Before(Pipeline, f, g) => f \in Sent /\ g \in Sent  BY <1>1, BeforeRange DEF Sent
<1> QED  BY <1>2, <1>3, <1>4, <1>5 DEF Sent

(* What is received is taken from the front.                                *)
LEMMA GotShrinks ==
    ASSUME Types, toClient # <<>>, toClient' = Tail(toClient)
    PROVE  /\ Head(toClient) \in Got /\ Got = {Head(toClient)} \union Got'
           /\ \A g, h : Before(toClient', g, h) => Before(toClient, g, h)
           /\ \A h \in Got' : Before(toClient, Head(toClient), h)
<1>1. toClient \in Seq(FrameType)  BY PipelineTypes
<1>2. /\ Range(toClient) = {Head(toClient)} \union Range(Tail(toClient))
      /\ \A x, y : Before(toClient, x, y) <=>
             Before(Tail(toClient), x, y) \/ (x = Head(toClient) /\ y \in Range(Tail(toClient)))
  BY <1>1, HeadTailOrder
<1> QED  BY <1>2 DEF Got

(* Which frame a handler is called for.                                     *)
LEMMA ReceivedKind ==
    ASSUME Types, NEW handler, Receive(handler)
    PROVE  /\ Head(toClient) \in Got /\ FromServer(Head(toClient))
           /\ Head(toClient).kind \in DOMAIN Handler /\ Handler[Head(toClient).kind] = handler
           /\ toClient # <<>> /\ toClient' = Tail(toClient) /\ state # "closed"
<1>1. toClient # <<>> /\ toClient' = Tail(toClient) /\ state # "closed"
      /\ Catalogue[Head(toClient).kind].process = handler
  BY DEF Receive
<1>2. Head(toClient) \in Got  BY <1>1, GotShrinks
<1>3. FromServer(Head(toClient))  BY <1>2 DEF Types
<1>4. Head(toClient).kind \in DOMAIN Handler  BY <1>3 DEF FromServer, Final, Handler
<1> QED  BY <1>1, <1>2, <1>3, <1>4, HandlerFacts

-----------------------------------------------------------------------------
(* Steps of the client that neither create nor remove a channel.            *)

(* Frames that such a step may add, for a channel that still sends.         *)
Addable(f) ==
    \/ f.kind \in Greetings \union Final \union {"Heartbeat"} /\ f.channel = 0 /\ f.of = None
    \/ f.kind \in Calls /\ f.of \in Objects /\ f.channel = chan[f.of].id /\ Sending(f.of)

(* A channel that sends is registered, under its own number.                *)
LEMMA SenderRegistered ==
    ASSUME Types, Registry, NEW o \in Objects, Sending(o)
    PROVE  chan[o].state \in Live /\ chan[o].id \in Numbers /\ channels[chan[o].id] = o /\ o # None
<1>1. chan[o].state \in Live
  <2>1. CASE chan[o].queue # <<>>  BY <2>1 DEF Registry, waiting
  <2>2. CASE chan[o].queue = <<>>  BY <2>2 DEF Sending, Live
  <2> QED  BY <2>1, <2>2
<1> QED  BY <1>1, ConnectionAssumption DEF Registry

(* Such frames fit behind all that is in the pipeline.                      *)
LEMMA AddableFollows ==
    ASSUME Inv, ~Silent, NEW f \in Sent, NEW g, Addable(g)
    PROVE  MayFollow(f, g)
<1>1. f.kind \notin Final  BY DEF Inv, End, Silent, Final
<1>2. ASSUME f.channel = g.channel, f.channel # 0
      PROVE  g.kind \notin {"ChannelOpen", "ChannelCloseOK"} /\ f.kind # "ChannelClose"
  <2>1. g.kind \in Calls /\ g.of \in Objects /\ g.channel = chan[g.of].id /\ Sending(g.of)
    BY <1>2 DEF Addable
  <2>2. f.kind # "ChannelClose"  BY <1>2, <2>1 DEF Inv, Order
  <2> QED  BY <2>1, <2>2 DEF Calls, Requests
<1> QED  BY <1>1, <1>2 DEF MayFollow

(* A step of the client leaves the server alone and adds nothing to what    *)
(* the server has sent; these steps also leave the numbers alone.           *)
ServerKept ==
    /\ server' = server
    /\ Got' \subseteq Got
    /\ \A g, h : Before(toClient', g, h) => Before(toClient, g, h)
ChannelsKept ==
    /\ ServerKept
    /\ channels' = channels
    /\ \A o \in Objects :
          /\ chan'[o].id = chan[o].id
          /\ chan'[o].state = "none" <=> chan[o].state = "none"
          /\ Sending(o)' => Sending(o)

(* Owned, Order, View and Reuse survive when frames are added for channels  *)
(* that send, and the close frame of a channel is the last it sends.        *)
LEMMA ClientStep ==
    ASSUME Inv, Types', ChannelsKept, NEW A, Sent' = Sent \union A,
           \A f \in A : Addable(f),
           \A f, g : Before(Pipeline', f, g) =>
               Before(Pipeline, f, g) \/ (MayFollow(f, g) /\ (f \in A \/ g \in A)),
           \A f, g : Before(Pipeline, f, g) => Before(Pipeline', f, g),
           \A f \in A : \A o \in Objects :
               f.kind = "ChannelClose" /\ Sending(o)' => f.channel # chan[o].id,
           Opens' => Opens,
           \A g \in Got : g.kind = "ChannelClose" => g \in Got'
    PROVE  Owned' /\ Order' /\ View' /\ Reuse'
<1>1. \A f \in A : f.of \in Objects =>
          /\ f.kind \in Calls /\ f.channel = chan[f.of].id /\ Sending(f.of)
          /\ chan[f.of].state \in Live /\ f.channel \in Numbers /\ channels[f.channel] = f.of
          /\ f.of # None
  <2> SUFFICES ASSUME NEW f \in A, f.of \in Objects
               PROVE  /\ f.kind \in Calls /\ f.channel = chan[f.of].id /\ Sending(f.of)
                      /\ chan[f.of].state \in Live /\ f.channel \in Numbers
                      /\ channels[f.channel] = f.of /\ f.of # None
    OBVIOUS
  <2>1. f.kind \in Calls /\ f.channel = chan[f.of].id /\ Sending(f.of)
    BY ConnectionAssumption DEF Addable
  <2> QED  BY <2>1, SenderRegistered DEF Inv
<1>2. \A f \in A : f.of \notin Objects =>
          f.channel = 0 /\ f.kind \in Greetings \union Final \union {"Heartbeat"}
  BY DEF Addable
<1>3. \A f, g : Before(Pipeline, f, g) => f \in Sent /\ g \in Sent
  BY PipelineTypes, BeforeRange DEF Inv, Sent
<1>4. \A f \in A : f.kind \notin {"ChannelOpen", "ChannelCloseOK"}
  BY <1>1, <1>2 DEF Calls, Requests, Greetings, Final
<1>5. Owned'
  <2>1. \A f \in Sent' \union Got' : f.of \in Objects =>
            chan'[f.of].state # "none" /\ chan'[f.of].id = f.channel
    BY <1>1 DEF Inv, Owned, ChannelsKept, ServerKept, Live
  <2>2. \A g \in Got' : g.of \in Objects => channels'[g.channel] \in {g.of, None}
    BY DEF Inv, Owned, ChannelsKept, ServerKept
  <2>3. ASSUME NEW f \in Sent', f.of \in Objects
        PROVE  \/ channels'[f.channel] \in {f.of, None}
               \/ f.kind \in Requests /\ Before(Pipeline', f, Confirmation(f.channel))
    <3>1. CASE f \in A  BY <1>1, <2>3, <3>1 DEF ChannelsKept
    <3>2. CASE f \in Sent  BY <2>3, <3>2 DEF Inv, Owned, ChannelsKept
    <3> QED  BY <3>1, <3>2
  <2> QED  BY <2>1, <2>2, <2>3 DEF Owned
<1>6. Order'
  <2>1. \A f, g \in Sent' : Before(Pipeline', f, g) => MayFollow(f, g)
    BY <1>3 DEF Inv, Order
  <2>2. \A o \in Objects : Sending(o)' =>
            \A f \in Sent' : f.kind = "ChannelClose" => f.channel # chan'[o].id
    BY DEF Inv, Order, ChannelsKept, ServerKept
  <2>3. ASSUME NEW f \in Sent', f.kind = "ChannelCloseOK"
        PROVE  /\ \/ channels'[f.channel] = None
                  \/ Before(Pipeline', f, Opening(f.channel, channels'[f.channel]))
               /\ \A g \in Got' : g.kind = "ChannelClose" => g.channel # f.channel
               /\ \A g \in Sent' : Before(Pipeline', f, g) /\ g.kind \in Calls /\ g.channel = f.channel =>
                     Opening(g.channel, g.of) \in Sent'
    <3>1. f \in Sent  BY <1>4, <2>3
    <3>2. \/ channels[f.channel] = None
          \/ Before(Pipeline, f, Opening(f.channel, channels[f.channel]))
      BY <2>3, <3>1 DEF Inv, Order
    <3>3. \A g \in Got' : g.kind = "ChannelClose" => g.channel # f.channel
      BY <2>3, <3>1 DEF Inv, Order, ChannelsKept, ServerKept
    <3>4. ASSUME NEW g \in Sent', Before(Pipeline', f, g), g.kind \in Calls, g.channel = f.channel
          PROVE  Opening(g.channel, g.of) \in Sent
      <4>1. CASE Before(Pipeline, f, g)  BY <1>3, <2>3, <3>4, <4>1 DEF Inv, Order
      <4>2. CASE g \in A
        <5>1. g.of \in Objects  BY <1>2, <3>4, <4>2 DEF Calls, Requests, Greetings, Final
        <5>2. channels[g.channel] = g.of /\ g.of # None  BY <1>1, <4>2, <5>1
        <5> QED  BY <1>3, <3>2, <3>4, <5>2
      <4> QED  BY <1>4, <2>3, <3>4, <4>1, <4>2
    <3> QED  BY <3>2, <3>3, <3>4 DEF ChannelsKept
  <2> QED  BY <2>1, <2>2, <2>3 DEF Order
<1>7. \A n, o : Opened(n, o) => Opened(n, o)'  BY DEF Opened, ChannelsKept, ServerKept
<1>8. View'
  <2>1. server'.open \intersect server'.closing = {}  BY DEF Inv, View, ChannelsKept, ServerKept
  <2>2. \A g, h \in Got' :
            Before(toClient', g, h) /\ g.kind = "ChannelClose" /\ g.channel = h.channel =>
                h.kind = "ChannelCloseOK"
    BY DEF Inv, View, ChannelsKept, ServerKept
  <2>3. \A g \in Got' : g.kind = "ChannelClose" =>
            \A f \in Sent' : f.kind = "ChannelOpen" => f.channel # g.channel
    BY <1>4 DEF Inv, View, ChannelsKept, ServerKept
  <2>4. ASSUME Talking'
        PROVE  /\ \A f \in Sent' :
                    /\ f.kind = "ChannelOpen" =>
                          /\ f.channel \notin server'.open
                          /\ f.channel \in server'.closing =>
                                Before(Pipeline', Confirmation(f.channel), f)
                    /\ f.kind \in Calls => Opened(f.channel, f.of)'
                    /\ f.kind = "ChannelCloseOK" => f.channel \in server'.closing
               /\ \A g \in Got' : g.kind = "ChannelClose" => g.channel \in server'.closing
               /\ \A o \in Objects : \A n : Sending(o)' /\ n = chan'[o].id => Opened(n, o)'
    <3>1. Talking  BY <2>4 DEF Talking, ChannelsKept, ServerKept
    <3>2. \A o \in Objects : \A n : Sending(o) /\ n = chan[o].id => Opened(n, o)'
      BY <1>7, <3>1 DEF Inv, View
    <3>3. \A f \in A : f.kind \in Calls => Opened(f.channel, f.of)'
      BY <1>1, <1>2, <3>2 DEF Calls, Requests, Greetings, Final
    <3>4. \A f \in Sent : f.kind \in Calls => Opened(f.channel, f.of)'  BY <1>7, <3>1 DEF Inv, View
    <3>5. \A f \in Sent' :
             /\ f.kind = "ChannelOpen" =>
                   /\ f.channel \notin server'.open
                   /\ f.channel \in server'.closing => Before(Pipeline', Confirmation(f.channel), f)
             /\ f.kind = "ChannelCloseOK" => f.channel \in server'.closing
      BY <1>4, <3>1 DEF Inv, View, ChannelsKept, ServerKept
    <3>6. \A g \in Got' : g.kind = "ChannelClose" => g.channel \in server'.closing
      BY <3>1 DEF Inv, View, ChannelsKept, ServerKept
    <3>7. \A o \in Objects : \A n : Sending(o)' /\ n = chan'[o].id => Opened(n, o)'
      BY <3>2 DEF ChannelsKept, ServerKept
    <3> QED  BY <3>3, <3>4, <3>5, <3>6, <3>7
  <2> QED  BY <2>1, <2>2, <2>3, <2>4 DEF View
<1>9. Reuse'
  <2>1. ASSUME Opens', NEW n \in Numbers, channels'[n] = None PROVE Free(n)'
    <3>1. Free(n)  BY <2>1 DEF Inv, Reuse, ChannelsKept
    <3>2. \A f \in A : f.channel # n
      <4>1. n # 0  BY ConnectionAssumption DEF Numbers
      <4> QED  BY <1>1, <1>2, <2>1, <4>1 DEF ChannelsKept
    <3> QED  BY <3>1, <3>2 DEF Free, ChannelsKept, ServerKept, Talking
  <2>2. ASSUME NEW g \in Got', g.kind = "ChannelCloseOK" PROVE Released(g.channel)'
    <3>1. g \in Got  BY DEF ChannelsKept, ServerKept
    <3>2. Released(g.channel)  BY <2>2, <3>1 DEF Inv, Reuse
    <3>3. g.channel \in Numbers  BY <2>2, <3>1 DEF Inv, Types, FromServer, Final
    <3>4. g.channel # 0  BY <3>3, ConnectionAssumption DEF Numbers
    <3>5. \A f \in A : f.channel # g.channel  BY <1>1, <1>2, <3>2, <3>4 DEF Released
    <3>6. channels[g.channel] # None => channels[g.channel] \in Objects
      BY <3>3 DEF Inv, Types, TypeOK
    <3> QED  BY <3>2, <3>5, <3>6 DEF Released, ChannelsKept, ServerKept
  <2>3. \A g, h \in Got' : Before(toClient', g, h) /\ g.kind = "ChannelCloseOK" => h.channel # g.channel
    BY DEF Inv, Reuse, ChannelsKept, ServerKept
  <2>4. ASSUME Opens', Talking', NEW n \in server'.closing
        PROVE  Confirmation(n) \in Sent' \/ \E g \in Got' : g.kind = "ChannelClose" /\ g.channel = n
    <3>1. Talking /\ n \in server.closing  BY <2>4 DEF Talking, ChannelsKept, ServerKept
    <3>2. Confirmation(n) \in Sent \/ \E g \in Got : g.kind = "ChannelClose" /\ g.channel = n
      BY <2>4, <3>1 DEF Inv, Reuse
    <3> QED  BY <3>2
  <2> QED  BY <2>1, <2>2, <2>3, <2>4 DEF Reuse
<1> QED  BY <1>5, <1>6, <1>8, <1>9

(* The end: the client has nothing to add once it is silent.                *)
LEMMA EndStep ==
    ASSUME Inv, ServerKept, NEW A, Sent' = Sent \union A, Silent => A = {},
           Ended => Ended', Silent => Silent',
           \A f \in A : f.kind = "ConnectionClose" => Ended',
           \A f \in A : f.kind = "ConnectionCloseOK" =>
               Silent' /\ server.phase \in {"closing", "closed"},
           told'.error => \/ told.error
                          \/ /\ server.phase \in {"closing", "closed"}
                             /\ \A g \in Got' : g.kind = "ConnectionCloseOK"
    PROVE  End'
<1>1. \A f \in Sent' :
          /\ f.kind = "ConnectionClose" => Ended'
          /\ f.kind = "ConnectionCloseOK" => Silent' /\ server'.phase \in {"closing", "closed"}
  BY DEF Inv, End, ServerKept
<1>2. server'.phase = "closed" => Sent' = {} /\ Silent'  BY DEF Inv, End, ServerKept
<1>3. \A g \in Got' :
          /\ g.kind = "ConnectionCloseOK" => Ended'
          /\ g.kind = "ConnectionClose" => server'.phase \in {"closing", "closed"}
  BY DEF Inv, End, ServerKept
<1>4. \A g, h \in Got' : Before(toClient', g, h) /\ g.kind = "ConnectionClose" =>
          h.kind = "ConnectionCloseOK"
  BY DEF Inv, End, ServerKept
<1>5. told'.error => /\ server'.phase \in {"closing", "closed"}
                     /\ \A g \in Got' : g.kind = "ConnectionCloseOK"
  BY DEF Inv, End, ServerKept
<1> QED  BY <1>1, <1>2, <1>3, <1>4, <1>5 DEF End

(* The handshake: it is over when the client is connected.                  *)
LEMMA ConnectedFacts ==
    ASSUME Inv, state \notin {"protocol", "handshake", "closed"}
    PROVE  /\ server.phase \notin Greetings
           /\ \A g \in Got : g.kind \notin {"ConnectionTune", "ConnectionOpenOK"}
BY DEF Inv, Hand, Stage, At

LEMMA HandStep ==
    ASSUME Inv, ServerKept, NEW A, Sent' = Sent \union A,
           Range(queue') \subseteq Range(queue) \union A, \A f \in A : f.kind \notin Greetings,
           server.phase \in Greetings => toServer' = toServer /\ toClient' = toClient,
           running' = "onReady" => running = "onReady",
           \/ state' \in {state, "closed"}
           \/ state = "connected" /\ state' = "closing"
    PROVE  Hand'
<1>1. \A f \in Range(queue') : f.kind \notin Greetings  BY DEF Inv, Hand
<1>2. state = "connected" => /\ server.phase \notin Greetings
                             /\ \A g \in Got : g.kind \notin {"ConnectionTune", "ConnectionOpenOK"}
  BY ConnectedFacts
<1>3. ASSUME server'.phase \in Greetings PROVE Stage' /\ running' # "onReady"
  <2>1. /\ server.phase \in Greetings /\ Stage /\ running # "onReady"
        /\ toServer' = toServer /\ toClient' = toClient /\ server' = server
    BY <1>3 DEF Inv, Hand, ServerKept
  <2>2. state' \in {state, "closed"}  BY <1>2, <2>1
  <2>3. \A phase, out, in, st : At(phase, out, in, st) => At(phase, out, in, st)'
    BY <2>1, <2>2 DEF At
  <2> QED  BY <2>1, <2>3 DEF Stage
<1>4. server'.phase \notin Greetings => state' # "protocol"  BY DEF Inv, Hand, ServerKept
<1>5. server'.phase = "running" =>
          /\ \A f \in Sent' : f.kind \notin Greetings
          /\ \A g \in Got' : g.kind # "ConnectionTune"
  BY DEF Inv, Hand, ServerKept
<1>6. \A g \in Got' :
          /\ g.kind = "ConnectionStart" => server'.phase \in Greetings
          /\ g.kind \in {"ConnectionTune", "ConnectionOpenOK"} => state' \in {"handshake", "closed"}
  BY <1>2 DEF Inv, Hand, ServerKept
<1>7. \A g, h \in Got' : Before(toClient', g, h) /\ g.kind = "ConnectionOpenOK" =>
          h.kind \notin {"ConnectionOpenOK", "ConnectionTune"}
  BY DEF Inv, Hand, ServerKept
<1> QED  BY <1>1, <1>3, <1>4, <1>5, <1>6, <1>7 DEF Hand

(* How the object of a registered channel may change.                       *)
Moved(c, d, o) ==
    /\ d \in ChannelType /\ d.id = c.id /\ c.state \in Live /\ d.state \in Live
    /\ QueueFits(d, o)

LEMMA RegistryStep ==
    ASSUME Inv, channels' = channels,
           \A o \in Objects : chan'[o] = chan[o] \/ Moved(chan[o], chan'[o], o)
    PROVE  Registry'
<1>1. \A o \in Objects : /\ chan'[o].id = chan[o].id
                         /\ chan'[o].state \in Live <=> chan[o].state \in Live
                         /\ chan[o].state \notin Live => chan'[o] = chan[o]
  BY DEF Moved
<1>2. \A n \in Numbers : channels'[n] # None => chan'[channels'[n]].state \in Live
  BY <1>1 DEF Inv, Registry, Types, TypeOK
<1>3. \A o \in Objects : chan'[o].state \in Live =>
          chan'[o].id \in Numbers /\ channels'[chan'[o].id] = o
  BY <1>1 DEF Inv, Registry
<1>4. \A o \in Objects : chan'[o].state \notin Live => ~waiting(chan'[o])
  BY <1>1 DEF Inv, Registry
<1>5. \A o \in Objects : QueueFits(chan'[o], o)  BY DEF Inv, Registry, Moved
<1> QED  BY <1>2, <1>3, <1>4, <1>5 DEF Registry

(* Types, in a step of the client.                                          *)
LEMMA ClientTypes ==
    ASSUME Inv, ServerKept, NEW A, Sent' = Sent \union A, \A f \in A : FromClient(f),
           chan' \in [Objects -> ChannelType], channels' \in [Numbers -> Objects \union {None}],
           \A n \in Numbers : channels'[n] # None => chan'[channels'[n]].id = n,
           toServer' \in Seq(FrameType), queue' \in Seq(FrameType), toClient' \in Seq(FrameType),
           state' \in {"protocol", "handshake", "connected", "closing", "closed"},
           closed' \in BOOLEAN, running' \in {"no", "frame", "onReady"}, calls' \in 0..MaxCalls,
           maxChannels' \in ChannelMax \union {0}, next' \in 0..MaxNumber,
           told' \in [error : BOOLEAN, closed : BOOLEAN]
    PROVE  Types'
<1>1. TypeOK'  BY DEF TypeOK
<1>2. \A f \in Sent' : FromClient(f)  BY DEF Inv, Types
<1>3. \A g \in Got' : FromServer(g)  BY DEF Inv, Types, ServerKept
<1>4. server' \in ServerType  BY DEF Inv, Types, ServerKept
<1> QED  BY <1>1, <1>2, <1>3, <1>4 DEF Types, FromClient, FromServer

LEMMA TypesStep ==
    ASSUME Inv, ChannelsKept, NEW A, Sent' = Sent \union A, \A f \in A : Addable(f),
           chan' \in [Objects -> ChannelType],
           toServer' \in Seq(FrameType), queue' \in Seq(FrameType), toClient' \in Seq(FrameType),
           state' \in {"protocol", "handshake", "connected", "closing", "closed"},
           closed' \in BOOLEAN, running' \in {"no", "frame", "onReady"}, calls' \in 0..MaxCalls,
           maxChannels' \in ChannelMax \union {0}, next' = next,
           told' \in [error : BOOLEAN, closed : BOOLEAN]
    PROVE  Types'
<1>1. \A n \in Numbers : channels'[n] # None => chan'[channels'[n]].id = n
  BY DEF Inv, Types, TypeOK, ChannelsKept
<1>2. channels' \in [Numbers -> Objects \union {None}] /\ next' \in 0..MaxNumber
  BY DEF Inv, Types, TypeOK, ChannelsKept
<1>3. ASSUME NEW f \in A PROVE FromClient(f)
  <2>1. CASE f.kind \in Greetings \union Final \union {"Heartbeat"} /\ f.channel = 0 /\ f.of = None
    BY <2>1 DEF FromClient
  <2>2. CASE f.kind \in Calls /\ f.of \in Objects /\ f.channel = chan[f.of].id /\ Sending(f.of)
    <3>1. f.channel \in Numbers  BY <2>2, SenderRegistered DEF Inv
    <3> QED  BY <2>2, <3>1 DEF FromClient
  <2> QED  BY <2>1, <2>2 DEF Addable
<1> QED  BY <1>1, <1>2, <1>3, ClientTypes DEF ChannelsKept

(* The parts together, for frames s added at the end of the pipeline.       *)
Growth(s) ==
    /\ s \in Seq(FrameType) /\ Pipeline' = Pipeline \o s
    /\ toServer' \in Seq(FrameType) /\ queue' \in Seq(FrameType)
    /\ Range(queue') \subseteq Range(queue) \union Range(s)
    /\ server.phase \in Greetings => toServer' = toServer

Consumed ==
    \/ UNCHANGED toClient
    \/ toClient # <<>> /\ toClient' = Tail(toClient) /\ server.phase \notin Greetings
Received == Consumed /\ (UNCHANGED toClient \/ Head(toClient).kind # "ChannelClose")

LEMMA ClientKeeps ==
    ASSUME Inv, NEW s, Growth(s), Received,
           UNCHANGED <<channels, maxChannels, next, server>>,
           told' \in [error : BOOLEAN, closed : BOOLEAN], told'.error = told.error,
           chan' \in [Objects -> ChannelType],
           \A o \in Objects : chan'[o] = chan[o] \/ Moved(chan[o], chan'[o], o),
           \A o \in Objects : Sending(o)' => Sending(o),
           \A f \in Range(s) : Addable(f) /\ f.kind \notin Greetings \union {"ConnectionCloseOK"},
           \A f, g : Before(s, f, g) => MayFollow(f, g),
           \A f \in Range(s) : \A o \in Objects :
               f.kind = "ChannelClose" /\ Sending(o)' => f.channel # chan[o].id,
           Silent => s = <<>>,
           \A f \in Range(s) : f.kind = "ConnectionClose" => state' = "closing",
           \/ state' \in {state, "closed"}
           \/ state = "connected" /\ state' = "closing",
           closed' \in BOOLEAN, closed' # closed => ~told.error, closed => closed',
           running' \in {"no", "frame", "onReady"}, running' = "onReady" => running = "onReady",
           calls' \in 0..MaxCalls,
           Ended' => \A o \in Objects : ~waiting(chan'[o])
    PROVE  Inv'
<1>1. Types  BY DEF Inv
<1>2. /\ Sent' = Sent \union Range(s)
      /\ \A f, g : Before(Pipeline', f, g) <=>
            Before(Pipeline, f, g) \/ Before(s, f, g) \/ (f \in Sent /\ g \in Range(s))
      /\ \A f, g : Before(s, f, g) => f \in Range(s) /\ g \in Range(s)
  BY <1>1, PipelineGrows DEF Growth
<1>3. Silent => Range(s) = {}
  <2>1. Range(<<>>) = {}  BY EmptySequence
  <2> QED  BY <2>1
<1>4. /\ \A f, g : Before(Pipeline', f, g) =>
             Before(Pipeline, f, g) \/ (MayFollow(f, g) /\ g \in Range(s))
      /\ \A f, g : Before(Pipeline, f, g) => Before(Pipeline', f, g)
  BY <1>2, <1>3, AddableFollows
<1>5. /\ Got' \subseteq Got /\ \A g, h : Before(toClient', g, h) => Before(toClient, g, h)
      /\ \A g \in Got : g.kind = "ChannelClose" => g \in Got'
  <2>1. CASE UNCHANGED toClient  BY <2>1 DEF Got
  <2>2. CASE toClient # <<>> /\ toClient' = Tail(toClient) /\ Head(toClient).kind # "ChannelClose"
    BY <1>1, <2>2, GotShrinks
  <2> QED  BY <2>1, <2>2 DEF Received, Consumed
<1>6. ChannelsKept
  <2>1. \A o \in Objects : chan'[o].id = chan[o].id /\ (chan'[o].state = "none" <=> chan[o].state = "none")
    BY DEF Moved, Live
  <2> QED  BY <1>5, <2>1 DEF ChannelsKept, ServerKept
<1>7. toClient' \in Seq(FrameType)
  <2>1. toClient \in Seq(FrameType)  BY <1>1, PipelineTypes
  <2>2. toClient # <<>> => Tail(toClient) \in Seq(FrameType)  BY <2>1, HeadTailProperties
  <2> QED  BY <2>1, <2>2 DEF Received, Consumed
<1>8. Types'
  <2>1. state' \in {"protocol", "handshake", "connected", "closing", "closed"}
    BY <1>1 DEF Types, TypeOK
  <2>2. maxChannels' \in ChannelMax \union {0} /\ next' = next /\ told' \in [error : BOOLEAN, closed : BOOLEAN]
    BY <1>1 DEF Types, TypeOK
  <2>3. toServer' \in Seq(FrameType) /\ queue' \in Seq(FrameType)  BY DEF Growth
  <2>4. \A f \in Range(s) : Addable(f)  OBVIOUS
  <2> QED  BY <1>2, <1>6, <1>7, <2>1, <2>2, <2>3, <2>4, TypesStep
<1>9. Registry'  BY RegistryStep
<1>10. Owned' /\ Order' /\ View' /\ Reuse'
  <2>1. Opens' => Opens  BY DEF Opens, usable
  <2>2. \A f \in Range(s) : Addable(f)  OBVIOUS
  <2> QED  BY <1>2, <1>4, <1>5, <1>6, <1>8, <2>1, <2>2, ClientStep
<1>11. End'
  <2>1. Ended => Ended'  BY DEF Ended
  <2>2. Silent => Silent'  BY <2>1 DEF Silent
  <2>3. \A f \in Range(s) : f.kind = "ConnectionClose" => Ended'  BY DEF Ended
  <2>4. \A f \in Range(s) : f.kind = "ConnectionCloseOK" =>
            Silent' /\ server.phase \in {"closing", "closed"}
    OBVIOUS
  <2>5. told'.error => told.error  OBVIOUS
  <2> QED  BY <1>2, <1>3, <1>6, <1>8, <2>1, <2>2, <2>3, <2>4, <2>5, EndStep DEF ChannelsKept
<1>12. Hand'
  <2>1. server.phase \in Greetings => toServer' = toServer /\ toClient' = toClient
    BY DEF Growth, Received, Consumed
  <2>2. Range(queue') \subseteq Range(queue) \union Range(s)  BY DEF Growth
  <2> QED  BY <1>2, <1>6, <2>1, <2>2, HandStep DEF ChannelsKept
<1>13. NothingLeftBehind' /\ NoSurprise'  BY DEF Inv, NothingLeftBehind, NoSurprise, Ended
<1> QED  BY <1>8, <1>9, <1>10, <1>11, <1>12, <1>13 DEF Inv

-----------------------------------------------------------------------------
(* What the ways of sending do to the pipeline.                             *)

LEMMA Regroup ==
    \A s, t, u \in Seq(FrameType) : (s \o t) \o u = s \o (t \o u)
BY ConcatAssociative

LEMMA NoGrowth ==
    ASSUME Types, UNCHANGED <<toServer, queue>>
    PROVE  Growth(<<>>)
<1>1. toServer \in Seq(FrameType) /\ queue \in Seq(FrameType) /\ Pipeline \in Seq(FrameType)
  BY PipelineTypes
<1>2. Pipeline \o <<>> = Pipeline /\ <<>> \in Seq(FrameType)  BY <1>1, ConcatEmptySeq
<1> QED  BY <1>1, <1>2 DEF Growth, Pipeline

(* The same frames, at the end of the queue or on the wire before an empty  *)
(* queue.                                                                   *)
LEMMA GrowthAtEnd ==
    ASSUME Types, NEW s \in Seq(FrameType),
           \/ queue' = queue \o s /\ UNCHANGED toServer
           \/ /\ queue = <<>> /\ toServer' = toServer \o s /\ UNCHANGED queue
              /\ server.phase \notin Greetings
    PROVE  Growth(s)
<1>1. toServer \in Seq(FrameType) /\ queue \in Seq(FrameType)  BY PipelineTypes
<1>2. CASE queue' = queue \o s /\ UNCHANGED toServer
  <2>1. queue \o s \in Seq(FrameType)  BY <1>1, ConcatProperties
  <2>2. toServer \o (queue \o s) = (toServer \o queue) \o s  BY <1>1, Regroup
  <2>3. Range(queue \o s) = Range(queue) \union Range(s)  BY <1>1, RangeConcatenation
  <2> QED  BY <1>1, <1>2, <2>1, <2>2, <2>3 DEF Growth, Pipeline
<1>3. CASE /\ queue = <<>> /\ toServer' = toServer \o s /\ UNCHANGED queue
           /\ server.phase \notin Greetings
  <2>1. toServer \o s \in Seq(FrameType)  BY <1>1, ConcatProperties
  <2>2. (toServer \o s) \o <<>> = toServer \o s /\ toServer \o <<>> = toServer
    BY <1>1, <2>1, ConcatEmptySeq
  <2> QED  BY <1>1, <1>3, <2>1, <2>2 DEF Growth, Pipeline
<1> QED  BY <1>2, <1>3

(* ConnectionImpl::send, for frames that are no part of the handshake.      *)
LEMMA SendGrows ==
    ASSUME Inv, NEW f \in FrameType, Catalogue[f.kind].handshake = FALSE, send(f)
    PROVE  \/ Accepts(f) /\ Growth(<<f>>)
           \/ ~Accepts(f) /\ Growth(<<>>)
<1>1. Types  BY DEF Inv
<1>2. CASE ~Accepts(f) /\ UNCHANGED <<queue, toServer>>  BY <1>1, <1>2, NoGrowth
<1>3. CASE Accepts(f) /\ Put(f)
  <2>1. <<f>> \in Seq(FrameType)  BY OneElement
  <2>2. /\ Append(queue, f) = queue \o <<f>> /\ Append(toServer, f) = toServer \o <<f>>
    BY <1>1, PipelineTypes, AppendOrder
  <2>3. Direct(f) => queue = <<>> /\ server.phase \notin Greetings
    BY ConnectedFacts DEF Direct, HeldBack
  <2> QED  BY <1>1, <1>3, <2>1, <2>2, <2>3, GrowthAtEnd DEF Put
<1> QED  BY <1>2, <1>3 DEF send

(* ConnectionImpl::sendClose.                                               *)
LEMMA OwnFrame ==
    ASSUME NEW kind \in Kinds
    PROVE  /\ Own(kind) \in FrameType /\ Own(kind).kind = kind
           /\ Own(kind).channel = 0 /\ Own(kind).of = None
BY ConnectionAssumption DEF Own, Frame, FrameType

LEMMA SendCloseGrows ==
    ASSUME Inv, state = "connected", sendClose(queue, <<>>)
    PROVE  Growth(<<Own("ConnectionClose")>>)
<1> DEFINE f == Own("ConnectionClose")
<1>1. Types  BY DEF Inv
<1>2. f \in FrameType  BY OwnFrame, PartFacts DEF Final
<1>3. <<f>> \in Seq(FrameType)  BY <1>2, OneElement
<1> HIDE DEF f
<1>4. toServer \in Seq(FrameType) /\ queue \in Seq(FrameType)  BY <1>1, PipelineTypes
<1>5. Append(queue, f) = queue \o <<f>> /\ toServer \o <<>> = toServer
  BY <1>2, <1>4, AppendOrder, ConcatEmptySeq
<1>6. server.phase \notin Greetings  BY ConnectedFacts
<1> QED  BY <1>1, <1>3, <1>5, <1>6, GrowthAtEnd DEF sendClose, HeldBack, f

-----------------------------------------------------------------------------
(* The actions that leave the channels alone.                               *)

(* If no registered channel waits, no channel does.                         *)
LEMMA NobodyWaits ==
    ASSUME Inv, ~waitingChannels(chan)
    PROVE  \A o \in Objects : ~waiting(chan[o])
<1> SUFFICES ASSUME NEW o \in Objects, waiting(chan[o]) PROVE FALSE  OBVIOUS
<1>1. chan[o].state \in Live  BY DEF Inv, Registry
<1>2. chan[o].id \in Numbers /\ channels[chan[o].id] = o  BY <1>1 DEF Inv, Registry
<1>3. o # None  BY ConnectionAssumption
<1> QED  BY <1>2, <1>3 DEF waitingChannels

LEMMA OwnKeeps ==
    ASSUME Inv, NEW s, Growth(s), Received,
           UNCHANGED <<channels, maxChannels, next, server, chan>>,
           told' \in [error : BOOLEAN, closed : BOOLEAN], told'.error = told.error,
           \/ s = <<>>
           \/ ~Silent /\ s = <<Own("Heartbeat")>>
           \/ ~Silent /\ s = <<Own("ConnectionClose")>> /\ state' = "closing",
           \/ state' \in {state, "closed"}
           \/ state = "connected" /\ state' = "closing",
           closed' \in BOOLEAN, closed' # closed => ~told.error, closed => closed',
           running' \in {"no", "frame", "onReady"}, running' = "onReady" => running = "onReady",
           calls' \in 0..MaxCalls,
           Ended' => \A o \in Objects : ~waiting(chan[o])
    PROVE  Inv'
<1>1. {"Heartbeat", "ConnectionClose"} \subseteq Kinds  BY PartFacts DEF Final
<1>2. \A k \in {"Heartbeat", "ConnectionClose"} :
          /\ Own(k) \in FrameType /\ Own(k).kind = k /\ Own(k).channel = 0 /\ Own(k).of = None
  BY <1>1, OwnFrame
<1>3. \/ Range(s) = {}
      \/ ~Silent /\ Range(s) = {Own("Heartbeat")}
      \/ ~Silent /\ Range(s) = {Own("ConnectionClose")} /\ state' = "closing"
  BY <1>2, OneElement, EmptySequence
<1>4. \A f, g : ~Before(s, f, g)  BY <1>2, OneElement, EmptySequence
<1>5. \A f \in Range(s) : f.kind \in {"Heartbeat", "ConnectionClose"} /\ f.channel = 0 /\ f.of = None
  BY <1>2, <1>3
<1>6. \A f \in Range(s) : Addable(f) /\ f.kind \notin Greetings \union {"ConnectionCloseOK"}
  BY <1>5 DEF Addable, Final, Greetings
<1>7. \A f \in Range(s) : f.kind # "ChannelClose"  BY <1>5
<1>8. \A f \in Range(s) : f.kind = "ConnectionClose" => state' = "closing"  BY <1>2, <1>3
<1>9. chan' \in [Objects -> ChannelType] /\ \A o \in Objects : chan'[o] = chan[o]
  BY DEF Inv, Types
<1>10. \A o \in Objects : Sending(o)' => Sending(o)  BY DEF Sending
<1> QED  BY <1>4, <1>6, <1>7, <1>8, <1>9, <1>10, ClientKeeps

(* ConnectionImpl::heartbeat.                                               *)
LEMMA HeartbeatInv == ASSUME Inv, heartbeat PROVE Inv'
<1> USE DEF heartbeat
<1>1. "Heartbeat" \in Kinds /\ Catalogue["Heartbeat"].handshake = FALSE  BY PartFacts
<1>2. Own("Heartbeat") \in FrameType /\ Own("Heartbeat").kind = "Heartbeat"  BY <1>1, OwnFrame
<1>3. \/ Accepts(Own("Heartbeat")) /\ Growth(<<Own("Heartbeat")>>)
      \/ ~Accepts(Own("Heartbeat")) /\ Growth(<<>>)
  BY <1>1, <1>2, SendGrows
<1>4. Accepts(Own("Heartbeat")) => ~Silent  BY DEF Accepts, Silent, Ended, MayCall
<1>5. Received /\ calls' \in 0..MaxCalls /\ closed' \in BOOLEAN
      /\ running' \in {"no", "frame", "onReady"} /\ told' \in [error : BOOLEAN, closed : BOOLEAN]
  BY ConnectionAssumption DEF Inv, Types, TypeOK, Received, Consumed
<1>6. Ended' => \A o \in Objects : ~waiting(chan[o])  BY DEF Inv, NothingLeftBehind, Ended
<1>7. UNCHANGED <<channels, maxChannels, next, server, told, chan, state, closed, running>>  OBVIOUS
<1> HIDE DEF heartbeat
<1>8. CASE Accepts(Own("Heartbeat")) /\ Growth(<<Own("Heartbeat")>>)
  BY <1>4, <1>5, <1>6, <1>7, <1>8, OwnKeeps
<1>9. CASE Growth(<<>>)  BY <1>5, <1>6, <1>7, <1>9, OwnKeeps
<1> QED  BY <1>3, <1>8, <1>9

(* The end of ConnectionImpl::parse.                                        *)
LEMMA ParseEndInv == ASSUME Inv, parseEnd PROVE Inv'
<1>1. /\ UNCHANGED <<channels, maxChannels, next, server, told, chan, closed, calls>>
      /\ Received /\ running' = "no"
  BY DEF parseEnd, Received, Consumed
<1>2. closed' \in BOOLEAN /\ calls' \in 0..MaxCalls /\ told' \in [error : BOOLEAN, closed : BOOLEAN]
  BY <1>1 DEF Inv, Types, TypeOK
<1>3. CASE closed /\ state = "connected" /\ ~waitingChannels(chan) /\ sendClose(queue, <<>>)
  <2>1. Growth(<<Own("ConnectionClose")>>)  BY <1>3, SendCloseGrows
  <2>2. state' = "closing"  BY <1>3 DEF sendClose
  <2>3. ~Silent  BY <1>3 DEF Silent, Ended
  <2>4. \A o \in Objects : ~waiting(chan[o])  BY <1>3, NobodyWaits
  <2> QED  BY <1>1, <1>2, <1>3, <2>1, <2>2, <2>3, <2>4, OwnKeeps
<1>4. CASE UNCHANGED <<state, queue, toServer>>
  <2>1. Growth(<<>>)  BY <1>4, NoGrowth DEF Inv
  <2>2. Ended' => \A o \in Objects : ~waiting(chan[o])
    BY <1>4 DEF Inv, NothingLeftBehind, Ended
  <2> QED  BY <1>1, <1>2, <1>4, <2>1, <2>2, OwnKeeps
<1> QED  BY <1>3, <1>4 DEF parseEnd

(* ConnectionImpl::setReady, from the return of onReady() on.               *)
LEMMA OnReadyInv == ASSUME Inv, onReadyReturns PROVE Inv'
<1>1. /\ UNCHANGED <<channels, maxChannels, next, server, told, chan, closed, calls>>
      /\ Received /\ running' = "frame" /\ running = "onReady"
  BY DEF onReadyReturns, Received, Consumed
<1>2. closed' \in BOOLEAN /\ calls' \in 0..MaxCalls /\ told' \in [error : BOOLEAN, closed : BOOLEAN]
  BY <1>1 DEF Inv, Types, TypeOK
<1>3. server.phase \notin Greetings  BY <1>1 DEF Inv, Hand
<1>4. toServer \in Seq(FrameType) /\ queue \in Seq(FrameType) /\ Pipeline \in Seq(FrameType)
  BY PipelineTypes DEF Inv
<1>5. <<>> \in Seq(FrameType) /\ Range(<<>>) = {}  BY EmptySequence
<1>6. Pipeline \o <<>> = Pipeline  BY <1>4, ConcatEmptySeq
<1>7. CASE closed /\ state = "connected" /\ ~waitingChannels(chan) /\ sendClose(<<>>, queue)
  <2> DEFINE f == Own("ConnectionClose")
  <2>1. f \in FrameType  BY OwnFrame, PartFacts DEF Final
  <2>2. <<f>> \in Seq(FrameType)  BY <2>1, OneElement
  <2>3. toServer' = toServer \o queue \o <<f>> /\ queue' = <<>> /\ state' = "closing"
    BY <1>7 DEF sendClose, HeldBack
  <2> HIDE DEF f
  <2>4. Pipeline \o <<f>> \in Seq(FrameType)  BY <1>4, <2>2, ConcatProperties
  <2>5. (Pipeline \o <<f>>) \o <<>> = Pipeline \o <<f>>  BY <2>4, ConcatEmptySeq
  <2>6. Growth(<<f>>)  BY <1>3, <1>5, <2>2, <2>3, <2>4, <2>5 DEF Growth, Pipeline
  <2>7. ~Silent  BY <1>7 DEF Silent, Ended
  <2>8. \A o \in Objects : ~waiting(chan[o])  BY <1>7, NobodyWaits
  <2> QED  BY <1>1, <1>2, <1>7, <2>3, <2>6, <2>7, <2>8, OwnKeeps DEF f
<1>8. CASE toServer' = toServer \o queue /\ queue' = <<>> /\ UNCHANGED state
  <2>1. Growth(<<>>)  BY <1>3, <1>4, <1>5, <1>6, <1>8 DEF Growth, Pipeline
  <2>2. Ended' => \A o \in Objects : ~waiting(chan[o])
    BY <1>8 DEF Inv, NothingLeftBehind, Ended
  <2> QED  BY <1>1, <1>2, <1>8, <2>1, <2>2, OwnKeeps
<1> QED  BY <1>7, <1>8 DEF onReadyReturns

(* A frame that is no part of the handshake is received.                    *)
LEMMA ReceiveFacts ==
    ASSUME Inv, NEW handler, Receive(handler), handler \notin {"start", "tune"}
    PROVE  /\ Consumed /\ server.phase \notin Greetings
           /\ handler # "reportError" => Received
<1>1. /\ Head(toClient) \in Got /\ Head(toClient).kind \in DOMAIN Handler
      /\ Handler[Head(toClient).kind] = handler
      /\ toClient # <<>> /\ toClient' = Tail(toClient)
  BY ReceivedKind DEF Inv
<1>2. /\ Head(toClient).kind \notin {"ConnectionStart", "ConnectionTune"}
      /\ handler # "reportError" => Head(toClient).kind # "ChannelClose"
  BY <1>1 DEF Handler
<1>3. ASSUME server.phase \in Greetings PROVE FALSE
  <2>1. Stage  BY <1>3 DEF Inv, Hand
  <2>2. \/ toClient = <<Own("ConnectionStart")>>
        \/ \E max \in ChannelMax : toClient = <<Frame("ConnectionTune", 0, max)>>
    BY <1>1, <2>1 DEF Stage, At
  <2> QED  BY <1>2, <2>2 DEF Own, Frame
<1> QED  BY <1>1, <1>2, <1>3 DEF Received, Consumed

(* ConnectionCloseOKFrame::process.                                         *)
LEMMA ConnectionClosedInv == ASSUME Inv, connectionClosed PROVE Inv'
<1>1. Receive("connectionClosed")  BY DEF connectionClosed
<1>2. Received /\ server.phase \notin Greetings  BY <1>1, ReceiveFacts
<1>3. Head(toClient) \in Got /\ Head(toClient).kind = "ConnectionCloseOK"
  BY <1>1, ReceivedKind DEF Inv, Handler
<1>4. Ended  BY <1>3 DEF Inv, End
<1>5. /\ UNCHANGED <<channels, maxChannels, next, server, chan, closed, calls>>
      /\ running' = "frame" /\ state' = "closed"
  BY DEF connectionClosed
<1>6. told' \in [error : BOOLEAN, closed : BOOLEAN] /\ told'.error = told.error
  BY DEF connectionClosed, Inv, Types
<1>7. Growth(<<>>)  BY NoGrowth DEF Inv, connectionClosed
<1>8. closed' \in BOOLEAN /\ calls' \in 0..MaxCalls  BY <1>5 DEF Inv, Types, TypeOK
<1>9. \A o \in Objects : ~waiting(chan[o])  BY <1>4 DEF Inv, NothingLeftBehind, Ended
<1> QED  BY <1>2, <1>5, <1>6, <1>7, <1>8, <1>9, OwnKeeps

(* A frame for a number without a channel.                                  *)
LEMMA IgnoredInv == ASSUME Inv, ignored PROVE Inv'
<1>1. PICK handler \in {"reportReady", "reportSuccess", "reportClosed"} : Receive(handler)
  BY DEF ignored
<1>2. Received /\ server.phase \notin Greetings  BY <1>1, ReceiveFacts
<1>3. /\ UNCHANGED <<channels, maxChannels, next, server, chan, closed, calls, told, state>>
      /\ running' = "frame"
  BY DEF ignored, connVars
<1>4. Growth(<<>>)  BY NoGrowth DEF Inv, ignored, connVars
<1>5. closed' \in BOOLEAN /\ calls' \in 0..MaxCalls /\ told' \in [error : BOOLEAN, closed : BOOLEAN]
  BY <1>3 DEF Inv, Types, TypeOK
<1>6. Ended' => \A o \in Objects : ~waiting(chan[o])  BY <1>3 DEF Inv, NothingLeftBehind, Ended
<1> QED  BY <1>2, <1>3, <1>4, <1>5, <1>6, OwnKeeps

-----------------------------------------------------------------------------
(* The actions of one channel.                                              *)

(* One object changes.                                                      *)
Becomes(o, st, q, b) ==
    /\ chan' \in [Objects -> ChannelType]
    /\ \A p \in Objects \ {o} : chan'[p] = chan[p]
    /\ chan'[o].id = chan[o].id /\ chan'[o].state = st
    /\ chan'[o].queue = q /\ chan'[o].synchronous = b

LEMMA BecomesFacts ==
    ASSUME Types, NEW o \in Objects, NEW c \in ChannelType, c.id = chan[o].id,
           chan' = [chan EXCEPT ![o] = c]
    PROVE  Becomes(o, c.state, c.queue, c.synchronous)
BY DEF Types, Becomes

(* Two channels that send have different numbers.                           *)
LEMMA SendersDiffer ==
    ASSUME Inv, NEW o \in Objects, NEW p \in Objects, Sending(o), Sending(p), chan[o].id = chan[p].id
    PROVE  o = p
BY SenderRegistered DEF Inv

(* ChannelImpl::send on a usable channel.                                   *)
LEMMA ChannelSendInv ==
    ASSUME Inv, NEW o \in Objects, NEW kind \in Calls, MayCall,
           chan[o].state \in {"connected", "ready"},
           channelSend(o, Frame(kind, chan[o].id, o)),
           UNCHANGED <<state, closed, maxChannels, next, channels, running, told, toClient, server>>,
           calls' \in 0..MaxCalls
    PROVE  Inv'
<1> DEFINE f == Frame(kind, chan[o].id, o)
           st == IF kind = "ChannelClose" THEN "closing" ELSE chan[o].state
<1>1. /\ Types /\ Registry /\ chan \in [Objects -> ChannelType] /\ chan[o] \in ChannelType
      /\ chan[o].queue \in Seq(FrameType) /\ chan[o].synchronous \in BOOLEAN
      /\ chan[o].id \in 0..MaxNumber
  BY DEF Inv, Types, ChannelType
<1>2. f \in FrameType /\ f.kind = kind /\ f.channel = chan[o].id /\ f.of = o
      /\ Catalogue[kind].handshake = FALSE
  BY <1>1, PartFacts DEF Frame, FrameType
<1>3. st \in Live /\ chan[o].state \in Live  BY DEF Live
<1>4. Sending(o)  BY DEF Sending
<1>5. /\ channelSend(o, f) /\ Received /\ closed' \in BOOLEAN
      /\ told' \in [error : BOOLEAN, closed : BOOLEAN] /\ running' \in {"no", "frame", "onReady"}
  BY DEF Inv, Types, TypeOK, Received, Consumed
<1>6. Ended' => \A p \in Objects : ~waiting(chan[p])  BY DEF Inv, NothingLeftBehind, Ended
<1>7. Addable(f) /\ kind \notin Greetings \union {"ConnectionCloseOK", "ConnectionClose"}
  BY <1>2, <1>4 DEF Addable, Calls, Requests, Greetings
<1> HIDE DEF f, st
<1>8. CASE /\ waiting(chan[o])
           /\ chan' = [chan EXCEPT ![o].queue = Append(@, f),
                                   ![o].state = IF f.kind = "ChannelClose" THEN "closing" ELSE @]
           /\ UNCHANGED <<queue, toServer>>
  <2> DEFINE q == Append(chan[o].queue, f)
  <2>1. /\ q \in Seq(FrameType) /\ Len(q) = Len(chan[o].queue) + 1 /\ q[Len(chan[o].queue) + 1] = f
        /\ \A i \in 1..Len(chan[o].queue) : q[i] = chan[o].queue[i]
    BY <1>1, <1>2, AppendProperties
  <2> HIDE DEF q
  <2> DEFINE d == [chan[o] EXCEPT !.queue = q, !.state = st]
  <2>2. chan' = [chan EXCEPT ![o] = d]  BY <1>1, <1>2, <1>8 DEF ChannelType, st, q
  <2>3. Becomes(o, st, q, chan[o].synchronous)
    <3>1. /\ d \in ChannelType /\ d.id = chan[o].id /\ d.state = st /\ d.queue = q
          /\ d.synchronous = chan[o].synchronous
      BY <1>1, <1>3, <2>1 DEF ChannelType
    <3> HIDE DEF d
    <3> QED  BY <1>1, <2>2, <3>1, BecomesFacts
  <2>4. Len(chan[o].queue) \in Nat  BY <1>1, LenProperties
  <2>5. QueueFits(chan'[o], o)
    <3> SUFFICES ASSUME NEW i \in 1..Len(q)
                 PROVE  /\ q[i].kind \in Calls /\ q[i].channel = chan[o].id /\ q[i].of = o
                        /\ q[i].kind = "ChannelClose" => i = Len(q) /\ st = "closing"
      BY <2>3 DEF QueueFits, Becomes
    <3>1. CASE i = Len(chan[o].queue) + 1  BY <1>2, <2>1, <3>1 DEF st
    <3>2. CASE i # Len(chan[o].queue) + 1
      <4>1. i \in 1..Len(chan[o].queue)  BY <2>1, <2>4, <3>2
      <4>2. q[i] = chan[o].queue[i]  BY <2>1, <4>1
      <4>3. QueueFits(chan[o], o) /\ chan[o].state # "closing"  BY <1>1 DEF Registry
      <4> QED  BY <4>1, <4>2, <4>3 DEF QueueFits
    <3> QED  BY <3>1, <3>2
  <2>6. Moved(chan[o], chan'[o], o)  BY <1>3, <2>3, <2>5 DEF Moved, Becomes
  <2>7. \A p \in Objects : chan'[p] = chan[p] \/ Moved(chan[p], chan'[p], p)
    BY <2>3, <2>6 DEF Becomes
  <2>8. \A p \in Objects : Sending(p)' => Sending(p)  BY <1>4, <2>3 DEF Becomes, Sending
  <2>9. Growth(<<>>)  BY <1>1, <1>8, NoGrowth
  <2>10. ~Ended'  BY <1>6, <1>8
  <2>11. chan' \in [Objects -> ChannelType]  BY <2>3 DEF Becomes
  <2>12. Range(<<>>) = {} /\ \A x, y : ~Before(<<>>, x, y)  BY EmptySequence
  <2> QED  BY <1>5, <2>7, <2>8, <2>9, <2>10, <2>11, <2>12, ClientKeeps
<1>9. CASE /\ ~waiting(chan[o]) /\ Accepts(f) /\ Put(f)
           /\ chan' = [chan EXCEPT ![o].synchronous = f.kind \in SynchronousKinds,
                                   ![o].state = IF f.kind = "ChannelClose" THEN "closing" ELSE @]
  <2> DEFINE b == f.kind \in SynchronousKinds
  <2>1. b \in BOOLEAN /\ chan[o].queue = <<>>  BY <1>9 DEF waiting
  <2> HIDE DEF b
  <2> DEFINE d == [chan[o] EXCEPT !.synchronous = b, !.state = st]
  <2>2. chan' = [chan EXCEPT ![o] = d]  BY <1>1, <1>2, <1>9 DEF ChannelType, st, b
  <2>3. Becomes(o, st, chan[o].queue, b)
    <3>1. /\ d \in ChannelType /\ d.id = chan[o].id /\ d.state = st /\ d.queue = chan[o].queue
          /\ d.synchronous = b
      BY <1>1, <1>3, <2>1 DEF ChannelType
    <3> HIDE DEF d
    <3> QED  BY <1>1, <2>2, <3>1, BecomesFacts
  <2>4. QueueFits(chan'[o], o)
    <3>1. Len(<<>>) = 0  OBVIOUS
    <3> QED  BY <2>1, <2>3, <3>1 DEF QueueFits, Becomes
  <2>5. Moved(chan[o], chan'[o], o)  BY <1>3, <2>3, <2>4 DEF Moved, Becomes
  <2>6. \A p \in Objects : chan'[p] = chan[p] \/ Moved(chan[p], chan'[p], p)
    BY <2>3, <2>5 DEF Becomes
  <2>7. \A p \in Objects : Sending(p)' => Sending(p)  BY <1>4, <2>3 DEF Becomes, Sending
  <2>8. Growth(<<f>>)
    <3>1. send(f)  BY <1>9 DEF send
    <3> QED  BY <1>2, <1>9, <3>1, SendGrows
  <2>9. <<f>> \in Seq(FrameType) /\ Range(<<f>>) = {f} /\ \A x, y : ~Before(<<f>>, x, y)
    BY <1>2, OneElement
  <2>10. ~Ended' /\ ~Silent  BY <1>9 DEF Accepts, Ended, Silent, MayCall
  <2>11. ASSUME NEW p \in Objects, f.kind = "ChannelClose", Sending(p)' PROVE f.channel # chan[p].id
    <3>1. p # o  BY <1>2, <2>1, <2>3, <2>11 DEF Sending, Becomes, st
    <3>2. Sending(p)  BY <2>7, <2>11
    <3> QED  BY <1>2, <1>4, <3>1, <3>2, SendersDiffer
  <2>12. chan' \in [Objects -> ChannelType]  BY <2>3 DEF Becomes
  <2> QED  BY <1>2, <1>5, <1>7, <2>6, <2>7, <2>8, <2>9, <2>10, <2>11, <2>12, ClientKeeps
<1>10. CASE UNCHANGED <<chan, queue, toServer>>
  <2>1. Growth(<<>>)  BY <1>1, <1>10, NoGrowth
  <2> QED  BY <1>5, <1>6, <1>10, <2>1, OwnKeeps
<1> QED  BY <1>5, <1>8, <1>9, <1>10 DEF channelSend

(* Operations of a channel, and Channel::close.                             *)
LEMMA CallInv == ASSUME Inv, NEW o \in Objects, callChannel(o) \/ closeChannel(o) PROVE Inv'
<1>1. CASE callChannel(o)
  <2>1. PICK kind \in {"QueueDeclare", "BasicAck"} : channelSend(o, Frame(kind, chan[o].id, o))
    BY <1>1 DEF callChannel
  <2>2. kind \in Calls  BY DEF Calls, Requests
  <2>3. calls' \in 0..MaxCalls  BY <1>1, ConnectionAssumption DEF callChannel, Inv, Types, TypeOK
  <2> QED  BY <1>1, <2>1, <2>2, <2>3, ChannelSendInv DEF callChannel
<1>2. CASE closeChannel(o)
  <2>1. "ChannelClose" \in Calls  BY DEF Calls, Requests
  <2>2. calls' \in 0..MaxCalls  BY <1>2 DEF closeChannel, Inv, Types, TypeOK
  <2> QED  BY <1>2, <2>1, <2>2, ChannelSendInv DEF closeChannel
<1> QED  BY <1>1, <1>2

(* ConnectionImpl::close.                                                   *)
LEMMA CloseInv == ASSUME Inv, close PROVE Inv'
<1>1. /\ MayCall /\ ~closed /\ closed' = TRUE /\ chan' = ChannelsClosed
      /\ UNCHANGED <<maxChannels, next, channels, running, calls, told, toClient, server>>
  BY DEF close
<1>2. /\ Types /\ Registry /\ chan \in [Objects -> ChannelType]
      /\ told' \in [error : BOOLEAN, closed : BOOLEAN] /\ Received
      /\ running' \in {"no", "frame", "onReady"} /\ calls' \in 0..MaxCalls
  BY <1>1 DEF Inv, Types, TypeOK, Received, Consumed
<1>3. CASE state = "connected" /\ ~waitingChannels(chan) /\ sendClose(queue, <<>>)
  <2>1. Growth(<<Own("ConnectionClose")>>)  BY <1>3, SendCloseGrows
  <2>2. state' = "closing" /\ ~Silent  BY <1>1, <1>3 DEF sendClose, Silent, Ended, MayCall
  <2>3. \A o \in Objects : ~waiting(chan[o])  BY <1>3, NobodyWaits
  <2>4. chan' = chan  BY <1>1, <1>2, <2>3 DEF ChannelsClosed
  <2> QED  BY <1>1, <1>2, <1>3, <2>1, <2>2, <2>3, <2>4, OwnKeeps DEF MayCall
<1>4. CASE UNCHANGED <<state, queue, toServer>>
  <2>1. ASSUME NEW o \in Objects
        PROVE  /\ chan'[o] \in ChannelType
               /\ chan'[o] = chan[o] \/ Moved(chan[o], chan'[o], o)
               /\ Sending(o)' => Sending(o)
               /\ Ended' => ~waiting(chan'[o])
    <3>1. chan[o] \in ChannelType /\ chan[o].queue \in Seq(FrameType) /\ chan[o].id \in 0..MaxNumber
      BY <1>2 DEF ChannelType
    <3>2. Ended' => ~waiting(chan[o])  BY <1>4 DEF Inv, NothingLeftBehind, Ended
    <3>3. CASE Registered(o) /\ chan[o].state \in {"connected", "ready"} /\ waiting(chan[o])
      <4> DEFINE f == Frame("ChannelClose", chan[o].id, o)
                 q == Append(chan[o].queue, f)
      <4>1. f \in FrameType /\ f.kind = "ChannelClose" /\ f.channel = chan[o].id /\ f.of = o
        BY <3>1, PartFacts DEF Frame, FrameType, Calls, Requests
      <4> HIDE DEF f
      <4>2. /\ q \in Seq(FrameType) /\ Len(q) = Len(chan[o].queue) + 1
            /\ q[Len(chan[o].queue) + 1] = f
            /\ \A i \in 1..Len(chan[o].queue) : q[i] = chan[o].queue[i]
        BY <3>1, <4>1, AppendProperties
      <4>3. chan'[o] = [chan[o] EXCEPT !.queue = q, !.state = "closing"]
        BY <1>1, <3>3 DEF ChannelsClosed, f
      <4> HIDE DEF q
      <4>4. /\ chan'[o] \in ChannelType /\ chan'[o].id = chan[o].id /\ chan'[o].state = "closing"
            /\ chan'[o].queue = q
        BY <3>1, <4>2, <4>3 DEF ChannelType, Live
      <4>5. Len(chan[o].queue) \in Nat  BY <3>1, LenProperties
      <4>6. QueueFits(chan'[o], o)
        <5> SUFFICES ASSUME NEW i \in 1..Len(q)
                     PROVE  /\ q[i].kind \in Calls /\ q[i].channel = chan[o].id /\ q[i].of = o
                            /\ q[i].kind = "ChannelClose" => i = Len(q)
          BY <4>4 DEF QueueFits
        <5>1. CASE i = Len(chan[o].queue) + 1  BY <4>1, <4>2, <5>1 DEF Calls, Requests
        <5>2. CASE i # Len(chan[o].queue) + 1
          <6>1. i \in 1..Len(chan[o].queue)  BY <4>2, <4>5, <5>2
          <6>2. q[i] = chan[o].queue[i]  BY <4>2, <6>1
          <6>3. QueueFits(chan[o], o) /\ chan[o].state # "closing"  BY <1>2, <3>3 DEF Registry
          <6> QED  BY <6>1, <6>2, <6>3 DEF QueueFits
        <5> QED  BY <5>1, <5>2
      <4>7. Moved(chan[o], chan'[o], o)  BY <3>3, <4>4, <4>6 DEF Moved, Live
      <4> QED  BY <3>2, <3>3, <4>4, <4>7 DEF Sending
    <3>4. CASE ~(Registered(o) /\ chan[o].state \in {"connected", "ready"} /\ waiting(chan[o]))
      <4>1. chan'[o] = chan[o]  BY <1>1, <3>4 DEF ChannelsClosed
      <4> QED  BY <3>1, <3>2, <4>1 DEF Sending
    <3> QED  BY <3>3, <3>4
  <2>2. chan' \in [Objects -> ChannelType]
    <3>1. chan' = [o \in Objects |-> chan'[o]]  BY <1>1 DEF ChannelsClosed
    <3> QED  BY <2>1, <3>1
  <2>3. Growth(<<>>)  BY <1>2, <1>4, NoGrowth
  <2>4. Range(<<>>) = {} /\ \A x, y : ~Before(<<>>, x, y)  BY EmptySequence
  <2> QED  BY <1>1, <1>2, <1>4, <2>1, <2>2, <2>3, <2>4, ClientKeeps DEF MayCall
<1> QED  BY <1>3, <1>4 DEF close

(* ChannelImpl::flush, for object o in its new form c.                      *)
LEMMA FlushInv ==
    ASSUME Inv, NEW o \in Objects, NEW c \in ChannelType, flush(o, c), Received,
           c.id = chan[o].id, c.queue = chan[o].queue, c.state \in Live, chan[o].state \in Live,
           chan[o].state = "closing" <=> c.state = "closing", ~told.error, running' = "frame",
           UNCHANGED <<state, closed, maxChannels, next, channels, calls, told, server>>
    PROVE  Inv'
<1>1. /\ Types /\ c.queue \in Seq(FrameType) /\ closed' \in BOOLEAN /\ calls' \in 0..MaxCalls
      /\ told' \in [error : BOOLEAN, closed : BOOLEAN]
  BY DEF Inv, Types, TypeOK, ChannelType
<1>2. QueueFits(c, o)
  <2>1. QueueFits(chan[o], o)  BY DEF Inv, Registry
  <2> QED  BY <2>1 DEF QueueFits
<1>3. Ended' => \A p \in Objects : ~waiting(chan[p])  BY DEF Inv, NothingLeftBehind, Ended
<1>4. Len(c.queue) \in Nat /\ c.queue \in [1..Len(c.queue) -> FrameType]
  BY <1>1, LenProperties
<1>5. chan[o].state \in {"connected", "ready"} <=> c.state \in {"connected", "ready"}  BY DEF Live
<1>6. CASE state # "connected"
  <2> DEFINE q == IF c.queue = <<>> THEN <<>> ELSE Tail(c.queue)
             d == [c EXCEPT !.queue = q, !.synchronous = FALSE]
  <2>1. chan' = [chan EXCEPT ![o] = d] /\ UNCHANGED <<queue, toServer>>  BY <1>6 DEF flush
  <2>2. c.queue # <<>> => /\ Len(c.queue) \in Nat \ {0}
                          /\ q \in Seq(FrameType) /\ Len(q) = Len(c.queue) - 1
                          /\ \A i \in 1..Len(q) : q[i] = c.queue[i + 1]
    BY <1>1, HeadTailProperties, EmptySeq
  <2>3. q \in Seq(FrameType)  BY <2>2, EmptySequence
  <2> HIDE DEF q
  <2>4. d \in ChannelType /\ d.id = chan[o].id /\ d.state = c.state /\ d.queue = q /\ d.synchronous = FALSE
    BY <2>3 DEF ChannelType
  <2> HIDE DEF d
  <2>5. Becomes(o, c.state, q, FALSE)  BY <1>1, <2>1, <2>4, BecomesFacts
  <2>6. ASSUME NEW i \in 1..Len(q)
        PROVE  /\ q[i].kind \in Calls /\ q[i].channel = c.id /\ q[i].of = o
               /\ q[i].kind = "ChannelClose" => i = Len(q) /\ c.state = "closing"
    <3>1. c.queue # <<>>
      <4>1. Len(<<>>) = 0  OBVIOUS
      <4> QED  BY <2>6, <4>1 DEF q
    <3>2. i + 1 \in 1..Len(c.queue) /\ q[i] = c.queue[i + 1] /\ (i + 1 = Len(c.queue) => i = Len(q))
      BY <2>2, <3>1
    <3> QED  BY <1>2, <3>2 DEF QueueFits
  <2>7. QueueFits(chan'[o], o)  BY <2>5, <2>6 DEF QueueFits, Becomes
  <2>8. Moved(chan[o], chan'[o], o)  BY <2>5, <2>7 DEF Moved, Becomes
  <2>9. \A p \in Objects : chan'[p] = chan[p] \/ Moved(chan[p], chan'[p], p)
    BY <2>5, <2>8 DEF Becomes
  <2>10. \A p \in Objects : Sending(p)' => Sending(p)  BY <1>5, <2>5 DEF Becomes, Sending, q
  <2>11. Growth(<<>>)  BY <1>1, <2>1, NoGrowth
  <2>12. Ended' => \A p \in Objects : ~waiting(chan'[p])
    BY <1>3, <2>5 DEF Becomes, waiting, q
  <2>13. Range(<<>>) = {} /\ \A x, y : ~Before(<<>>, x, y)  BY EmptySequence
  <2>14. chan' \in [Objects -> ChannelType]  BY <2>5 DEF Becomes
  <2> QED  BY <1>1, <2>9, <2>10, <2>11, <2>12, <2>13, <2>14, ClientKeeps
<1>7. CASE state = "connected"
  <2>1. PICK k \in 0..Len(c.queue) :
          /\ IF HeldBack(queue)
               THEN queue' = queue \o SubSeq(c.queue, 1, k) /\ UNCHANGED toServer
               ELSE toServer' = toServer \o SubSeq(c.queue, 1, k) /\ UNCHANGED queue
          /\ chan' = [chan EXCEPT ![o] =
                        [c EXCEPT !.queue = SubSeq(@, k + 1, Len(@)),
                                  !.synchronous = k > 0 /\ c.queue[k].kind \in SynchronousKinds]]
    BY <1>7 DEF flush
  <2> DEFINE s == SubSeq(c.queue, 1, k)
             q == SubSeq(c.queue, k + 1, Len(c.queue))
             b == k > 0 /\ c.queue[k].kind \in SynchronousKinds
             d == [c EXCEPT !.queue = q, !.synchronous = b]
  <2>2. s \in Seq(FrameType) /\ Len(s) = k /\ \A i \in 1..k : s[i] = c.queue[i]
    <3>1. \A i \in 1..k : c.queue[i] \in FrameType  BY <1>4
    <3>2. /\ s \in Seq(FrameType) /\ Len(s) = IF 1 <= k THEN k - 1 + 1 ELSE 0
          /\ \A i \in 1..(k - 1 + 1) : s[i] = c.queue[1 + i - 1]
      BY <1>4, <3>1, SubSeqProperties
    <3> HIDE DEF s
    <3> QED  BY <1>4, <3>2
  <2>3. /\ q \in Seq(FrameType) /\ Len(q) = Len(c.queue) - k
        /\ \A i \in 1..Len(q) : q[i] = c.queue[k + i]
    <3>1. \A i \in (k + 1)..Len(c.queue) : c.queue[i] \in FrameType  BY <1>4
    <3>2. /\ q \in Seq(FrameType)
          /\ Len(q) = IF k + 1 <= Len(c.queue) THEN Len(c.queue) - (k + 1) + 1 ELSE 0
          /\ \A i \in 1..(Len(c.queue) - (k + 1) + 1) : q[i] = c.queue[(k + 1) + i - 1]
      BY <1>4, <3>1, SubSeqProperties
    <3> HIDE DEF q
    <3>3. Len(q) = Len(c.queue) - k  BY <1>4, <3>2
    <3>4. ASSUME NEW i \in 1..Len(q) PROVE q[i] = c.queue[k + i]
      <4>1. i \in 1..(Len(c.queue) - (k + 1) + 1) /\ (k + 1) + i - 1 = k + i  BY <1>4, <3>3
      <4> QED  BY <3>2, <4>1
    <3> QED  BY <3>2, <3>3, <3>4
  <2>4. chan' = [chan EXCEPT ![o] = d]  BY <2>1
  <2>5. b \in BOOLEAN  OBVIOUS
  <2> HIDE DEF s, q, b
  <2>6. d \in ChannelType /\ d.id = chan[o].id /\ d.state = c.state /\ d.queue = q /\ d.synchronous = b
    BY <2>3, <2>5 DEF ChannelType
  <2> HIDE DEF d
  <2>7. Becomes(o, c.state, q, b)  BY <1>1, <2>4, <2>6, BecomesFacts
  <2>8. ASSUME NEW i \in 1..Len(q)
        PROVE  /\ q[i].kind \in Calls /\ q[i].channel = c.id /\ q[i].of = o
               /\ q[i].kind = "ChannelClose" => i = Len(q) /\ c.state = "closing"
    <3>1. k + i \in 1..Len(c.queue) /\ q[i] = c.queue[k + i] /\ (k + i = Len(c.queue) => i = Len(q))
      BY <1>4, <2>3
    <3> QED  BY <1>2, <3>1 DEF QueueFits
  <2>9. QueueFits(chan'[o], o)  BY <2>7, <2>8 DEF QueueFits, Becomes
  <2>10. Moved(chan[o], chan'[o], o)  BY <2>7, <2>9 DEF Moved, Becomes
  <2>11. \A p \in Objects : chan'[p] = chan[p] \/ Moved(chan[p], chan'[p], p)
    BY <2>7, <2>10 DEF Becomes
  <2>12. q # <<>> => c.queue # <<>>
    <3>1. c.queue = <<>> => Len(c.queue) = 0  OBVIOUS
    <3>2. q # <<>> => Len(q) \in Nat \ {0}  BY <2>3, EmptySeq
    <3> QED  BY <1>4, <2>3, <3>1, <3>2
  <2>13. \A p \in Objects : Sending(p)' => Sending(p)  BY <1>5, <2>7, <2>12 DEF Becomes, Sending
  <2>14. server.phase \notin Greetings  BY <1>7, ConnectedFacts
  <2>15. Growth(s)  BY <1>1, <2>1, <2>2, <2>14, GrowthAtEnd DEF HeldBack, s
  <2>16. ~Silent /\ ~Ended'  BY <1>7 DEF Silent, Ended
  <2>17. \A f : f \in Range(s) <=> \E i \in 1..Len(s) : f = s[i]  BY <2>2, RangeIndex
  <2>18. \A i \in 1..k : i \in 1..Len(c.queue)  BY <1>4
  <2>19. ASSUME NEW f \in Range(s)
         PROVE  /\ Addable(f) /\ f.kind \notin Greetings \union {"ConnectionCloseOK", "ConnectionClose"}
                /\ f.kind = "ChannelClose" => k = Len(c.queue) /\ c.state = "closing"
    <3>1. PICK i \in 1..k : f = s[i]  BY <2>2, <2>17
    <3>2. i \in 1..Len(c.queue) /\ f = c.queue[i]  BY <2>2, <2>18, <3>1
    <3>3. /\ f.kind \in Calls /\ f.channel = c.id /\ f.of = o
          /\ f.kind = "ChannelClose" => i = Len(c.queue) /\ c.state = "closing"
      BY <1>2, <3>2 DEF QueueFits
    <3>4. c.queue # <<>>
      <4>1. Len(<<>>) = 0  OBVIOUS
      <4> QED  BY <3>2, <4>1
    <3>5. Addable(f)  BY <3>3, <3>4 DEF Addable, Sending
    <3>6. i = Len(c.queue) => k = Len(c.queue)  BY <1>4, <3>1
    <3> QED  BY <3>3, <3>5, <3>6 DEF Calls, Requests, Greetings
  <2>20. ASSUME NEW f, NEW g, Before(s, f, g) PROVE MayFollow(f, g)
    <3>1. PICK i, j \in 1..k : i < j /\ f = s[i] /\ g = s[j]  BY <2>2, <2>20 DEF Before
    <3>2. i \in 1..Len(c.queue) /\ j \in 1..Len(c.queue) /\ i # Len(c.queue)  BY <1>4, <3>1
    <3>3. f = c.queue[i] /\ g = c.queue[j]  BY <2>2, <3>1
    <3>4. f.kind \in Calls /\ f.kind # "ChannelClose" /\ g.kind \in Calls
      BY <1>2, <3>2, <3>3 DEF QueueFits
    <3> QED  BY <3>4 DEF MayFollow, Calls, Requests, Final
  <2>21. ASSUME NEW f \in Range(s), NEW p \in Objects, f.kind = "ChannelClose", Sending(p)'
         PROVE  f.channel # chan[p].id
    <3>1. k = Len(c.queue) /\ c.state = "closing"  BY <2>19, <2>21
    <3>2. q = <<>>
      <4>1. Len(q) = 0  BY <1>4, <2>3, <3>1
      <4> QED  BY <2>3, <4>1, EmptySeq
    <3>3. p # o  BY <2>7, <2>21, <3>1, <3>2 DEF Sending, Becomes
    <3>4. Sending(p)  BY <2>13, <2>21
    <3>5. f.of \in Objects /\ f.channel = chan[f.of].id /\ Sending(f.of)
      BY <2>19, <2>21 DEF Addable, Greetings, Final
    <3>6. f.of = o
      <4>1. PICK i \in 1..k : f = s[i]  BY <2>2, <2>17
      <4>2. i \in 1..Len(c.queue) /\ f = c.queue[i]  BY <2>2, <2>18, <4>1
      <4> QED  BY <1>2, <4>2 DEF QueueFits
    <3> QED  BY <3>3, <3>4, <3>5, <3>6, SendersDiffer
  <2>22. chan' \in [Objects -> ChannelType]  BY <2>7 DEF Becomes
  <2> QED  BY <1>1, <2>11, <2>13, <2>15, <2>16, <2>19, <2>20, <2>21, <2>22, ClientKeeps
<1> QED  BY <1>6, <1>7

(* reportReady and reportSuccess.                                           *)
LEMMA ReportInv == ASSUME Inv, reportReady \/ reportSuccess PROVE Inv'
<1> DEFINE o == Target
           c == IF reportReady
                  THEN [chan[o] EXCEPT !.state = IF @ = "connected" THEN "ready" ELSE @]
                  ELSE chan[o]
<1>1. \E handler \in {"reportReady", "reportSuccess"} : Receive(handler)
  BY DEF reportReady, reportSuccess
<1>2. Received /\ Head(toClient) \in Got /\ FromServer(Head(toClient))
      /\ Head(toClient).kind \in {"ChannelOpenOK", "QueueDeclareOK"}
  BY <1>1, ReceiveFacts, ReceivedKind DEF Inv, Handler
<1>3. ~told.error  BY <1>2 DEF Inv, End
<1>4. Head(toClient).channel \in Numbers  BY <1>2 DEF FromServer, Final
<1>5. o \in Objects /\ chan[o].state \in Live /\ chan[o] \in ChannelType
  BY <1>4 DEF Target, reportReady, reportSuccess, Inv, Types, TypeOK, Registry
<1>6. /\ c \in ChannelType /\ c.id = chan[o].id /\ c.queue = chan[o].queue /\ c.state \in Live
      /\ chan[o].state = "closing" <=> c.state = "closing"
  BY <1>5 DEF ChannelType, Live
<1>7. flush(o, c)  BY DEF reportReady, reportSuccess
<1>8. /\ running' = "frame"
      /\ UNCHANGED <<state, closed, maxChannels, next, channels, calls, told, server>>
  BY DEF reportReady, reportSuccess
<1> HIDE DEF o, c
<1> QED  BY <1>2, <1>3, <1>5, <1>6, <1>7, <1>8, FlushInv

-----------------------------------------------------------------------------
(* The handshake.                                                           *)

(* The channels stay as they are.                                           *)
LEMMA QuietChannels ==
    ASSUME Inv, UNCHANGED <<channels, chan, server>>, toClient # <<>>, toClient' = Tail(toClient)
    PROVE  /\ ChannelsKept /\ Registry' /\ toClient' \in Seq(FrameType)
           /\ chan' \in [Objects -> ChannelType]
           /\ \A o \in Objects : Sending(o)' <=> Sending(o)
           /\ \A g \in Got : g \in Got' \/ g = Head(toClient)
<1>1. /\ Got' \subseteq Got /\ \A g, h : Before(toClient', g, h) => Before(toClient, g, h)
      /\ \A g \in Got : g \in Got' \/ g = Head(toClient)
  BY GotShrinks DEF Inv
<1>2. \A o \in Objects : Sending(o)' <=> Sending(o)  BY DEF Sending
<1>3. ChannelsKept  BY <1>1, <1>2 DEF ChannelsKept, ServerKept
<1>4. Registry'  BY DEF Inv, Registry, waiting, QueueFits
<1>5. toClient' \in Seq(FrameType)  BY PipelineTypes, HeadTailProperties DEF Inv
<1> QED  BY <1>1, <1>2, <1>3, <1>4, <1>5 DEF Inv, Types

(* ConnectionImpl::setReady up to onReady(): open-ok comes in the state     *)
(* handshake and nothing of the handshake comes behind it.                  *)
LEMMA SetReadyInv == ASSUME Inv, setReady PROVE Inv'
<1>1. /\ Receive("setReady") /\ state' = "connected" /\ running' = "onReady"
      /\ UNCHANGED <<closed, maxChannels, next, channels, queue, chan, calls, told, toServer, server>>
  BY DEF setReady
<1>2. /\ Head(toClient) \in Got /\ Head(toClient).kind = "ConnectionOpenOK"
      /\ toClient # <<>> /\ toClient' = Tail(toClient) /\ state # "closed"
  BY <1>1, ReceivedKind DEF Inv, Handler
<1>3. server.phase \notin Greetings  BY <1>1, ReceiveFacts
<1>4. state = "handshake" /\ ~told.error /\ ~Silent /\ ~Ended
  BY <1>2 DEF Inv, Hand, End, Silent, Ended
<1>5. /\ ChannelsKept /\ Registry' /\ toClient' \in Seq(FrameType)
      /\ chan' \in [Objects -> ChannelType]
      /\ \A g \in Got : g.kind = "ChannelClose" => g \in Got'
  BY <1>1, <1>2, QuietChannels
<1> DEFINE none == {}
<1>6. Pipeline' = Pipeline /\ Sent' = Sent \union none /\ \A f \in none : FALSE
  BY <1>1 DEF Pipeline, Sent
<1> HIDE DEF none
<1>7. Types'
  <2>1. /\ toServer' \in Seq(FrameType) /\ queue' \in Seq(FrameType)
        /\ closed' \in BOOLEAN /\ calls' \in 0..MaxCalls /\ maxChannels' \in ChannelMax \union {0}
        /\ told' \in [error : BOOLEAN, closed : BOOLEAN] /\ next' = next
    BY <1>1 DEF Inv, Types, TypeOK
  <2>2. /\ state' \in {"protocol", "handshake", "connected", "closing", "closed"}
        /\ running' \in {"no", "frame", "onReady"}
    BY <1>1
  <2> QED  BY <1>5, <1>6, <2>1, <2>2, TypesStep
<1>8. Owned' /\ Order' /\ View' /\ Reuse'
  <2>1. \A f, g : Before(Pipeline', f, g) <=> Before(Pipeline, f, g)  BY <1>6
  <2>2. Opens' => Opens  BY <1>1, <1>4 DEF Opens, usable
  <2> QED  BY <1>5, <1>6, <1>7, <2>1, <2>2, ClientStep
<1>9. End'
  <2>1. told'.error => told.error  BY <1>1
  <2> QED  BY <1>4, <1>5, <1>6, <1>7, <2>1, EndStep DEF ChannelsKept
<1>10. Hand'
  <2>1. \A h \in Got' : h.kind \notin {"ConnectionOpenOK", "ConnectionTune"} /\ h \in Got
    BY <1>2, GotShrinks DEF Inv, Hand
  <2>2. server' = server /\ queue' = queue /\ Sent' = Sent  BY <1>1, <1>6 DEF Sent
  <2>3. /\ \A f \in Range(queue') : f.kind \notin Greetings
        /\ server'.phase \notin Greetings
        /\ state' # "protocol"
        /\ server'.phase = "running" => \A f \in Sent' : f.kind \notin Greetings
    BY <1>1, <1>3, <2>2 DEF Inv, Hand
  <2>4. \A g \in Got' : g.kind = "ConnectionStart" => server'.phase \in Greetings
    BY <2>1, <2>2 DEF Inv, Hand
  <2> QED  BY <2>1, <2>3, <2>4 DEF Hand
<1>11. NothingLeftBehind' /\ NoSurprise'  BY <1>1 DEF Inv, NothingLeftBehind, NoSurprise
<1> QED  BY <1>5, <1>7, <1>8, <1>9, <1>10, <1>11 DEF Inv

(* Frames of the handshake go between the wire and the queue.               *)
LEMMA GreetingsGrow ==
    ASSUME Inv, ~Silent, NEW s \in Seq(FrameType), toServer' = toServer \o s, UNCHANGED queue,
           \A f \in Range(s) : f.kind \in Greetings /\ f.channel = 0 /\ f.of = None
    PROVE  /\ toServer' \in Seq(FrameType) /\ Sent' = Sent \union Range(s)
           /\ \A f \in Range(s) : Addable(f)
           /\ \A f, g : Before(Pipeline', f, g) =>
                 \/ Before(Pipeline, f, g)
                 \/ MayFollow(f, g) /\ (f \in Range(s) \/ g \in Range(s))
           /\ \A f, g : Before(Pipeline, f, g) => Before(Pipeline', f, g)
<1>1. toServer \in Seq(FrameType) /\ queue \in Seq(FrameType) /\ Sent = Range(toServer) \union Range(queue)
  BY PipelineTypes DEF Inv
<1>2. toServer \o s \in Seq(FrameType)  BY <1>1, ConcatProperties
<1>3. Range(toServer \o s) = Range(toServer) \union Range(s)  BY <1>1, RangeConcatenation
<1>4. Range((toServer \o s) \o queue) = Range(toServer \o s) \union Range(queue)
  <2> DEFINE w == toServer \o s
  <2> HIDE DEF w
  <2>1. w \in Seq(FrameType)  BY <1>2 DEF w
  <2>2. Range(w \o queue) = Range(w) \union Range(queue)  BY <1>1, <2>1, RangeConcatenation
  <2> QED  BY <2>2 DEF w
<1>5. Sent' = Sent \union Range(s)  BY <1>1, <1>3, <1>4 DEF Sent, Pipeline
<1>6. \A f \in Range(s) : Addable(f)  BY DEF Addable
<1>7. \A f \in Range(s) : \A g : MayFollow(f, g)  BY DEF MayFollow, Greetings, Final
<1>8. \A f \in Sent : \A g \in Range(s) : MayFollow(f, g)  BY <1>6, AddableFollows
<1>9. \A f, g : Before((toServer \o s) \o queue, f, g) <=>
          \/ Before(toServer \o s, f, g) \/ Before(queue, f, g)
          \/ (f \in Range(toServer \o s) /\ g \in Range(queue))
  BY <1>1, <1>2, BeforeConcat
<1>10. \A f, g : Before(toServer \o s, f, g) <=>
           Before(toServer, f, g) \/ Before(s, f, g) \/ (f \in Range(toServer) /\ g \in Range(s))
  BY <1>1, BeforeConcat
<1>11. \A f, g : Before(toServer \o queue, f, g) <=>
           Before(toServer, f, g) \/ Before(queue, f, g) \/ (f \in Range(toServer) /\ g \in Range(queue))
  BY <1>1, BeforeConcat
<1>12. \A f, g : Before(s, f, g) => f \in Range(s)  BY BeforeRange
<1>13. /\ \A f, g : Before((toServer \o s) \o queue, f, g) =>
              \/ Before(toServer \o queue, f, g)
              \/ MayFollow(f, g) /\ (f \in Range(s) \/ g \in Range(s))
       /\ \A f, g : Before(toServer \o queue, f, g) => Before((toServer \o s) \o queue, f, g)
  BY <1>1, <1>3, <1>7, <1>8, <1>9, <1>10, <1>11, <1>12
<1> QED  BY <1>2, <1>5, <1>6, <1>13 DEF Pipeline

(* ConnectionStartFrame::process and ConnectionTuneFrame::process.          *)
LEMMA GreetingInv ==
    ASSUME Inv, NEW s \in Seq(FrameType), toServer' = toServer \o s,
           \A f \in Range(s) : f.kind \in Greetings /\ f.channel = 0 /\ f.of = None,
           toClient # <<>>, toClient' = Tail(toClient), ~told.error, state \in {"protocol", "handshake"},
           state' = "handshake", running' = "frame", maxChannels' \in ChannelMax \union {0},
           Head(toClient).kind # "ChannelClose",
           server.phase # "running", server.phase \in Greetings => Stage',
           UNCHANGED <<closed, next, channels, queue, chan, calls, told, server>>
    PROVE  Inv'
<1>1. ~Silent /\ ~Ended  BY DEF Silent, Ended
<1>2. /\ toServer' \in Seq(FrameType) /\ Sent' = Sent \union Range(s)
      /\ \A f \in Range(s) : Addable(f)
      /\ \A f, g : Before(Pipeline', f, g) =>
            \/ Before(Pipeline, f, g)
            \/ MayFollow(f, g) /\ (f \in Range(s) \/ g \in Range(s))
      /\ \A f, g : Before(Pipeline, f, g) => Before(Pipeline', f, g)
  BY <1>1, GreetingsGrow
<1>3. /\ ChannelsKept /\ Registry' /\ toClient' \in Seq(FrameType)
      /\ chan' \in [Objects -> ChannelType]
      /\ \A g \in Got : g.kind = "ChannelClose" => g \in Got'
  BY QuietChannels
<1>4. Types'
  <2>1. /\ queue' \in Seq(FrameType) /\ closed' \in BOOLEAN /\ calls' \in 0..MaxCalls
        /\ told' \in [error : BOOLEAN, closed : BOOLEAN] /\ next' = next
    BY DEF Inv, Types, TypeOK
  <2>2. /\ state' \in {"protocol", "handshake", "connected", "closing", "closed"}
        /\ running' \in {"no", "frame", "onReady"}
    OBVIOUS
  <2> QED  BY <1>2, <1>3, <2>1, <2>2, TypesStep
<1>5. \A f \in Range(s) : f.kind \notin {"ChannelClose", "ConnectionClose", "ConnectionCloseOK"}
  BY DEF Greetings
<1>6. Owned' /\ Order' /\ View' /\ Reuse'
  <2>1. Opens' => Opens  BY DEF Opens, usable
  <2> QED  BY <1>2, <1>3, <1>4, <1>5, <2>1, ClientStep
<1>7. End'
  <2>1. told'.error => told.error  OBVIOUS
  <2> QED  BY <1>1, <1>2, <1>3, <1>4, <1>5, <2>1, EndStep DEF ChannelsKept
<1>8. Hand'
  <2>1. Got' \subseteq Got /\ \A g, h : Before(toClient', g, h) => Before(toClient, g, h)
    BY <1>3 DEF ChannelsKept, ServerKept
  <2>2. /\ \A f \in Range(queue') : f.kind \notin Greetings
        /\ server'.phase \in Greetings => Stage' /\ running' # "onReady"
        /\ state' # "protocol" /\ server'.phase # "running"
    BY DEF Inv, Hand
  <2>3. \A g \in Got' :
            /\ g.kind = "ConnectionStart" => server'.phase \in Greetings
            /\ g.kind \in {"ConnectionTune", "ConnectionOpenOK"} => state' \in {"handshake", "closed"}
    BY <2>1 DEF Inv, Hand
  <2>4. \A g, h \in Got' : Before(toClient', g, h) /\ g.kind = "ConnectionOpenOK" =>
            h.kind \notin {"ConnectionOpenOK", "ConnectionTune"}
    BY <2>1 DEF Inv, Hand
  <2> QED  BY <2>2, <2>3, <2>4 DEF Hand
<1>9. NothingLeftBehind' /\ NoSurprise'  BY DEF Inv, NothingLeftBehind, NoSurprise
<1> QED  BY <1>3, <1>4, <1>6, <1>7, <1>8, <1>9 DEF Inv

LEMMA StartInv == ASSUME Inv, start PROVE Inv'
<1> DEFINE f == Own("ConnectionStartOK")
<1>1. /\ Receive("start") /\ send(f) /\ running' = "frame"
      /\ state' = IF state = "protocol" THEN "handshake" ELSE state
      /\ UNCHANGED <<closed, maxChannels, next, channels, chan, calls, told, server>>
  BY DEF start
<1>2. /\ Head(toClient) \in Got /\ Head(toClient).kind = "ConnectionStart"
      /\ toClient # <<>> /\ toClient' = Tail(toClient) /\ state # "closed"
  BY <1>1, ReceivedKind DEF Inv, Handler
<1>3. server.phase \in Greetings /\ Stage  BY <1>2 DEF Inv, Hand
<1>4. At("ConnectionStartOK", <<>>, <<Own("ConnectionStart")>>, "protocol")
  BY <1>2, <1>3 DEF Stage, At, Own, Frame
<1>5. /\ server.phase = "ConnectionStartOK" /\ server.open = {} /\ server.closing = {}
      /\ toServer = <<>> /\ toClient = <<Own("ConnectionStart")>> /\ state = "protocol"
  BY <1>2, <1>4 DEF At
<1>6. "ConnectionStartOK" \in Kinds /\ Catalogue["ConnectionStartOK"].handshake = TRUE
  BY PartFacts DEF Greetings
<1>7. f \in FrameType /\ f.kind = "ConnectionStartOK" /\ f.channel = 0 /\ f.of = None
  BY <1>6, OwnFrame
<1> HIDE DEF f
<1>8. toServer' = Append(toServer, f) /\ UNCHANGED queue
  BY <1>1, <1>5, <1>6, <1>7 DEF send, Accepts, Put, Direct
<1>9. <<f>> \in Seq(FrameType) /\ Range(<<f>>) = {f}  BY <1>7, OneElement
<1>10. toServer' = toServer \o <<f>> /\ toServer' = <<f>>  BY <1>5, <1>7, <1>8, <1>9
<1>11. toClient' = <<>>  BY <1>2, <1>5
<1>12. Stage'  BY <1>1, <1>5, <1>10, <1>11 DEF Stage, At, f
<1>13. ~told.error  BY <1>5 DEF Inv, End
<1>14. maxChannels' \in ChannelMax \union {0}  BY <1>1 DEF Inv, Types, TypeOK
<1>15. \A x \in Range(<<f>>) : x.kind \in Greetings /\ x.channel = 0 /\ x.of = None
  BY <1>7, <1>9 DEF Greetings
<1> QED  BY <1>1, <1>2, <1>5, <1>8, <1>9, <1>10, <1>12, <1>13, <1>14, <1>15, GreetingInv

LEMMA TuneInv == ASSUME Inv, tune PROVE Inv'
<1> DEFINE f == Own("ConnectionTuneOK")
           g == Own("ConnectionOpen")
<1>1. /\ Receive("tune") /\ running' = "frame" /\ maxChannels' = Head(toClient).of
      /\ toServer' = IF state \in {"closing", "closed"} THEN toServer ELSE toServer \o <<f, g>>
      /\ UNCHANGED <<state, closed, next, channels, queue, chan, calls, told, server>>
  BY DEF tune
<1>2. /\ Head(toClient) \in Got /\ Head(toClient).kind = "ConnectionTune"
      /\ FromServer(Head(toClient))
      /\ toClient # <<>> /\ toClient' = Tail(toClient) /\ state # "closed"
  BY <1>1, ReceivedKind DEF Inv, Handler
<1>3. state = "handshake" /\ ~told.error /\ server.phase # "running"  BY <1>2 DEF Inv, Hand, End
<1>4. maxChannels' \in ChannelMax  BY <1>1, <1>2 DEF FromServer, Final
<1>5. {"ConnectionTuneOK", "ConnectionOpen"} \subseteq Kinds  BY PartFacts DEF Greetings
<1>6. /\ f \in FrameType /\ f.kind = "ConnectionTuneOK" /\ f.channel = 0 /\ f.of = None
      /\ g \in FrameType /\ g.kind = "ConnectionOpen" /\ g.channel = 0 /\ g.of = None
  BY <1>5, OwnFrame
<1> HIDE DEF f, g
<1>7. <<f, g>> \in Seq(FrameType) /\ Len(<<f, g>>) = 2 /\ <<f, g>>[1] = f /\ <<f, g>>[2] = g
  BY <1>6
<1>8. \A x : x \in Range(<<f, g>>) <=> \E i \in 1..Len(<<f, g>>) : x = <<f, g>>[i]
  BY <1>7, RangeIndex
<1>9. \A x \in Range(<<f, g>>) : x.kind \in Greetings /\ x.channel = 0 /\ x.of = None
  <2>1. \A i \in 1..2 : i = 1 \/ i = 2  OBVIOUS
  <2> QED  BY <1>6, <1>7, <1>8, <2>1 DEF Greetings
<1>10. toServer' = toServer \o <<f, g>>  BY <1>1, <1>3
<1>11. ASSUME server.phase \in Greetings PROVE Stage'
  <2>1. Stage  BY <1>11 DEF Inv, Hand
  <2>2. PICK max \in ChannelMax :
            At("ConnectionTuneOK", <<>>, <<Frame("ConnectionTune", 0, max)>>, "handshake")
    BY <1>2, <2>1 DEF Stage, At, Own, Frame
  <2>3. /\ server.phase = "ConnectionTuneOK" /\ server.open = {} /\ server.closing = {}
        /\ toServer = <<>> /\ toClient = <<Frame("ConnectionTune", 0, max)>>
    BY <2>2 DEF At
  <2>4. toServer' = <<f, g>>  BY <1>7, <1>10, <2>3, ConcatEmptySeq
  <2>5. toClient' = <<>>  BY <1>2, <2>3
  <2> QED  BY <1>1, <1>3, <2>3, <2>4, <2>5 DEF Stage, At, f, g
<1>12. state' = "handshake"  BY <1>1, <1>3
<1> QED  BY <1>1, <1>2, <1>3, <1>4, <1>7, <1>9, <1>10, <1>11, <1>12, GreetingInv

-----------------------------------------------------------------------------
(* Creating and removing channels.                                          *)

(* ConnectionImpl::add and ChannelImpl::attach.  A number that is free here *)
(* is free at the server too, or will be when our confirmation arrives; as  *)
(* the application is patient, no answer to a close frame is on its way.    *)
LEMMA OpenInv == ASSUME Inv, NEW o \in Objects, openChannel(o), Unhurried PROVE Inv'
<1>1. PICK n \in Numbers :
        /\ channels[n] = None
        /\ channels' = [channels EXCEPT ![n] = o]
        /\ next' = Step(n)
        /\ chan' = [chan EXCEPT ![o] = [id |-> n, state |-> "connected", queue |-> <<>>,
                                        synchronous |-> "ChannelOpen" \in SynchronousKinds]]
        /\ send(Frame("ChannelOpen", n, o))
  BY DEF openChannel, FreeNumber
<1>2. /\ MayCall /\ usable /\ chan[o].state = "none"
      /\ UNCHANGED <<state, closed, maxChannels, running, calls, told, toClient, server>>
  BY DEF openChannel
<1> DEFINE f == Frame("ChannelOpen", n, o)
<1>3. /\ Types /\ Registry /\ chan \in [Objects -> ChannelType]
      /\ channels \in [Numbers -> Objects \union {None}]
  BY DEF Inv, Types, TypeOK
<1>4. n \in 0..MaxNumber /\ n # 0 /\ n \in Nat /\ MaxNumber \in Nat  BY ConnectionAssumption DEF Numbers
<1>5. f \in FrameType /\ f.kind = "ChannelOpen" /\ f.channel = n /\ f.of = o
      /\ Catalogue["ChannelOpen"].handshake = FALSE
  BY <1>4, PartFacts DEF Frame, FrameType
<1>6. o # None  BY ConnectionAssumption
<1> HIDE DEF f
<1>7. Accepts(f) /\ ~Silent /\ ~Ended  BY <1>2 DEF usable, Accepts, Silent, Ended, MayCall
<1>8. Growth(<<f>>)  BY <1>1, <1>5, <1>7, SendGrows DEF f
<1>9. <<f>> \in Seq(FrameType) /\ Range(<<f>>) = {f} /\ \A x, y : ~Before(<<f>>, x, y)
  BY <1>5, OneElement
<1>10. /\ Sent' = Sent \union {f}
       /\ \A x, y : Before(Pipeline', x, y) <=> Before(Pipeline, x, y) \/ (x \in Sent /\ y = f)
  <2>1. Pipeline' = Pipeline \o <<f>>  BY <1>8 DEF Growth
  <2>2. /\ Sent' = Sent \union Range(<<f>>)
        /\ \A x, y : Before(Pipeline', x, y) <=>
              Before(Pipeline, x, y) \/ Before(<<f>>, x, y) \/ (x \in Sent /\ y \in Range(<<f>>))
    BY <1>3, <1>9, <2>1, PipelineGrows
  <2> QED  BY <1>9, <2>2
<1> DEFINE A == {f}
<1>11. Sent' = Sent \union A /\ \A g : g \in A <=> g = f  BY <1>10
<1> HIDE DEF A
<1>12. /\ chan' \in [Objects -> ChannelType] /\ \A p \in Objects \ {o} : chan'[p] = chan[p]
       /\ chan'[o].id = n /\ chan'[o].state = "connected" /\ chan'[o].queue = <<>>
  <2> DEFINE c == [id |-> n, state |-> "connected", queue |-> <<>>,
                   synchronous |-> "ChannelOpen" \in SynchronousKinds]
  <2>1. c \in ChannelType  BY <1>4, EmptySequence DEF ChannelType, Live
  <2> QED  BY <1>1, <1>3, <2>1
<1>13. channels' \in [Numbers -> Objects \union {None}] /\ channels'[n] = o
       /\ \A m \in Numbers \ {n} : channels'[m] = channels[m]
  BY <1>1, <1>3
<1>14. Opens /\ Free(n)
  BY <1>1, <1>2 DEF Inv, Reuse, Opens, MayCall
<1>15. \A m \in Numbers : channels[m] # o
  BY <1>2, <1>6 DEF Inv, Registry, Live
<1>16. ServerKept  BY <1>2 DEF ServerKept, Got
<1>17. Types'
  <2>1. \A m \in Numbers : channels'[m] # None => chan'[channels'[m]].id = m
    BY <1>3, <1>12, <1>13, <1>15 DEF Types, TypeOK
  <2>2. next' \in 0..MaxNumber
    <3>1. (n + 1) % (MaxNumber + 1) \in 0..MaxNumber  BY <1>4
    <3> QED  BY <1>1, <3>1 DEF Step
  <2>3. \A g \in A : FromClient(g)  BY <1>5, <1>11 DEF FromClient
  <2>4. toServer' \in Seq(FrameType) /\ queue' \in Seq(FrameType)  BY <1>8 DEF Growth
  <2>5. /\ toClient' \in Seq(FrameType) /\ closed' \in BOOLEAN /\ running' \in {"no", "frame", "onReady"}
        /\ state' \in {"protocol", "handshake", "connected", "closing", "closed"}
        /\ calls' \in 0..MaxCalls /\ maxChannels' \in ChannelMax \union {0}
        /\ told' \in [error : BOOLEAN, closed : BOOLEAN]
    BY <1>2, <1>3 DEF Types, TypeOK
  <2> QED  BY <1>12, <1>13, <1>16, <1>11, <2>1, <2>2, <2>3, <2>4, <2>5, ClientTypes
<1>18. Registry'
  <2>1. \A m \in Numbers : channels'[m] # None => chan'[channels'[m]].state \in Live
    BY <1>3, <1>12, <1>13, <1>15 DEF Registry, Live
  <2>2. ASSUME NEW p \in Objects, chan'[p].state \in Live
        PROVE  chan'[p].id \in Numbers /\ channels'[chan'[p].id] = p
    <3>1. CASE p = o  BY <1>12, <1>13, <3>1
    <3>2. CASE p # o
      <4>1. chan'[p] = chan[p] /\ chan[p].id \in Numbers /\ channels[chan[p].id] = p
        BY <1>3, <1>12, <2>2, <3>2 DEF Registry
      <4>2. p # None  BY ConnectionAssumption
      <4> QED  BY <1>1, <1>13, <4>1, <4>2
    <3> QED  BY <3>1, <3>2
  <2>3. \A p \in Objects : chan'[p].state \notin Live => ~waiting(chan'[p])
    BY <1>3, <1>12 DEF Registry, Live
  <2>4. \A p \in Objects : QueueFits(chan'[p], p)
    <3>1. Len(<<>>) = 0  OBVIOUS
    <3>2. QueueFits(chan'[o], o)  BY <1>12, <3>1 DEF QueueFits
    <3> QED  BY <1>3, <1>12, <3>2 DEF Registry
  <2> QED  BY <2>1, <2>2, <2>3, <2>4 DEF Registry
<1>19. /\ \A g \in Got : g.channel # n /\ g.of # o
       /\ \A g \in Sent : g.of # o
       /\ \A g \in Sent : g.channel = n =>
             /\ g.kind \notin {"ChannelOpen", "ChannelClose"}
             /\ g.kind \in Requests => Before(Pipeline, g, Confirmation(n))
  <2>1. ~Late(n)  BY <1>1, <1>6, <1>13 DEF Unhurried
  <2>2. /\ \A x : x \in Range(toServer) <=> \E i \in 1..Len(toServer) : x = toServer[i]
        /\ \A x : x \in Range(queue) <=> \E i \in 1..Len(queue) : x = queue[i]
        /\ \A x : x \in Got <=> \E i \in 1..Len(toClient) : x = toClient[i]
        /\ Sent = Range(toServer) \union Range(queue)
    BY <1>3, PipelineTypes, RangeIndex DEF Got
  <2>3. \A g \in Sent : g.kind = "ChannelClose" => g.channel # n  BY <2>1, <2>2 DEF Late
  <2>4. \A g \in Got : g.kind = "ChannelCloseOK" => g.channel # n  BY <2>1, <2>2 DEF Late
  <2>5. \A g \in Sent \union Got : g.of # o  BY <1>2 DEF Inv, Owned
  <2> QED  BY <1>14, <2>3, <2>4, <2>5 DEF Free
<1>20. Got' = Got /\ server' = server  BY <1>2 DEF Got
<1>21. Owned'
  <2>1. ASSUME NEW g \in Sent' \union Got', g.of \in Objects
        PROVE  chan'[g.of].state # "none" /\ chan'[g.of].id = g.channel
    <3>1. CASE g = f  BY <1>5, <1>12, <3>1
    <3>2. CASE g # f
      <4>1. g \in Sent \union Got  BY <1>10, <1>20, <3>2
      <4>2. chan[g.of].state # "none" /\ chan[g.of].id = g.channel  BY <2>1, <4>1 DEF Inv, Owned
      <4> QED  BY <1>12, <1>19, <2>1, <4>1, <4>2
    <3> QED  BY <3>1, <3>2
  <2>2. ASSUME NEW g \in Got', g.of \in Objects PROVE channels'[g.channel] \in {g.of, None}
    <3>1. channels'[g.channel] = channels[g.channel]  BY <1>1, <1>3, <1>19, <1>20
    <3> QED  BY <1>20, <2>2, <3>1 DEF Inv, Owned
  <2>3. ASSUME NEW g \in Sent', g.of \in Objects
        PROVE  \/ channels'[g.channel] \in {g.of, None}
               \/ g.kind \in Requests /\ Before(Pipeline', g, Confirmation(g.channel))
    <3>1. CASE g = f  BY <1>5, <1>13, <3>1
    <3>2. CASE g # f /\ g.channel # n
      <4>1. g \in Sent  BY <1>10, <3>2
      <4>2. channels'[g.channel] = channels[g.channel]  BY <1>1, <1>3, <3>2
      <4> QED  BY <1>10, <2>3, <4>1, <4>2 DEF Inv, Owned
    <3>3. CASE g # f /\ g.channel = n
      <4>1. g \in Sent /\ FromClient(g)  BY <1>3, <1>10, <3>3 DEF Types
      <4>2. g.kind \in Requests
        BY <1>19, <2>3, <3>3, <4>1, ConnectionAssumption DEF FromClient, Calls
      <4> QED  BY <1>10, <1>19, <3>3, <4>1, <4>2
    <3> QED  BY <3>1, <3>2, <3>3
  <2> QED  BY <2>1, <2>2, <2>3 DEF Owned
<1>22. \A p \in Objects : Sending(p)' => p = o \/ Sending(p)  BY <1>12 DEF Sending
<1>23. Order'
  <2>1. \A x, y \in Sent' : Before(Pipeline', x, y) => MayFollow(x, y)
    <3>1. \A x, y : Before(Pipeline, x, y) => x \in Sent /\ y \in Sent
      BY <1>3, PipelineTypes, BeforeRange DEF Sent
    <3>2. ASSUME NEW x \in Sent PROVE MayFollow(x, f)
      <4>1. x.kind \notin Final  BY <1>7 DEF Inv, End, Silent, Final
      <4> QED  BY <1>5, <1>19, <4>1 DEF MayFollow
    <3> QED  BY <1>10, <3>1, <3>2 DEF Inv, Order
  <2>2. ASSUME NEW p \in Objects, Sending(p)', NEW g \in Sent', g.kind = "ChannelClose"
        PROVE  g.channel # chan'[p].id
    <3>1. g \in Sent  BY <1>5, <1>10, <2>2
    <3>2. CASE p = o  BY <1>12, <1>19, <2>2, <3>1, <3>2
    <3>3. CASE p # o  BY <1>12, <1>22, <2>2, <3>1, <3>3 DEF Inv, Order
    <3> QED  BY <3>2, <3>3
  <2>3. ASSUME NEW g \in Sent', g.kind = "ChannelCloseOK"
        PROVE  /\ \/ channels'[g.channel] = None
                  \/ Before(Pipeline', g, Opening(g.channel, channels'[g.channel]))
               /\ \A h \in Got' : h.kind = "ChannelClose" => h.channel # g.channel
               /\ \A h \in Sent' : Before(Pipeline', g, h) /\ h.kind \in Calls /\ h.channel = g.channel =>
                     Opening(h.channel, h.of) \in Sent'
    <3>1. g \in Sent  BY <1>5, <1>10, <2>3
    <3>2. \A h \in Got' : h.kind = "ChannelClose" => h.channel # g.channel
      BY <1>20, <2>3, <3>1 DEF Inv, Order
    <3>3. ASSUME NEW h \in Sent', Before(Pipeline', g, h), h.kind \in Calls, h.channel = g.channel
          PROVE  Opening(h.channel, h.of) \in Sent'
      <4>1. h # f  BY <1>5, <3>3 DEF Calls, Requests
      <4>2. h \in Sent /\ Before(Pipeline, g, h)  BY <1>10, <3>3, <4>1
      <4> QED  BY <1>10, <2>3, <3>1, <3>3, <4>2 DEF Inv, Order
    <3>4. CASE g.channel = n
      <4>1. Before(Pipeline', g, f)  BY <1>10, <3>1
      <4>2. f = Opening(g.channel, channels'[g.channel])  BY <1>13, <3>4 DEF f, Opening
      <4> QED  BY <3>2, <3>3, <4>1, <4>2
    <3>5. CASE g.channel # n
      <4>1. channels'[g.channel] = channels[g.channel]  BY <1>1, <1>3, <3>5
      <4>2. channels[g.channel] = None \/ Before(Pipeline, g, Opening(g.channel, channels[g.channel]))
        BY <2>3, <3>1 DEF Inv, Order
      <4> QED  BY <1>10, <3>2, <3>3, <4>1, <4>2
    <3> QED  BY <3>4, <3>5
  <2> QED  BY <2>1, <2>2, <2>3 DEF Order
<1>24. View'
  <2>1. server'.open \intersect server'.closing = {}  BY <1>20 DEF Inv, View
  <2>2. \A g, h \in Got' :
            Before(toClient', g, h) /\ g.kind = "ChannelClose" /\ g.channel = h.channel =>
                h.kind = "ChannelCloseOK"
    BY <1>2, <1>20 DEF Inv, View
  <2>3. \A g \in Got' : g.kind = "ChannelClose" =>
            \A h \in Sent' : h.kind = "ChannelOpen" => h.channel # g.channel
    BY <1>5, <1>10, <1>19, <1>20 DEF Inv, View
  <2>4. ASSUME Talking'
        PROVE  /\ \A g \in Sent' :
                    /\ g.kind = "ChannelOpen" =>
                          /\ g.channel \notin server'.open
                          /\ g.channel \in server'.closing =>
                                Before(Pipeline', Confirmation(g.channel), g)
                    /\ g.kind \in Calls => Opened(g.channel, g.of)'
                    /\ g.kind = "ChannelCloseOK" => g.channel \in server'.closing
               /\ \A g \in Got' : g.kind = "ChannelClose" => g.channel \in server'.closing
               /\ \A p \in Objects : \A m : Sending(p)' /\ m = chan'[p].id => Opened(m, p)'
    <3>1. Talking  BY <1>20, <2>4 DEF Talking
    <3>2. \A m, p : Opened(m, p) => Opened(m, p)'  BY <1>10, <1>20 DEF Opened
    <3>3. n \notin server.open /\ (n \in server.closing => Confirmation(n) \in Sent)
      BY <1>14, <1>19, <3>1 DEF Inv, Reuse, Free
    <3>4. ASSUME NEW g \in Sent', g.kind = "ChannelOpen"
          PROVE  /\ g.channel \notin server'.open
                 /\ g.channel \in server'.closing => Before(Pipeline', Confirmation(g.channel), g)
      <4>1. CASE g = f  BY <1>5, <1>10, <1>20, <3>3, <4>1
      <4>2. CASE g # f  BY <1>10, <1>20, <3>1, <3>4, <4>2 DEF Inv, View
      <4> QED  BY <4>1, <4>2
    <3>5. \A g \in Sent' :
             /\ g.kind = "ChannelCloseOK" => g.channel \in server'.closing
             /\ g.kind \in Calls => Opened(g.channel, g.of)'
      BY <1>5, <1>10, <1>20, <3>1, <3>2 DEF Inv, View, Calls, Requests
    <3>6. \A g \in Got' : g.kind = "ChannelClose" => g.channel \in server'.closing
      BY <1>20, <3>1 DEF Inv, View
    <3>7. Opened(n, o)'  BY <1>10 DEF Opened, Opening, f
    <3>8. \A p \in Objects : \A m : Sending(p)' /\ m = chan'[p].id => Opened(m, p)'
      BY <1>12, <1>22, <3>1, <3>2, <3>7 DEF Inv, View
    <3> QED  BY <3>4, <3>5, <3>6, <3>8
  <2> QED  BY <2>1, <2>2, <2>3, <2>4 DEF View
<1>25. Reuse'
  <2>1. ASSUME NEW m \in server'.closing, Talking'
        PROVE  Confirmation(m) \in Sent' \/ \E g \in Got' : g.kind = "ChannelClose" /\ g.channel = m
    <3>1. Talking  BY <1>20, <2>1 DEF Talking
    <3> QED  BY <1>10, <1>14, <1>20, <2>1, <3>1 DEF Inv, Reuse
  <2>2. ASSUME NEW m \in Numbers, channels'[m] = None PROVE Free(m)'
    <3>1. m # n /\ channels[m] = None  BY <1>6, <1>13, <2>2
    <3>2. Free(m)  BY <1>14, <3>1 DEF Inv, Reuse
    <3> QED  BY <1>5, <1>10, <1>20, <3>1, <3>2 DEF Free, Talking
  <2>3. ASSUME NEW g \in Got', g.kind = "ChannelCloseOK" PROVE Released(g.channel)'
    <3>1. g \in Got /\ Released(g.channel)  BY <1>20, <2>3 DEF Inv, Reuse
    <3>2. g.channel # n  BY <1>19, <3>1
    <3>3. g.channel \in Numbers  BY <2>3, <3>1 DEF Inv, Types, FromServer, Final
    <3>4. channels'[g.channel] = channels[g.channel]  BY <1>13, <3>2, <3>3
    <3>5. channels[g.channel] # None => channels[g.channel] \in Objects \ {o}
      BY <1>3, <1>15, <3>3
    <3>6. channels'[g.channel] # None => ~(Sending(channels[g.channel])')
      BY <1>12, <3>1, <3>4, <3>5 DEF Released, Sending
    <3> QED  BY <1>5, <1>10, <1>20, <3>1, <3>2, <3>4, <3>6 DEF Released, Sending
  <2>4. \A g, h \in Got' : Before(toClient', g, h) /\ g.kind = "ChannelCloseOK" => h.channel # g.channel
    BY <1>2, <1>14, <1>20 DEF Inv, Reuse
  <2> QED  BY <2>1, <2>2, <2>3, <2>4 DEF Reuse
<1>26. End'
  <2>1. Silent => Silent'  BY <1>7
  <2>2. told'.error => told.error  BY <1>2
  <2>3. /\ \A g \in A : g.kind = "ConnectionClose" => Ended'
        /\ \A g \in A : g.kind = "ConnectionCloseOK" =>
              Silent' /\ server.phase \in {"closing", "closed"}
    BY <1>5, <1>11
  <2> QED  BY <1>7, <1>16, <1>11, <2>1, <2>2, <2>3, EndStep
<1>27. Hand'
  <2>1. server.phase \in Greetings => toServer' = toServer /\ toClient' = toClient
    BY <1>2, <1>8 DEF Growth
  <2>2. Range(queue') \subseteq Range(queue) \union A  BY <1>8, <1>9 DEF Growth, A
  <2>3. \A g \in A : g.kind \notin Greetings  BY <1>5, <1>11 DEF Greetings
  <2> QED  BY <1>2, <1>16, <1>11, <2>1, <2>2, <2>3, HandStep
<1>28. NothingLeftBehind' /\ NoSurprise'
  BY <1>2, <1>7 DEF Inv, NothingLeftBehind, NoSurprise, Ended
<1> QED  BY <1>17, <1>18, <1>21, <1>23, <1>24, <1>25, <1>26, <1>27, <1>28 DEF Inv

(* The channels in D are closed and lose their numbers.                     *)
Dropped(D) ==
    /\ D \subseteq Objects
    /\ \A o \in D : chan[o].state \in Live
    /\ chan' = [o \in Objects |-> IF o \in D THEN ClosedChannel(chan[o]) ELSE chan[o]]
    /\ channels' = [n \in Numbers |-> IF channels[n] \in D THEN None ELSE channels[n]]

LEMMA DroppedFacts ==
    ASSUME Inv, NEW D, Dropped(D)
    PROVE  /\ chan' \in [Objects -> ChannelType] /\ channels' \in [Numbers -> Objects \union {None}]
           /\ \A o \in D : /\ o \in Objects /\ chan'[o].id = chan[o].id /\ chan'[o].state = "closed"
                           /\ chan[o].state # "none" /\ ~waiting(chan'[o])
                           /\ chan'[o].queue = <<>> /\ ~(Sending(o)')
           /\ \A o \in Objects \ D : chan'[o] = chan[o] /\ (Sending(o)' <=> Sending(o))
           /\ \A n \in Numbers : channels'[n] # None => channels'[n] = channels[n] /\ channels[n] \notin D
           /\ \A n \in Numbers : channels[n] \notin D => channels'[n] = channels[n]
           /\ Registry'
<1>1. chan \in [Objects -> ChannelType] /\ channels \in [Numbers -> Objects \union {None}]
  BY DEF Inv, Types, TypeOK
<1>2. ASSUME NEW o \in D
      PROVE  /\ o \in Objects /\ chan'[o] \in ChannelType /\ chan'[o].id = chan[o].id
             /\ chan'[o].state = "closed" /\ chan'[o].queue = <<>> /\ chan'[o].synchronous = FALSE
  <2>1. o \in Objects /\ chan[o] \in ChannelType  BY <1>1 DEF Dropped
  <2>2. chan'[o] = [chan[o] EXCEPT !.state = "closed", !.synchronous = FALSE, !.queue = <<>>]
    BY <2>1 DEF Dropped, ClosedChannel
  <2>3. <<>> \in Seq(FrameType)  BY EmptySequence
  <2> QED  BY <2>1, <2>2, <2>3 DEF ChannelType
<1>3. \A o \in Objects \ D : chan'[o] = chan[o]  BY DEF Dropped
<1>4. chan' \in [Objects -> ChannelType]
  <2>1. chan' = [o \in Objects |-> chan'[o]]  BY DEF Dropped
  <2> QED  BY <1>1, <1>2, <1>3, <2>1
<1>5. channels' \in [Numbers -> Objects \union {None}]  BY <1>1 DEF Dropped
<1>6. \A o \in D : chan[o].state # "none" /\ ~waiting(chan'[o]) /\ ~(Sending(o)')
  BY <1>2 DEF Dropped, Live, waiting, Sending
<1>7. \A o \in Objects \ D : Sending(o)' <=> Sending(o)  BY <1>3 DEF Sending
<1>8. \A n \in Numbers : channels'[n] # None => channels'[n] = channels[n] /\ channels[n] \notin D
  BY DEF Dropped
<1>9. \A n \in Numbers : channels[n] \notin D => channels'[n] = channels[n]  BY DEF Dropped
<1>10. Registry'
  <2>1. \A n \in Numbers : channels'[n] # None => chan'[channels'[n]].state \in Live
    BY <1>1, <1>3, <1>8 DEF Inv, Registry
  <2>2. \A o \in Objects : chan'[o].state \in Live =>
            chan'[o].id \in Numbers /\ channels'[chan'[o].id] = o
    <3> SUFFICES ASSUME NEW o \in Objects, chan'[o].state \in Live
                 PROVE  chan'[o].id \in Numbers /\ channels'[chan'[o].id] = o
      OBVIOUS
    <3>1. o \notin D  BY <1>2 DEF Live
    <3>2. chan'[o] = chan[o]  BY <1>3, <3>1
    <3>3. chan[o].id \in Numbers /\ channels[chan[o].id] = o  BY <3>2 DEF Inv, Registry
    <3> QED  BY <1>9, <3>1, <3>2, <3>3
  <2>3. \A o \in Objects : chan'[o].state \notin Live => ~waiting(chan'[o])
    BY <1>3, <1>6 DEF Inv, Registry
  <2>4. \A o \in Objects : QueueFits(chan'[o], o)
    <3>1. Len(<<>>) = 0  OBVIOUS
    <3>2. ASSUME NEW o \in D PROVE QueueFits(chan'[o], o)
      <4>1. chan'[o].queue = <<>>  BY <1>2
      <4>2. \A i \in 1..Len(chan'[o].queue) : FALSE  BY <3>1, <4>1
      <4> QED  BY <4>2 DEF QueueFits
    <3> QED  BY <1>3, <3>2 DEF Inv, Registry
  <2> QED  BY <2>1, <2>2, <2>3, <2>4 DEF Registry
<1> QED  BY <1>2, <1>3, <1>4, <1>5, <1>6, <1>7, <1>8, <1>9, <1>10

(* What survives when channels are dropped, and the answers A to a close    *)
(* frame are sent: a number gets free here only when it is free at the      *)
(* server too, unless no channel can be opened any more.                    *)
LEMMA DropStep ==
    ASSUME Inv, NEW D, Dropped(D), ServerKept, NEW A, Sent' = Sent \union A,
           \A f \in A : f.of = None /\ \/ f.kind = "ChannelCloseOK"
                                       \/ f.kind = "ConnectionCloseOK" /\ f.channel = 0,
           \A f, g : Before(Pipeline', f, g) =>
               Before(Pipeline, f, g) \/ (MayFollow(f, g) /\ g \in A),
           \A f, g : Before(Pipeline, f, g) => Before(Pipeline', f, g),
           \A f \in A : f.kind = "ChannelCloseOK" =>
               /\ channels'[f.channel] = None
               /\ \A g \in Got' : g.kind = "ChannelClose" => g.channel # f.channel
               /\ Talking => f.channel \in server.closing,
           Opens' =>
               /\ Opens
               /\ \A n \in Numbers : channels'[n] = None /\ channels[n] # None => Free(n)'
               /\ \A g \in Got : g.kind = "ChannelClose" => g \in Got' \/ Confirmation(g.channel) \in A
    PROVE  Owned' /\ Order' /\ View' /\ Reuse'
<1>1. /\ chan' \in [Objects -> ChannelType] /\ channels' \in [Numbers -> Objects \union {None}]
      /\ \A o \in D : /\ o \in Objects /\ chan'[o].id = chan[o].id /\ chan'[o].state = "closed"
                      /\ chan[o].state # "none" /\ ~(Sending(o)')
      /\ \A o \in Objects \ D : chan'[o] = chan[o] /\ (Sending(o)' <=> Sending(o))
      /\ \A n \in Numbers : channels'[n] # None => channels'[n] = channels[n] /\ channels[n] \notin D
      /\ \A n \in Numbers : channels[n] \notin D => channels'[n] = channels[n]
  BY DroppedFacts
<1>2. \A o \in Objects : /\ chan'[o].id = chan[o].id
                         /\ chan'[o].state = "none" <=> chan[o].state = "none"
                         /\ Sending(o)' => Sending(o)
  BY <1>1
<1>3. channels \in [Numbers -> Objects \union {None}]  BY DEF Inv, Types, TypeOK
<1>4. \A f \in Sent \union Got : f.of \in Objects => f.channel \in Numbers
  BY ConnectionAssumption DEF Inv, Types, FromClient, FromServer
<1>5. \A f, g : Before(Pipeline, f, g) => f \in Sent /\ g \in Sent
  BY PipelineTypes, BeforeRange DEF Inv, Sent
<1>6. Owned'
  <2>1. \A f \in Sent' : f.of \in Objects => f \in Sent  BY ConnectionAssumption
  <2>2. \A f \in Sent' \union Got' : f.of \in Objects =>
            chan'[f.of].state # "none" /\ chan'[f.of].id = f.channel
    BY <1>2, <2>1 DEF Inv, Owned, ServerKept
  <2>3. ASSUME NEW g \in Got', g.of \in Objects PROVE channels'[g.channel] \in {g.of, None}
    <3>1. g \in Got  BY DEF ServerKept
    <3> QED  BY <1>1, <1>4, <2>3, <3>1 DEF Inv, Owned
  <2>4. ASSUME NEW f \in Sent', f.of \in Objects
        PROVE  \/ channels'[f.channel] \in {f.of, None}
               \/ f.kind \in Requests /\ Before(Pipeline', f, Confirmation(f.channel))
    <3>1. f \in Sent  BY <2>1, <2>4
    <3>2. \/ channels[f.channel] \in {f.of, None}
          \/ f.kind \in Requests /\ Before(Pipeline, f, Confirmation(f.channel))
      BY <2>4, <3>1 DEF Inv, Owned
    <3> QED  BY <1>1, <1>4, <2>4, <3>1, <3>2
  <2> QED  BY <2>2, <2>3, <2>4 DEF Owned
<1>7. \A f \in Sent : f.kind = "ChannelCloseOK" => f.channel \in Numbers
  BY DEF Inv, Types, FromClient, Calls, Requests, Greetings, Final
<1>8. Order'
  <2>1. \A f, g \in Sent' : Before(Pipeline', f, g) => MayFollow(f, g)
    BY <1>5 DEF Inv, Order
  <2>2. \A o \in Objects : Sending(o)' =>
            \A f \in Sent' : f.kind = "ChannelClose" => f.channel # chan'[o].id
    BY <1>2 DEF Inv, Order
  <2>3. ASSUME NEW f \in Sent', f.kind = "ChannelCloseOK"
        PROVE  /\ \/ channels'[f.channel] = None
                  \/ Before(Pipeline', f, Opening(f.channel, channels'[f.channel]))
               /\ \A g \in Got' : g.kind = "ChannelClose" => g.channel # f.channel
               /\ \A g \in Sent' : Before(Pipeline', f, g) /\ g.kind \in Calls /\ g.channel = f.channel =>
                     Opening(g.channel, g.of) \in Sent'
    <3>1. ASSUME NEW g \in Sent', Before(Pipeline', f, g), g.kind \in Calls, g.channel = f.channel
          PROVE  Opening(g.channel, g.of) \in Sent'
      <4>1. g \notin A  BY <3>1 DEF Calls, Requests
      <4>2. Before(Pipeline, f, g) /\ f \in Sent /\ g \in Sent  BY <1>5, <3>1, <4>1
      <4> QED  BY <2>3, <3>1, <4>2 DEF Inv, Order
    <3>2. CASE f \in A  BY <2>3, <3>1, <3>2
    <3>3. CASE f \notin A
      <4>1. f \in Sent /\ f.channel \in Numbers  BY <1>7, <2>3, <3>3
      <4>2. \/ channels[f.channel] = None
            \/ Before(Pipeline, f, Opening(f.channel, channels[f.channel]))
        BY <2>3, <4>1 DEF Inv, Order
      <4>3. channels'[f.channel] = None \/ channels'[f.channel] = channels[f.channel]  BY <1>1, <4>1
      <4>4. \A g \in Got' : g.kind = "ChannelClose" => g.channel # f.channel
        BY <2>3, <4>1 DEF Inv, Order, ServerKept
      <4> QED  BY <3>1, <4>2, <4>3, <4>4
    <3> QED  BY <3>2, <3>3
  <2> QED  BY <2>1, <2>2, <2>3 DEF Order
<1>9. View'
  <2>1. server'.open \intersect server'.closing = {}  BY DEF Inv, View, ServerKept
  <2>2. \A g, h \in Got' :
            Before(toClient', g, h) /\ g.kind = "ChannelClose" /\ g.channel = h.channel =>
                h.kind = "ChannelCloseOK"
    BY DEF Inv, View, ServerKept
  <2>3. \A g \in Got' : g.kind = "ChannelClose" =>
            \A f \in Sent' : f.kind = "ChannelOpen" => f.channel # g.channel
    BY DEF Inv, View, ServerKept
  <2>4. ASSUME Talking'
        PROVE  /\ \A f \in Sent' :
                    /\ f.kind = "ChannelOpen" =>
                          /\ f.channel \notin server'.open
                          /\ f.channel \in server'.closing =>
                                Before(Pipeline', Confirmation(f.channel), f)
                    /\ f.kind \in Calls => Opened(f.channel, f.of)'
                    /\ f.kind = "ChannelCloseOK" => f.channel \in server'.closing
               /\ \A g \in Got' : g.kind = "ChannelClose" => g.channel \in server'.closing
               /\ \A o \in Objects : \A n : Sending(o)' /\ n = chan'[o].id => Opened(n, o)'
    <3>1. Talking /\ server' = server  BY <2>4 DEF Talking, ServerKept
    <3>2. \A n, o : Opened(n, o) => Opened(n, o)'  BY <3>1 DEF Opened
    <3>3. \A f \in Sent' :
             /\ f.kind = "ChannelOpen" =>
                   /\ f.channel \notin server'.open
                   /\ f.channel \in server'.closing => Before(Pipeline', Confirmation(f.channel), f)
             /\ f.kind = "ChannelCloseOK" => f.channel \in server'.closing
      BY <3>1 DEF Inv, View
    <3>4. \A f \in Sent' : f.kind \in Calls => Opened(f.channel, f.of)'
      BY <3>1, <3>2 DEF Inv, View, Calls, Requests
    <3>5. \A g \in Got' : g.kind = "ChannelClose" => g.channel \in server'.closing
      BY <3>1 DEF Inv, View, ServerKept
    <3>6. \A o \in Objects : \A n : Sending(o)' /\ n = chan'[o].id => Opened(n, o)'
      BY <1>2, <3>1, <3>2 DEF Inv, View
    <3> QED  BY <3>3, <3>4, <3>5, <3>6
  <2> QED  BY <2>1, <2>2, <2>3, <2>4 DEF View
<1>10. Reuse'
  <2>1. ASSUME Opens', Talking', NEW n \in server'.closing
        PROVE  Confirmation(n) \in Sent' \/ \E g \in Got' : g.kind = "ChannelClose" /\ g.channel = n
    <3>1. Talking /\ n \in server.closing  BY <2>1 DEF Talking, ServerKept
    <3>2. Confirmation(n) \in Sent \/ \E g \in Got : g.kind = "ChannelClose" /\ g.channel = n
      BY <2>1, <3>1 DEF Inv, Reuse
    <3> QED  BY <2>1, <3>2
  <2>2. ASSUME Opens', NEW n \in Numbers, channels'[n] = None PROVE Free(n)'
    <3>1. CASE channels[n] # None  BY <2>2, <3>1
    <3>2. CASE channels[n] = None
      <4>1. Free(n)  BY <2>2, <3>2 DEF Inv, Reuse
      <4>2. n # 0  BY ConnectionAssumption DEF Numbers
      <4> QED  BY <4>1, <4>2 DEF Free, ServerKept, Talking, Requests
    <3> QED  BY <3>1, <3>2
  <2>3. ASSUME NEW g \in Got', g.kind = "ChannelCloseOK" PROVE Released(g.channel)'
    <3>1. g \in Got  BY DEF ServerKept
    <3>2. Released(g.channel)  BY <2>3, <3>1 DEF Inv, Reuse
    <3>3. g.channel \in Numbers  BY <2>3, <3>1 DEF Inv, Types, FromServer, Final
    <3>4. g.channel # 0  BY <3>3, ConnectionAssumption DEF Numbers
    <3>5. channels'[g.channel] # None => channels'[g.channel] \in Objects \ D
                                         /\ channels'[g.channel] = channels[g.channel]
      BY <1>1, <3>3
    <3> QED  BY <1>1, <3>2, <3>4, <3>5 DEF Released, ServerKept, Sending
  <2>4. \A g, h \in Got' : Before(toClient', g, h) /\ g.kind = "ChannelCloseOK" => h.channel # g.channel
    BY DEF Inv, Reuse, ServerKept
  <2> QED  BY <2>1, <2>2, <2>3, <2>4 DEF Reuse
<1> QED  BY <1>6, <1>8, <1>9, <1>10

LEMMA DropInv ==
    ASSUME Inv, NEW D, Dropped(D), NEW s, Growth(s), Consumed,
           UNCHANGED <<closed, maxChannels, next, calls, server>>,
           told' \in [error : BOOLEAN, closed : BOOLEAN], told.error => told'.error,
           running' \in {"no", "frame"}, state' \in {state, "closed"},
           Silent => s = <<>>, \A f, g : ~Before(s, f, g),
           \A f \in Sent : \A g \in Range(s) : MayFollow(f, g),
           \A f \in Range(s) :
              f.of = None /\ \/ /\ f.kind = "ChannelCloseOK" /\ f.channel \in Numbers
                                /\ channels'[f.channel] = None
                                /\ \A g \in Got' : g.kind = "ChannelClose" => g.channel # f.channel
                                /\ Talking => f.channel \in server.closing
                             \/ /\ f.kind = "ConnectionCloseOK" /\ f.channel = 0
                                /\ Silent' /\ server.phase \in {"closing", "closed"},
           told'.error => \/ told.error
                          \/ /\ server.phase \in {"closing", "closed"}
                             /\ \A g \in Got' : g.kind = "ConnectionCloseOK",
           Opens' =>
               /\ \A n \in Numbers : channels'[n] = None /\ channels[n] # None => Free(n)'
               /\ \A g \in Got : g.kind = "ChannelClose" =>
                     g \in Got' \/ Confirmation(g.channel) \in Range(s),
           Ended' => Ended \/ \A o \in Objects : chan[o].state \in Live => o \in D
    PROVE  Inv'
<1>1. Types  BY DEF Inv
<1>2. /\ Sent' = Sent \union Range(s)
      /\ \A f, g : Before(Pipeline', f, g) <=>
            Before(Pipeline, f, g) \/ Before(s, f, g) \/ (f \in Sent /\ g \in Range(s))
  BY <1>1, PipelineGrows DEF Growth
<1>3. Silent => Range(s) = {}
  <2>1. Range(<<>>) = {}  BY EmptySequence
  <2> QED  BY <2>1
<1>4. /\ \A f, g : Before(Pipeline', f, g) =>
             Before(Pipeline, f, g) \/ (MayFollow(f, g) /\ g \in Range(s))
      /\ \A f, g : Before(Pipeline, f, g) => Before(Pipeline', f, g)
  BY <1>2
<1>5. ServerKept
  <2>1. CASE UNCHANGED toClient  BY <2>1 DEF Got, ServerKept
  <2>2. CASE toClient # <<>> /\ toClient' = Tail(toClient)  BY <1>1, <2>2, GotShrinks DEF ServerKept
  <2> QED  BY <2>1, <2>2 DEF Consumed
<1>6. toClient' \in Seq(FrameType)
  <2>1. toClient \in Seq(FrameType)  BY <1>1, PipelineTypes
  <2>2. toClient # <<>> => Tail(toClient) \in Seq(FrameType)  BY <2>1, HeadTailProperties
  <2> QED  BY <2>1, <2>2 DEF Consumed
<1>7. /\ chan' \in [Objects -> ChannelType] /\ channels' \in [Numbers -> Objects \union {None}]
      /\ \A o \in D : o \in Objects /\ ~waiting(chan'[o])
      /\ \A o \in Objects \ D : chan'[o] = chan[o]
      /\ \A n \in Numbers : channels'[n] # None => channels'[n] = channels[n] /\ channels[n] \notin D
      /\ Registry'
  BY DroppedFacts
<1>8. Types'
  <2>1. \A n \in Numbers : channels'[n] # None => chan'[channels'[n]].id = n
    <3> SUFFICES ASSUME NEW n \in Numbers, channels'[n] # None PROVE chan'[channels'[n]].id = n
      OBVIOUS
    <3>1. channels'[n] = channels[n] /\ channels[n] \in Objects \ D  BY <1>7
    <3>2. chan[channels[n]].id = n  BY <1>1, <3>1 DEF Types, TypeOK
    <3> QED  BY <1>7, <3>1, <3>2
  <2>2. /\ state' \in {"protocol", "handshake", "connected", "closing", "closed"}
        /\ closed' \in BOOLEAN /\ running' \in {"no", "frame", "onReady"} /\ calls' \in 0..MaxCalls
        /\ maxChannels' \in ChannelMax \union {0} /\ next' \in 0..MaxNumber
    BY <1>1 DEF Types, TypeOK
  <2>3. toServer' \in Seq(FrameType) /\ queue' \in Seq(FrameType)  BY DEF Growth
  <2>4. \A f \in Range(s) : FromClient(f)  BY DEF FromClient, Final
  <2> QED  BY <1>2, <1>5, <1>6, <1>7, <2>1, <2>2, <2>3, <2>4, ClientTypes
<1>9. Owned' /\ Order' /\ View' /\ Reuse'
  <2>1. \A f \in Range(s) : f.of = None /\ \/ f.kind = "ChannelCloseOK"
                                           \/ f.kind = "ConnectionCloseOK" /\ f.channel = 0
    OBVIOUS
  <2>2. \A f \in Range(s) : f.kind = "ChannelCloseOK" =>
            /\ channels'[f.channel] = None
            /\ \A g \in Got' : g.kind = "ChannelClose" => g.channel # f.channel
            /\ Talking => f.channel \in server.closing
    OBVIOUS
  <2>3. Opens' => Opens  BY DEF Opens, usable
  <2> QED  BY <1>2, <1>4, <1>5, <2>1, <2>2, <2>3, DropStep
<1>10. End'
  <2>1. Ended => Ended'  BY DEF Ended
  <2>2. Silent => Silent'  BY <2>1 DEF Silent
  <2>3. \A f \in Range(s) : f.kind = "ConnectionClose" => Ended'  OBVIOUS
  <2>4. \A f \in Range(s) : f.kind = "ConnectionCloseOK" =>
            Silent' /\ server.phase \in {"closing", "closed"}
    OBVIOUS
  <2> QED  BY <1>2, <1>3, <1>5, <2>1, <2>2, <2>3, <2>4, EndStep
<1>11. Hand'
  <2>1. server.phase \in Greetings => toServer' = toServer /\ toClient' = toClient
    BY DEF Growth, Consumed
  <2>2. Range(queue') \subseteq Range(queue) \union Range(s)  BY DEF Growth
  <2>3. \A f \in Range(s) : f.kind \notin Greetings  BY DEF Greetings
  <2> QED  BY <1>2, <1>5, <2>1, <2>2, <2>3, HandStep
<1>12. ASSUME Ended' PROVE \A o \in Objects : ~waiting(chan'[o])
  <2>1. \A o \in Objects \ D : ~waiting(chan[o])
    BY <1>12 DEF Inv, NothingLeftBehind, Ended, Registry
  <2> QED  BY <1>7, <2>1
<1>13. NothingLeftBehind' /\ NoSurprise'  BY <1>12 DEF Inv, NothingLeftBehind, NoSurprise, Ended
<1> QED  BY <1>7, <1>8, <1>9, <1>10, <1>11, <1>13 DEF Inv

(* ConnectionImpl::remove and reportError for one channel, and for all.     *)
LEMMA RemoveDrops ==
    ASSUME Inv, NEW m \in Numbers, channels[m] # None, Remove(channels[m])
    PROVE  Dropped({channels[m]})
<1> DEFINE o == channels[m]
<1>1. /\ channels \in [Numbers -> Objects \union {None}] /\ chan \in [Objects -> ChannelType]
      /\ o \in Objects /\ chan[o].id = m
  BY DEF Inv, Types, TypeOK
<1>2. chan[o].state \in Live  BY DEF Inv, Registry
<1>3. \A n \in Numbers : channels[n] = o => n = m  BY <1>1 DEF Inv, Types, TypeOK
<1>4. chan' = [p \in Objects |-> IF p \in {o} THEN ClosedChannel(chan[p]) ELSE chan[p]]
  BY <1>1 DEF Remove
<1>5. channels' = [n \in Numbers |-> IF channels[n] \in {o} THEN None ELSE channels[n]]
  BY <1>1, <1>3 DEF Remove
<1> QED  BY <1>1, <1>2, <1>4, <1>5 DEF Dropped

LEMMA FailDrops ==
    ASSUME Inv, failChannels
    PROVE  /\ Dropped({o \in Objects : Registered(o)})
           /\ \A o \in Objects : chan[o].state \in Live => Registered(o)
<1> DEFINE D == {o \in Objects : Registered(o)}
<1>1. channels \in [Numbers -> Objects \union {None}]  BY DEF Inv, Types, TypeOK
<1>2. \A o \in Objects : chan[o].state \in Live => Registered(o)  BY DEF Inv, Registry, Registered
<1>3. \A o \in D : chan[o].state \in Live  BY ConnectionAssumption DEF Inv, Registry, Registered
<1>4. \A n \in Numbers : channels[n] # None => channels[n] \in D  BY <1>1 DEF Registered
<1>5. chan' = [o \in Objects |-> IF o \in D THEN ClosedChannel(chan[o]) ELSE chan[o]]
  BY DEF failChannels
<1>6. channels' = [n \in Numbers |-> IF channels[n] \in D THEN None ELSE channels[n]]
  BY <1>4 DEF failChannels
<1> QED  BY <1>2, <1>3, <1>5, <1>6 DEF Dropped

(* ChannelCloseOKFrame::process: nothing but a confirmation is left of the  *)
(* number on either wire.                                                   *)
LEMMA ReportClosedInv == ASSUME Inv, reportClosed PROVE Inv'
<1> DEFINE m == Head(toClient).channel
           D == {channels[m]}
<1>1. Receive("reportClosed") /\ channels[m] # None /\ Remove(channels[m])  BY DEF reportClosed, Target
<1>2. Received /\ server.phase \notin Greetings  BY <1>1, ReceiveFacts
<1>3. /\ Head(toClient) \in Got /\ Head(toClient).kind = "ChannelCloseOK" /\ FromServer(Head(toClient))
      /\ toClient # <<>> /\ toClient' = Tail(toClient)
  BY <1>1, ReceivedKind DEF Inv, Handler
<1>4. m \in Numbers  BY <1>3 DEF FromServer, Final
<1>5. Dropped(D)  BY <1>1, <1>4, RemoveDrops
<1>6. /\ UNCHANGED <<closed, maxChannels, next, calls, server, told, state, toServer, queue>>
      /\ running' = "frame"
  BY DEF reportClosed
<1>7. told' \in [error : BOOLEAN, closed : BOOLEAN]  BY <1>6 DEF Inv, Types
<1>8. Growth(<<>>)  BY <1>6, NoGrowth DEF Inv
<1>9. Range(<<>>) = {} /\ \A f, g : ~Before(<<>>, f, g)  BY EmptySequence
<1>10. Got = {Head(toClient)} \union Got' /\ \A h \in Got' : Before(toClient, Head(toClient), h)
  BY <1>3, GotShrinks DEF Inv
<1>11. Sent' = Sent  BY <1>6 DEF Sent, Pipeline
<1>12. ASSUME NEW k, k = m PROVE Free(k)'
  <2>1. Released(m)  BY <1>3 DEF Inv, Reuse
  <2>2. \A h \in Got' : h.channel # m  BY <1>3, <1>10 DEF Inv, Reuse
  <2> QED  BY <1>6, <1>11, <1>12, <2>1, <2>2 DEF Free, Released, Requests
<1>13. ASSUME NEW n \in Numbers, channels'[n] = None, channels[n] # None PROVE n = m
  <2>1. channels[n] \in D  BY <1>5, <1>13, DroppedFacts
  <2>2. chan[channels[n]].id = n /\ chan[channels[m]].id = m  BY <1>1, <1>4, <1>13 DEF Inv, Types, TypeOK
  <2> QED  BY <2>1, <2>2
<1> HIDE DEF D, m
<1>14. /\ \A n \in Numbers : channels'[n] = None /\ channels[n] # None => Free(n)'
       /\ \A g \in Got : g.kind = "ChannelClose" => g \in Got'
  BY <1>3, <1>10, <1>12, <1>13
<1>15. Ended' => Ended  BY <1>6 DEF Ended
<1> QED  BY <1>2, <1>5, <1>6, <1>7, <1>8, <1>9, <1>14, <1>15, DropInv DEF Received

(* ConnectionImpl::fail(message): the transport is lost.                    *)
LEMMA FailInv == ASSUME Inv, fail PROVE Inv'
<1> DEFINE D == {o \in Objects : Registered(o)}
<1>1. Dropped(D) /\ \A o \in Objects : chan[o].state \in Live => o \in D  BY FailDrops DEF fail
<1>2. /\ UNCHANGED <<closed, maxChannels, next, calls, server, told, toServer, queue, toClient>>
      /\ running' = "no" /\ state' = "closed"
  BY DEF fail
<1>3. told' \in [error : BOOLEAN, closed : BOOLEAN] /\ Consumed
  BY <1>2 DEF Inv, Types, Consumed
<1>4. Growth(<<>>) /\ ~(Opens')  BY <1>2, NoGrowth DEF Inv, Opens, usable
<1>5. Range(<<>>) = {} /\ \A f, g : ~Before(<<>>, f, g)  BY EmptySequence
<1> HIDE DEF D
<1> QED  BY <1>1, <1>2, <1>3, <1>4, <1>5, DropInv

(* ConnectionCloseFrame::process.                                           *)
LEMMA ConnectionErrorInv == ASSUME Inv, connectionError PROVE Inv'
<1> DEFINE D == {o \in Objects : Registered(o)}
           a == Own("ConnectionCloseOK")
<1>1. Receive("connectionError") /\ send(a) /\ failChannels  BY DEF connectionError
<1>2. Consumed  BY <1>1, ReceiveFacts DEF Received
<1>3. /\ Head(toClient) \in Got /\ Head(toClient).kind = "ConnectionClose"
      /\ toClient # <<>> /\ toClient' = Tail(toClient)
  BY <1>1, ReceivedKind DEF Inv, Handler
<1>4. Dropped(D)  BY <1>1, FailDrops
<1>5. UNCHANGED <<closed, maxChannels, next, calls, server, state>> /\ running' = "frame"
  BY DEF connectionError
<1>6. told' \in [error : BOOLEAN, closed : BOOLEAN] /\ told'.error = TRUE /\ ~(Opens')
  BY DEF connectionError, Inv, Types, Opens
<1>7. \A h \in Got' : h.kind = "ConnectionCloseOK"
  <2>1. Got = {Head(toClient)} \union Got' /\ \A h \in Got' : Before(toClient, Head(toClient), h)
    BY <1>3, GotShrinks DEF Inv
  <2> QED  BY <1>3, <2>1 DEF Inv, End
<1>8. server.phase \in {"closing", "closed"} /\ ~told.error  BY <1>3 DEF Inv, End
<1>9. "ConnectionCloseOK" \in Kinds /\ Catalogue["ConnectionCloseOK"].handshake = FALSE
      /\ Catalogue["ConnectionCloseOK"].shutdown = FALSE
  BY PartFacts DEF Final
<1>10. a \in FrameType /\ a.kind = "ConnectionCloseOK" /\ a.channel = 0 /\ a.of = None
  BY <1>9, OwnFrame
<1> HIDE DEF a, D
<1>11. Ended' => Ended  BY <1>5 DEF Ended
<1>12. CASE Accepts(a) /\ Growth(<<a>>)
  <2>1. ~Ended /\ ~closed  BY <1>9, <1>10, <1>12 DEF Accepts, Ended
  <2>2. ~Silent /\ Silent'  BY <1>5, <1>6, <1>8, <2>1 DEF Silent
  <2>3. Range(<<a>>) = {a} /\ \A f, g : ~Before(<<a>>, f, g)  BY <1>10, OneElement
  <2>4. \A f \in Sent : MayFollow(f, a)
    <3>1. \A f \in Sent : f.kind \notin Final  BY <2>2 DEF Inv, End, Silent, Final
    <3> QED  BY <1>10, <3>1 DEF MayFollow
  <2> QED  BY <1>2, <1>4, <1>5, <1>6, <1>7, <1>8, <1>10, <1>11, <1>12, <2>2, <2>3, <2>4, DropInv
<1>13. CASE Growth(<<>>)
  <2>1. Range(<<>>) = {} /\ \A f, g : ~Before(<<>>, f, g)  BY EmptySequence
  <2> QED  BY <1>2, <1>4, <1>5, <1>6, <1>7, <1>8, <1>11, <1>13, <2>1, DropInv
<1> QED  BY <1>1, <1>9, <1>10, <1>12, <1>13, SendGrows

(* ChannelCloseFrame::process.                                              *)
LEMMA ChannelErrorInv == ASSUME Inv, channelError PROVE Inv'
<1> DEFINE m == Head(toClient).channel
           D == IF channels[m] = None THEN {} ELSE {channels[m]}
           a == Frame("ChannelCloseOK", m, None)
<1>1. Receive("reportError")  BY DEF channelError
<1>2. Consumed  BY <1>1, ReceiveFacts
<1>3. /\ Head(toClient) \in Got /\ Head(toClient).kind = "ChannelClose" /\ FromServer(Head(toClient))
      /\ toClient # <<>> /\ toClient' = Tail(toClient)
  BY <1>1, ReceivedKind DEF Inv, Handler
<1>4. m \in Numbers /\ Head(toClient).of = None  BY <1>3 DEF FromServer, Final
<1>5. send(a)  BY <1>4 DEF channelError
<1>6. Dropped(D)
  <2>1. CASE channels[m] # None
    <3>1. Remove(channels[m])  BY <2>1 DEF channelError, Target
    <3> QED  BY <1>4, <2>1, <3>1, RemoveDrops
  <2>2. CASE channels[m] = None
    <3>1. UNCHANGED <<chan, channels>> /\ D = {}  BY <2>2 DEF channelError, Target
    <3>2. chan \in [Objects -> ChannelType] /\ channels \in [Numbers -> Objects \union {None}]
      BY DEF Inv, Types, TypeOK
    <3> HIDE DEF D
    <3> QED  BY <3>1, <3>2 DEF Dropped
  <2> QED  BY <2>1, <2>2
<1>7. channels'[m] = None
  <2>1. channels[m] # None => channels[m] \in D  OBVIOUS
  <2> HIDE DEF D
  <2> QED  BY <1>4, <1>6, <2>1, DroppedFacts
<1>8. UNCHANGED <<closed, maxChannels, next, calls, server, state, told>> /\ running' = "frame"
  BY DEF channelError
<1>9. told' \in [error : BOOLEAN, closed : BOOLEAN]  BY <1>8 DEF Inv, Types
<1>10. /\ Got = {Head(toClient)} \union Got'
       /\ \A h \in Got' : h.channel = m => h.kind = "ChannelCloseOK"
  <2>1. Got = {Head(toClient)} \union Got' /\ \A h \in Got' : Before(toClient, Head(toClient), h)
    BY <1>3, GotShrinks DEF Inv
  <2> QED  BY <1>3, <2>1 DEF Inv, View
<1>11. ~told.error  BY <1>3 DEF Inv, End
<1>12. Talking => m \in server.closing  BY <1>3 DEF Inv, View
<1>13. "ChannelCloseOK" \in Kinds /\ Catalogue["ChannelCloseOK"].handshake = FALSE
       /\ Catalogue["ChannelCloseOK"].shutdown = FALSE
  BY PartFacts
<1>14. a \in FrameType /\ a.kind = "ChannelCloseOK" /\ a.channel = m /\ a.of = None
  BY <1>4, <1>13, ConnectionAssumption DEF Frame, FrameType, Numbers
<1>15. \A f \in Sent : f.kind \in {"ChannelOpen", "ChannelCloseOK"} => f.channel # m
  BY <1>3 DEF Inv, Order, View
<1>16. a = Confirmation(m)  BY DEF Confirmation
<1>17. ASSUME NEW n \in Numbers, channels'[n] = None, channels[n] # None PROVE n = m
  <2>1. channels[n] \in D  BY <1>6, <1>17, DroppedFacts
  <2>2. channels[m] # None /\ channels[n] = channels[m]  BY <2>1
  <2>3. chan[channels[n]].id = n /\ chan[channels[m]].id = m
    BY <1>4, <1>17, <2>2 DEF Inv, Types, TypeOK
  <2> QED  BY <2>2, <2>3
<1>18. \A g \in Got : g.kind = "ChannelClose" => g \in Got' \/ g.channel = m  BY <1>10
<1> HIDE DEF a, D, m
<1>19. Ended' => Ended  BY <1>8 DEF Ended
<1>20. CASE Accepts(a) /\ Growth(<<a>>)
  <2>1. ~Silent  BY <1>11, <1>20 DEF Accepts, Ended, Silent
  <2>2. Range(<<a>>) = {a} /\ \A f, g : ~Before(<<a>>, f, g)  BY <1>14, OneElement
  <2>3. \A f \in Sent : MayFollow(f, a)
    <3>1. \A f \in Sent : f.kind \notin Final  BY <2>1 DEF Inv, End, Silent, Final
    <3> QED  BY <1>14, <1>15, <3>1 DEF MayFollow
  <2>4. Sent' = Sent \union {a} /\ \A f \in Sent : Before(Pipeline', f, a)
    <3>1. <<a>> \in Seq(FrameType) /\ Pipeline' = Pipeline \o <<a>>  BY <1>20 DEF Growth
    <3> QED  BY <2>2, <3>1, PipelineGrows DEF Inv
  <2>5. ASSUME NEW n, n = m PROVE Free(n)'
    <3>1. \A g \in Got' : g.channel = n => g.kind = "ChannelCloseOK"  BY <1>10, <2>5
    <3>2. \A f \in Sent' : f.channel = n =>
              f.kind # "ChannelOpen" /\ (f.kind \in Requests => Before(Pipeline', f, Confirmation(n)))
      BY <1>14, <1>15, <1>16, <2>4, <2>5 DEF Requests
    <3>3. Talking' => n \notin server'.open  BY <1>8, <1>12, <2>5 DEF Inv, View, Talking
    <3> QED  BY <3>1, <3>2, <3>3 DEF Free
  <2>6. /\ \A n \in Numbers : channels'[n] = None /\ channels[n] # None => Free(n)'
        /\ \A g \in Got : g.kind = "ChannelClose" =>
              g \in Got' \/ Confirmation(g.channel) \in Range(<<a>>)
    BY <1>16, <1>17, <1>18, <2>2, <2>5
  <2>7. \A h \in Got' : h.kind = "ChannelClose" => h.channel # m  BY <1>10
  <2> QED
    BY <1>2, <1>4, <1>6, <1>7, <1>8, <1>9, <1>11, <1>12, <1>14, <1>19, <1>20, <2>1, <2>2, <2>3, <2>6, <2>7,
       DropInv
<1>21. CASE ~Accepts(a) /\ Growth(<<>>)
  <2>1. Range(<<>>) = {} /\ \A f, g : ~Before(<<>>, f, g)  BY EmptySequence
  <2>2. ~(Opens')  BY <1>8, <1>21 DEF Opens, usable, Accepts
  <2> QED  BY <1>2, <1>6, <1>8, <1>9, <1>11, <1>19, <1>21, <2>1, <2>2, DropInv
<1> QED  BY <1>5, <1>13, <1>14, <1>20, <1>21, SendGrows

-----------------------------------------------------------------------------
(* The server.                                                              *)

ClientKept == UNCHANGED <<connVars, running, chan, calls, told>>

(* It takes a frame from the front of the pipeline, or none, and adds the   *)
(* frames R.                                                                *)
Taken(f) == toServer # <<>> /\ toServer' = Tail(toServer) /\ f = Head(toServer)
Heard ==
    /\ toServer' \in Seq(FrameType)
    /\ Sent' \subseteq Sent
    /\ \A f \in Sent : f \in Sent' \/ Taken(f)
    /\ \A f, g : Before(Pipeline', f, g) => Before(Pipeline, f, g)
    /\ \A f, g : Before(Pipeline, f, g) => f \in Sent /\ g \in Sent /\ (Before(Pipeline', f, g) \/ Taken(f))
    /\ \A f : Taken(f) => /\ f \in Sent
                          /\ \A g \in Sent' : Before(Pipeline, f, g) /\ MayFollow(f, g)
    /\ \A f, g \in Sent' : f = g \/ Before(Pipeline', f, g) \/ Before(Pipeline', g, f)
Said(R) ==
    /\ toClient' \in Seq(FrameType)
    /\ Got' = Got \union R
    /\ \A g, h : Before(toClient', g, h) => Before(toClient, g, h) \/ (g \in Got /\ h \in R)

LEMMA NothingHeard ==
    ASSUME Types, UNCHANGED <<toServer, queue>>
    PROVE  Heard /\ Sent' = Sent /\ \A f : ~Taken(f)
<1>1. Pipeline' = Pipeline  BY DEF Pipeline
<1>2. toServer \in Seq(FrameType) /\ Pipeline \in Seq(FrameType)  BY PipelineTypes
<1>3. ASSUME NEW f, Taken(f) PROVE FALSE
  <2>1. toServer # <<>> /\ Tail(toServer) = toServer  BY <1>3 DEF Taken
  <2>2. Len(toServer) \in Nat /\ Len(Tail(toServer)) = Len(toServer) - 1
    BY <1>2, <2>1, HeadTailProperties, LenProperties
  <2> QED  BY <2>1, <2>2
<1>4. /\ \A f, g : Before(Pipeline, f, g) => f \in Sent /\ g \in Sent
      /\ \A f, g \in Sent : f = g \/ Before(Pipeline, f, g) \/ Before(Pipeline, g, f)
  BY <1>2, BeforeRange, BeforeTotal DEF Sent
<1> QED  BY <1>1, <1>2, <1>3, <1>4 DEF Heard, Sent

LEMMA FrameHeard ==
    ASSUME Inv, toServer # <<>>, toServer' = Tail(toServer), queue' = queue
    PROVE  /\ Heard /\ \A f : Taken(f) <=> f = Head(toServer)
           /\ Head(toServer) \in Sent /\ Sent = {Head(toServer)} \union Sent'
           /\ \A h \in Sent' : MayFollow(Head(toServer), h)
<1> DEFINE f == Head(toServer)
           t == Tail(toServer)
<1>1. toServer \in Seq(FrameType) /\ queue \in Seq(FrameType)  BY PipelineTypes DEF Inv
<1>2. f \in FrameType /\ t \in Seq(FrameType) /\ toServer = <<f>> \o t  BY <1>1, HeadTailOrder
<1> DEFINE v == <<f>>
           u == t \o queue
<1>3. v \in Seq(FrameType) /\ Range(v) = {f} /\ \A x, y : ~Before(v, x, y)
  BY <1>2, OneElement
<1>4. Pipeline = v \o u  BY <1>1, <1>2, <1>3, Regroup DEF Pipeline
<1>5. u \in Seq(FrameType)  BY <1>1, <1>2, ConcatProperties
<1>6. Pipeline' = u  BY DEF Pipeline
<1>7. \A x : Taken(x) <=> x = f  BY DEF Taken
<1> HIDE DEF f, t, u, v
<1>8. Range(v \o u) = Range(v) \union Range(u)  BY <1>3, <1>5, RangeConcatenation
<1>9. \A x, y : Before(v \o u, x, y) <=>
          Before(v, x, y) \/ Before(u, x, y) \/ (x \in Range(v) /\ y \in Range(u))
  BY <1>3, <1>5, BeforeConcat
<1>10. Sent = {f} \union Sent'  BY <1>3, <1>4, <1>6, <1>8 DEF Sent
<1>11. \A h \in Sent' : Before(Pipeline, f, h)  BY <1>3, <1>4, <1>6, <1>9 DEF Sent
<1>12. \A h \in Sent' : MayFollow(f, h)  BY <1>10, <1>11 DEF Inv, Order
<1>13. /\ \A x, y : Before(u, x, y) => x \in Sent' /\ y \in Sent'
       /\ \A x, y \in Sent' : x = y \/ Before(u, x, y) \/ Before(u, y, x)
  BY <1>5, <1>6, BeforeRange, BeforeTotal DEF Sent
<1>14. /\ \A x, y : Before(Pipeline', x, y) => Before(Pipeline, x, y)
       /\ \A x, y : Before(Pipeline, x, y) =>
             x \in Sent /\ y \in Sent /\ (Before(Pipeline', x, y) \/ x = f)
  <2>1. \A x, y : Before(Pipeline, x, y) <=> Before(u, x, y) \/ (x = f /\ y \in Sent')
    BY <1>3, <1>4, <1>6, <1>9 DEF Sent
  <2> QED  BY <1>6, <1>10, <1>13, <2>1
<1>15. Heard  BY <1>2, <1>6, <1>7, <1>10, <1>11, <1>12, <1>13, <1>14 DEF Heard, t
<1> QED  BY <1>7, <1>10, <1>12, <1>15 DEF f

LEMMA NothingSaid ==
    ASSUME Types, NEW R, R = {}, UNCHANGED toClient
    PROVE  Said(R)
<1>1. toClient \in Seq(FrameType)  BY PipelineTypes
<1> QED  BY <1>1 DEF Said, Got

LEMMA FrameSaid ==
    ASSUME Types, NEW a \in FrameType, NEW R, R = {a}, toClient' = Append(toClient, a)
    PROVE  Said(R)
<1>1. toClient \in Seq(FrameType)  BY PipelineTypes
<1>2. /\ Append(toClient, a) \in Seq(FrameType)
      /\ Range(Append(toClient, a)) = Range(toClient) \union {a}
      /\ \A x, y : Before(Append(toClient, a), x, y) <=>
             Before(toClient, x, y) \/ (x \in Range(toClient) /\ y = a)
  BY <1>1, AppendOrder
<1> QED  BY <1>2 DEF Said, Got

(* All parts but Hand and End.  The server's view changes by the frame of   *)
(* the client that it takes, or as it closes a channel.                     *)
TookChannel(kinds, n) == \E f : Taken(f) /\ f.kind \in kinds /\ f.channel = n
ViewMoves(R) ==
    /\ server' \in ServerType /\ server'.surprised = server.surprised
    /\ server'.open \intersect server'.closing = {}
    /\ \A n \in server'.open : n \in server.open \/ TookChannel({"ChannelOpen"}, n)
    /\ \A n \in server'.closing :
          n \in server.closing \/ \E g \in R : g.kind = "ChannelClose" /\ g.channel = n
    /\ \A n \in server.open \union server.closing :
          \/ n \in server'.open \union server'.closing
          \/ TookChannel({"ChannelClose", "ChannelCloseOK"}, n)
    /\ \A n \in server.closing : n \in server'.closing \/ TookChannel({"ChannelCloseOK"}, n)
    /\ Talking' =>
          /\ Talking
          /\ \A f : Taken(f) /\ f.kind = "ChannelOpen" => f.channel \in server'.open
          /\ \A f : Taken(f) /\ f.kind = "ChannelCloseOK" => f.channel \notin server'.closing
Answers(R) ==
    \A g \in R :
        /\ FromServer(g)
        /\ g.of \in Objects =>
              /\ server.phase = "running"
              /\ \E f : /\ Taken(f) /\ f.of = g.of /\ f.channel = g.channel
                       /\ \/ f.kind = "ChannelOpen"
                          \/ f.kind = "ChannelClose" /\ g.kind = "ChannelCloseOK"
                          \/ g.channel \in server.open
        /\ g.kind = "ChannelClose" => /\ server.phase = "running" /\ g.channel \in server.open
                                      /\ g.channel \in server'.closing
        /\ g.kind = "ChannelCloseOK" =>
              /\ server.phase = "running" /\ g.channel \notin server'.open
              /\ TookChannel({"ChannelClose"}, g.channel)

LEMMA ServerStep ==
    ASSUME Inv, ClientKept, Heard, NEW R, Said(R), ViewMoves(R), Answers(R)
    PROVE  /\ Types' /\ Registry' /\ Owned' /\ Order' /\ View' /\ Reuse'
           /\ NothingLeftBehind' /\ NoSurprise'
<1>1. UNCHANGED <<state, closed, maxChannels, next, channels, queue, running, chan, calls, told>>
  BY DEF ClientKept, connVars
<1>2. Types'
  <2>1. TypeOK'  BY <1>1 DEF Inv, Types, TypeOK, Heard, Said
  <2>2. \A f \in Sent' : FromClient(f)  BY DEF Inv, Types, Heard
  <2>3. \A g \in Got' : FromServer(g)  BY DEF Inv, Types, Said, Answers
  <2>4. chan' \in [Objects -> ChannelType] /\ told' \in [error : BOOLEAN, closed : BOOLEAN]
    BY <1>1 DEF Inv, Types
  <2> QED  BY <2>1, <2>2, <2>3, <2>4 DEF Types, ViewMoves, FromClient, FromServer
<1>3. Registry'  BY <1>1 DEF Inv, Registry
<1>4. NothingLeftBehind' /\ NoSurprise'
  BY <1>1 DEF Inv, NothingLeftBehind, NoSurprise, ViewMoves
<1>5. /\ \A n \in server.open \union server.closing : n \in Numbers /\ n # 0
      /\ \A f \in Sent : f.kind \in Calls \union {"ChannelOpen", "ChannelCloseOK"} => f.channel # 0
      /\ \A f \in Sent : f.kind \in Requests => f.of \in Objects
  BY ConnectionAssumption
  DEF Inv, Types, ServerType, Numbers, FromClient, Greetings, Final, Calls, Requests
<1>6. \A o \in Objects : Sending(o)' <=> Sending(o)  BY <1>1 DEF Sending
<1>7. /\ Sent' \subseteq Sent /\ \A f \in Sent : f \in Sent' \/ Taken(f)
      /\ \A f, g : Before(Pipeline', f, g) => Before(Pipeline, f, g)
      /\ \A f, g : Before(Pipeline, f, g) => f \in Sent /\ g \in Sent /\ (Before(Pipeline', f, g) \/ Taken(f))
      /\ \A f : Taken(f) => f \in Sent /\ \A g \in Sent' : Before(Pipeline, f, g) /\ MayFollow(f, g)
      /\ \A f, g \in Sent' : f = g \/ Before(Pipeline', f, g) \/ Before(Pipeline', g, f)
      /\ \A f, g : Taken(f) /\ Taken(g) => f = g
  BY DEF Heard, Taken
<1>8. /\ \A n : Confirmation(n).kind = "ChannelCloseOK" /\ Confirmation(n).channel = n
      /\ \A n, o : /\ Opening(n, o).kind = "ChannelOpen" /\ Opening(n, o).channel = n
                   /\ Opening(n, o).of = o
  BY DEF Confirmation, Opening, Frame
<1>9. ASSUME NEW f \in Sent', f.kind \in Requests, Before(Pipeline, f, Confirmation(f.channel))
      PROVE  Before(Pipeline', f, Confirmation(f.channel)) \/ Opening(f.channel, f.of) \in Sent
  <2>1. CASE ~Taken(f)  BY <1>7, <1>9, <2>1
  <2>2. CASE Taken(f)
    <3>1. f # Confirmation(f.channel)  BY <1>8, <1>9 DEF Requests
    <3>2. Confirmation(f.channel) \in Sent'  BY <1>7, <1>9, <2>2, <3>1
    <3>3. ASSUME Before(Pipeline', Confirmation(f.channel), f) PROVE Opening(f.channel, f.of) \in Sent
      <4>1. Before(Pipeline, Confirmation(f.channel), f) /\ f \in Sent /\ Confirmation(f.channel) \in Sent
        BY <1>7, <3>2, <3>3
      <4> QED  BY <1>8, <1>9, <4>1 DEF Inv, Order, Calls
    <3> QED  BY <1>7, <3>1, <3>2, <3>3
  <2> QED  BY <2>1, <2>2
<1>10. Owned'
  <2>1. ASSUME NEW f \in Sent' \union Got', f.of \in Objects
        PROVE  chan'[f.of].state # "none" /\ chan'[f.of].id = f.channel
    <3>1. PICK h \in Sent \union Got : h.of = f.of /\ h.channel = f.channel
      BY <1>7, <2>1 DEF Said, Answers
    <3> QED  BY <1>1, <2>1, <3>1 DEF Inv, Owned
  <2>2. ASSUME NEW f \in Sent', f.of \in Objects
        PROVE  \/ channels[f.channel] \in {f.of, None}
               \/ f.kind \in Requests /\ Before(Pipeline', f, Confirmation(f.channel))
    <3>1. \/ channels[f.channel] \in {f.of, None}
          \/ f.kind \in Requests /\ Before(Pipeline, f, Confirmation(f.channel))
      BY <1>7, <2>2 DEF Inv, Owned
    <3>2. Opening(f.channel, f.of) \in Sent => channels[f.channel] \in {f.of, None}
      BY <1>8, <2>2 DEF Inv, Owned, Requests
    <3> QED  BY <1>9, <3>1, <3>2
  <2>3. ASSUME NEW g \in Got', g.of \in Objects PROVE channels[g.channel] \in {g.of, None}
    <3>1. CASE g \in Got  BY <2>3, <3>1 DEF Inv, Owned
    <3>2. CASE g \in R
      <4>1. server.phase = "running"  BY <2>3, <3>2 DEF Answers
      <4>2. PICK f : /\ Taken(f) /\ f.of = g.of /\ f.channel = g.channel
                     /\ f.kind \in {"ChannelOpen", "ChannelClose"} \/ g.channel \in server.open
        BY <2>3, <3>2 DEF Answers
      <4>3. f \in Sent  BY <1>7, <4>2
      <4>4. ASSUME f.kind \in Requests, Before(Pipeline, f, Confirmation(f.channel)) PROVE FALSE
        <5>1. Confirmation(f.channel) \in Sent  BY <1>7, <4>4
        <5>2. f.channel \in server.closing  BY <1>8, <4>1, <5>1 DEF Inv, View, Talking
        <5> QED  BY <4>2, <4>4, <5>2 DEF Inv, View, Requests
      <4> QED  BY <2>3, <4>2, <4>3, <4>4 DEF Inv, Owned
    <3> QED  BY <3>1, <3>2 DEF Said
  <2> QED  BY <1>1, <2>1, <2>2, <2>3 DEF Owned
<1>11. Order'
  <2>1. \A f, g \in Sent' : Before(Pipeline', f, g) => MayFollow(f, g)
    BY <1>7 DEF Inv, Order
  <2>2. \A o \in Objects : Sending(o)' =>
            \A f \in Sent' : f.kind = "ChannelClose" => f.channel # chan'[o].id
    BY <1>1, <1>6, <1>7 DEF Inv, Order
  <2>3. ASSUME NEW f \in Sent', f.kind = "ChannelCloseOK"
        PROVE  /\ \/ channels[f.channel] = None
                  \/ Before(Pipeline', f, Opening(f.channel, channels[f.channel]))
               /\ \A g \in Got' : g.kind = "ChannelClose" => g.channel # f.channel
               /\ \A g \in Sent' : Before(Pipeline', f, g) /\ g.kind \in Calls /\ g.channel = f.channel =>
                     Opening(g.channel, g.of) \in Sent'
    <3>1. f \in Sent /\ f.channel # 0  BY <1>5, <1>7, <2>3
    <3>2. \A h \in Sent : Taken(h) /\ h.channel = f.channel => h.kind \notin {"ChannelOpen", "ChannelCloseOK"}
      BY <1>7, <2>3, <3>1 DEF MayFollow
    <3>3. \/ channels[f.channel] = None
          \/ Before(Pipeline', f, Opening(f.channel, channels[f.channel]))
      BY <1>7, <2>3, <3>1, <3>2 DEF Inv, Order
    <3>4. ASSUME NEW g \in R, g.kind = "ChannelClose" PROVE g.channel # f.channel
      <4>1. server.phase = "running" /\ g.channel \in server.open  BY <3>4 DEF Answers
      <4>2. f.channel \in server.closing  BY <2>3, <3>1, <4>1 DEF Inv, View, Talking
      <4> QED  BY <4>1, <4>2 DEF Inv, View
    <3>5. \A g \in Got' : g.kind = "ChannelClose" => g.channel # f.channel
      BY <2>3, <3>1, <3>4 DEF Inv, Order, Said
    <3>6. ASSUME NEW g \in Sent', Before(Pipeline', f, g), g.kind \in Calls, g.channel = f.channel
          PROVE  Opening(g.channel, g.of) \in Sent'
      <4>1. Before(Pipeline, f, g) /\ g \in Sent  BY <1>7, <3>6
      <4>2. Opening(g.channel, g.of) \in Sent  BY <2>3, <3>1, <3>6, <4>1 DEF Inv, Order
      <4>3. ~Taken(Opening(g.channel, g.of))  BY <1>8, <3>2, <3>6, <4>2
      <4> QED  BY <1>7, <4>2, <4>3
    <3> QED  BY <3>3, <3>5, <3>6
  <2> QED  BY <1>1, <2>1, <2>2, <2>3 DEF Order
<1>12. \A n : server.phase = "running" /\ n \in server.open =>
          /\ n \notin server.closing
          /\ \A f \in Sent : f.kind \in {"ChannelOpen", "ChannelCloseOK"} => f.channel # n
          /\ \A g \in Got : g.kind = "ChannelClose" => g.channel # n
  BY DEF Inv, View, Talking
<1>13. View'
  <2>1. ASSUME NEW g \in Got', NEW h \in Got', Before(toClient', g, h),
               g.kind = "ChannelClose", g.channel = h.channel
        PROVE  h.kind = "ChannelCloseOK"
    <3>1. CASE Before(toClient, g, h)
      <4>1. g \in Got /\ h \in Got  BY <3>1, PipelineTypes, BeforeRange DEF Inv, Got
      <4> QED  BY <2>1, <3>1, <4>1 DEF Inv, View
    <3>2. CASE g \in Got /\ h \in R
      <4>1. g.channel \in Numbers  BY <2>1, <3>2 DEF Inv, Types, FromServer, Final
      <4>2. h.kind # "ChannelClose"  BY <1>12, <2>1, <3>2 DEF Answers
      <4>3. h.of \in Objects
        BY <2>1, <3>2, <4>1, <4>2, ConnectionAssumption DEF Answers, FromServer, Numbers
      <4>4. server.phase = "running"  BY <3>2, <4>3 DEF Answers
      <4>5. PICK f : /\ Taken(f) /\ f.channel = h.channel
                     /\ \/ f.kind = "ChannelOpen"
                        \/ f.kind = "ChannelClose" /\ h.kind = "ChannelCloseOK"
                        \/ h.channel \in server.open
        BY <3>2, <4>3 DEF Answers
      <4>6. f.kind # "ChannelOpen"  BY <1>7, <2>1, <3>2, <4>5 DEF Inv, View
      <4> QED  BY <1>12, <2>1, <3>2, <4>4, <4>5, <4>6
    <3> QED  BY <2>1, <3>1, <3>2 DEF Said
  <2>2. ASSUME NEW g \in Got', g.kind = "ChannelClose", NEW f \in Sent', f.kind = "ChannelOpen"
        PROVE  f.channel # g.channel
    <3>1. CASE g \in Got  BY <1>7, <2>2, <3>1 DEF Inv, View
    <3>2. CASE g \in R  BY <1>7, <1>12, <2>2, <3>2 DEF Answers
    <3> QED  BY <3>1, <3>2 DEF Said
  <2>3. ASSUME Talking'
        PROVE  /\ \A f \in Sent' :
                    /\ f.kind = "ChannelOpen" =>
                          /\ f.channel \notin server'.open
                          /\ f.channel \in server'.closing =>
                                Before(Pipeline', Confirmation(f.channel), f)
                    /\ f.kind \in Calls => Opened(f.channel, f.of)'
                    /\ f.kind = "ChannelCloseOK" => f.channel \in server'.closing
               /\ \A g \in Got' : g.kind = "ChannelClose" => g.channel \in server'.closing
               /\ \A o \in Objects : \A n : Sending(o)' /\ n = chan'[o].id => Opened(n, o)'
    <3>1. Talking  BY <2>3 DEF ViewMoves
    <3>2. ASSUME NEW n, NEW o, Opened(n, o),
                 \A f : Taken(f) /\ f.channel = n =>
                     /\ f.kind # "ChannelClose"
                     /\ f.kind = "ChannelCloseOK" => Opening(n, o) \in Sent
          PROVE  Opened(n, o)'
      <4>1. CASE Opening(n, o) \in Sent
        <5>1. Taken(Opening(n, o)) => n \in server'.open  BY <1>8, <2>3 DEF ViewMoves
        <5> QED  BY <1>7, <4>1, <5>1 DEF Opened
      <4>2. CASE Opening(n, o) \notin Sent /\ n \in server.open \union server.closing
        <5>1. ~TookChannel({"ChannelClose", "ChannelCloseOK"}, n)  BY <3>2, <4>2 DEF TookChannel
        <5> QED  BY <4>2, <5>1 DEF ViewMoves, Opened
      <4> QED  BY <3>2, <4>1, <4>2 DEF Opened
    <3>3. ASSUME NEW h \in Sent', h.kind = "ChannelOpen"
          PROVE  /\ h.channel \notin server'.open
                 /\ h.channel \in server'.closing => Before(Pipeline', Confirmation(h.channel), h)
      <4>1. h \in Sent /\ h.channel # 0  BY <1>5, <1>7, <3>3
      <4>2. /\ h.channel \notin server.open
            /\ h.channel \in server.closing => Before(Pipeline, Confirmation(h.channel), h)
        BY <3>1, <3>3, <4>1 DEF Inv, View
      <4>3. ~TookChannel({"ChannelOpen"}, h.channel)
        BY <1>7, <3>3, <4>1 DEF TookChannel, MayFollow
      <4>4. h.channel \notin server'.open  BY <4>2, <4>3 DEF ViewMoves
      <4>5. ASSUME h.channel \in server'.closing PROVE Before(Pipeline', Confirmation(h.channel), h)
        <5>1. ~Taken(Confirmation(h.channel))  BY <1>8, <2>3, <4>5 DEF ViewMoves
        <5>2. h.channel \in server.closing  BY <4>2, <4>5 DEF ViewMoves, Answers
        <5> QED  BY <1>7, <4>2, <5>1, <5>2
      <4> QED  BY <4>4, <4>5
    <3>4. ASSUME NEW h \in Sent', h.kind \in Calls PROVE Opened(h.channel, h.of)'
      <4>1. h \in Sent /\ h.channel # 0  BY <1>5, <1>7, <3>4
      <4>2. Opened(h.channel, h.of)  BY <3>1, <3>4, <4>1 DEF Inv, View
      <4>3. ASSUME NEW f, Taken(f), f.channel = h.channel
            PROVE  /\ f.kind # "ChannelClose"
                   /\ f.kind = "ChannelCloseOK" => Opening(h.channel, h.of) \in Sent
        <5>1. f \in Sent /\ Before(Pipeline, f, h) /\ MayFollow(f, h)  BY <1>7, <4>3
        <5>2. f.kind # "ChannelClose"  BY <3>4, <4>1, <4>3, <5>1 DEF MayFollow, Calls, Requests
        <5>3. f.kind = "ChannelCloseOK" => Opening(h.channel, h.of) \in Sent
          BY <3>4, <4>1, <4>3, <5>1 DEF Inv, Order
        <5> QED  BY <5>2, <5>3
      <4> QED  BY <3>2, <4>2, <4>3
    <3>5. ASSUME NEW h \in Sent', h.kind = "ChannelCloseOK" PROVE h.channel \in server'.closing
      <4>1. h \in Sent /\ h.channel # 0  BY <1>5, <1>7, <3>5
      <4>2. h.channel \in server.closing  BY <3>1, <3>5, <4>1 DEF Inv, View
      <4>3. ~TookChannel({"ChannelCloseOK"}, h.channel)
        BY <1>7, <3>5, <4>1 DEF TookChannel, MayFollow
      <4> QED  BY <4>2, <4>3 DEF ViewMoves
    <3>6. ASSUME NEW g \in Got', g.kind = "ChannelClose" PROVE g.channel \in server'.closing
      <4>1. CASE g \in R  BY <3>6, <4>1 DEF Answers
      <4>2. CASE g \in Got
        <5>1. g.channel \in server.closing  BY <3>1, <3>6, <4>2 DEF Inv, View
        <5>2. ~TookChannel({"ChannelCloseOK"}, g.channel)
          BY <1>7, <3>6, <4>2 DEF Inv, Order, TookChannel
        <5> QED  BY <5>1, <5>2 DEF ViewMoves
      <4> QED  BY <4>1, <4>2 DEF Said
    <3>7. ASSUME NEW o \in Objects, NEW n, Sending(o)', n = chan'[o].id PROVE Opened(n, o)'
      <4>1. Sending(o) /\ n = chan[o].id  BY <1>1, <1>6, <3>7
      <4>2. Opened(n, o)  BY <3>1, <4>1 DEF Inv, View
      <4>3. channels[n] = o /\ o # None  BY <4>1, SenderRegistered DEF Inv
      <4>4. ASSUME NEW f, Taken(f), f.channel = n
            PROVE  f.kind # "ChannelClose" /\ (f.kind = "ChannelCloseOK" => Opening(n, o) \in Sent)
        <5>1. f \in Sent  BY <1>7, <4>4
        <5>2. f.kind # "ChannelClose"  BY <4>1, <4>4, <5>1 DEF Inv, Order
        <5>3. f.kind = "ChannelCloseOK" => Before(Pipeline, f, Opening(n, o))
          BY <4>3, <4>4, <5>1 DEF Inv, Order
        <5> QED  BY <1>7, <5>2, <5>3
      <4> QED  BY <3>2, <4>2, <4>4
    <3> QED  BY <3>3, <3>4, <3>5, <3>6, <3>7
  <2>4. server'.open \intersect server'.closing = {}  BY DEF ViewMoves
  <2> QED  BY <2>1, <2>2, <2>3, <2>4 DEF View
<1>14. Reuse'
  <2>1. ASSUME NEW g \in R, NEW n \in Numbers, g.channel = n,
               n \notin server.open \/ server.phase # "running"
        PROVE  /\ TookChannel({"ChannelOpen", "ChannelClose"}, n)
               /\ TookChannel({"ChannelOpen"}, n) \/ g.kind = "ChannelCloseOK"
    <3>1. n # 0  BY ConnectionAssumption DEF Numbers
    <3>2. g.kind # "ChannelClose"  BY <2>1 DEF Answers
    <3>3. g.of \in Objects  BY <2>1, <3>1, <3>2 DEF Answers, FromServer
    <3> QED  BY <2>1, <3>3 DEF Answers, TookChannel
  <2>2. ASSUME Opens', NEW n \in Numbers, channels'[n] = None PROVE Free(n)'
    <3>1. Free(n)
      <4>1. Opens  BY <1>1, <2>2 DEF Opens, usable
      <4> QED  BY <1>1, <2>2, <4>1 DEF Inv, Reuse
    <3>2. ~TookChannel({"ChannelOpen"}, n)  BY <1>7, <3>1 DEF TookChannel, Free
    <3>3. ASSUME NEW g \in Got', g.channel = n PROVE g.kind = "ChannelCloseOK"
      <4>1. CASE g \in Got  BY <3>1, <3>3, <4>1 DEF Free
      <4>2. CASE g \in R
        <5>1. n \notin server.open \/ server.phase # "running"  BY <3>1 DEF Free, Talking
        <5> QED  BY <2>1, <3>2, <3>3, <4>2, <5>1
      <4> QED  BY <4>1, <4>2 DEF Said
    <3>4. ASSUME NEW f \in Sent', f.channel = n
          PROVE  f.kind # "ChannelOpen" /\ (f.kind \in Requests => Before(Pipeline', f, Confirmation(n)))
      <4>1. f \in Sent  BY <1>7
      <4>2. f.kind # "ChannelOpen" /\ (f.kind \in Requests => Before(Pipeline, f, Confirmation(n)))
        BY <3>1, <3>4, <4>1 DEF Free
      <4>3. Opening(n, f.of) \notin Sent  BY <1>8, <3>1 DEF Free
      <4> QED  BY <1>9, <3>4, <4>2, <4>3
    <3>5. Talking' => n \notin server'.open  BY <3>1, <3>2 DEF Free, ViewMoves
    <3> QED  BY <3>3, <3>4, <3>5 DEF Free
  <2>3. ASSUME NEW g \in Got', g.kind = "ChannelCloseOK", NEW n, n = g.channel PROVE Released(n)'
    <3>1. n \in Numbers  BY <1>2, <2>3 DEF Types, FromServer, Final
    <3>2. CASE g \in Got
      <4>1. Released(n)  BY <2>3, <3>2 DEF Inv, Reuse
      <4>2. ~TookChannel({"ChannelOpen"}, n)  BY <1>7, <4>1 DEF TookChannel, Released
      <4>3. n \notin server'.open  BY <4>1, <4>2 DEF Released, ViewMoves
      <4> QED  BY <1>1, <1>7, <4>1, <4>3 DEF Released, Sending
    <3>3. CASE g \in R
      <4>1. n \notin server'.open  BY <2>3, <3>3 DEF Answers
      <4>2. PICK f : Taken(f) /\ f.kind = "ChannelClose" /\ f.channel = n
        BY <2>3, <3>3 DEF Answers, TookChannel
      <4>3. n # 0 /\ f \in Sent  BY <1>7, <3>1, <4>2, ConnectionAssumption DEF Numbers
      <4>4. \A h \in Sent' : h.channel = n => h.kind = "ChannelCloseOK"
        BY <1>7, <4>2, <4>3 DEF MayFollow
      <4>5. ASSUME channels[n] # None, Sending(channels[n]) PROVE FALSE
        <5>1. channels[n] \in Objects /\ chan[channels[n]].id = n
          BY <3>1, <4>5 DEF Inv, Types, TypeOK
        <5> QED  BY <4>2, <4>3, <4>5, <5>1 DEF Inv, Order
      <4> QED  BY <1>1, <4>1, <4>4, <4>5 DEF Released, Sending
    <3> QED  BY <2>3, <3>2, <3>3 DEF Said
  <2>4. ASSUME NEW g \in Got', NEW h \in Got', Before(toClient', g, h), g.kind = "ChannelCloseOK"
        PROVE  h.channel # g.channel
    <3>1. CASE Before(toClient, g, h)
      <4>1. g \in Got /\ h \in Got  BY <3>1, PipelineTypes, BeforeRange DEF Inv, Got
      <4> QED  BY <2>4, <3>1, <4>1 DEF Inv, Reuse
    <3>2. CASE g \in Got /\ h \in R
      <4> SUFFICES ASSUME h.channel = g.channel PROVE FALSE  OBVIOUS
      <4>1. g.channel \in Numbers  BY <2>4, <3>2 DEF Inv, Types, FromServer, Final
      <4>2. Released(g.channel)  BY <2>4, <3>2 DEF Inv, Reuse
      <4>3. TookChannel({"ChannelOpen", "ChannelClose"}, g.channel)
        BY <2>1, <3>2, <4>1, <4>2 DEF Released
      <4> QED  BY <1>7, <4>2, <4>3 DEF Released, TookChannel
    <3> QED  BY <2>4, <3>1, <3>2 DEF Said
  <2>5. ASSUME Opens', Talking', NEW n \in server'.closing
        PROVE  Confirmation(n) \in Sent' \/ \E g \in Got' : g.kind = "ChannelClose" /\ g.channel = n
    <3>1. Opens /\ Talking  BY <1>1, <2>5 DEF Opens, usable, ViewMoves
    <3>2. ~Taken(Confirmation(n))  BY <1>8, <2>5 DEF ViewMoves
    <3>3. CASE n \in server.closing
      <4>1. Confirmation(n) \in Sent \/ \E g \in Got : g.kind = "ChannelClose" /\ g.channel = n
        BY <3>1, <3>3 DEF Inv, Reuse
      <4> QED  BY <1>7, <3>2, <4>1 DEF Said
    <3>4. CASE n \notin server.closing  BY <2>5, <3>4 DEF ViewMoves, Said
    <3> QED  BY <3>3, <3>4
  <2> QED  BY <2>2, <2>3, <2>4, <2>5 DEF Reuse
<1> QED  BY <1>2, <1>3, <1>4, <1>10, <1>11, <1>13, <1>14

(* End: what the server says last, and that it then hears nothing.          *)
LEMMA ServerEnd ==
    ASSUME Inv, ClientKept, Heard, NEW R, Said(R),
           server.phase \in {"closing", "closed"} =>
               /\ server'.phase \in {"closing", "closed"}
               /\ \A g \in R : g.kind = "ConnectionCloseOK",
           server'.phase = "closed" => Sent' = {} /\ Silent,
           \A g \in R : /\ g.kind = "ConnectionCloseOK" => Ended
                        /\ g.kind = "ConnectionClose" => server'.phase \in {"closing", "closed"}
    PROVE  End'
<1>1. UNCHANGED <<state, closed, told>> /\ (Ended' <=> Ended) /\ (Silent' <=> Silent)
  BY DEF ClientKept, connVars, Ended, Silent
<1>2. \A f \in Sent' :
          /\ f.kind = "ConnectionClose" => Ended'
          /\ f.kind = "ConnectionCloseOK" => Silent' /\ server'.phase \in {"closing", "closed"}
  BY <1>1 DEF Inv, End, Heard
<1>3. \A g \in Got' :
          /\ g.kind = "ConnectionCloseOK" => Ended'
          /\ g.kind = "ConnectionClose" => server'.phase \in {"closing", "closed"}
  BY <1>1 DEF Inv, End, Said
<1>4. ASSUME NEW g \in Got', NEW h \in Got', Before(toClient', g, h), g.kind = "ConnectionClose"
      PROVE  h.kind = "ConnectionCloseOK"
  <2>1. CASE Before(toClient, g, h)
    <3>1. g \in Got /\ h \in Got  BY <2>1, PipelineTypes, BeforeRange DEF Inv, Got
    <3> QED  BY <1>4, <2>1, <3>1 DEF Inv, End
  <2>2. CASE g \in Got /\ h \in R  BY <1>4, <2>2 DEF Inv, End
  <2> QED  BY <1>4, <2>1, <2>2 DEF Said
<1>5. told'.error => /\ server'.phase \in {"closing", "closed"}
                     /\ \A g \in Got' : g.kind = "ConnectionCloseOK"
  BY <1>1 DEF Inv, End, Said
<1> QED  BY <1>1, <1>2, <1>3, <1>4, <1>5 DEF End

(* Hand, after the handshake.                                               *)
LEMMA ServerHand ==
    ASSUME Inv, ClientKept, Heard, NEW R, Said(R),
           server'.phase \notin Greetings, state # "protocol",
           server'.phase = "running" => server.phase = "running",
           \A g \in Got : g.kind # "ConnectionStart",
           \A g \in R : g.kind \notin {"ConnectionStart", "ConnectionTune", "ConnectionOpenOK"}
    PROVE  Hand'
<1>1. UNCHANGED <<state, queue>>  BY DEF ClientKept, connVars
<1>2. \A f \in Range(queue') : f.kind \notin Greetings  BY <1>1 DEF Inv, Hand
<1>3. server'.phase = "running" =>
          /\ \A f \in Sent' : f.kind \notin Greetings
          /\ \A g \in Got' : g.kind # "ConnectionTune"
  BY DEF Inv, Hand, Heard, Said
<1>4. \A g \in Got' :
          /\ g.kind = "ConnectionStart" => server'.phase \in Greetings
          /\ g.kind \in {"ConnectionTune", "ConnectionOpenOK"} => state' \in {"handshake", "closed"}
  BY <1>1 DEF Inv, Hand, Said
<1>5. ASSUME NEW g \in Got', NEW h \in Got', Before(toClient', g, h), g.kind = "ConnectionOpenOK"
      PROVE  h.kind \notin {"ConnectionOpenOK", "ConnectionTune"}
  <2>1. CASE Before(toClient, g, h)
    <3>1. g \in Got /\ h \in Got  BY <2>1, PipelineTypes, BeforeRange DEF Inv, Got
    <3> QED  BY <1>5, <2>1, <3>1 DEF Inv, Hand
  <2>2. CASE h \in R  BY <2>2
  <2> QED  BY <1>5, <2>1, <2>2 DEF Said
<1> QED  BY <1>1, <1>2, <1>3, <1>4, <1>5 DEF Hand

(* The server closes a channel.                                             *)
LEMMA RaisesInv == ASSUME Inv, serverRaises PROVE Inv'
<1>1. PICK n \in server.open :
          /\ server' = [server EXCEPT !.open = @ \ {n}, !.closing = @ \union {n}]
          /\ toClient' = Append(toClient, Frame("ChannelClose", n, None))
  BY DEF serverRaises
<1>2. /\ ClientKept /\ UNCHANGED <<toServer, queue>> /\ server.phase = "running"
  BY DEF serverRaises, ClientKept, connVars
<1> DEFINE a == Frame("ChannelClose", n, None)
           R == {a}
<1>3. server \in ServerType /\ n \in Numbers  BY DEF Inv, Types, ServerType
<1>4. a \in FrameType /\ a.kind = "ChannelClose" /\ a.channel = n /\ a.of = None
  BY <1>3, PartFacts, ConnectionAssumption DEF Frame, FrameType, Numbers, Calls, Requests
<1>5. toClient' = Append(toClient, a) /\ \A g : g \in R <=> g = a  BY <1>1
<1>6. Said(R)  BY <1>4, <1>5, FrameSaid DEF Inv
<1> HIDE DEF a, R
<1>7. Heard /\ Sent' = Sent /\ \A f : ~Taken(f)  BY <1>2, NothingHeard DEF Inv
<1>8. /\ server' \in ServerType /\ server'.surprised = server.surprised /\ server'.phase = "running"
      /\ server'.open = server.open \ {n} /\ server'.closing = server.closing \union {n}
  BY <1>1, <1>2, <1>3 DEF ServerType
<1>9. ViewMoves(R)
  <2>1. server'.open \intersect server'.closing = {}  BY <1>8 DEF Inv, View
  <2>2. \A m : m \in server'.open \union server'.closing <=> m \in server.open \union server.closing
    BY <1>8
  <2>3. Talking  BY <1>2 DEF Talking
  <2>4. \A m \in server'.closing :
            m \in server.closing \/ \E g \in R : g.kind = "ChannelClose" /\ g.channel = m
    BY <1>4, <1>5, <1>8
  <2> QED  BY <1>7, <1>8, <2>1, <2>2, <2>3, <2>4 DEF ViewMoves
<1>10. Answers(R)
  <2>1. FromServer(a)  BY <1>3, <1>4 DEF FromServer
  <2>2. a.of \notin Objects  BY <1>4, ConnectionAssumption
  <2> QED  BY <1>2, <1>4, <1>5, <1>8, <2>1, <2>2 DEF Answers
<1>11. End'  BY <1>2, <1>4, <1>5, <1>6, <1>7, <1>8, ServerEnd
<1>12. Hand'
  <2>1. state # "protocol" /\ \A g \in Got : g.kind # "ConnectionStart"
    BY <1>2 DEF Inv, Hand, Greetings
  <2>2. server'.phase \notin Greetings  BY <1>8 DEF Greetings
  <2> QED  BY <1>2, <1>4, <1>5, <1>6, <1>7, <2>1, <2>2, ServerHand
<1> QED  BY <1>2, <1>6, <1>7, <1>9, <1>10, <1>11, <1>12, ServerStep DEF Inv

(* What the server says of the connection itself.                           *)
LEMMA OwnAnswers ==
    ASSUME NEW a, FromServer(a), a.of = None, a.channel = 0, NEW R, \A g : g \in R <=> g = a
    PROVE  Answers(R)
<1>1. a.of \notin Objects  BY ConnectionAssumption
<1>2. a.kind \notin {"ChannelClose", "ChannelCloseOK"}
  BY <1>1, ConnectionAssumption DEF FromServer, Final, Numbers
<1> QED  BY <1>1, <1>2 DEF Answers

(* The server closes the connection.                                        *)
LEMMA ClosesInv == ASSUME Inv, serverCloses PROVE Inv'
<1> DEFINE a == Own("ConnectionClose")
           R == {a}
<1>1. /\ ClientKept /\ UNCHANGED <<toServer, queue>>
      /\ server.phase \in {"ConnectionTuneOK", "ConnectionOpen", "running"}
      /\ server' = [server EXCEPT !.phase = "closing"] /\ toClient' = Append(toClient, a)
  BY DEF serverCloses, ClientKept, connVars
<1>2. a \in FrameType /\ a.kind = "ConnectionClose" /\ a.channel = 0 /\ a.of = None
  BY OwnFrame, PartFacts DEF Final
<1>3. \A g : g \in R <=> g = a  OBVIOUS
<1>4. Said(R)  BY <1>1, <1>2, FrameSaid DEF Inv
<1> HIDE DEF a, R
<1>5. Heard /\ Sent' = Sent  BY <1>1, NothingHeard DEF Inv
<1>6. server \in ServerType  BY DEF Inv, Types
<1>7. /\ server' \in ServerType /\ server'.surprised = server.surprised /\ server'.phase = "closing"
      /\ server'.open = server.open /\ server'.closing = server.closing
  BY <1>1, <1>6 DEF ServerType
<1>8. ViewMoves(R)
  <2>1. server'.open \intersect server'.closing = {}  BY <1>7 DEF Inv, View
  <2>2. ~Talking'  BY <1>7 DEF Talking, Greetings
  <2> QED  BY <1>7, <2>1, <2>2 DEF ViewMoves
<1>9. Answers(R)
  <2>1. FromServer(a)  BY <1>2 DEF FromServer, Final
  <2> QED  BY <1>2, <1>3, <2>1, OwnAnswers
<1>10. End'  BY <1>1, <1>2, <1>3, <1>4, <1>5, <1>7, ServerEnd
<1>11. state # "protocol" /\ \A g \in Got : g.kind # "ConnectionStart"
  <2>1. CASE server.phase = "running"  BY <2>1 DEF Inv, Hand, Greetings
  <2>2. CASE server.phase \in {"ConnectionTuneOK", "ConnectionOpen"}
    <3>1. Stage  BY <2>2 DEF Inv, Hand, Greetings
    <3>2. /\ state \in {"handshake", "closed"}
          /\ toClient = <<>> \/ \E max \in ChannelMax : toClient = <<Frame("ConnectionTune", 0, max)>>
      BY <2>2, <3>1 DEF Stage, At
    <3>3. CASE toClient = <<>>
      <4>1. Got = {}  BY <3>3, EmptySequence DEF Got
      <4> QED  BY <3>2, <4>1
    <3>4. CASE \E max \in ChannelMax : toClient = <<Frame("ConnectionTune", 0, max)>>
      <4>1. PICK max \in ChannelMax : toClient = <<Frame("ConnectionTune", 0, max)>>  BY <3>4
      <4> DEFINE b == Frame("ConnectionTune", 0, max)
      <4>2. b.kind = "ConnectionTune"  BY DEF Frame
      <4> HIDE DEF b
      <4>3. Range(<<b>>) = {b}
        <5>1. b \in {b}  OBVIOUS
        <5> QED  BY <5>1, OneElement
      <4>4. Got = {b}  BY <4>1, <4>3 DEF Got, b
      <4> QED  BY <3>2, <4>2, <4>4
    <3> QED  BY <3>2, <3>3, <3>4
  <2> QED  BY <1>1, <2>1, <2>2
<1>12. Hand'
  <2>1. server'.phase \notin Greetings /\ server'.phase # "running"  BY <1>7 DEF Greetings
  <2> QED  BY <1>1, <1>2, <1>3, <1>4, <1>5, <1>11, <2>1, ServerHand
<1> QED  BY <1>1, <1>4, <1>5, <1>8, <1>9, <1>10, <1>12, ServerStep DEF Inv

(* A frame arrives at a server that has closed the connection, or it closes *)
(* it by that frame.                                                        *)
LEMMA ClosingInv ==
    ASSUME Inv, ClientKept, toServer # <<>>, toServer' = Tail(toServer),
           server.phase \in {"running", "closing"},
           LET f == Head(toServer)
           IN  \/ /\ f.kind = "ConnectionClose" /\ toClient' = Append(toClient, Own("ConnectionCloseOK"))
                  /\ server' = [server EXCEPT !.phase = "closed"]
               \/ /\ f.kind = "ConnectionCloseOK" /\ UNCHANGED toClient
                  /\ server' = [server EXCEPT !.phase = "closed"]
               \/ /\ server.phase = "closing" /\ UNCHANGED <<toClient, server>>
    PROVE  Inv'
<1> DEFINE f == Head(toServer)
           a == Own("ConnectionCloseOK")
<1>1. queue' = queue  BY DEF ClientKept, connVars
<1>2. /\ Heard /\ f \in Sent /\ Sent = {f} \union Sent'
      /\ \A h \in Sent' : MayFollow(f, h)
  BY <1>1, FrameHeard
<1>3. a \in FrameType /\ a.kind = "ConnectionCloseOK" /\ a.channel = 0 /\ a.of = None
  BY OwnFrame, PartFacts DEF Final
<1>4. server \in ServerType  BY DEF Inv, Types
<1>5. state # "protocol" /\ \A g \in Got : g.kind # "ConnectionStart"
  BY DEF Inv, Hand, Greetings
<1>6. f.kind \in Final => Sent' = {} /\ Silent
  BY <1>2 DEF MayFollow, Inv, End, Silent, Final
<1>7. f.kind = "ConnectionClose" => Ended  BY <1>2 DEF Inv, End
<1>8. FromServer(a)  BY <1>3 DEF FromServer, Final
<1>9. ASSUME server' \in ServerType, server'.surprised = server.surprised,
             server'.open = server.open, server'.closing = server.closing, ~Talking'
      PROVE  \A R : ViewMoves(R)
  <2>1. server'.open \intersect server'.closing = {}  BY <1>9 DEF Inv, View
  <2> QED  BY <1>9, <2>1 DEF ViewMoves
<1>10. CASE /\ f.kind = "ConnectionClose" /\ toClient' = Append(toClient, a)
            /\ server' = [server EXCEPT !.phase = "closed"]
  <2> DEFINE R == {a}
  <2>1. \A g : g \in R <=> g = a  OBVIOUS
  <2>2. Said(R)  BY <1>3, <1>10, FrameSaid DEF Inv
  <2> HIDE DEF R, a, f
  <2>3. /\ server' \in ServerType /\ server'.surprised = server.surprised /\ server'.phase = "closed"
        /\ server'.open = server.open /\ server'.closing = server.closing
    BY <1>4, <1>10 DEF ServerType
  <2>4. ~Talking' /\ server'.phase \notin Greetings  BY <2>3 DEF Talking, Greetings
  <2>5. ViewMoves(R) /\ Answers(R)  BY <1>3, <1>8, <1>9, <2>1, <2>3, <2>4, OwnAnswers
  <2>6. Sent' = {} /\ Silent /\ Ended  BY <1>6, <1>7, <1>10 DEF Final
  <2>7. End'  BY <1>2, <1>3, <2>1, <2>2, <2>3, <2>6, ServerEnd
  <2>8. Hand'  BY <1>2, <1>3, <1>5, <2>1, <2>2, <2>3, <2>4, ServerHand
  <2> QED  BY <1>2, <2>2, <2>5, <2>7, <2>8, ServerStep DEF Inv
<1>11. CASE \/ /\ f.kind = "ConnectionCloseOK" /\ UNCHANGED toClient
               /\ server' = [server EXCEPT !.phase = "closed"]
            \/ /\ server.phase = "closing" /\ UNCHANGED <<toClient, server>>
  <2> DEFINE R == {}
  <2>1. \A g : g \notin R  OBVIOUS
  <2>2. Said(R)  BY <1>11, NothingSaid DEF Inv
  <2> HIDE DEF R, a, f
  <2>3. /\ server' \in ServerType /\ server'.surprised = server.surprised
        /\ server'.phase \in {"closing", "closed"}
        /\ server'.open = server.open /\ server'.closing = server.closing
    BY <1>4, <1>11 DEF ServerType
  <2>4. ~Talking' /\ server'.phase \notin Greetings /\ server'.phase # "running"
    BY <2>3 DEF Talking, Greetings
  <2>5. ViewMoves(R) /\ Answers(R)  BY <1>9, <2>1, <2>3, <2>4 DEF Answers
  <2>6. server'.phase = "closed" => Sent' = {} /\ Silent  BY <1>6, <1>11 DEF Final
  <2>7. End'  BY <1>2, <2>1, <2>2, <2>3, <2>6, ServerEnd
  <2>8. Hand'  BY <1>2, <1>5, <2>1, <2>2, <2>4, ServerHand
  <2> QED  BY <1>2, <2>2, <2>5, <2>7, <2>8, ServerStep DEF Inv
<1> QED  BY <1>10, <1>11

(* A server that runs expects what it gets.                                 *)
LEMMA AlwaysExpected ==
    ASSUME Inv, toServer # <<>>, server.phase = "running"
    PROVE  ExpectedNow(Head(toServer))
<1> DEFINE f == Head(toServer)
           t == Tail(toServer)
<1>1. toServer \in Seq(FrameType) /\ queue \in Seq(FrameType)  BY PipelineTypes DEF Inv
<1>2. /\ Range(toServer) = {f} \union Range(t) /\ t \in Seq(FrameType)
      /\ \A x, y : Before(toServer, x, y) <=> Before(t, x, y) \/ (x = f /\ y \in Range(t))
  BY <1>1, HeadTailOrder
<1> HIDE DEF f, t
<1>3. \A x, y : Before(Pipeline, x, y) <=>
          Before(toServer, x, y) \/ Before(queue, x, y) \/ (x \in Range(toServer) /\ y \in Range(queue))
  BY <1>1, BeforeConcat DEF Pipeline
<1>4. Sent = Range(toServer) \union Range(queue)  BY PipelineTypes DEF Inv
<1>5. f \in Sent /\ \A g \in Sent : g # f => MayFollow(f, g)
  BY <1>2, <1>3, <1>4 DEF Inv, Order
<1>6. Talking  BY DEF Talking
<1>7. FromClient(f)  BY <1>5 DEF Inv, Types
<1>8. f.kind \notin Greetings /\ f.kind # "ConnectionCloseOK"  BY <1>5 DEF Inv, Hand, End
<1>9. CASE f.kind \in Calls
  <2>1. f.channel # 0  BY <1>7, <1>9, ConnectionAssumption DEF FromClient, Calls, Requests, Greetings, Final, Numbers
  <2>2. Opened(f.channel, f.of)  BY <1>5, <1>6, <1>9 DEF Inv, View
  <2>3. ASSUME Opening(f.channel, f.of) \in Sent PROVE FALSE
    <3>1. /\ Opening(f.channel, f.of).kind = "ChannelOpen"
          /\ Opening(f.channel, f.of).channel = f.channel /\ Opening(f.channel, f.of).of = f.of
      BY DEF Opening, Frame
    <3>2. Opening(f.channel, f.of) # f  BY <1>9, <3>1 DEF Calls, Requests
    <3>3. MayFollow(f, Opening(f.channel, f.of))  BY <1>5, <2>3, <3>2
    <3> QED  BY <2>1, <3>1, <3>3 DEF MayFollow
  <2>4. f.channel \in server.open \union server.closing  BY <2>2, <2>3 DEF Opened
  <2> QED  BY <1>9, <2>4 DEF ExpectedNow, Calls, Requests, f
<1>10. CASE f.kind = "ChannelOpen"
  <2> DEFINE c == Confirmation(f.channel)
  <2>1. f.channel \notin server.open  BY <1>5, <1>6, <1>10 DEF Inv, View
  <2>2. ASSUME f.channel \in server.closing PROVE FALSE
    <3>1. Before(Pipeline, c, f)  BY <1>5, <1>6, <1>10, <2>2 DEF Inv, View
    <3>2. c \in Sent  BY <3>1, PipelineTypes, BeforeRange DEF Inv, Sent
    <3>3. c.kind = "ChannelCloseOK" /\ c.channel = f.channel  BY DEF Confirmation, Frame
    <3>4. f.channel # 0
      BY <1>7, <1>10, ConnectionAssumption DEF FromClient, Calls, Requests, Greetings, Final, Numbers
    <3> HIDE DEF c
    <3>5. MayFollow(f, c)  BY <1>5, <1>10, <3>2, <3>3
    <3> QED  BY <1>10, <3>3, <3>4, <3>5 DEF MayFollow
  <2> QED  BY <1>10, <2>1, <2>2 DEF ExpectedNow, f
<1>11. CASE f.kind = "ChannelCloseOK"  BY <1>5, <1>6, <1>11 DEF Inv, View, ExpectedNow, f
<1>12. CASE f.kind \in {"Heartbeat", "ConnectionClose"}  BY <1>12 DEF ExpectedNow, f
<1> QED  BY <1>7, <1>8, <1>9, <1>10, <1>11, <1>12 DEF FromClient, Final

(* The parts together, for the frame f that a running server takes.         *)
LEMMA RunningKeeps ==
    ASSUME Inv, ClientKept, Heard, NEW f \in Sent, \A h : Taken(h) <=> h = f,
           server.phase = "running", server'.phase = "running",
           server' \in ServerType, server'.surprised = server.surprised,
           \/ /\ server'.open = server.open /\ server'.closing = server.closing
              /\ f.kind \notin {"ChannelOpen", "ChannelCloseOK"}
           \/ /\ f.kind = "ChannelOpen" /\ server'.closing = server.closing
              /\ server'.open = server.open \union {f.channel} /\ f.channel \notin server.closing
           \/ /\ f.kind = "ChannelClose" /\ server'.closing = server.closing
              /\ server'.open = server.open \ {f.channel}
           \/ /\ f.kind = "ChannelCloseOK" /\ server'.open = server.open
              /\ server'.closing = server.closing \ {f.channel},
           NEW R, Said(R),
           \A g \in R : /\ g.channel = f.channel /\ g.of = f.of /\ f.of \in Objects
                        /\ f.channel \in Numbers
                        /\ \/ g.kind = "ChannelOpenOK" /\ f.kind = "ChannelOpen"
                           \/ g.kind = "QueueDeclareOK" /\ f.channel \in server.open
                           \/ /\ g.kind = "ChannelCloseOK" /\ f.kind = "ChannelClose"
                              /\ f.channel \notin server'.open
    PROVE  Inv'
<1>1. \A kinds : f.kind \in kinds => TookChannel(kinds, f.channel)  BY DEF TookChannel
<1>2. ViewMoves(R)
  <2>1. server'.open \intersect server'.closing = {}  BY DEF Inv, View
  <2>2. \A n \in server'.open : n \in server.open \/ TookChannel({"ChannelOpen"}, n)
    BY <1>1
  <2>3. \A n \in server.open \union server.closing :
            \/ n \in server'.open \union server'.closing
            \/ TookChannel({"ChannelClose", "ChannelCloseOK"}, n)
    BY <1>1
  <2>4. \A n \in server.closing : n \in server'.closing \/ TookChannel({"ChannelCloseOK"}, n)
    BY <1>1
  <2>5. \A n \in server'.closing : n \in server.closing  OBVIOUS
  <2>6. Talking  BY DEF Talking
  <2>7. /\ f.kind = "ChannelOpen" => f.channel \in server'.open
        /\ f.kind = "ChannelCloseOK" => f.channel \notin server'.closing
    OBVIOUS
  <2> QED  BY <2>1, <2>2, <2>3, <2>4, <2>5, <2>6, <2>7 DEF ViewMoves
<1>3. Answers(R)
  <2> SUFFICES ASSUME NEW g \in R
               PROVE  /\ FromServer(g)
                      /\ \E h : /\ Taken(h) /\ h.of = g.of /\ h.channel = g.channel
                                /\ \/ h.kind = "ChannelOpen"
                                   \/ h.kind = "ChannelClose" /\ g.kind = "ChannelCloseOK"
                                   \/ g.channel \in server.open
                      /\ g.kind # "ChannelClose"
                      /\ g.kind = "ChannelCloseOK" =>
                            /\ g.channel \notin server'.open
                            /\ TookChannel({"ChannelClose"}, g.channel)
    BY DEF Answers
  <2>1. FromServer(g)  BY DEF FromServer
  <2>2. g.kind = "ChannelCloseOK" => TookChannel({"ChannelClose"}, g.channel)  BY <1>1
  <2> QED  BY <2>1, <2>2
<1>4. End'
  <2>1. \A g \in R : g.kind \notin Final  BY DEF Final
  <2> QED  BY <2>1, ServerEnd DEF Final
<1>5. Hand'
  <2>1. state # "protocol" /\ \A g \in Got : g.kind # "ConnectionStart"
    BY DEF Inv, Hand, Greetings
  <2>2. server'.phase \notin Greetings  BY DEF Greetings
  <2>3. \A g \in R : g.kind \notin {"ConnectionStart", "ConnectionTune", "ConnectionOpenOK"}  OBVIOUS
  <2> QED  BY <2>1, <2>2, <2>3, ServerHand
<1> QED  BY <1>2, <1>3, <1>4, <1>5, ServerStep DEF Inv

(* The answer to a frame, and no answer.                                    *)
LEMMA AnswerSaid ==
    ASSUME Inv, NEW f \in FrameType, NEW kind \in {"ChannelOpenOK", "QueueDeclareOK", "ChannelCloseOK"},
           answer({Frame(kind, f.channel, f.of)})
    PROVE  \E R : Said(R) /\ \A g \in R : g.kind = kind /\ g.channel = f.channel /\ g.of = f.of
<1> DEFINE a == Frame(kind, f.channel, f.of)
           R == {a}
<1>1. kind \in Kinds  BY HandlerFacts DEF Handler
<1>2. a \in FrameType /\ a.kind = kind /\ a.channel = f.channel /\ a.of = f.of
  BY <1>1 DEF Frame, FrameType
<1>3. toClient' = Append(toClient, a)  BY DEF answer
<1>4. \A g \in R : g = a  OBVIOUS
<1>5. Said(R)  BY <1>2, <1>3, FrameSaid DEF Inv
<1> HIDE DEF a, R
<1> QED  BY <1>2, <1>4, <1>5

LEMMA AnswerUnsaid ==
    ASSUME Inv, answer({})
    PROVE  \E R : Said(R) /\ \A g \in R : FALSE
<1> DEFINE R == {}
<1>1. UNCHANGED toClient  BY DEF answer
<1>2. Said(R) /\ \A g \in R : FALSE  BY <1>1, NothingSaid DEF Inv
<1> QED  BY <1>2

(* A running server takes a frame.                                          *)
LEMMA RunningInv ==
    ASSUME Inv, ClientKept, toServer # <<>>, toServer' = Tail(toServer), server.phase = "running",
           LET f == Head(toServer)
           IN  onChannel(f) \/ (f.kind = "Heartbeat" /\ answer({}) /\ UNCHANGED server)
    PROVE  Inv'
<1> DEFINE f == Head(toServer)
           n == f.channel
<1>1. queue' = queue  BY DEF ClientKept, connVars
<1>2. Heard /\ f \in Sent /\ \A h : Taken(h) <=> h = f
  BY <1>1, FrameHeard
<1>3. server \in ServerType /\ FromClient(f) /\ f \in FrameType
  BY <1>2, PipelineTypes DEF Inv, Types
<1>4. f.kind \in {"ChannelOpen", "QueueDeclare", "ChannelClose", "BasicAck"} => f.of \in Objects /\ n \in Numbers
  BY <1>3 DEF FromClient, Greetings, Final
<1>5. server.open \intersect server.closing = {}  BY DEF Inv, View
<1>6. onChannel(f) \/ (f.kind = "Heartbeat" /\ answer({}) /\ UNCHANGED server)  OBVIOUS
<1> HIDE DEF f
<1>7. CASE /\ f.kind = "ChannelOpen" /\ n \notin server.open \union server.closing
           /\ answer({Frame("ChannelOpenOK", n, f.of)})
           /\ server' = [server EXCEPT !.open = @ \union {n}]
  <2>1. /\ server' \in ServerType /\ server'.surprised = server.surprised /\ server'.phase = "running"
        /\ server'.open = server.open \union {n} /\ server'.closing = server.closing
    BY <1>3, <1>4, <1>7 DEF ServerType
  <2>2. PICK R : Said(R) /\ \A g \in R : g.kind = "ChannelOpenOK" /\ g.channel = f.channel /\ g.of = f.of
    BY <1>3, <1>7, AnswerSaid
  <2> QED  BY <1>2, <1>4, <1>7, <2>1, <2>2, RunningKeeps
<1>8. CASE /\ f.kind = "QueueDeclare" /\ n \in server.open
           /\ answer({Frame("QueueDeclareOK", n, f.of)}) /\ server' = server
  <2>1. PICK R : Said(R) /\ \A g \in R : g.kind = "QueueDeclareOK" /\ g.channel = f.channel /\ g.of = f.of
    BY <1>3, <1>8, AnswerSaid
  <2> QED  BY <1>2, <1>3, <1>4, <1>8, <2>1, RunningKeeps
<1>9. CASE /\ f.kind = "ChannelClose" /\ answer({Frame("ChannelCloseOK", n, f.of)})
           /\ \/ n \in server.open /\ server' = [server EXCEPT !.open = @ \ {n}]
              \/ n \in server.closing /\ server' = server
  <2>1. /\ server' \in ServerType /\ server'.surprised = server.surprised /\ server'.phase = "running"
        /\ server'.open = server.open \ {n} /\ server'.closing = server.closing
    BY <1>3, <1>5, <1>9 DEF ServerType
  <2>2. PICK R : Said(R) /\ \A g \in R : g.kind = "ChannelCloseOK" /\ g.channel = f.channel /\ g.of = f.of
    BY <1>3, <1>9, AnswerSaid
  <2> QED  BY <1>2, <1>4, <1>9, <2>1, <2>2, RunningKeeps
<1>10. CASE /\ f.kind = "ChannelCloseOK" /\ answer({})
            /\ server' = [server EXCEPT !.closing = @ \ {n}]
  <2>1. /\ server' \in ServerType /\ server'.surprised = server.surprised /\ server'.phase = "running"
        /\ server'.open = server.open /\ server'.closing = server.closing \ {n}
    BY <1>3, <1>10 DEF ServerType
  <2>2. PICK R : Said(R) /\ \A g \in R : FALSE  BY <1>10, AnswerUnsaid
  <2> QED  BY <1>2, <1>10, <2>1, <2>2, RunningKeeps
<1>11. CASE f.kind \in {"BasicAck", "QueueDeclare", "Heartbeat"} /\ answer({}) /\ UNCHANGED server
  <2>1. PICK R : Said(R) /\ \A g \in R : FALSE  BY <1>11, AnswerUnsaid
  <2> QED  BY <1>2, <1>3, <1>11, <2>1, RunningKeeps
<1> QED  BY <1>6, <1>7, <1>8, <1>9, <1>10, <1>11 DEF onChannel

(* A step of the handshake at the server.                                   *)
LEMMA GreetedKeeps ==
    ASSUME Inv, ClientKept, toServer # <<>>, toServer' = Tail(toServer),
           server.phase \in Greetings, Head(toServer).kind \in Greetings,
           NEW phase \in Greetings \union {"running"}, server' = [server EXCEPT !.phase = phase],
           NEW R, Said(R), \A g \in R : FromServer(g) /\ g.channel = 0 /\ g.kind \notin Final,
           phase = "running" => Hand', phase # "running" => Stage'
    PROVE  Inv'
<1> DEFINE f == Head(toServer)
<1>1. UNCHANGED <<state, queue, running>>  BY DEF ClientKept, connVars
<1>2. Heard /\ \A h : Taken(h) <=> h = f
  BY <1>1, FrameHeard
<1>3. server \in ServerType  BY DEF Inv, Types
<1>4. /\ server' \in ServerType /\ server'.surprised = server.surprised /\ server'.phase = phase
      /\ server'.open = server.open /\ server'.closing = server.closing
  BY <1>3 DEF ServerType
<1>5. ViewMoves(R)
  <2>1. server'.open \intersect server'.closing = {}  BY <1>4 DEF Inv, View
  <2>2. Talking  BY DEF Talking
  <2>3. f.kind \notin {"ChannelOpen", "ChannelCloseOK"}  BY DEF Greetings
  <2> HIDE DEF f
  <2> QED  BY <1>2, <1>4, <2>1, <2>2, <2>3 DEF ViewMoves
<1> HIDE DEF f
<1>6. Answers(R)
  <2> SUFFICES ASSUME NEW g \in R
               PROVE  g.of \notin Objects /\ g.kind \notin {"ChannelClose", "ChannelCloseOK"}
    BY DEF Answers
  <2>1. 0 \notin Numbers  BY ConnectionAssumption DEF Numbers
  <2>2. FromServer(g) /\ g.channel \notin Numbers  BY <2>1
  <2>3. g.of = None \/ g.of \in ChannelMax  BY <2>2 DEF FromServer
  <2> QED  BY <2>2, <2>3, ConnectionAssumption DEF FromServer, Final
<1>7. End'
  <2>1. server.phase \notin {"closing", "closed"} /\ server'.phase # "closed"  BY <1>4 DEF Greetings
  <2> QED  BY <1>2, <2>1, ServerEnd DEF Final
<1>8. ASSUME phase # "running" PROVE Hand'
  <2>1. phase \in Greetings /\ Stage' /\ server'.phase = phase  BY <1>4, <1>8
  <2>2. running' # "onReady" /\ \A h \in Range(queue') : h.kind \notin Greetings
    BY <1>1 DEF Inv, Hand
  <2>3. \/ toClient' = <<>>
        \/ toClient' = <<Own("ConnectionStart")>>
        \/ /\ state' \in {"handshake", "closed"}
           /\ \E max \in ChannelMax : toClient' = <<Frame("ConnectionTune", 0, max)>>
    BY <1>1, <2>1 DEF Stage, At, Inv, Types, TypeOK
  <2>4. /\ \A g \in Got' : /\ g.kind \in {"ConnectionStart", "ConnectionTune"}
                           /\ g.kind = "ConnectionTune" => state' \in {"handshake", "closed"}
        /\ \A g, h : ~Before(toClient', g, h)
    <3>1. CASE toClient' = <<>>
      <4>1. Got' = {} /\ \A g, h : ~Before(toClient', g, h)  BY <3>1, EmptySequence DEF Got
      <4> QED  BY <4>1
    <3>2. ASSUME NEW b, toClient' = <<b>> PROVE Got' = {b} /\ \A g, h : ~Before(toClient', g, h)
      <4>1. b \in {b}  OBVIOUS
      <4>2. Range(<<b>>) = {b} /\ \A g, h : ~Before(<<b>>, g, h)  BY <4>1, OneElement
      <4> QED  BY <3>2, <4>2 DEF Got
    <3>3. CASE toClient' = <<Own("ConnectionStart")>>
      <4> DEFINE b == Own("ConnectionStart")
      <4>1. b.kind = "ConnectionStart"  BY DEF Own, Frame
      <4> HIDE DEF b
      <4>2. Got' = {b} /\ \A g, h : ~Before(toClient', g, h)  BY <3>2, <3>3 DEF b
      <4> QED  BY <4>1, <4>2
    <3>4. CASE /\ state' \in {"handshake", "closed"}
               /\ \E max \in ChannelMax : toClient' = <<Frame("ConnectionTune", 0, max)>>
      <4>1. PICK max \in ChannelMax : toClient' = <<Frame("ConnectionTune", 0, max)>>  BY <3>4
      <4> DEFINE b == Frame("ConnectionTune", 0, max)
      <4>2. b.kind = "ConnectionTune"  BY DEF Frame
      <4> HIDE DEF b
      <4>3. Got' = {b} /\ \A g, h : ~Before(toClient', g, h)  BY <3>2, <4>1 DEF b
      <4> QED  BY <3>4, <4>2, <4>3
    <3> QED  BY <2>3, <3>1, <3>3, <3>4
  <2>5. server'.phase \in Greetings /\ server'.phase # "running"  BY <1>8, <2>1
  <2> QED  BY <2>1, <2>2, <2>4, <2>5 DEF Hand
<1> QED  BY <1>2, <1>5, <1>6, <1>7, <1>8, ServerStep DEF Inv

(* The frames of the handshake that the server waits for, and its answers.  *)
LEMMA GreetedInv ==
    ASSUME Inv, ClientKept, toServer # <<>>, toServer' = Tail(toServer), server.phase \in Greetings
    PROVE  /\ Head(toServer).kind = server.phase
           /\ /\ answer(Reply[Head(toServer).kind])
              /\ server' = [server EXCEPT !.phase = Expected[Head(toServer).kind]]
              => Inv'
<1>1. Stage /\ Types /\ server \in ServerType  BY DEF Inv, Hand, Types
<1>2. UNCHANGED <<state, queue, running>>  BY DEF ClientKept, connVars
<1>3. \A kind \in Greetings : Own(kind) \in FrameType /\ Own(kind).kind = kind
  BY OwnFrame, PartFacts
<1>4. \A x : Head(<<x>>) = x /\ Tail(<<x>>) = <<>> /\ Append(<<>>, x) = <<x>>  OBVIOUS
<1>5. CASE At("ProtocolHeader", <<Own("ProtocolHeader")>>, <<>>, "protocol")
  <2>1. /\ server.phase = "ProtocolHeader" /\ server.open = {} /\ server.closing = {}
        /\ Head(toServer) = Own("ProtocolHeader") /\ toServer' = <<>>
        /\ toClient = <<>> /\ state \in {"protocol", "closed"}
    BY <1>4, <1>5 DEF At
  <2>2. Head(toServer).kind = "ProtocolHeader"  BY <1>3, <2>1 DEF Greetings
  <2>3. ASSUME answer(Reply["ProtocolHeader"]), server' = [server EXCEPT !.phase = "ConnectionStartOK"]
        PROVE  Inv'
    <3> DEFINE a == Own("ConnectionStart")
               R == {a}
    <3>1. "ConnectionStart" \in Kinds  BY HandlerFacts DEF Handler
    <3>2. a \in FrameType /\ a.kind = "ConnectionStart" /\ a.channel = 0 /\ a.of = None
      BY <3>1, OwnFrame
    <3>3. toClient' = Append(toClient, a)  BY <2>3 DEF answer, Reply
    <3>4. Said(R) /\ \A g : g \in R <=> g = a  BY <1>1, <3>2, <3>3, FrameSaid
    <3>5. Stage'
      <4>1. At("ConnectionStartOK", <<>>, <<Own("ConnectionStart")>>, "protocol")'
        BY <1>1, <1>2, <1>4, <2>1, <2>3, <3>3 DEF At, ServerType
      <4> QED  BY <4>1 DEF Stage
    <3> HIDE DEF a, R
    <3>6. \A g \in R : FromServer(g) /\ g.channel = 0 /\ g.kind \notin Final
      BY <3>2, <3>4 DEF FromServer, Final
    <3> QED  BY <2>2, <2>3, <3>4, <3>5, <3>6, GreetedKeeps DEF Greetings
  <2> QED  BY <2>1, <2>2, <2>3 DEF Expected
<1>6. CASE At("ConnectionStartOK", <<Own("ConnectionStartOK")>>, <<>>, "handshake")
  <2>1. /\ server.phase = "ConnectionStartOK" /\ server.open = {} /\ server.closing = {}
        /\ Head(toServer) = Own("ConnectionStartOK") /\ toServer' = <<>>
        /\ toClient = <<>> /\ state \in {"handshake", "closed"}
    BY <1>4, <1>6 DEF At
  <2>2. Head(toServer).kind = "ConnectionStartOK"  BY <1>3, <2>1 DEF Greetings
  <2>3. ASSUME answer(Reply["ConnectionStartOK"]), server' = [server EXCEPT !.phase = "ConnectionTuneOK"]
        PROVE  Inv'
    <3>1. Reply["ConnectionStartOK"] = {Frame("ConnectionTune", 0, max) : max \in ChannelMax}
      BY DEF Reply
    <3>2. CASE UNCHANGED toClient
      <4> DEFINE R == {}
      <4>1. Said(R) /\ \A g \in R : FALSE  BY <1>1, <3>2, NothingSaid
      <4>2. At("ConnectionTuneOK", <<>>, <<>>, "handshake")'
        BY <1>1, <1>2, <2>1, <2>3, <3>2 DEF At, ServerType
      <4>3. Stage'  BY <4>2 DEF Stage
      <4> HIDE DEF R
      <4> QED  BY <2>2, <2>3, <4>1, <4>3, GreetedKeeps DEF Greetings
    <3>3. CASE \E max \in ChannelMax : toClient' = Append(toClient, Frame("ConnectionTune", 0, max))
      <4>1. PICK max \in ChannelMax : toClient' = Append(toClient, Frame("ConnectionTune", 0, max))
        BY <3>3
      <4> DEFINE a == Frame("ConnectionTune", 0, max)
                 R == {a}
      <4>2. "ConnectionTune" \in Kinds  BY HandlerFacts DEF Handler
      <4>3. a \in FrameType /\ a.kind = "ConnectionTune" /\ a.channel = 0 /\ a.of = max
        BY <4>2, ConnectionAssumption DEF Frame, FrameType
      <4>4. Said(R) /\ \A g : g \in R <=> g = a  BY <1>1, <4>1, <4>3, FrameSaid
      <4>5. Stage'
        <5>1. toClient' = <<Frame("ConnectionTune", 0, max)>>  BY <1>4, <2>1, <4>1
        <5>2. At("ConnectionTuneOK", <<>>, <<Frame("ConnectionTune", 0, max)>>, "handshake")'
          BY <1>1, <1>2, <2>1, <2>3, <5>1 DEF At, ServerType
        <5> QED  BY <5>2 DEF Stage
      <4> HIDE DEF a, R
      <4>6. \A g \in R : FromServer(g) /\ g.channel = 0 /\ g.kind \notin Final
        BY <4>3, <4>4 DEF FromServer, Final
      <4> QED  BY <2>2, <2>3, <4>4, <4>5, <4>6, GreetedKeeps DEF Greetings
    <3> QED  BY <2>3, <3>1, <3>2, <3>3 DEF answer
  <2> QED  BY <2>1, <2>2, <2>3 DEF Expected
<1>7. CASE At("ConnectionTuneOK", <<Own("ConnectionTuneOK"), Own("ConnectionOpen")>>, <<>>, "handshake")
  <2>1. \A x, y : Head(<<x, y>>) = x /\ Tail(<<x, y>>) = <<y>>  OBVIOUS
  <2>2. /\ server.phase = "ConnectionTuneOK" /\ server.open = {} /\ server.closing = {}
        /\ Head(toServer) = Own("ConnectionTuneOK") /\ toServer' = <<Own("ConnectionOpen")>>
        /\ toClient = <<>> /\ state \in {"handshake", "closed"}
    BY <1>7, <2>1 DEF At
  <2>3. Head(toServer).kind = "ConnectionTuneOK"  BY <1>3, <2>2 DEF Greetings
  <2>4. ASSUME answer(Reply["ConnectionTuneOK"]), server' = [server EXCEPT !.phase = "ConnectionOpen"]
        PROVE  Inv'
    <3> DEFINE R == {}
    <3>1. UNCHANGED toClient  BY <2>4 DEF answer, Reply
    <3>2. Said(R) /\ \A g \in R : FALSE  BY <1>1, <3>1, NothingSaid
    <3>3. At("ConnectionOpen", <<Own("ConnectionOpen")>>, <<>>, "handshake")'
      BY <1>1, <1>2, <2>2, <2>4, <3>1 DEF At, ServerType
    <3>4. Stage'  BY <3>3 DEF Stage
    <3> HIDE DEF R
    <3> QED  BY <2>3, <2>4, <3>2, <3>4, GreetedKeeps DEF Greetings
  <2> QED  BY <2>2, <2>3, <2>4 DEF Expected
<1>8. CASE At("ConnectionOpen", <<Own("ConnectionOpen")>>, <<>>, "handshake")
  <2>1. /\ server.phase = "ConnectionOpen" /\ server.open = {} /\ server.closing = {}
        /\ Head(toServer) = Own("ConnectionOpen") /\ toServer' = <<>>
        /\ toClient = <<>> /\ state \in {"handshake", "closed"}
    BY <1>4, <1>8 DEF At
  <2>2. Head(toServer).kind = "ConnectionOpen"  BY <1>3, <2>1 DEF Greetings
  <2>3. ASSUME answer(Reply["ConnectionOpen"]), server' = [server EXCEPT !.phase = "running"]
        PROVE  Inv'
    <3> DEFINE a == Own("ConnectionOpenOK")
               R == {a}
    <3>1. "ConnectionOpenOK" \in Kinds  BY HandlerFacts DEF Handler
    <3>2. a \in FrameType /\ a.kind = "ConnectionOpenOK" /\ a.channel = 0 /\ a.of = None
      BY <3>1, OwnFrame
    <3>3. toClient' = Append(toClient, a)  BY <2>3 DEF answer, Reply
    <3>4. Said(R) /\ \A g : g \in R <=> g = a  BY <1>1, <3>2, <3>3, FrameSaid
    <3> HIDE DEF a, R
    <3>5. Hand'
      <4>1. toClient' = <<a>>  BY <1>4, <2>1, <3>3
      <4>2. Got' = {a} /\ \A g, h : ~Before(toClient', g, h)  BY <3>2, <4>1, OneElement DEF Got
      <4>3. queue \in Seq(FrameType)  BY <1>1, PipelineTypes
      <4>4. Sent' = Range(queue)
        <5>1. <<>> \o queue = queue  BY <4>3, ConcatEmptySeq
        <5> QED  BY <1>2, <2>1, <5>1 DEF Sent, Pipeline
      <4>5. \A f \in Range(queue) : f.kind \notin Greetings  BY DEF Inv, Hand
      <4>6. server'.phase = "running"  BY <1>1, <2>3 DEF ServerType
      <4>7. server'.phase \notin Greetings  BY <4>6 DEF Greetings
      <4> QED  BY <1>2, <2>1, <3>2, <4>2, <4>4, <4>5, <4>6, <4>7 DEF Hand
    <3>6. \A g \in R : FromServer(g) /\ g.channel = 0 /\ g.kind \notin Final
      BY <3>2, <3>4 DEF FromServer, Final
    <3> QED  BY <2>2, <2>3, <3>4, <3>5, <3>6, GreetedKeeps DEF Greetings
  <2> QED  BY <2>1, <2>2, <2>3 DEF Expected
<1> QED  BY <1>1, <1>5, <1>6, <1>7, <1>8 DEF Stage, At

(* The server takes a frame.                                                *)
LEMMA ReceiveInv == ASSUME Inv, serverReceive PROVE Inv'
<1> DEFINE f == Head(toServer)
<1>1. toServer # <<>> /\ toServer' = Tail(toServer) /\ ClientKept
  BY DEF serverReceive, ClientKept
<1>2. DOMAIN Expected = Greetings  BY DEF Expected, Greetings
<1>3. CASE server.phase \in Greetings
  <2>1. f.kind = server.phase  BY <1>1, <1>3, GreetedInv
  <2>2. answer(Reply[f.kind]) /\ server' = [server EXCEPT !.phase = Expected[f.kind]]
    BY <1>2, <1>3, <2>1 DEF serverReceive, Greetings
  <2> QED  BY <1>1, <1>3, <2>2, GreetedInv
<1>4. CASE server.phase = "running"
  <2>1. ExpectedNow(f)  BY <1>1, <1>4, AlwaysExpected
  <2>2. \/ onChannel(f)
        \/ f.kind = "Heartbeat" /\ answer({}) /\ UNCHANGED server
        \/ /\ f.kind = "ConnectionClose" /\ answer({Own("ConnectionCloseOK")})
           /\ server' = [server EXCEPT !.phase = "closed"]
    BY <1>2, <1>4, <2>1 DEF serverReceive, Greetings
  <2>3. answer({Own("ConnectionCloseOK")}) => toClient' = Append(toClient, Own("ConnectionCloseOK"))
    BY DEF answer
  <2> QED  BY <1>1, <1>4, <2>2, <2>3, RunningInv, ClosingInv
<1>5. CASE server.phase = "closing"
  <2>1. /\ answer(IF f.kind = "ConnectionClose" THEN {Own("ConnectionCloseOK")} ELSE {})
        /\ server' = IF f.kind \in {"ConnectionClose", "ConnectionCloseOK"}
                       THEN [server EXCEPT !.phase = "closed"] ELSE server
    BY <1>2, <1>5 DEF serverReceive, Greetings
  <2>2. f.kind = "ConnectionClose" => toClient' = Append(toClient, Own("ConnectionCloseOK"))
    BY <2>1 DEF answer
  <2>3. f.kind # "ConnectionClose" => UNCHANGED toClient  BY <2>1 DEF answer
  <2> QED  BY <1>1, <1>5, <2>1, <2>2, <2>3, ClosingInv
<1>6. CASE server.phase = "closed"
  <2>1. f \in Sent  BY <1>1, FrameHeard DEF ClientKept, connVars
  <2> QED  BY <1>6, <2>1 DEF Inv, End
<1> QED  BY <1>3, <1>4, <1>5, <1>6 DEF Inv, Types, ServerType

-----------------------------------------------------------------------------
(* The invariant.                                                           *)

LEMMA InitInv == ASSUME Init PROVE Inv
<1> DEFINE p == Own("ProtocolHeader")
<1>1. /\ state = "protocol" /\ closed = FALSE /\ maxChannels = 0 /\ next = 1
      /\ channels = [n \in Numbers |-> None] /\ queue = <<>> /\ running = "no"
      /\ chan = [o \in Objects |-> [id |-> 0, state |-> "none", queue |-> <<>>, synchronous |-> FALSE]]
      /\ calls = 0 /\ told = [error |-> FALSE, closed |-> FALSE]
      /\ toServer = <<p>> /\ toClient = <<>>
      /\ server = [phase |-> "ProtocolHeader", open |-> {}, closing |-> {}, surprised |-> FALSE]
  BY DEF Init
<1>2. p \in FrameType /\ p.kind = "ProtocolHeader" /\ p.channel = 0 /\ p.of = None
  BY OwnFrame, PartFacts DEF Greetings
<1>3. /\ \A S : <<>> \in Seq(S)
      /\ Range(<<>>) = {} /\ \A x, y : ~Before(<<>>, x, y)
  BY EmptySequence
<1>4. At("ProtocolHeader", <<Own("ProtocolHeader")>>, <<>>, "protocol")  BY <1>1 DEF At
<1> HIDE DEF p
<1>5. <<p>> \in Seq(FrameType) /\ Range(<<p>>) = {p} /\ \A x, y : ~Before(<<p>>, x, y)
  BY <1>2, OneElement
<1>6. Pipeline = <<p>>
  <2>1. <<p>> \o <<>> = <<p>>  BY <1>5, ConcatEmptySeq
  <2> QED  BY <1>1, <2>1 DEF Pipeline
<1>7. /\ Sent = {p} /\ Got = {} /\ \A x, y : ~Before(Pipeline, x, y)
      /\ \A x, y : ~Before(toClient, x, y)
  BY <1>1, <1>3, <1>5, <1>6 DEF Sent, Got
<1>8. /\ chan \in [Objects -> ChannelType]
      /\ \A o \in Objects : /\ chan[o].state = "none" /\ chan[o].queue = <<>>
                            /\ chan[o].synchronous = FALSE
  <2>1. 0 \in 0..MaxNumber  BY ConnectionAssumption
  <2> QED  BY <1>1, <1>3, <2>1 DEF ChannelType
<1>9. \A o \in Objects : ~waiting(chan[o]) /\ ~Sending(o)  BY <1>8 DEF waiting, Sending
<1>10. Types
  <2>1. next \in 0..MaxNumber /\ calls \in 0..MaxCalls  BY <1>1, ConnectionAssumption
  <2>2. channels \in [Numbers -> Objects \union {None}] /\ \A n \in Numbers : channels[n] = None
    BY <1>1
  <2>3. TypeOK  BY <1>1, <1>3, <1>5, <2>1, <2>2 DEF TypeOK
  <2>4. told \in [error : BOOLEAN, closed : BOOLEAN] /\ server \in ServerType
    BY <1>1 DEF ServerType, Greetings
  <2>5. FromClient(p)  BY <1>2 DEF FromClient, Greetings
  <2> QED  BY <1>7, <1>8, <2>3, <2>4, <2>5 DEF Types
<1>11. Registry
  <2>1. \A n \in Numbers : channels[n] = None  BY <1>1
  <2>2. Len(<<>>) = 0  OBVIOUS
  <2>3. ASSUME NEW o \in Objects PROVE QueueFits(chan[o], o)
    <3>1. chan[o].queue = <<>>  BY <1>8
    <3>2. \A i \in 1..Len(chan[o].queue) : FALSE  BY <2>2, <3>1
    <3> QED  BY <3>2 DEF QueueFits
  <2> QED  BY <1>8, <1>9, <2>1, <2>3 DEF Registry, Live
<1>12. Owned  BY <1>2, <1>7, ConnectionAssumption DEF Owned
<1>13. Hand
  <2>1. Stage  BY <1>4 DEF Stage
  <2>2. server.phase \in Greetings /\ server.phase # "running"  BY <1>1 DEF Greetings
  <2> QED  BY <1>1, <1>3, <1>7, <2>1, <2>2 DEF Hand
<1>14. End  BY <1>1, <1>2, <1>7 DEF End
<1>15. Order  BY <1>2, <1>7, <1>9 DEF Order
<1>16. View  BY <1>1, <1>2, <1>7, <1>9 DEF View, Calls, Requests
<1>17. Reuse
  <2>1. \A n \in Numbers : Free(n)
    <3>1. \A n \in Numbers : n # 0  BY ConnectionAssumption DEF Numbers
    <3> QED  BY <1>1, <1>2, <1>7, <3>1 DEF Free
  <2> QED  BY <1>1, <1>7, <2>1 DEF Reuse
<1>18. NothingLeftBehind /\ NoSurprise  BY <1>1 DEF NothingLeftBehind, NoSurprise
<1> QED  BY <1>10, <1>11, <1>12, <1>13, <1>14, <1>15, <1>16, <1>17, <1>18 DEF Inv

LEMMA StutterInv == ASSUME Inv, UNCHANGED vars PROVE Inv'
<1>1. UNCHANGED <<state, closed, maxChannels, next, channels, queue, running, chan, calls, told,
                  toServer, toClient, server>>
  BY DEF vars, connVars
<1>2. Growth(<<>>)  BY <1>1, NoGrowth DEF Inv
<1>3. /\ Received /\ closed' \in BOOLEAN /\ calls' \in 0..MaxCalls
      /\ running' \in {"no", "frame", "onReady"} /\ told' \in [error : BOOLEAN, closed : BOOLEAN]
  BY <1>1 DEF Inv, Types, TypeOK, Received, Consumed
<1>4. Ended' => \A o \in Objects : ~waiting(chan[o])  BY <1>1 DEF Inv, NothingLeftBehind, Ended
<1> QED  BY <1>1, <1>2, <1>3, <1>4, OwnKeeps

LEMMA NextInv == ASSUME Inv, Next, Unhurried PROVE Inv'
<1>1. CASE Application
  <2>1. CASE \E o \in Objects : openChannel(o) \/ callChannel(o) \/ closeChannel(o)
    BY <2>1, OpenInv, CallInv
  <2>2. CASE heartbeat \/ close  BY <2>2, HeartbeatInv, CloseInv
  <2> QED  BY <1>1, <2>1, <2>2 DEF Application
<1>2. CASE Library
  BY <1>2, StartInv, TuneInv, SetReadyInv, OnReadyInv, ConnectionErrorInv, ConnectionClosedInv,
     ReportInv, ReportClosedInv, ChannelErrorInv, IgnoredInv, ParseEndInv DEF Library
<1>3. CASE fail  BY <1>3, FailInv
<1>4. CASE Server  BY <1>4, ReceiveInv, RaisesInv, ClosesInv DEF Server
<1> QED  BY <1>1, <1>2, <1>3, <1>4 DEF Next

(* The invariant holds in every behaviour with a patient application,       *)
(* whatever else it, the server and the transport do.                       *)
THEOREM ConnectionInvariance == PatientSpec => []Inv
<1>1. Init => Inv  BY InitInv
<1>2. Inv /\ [Next /\ Unhurried]_vars => Inv'  BY NextInv, StutterInv
<1> QED  BY <1>1, <1>2, PTL DEF PatientSpec

(* With a patient application the state of the connection stays in its      *)
(* types: numbers within the range of a channel id (the cyclic search of    *)
(* ConnectionImpl::add never leaves it), frames that are frames, and every  *)
(* number in _channels belongs to an object that knows it as its own.       *)
THEOREM ConnectionTypes == PatientSpec => []TypeOK
<1>1. Inv => TypeOK  BY DEF Inv, Types
<1> QED  BY <1>1, ConnectionInvariance, PTL

(* ConnectionImpl::close and parse do not send connection.close while a     *)
(* channel has frames to send or an answer to get, and no channel gets into *)
(* that position afterwards, whichever callback calls it, if the            *)
(* application is patient.                                                  *)
THEOREM CloseLeavesNothing == PatientSpec => []NothingLeftBehind
<1>1. Inv => NothingLeftBehind  BY DEF Inv
<1> QED  BY <1>1, ConnectionInvariance, PTL

(* If no number is used again while a close frame for it is unanswered      *)
(* (which ConnectionImpl::add does not see to), what the server sends for a *)
(* number reaches the object that it is meant for, or nobody: also when     *)
(* closes cross, and when a number is used again as soon as the server has  *)
(* closed it and frames of its former owner are still on their way.         *)
THEOREM NumbersDoNotMix == PatientSpec => []NoCrossTalk
<1>1. ASSUME Inv PROVE NoCrossTalk
  <2> SUFFICES ASSUME NEW i \in 1..Len(toClient), toClient[i].of \in Objects
               PROVE  channels[toClient[i].channel] \in {toClient[i].of, None}
    BY DEF NoCrossTalk
  <2>1. toClient \in Seq(FrameType)  BY <1>1, PipelineTypes DEF Inv
  <2>2. toClient[i] \in Got  BY <2>1, RangeIndex DEF Got
  <2> QED  BY <1>1, <2>2 DEF Inv, Owned
<1> QED  BY <1>1, ConnectionInvariance, PTL

(* With a patient application the frames reach the server in an order that  *)
(* the protocol allows: those of the handshake first, a channel's open      *)
(* frame before its others and for a number that is free at the server too, *)
(* nothing for a channel after its close frame, nothing after               *)
(* connection.close; through the queue of the connection, the queues of the *)
(* channels, and close() at any moment.                                     *)
THEOREM ServerNotSurprised == PatientSpec => []NoSurprise
<1>1. Inv => NoSurprise  BY DEF Inv
<1> QED  BY <1>1, ConnectionInvariance, PTL
=============================================================================
