--------------------------- MODULE DeliveryProofs ---------------------------
(***************************************************************************)
(* Proofs about Delivery, for all tags, sizes of bodies and of frames, and *)
(* any number of messages and calls: the types, that messages are handed   *)
(* over whole (Intact), and that they reach the object for which the       *)
(* server sent them (RightReceiver).                                       *)
(*                                                                         *)
(* The frames to the client show neither which object they are for nor     *)
(* where a message ends.  The inductive invariant explains them by a list  *)
(* of events, which the server adds to and the client takes from:          *)
(*   - the frames under way are what is left of the message that is being  *)
(*     received, and the frames of the events (Stream);                    *)
(*   - the objects of the replies among the events, and those of the       *)
(*     requests under way, are the chain of the client (Askers);           *)
(*   - the events turn the consumers that the client knows into those that *)
(*     the server knows, and each delivery is for the consumer of its tag  *)
(*     at its place (Linked);                                              *)
(*   - what was handed over, what is being received and what the events    *)
(*     carry is what the server has sent (Report);                         *)
(*   - the object that receives has the first part of a published body,    *)
(*     and the rest is on its way; all other objects are at rest (Current).*)
(***************************************************************************)
EXTENDS Delivery, Flattening

-----------------------------------------------------------------------------
(* Cutting a body into pieces.                                              *)
Bytes == Seq(Nat)
Pieces == {p \in Seq(Bytes) : \A i \in 1..Len(p) : p[i] # <<>>}

(* How far the first i pieces reach.                                        *)
Cut(b, k, i) == IF i * k < Len(b) THEN i * k ELSE Len(b)

(* The number of pieces: the last one is not empty, and all is covered.     *)
LEMMA PieceCount ==
    ASSUME NEW l \in Nat, NEW k \in Nat \ {0}
    PROVE  LET n == (l + k - 1) \div k
           IN  /\ n \in Nat /\ (l = 0 => n = 0) /\ (l > 0 => n > 0)
               /\ l > 0 => (n - 1) * k < l
               /\ l <= n * k
OBVIOUS

(* Multiples of the size of a piece are ordered.                            *)
LEMMA Multiples ==
    ASSUME NEW i \in Nat, NEW n \in Nat, i <= n, NEW k \in Nat
    PROVE  i * k \in Nat /\ n * k \in Nat /\ i * k <= n * k /\ (i + 1) * k = i * k + k
OBVIOUS

(* The loop of ChannelImpl::publish loses no byte, and cuts no empty piece. *)
LEMMA SplitFacts ==
    ASSUME NEW b \in Bytes, NEW k \in Nat \ {0}
    PROVE  Split(b, k) \in Pieces /\ FlattenSeq(Split(b, k)) = b
<1> DEFINE l == Len(b)
           n == (l + k - 1) \div k
           p == Split(b, k)
           cut(i) == Cut(b, k, i)
<1>1. l \in Nat
  BY LenProperties DEF Bytes
<1> HIDE DEF l
<1>2. /\ n \in Nat /\ (l = 0 => n = 0) /\ (l > 0 => n > 0)
      /\ l > 0 => (n - 1) * k < l
      /\ l <= n * k
  BY <1>1, PieceCount
<1> HIDE DEF n
<1>3. ASSUME NEW i \in 1..n
      PROVE  /\ cut(i - 1) = (i - 1) * k /\ cut(i - 1) \in 0..l /\ cut(i) \in 0..l
             /\ cut(i - 1) < cut(i)
             /\ p[i] = SubSeq(b, cut(i - 1) + 1, cut(i))
  <2>1. i - 1 \in Nat /\ n - 1 \in Nat /\ i - 1 <= n - 1 /\ (i - 1) + 1 = i
    BY <1>2
  <2>2. /\ (i - 1) * k \in Nat /\ (i - 1) * k <= (n - 1) * k
        /\ (n - 1) * k \in Nat /\ i * k = (i - 1) * k + k
    BY <2>1, Multiples
  <2>3. l > 0
    BY <1>1, <1>2
  <2>4. cut(i - 1) = (i - 1) * k
    BY <1>1, <1>2, <2>2, <2>3 DEF Cut, l
  <2>5. cut(i) = IF i * k < l THEN i * k ELSE l
    BY DEF Cut, l
  <2>6. p[i] = SubSeq(b, (i - 1) * k + 1, cut(i))
    BY <2>5 DEF Split, n, l
  <2> DEFINE c == cut(i - 1)
             d == cut(i)
             u == (i - 1) * k
             v == i * k
  <2>7. c = u /\ u \in Nat /\ u < l /\ v = u + k /\ d = IF v < l THEN v ELSE l
    BY <1>1, <1>2, <2>2, <2>3, <2>4, <2>5
  <2>8. p[i] = SubSeq(b, u + 1, d)
    BY <2>6
  <2> HIDE DEF c, d, u, v, p, cut
  <2>9. c \in 0..l /\ d \in 0..l /\ c < d
    BY <1>1, <2>7
  <2> QED
    BY <2>7, <2>8, <2>9 DEF c, d, u
<1>4. ASSUME NEW i \in 1..n PROVE p[i] \in Bytes /\ p[i] # <<>>
  <2> DEFINE c == cut(i - 1)
             d == cut(i)
  <2>1. c \in 0..l /\ d \in 0..l /\ c < d /\ p[i] = SubSeq(b, c + 1, d)
    BY <1>3
  <2> HIDE DEF c, d, p, cut
  <2>2. \A j \in (c + 1)..d : b[j] \in Nat
    BY <1>1, <2>1, ElementOfSeq DEF Bytes, l
  <2>3. SubSeq(b, c + 1, d) \in Bytes /\ Len(SubSeq(b, c + 1, d)) = d - c
    <3>1. c + 1 \in Int /\ d \in Int /\ c + 1 <= d /\ d - (c + 1) + 1 = d - c
      BY <1>1, <2>1
    <3> QED
      BY <2>2, <3>1, SubSeqProperties DEF Bytes
  <2>4. d - c # 0 /\ Len(<<>>) = 0
    BY <1>1, <2>1, EmptySeq
  <2> QED
    BY <2>1, <2>3, <2>4
<1>5. p \in Seq(Bytes) /\ Len(p) = n
  <2>1. p \in [1..n -> Bytes]
    <3>1. p = [i \in 1..n |-> p[i]]
      BY DEF Split, n, l
    <3> HIDE DEF p
    <3> QED
      BY <1>4, <3>1
  <2> HIDE DEF p
  <2> QED
    BY <1>2, <2>1, FunctionIsSeq
<1>6. p \in Pieces
  BY <1>4, <1>5 DEF Pieces
<1>7. CASE l = 0
  <2>1. p = <<>> /\ b = <<>>
    <3> HIDE DEF p
    <3> QED
      BY <1>2, <1>5, <1>7, EmptySeq DEF l, Bytes
  <2> QED
    BY <1>6, <2>1, FlattenEmpty
<1>8. CASE l # 0
  <2> DEFINE g == [i \in 1..n |-> Leading(b, cut(i))]
  <2>1. Partials(p, g)
    <3>1. ASSUME NEW i \in 1..n PROVE Leading(b, cut(i)) = Joined(p, g, i)
      <4> DEFINE c == cut(i - 1)
                 d == cut(i)
      <4>1. c \in 0..l /\ d \in 0..l /\ c < d /\ p[i] = SubSeq(b, c + 1, d) /\ c = (i - 1) * k
        BY <1>3
      <4>2. CASE i = 1
        <5>1. c = 0
          BY <4>1, <4>2
        <5> QED
          BY <4>1, <4>2, <5>1 DEF Joined, Leading
      <4>3. CASE i # 1
        <5>1. i - 1 \in 1..n
          BY <1>2, <4>3
        <5>2. g[i - 1] = Leading(b, c)
          BY <5>1
        <5> HIDE DEF c, d, g, p, cut
        <5>3. SubSeq(b, 1, c) \o SubSeq(b, c + 1, d) = SubSeq(b, 1, d)
          <6>1. 1 \in 1..Len(b) + 1 /\ c \in (1 - 1)..Len(b) /\ d \in c..Len(b)
            BY <1>1, <4>1 DEF l
          <6> QED
            BY <6>1, ConcatAdjacentSubSeq DEF Bytes
        <5>4. Joined(p, g, i) = Cat(g[i - 1], p[i])
          BY <4>3 DEF Joined
        <5> QED
          BY <4>1, <5>2, <5>3, <5>4 DEF Cat, Leading, d
      <4> QED
        BY <4>2, <4>3
    <3> HIDE DEF p, cut
    <3>2. g = [i \in 1..n |-> Joined(p, g, i)]
      BY <3>1
    <3> QED
      BY <1>5, <3>2 DEF Partials
  <2>2. g[n] = b
    <3>1. n \in 1..n /\ cut(n) = l
      BY <1>1, <1>2, <1>8 DEF Cut, l
    <3>2. Leading(b, l) = b
      BY SubSeqFull DEF Leading, l, Bytes
    <3> QED
      BY <3>1, <3>2
  <2> HIDE DEF p, g
  <2>3. Len(p) # 0
    BY <1>1, <1>2, <1>5, <1>8
  <2>4. FlattenSeq(p) = g[Len(p)]
    BY <1>5, <2>1, <2>3, FlattenPartials DEF Bytes
  <2> QED
    BY <1>5, <1>6, <2>2, <2>4 DEF p
<1> QED
  BY <1>7, <1>8

-----------------------------------------------------------------------------
(* What the server sends, as events: a reply, a cancel, or a message with   *)
(* all of its frames.  The object is the one that the server means, and the *)
(* table is what it knows of the consumers after the event.                 *)
Replies == {"consume-ok", "cancel-ok", "get-ok", "get-empty"}
Carriers == {"get-ok", "deliver", "return"}
Changes == {"consume-ok", "cancel-ok", "cancel"}
Tables == [Tags -> Nat \union {None}]
Event ==
    [kind : Replies \union Carriers \union Changes, tag : Tags \union {None}, object : Nat,
     id : Nat, size : Nat, pieces : Pieces, table : Tables]

Frame ==
    [type : Changes, tag : Tags \union {None}] \union [type : {"get-empty"}]
    \union [type : {"get-ok", "return"}, id : Nat]
    \union [type : {"deliver"}, tag : Tags \union {None}, id : Nat]
    \union [type : {"header"}, size : Nat] \union [type : {"body"}, piece : Bytes]

method(e) ==
    IF e.kind \in Changes THEN [type |-> e.kind, tag |-> e.tag]
    ELSE IF e.kind = "get-empty" THEN [type |-> "get-empty"]
    ELSE IF e.kind = "deliver" THEN [type |-> "deliver", tag |-> e.tag, id |-> e.id]
    ELSE [type |-> e.kind, id |-> e.id]
Header(size) == [type |-> "header", size |-> size]
BodyFrame(piece) == [type |-> "body", piece |-> piece]
BodyFrames(p) == [i \in 1..Len(p) |-> BodyFrame(p[i])]
Content(e) == IF e.kind \in Carriers THEN Cons(Header(e.size), BodyFrames(e.pieces)) ELSE <<>>
Packet == [e \in Event |-> Cons(method(e), Content(e))]

(* The method frame of an event is a frame of the type of its kind.         *)
LEMMA MethodFacts ==
    ASSUME NEW e \in Event
    PROVE  /\ method(e) \in Frame /\ method(e).type = e.kind
           /\ e.kind \in Changes \union {"deliver"} => method(e).tag = e.tag
           /\ e.kind \in Carriers => method(e).id = e.id
<1>1. e.kind \in Replies \union Carriers \union Changes /\ e.tag \in Tags \union {None} /\ e.id \in Nat
  BY DEF Event
<1>2. CASE e.kind \in Changes
  BY <1>1, <1>2 DEF method, Frame, Changes, Carriers
<1>3. CASE e.kind = "get-empty"
  BY <1>1, <1>3 DEF method, Frame, Changes, Carriers
<1>4. CASE e.kind = "deliver"
  BY <1>1, <1>4 DEF method, Frame, Changes, Carriers
<1>5. CASE e.kind \in {"get-ok", "return"}
  BY <1>1, <1>5 DEF method, Frame, Changes, Carriers
<1>6. e.kind \in Changes \/ e.kind = "get-empty" \/ e.kind = "deliver" \/ e.kind \in {"get-ok", "return"}
  BY <1>1 DEF Replies, Carriers, Changes
<1> QED
  BY <1>2, <1>3, <1>4, <1>5, <1>6

(* The pieces put together: the first one, and then the others.             *)
LEMMA PieceFacts ==
    ASSUME NEW p \in Pieces
    PROVE  /\ p \in Seq(Bytes) /\ FlattenSeq(p) \in Bytes
           /\ p # <<>> => /\ Head(p) \in Bytes /\ Head(p) # <<>> /\ Tail(p) \in Pieces
                          /\ FlattenSeq(p) = Head(p) \o FlattenSeq(Tail(p))
           /\ p = <<>> <=> FlattenSeq(p) = <<>>
<1>1. p \in Seq(Bytes) /\ \A i \in 1..Len(p) : p[i] # <<>>
  BY DEF Pieces
<1>2. FlattenSeq(p) \in Bytes
  BY <1>1, FlattenType DEF Bytes
<1>3. ASSUME p # <<>>
      PROVE  /\ Head(p) \in Bytes /\ Head(p) # <<>> /\ Tail(p) \in Pieces
             /\ FlattenSeq(p) = Head(p) \o FlattenSeq(Tail(p))
             /\ FlattenSeq(p) # <<>>
  <2> DEFINE h == Head(p)
             t == Tail(p)
             o == <<h>>
  <2>1. /\ p = Cons(h, t) /\ h \in Bytes /\ t \in Seq(Bytes) /\ h = p[1]
        /\ Len(p) \in Nat \ {0} /\ Len(t) = Len(p) - 1
    BY <1>1, <1>3, HeadAndTail
  <2>2. \A i \in 1..(Len(p) - 1) : t[i] = p[i + 1]
    BY <1>1, <1>3, HeadAndTail
  <2> HIDE DEF h, t
  <2>0. Len(p) \in Nat \ {0} /\ Len(t) = Len(p) - 1
    BY <2>1
  <2>3. h # <<>>
    BY <1>1, <2>1
  <2>4. t \in Pieces
    <3>1. ASSUME NEW i \in 1..Len(t) PROVE t[i] # <<>>
      <4>1. i \in 1..(Len(p) - 1) /\ i + 1 \in 1..Len(p)
        BY <2>0
      <4> QED
        BY <1>1, <2>2, <4>1
    <3> QED
      BY <2>1, <3>1 DEF Pieces
  <2>5. o \in Seq(Bytes) /\ o = Append(<<>>, h) /\ p = o \o t
    BY <2>1 DEF Cons
  <2> HIDE DEF o
  <2>6. FlattenSeq(o \o t) = FlattenSeq(o) \o FlattenSeq(t)
    BY <2>1, <2>5, FlattenConcat DEF Bytes
  <2>7. FlattenSeq(o) = h
    <3>1. FlattenSeq(Append(<<>>, h)) = FlattenSeq(<<>>) \o h
      BY <2>1, EmptySeq, FlattenAppend DEF Bytes
    <3>2. <<>> \o h = h
      BY <2>1, ConcatEmptySeq DEF Bytes
    <3> QED
      BY <2>5, <3>1, <3>2, FlattenEmpty
  <2>8. FlattenSeq(p) = h \o FlattenSeq(t)
    BY <2>5, <2>6, <2>7
  <2>9. FlattenSeq(p) # <<>>
    <3>1. FlattenSeq(t) \in Bytes
      BY <2>1, FlattenType DEF Bytes
    <3>2. Len(h \o FlattenSeq(t)) = Len(h) + Len(FlattenSeq(t))
      BY <2>1, <3>1, ConcatProperties DEF Bytes
    <3>3. Len(h) \in Nat \ {0} /\ Len(FlattenSeq(t)) \in Nat /\ Len(<<>>) = 0
      BY <2>1, <2>3, <3>1, EmptySeq, LenProperties DEF Bytes
    <3> QED
      BY <2>8, <3>2, <3>3
  <2> QED
    BY <2>1, <2>3, <2>4, <2>8, <2>9 DEF h, t
<1>4. p = <<>> => FlattenSeq(p) = <<>>
  BY FlattenEmpty
<1> QED
  BY <1>1, <1>2, <1>3, <1>4

(* One body frame for each piece.                                           *)
LEMMA BodyFramesFacts ==
    ASSUME NEW p \in Pieces
    PROVE  /\ BodyFrames(p) \in Seq(Frame) /\ Len(BodyFrames(p)) = Len(p)
           /\ \A i \in 1..Len(p) : BodyFrames(p)[i] = BodyFrame(p[i])
           /\ p = <<>> <=> BodyFrames(p) = <<>>
           /\ p # <<>> => BodyFrames(p) = Cons(BodyFrame(Head(p)), BodyFrames(Tail(p)))
<1>1. p \in Seq(Bytes) /\ Len(p) \in Nat /\ \A i \in 1..Len(p) : p[i] \in Bytes
  BY PieceFacts, LenProperties, ElementOfSeq
<1>2. ASSUME NEW q \in Seq(Bytes)
      PROVE  BodyFrames(q) \in Seq(Frame) /\ Len(BodyFrames(q)) = Len(q)
  <2>1. Len(q) \in Nat /\ \A i \in 1..Len(q) : q[i] \in Bytes
    BY LenProperties, ElementOfSeq
  <2>2. ASSUME NEW b \in Bytes PROVE BodyFrame(b) \in Frame
    BY DEF BodyFrame, Frame
  <2>3. BodyFrames(q) \in [1..Len(q) -> Frame]
    BY <2>1, <2>2 DEF BodyFrames
  <2> QED
    BY <2>1, <2>3, FunctionIsSeq
<1>3. \A i \in 1..Len(p) : BodyFrames(p)[i] = BodyFrame(p[i])
  BY DEF BodyFrames
<1>4. BodyFrames(p) \in Seq(Frame) /\ Len(BodyFrames(p)) = Len(p)
  BY <1>1, <1>2
<1>5. p = <<>> <=> BodyFrames(p) = <<>>
  BY <1>1, <1>4, EmptySeq
<1>6. ASSUME p # <<>> PROVE BodyFrames(p) = Cons(BodyFrame(Head(p)), BodyFrames(Tail(p)))
  <2> DEFINE h == Head(p)
             t == Tail(p)
             f == BodyFrame(h)
             l == BodyFrames(p)
             b == BodyFrames(t)
             r == Cons(f, b)
  <2>1. /\ h \in Bytes /\ t \in Seq(Bytes) /\ h = p[1] /\ Len(p) \in Nat \ {0} /\ Len(t) = Len(p) - 1
    BY <1>1, <1>6, HeadAndTail
  <2>2. \A i \in 1..(Len(p) - 1) : t[i] = p[i + 1]
    BY <1>1, <1>6, HeadAndTail
  <2>3. b \in Seq(Frame) /\ Len(b) = Len(t) /\ f \in Frame
    BY <1>2, <2>1 DEF BodyFrame, Frame
  <2>4. r \in Seq(Frame) /\ Len(r) = Len(b) + 1 /\ r[1] = f
    BY <2>3, ConsFacts
  <2>5. \A i \in 1..Len(b) : r[i + 1] = b[i]
    BY <2>3, ConsAt
  <2>6. \A i \in 1..Len(t) : b[i] = BodyFrame(t[i])
    BY DEF BodyFrames
  <2>7. l \in Seq(Frame) /\ Len(l) = Len(p) /\ \A i \in 1..Len(p) : l[i] = BodyFrame(p[i])
    BY <1>3, <1>4
  <2> HIDE DEF h, t, l, b, r
  <2>8. Len(l) = Len(r)
    BY <2>1, <2>3, <2>4, <2>7
  <2>9. ASSUME NEW i \in 1..Len(l) PROVE l[i] = r[i]
    <3>1. CASE i = 1
      BY <2>1, <2>4, <2>7, <3>1
    <3>2. CASE i # 1
      <4>1. PICK j \in 1..(Len(p) - 1) : i = j + 1
        <5>1. i - 1 \in 1..(Len(p) - 1) /\ i = (i - 1) + 1
          BY <2>1, <2>7, <3>2
        <5> QED
          BY <5>1
      <4>2. j \in 1..Len(b) /\ j \in 1..Len(t)
        BY <2>1, <2>3, <4>1
      <4>3. r[i] = b[j] /\ b[j] = BodyFrame(t[j]) /\ t[j] = p[i] /\ l[i] = BodyFrame(p[i])
        BY <2>2, <2>5, <2>6, <2>7, <4>1, <4>2
      <4> QED
        BY <4>3
    <3> QED
      BY <3>1, <3>2
  <2>10. l = r
    BY <2>4, <2>7, <2>8, <2>9, SeqEqual
  <2> QED
    BY <2>10 DEF l, r, b, t, h
<1> QED
  BY <1>3, <1>4, <1>5, <1>6

(* The frames of an event are its method frame and its content.             *)
LEMMA PacketFacts ==
    /\ Packet \in Maps(Event, Frame)
    /\ \A e \in Event : Packet[e] = Cons(method(e), Content(e)) /\ Content(e) \in Seq(Frame)
<1>1. ASSUME NEW e \in Event PROVE Content(e) \in Seq(Frame)
  <2>1. CASE e.kind \in Carriers
    <3>1. e.pieces \in Pieces /\ Header(e.size) \in Frame
      BY DEF Event, Header, Frame
    <3>2. BodyFrames(e.pieces) \in Seq(Frame)
      BY <3>1, BodyFramesFacts
    <3> QED
      BY <2>1, <3>1, <3>2, ConsFacts DEF Content
  <2>2. CASE e.kind \notin Carriers
    BY <2>2, EmptySeq DEF Content
  <2> QED
    BY <2>1, <2>2
<1>2. ASSUME NEW e \in Event PROVE Cons(method(e), Content(e)) \in Seq(Frame)
  BY <1>1, MethodFacts, ConsFacts
<1> QED
  BY <1>1, <1>2 DEF Packet, Maps

-----------------------------------------------------------------------------
(* The frames on their way to the client: what is left of the message that  *)
(* it is receiving, and the packets of the events that it has not seen.     *)
Stream(E, rest, d) == d = Cat(rest, Flat(Packet, E))

(* An event that the server adds.                                           *)
LEMMA StreamAppend ==
    ASSUME NEW E \in Seq(Event), NEW rest \in Seq(Frame), NEW d, Stream(E, rest, d), NEW e \in Event
    PROVE  Stream(Append(E, e), rest, Cat(d, Packet[e]))
<1> DEFINE a == Flat(Packet, E)
           p == Packet[e]
<1>1. a \in Seq(Frame) /\ p \in Seq(Frame) /\ Flat(Packet, Append(E, e)) = Cat(a, p)
  <2>1. Packet \in Maps(Event, Frame)
    BY PacketFacts
  <2>2. p \in Seq(Frame)
    BY <2>1 DEF Maps
  <2> QED
    BY <2>1, <2>2, EachType, FlatAppend
<1> HIDE DEF a, p
<1>2. Cat(Cat(rest, a), p) = Cat(rest, Cat(a, p))
  BY <1>1, CatAssociative
<1> QED
  BY <1>1, <1>2 DEF Stream, a, p

(* The client takes a frame of the message that it is receiving.            *)
LEMMA StreamInside ==
    ASSUME NEW E \in Seq(Event), NEW rest \in Seq(Frame), NEW d, Stream(E, rest, d), rest # <<>>
    PROVE  Head(d) = Head(rest) /\ Stream(E, Tail(rest), Tail(d))
<1> DEFINE a == Flat(Packet, E)
           h == Head(rest)
           t == Tail(rest)
<1>1. a \in Seq(Frame)
  BY PacketFacts, EachType
<1>2. h \in Frame /\ t \in Seq(Frame) /\ rest = Cons(h, t)
  BY HeadAndTail
<1> HIDE DEF a, h, t
<1>4. d = Cat(Cons(h, t), a)
  BY <1>2 DEF Stream, a
<1>5. h \in Frame /\ t \in Seq(Frame)
  BY <1>2
<1>6. Pops(d, h, Cat(t, a))
  BY <1>1, <1>4, <1>5, ConsInFront
<1> QED
  BY <1>6 DEF Stream, a, h, t, Pops

(* The client takes the first frame of an event.                            *)
LEMMA StreamNext ==
    ASSUME NEW E \in Seq(Event), NEW d, Stream(E, <<>>, d), d # <<>>
    PROVE  /\ E # <<>> /\ Head(d) = method(Head(E))
           /\ Stream(Tail(E), Content(Head(E)), Tail(d))
<1>1. d = Flat(Packet, E)
  <2>1. Flat(Packet, E) \in Seq(Frame)
    BY PacketFacts, EachType
  <2> QED
    BY <2>1, CatFacts DEF Stream
<1>2. E # <<>>
  BY <1>1, FlatEmpty
<1> DEFINE e == Head(E)
           F == Tail(E)
           a == Flat(Packet, F)
           m == method(e)
           c == Content(e)
<1>3. e \in Event /\ F \in Seq(Event) /\ E = Cons(e, F)
  BY <1>2, HeadAndTail
<1> HIDE DEF e, F
<1>4. a \in Seq(Frame) /\ m \in Frame /\ c \in Seq(Frame) /\ Packet[e] = Cons(m, c)
  BY <1>3, PacketFacts, MethodFacts, EachType
<1>5. d = Cat(Packet[e], a)
  BY <1>1, <1>3, PacketFacts, FlatCons
<1> HIDE DEF a, m, c
<1>6. d = Cat(Cons(m, c), a)
  BY <1>4, <1>5
<1>7. Pops(d, m, Cat(c, a))
  BY <1>4, <1>6, ConsInFront
<1> QED
  BY <1>2, <1>7 DEF Stream, a, m, c, e, F, Pops

-----------------------------------------------------------------------------
(* Who waits for an answer: the deferreds of the chain are those of the     *)
(* replies on their way, followed by those of the requests on their way.    *)
Asking == [type : {"consume", "cancel", "get"}, tag : Tags \union {None}, object : Nat]
Publishing == [type : {"publish"}, id : Nat, size : Nat, pieces : Pieces]
Requests == Asking \union Publishing
Waiting == [type : {"consume", "cancel", "get"}, object : Nat]

One(x) == <<x>>
Answers == [e \in Event |-> IF e.kind \in Replies THEN One(e.object) ELSE <<>>]
Asks == [r \in Requests |-> IF r.type = "publish" THEN <<>> ELSE One(r.object)]
Waits == [c \in Waiting |-> One(c.object)]
Askers(E, u, ch) == Cat(Flat(Answers, E), Flat(Asks, u)) = Flat(Waits, ch)

(* The sequences that Askers compares are sequences of objects.             *)
LEMMA AskersTypes ==
    /\ Answers \in Maps(Event, Nat) /\ Asks \in Maps(Requests, Nat) /\ Waits \in Maps(Waiting, Nat)
    /\ \A E \in Seq(Event) : Flat(Answers, E) \in Seq(Nat)
    /\ \A u \in Seq(Requests) : Flat(Asks, u) \in Seq(Nat)
    /\ \A ch \in Seq(Waiting) : Flat(Waits, ch) \in Seq(Nat)
<1>1. \A n \in Nat : One(n) \in Seq(Nat)
  BY DEF One
<1>2. <<>> \in Seq(Nat)
  BY EmptySeq
<1>3. \A e \in Event : e.object \in Nat
  BY DEF Event
<1>4. \A r \in Requests : r.type # "publish" => r.object \in Nat
  BY DEF Requests, Asking, Publishing
<1>5. \A c \in Waiting : c.object \in Nat
  BY DEF Waiting
<1>6. Answers \in Maps(Event, Nat)
  BY <1>1, <1>2, <1>3 DEF Answers, Maps
<1>7. Asks \in Maps(Requests, Nat)
  BY <1>1, <1>2, <1>4 DEF Asks, Maps
<1>8. Waits \in Maps(Waiting, Nat)
  BY <1>1, <1>5 DEF Waits, Maps
<1> QED
  BY <1>6, <1>7, <1>8, EachType

(* What each event, request and deferred contributes.                       *)
LEMMA AskersValues ==
    /\ \A e \in Event : Answers[e] = IF e.kind \in Replies THEN One(e.object) ELSE <<>>
    /\ \A r \in Requests : Asks[r] = IF r.type = "publish" THEN <<>> ELSE One(r.object)
    /\ \A c \in Waiting : Waits[c] = One(c.object)
    /\ \A e \in Event : Answers[e] \in Seq(Nat)
    /\ \A r \in Requests : Asks[r] \in Seq(Nat)
<1>1. /\ \A e \in Event : Answers[e] = IF e.kind \in Replies THEN One(e.object) ELSE <<>>
      /\ \A r \in Requests : Asks[r] = IF r.type = "publish" THEN <<>> ELSE One(r.object)
      /\ \A c \in Waiting : Waits[c] = One(c.object)
  BY DEF Answers, Asks, Waits
<1>2. (\A e \in Event : Answers[e] \in Seq(Nat)) /\ \A r \in Requests : Asks[r] \in Seq(Nat)
  BY AskersTypes DEF Maps
<1> QED
  BY <1>1, <1>2

(* Cons and the sequence of one element.                                    *)
LEMMA OneInFront ==
    ASSUME NEW X, NEW x \in X, NEW s \in Seq(X)
    PROVE  Cat(One(x), s) = Cons(x, s)
BY DEF Cat, One, Cons

(* The application calls: the last in the chain is the last request.        *)
LEMMA AskersCall ==
    ASSUME NEW E \in Seq(Event), NEW u \in Seq(Requests), NEW ch \in Seq(Waiting),
           Askers(E, u, ch), NEW r \in Asking, NEW c \in Waiting, c.object = r.object
    PROVE  Askers(E, Append(u, r), Append(ch, c))
<1> DEFINE a == Flat(Answers, E)
           b == Flat(Asks, u)
           w == Flat(Waits, ch)
           o == One(r.object)
<1>1. a \in Seq(Nat) /\ b \in Seq(Nat) /\ w \in Seq(Nat) /\ Cat(a, b) = w
  BY AskersTypes DEF Askers
<1>2. r \in Requests /\ r.type # "publish" /\ r.object \in Nat
  BY DEF Requests, Asking
<1>3. Asks[r] = o /\ Waits[c] = o /\ o \in Seq(Nat)
  BY <1>2, AskersValues
<1>4. Flat(Asks, Append(u, r)) = Cat(b, o)
  BY <1>2, <1>3, AskersTypes, FlatAppend
<1>5. Flat(Waits, Append(ch, c)) = Cat(w, o)
  BY <1>3, AskersTypes, FlatAppend
<1> HIDE DEF a, b, w, o
<1>6. Cat(Cat(a, b), o) = Cat(a, Cat(b, o))
  BY <1>1, <1>3, CatAssociative
<1> QED
  BY <1>1, <1>4, <1>5, <1>6 DEF Askers, a

(* A message that is published makes nobody wait.                           *)
LEMMA AskersPublish ==
    ASSUME NEW E \in Seq(Event), NEW u \in Seq(Requests), NEW ch \in Seq(Waiting),
           Askers(E, u, ch), NEW r \in Publishing
    PROVE  Askers(E, Append(u, r), ch)
<1> DEFINE b == Flat(Asks, u)
<1>1. b \in Seq(Nat) /\ r \in Requests /\ r.type = "publish"
  BY AskersTypes DEF Requests, Publishing
<1>2. Asks[r] = <<>>
  BY <1>1, AskersValues
<1>3. Flat(Asks, Append(u, r)) = Cat(b, <<>>)
  BY <1>1, <1>2, AskersTypes, FlatAppend
<1> HIDE DEF b
<1>4. Cat(b, <<>>) = b
  BY <1>1, CatFacts
<1> QED
  BY <1>3, <1>4 DEF Askers, b

(* The server takes a request and sends what answers it.                    *)
LEMMA AskersAnswer ==
    ASSUME NEW E \in Seq(Event), NEW u \in Seq(Requests), NEW ch \in Seq(Waiting),
           Askers(E, u, ch), u # <<>>, NEW e \in Event, Answers[e] = Asks[Head(u)]
    PROVE  Askers(Append(E, e), Tail(u), ch)
<1> DEFINE r == Head(u)
           v == Tail(u)
           a == Flat(Answers, E)
           b == Flat(Asks, v)
           o == Asks[r]
<1>1. r \in Requests /\ v \in Seq(Requests) /\ u = Cons(r, v)
  BY HeadAndTail
<1> HIDE DEF r, v
<1>2. a \in Seq(Nat) /\ b \in Seq(Nat) /\ o \in Seq(Nat)
  BY <1>1, AskersTypes, AskersValues
<1>3. Flat(Asks, u) = Cat(o, b)
  BY <1>1, AskersTypes, FlatCons
<1>4. Flat(Answers, Append(E, e)) = Cat(a, o)
  BY AskersTypes, FlatAppend DEF r
<1> HIDE DEF a, b, o
<1>5. Cat(Cat(a, o), b) = Cat(a, Cat(o, b))
  BY <1>2, CatAssociative
<1> QED
  BY <1>3, <1>4, <1>5 DEF Askers, a, b, v

(* The server takes a message, which nobody waits for.                      *)
LEMMA AskersTake ==
    ASSUME NEW E \in Seq(Event), NEW u \in Seq(Requests), NEW ch \in Seq(Waiting),
           Askers(E, u, ch), u # <<>>, Asks[Head(u)] = <<>>
    PROVE  Askers(E, Tail(u), ch)
<1> DEFINE r == Head(u)
           v == Tail(u)
           b == Flat(Asks, v)
<1>1. r \in Requests /\ v \in Seq(Requests) /\ u = Cons(r, v)
  BY HeadAndTail
<1>2. Asks[r] = <<>>
  OBVIOUS
<1> HIDE DEF r, v
<1>3. b \in Seq(Nat)
  BY <1>1, AskersTypes
<1>4. Flat(Asks, u) = Cat(<<>>, b)
  BY <1>1, <1>2, AskersTypes, FlatCons
<1>5. Cat(<<>>, b) = b
  BY <1>3, CatFacts
<1> QED
  BY <1>4, <1>5 DEF Askers, v

(* The server sends what nobody waits for.                                  *)
LEMMA AskersSend ==
    ASSUME NEW E \in Seq(Event), NEW u, NEW ch, Askers(E, u, ch), NEW e \in Event, Answers[e] = <<>>
    PROVE  Askers(Append(E, e), u, ch)
<1> DEFINE a == Flat(Answers, E)
<1>1. a \in Seq(Nat) /\ Flat(Answers, Append(E, e)) = Cat(a, <<>>)
  BY AskersTypes, FlatAppend
<1> HIDE DEF a
<1>2. Cat(a, <<>>) = a
  BY <1>1, CatFacts
<1> QED
  BY <1>1, <1>2 DEF Askers, a

(* The client takes a reply: it is for the first in the chain.              *)
LEMMA AskersReply ==
    ASSUME NEW E \in Seq(Event), NEW u \in Seq(Requests), NEW ch \in Seq(Waiting),
           Askers(E, u, ch), E # <<>>, Head(E).kind \in Replies
    PROVE  ch # <<>> /\ Head(ch).object = Head(E).object /\ Askers(Tail(E), u, Tail(ch))
<1> DEFINE e == Head(E)
           F == Tail(E)
           a == Flat(Answers, F)
           b == Flat(Asks, u)
           n == e.object
           w == Flat(Waits, ch)
<1>1. e \in Event /\ F \in Seq(Event) /\ E = Cons(e, F) /\ e.kind \in Replies
  BY HeadAndTail
<1> HIDE DEF e, F
<1>2. a \in Seq(Nat) /\ b \in Seq(Nat) /\ n \in Nat /\ Answers[e] = One(n) /\ One(n) \in Seq(Nat)
  BY <1>1, AskersTypes, AskersValues DEF Event
<1>3. Flat(Answers, E) = Cat(One(n), a)
  BY <1>1, <1>2, AskersTypes, FlatCons
<1>4. w = Cat(Cat(One(n), a), b)
  BY <1>3 DEF Askers
<1> HIDE DEF a, b, n
<1>5. Cat(One(n), a) = Cons(n, a)
  BY <1>2, OneInFront
<1>6. Pops(w, n, Cat(a, b))
  BY <1>2, <1>4, <1>5, ConsInFront
<1>7. ch # <<>>
  <2>1. w # <<>>
    BY <1>6 DEF Pops
  <2> QED
    BY <2>1, FlatEmpty
<1> DEFINE c == Head(ch)
           d == Tail(ch)
           y == Flat(Waits, d)
           m == c.object
<1>8. c \in Waiting /\ d \in Seq(Waiting) /\ ch = Cons(c, d)
  BY <1>7, HeadAndTail
<1> HIDE DEF c, d
<1>9. y \in Seq(Nat) /\ m \in Nat /\ Waits[c] = One(m)
  BY <1>8, AskersTypes, AskersValues DEF Waiting
<1>10. w = Cat(One(m), y)
  BY <1>8, <1>9, AskersTypes, FlatCons
<1> HIDE DEF w, y, m
<1>11. w = Cons(m, y)
  BY <1>9, <1>10, OneInFront
<1>12. Head(w) = m /\ Tail(w) = y
  BY <1>9, <1>11, ConsFacts
<1>13. m = n /\ Cat(a, b) = y
  BY <1>6, <1>12 DEF Pops
<1> QED
  BY <1>7, <1>13 DEF Askers, a, b, y, m, n, c, d, e, F

(* The client takes something else.                                         *)
LEMMA AskersOther ==
    ASSUME NEW E \in Seq(Event), NEW u, NEW ch, Askers(E, u, ch), E # <<>>, Head(E).kind \notin Replies
    PROVE  Askers(Tail(E), u, ch)
<1> DEFINE e == Head(E)
           F == Tail(E)
           a == Flat(Answers, F)
<1>1. e \in Event /\ F \in Seq(Event) /\ E = Cons(e, F) /\ e.kind \notin Replies
  BY HeadAndTail
<1> HIDE DEF e, F
<1>2. a \in Seq(Nat) /\ Answers[e] = <<>>
  BY <1>1, AskersTypes, AskersValues
<1>3. Flat(Answers, E) = Cat(<<>>, a)
  BY <1>1, <1>2, AskersTypes, FlatCons
<1> HIDE DEF a
<1>4. Cat(<<>>, a) = a
  BY <1>2, CatFacts
<1> QED
  BY <1>3, <1>4 DEF Askers, a, F

-----------------------------------------------------------------------------
(* What the objects hear of: the messages for one of them that the server   *)
(* has sent are the ones that were handed over, the one that is being       *)
(* received, and the ones on their way.                                     *)
KnownType == [object : Nat, id : Nat]
GotType == [object : Nat, id : Nat, body : Bytes, data : Bytes]
Keep(m) == IF m.object = 0 THEN <<>> ELSE One(Known(m))
Kept(T) == [m \in T |-> Keep(m)]
Wish == [e \in Event |-> IF e.kind \in Carriers THEN Keep(e) ELSE <<>>]
Report(E, pend, g, s) == Wanted(s) = Cat(Cat(Wanted(g), pend), Flat(Wish, E))

(* What is kept of a message is at most its object and its number.          *)
LEMMA KeepType ==
    ASSUME NEW m, m.object \in Nat, m.id \in Nat
    PROVE  Keep(m) \in Seq(KnownType)
<1>1. Known(m) \in KnownType
  BY DEF Known, KnownType
<1>2. One(Known(m)) \in Seq(KnownType)
  BY <1>1 DEF One
<1> QED
  BY <1>2, EmptySeq DEF Keep

(* Wanted of one message more.                                              *)
LEMMA WantedFacts ==
    ASSUME NEW T, \A m \in T : m.object \in Nat /\ m.id \in Nat, NEW ms \in Seq(T), NEW m \in T
    PROVE  Wanted(ms) \in Seq(KnownType) /\ Wanted(Append(ms, m)) = Cat(Wanted(ms), Keep(m))
<1>1. Kept(T) \in Maps(T, KnownType)
  BY KeepType DEF Kept, Maps
<1>2. ASSUME NEW s \in Seq(T) PROVE Wanted(s) = Flat(Kept(T), s)
  <2>1. DOMAIN s = 1..Len(s) /\ \A i \in 1..Len(s) : s[i] \in T
    BY LenProperties, ElementOfSeq
  <2>2. \A i \in 1..Len(s) : Kept(T)[s[i]] = Keep(s[i])
    BY <2>1 DEF Kept
  <2>3. Each(Kept(T), s) = [i \in DOMAIN s |-> Keep(s[i])]
    BY <2>1, <2>2 DEF Each
  <2>4. Wanted(s) = FlattenSeq([i \in DOMAIN s |-> Keep(s[i])])
    BY DEF Wanted, Keep, One
  <2> QED
    BY <2>3, <2>4 DEF Flat
<1>3. Append(ms, m) \in Seq(T)
  BY AppendProperties
<1>4. Flat(Kept(T), Append(ms, m)) = Cat(Flat(Kept(T), ms), Kept(T)[m])
  BY <1>1, FlatAppend
<1>5. Kept(T)[m] = Keep(m)
  BY DEF Kept
<1>6. Flat(Kept(T), ms) \in Seq(KnownType)
  BY <1>1, EachType
<1> QED
  BY <1>2, <1>3, <1>4, <1>5, <1>6

(* Wanted of what was handed over and of what was sent.                     *)
LEMMA WantedTypes ==
    /\ \A s \in Seq(KnownType) : Wanted(s) \in Seq(KnownType)
    /\ \A g \in Seq(GotType) : Wanted(g) \in Seq(KnownType)
    /\ Wanted(<<>>) = <<>>
<1>1. ASSUME NEW s \in Seq(KnownType) PROVE Wanted(s) \in Seq(KnownType)
  <2>1. \A m \in KnownType : m.object \in Nat /\ m.id \in Nat
    BY DEF KnownType
  <2>2. [object |-> 0, id |-> 0] \in KnownType
    BY DEF KnownType
  <2> QED
    BY <2>1, <2>2, WantedFacts
<1>2. ASSUME NEW g \in Seq(GotType) PROVE Wanted(g) \in Seq(KnownType)
  <2>1. \A m \in GotType : m.object \in Nat /\ m.id \in Nat
    BY DEF GotType
  <2>2. [object |-> 0, id |-> 0, body |-> <<>>, data |-> <<>>] \in GotType
    BY EmptySeq DEF GotType, Bytes
  <2> QED
    BY <2>1, <2>2, WantedFacts
<1>3. Wanted(<<>>) = <<>>
  <2>1. DOMAIN <<>> = {}
    BY EmptySeq
  <2>2. [i \in DOMAIN <<>> |-> IF <<>>[i].object = 0 THEN <<>> ELSE <<Known(<<>>[i])>>] = <<>>
    BY <2>1
  <2> QED
    BY <2>2, FlattenEmpty DEF Wanted
<1> QED
  BY <1>1, <1>2, <1>3

(* What each event contributes.                                             *)
LEMMA WishFacts ==
    /\ Wish \in Maps(Event, KnownType)
    /\ \A e \in Event : Wish[e] = IF e.kind \in Carriers THEN Keep(e) ELSE <<>>
    /\ \A e \in Event : Wish[e] \in Seq(KnownType)
    /\ \A E \in Seq(Event) : Flat(Wish, E) \in Seq(KnownType)
<1>1. \A e \in Event : Keep(e) \in Seq(KnownType)
  <2>1. \A e \in Event : e.object \in Nat /\ e.id \in Nat
    BY DEF Event
  <2> QED
    BY <2>1, KeepType
<1>2. \A e \in Event : Wish[e] = IF e.kind \in Carriers THEN Keep(e) ELSE <<>>
  BY DEF Wish
<1>3. Wish \in Maps(Event, KnownType)
  BY <1>1, EmptySeq DEF Wish, Maps
<1>4. \A e \in Event : Wish[e] \in Seq(KnownType)
  BY <1>3 DEF Maps
<1> QED
  BY <1>2, <1>3, <1>4, EachType

(* The server sends a message.                                              *)
LEMMA ReportSend ==
    ASSUME NEW E \in Seq(Event), NEW pend \in Seq(KnownType), NEW g \in Seq(GotType),
           NEW s \in Seq(KnownType), Report(E, pend, g, s),
           NEW e \in Event, NEW k \in KnownType, Wish[e] = Keep(k)
    PROVE  Report(Append(E, e), pend, g, Append(s, k))
<1> DEFINE a == Cat(Wanted(g), pend)
           f == Flat(Wish, E)
           o == Keep(k)
<1>1. Wanted(g) \in Seq(KnownType)
  BY WantedTypes
<1>2. a \in Seq(KnownType) /\ f \in Seq(KnownType) /\ o \in Seq(KnownType)
  BY <1>1, CatFacts, WishFacts
<1>3. Wanted(Append(s, k)) = Cat(Wanted(s), o)
  <2>1. \A m \in KnownType : m.object \in Nat /\ m.id \in Nat
    BY DEF KnownType
  <2> QED
    BY <2>1, WantedFacts
<1>4. Flat(Wish, Append(E, e)) = Cat(f, o)
  BY WishFacts, FlatAppend
<1>5. Wanted(s) = Cat(a, f)
  BY DEF Report
<1> HIDE DEF a, f, o
<1>6. Cat(Cat(a, f), o) = Cat(a, Cat(f, o))
  BY <1>2, CatAssociative
<1> QED
  BY <1>3, <1>4, <1>5, <1>6 DEF Report, a

(* The server sends something else.                                         *)
LEMMA ReportOther ==
    ASSUME NEW E \in Seq(Event), NEW pend, NEW g, NEW s, Report(E, pend, g, s),
           NEW e \in Event, Wish[e] = <<>>
    PROVE  Report(Append(E, e), pend, g, s)
<1> DEFINE f == Flat(Wish, E)
<1>1. f \in Seq(KnownType) /\ Flat(Wish, Append(E, e)) = Cat(f, <<>>)
  BY WishFacts, FlatAppend
<1> HIDE DEF f
<1>2. Cat(f, <<>>) = f
  BY <1>1, CatFacts
<1> QED
  BY <1>1, <1>2 DEF Report, f

(* The client takes the first frame of an event.                            *)
LEMMA ReportNext ==
    ASSUME NEW E \in Seq(Event), NEW g \in Seq(GotType), NEW s, Report(E, <<>>, g, s), E # <<>>
    PROVE  Report(Tail(E), Wish[Head(E)], g, s)
<1> DEFINE e == Head(E)
           F == Tail(E)
           f == Flat(Wish, F)
           a == Wanted(g)
           o == Wish[e]
<1>1. e \in Event /\ F \in Seq(Event) /\ E = Cons(e, F)
  BY HeadAndTail
<1> HIDE DEF e, F
<1>2. a \in Seq(KnownType) /\ f \in Seq(KnownType) /\ o \in Seq(KnownType)
  BY <1>1, WantedTypes, WishFacts
<1>3. Flat(Wish, E) = Cat(o, f)
  BY <1>1, WishFacts, FlatCons
<1> HIDE DEF f, a, o
<1>4. Cat(a, <<>>) = a /\ Cat(Cat(a, o), f) = Cat(a, Cat(o, f))
  BY <1>2, CatFacts, CatAssociative
<1> QED
  BY <1>3, <1>4 DEF Report, f, a, o, e, F

(* The message that is received is handed over.                             *)
LEMMA ReportComplete ==
    ASSUME NEW E, NEW g \in Seq(GotType), NEW m \in GotType, NEW s, Report(E, Keep(m), g, s)
    PROVE  Report(E, <<>>, Append(g, m), s)
<1> DEFINE a == Wanted(g)
           b == Wanted(Append(g, m))
           o == Keep(m)
<1>1. \A x \in GotType : x.object \in Nat /\ x.id \in Nat
  BY DEF GotType
<1>2. a \in Seq(KnownType) /\ b = Cat(a, o) /\ o \in Seq(KnownType)
  BY <1>1, WantedFacts, KeepType
<1>3. Cat(a, o) \in Seq(KnownType)
  BY <1>2, CatFacts
<1> HIDE DEF a, b, o
<1>4. Cat(b, <<>>) = b
  BY <1>2, <1>3, CatFacts
<1> QED
  BY <1>2, <1>4 DEF Report, a, b, o

(* What has been handed over is the first part of what was sent, and all of *)
(* it when nothing is on its way.                                           *)
LEMMA ReportPrefix ==
    ASSUME NEW E \in Seq(Event), NEW pend \in Seq(KnownType), NEW g \in Seq(GotType),
           NEW s \in Seq(KnownType), Report(E, pend, g, s)
    PROVE  /\ IsPrefix(Wanted(g), Wanted(s))
           /\ E = <<>> /\ pend = <<>> => Wanted(g) = Wanted(s)
<1> DEFINE a == Wanted(g)
           f == Flat(Wish, E)
           t == Cat(pend, f)
           w == Wanted(s)
<1>1. a \in Seq(KnownType) /\ f \in Seq(KnownType) /\ w \in Seq(KnownType)
  BY WantedTypes, WishFacts
<1>2. w = Cat(Cat(a, pend), f)
  BY DEF Report
<1>3. E = <<>> => f = <<>>
  BY FlatEmpty
<1> HIDE DEF a, f, w
<1>4. w = Cat(a, t) /\ t \in Seq(KnownType)
  BY <1>1, <1>2, CatAssociative, CatFacts
<1>5. Cat(a, <<>>) = a /\ Cat(<<>>, <<>>) = <<>>
  BY <1>1, CatFacts, EmptySeq
<1> HIDE DEF t
<1>6. Leading(w, Len(a)) = a
  BY <1>1, <1>4, LeadingConcat DEF Cat
<1>7. Len(a) <= Len(w)
  <2>1. Len(a \o t) = Len(a) + Len(t)
    BY <1>1, <1>4, ConcatProperties
  <2>2. Len(a) \in Nat /\ Len(t) \in Nat
    BY <1>1, <1>4, LenProperties
  <2> QED
    BY <1>4, <2>1, <2>2 DEF Cat
<1>8. IsPrefix(a, w)
  <2>1. SubSeq(w, 1, Len(a)) = a
    BY <1>6 DEF Leading
  <2> QED
    BY <1>7, <2>1 DEF IsPrefix
<1> QED
  BY <1>2, <1>3, <1>5, <1>8 DEF a, w

-----------------------------------------------------------------------------
(* What the server knows of the consumers: from what the client knows, by   *)
(* the events on their way.                                                 *)
Effect(e, t) ==
    IF e.kind = "consume-ok" THEN [t EXCEPT ![e.tag] = e.object]
    ELSE IF e.kind \in Changes THEN [t EXCEPT ![e.tag] = None]
    ELSE t
Legal(e, t) == e.table = Effect(e, t) /\ (e.kind = "deliver" => t[e.tag] = e.object)
Before(E, c, i) == IF i = 1 THEN c ELSE E[i - 1].table
Linked(E, c, s) ==
    /\ \A i \in 1..Len(E) : Legal(E[i], Before(E, c, i))
    /\ s = Before(E, c, Len(E) + 1)

(* An event that the server adds.                                           *)
LEMMA LinkedAppend ==
    ASSUME NEW E \in Seq(Event), NEW c, NEW s, Linked(E, c, s), NEW e \in Event, Legal(e, s)
    PROVE  Linked(Append(E, e), c, e.table)
<1> DEFINE n == Len(E)
           A == Append(E, e)
<1>1. n \in Nat /\ Len(A) = n + 1 /\ (\A i \in 1..n : A[i] = E[i]) /\ A[n + 1] = e
  BY LenProperties, AppendProperties
<1>2. (\A i \in 1..n : Legal(E[i], Before(E, c, i))) /\ s = Before(E, c, n + 1)
  BY DEF Linked
<1> HIDE DEF n, A
<1>3. ASSUME NEW i \in 1..(n + 1) PROVE Before(A, c, i) = Before(E, c, i)
  <2>1. CASE i = 1
    BY <2>1 DEF Before
  <2>2. CASE i # 1
    <3>1. i - 1 \in 1..n
      BY <1>1, <2>2
    <3> QED
      BY <1>1, <2>2, <3>1 DEF Before
  <2> QED
    BY <2>1, <2>2
<1>4. ASSUME NEW i \in 1..(n + 1) PROVE Legal(A[i], Before(A, c, i))
  <2>1. CASE i = n + 1
    BY <1>1, <1>2, <1>3, <2>1
  <2>2. CASE i # n + 1
    <3>1. i \in 1..n
      BY <1>1, <2>2
    <3> QED
      BY <1>1, <1>2, <1>3, <3>1
  <2> QED
    BY <2>1, <2>2
<1>5. Before(A, c, n + 1 + 1) = e.table
  BY <1>1 DEF Before
<1> QED
  BY <1>1, <1>4, <1>5 DEF Linked, A

(* The client has seen the first event.                                     *)
LEMMA LinkedNext ==
    ASSUME NEW E \in Seq(Event), NEW c, NEW s, Linked(E, c, s), E # <<>>
    PROVE  Legal(Head(E), c) /\ Linked(Tail(E), Head(E).table, s)
<1> DEFINE n == Len(E)
           e == Head(E)
           F == Tail(E)
           m == Len(F)
<1>1. n \in Nat \ {0} /\ m = n - 1 /\ e = E[1] /\ \A i \in 1..(n - 1) : F[i] = E[i + 1]
  BY HeadAndTail
<1>2. (\A i \in 1..n : Legal(E[i], Before(E, c, i))) /\ s = Before(E, c, n + 1)
  BY DEF Linked
<1> HIDE DEF n, e, F, m
<1>3. Legal(e, c)
  BY <1>1, <1>2 DEF Before
<1>4. ASSUME NEW i \in 1..n PROVE Before(F, e.table, i) = Before(E, c, i + 1)
  <2>1. CASE i = 1
    BY <1>1, <2>1 DEF Before
  <2>2. CASE i # 1
    <3>1. i - 1 \in 1..(n - 1) /\ (i - 1) + 1 = i /\ i + 1 # 1 /\ (i + 1) - 1 = i
      BY <1>1, <2>2
    <3>2. F[i - 1] = E[i]
      BY <1>1, <3>1
    <3> QED
      BY <2>2, <3>1, <3>2 DEF Before
  <2> QED
    BY <2>1, <2>2
<1>5. ASSUME NEW i \in 1..m PROVE Legal(F[i], Before(F, e.table, i))
  <2>1. i \in 1..n /\ i + 1 \in 1..n /\ i \in 1..(n - 1)
    BY <1>1
  <2> QED
    BY <1>1, <1>2, <1>4, <2>1
<1>6. s = Before(F, e.table, m + 1)
  <2>1. m + 1 = n /\ n \in 1..n
    BY <1>1
  <2> QED
    BY <1>2, <1>4, <2>1
<1> QED
  BY <1>3, <1>5, <1>6 DEF Linked, m, e, F

-----------------------------------------------------------------------------
(* Messages, requests and events that speak of bodies that were published,  *)
(* of calls that were made and of messages that were sent.                  *)
Published(id, size, bs) == id \in 1..Len(bs) /\ bs[id] = size /\ size \in Sizes
Occurs(s, o, id) == \E j \in 1..Len(s) : s[j] = [object |-> o, id |-> id]
GoodTables(n) == [Tags -> {None} \union 1..n]
GoodWaiters(n) == {c \in Waiting : c.object \in 1..n}
GoodRequests(bs, n) ==
    {r \in Requests :
        /\ r.type = "publish" => Published(r.id, r.size, bs) /\ FlattenSeq(r.pieces) = Body(r.size)
        /\ r.type # "publish" => r.object \in 1..n
        /\ r.type \in {"consume", "cancel"} => r.tag \in Tags}
GoodMessages(bs) ==
    {m \in [id : Nat, size : Nat, body : Bytes] :
        Published(m.id, m.size, bs) /\ m.body = Body(m.size)}
GoodGot(bs, s) ==
    {m \in GotType :
        /\ m.id \in 1..Len(bs) /\ m.body = Body(bs[m.id]) /\ m.data = m.body
        /\ Occurs(s, m.object, m.id)}
GoodEvents(bs, s, n) ==
    {e \in Event :
        /\ e.object \in 0..n
        /\ e.kind \in Changes \union {"deliver"} => e.tag \in Tags
        /\ e.kind = "return" => e.object = 0
        /\ e.kind \in Carriers =>
             /\ Published(e.id, e.size, bs) /\ FlattenSeq(e.pieces) = Body(e.size)
             /\ Occurs(s, e.object, e.id)}

(* They still do when more has been published, called or sent.              *)
LEMMA SeqGrows ==
    ASSUME NEW S, NEW T, S \subseteq T
    PROVE  Seq(S) \subseteq Seq(T)
BY SeqDef

(* Messages stay published.                                                 *)
LEMMA PublishedGrows ==
    ASSUME NEW bs \in Seq(Sizes), NEW x \in Sizes, NEW id, NEW size, Published(id, size, bs)
    PROVE  Published(id, size, Append(bs, x))
<1>1. /\ Len(bs) \in Nat /\ Len(Append(bs, x)) = Len(bs) + 1
      /\ \A i \in 1..Len(bs) : Append(bs, x)[i] = bs[i]
  BY LenProperties, AppendProperties
<1> QED
  BY <1>1 DEF Published

(* Messages stay sent.                                                      *)
LEMMA OccursGrows ==
    ASSUME NEW s \in Seq(KnownType), NEW k \in KnownType, NEW o, NEW id, Occurs(s, o, id)
    PROVE  Occurs(Append(s, k), o, id)
<1>1. /\ Len(s) \in Nat /\ Len(Append(s, k)) = Len(s) + 1
      /\ \A i \in 1..Len(s) : Append(s, k)[i] = s[i]
  BY LenProperties, AppendProperties
<1> QED
  BY <1>1 DEF Occurs

(* A message that is sent now was sent.                                     *)
LEMMA OccursLast ==
    ASSUME NEW s \in Seq(KnownType), NEW o \in Nat, NEW id \in Nat
    PROVE  Occurs(Append(s, [object |-> o, id |-> id]), o, id)
<1> DEFINE k == [object |-> o, id |-> id]
           a == Append(s, k)
<1>1. k \in KnownType
  BY DEF KnownType
<1> HIDE DEF k
<1>2. Len(s) \in Nat /\ Len(a) = Len(s) + 1 /\ a[Len(s) + 1] = k
  BY <1>1, LenProperties, AppendProperties
<1> HIDE DEF a
<1>3. Len(s) + 1 \in 1..Len(a)
  BY <1>2
<1> QED
  BY <1>2, <1>3 DEF Occurs, k, a

(* All of it stays good when a message is published.                        *)
LEMMA GrowsByPublish ==
    ASSUME NEW bs \in Seq(Sizes), NEW x \in Sizes, NEW s, NEW n
    PROVE  LET c == Append(bs, x)
           IN  /\ GoodRequests(bs, n) \subseteq GoodRequests(c, n)
               /\ GoodMessages(bs) \subseteq GoodMessages(c)
               /\ GoodGot(bs, s) \subseteq GoodGot(c, s)
               /\ GoodEvents(bs, s, n) \subseteq GoodEvents(c, s, n)
<1> DEFINE c == Append(bs, x)
<1>1. \A id, size : Published(id, size, bs) => Published(id, size, c)
  BY PublishedGrows
<1>2. /\ Len(bs) \in Nat /\ Len(c) = Len(bs) + 1
      /\ \A i \in 1..Len(bs) : c[i] = bs[i]
  BY LenProperties, AppendProperties
<1> HIDE DEF c
<1>3. GoodGot(bs, s) \subseteq GoodGot(c, s)
  <2>1. \A i \in 1..Len(bs) : i \in 1..Len(c) /\ c[i] = bs[i]
    BY <1>2
  <2> QED
    BY <2>1 DEF GoodGot
<1>4. GoodRequests(bs, n) \subseteq GoodRequests(c, n)
  BY <1>1 DEF GoodRequests
<1>5. GoodMessages(bs) \subseteq GoodMessages(c)
  BY <1>1 DEF GoodMessages
<1>6. GoodEvents(bs, s, n) \subseteq GoodEvents(c, s, n)
  BY <1>1 DEF GoodEvents
<1> QED
  BY <1>3, <1>4, <1>5, <1>6 DEF c

(* All of it stays good when a call is made.                                *)
LEMMA GrowsByCall ==
    ASSUME NEW bs, NEW s, NEW n \in Nat
    PROVE  /\ GoodTables(n) \subseteq GoodTables(n + 1)
           /\ GoodWaiters(n) \subseteq GoodWaiters(n + 1)
           /\ GoodRequests(bs, n) \subseteq GoodRequests(bs, n + 1)
           /\ GoodEvents(bs, s, n) \subseteq GoodEvents(bs, s, n + 1)
<1>1. 1..n \subseteq 1..(n + 1) /\ 0..n \subseteq 0..(n + 1)
  OBVIOUS
<1>2. GoodTables(n) \subseteq GoodTables(n + 1)
  BY <1>1 DEF GoodTables
<1>3. GoodWaiters(n) \subseteq GoodWaiters(n + 1)
  BY <1>1 DEF GoodWaiters
<1>4. GoodRequests(bs, n) \subseteq GoodRequests(bs, n + 1)
  BY <1>1 DEF GoodRequests
<1>5. GoodEvents(bs, s, n) \subseteq GoodEvents(bs, s, n + 1)
  BY <1>1 DEF GoodEvents
<1> QED
  BY <1>2, <1>3, <1>4, <1>5

(* All of it stays good when a message is sent.                             *)
LEMMA GrowsBySend ==
    ASSUME NEW bs, NEW s \in Seq(KnownType), NEW k \in KnownType, NEW n
    PROVE  /\ GoodGot(bs, s) \subseteq GoodGot(bs, Append(s, k))
           /\ GoodEvents(bs, s, n) \subseteq GoodEvents(bs, Append(s, k), n)
<1>1. \A o, id : Occurs(s, o, id) => Occurs(Append(s, k), o, id)
  BY OccursGrows
<1>2. GoodGot(bs, s) \subseteq GoodGot(bs, Append(s, k))
  BY <1>1 DEF GoodGot
<1>3. GoodEvents(bs, s, n) \subseteq GoodEvents(bs, Append(s, k), n)
  BY <1>1 DEF GoodEvents
<1> QED
  BY <1>2, <1>3

-----------------------------------------------------------------------------
(* The message that the client is receiving.                                *)
Message == [id : Nat, size : Nat, body : Bytes]
ObjectType == [bodySize : Nat, message : Message, data : Bytes]
Objects == [0..MaxCalls -> ObjectType]
Quiet(x) == x.bodySize = 0 /\ x.message = NoMessage
OthersQuiet(ob, o) == \A p \in 0..MaxCalls : p # o => Quiet(ob[p])

(* No message for an object: the rest of one for nobody may be on its way.  *)
Idle(rest, pend, r, ob) ==
    /\ r = None /\ pend = <<>>
    /\ \A p \in 0..MaxCalls : Quiet(ob[p])
    /\ \A i \in 1..Len(rest) : rest[i].type \in {"header", "body"}

(* The object has been told of the message, the header is on its way.       *)
Starting(rest, x, id, size, p) ==
    /\ x.bodySize = 0 /\ x.message = [id |-> id, size |-> 0, body |-> <<>>] /\ x.data = <<>>
    /\ rest = Cons(Header(size), BodyFrames(p))
    /\ FlattenSeq(p) = Body(size)

(* The header has been seen, some of the pieces are on their way.           *)
Filling(rest, x, id, size, p) ==
    /\ x.bodySize = Len(FlattenSeq(p)) /\ x.message = [id |-> id, size |-> size, body |-> x.data]
    /\ rest = BodyFrames(p) /\ p # <<>>
    /\ Cat(x.data, FlattenSeq(p)) = Body(size)

Receiving(rest, pend, r, ob, bs, s, n) ==
    \E id \in Nat, size \in Nat, p \in Pieces :
        /\ r \in 0..n /\ OthersQuiet(ob, r)
        /\ Published(id, size, bs) /\ Occurs(s, r, id)
        /\ pend = Keep([object |-> r, id |-> id])
        /\ Starting(rest, ob[r], id, size, p) \/ Filling(rest, ob[r], id, size, p)

Current(rest, pend, r, ob, bs, s, n) ==
    Idle(rest, pend, r, ob) \/ Receiving(rest, pend, r, ob, bs, s, n)

(* What is left of a message begins with its header or with a piece.        *)
LEMMA FirstOfRest ==
    ASSUME NEW x, NEW id, NEW size \in Nat, NEW p \in Pieces, NEW rest
    PROVE  /\ Starting(rest, x, id, size, p) => Pops(rest, Header(size), BodyFrames(p))
           /\ Filling(rest, x, id, size, p) => Pops(rest, BodyFrame(Head(p)), BodyFrames(Tail(p)))
<1>1. BodyFrames(p) \in Seq(Frame) /\ Header(size) \in Frame
  BY BodyFramesFacts DEF Header, Frame
<1>2. Pops(Cons(Header(size), BodyFrames(p)), Header(size), BodyFrames(p))
  BY <1>1, ConsPops
<1>3. ASSUME p # <<>>
      PROVE  Pops(BodyFrames(p), BodyFrame(Head(p)), BodyFrames(Tail(p)))
  <2>1. Head(p) \in Bytes /\ Tail(p) \in Pieces
    BY <1>3, PieceFacts
  <2>2. BodyFrames(Tail(p)) \in Seq(Frame) /\ BodyFrame(Head(p)) \in Frame
    BY <2>1, BodyFramesFacts DEF BodyFrame, Frame
  <2>3. BodyFrames(p) = Cons(BodyFrame(Head(p)), BodyFrames(Tail(p)))
    BY <1>3, BodyFramesFacts
  <2> QED
    BY <2>2, <2>3, ConsPops
<1> QED
  BY <1>2, <1>3 DEF Starting, Filling

(* A frame that is not part of a message finds the client idle.             *)
LEMMA MethodWhenIdle ==
    ASSUME NEW E \in Seq(Event), NEW rest \in Seq(Frame), NEW pend, NEW r, NEW ob, NEW bs, NEW s, NEW n,
           NEW d, Stream(E, rest, d), d # <<>>, Current(rest, pend, r, ob, bs, s, n),
           Head(d).type \notin {"header", "body"}
    PROVE  /\ Idle(rest, pend, r, ob) /\ rest = <<>>
           /\ E # <<>> /\ Head(d) = method(Head(E)) /\ Head(d).type = Head(E).kind
           /\ Stream(Tail(E), Content(Head(E)), Tail(d))
<1>1. ASSUME rest # <<>> PROVE Head(rest).type \in {"header", "body"}
  <2>1. CASE Idle(rest, pend, r, ob)
    <3>1. 1 \in 1..Len(rest) /\ Head(rest) = rest[1]
      BY <1>1, HeadAndTail
    <3> QED
      BY <2>1, <3>1 DEF Idle
  <2>2. CASE Receiving(rest, pend, r, ob, bs, s, n)
    <3>1. PICK id \in Nat, size \in Nat, p \in Pieces :
            Starting(rest, ob[r], id, size, p) \/ Filling(rest, ob[r], id, size, p)
      BY <2>2 DEF Receiving
    <3>2. \/ Pops(rest, Header(size), BodyFrames(p))
          \/ Pops(rest, BodyFrame(Head(p)), BodyFrames(Tail(p)))
      BY <3>1, FirstOfRest
    <3>3. Head(rest) = Header(size) \/ Head(rest) = BodyFrame(Head(p))
      BY <3>2 DEF Pops
    <3> QED
      BY <3>3 DEF Header, BodyFrame
  <2> QED
    BY <2>1, <2>2 DEF Current
<1>2. rest = <<>>
  BY <1>1, StreamInside
<1>3. Idle(rest, pend, r, ob)
  <2>1. ASSUME Receiving(rest, pend, r, ob, bs, s, n) PROVE FALSE
    <3>1. PICK id \in Nat, size \in Nat, p \in Pieces :
            Starting(rest, ob[r], id, size, p) \/ Filling(rest, ob[r], id, size, p)
      BY <2>1 DEF Receiving
    <3> QED
      BY <1>2, <3>1, FirstOfRest DEF Pops
  <2> QED
    BY <2>1 DEF Current
<1>4. E # <<>> /\ Head(d) = method(Head(E)) /\ Stream(Tail(E), Content(Head(E)), Tail(d))
  BY <1>2, StreamNext
<1>5. Head(E) \in Event
  BY <1>4, HeadAndTail
<1>6. Head(d).type = Head(E).kind
  BY <1>4, <1>5, MethodFacts
<1> QED
  BY <1>2, <1>3, <1>4, <1>6

(* A header or a piece is part of the message that the client receives.     *)
LEMMA ContentInside ==
    ASSUME NEW E \in Seq(Event), NEW rest \in Seq(Frame), NEW d, Stream(E, rest, d), d # <<>>,
           Head(d).type \in {"header", "body"}
    PROVE  rest # <<>> /\ Head(d) = Head(rest) /\ Stream(E, Tail(rest), Tail(d))
<1>1. ASSUME rest = <<>> PROVE FALSE
  <2>1. E # <<>> /\ Head(d) = method(Head(E))
    BY <1>1, StreamNext
  <2>2. Head(E) \in Event
    BY <2>1, HeadAndTail
  <2>3. Head(d).type = Head(E).kind
    BY <2>1, <2>2, MethodFacts
  <2>4. Head(E).kind \in Replies \union Carriers \union Changes
    BY <2>2 DEF Event
  <2> QED
    BY <2>3, <2>4 DEF Replies, Carriers, Changes
<1> QED
  BY <1>1, StreamInside

(* Other events leave the client idle.                                      *)
LEMMA IdleStays ==
    ASSUME NEW E, NEW pend, NEW r, NEW ob, Idle(<<>>, pend, r, ob), NEW e, e.kind \notin Carriers
    PROVE  Content(e) = <<>> /\ Idle(Content(e), <<>>, r, ob)
BY DEF Idle, Content

(* A message for nobody.                                                    *)
LEMMA IdleSkips ==
    ASSUME NEW pend, NEW r, NEW ob, Idle(<<>>, pend, r, ob), NEW e \in Event
    PROVE  Idle(Content(e), <<>>, r, ob)
<1>1. CASE e.kind \notin Carriers
  BY <1>1, IdleStays
<1>2. CASE e.kind \in Carriers
  <2> DEFINE h == Header(e.size)
             b == BodyFrames(e.pieces)
             c == Cons(h, b)
  <2>1. e.pieces \in Pieces /\ e.pieces \in Seq(Bytes) /\ h \in Frame /\ h.type = "header"
    BY PieceFacts DEF Event, Header, Frame
  <2>2. b \in Seq(Frame) /\ \A i \in 1..Len(b) : b[i].type = "body"
    <3>1. b \in Seq(Frame) /\ Len(b) = Len(e.pieces)
      BY <2>1, BodyFramesFacts
    <3>2. \A i \in 1..Len(e.pieces) : b[i].type = "body"
      BY DEF BodyFrames, BodyFrame
    <3> QED
      BY <3>1, <3>2
  <2>3. Len(b) \in Nat
    BY <2>2, LenProperties
  <2> HIDE DEF h, b
  <2>4. Len(c) = Len(b) + 1 /\ c[1] = h
    BY <2>1, <2>2, ConsFacts
  <2>5. \A i \in 1..Len(b) : c[i + 1] = b[i]
    BY <2>1, <2>2, ConsAt
  <2> HIDE DEF c
  <2>6. ASSUME NEW i \in 1..Len(c) PROVE c[i].type \in {"header", "body"}
    <3>1. CASE i = 1
      BY <2>1, <2>4, <3>1
    <3>2. CASE i # 1
      <4>1. i - 1 \in 1..Len(b) /\ (i - 1) + 1 = i
        BY <2>3, <2>4, <3>2
      <4> QED
        BY <2>2, <2>5, <4>1
    <3> QED
      BY <3>1, <3>2
  <2>7. Content(e) = c
    BY <1>2 DEF Content, c, h, b
  <2> QED
    BY <2>6, <2>7 DEF Idle
<1> QED
  BY <1>1, <1>2

(* A frame of a message for nobody.                                         *)
LEMMA IdleFrame ==
    ASSUME NEW rest \in Seq(Frame), NEW pend, NEW r, NEW ob, Idle(rest, pend, r, ob), rest # <<>>
    PROVE  Idle(Tail(rest), pend, r, ob)
<1>1. Len(rest) \in Nat \ {0} /\ Len(Tail(rest)) = Len(rest) - 1
  BY HeadAndTail
<1>2. \A i \in 1..(Len(rest) - 1) : Tail(rest)[i] = rest[i + 1]
  BY HeadAndTail
<1>3. ASSUME NEW i \in 1..Len(Tail(rest)) PROVE Tail(rest)[i].type \in {"header", "body"}
  <2>1. i \in 1..(Len(rest) - 1) /\ i + 1 \in 1..Len(rest)
    BY <1>1
  <2>2. rest[i + 1].type \in {"header", "body"}
    BY <2>1 DEF Idle
  <2> QED
    BY <1>2, <2>1, <2>2
<1> QED
  BY <1>3 DEF Idle

-----------------------------------------------------------------------------
(* The steps of the object that receives a message.                         *)
LEMMA BodyFacts ==
    ASSUME NEW size \in Nat
    PROVE  Body(size) \in Bytes /\ Len(Body(size)) = size /\ (Body(size) = <<>> <=> size = 0)
<1>1. Body(size) \in [1..size -> Nat]
  BY DEF Body
<1>2. Body(size) \in Seq(Nat) /\ Len(Body(size)) = size
  BY <1>1, FunctionIsSeq
<1> QED
  BY <1>2, EmptySeq DEF Bytes

(* The size of a body fits into _bodySize.                                  *)
LEMMA SizeFacts == \A size \in Sizes : size \in Nat /\ size < Width
BY DeliveryAssumption

(* Two fields of an object at once, or all three.                           *)
LEMMA ObjectUpdates ==
    ASSUME NEW x \in ObjectType, NEW n, NEW m, NEW d
    PROVE  /\ [[x EXCEPT !.message = m] EXCEPT !.data = d]
                 = [bodySize |-> x.bodySize, message |-> m, data |-> d]
           /\ [[[x EXCEPT !.bodySize = n] EXCEPT !.data = d] EXCEPT !.message = m]
                 = [bodySize |-> n, message |-> m, data |-> d]
<1> DEFINE R(a, b, c) == [bodySize |-> a, message |-> b, data |-> c]
           SetSize(r, v) == [r EXCEPT !.bodySize = v]
           SetMessage(r, v) == [r EXCEPT !.message = v]
           SetData(r, v) == [r EXCEPT !.data = v]
<1>1. x = R(x.bodySize, x.message, x.data)
  BY DEF ObjectType
<1>2. \A a, b, c, v : SetMessage(R(a, b, c), v) = R(a, v, c)
  OBVIOUS
<1>3. \A a, b, c, v : SetData(R(a, b, c), v) = R(a, b, v)
  OBVIOUS
<1>4. \A a, b, c, v : SetSize(R(a, b, c), v) = R(v, b, c)
  OBVIOUS
<1> HIDE DEF R, SetSize, SetMessage, SetData
<1>5. SetData(SetMessage(x, m), d) = R(x.bodySize, m, d)
  BY <1>1, <1>2, <1>3
<1>6. SetMessage(SetData(SetSize(x, n), d), m) = R(n, m, d)
  BY <1>1, <1>2, <1>3, <1>4
<1>7. [[x EXCEPT !.message = m] EXCEPT !.data = d] = R(x.bodySize, m, d)
  BY <1>5 DEF SetData, SetMessage
<1>8. [[[x EXCEPT !.bodySize = n] EXCEPT !.data = d] EXCEPT !.message = m] = R(n, m, d)
  BY <1>6 DEF SetSize, SetData, SetMessage
<1> QED
  BY <1>7, <1>8 DEF R

(* initialize.                                                              *)
Started(ob, o, id) == [ob EXCEPT ![o].message = [NoMessage EXCEPT !.id = id], ![o].data = <<>>]

(* What DeferredReceiver::initialize leaves in the object.                  *)
LEMMA StartedFacts ==
    ASSUME NEW ob \in Objects, NEW o \in 0..MaxCalls, NEW id \in Nat, \A p \in 0..MaxCalls : Quiet(ob[p])
    PROVE  /\ Started(ob, o, id) \in Objects /\ OthersQuiet(Started(ob, o, id), o)
           /\ Started(ob, o, id)[o] = [bodySize |-> 0, message |-> [id |-> id, size |-> 0, body |-> <<>>],
                                       data |-> <<>>]
<1> DEFINE m == [id |-> id, size |-> 0, body |-> <<>>]
           x == [bodySize |-> 0, message |-> m, data |-> <<>>]
<1>1. m \in Message /\ x \in ObjectType
  BY EmptySeq DEF Message, ObjectType, Bytes
<1>2. [NoMessage EXCEPT !.id = id] = m
  BY DEF NoMessage
<1>3. ob[o] \in ObjectType /\ ob[o].bodySize = 0
  BY DEF Objects, Quiet
<1> HIDE DEF m
<1>4. [[ob[o] EXCEPT !.message = m] EXCEPT !.data = <<>>] = x
  BY <1>3, ObjectUpdates
<1> HIDE DEF x
<1>5. Started(ob, o, id) = [ob EXCEPT ![o] = x]
  BY <1>2, <1>4 DEF Started, Objects
<1>6. [ob EXCEPT ![o] = x] \in Objects /\ [ob EXCEPT ![o] = x][o] = x
  BY <1>1 DEF Objects
<1>7. \A p \in 0..MaxCalls : p # o => [ob EXCEPT ![o] = x][p] = ob[p]
  BY DEF Objects
<1> QED
  BY <1>5, <1>6, <1>7 DEF OthersQuiet, x, m

(* From the method frame on, the object receives the message.               *)
LEMMA StartReceiving ==
    ASSUME NEW ob \in Objects, \A p \in 0..MaxCalls : Quiet(ob[p]), NEW bs, NEW s,
           NEW n \in 0..MaxCalls, NEW e \in GoodEvents(bs, s, n), e.kind \in Carriers
    PROVE  /\ Started(ob, e.object, e.id) \in Objects
           /\ Receiving(Content(e), Wish[e], e.object, Started(ob, e.object, e.id), bs, s, n)
<1> DEFINE o == e.object
           id == e.id
           size == e.size
           p == e.pieces
           st == Started(ob, o, id)
           k == [object |-> o, id |-> id]
<1>1. /\ e \in Event /\ o \in 0..n /\ Published(id, size, bs) /\ FlattenSeq(p) = Body(size)
      /\ Occurs(s, o, id)
  BY DEF GoodEvents
<1>2. id \in Nat /\ size \in Nat /\ p \in Pieces
  BY <1>1 DEF Event
<1>3. o \in 0..MaxCalls
  BY <1>1, DeliveryAssumption
<1>4. st \in Objects /\ OthersQuiet(st, o)
      /\ st[o] = [bodySize |-> 0, message |-> [id |-> id, size |-> 0, body |-> <<>>], data |-> <<>>]
  BY <1>2, <1>3, StartedFacts
<1>5. Content(e) = Cons(Header(size), BodyFrames(p))
  BY DEF Content
<1>6. Wish[e] = Keep(k)
  BY <1>1, WishFacts DEF Keep, Known
<1> HIDE DEF o, id, size, p, st
<1>7. Starting(Content(e), st[o], id, size, p)
  BY <1>1, <1>4, <1>5 DEF Starting
<1>8. Receiving(Content(e), Wish[e], o, st, bs, s, n)
  BY <1>1, <1>2, <1>4, <1>6, <1>7 DEF Receiving
<1> QED
  BY <1>4, <1>8 DEF o, id, st

(* process(BasicHeaderFrame).                                               *)
LEMMA HeaderStep ==
    ASSUME NEW x \in ObjectType, NEW id \in Nat, NEW size \in Nat, NEW p \in Pieces, NEW rest,
           Starting(rest, x, id, size, p),
           NEW y, y = [x EXCEPT !.bodySize = size, !.message.size = size]
    PROVE  /\ y = [bodySize |-> size, message |-> [id |-> id, size |-> size, body |-> <<>>], data |-> <<>>]
           /\ y \in ObjectType
           /\ size = 0 => p = <<>> /\ Body(size) = <<>>
           /\ size # 0 => Filling(BodyFrames(p), y, id, size, p)
<1>1. x.message = [id |-> id, size |-> 0, body |-> <<>>] /\ x.data = <<>> /\ FlattenSeq(p) = Body(size)
  BY DEF Starting
<1> DEFINE m == [id |-> id, size |-> size, body |-> <<>>]
           z == [bodySize |-> size, message |-> m, data |-> <<>>]
<1>2. [x.message EXCEPT !.size = size] = m
  BY <1>1
<1>3. m \in Message /\ z \in ObjectType
  BY EmptySeq DEF Message, ObjectType, Bytes
<1>4. y = z
  <2>1. y = [[x EXCEPT !.bodySize = size] EXCEPT !.message = [x.message EXCEPT !.size = size]]
    BY DEF ObjectType
  <2> HIDE DEF m
  <2> QED
    BY <1>1, <1>2, <2>1 DEF ObjectType
<1>5. /\ Body(size) \in Bytes /\ Len(Body(size)) = size /\ (Body(size) = <<>> <=> size = 0)
      /\ p = <<>> <=> FlattenSeq(p) = <<>>
  BY BodyFacts, PieceFacts
<1>6. size = 0 => p = <<>> /\ Body(size) = <<>>
  BY <1>1, <1>5
<1>7. ASSUME size # 0 PROVE Filling(BodyFrames(p), z, id, size, p)
  <2>1. p # <<>> /\ Len(FlattenSeq(p)) = size
    BY <1>1, <1>5, <1>7
  <2>2. Cat(<<>>, FlattenSeq(p)) = Body(size)
    BY <1>1, <1>5, CatFacts DEF Bytes
  <2> QED
    BY <2>1, <2>2 DEF Filling
<1> QED
  BY <1>3, <1>4, <1>6, <1>7

(* process(BodyFrame): the unsigned subtraction does not wrap around, and   *)
(* Message::append takes all of the piece.                                  *)
Taken(x, piece) == [x EXCEPT !.bodySize = (@ - Len(piece)) % Width,
                             !.data = @ \o piece, !.message = append(@, piece)]

(* DeferredReceiver::process(BodyFrame) takes the next piece, or the last.  *)
LEMMA BodyStep ==
    ASSUME NEW x \in ObjectType, NEW id \in Nat, NEW size \in Sizes, NEW p \in Pieces, NEW rest,
           Filling(rest, x, id, size, p),
           NEW y, y = Taken(x, Head(p))
    PROVE  /\ y \in ObjectType /\ y.bodySize = Len(FlattenSeq(Tail(p)))
           /\ y.message = [id |-> id, size |-> size, body |-> y.data]
           /\ Cat(y.data, FlattenSeq(Tail(p))) = Body(size)
           /\ Tail(p) \in Pieces
           /\ y.bodySize = 0 => Tail(p) = <<>> /\ y.data = Body(size)
           /\ y.bodySize # 0 => Filling(BodyFrames(Tail(p)), y, id, size, Tail(p))
<1> DEFINE h == Head(p)
           t == Tail(p)
           f == FlattenSeq(t)
           a == x.data
           b == a \o h
           m == [id |-> id, size |-> size, body |-> b]
           n == Len(f)
           z == [bodySize |-> n, message |-> m, data |-> b]
<1>1. /\ x.bodySize = Len(FlattenSeq(p)) /\ x.message = [id |-> id, size |-> size, body |-> a]
      /\ p # <<>> /\ Cat(a, FlattenSeq(p)) = Body(size)
  BY DEF Filling
<1>2. h \in Bytes /\ t \in Pieces /\ FlattenSeq(p) = h \o f
  BY <1>1, PieceFacts
<1> HIDE DEF h, t
<1>3. f \in Bytes /\ (t = <<>> <=> f = <<>>)
  BY <1>2, PieceFacts
<1>4. a \in Bytes /\ size \in Nat /\ size < Width /\ Body(size) \in Bytes /\ Len(Body(size)) = size
  BY SizeFacts, BodyFacts DEF ObjectType
<1> HIDE DEF f, a
<1>5. Cat(Cat(a, h), f) = Body(size)
  <2>1. FlattenSeq(p) = Cat(h, f)
    BY <1>2 DEF Cat
  <2>2. Cat(Cat(a, h), f) = Cat(a, Cat(h, f))
    BY <1>2, <1>3, <1>4, CatAssociative DEF Bytes
  <2> QED
    BY <1>1, <2>1, <2>2
<1>6. /\ b \in Bytes /\ Len(b) = Len(a) + Len(h) /\ Len(h \o f) = Len(h) + n
      /\ Len(b \o f) = Len(b) + n
      /\ Len(a) \in Nat /\ Len(h) \in Nat /\ n \in Nat
  <2>1. b \in Bytes /\ Len(b) = Len(a) + Len(h)
    BY <1>2, <1>4, ConcatProperties DEF Bytes
  <2> HIDE DEF b
  <2>2. Len(h \o f) = Len(h) + n /\ Len(b \o f) = Len(b) + n
    BY <1>2, <1>3, <2>1, ConcatProperties DEF Bytes
  <2>3. Len(a) \in Nat /\ Len(h) \in Nat /\ n \in Nat
    BY <1>2, <1>3, <1>4, LenProperties DEF Bytes
  <2> QED
    BY <2>1, <2>2, <2>3
<1> HIDE DEF n
<1>7. Len(b) + n = size
  BY <1>4, <1>5, <1>6 DEF Cat
<1>8. (x.bodySize - Len(h)) % Width = n
  <2>1. x.bodySize - Len(h) = n
    BY <1>1, <1>2, <1>6
  <2>2. n \in 0..(Width - 1) /\ Width \in Nat \ {0}
    BY <1>4, <1>6, <1>7, DeliveryAssumption
  <2>3. n % Width = n
    BY <2>2
  <2> QED
    BY <2>1, <2>3
<1>9. append(x.message, h) = m
  <2>1. x.message.body = a /\ x.message.size = size
    BY <1>1
  <2> DEFINE l == IF Len(a) + Len(h) < size THEN Len(a) + Len(h) ELSE size
  <2>2. l = Len(b)
    BY <1>4, <1>6, <1>7
  <2>3. SubSeq(b, 1, Len(b)) = b
    BY <1>6, SubSeqFull DEF Bytes
  <2>4. append(x.message, h) = [x.message EXCEPT !.body = SubSeq(a \o h, 1, l)]
    BY <2>1 DEF append
  <2> HIDE DEF l, b
  <2>5. SubSeq(a \o h, 1, l) = b
    BY <2>2, <2>3 DEF b
  <2>6. append(x.message, h) = [x.message EXCEPT !.body = b]
    BY <2>4, <2>5
  <2>7. x.message = [id |-> id, size |-> size, body |-> a]
    BY <1>1
  <2>8. [[id |-> id, size |-> size, body |-> a] EXCEPT !.body = b] = m
    OBVIOUS
  <2> HIDE DEF m
  <2> QED
    BY <2>6, <2>7, <2>8
<1>10. m \in Message /\ z \in ObjectType
  BY <1>4, <1>6 DEF Message, ObjectType
<1>11. y = z
  <2>1. y = [[[x EXCEPT !.bodySize = n] EXCEPT !.data = b] EXCEPT !.message = m]
    BY <1>8, <1>9 DEF ObjectType, Taken, h, a
  <2> HIDE DEF m, b
  <2> QED
    BY <2>1, ObjectUpdates
<1>12. Cat(b, f) = Body(size)
  BY <1>5 DEF Cat
<1>13. n = 0 => t = <<>> /\ b = Body(size)
  <2>1. n = 0 => f = <<>>
    BY <1>3, EmptySeq DEF n, Bytes
  <2> HIDE DEF b
  <2>2. Cat(b, <<>>) = b
    BY <1>6, CatFacts DEF Bytes
  <2> QED
    BY <1>3, <1>12, <2>1, <2>2
<1>14. ASSUME n # 0 PROVE Filling(BodyFrames(t), z, id, size, t)
  <2>1. t # <<>>
    BY <1>3, <1>14, EmptySeq DEF n
  <2> QED
    BY <1>12, <2>1 DEF Filling, n, f
<1> HIDE DEF b, m
<1>15. z.bodySize = n /\ z.data = b /\ z.message = m
  OBVIOUS
<1> HIDE DEF z
<1> QED
  BY <1>2, <1>10, <1>11, <1>12, <1>13, <1>14, <1>15 DEF m, n, f, t

-----------------------------------------------------------------------------
(* The inductive invariant.                                                 *)
Base ==
    /\ bodies \in Seq(Sizes) /\ calls \in 0..MaxCalls
    /\ chain \in Seq(GoodWaiters(calls)) /\ up \in Seq(GoodRequests(bodies, calls))
    /\ queue \in Seq(GoodMessages(bodies))
    /\ consumers \in GoodTables(calls) /\ subscribed \in GoodTables(calls)
    /\ object \in Objects
    /\ sent \in Seq(KnownType) /\ got \in Seq(GoodGot(bodies, sent))

Match(E, rest, pend) ==
    /\ E \in Seq(GoodEvents(bodies, sent, calls))
    /\ Stream(E, rest, down) /\ Askers(E, up, chain) /\ Linked(E, consumers, subscribed)
    /\ Report(E, pend, got, sent)
    /\ Current(rest, pend, receiver, object, bodies, sent, calls)

Inv == Base /\ \E E \in Seq(Event), rest \in Seq(Frame), pend \in Seq(KnownType) : Match(E, rest, pend)

(* Without the conditions.                                                  *)
LEMMA GoodTypes ==
    ASSUME NEW bs, NEW s, NEW n
    PROVE  /\ Seq(GoodWaiters(n)) \subseteq Seq(Waiting)
           /\ Seq(GoodRequests(bs, n)) \subseteq Seq(Requests)
           /\ Seq(GoodGot(bs, s)) \subseteq Seq(GotType)
           /\ Seq(GoodEvents(bs, s, n)) \subseteq Seq(Event)
<1>1. /\ GoodWaiters(n) \subseteq Waiting /\ GoodRequests(bs, n) \subseteq Requests
      /\ GoodGot(bs, s) \subseteq GotType /\ GoodEvents(bs, s, n) \subseteq Event
  BY DEF GoodWaiters, GoodRequests, GoodGot, GoodEvents
<1> QED
  BY <1>1, SeqGrows

(* The types without the conditions, and which objects there are.           *)
LEMMA BaseTypes ==
    ASSUME Base
    PROVE  /\ chain \in Seq(Waiting) /\ up \in Seq(Requests) /\ got \in Seq(GotType)
           /\ calls \in Nat /\ 0..calls \subseteq 0..MaxCalls /\ None \notin 0..calls
<1>1. chain \in Seq(Waiting) /\ up \in Seq(Requests) /\ got \in Seq(GotType)
  BY GoodTypes DEF Base
<1>2. calls \in Nat /\ 0..calls \subseteq 0..MaxCalls /\ None \notin 0..calls
  BY DeliveryAssumption DEF Base
<1> QED
  BY <1>1, <1>2

(* What is on its way are frames.                                           *)
LEMMA StreamType ==
    ASSUME NEW E \in Seq(Event), NEW rest \in Seq(Frame), NEW d, Stream(E, rest, d)
    PROVE  d \in Seq(Frame)
<1>1. Flat(Packet, E) \in Seq(Frame)
  BY PacketFacts, EachType
<1> QED
  BY <1>1, CatFacts DEF Stream

(* The receiver does not mind what is published, sent or called meanwhile.  *)
LEMMA CurrentGrows ==
    ASSUME NEW rest, NEW pend, NEW r, NEW ob, NEW bs \in Seq(Sizes), NEW s \in Seq(KnownType),
           NEW n \in Nat, Current(rest, pend, r, ob, bs, s, n)
    PROVE  /\ \A x \in Sizes : Current(rest, pend, r, ob, Append(bs, x), s, n)
           /\ \A k \in KnownType : Current(rest, pend, r, ob, bs, Append(s, k), n)
           /\ Current(rest, pend, r, ob, bs, s, n + 1)
<1>1. CASE Idle(rest, pend, r, ob)
  BY <1>1 DEF Current
<1>2. CASE Receiving(rest, pend, r, ob, bs, s, n)
  <2>1. PICK id \in Nat, size \in Nat, p \in Pieces :
        /\ r \in 0..n /\ OthersQuiet(ob, r)
        /\ Published(id, size, bs) /\ Occurs(s, r, id)
        /\ pend = Keep([object |-> r, id |-> id])
        /\ Starting(rest, ob[r], id, size, p) \/ Filling(rest, ob[r], id, size, p)
    BY <1>2 DEF Receiving
  <2>2. ASSUME NEW x \in Sizes PROVE Receiving(rest, pend, r, ob, Append(bs, x), s, n)
    <3>1. Published(id, size, Append(bs, x))
      BY <2>1, PublishedGrows
    <3> QED
      BY <2>1, <3>1 DEF Receiving
  <2>3. ASSUME NEW k \in KnownType PROVE Receiving(rest, pend, r, ob, bs, Append(s, k), n)
    <3>1. Occurs(Append(s, k), r, id)
      BY <2>1, OccursGrows
    <3> QED
      BY <2>1, <3>1 DEF Receiving
  <2>4. Receiving(rest, pend, r, ob, bs, s, n + 1)
    <3>1. r \in 0..(n + 1)
      BY <2>1
    <3> QED
      BY <2>1, <3>1 DEF Receiving
  <2> QED
    BY <2>2, <2>3, <2>4 DEF Current
<1> QED
  BY <1>1, <1>2 DEF Current

(* The client takes the first frame of an event.                            *)
LEMMA EventTaken ==
    ASSUME Base, NEW E \in Seq(Event), NEW rest \in Seq(Frame), NEW pend, Match(E, rest, pend),
           down # <<>>, Head(down).type \notin {"header", "body"}
    PROVE  LET e == Head(E)
               F == Tail(E)
           IN  /\ e \in GoodEvents(bodies, sent, calls) /\ F \in Seq(GoodEvents(bodies, sent, calls))
               /\ F \in Seq(Event) /\ Content(e) \in Seq(Frame)
               /\ Head(down) = method(e) /\ Head(down).type = e.kind
               /\ Idle(<<>>, <<>>, receiver, object)
               /\ Legal(e, consumers) /\ Linked(F, e.table, subscribed)
               /\ Stream(F, Content(e), Tail(down))
               /\ Report(F, Wish[e], got, sent)
               /\ e.kind \in Replies => /\ chain # <<>> /\ Head(chain).object = e.object
                                        /\ Askers(F, up, Tail(chain))
               /\ e.kind \notin Replies => Askers(F, up, chain)
<1> DEFINE e == Head(E)
           F == Tail(E)
<1>1. /\ E \in Seq(GoodEvents(bodies, sent, calls))
      /\ Stream(E, rest, down) /\ Askers(E, up, chain) /\ Linked(E, consumers, subscribed)
      /\ Report(E, pend, got, sent)
      /\ Current(rest, pend, receiver, object, bodies, sent, calls)
  BY DEF Match
<1>2. /\ Idle(rest, pend, receiver, object) /\ rest = <<>>
      /\ E # <<>> /\ Head(down) = method(e) /\ Head(down).type = e.kind
      /\ Stream(F, Content(e), Tail(down))
  BY <1>1, MethodWhenIdle
<1>3. pend = <<>> /\ Idle(<<>>, <<>>, receiver, object)
  BY <1>2 DEF Idle
<1>4. e \in GoodEvents(bodies, sent, calls) /\ F \in Seq(GoodEvents(bodies, sent, calls))
  BY <1>1, <1>2, HeadAndTail
<1>5. e \in Event /\ F \in Seq(Event)
  BY <1>2, HeadAndTail
<1>6. Content(e) \in Seq(Frame)
  BY <1>5, PacketFacts
<1>7. Legal(e, consumers) /\ Linked(F, e.table, subscribed)
  BY <1>1, <1>2, LinkedNext
<1>8. Report(F, Wish[e], got, sent)
  BY <1>1, <1>2, <1>3, BaseTypes, ReportNext
<1>9. e.kind \in Replies => /\ chain # <<>> /\ Head(chain).object = e.object
                            /\ Askers(F, up, Tail(chain))
  BY <1>1, <1>2, BaseTypes, AskersReply
<1>10. e.kind \notin Replies => Askers(F, up, chain)
  BY <1>1, <1>2, AskersOther
<1> QED
  BY <1>2, <1>3, <1>4, <1>5, <1>6, <1>7, <1>8, <1>9, <1>10

(* The server sends an event.                                               *)
LEMMA EventSent ==
    ASSUME Base, NEW E \in Seq(Event), NEW rest \in Seq(Frame), NEW pend \in Seq(KnownType),
           Match(E, rest, pend), NEW e \in GoodEvents(bodies, sent', calls),
           down' = Cat(down, Packet[e]), Legal(e, subscribed), subscribed' = e.table,
           \/ \E k \in KnownType : sent' = Append(sent, k) /\ Wish[e] = Keep(k)
           \/ sent' = sent /\ Wish[e] = <<>>,
           Askers(Append(E, e), up', chain),
           UNCHANGED <<consumers, receiver, chain, object, bodies, calls, got>>
    PROVE  /\ Append(E, e) \in Seq(Event)
           /\ Match(Append(E, e), rest, pend)'
           /\ sent' \in Seq(KnownType) /\ got' \in Seq(GoodGot(bodies, sent'))
<1> DEFINE A == Append(E, e)
<1>1. /\ E \in Seq(GoodEvents(bodies, sent, calls))
      /\ Stream(E, rest, down) /\ Linked(E, consumers, subscribed)
      /\ Report(E, pend, got, sent)
      /\ Current(rest, pend, receiver, object, bodies, sent, calls)
  BY DEF Match
<1>2. /\ consumers' = consumers /\ receiver' = receiver /\ chain' = chain /\ object' = object
      /\ bodies' = bodies /\ calls' = calls /\ got' = got
  OBVIOUS
<1>3. e \in Event
  BY DEF GoodEvents
<1>4. A \in Seq(Event)
  BY <1>3, AppendProperties
<1>5. Stream(A, rest, down')
  BY <1>1, <1>3, StreamAppend
<1>6. Linked(A, consumers, subscribed')
  BY <1>1, <1>3, LinkedAppend
<1>7. sent \in Seq(KnownType) /\ got \in Seq(GoodGot(bodies, sent)) /\ got \in Seq(GotType)
      /\ bodies \in Seq(Sizes) /\ calls \in Nat
  BY BaseTypes DEF Base
<1>8. /\ sent' \in Seq(KnownType)
      /\ Seq(GoodGot(bodies, sent)) \subseteq Seq(GoodGot(bodies, sent'))
      /\ Seq(GoodEvents(bodies, sent, calls)) \subseteq Seq(GoodEvents(bodies, sent', calls))
      /\ Current(rest, pend, receiver, object, bodies, sent', calls)
      /\ Report(A, pend, got, sent')
  <2>1. CASE sent' = sent /\ Wish[e] = <<>>
    BY <1>1, <1>3, <1>7, <2>1, ReportOther
  <2>2. CASE \E k \in KnownType : sent' = Append(sent, k) /\ Wish[e] = Keep(k)
    <3>1. PICK k \in KnownType : sent' = Append(sent, k) /\ Wish[e] = Keep(k)
      BY <2>2
    <3>2. Append(sent, k) \in Seq(KnownType)
      BY <1>7, AppendProperties
    <3>3. /\ GoodGot(bodies, sent) \subseteq GoodGot(bodies, Append(sent, k))
          /\ GoodEvents(bodies, sent, calls) \subseteq GoodEvents(bodies, Append(sent, k), calls)
      BY <1>7, GrowsBySend
    <3>4. /\ Seq(GoodGot(bodies, sent)) \subseteq Seq(GoodGot(bodies, Append(sent, k)))
          /\ Seq(GoodEvents(bodies, sent, calls)) \subseteq Seq(GoodEvents(bodies, Append(sent, k), calls))
      BY <3>3, SeqGrows
    <3>5. Current(rest, pend, receiver, object, bodies, Append(sent, k), calls)
      BY <1>1, <1>7, CurrentGrows
    <3>6. Report(A, pend, got, Append(sent, k))
      BY <1>1, <1>3, <1>7, <3>1, ReportSend
    <3> QED
      BY <3>1, <3>2, <3>4, <3>5, <3>6
  <2> QED
    BY <2>1, <2>2
<1>9. A \in Seq(GoodEvents(bodies, sent', calls))
  BY <1>1, <1>8, AppendProperties
<1>10. Match(A, rest, pend)'
  BY <1>2, <1>5, <1>6, <1>8, <1>9 DEF Match
<1> QED
  BY <1>2, <1>4, <1>7, <1>8, <1>10

-----------------------------------------------------------------------------
(* It holds at first.                                                       *)
LEMMA InitInv == Init => Inv
<1> SUFFICES ASSUME Init PROVE Inv
  OBVIOUS
<1> DEFINE x == [bodySize |-> 0, message |-> NoMessage, data |-> <<>>]
<1>1. x \in ObjectType /\ Quiet(x)
  BY EmptySeq DEF ObjectType, Message, NoMessage, Bytes, Quiet
<1>2. object \in Objects /\ \A p \in 0..MaxCalls : object[p] = x
  <2> HIDE DEF x
  <2>1. object = [o \in 0..MaxCalls |-> x]
    BY DEF Init, x
  <2> QED
    BY <1>1, <2>1 DEF Objects
<1>3. /\ chain = <<>> /\ up = <<>> /\ down = <<>> /\ queue = <<>> /\ sent = <<>> /\ got = <<>>
      /\ bodies = <<>> /\ calls = 0 /\ receiver = None
      /\ consumers = [tag \in Tags |-> None] /\ subscribed = [tag \in Tags |-> None]
  BY DEF Init
<1>4. Base
  <2>1. \A S : <<>> \in Seq(S)
    BY EmptySeq
  <2>2. consumers \in GoodTables(calls) /\ subscribed \in GoodTables(calls)
    BY <1>3 DEF GoodTables
  <2>3. calls \in 0..MaxCalls
    BY <1>3, DeliveryAssumption
  <2> QED
    BY <1>2, <1>3, <2>1, <2>2, <2>3 DEF Base
<1>5. <<>> \in Seq(Event) /\ <<>> \in Seq(Frame) /\ <<>> \in Seq(KnownType) /\ <<>> \in Seq(Nat)
      /\ <<>> \in Seq(GoodEvents(bodies, sent, calls))
  BY EmptySeq
<1>6. Cat(<<>>, <<>>) = <<>>
  BY <1>5, CatFacts
<1>7. Match(<<>>, <<>>, <<>>)
  <2>1. Stream(<<>>, <<>>, down)
    BY <1>3, <1>6, FlatEmpty DEF Stream
  <2>2. Askers(<<>>, up, chain)
    BY <1>3, <1>6, FlatEmpty DEF Askers
  <2>3. Linked(<<>>, consumers, subscribed)
    BY <1>3, EmptySeq DEF Linked, Before
  <2>4. Report(<<>>, <<>>, got, sent)
    BY <1>3, <1>6, FlatEmpty, WantedTypes DEF Report
  <2>5. Idle(<<>>, <<>>, receiver, object)
    <3> HIDE DEF x
    <3>1. Len(<<>>) = 0
      BY EmptySeq
    <3> QED
      BY <1>1, <1>2, <1>3, <3>1 DEF Idle
  <2> QED
    BY <1>5, <2>1, <2>2, <2>3, <2>4, <2>5 DEF Match, Current
<1> QED
  BY <1>4, <1>5, <1>7 DEF Inv

-----------------------------------------------------------------------------
(* The calls of the application keep it.                                    *)
LEMMA PublishKeeps == Inv /\ publish => Inv'
<1> SUFFICES ASSUME Inv, publish PROVE Inv'
  OBVIOUS
<1>1. Base
  BY DEF Inv
<1>2. PICK E \in Seq(Event), rest \in Seq(Frame), pend \in Seq(KnownType) : Match(E, rest, pend)
  BY DEF Inv
<1>3. PICK size \in Sizes :
        /\ bodies' = Append(bodies, size)
        /\ up' = Append(up, [type |-> "publish", id |-> Len(bodies) + 1, size |-> size,
                             pieces |-> Split(Body(size), MaxPayload)])
  BY DEF publish
<1>4. /\ consumers' = consumers /\ receiver' = receiver /\ chain' = chain /\ object' = object
      /\ calls' = calls /\ down' = down /\ queue' = queue /\ subscribed' = subscribed
      /\ sent' = sent /\ got' = got
  BY DEF publish, clientVars, serverVars
<1> DEFINE id == Len(bodies) + 1
           p == Split(Body(size), MaxPayload)
           r == [type |-> "publish", id |-> id, size |-> size, pieces |-> p]
           bs == Append(bodies, size)
<1>5. bodies \in Seq(Sizes) /\ sent \in Seq(KnownType) /\ calls \in Nat
      /\ up \in Seq(Requests) /\ chain \in Seq(Waiting)
  BY <1>1, BaseTypes DEF Base
<1>6. bs \in Seq(Sizes) /\ id \in Nat /\ Published(id, size, bs)
  <2>1. Len(bodies) \in Nat /\ Len(bs) = id /\ bs[id] = size /\ bs \in Seq(Sizes)
    BY <1>5, LenProperties, AppendProperties
  <2> HIDE DEF bs
  <2> QED
    BY <2>1 DEF Published
<1>7. size \in Nat /\ p \in Pieces /\ FlattenSeq(p) = Body(size)
  <2>1. size \in Nat /\ MaxPayload \in Nat \ {0}
    BY SizeFacts, DeliveryAssumption
  <2>2. Body(size) \in Bytes
    BY <2>1, BodyFacts
  <2> QED
    BY <2>1, <2>2, SplitFacts
<1> HIDE DEF bs, id, p
<1>8. r \in Publishing /\ r \in GoodRequests(bs, calls)
  <2>1. r \in Publishing
    BY <1>6, <1>7 DEF Publishing
  <2> QED
    BY <1>6, <1>7, <2>1 DEF GoodRequests, Requests
<1>9. bodies' = bs /\ up' = Append(up, r)
  BY <1>3 DEF bs, r, id, p
<1> HIDE DEF r
<1>10. /\ GoodRequests(bodies, calls) \subseteq GoodRequests(bs, calls)
       /\ GoodMessages(bodies) \subseteq GoodMessages(bs)
       /\ GoodGot(bodies, sent) \subseteq GoodGot(bs, sent)
       /\ GoodEvents(bodies, sent, calls) \subseteq GoodEvents(bs, sent, calls)
  BY <1>5, GrowsByPublish DEF bs
<1>11. /\ Seq(GoodRequests(bodies, calls)) \subseteq Seq(GoodRequests(bs, calls))
       /\ Seq(GoodMessages(bodies)) \subseteq Seq(GoodMessages(bs))
       /\ Seq(GoodGot(bodies, sent)) \subseteq Seq(GoodGot(bs, sent))
       /\ Seq(GoodEvents(bodies, sent, calls)) \subseteq Seq(GoodEvents(bs, sent, calls))
  BY <1>10, SeqGrows
<1>12. Base'
  <2>1. Append(up, r) \in Seq(GoodRequests(bs, calls))
    BY <1>1, <1>8, <1>11, AppendProperties DEF Base
  <2> QED
    BY <1>1, <1>4, <1>6, <1>9, <1>11, <2>1 DEF Base
<1>13. Match(E, rest, pend)'
  <2>1. Askers(E, Append(up, r), chain)
    BY <1>2, <1>5, <1>8, AskersPublish DEF Match
  <2>2. Current(rest, pend, receiver, object, bs, sent, calls)
    BY <1>2, <1>5, CurrentGrows DEF Match, bs
  <2> QED
    BY <1>2, <1>4, <1>9, <1>11, <2>1, <2>2 DEF Match
<1> QED
  BY <1>12, <1>13 DEF Inv

(* ChannelImpl::consume, cancel and get keep the invariant.                 *)
LEMMA CallKeeps ==
    ASSUME Inv, NEW type \in {"consume", "cancel", "get"}, NEW tag \in Tags \union {None},
           type # "get" => tag \in Tags, Call(type, tag)
    PROVE  Inv'
<1>1. Base
  BY DEF Inv
<1>2. PICK E \in Seq(Event), rest \in Seq(Frame), pend \in Seq(KnownType) : Match(E, rest, pend)
  BY DEF Inv
<1> DEFINE n == calls + 1
           r == [type |-> type, tag |-> tag, object |-> n]
           c == [type |-> type, object |-> n]
<1>3. calls < MaxCalls /\ calls' = n /\ up' = Append(up, r) /\ chain' = Append(chain, c)
  BY DEF Call
<1>4. /\ consumers' = consumers /\ receiver' = receiver /\ object' = object
      /\ bodies' = bodies /\ down' = down /\ queue' = queue /\ subscribed' = subscribed
      /\ sent' = sent /\ got' = got
  BY DEF Call, serverVars
<1>5. /\ bodies \in Seq(Sizes) /\ sent \in Seq(KnownType) /\ calls \in Nat /\ calls \in 0..MaxCalls
      /\ up \in Seq(Requests) /\ chain \in Seq(Waiting)
  BY <1>1, BaseTypes DEF Base
<1>6. n \in 0..MaxCalls /\ n \in Nat /\ n \in 1..n
  BY <1>3, <1>5, DeliveryAssumption
<1>7. /\ GoodTables(calls) \subseteq GoodTables(n)
      /\ GoodWaiters(calls) \subseteq GoodWaiters(n)
      /\ GoodRequests(bodies, calls) \subseteq GoodRequests(bodies, n)
      /\ GoodEvents(bodies, sent, calls) \subseteq GoodEvents(bodies, sent, n)
  BY <1>5, GrowsByCall
<1>8. Current(rest, pend, receiver, object, bodies, sent, n)
  BY <1>2, <1>5, CurrentGrows DEF Match
<1> HIDE DEF n
<1>9. /\ Seq(GoodWaiters(calls)) \subseteq Seq(GoodWaiters(n))
      /\ Seq(GoodRequests(bodies, calls)) \subseteq Seq(GoodRequests(bodies, n))
      /\ Seq(GoodEvents(bodies, sent, calls)) \subseteq Seq(GoodEvents(bodies, sent, n))
  BY <1>7, SeqGrows
<1>10. r \in Asking /\ c \in Waiting /\ c.object = r.object
  BY <1>6 DEF Asking, Waiting
<1>11. r \in GoodRequests(bodies, n) /\ c \in GoodWaiters(n)
  BY <1>6, <1>10 DEF GoodRequests, GoodWaiters, Requests
<1> HIDE DEF r, c
<1>12. Base'
  <2>1. Append(up, r) \in Seq(GoodRequests(bodies, n)) /\ Append(chain, c) \in Seq(GoodWaiters(n))
    BY <1>1, <1>9, <1>11, AppendProperties DEF Base
  <2> QED
    BY <1>1, <1>3, <1>4, <1>6, <1>7, <2>1 DEF Base
<1>13. Match(E, rest, pend)'
  <2>1. Askers(E, Append(up, r), Append(chain, c))
    BY <1>2, <1>5, <1>10, AskersCall DEF Match
  <2> QED
    BY <1>2, <1>3, <1>4, <1>8, <1>9, <2>1 DEF Match
<1> QED
  BY <1>12, <1>13 DEF Inv

(* ChannelImpl::recall keeps it.                                            *)
LEMMA RecallsKeeps == Inv /\ recalls => Inv'
<1> SUFFICES ASSUME Inv, recalls PROVE Inv'
  OBVIOUS
<1>1. /\ consumers' = consumers /\ receiver' = receiver /\ chain' = chain /\ object' = object
      /\ bodies' = bodies /\ calls' = calls /\ up' = up /\ down' = down
      /\ queue' = queue /\ subscribed' = subscribed /\ sent' = sent /\ got' = got
  BY DEF recalls, serverVars
<1>2. Base'
  BY <1>1 DEF Inv, Base
<1>3. PICK E \in Seq(Event), rest \in Seq(Frame), pend \in Seq(KnownType) : Match(E, rest, pend)
  BY DEF Inv
<1>4. Match(E, rest, pend)'
  BY <1>1, <1>3 DEF Match
<1> QED
  BY <1>2, <1>4 DEF Inv

(* Every call of the application keeps it.                                  *)
LEMMA ApplicationKeeps == Inv /\ Application => Inv'
<1> SUFFICES ASSUME Inv, Application PROVE Inv'
  OBVIOUS
<1>1. CASE publish
  BY <1>1, PublishKeeps
<1>2. CASE consume
  BY <1>2, CallKeeps DEF consume
<1>3. CASE cancel
  BY <1>3, CallKeeps DEF cancel
<1>4. CASE get
  BY <1>4, CallKeeps DEF get
<1>5. CASE recalls
  BY <1>5, RecallsKeeps
<1> QED
  BY <1>1, <1>2, <1>3, <1>4, <1>5 DEF Application

-----------------------------------------------------------------------------
(* The method frames from the server keep it.                               *)

(* Any of them, once it is known what becomes of the client.                *)
LEMMA MethodKeeps ==
    ASSUME Base, NEW E \in Seq(Event), NEW F, NEW e, F = Tail(E), e = Head(E),
           NEW rest \in Seq(Frame), NEW pend, Match(E, rest, pend),
           down # <<>>, Head(down).type \notin {"header", "body"}, down' = Tail(down),
           consumers' = e.table, consumers' \in GoodTables(calls),
           \/ e.kind \in Replies /\ chain' = Tail(chain)
           \/ e.kind \notin Replies /\ chain' = chain,
           object' \in Objects, NEW new \in Seq(KnownType), new = Wish[e],
           Current(Content(e), new, receiver', object', bodies, sent, calls),
           UNCHANGED <<bodies, calls, up, queue, subscribed, sent, got>>
    PROVE  Inv'
<1>1. /\ e \in GoodEvents(bodies, sent, calls) /\ F \in Seq(GoodEvents(bodies, sent, calls))
      /\ F \in Seq(Event) /\ Content(e) \in Seq(Frame)
      /\ Linked(F, e.table, subscribed)
      /\ Stream(F, Content(e), Tail(down))
      /\ Report(F, Wish[e], got, sent)
      /\ e.kind \in Replies => chain # <<>> /\ Askers(F, up, Tail(chain))
      /\ e.kind \notin Replies => Askers(F, up, chain)
  BY EventTaken
<1>2. /\ bodies' = bodies /\ calls' = calls /\ up' = up /\ queue' = queue
      /\ subscribed' = subscribed /\ sent' = sent /\ got' = got
  OBVIOUS
<1>3. chain' \in Seq(GoodWaiters(calls)) /\ Askers(F, up, chain')
  BY <1>1, HeadAndTail DEF Base
<1>4. Base'
  BY <1>2, <1>3 DEF Base
<1>5. Match(F, Content(e), new)'
  BY <1>1, <1>2, <1>3 DEF Match
<1> QED
  BY <1>1, <1>4, <1>5 DEF Inv

(* The table of consumers stays one.                                        *)
LEMMA TableChanges ==
    ASSUME Base, NEW tag \in Tags
    PROVE  /\ [consumers EXCEPT ![tag] = None] \in GoodTables(calls)
           /\ chain # <<>> => [consumers EXCEPT ![tag] = Head(chain).object] \in GoodTables(calls)
<1>1. consumers \in GoodTables(calls)
  BY DEF Base
<1>2. chain # <<>> => Head(chain).object \in 1..calls
  <2>1. chain # <<>> => Head(chain) \in GoodWaiters(calls)
    BY HeadAndTail DEF Base
  <2> QED
    BY <2>1 DEF GoodWaiters
<1> QED
  BY <1>1, <1>2 DEF GoodTables

(* DeferredConsumer::reportSuccess keeps it.                                *)
LEMMA ConsumeOkKeeps == Inv /\ consumeOk => Inv'
<1> SUFFICES ASSUME Inv, consumeOk PROVE Inv'
  OBVIOUS
<1>1. Base
  BY DEF Inv
<1>2. PICK E \in Seq(Event), rest \in Seq(Frame), pend \in Seq(KnownType) : Match(E, rest, pend)
  BY DEF Inv
<1> DEFINE e == Head(E)
<1>3. /\ down # <<>> /\ Head(down).type = "consume-ok" /\ down' = Tail(down) /\ chain # <<>>
      /\ consumers' = [consumers EXCEPT ![Head(down).tag] = Head(chain).object]
      /\ chain' = Tail(chain) /\ receiver' = receiver /\ object' = object
      /\ UNCHANGED <<bodies, calls, up, queue, subscribed, sent, got>>
  BY DEF consumeOk, Receive, serverVars
<1>4. /\ e \in GoodEvents(bodies, sent, calls)
      /\ Head(down) = method(e) /\ Head(down).type = e.kind
      /\ Idle(<<>>, <<>>, receiver, object) /\ Legal(e, consumers)
      /\ e.kind \in Replies => Head(chain).object = e.object
  BY <1>1, <1>2, <1>3, EventTaken
<1>5. e \in Event /\ e.kind = "consume-ok" /\ e.tag \in Tags
  BY <1>3, <1>4 DEF GoodEvents, Changes
<1>6. e.kind \in Replies /\ e.kind \notin Carriers /\ e.kind \in Changes
  BY <1>5 DEF Replies, Carriers, Changes
<1>7. Head(down).tag = e.tag
  BY <1>4, <1>5, <1>6, MethodFacts
<1>8. consumers' = e.table
  BY <1>3, <1>4, <1>5, <1>6, <1>7 DEF Legal, Effect
<1>9. consumers' \in GoodTables(calls)
  BY <1>1, <1>3, <1>5, <1>7, TableChanges
<1>10. Wish[e] = <<>> /\ <<>> \in Seq(KnownType)
  BY <1>5, <1>6, WishFacts, EmptySeq
<1>11. Current(Content(e), <<>>, receiver, object, bodies, sent, calls)
  BY <1>4, <1>6, IdleStays DEF Current
<1>12. object' \in Objects
  BY <1>1, <1>3 DEF Base
<1> HIDE DEF e
<1> QED
  BY <1>1, <1>2, <1>3, <1>5, <1>6, <1>8, <1>9, <1>10, <1>11, <1>12, MethodKeeps DEF e

(* DeferredCancel::reportSuccess keeps it.                                  *)
LEMMA CancelOkKeeps == Inv /\ cancelOk => Inv'
<1> SUFFICES ASSUME Inv, cancelOk PROVE Inv'
  OBVIOUS
<1>1. Base
  BY DEF Inv
<1>2. PICK E \in Seq(Event), rest \in Seq(Frame), pend \in Seq(KnownType) : Match(E, rest, pend)
  BY DEF Inv
<1> DEFINE e == Head(E)
<1>3. /\ down # <<>> /\ Head(down).type = "cancel-ok" /\ down' = Tail(down) /\ chain # <<>>
      /\ consumers' = [consumers EXCEPT ![Head(down).tag] = None]
      /\ chain' = Tail(chain) /\ receiver' = receiver /\ object' = object
      /\ UNCHANGED <<bodies, calls, up, queue, subscribed, sent, got>>
  BY DEF cancelOk, Receive, serverVars
<1>4. /\ e \in GoodEvents(bodies, sent, calls)
      /\ Head(down) = method(e) /\ Head(down).type = e.kind
      /\ Idle(<<>>, <<>>, receiver, object) /\ Legal(e, consumers)
  BY <1>1, <1>2, <1>3, EventTaken
<1>5. e \in Event /\ e.kind = "cancel-ok" /\ e.tag \in Tags
  BY <1>3, <1>4 DEF GoodEvents, Changes
<1>6. e.kind \in Replies /\ e.kind \notin Carriers /\ e.kind \in Changes
  BY <1>5 DEF Replies, Carriers, Changes
<1>7. Head(down).tag = e.tag
  BY <1>4, <1>5, <1>6, MethodFacts
<1>8. consumers' = e.table
  BY <1>3, <1>4, <1>5, <1>6, <1>7 DEF Legal, Effect
<1>9. consumers' \in GoodTables(calls)
  BY <1>1, <1>3, <1>5, <1>7, TableChanges
<1>10. Wish[e] = <<>> /\ <<>> \in Seq(KnownType)
  BY <1>5, <1>6, WishFacts, EmptySeq
<1>11. Current(Content(e), <<>>, receiver, object, bodies, sent, calls)
  BY <1>4, <1>6, IdleStays DEF Current
<1>12. object' \in Objects
  BY <1>1, <1>3 DEF Base
<1> HIDE DEF e
<1> QED
  BY <1>1, <1>2, <1>3, <1>5, <1>6, <1>8, <1>9, <1>10, <1>11, <1>12, MethodKeeps DEF e

(* ChannelImpl::reportCancelled keeps it.                                   *)
LEMMA CancelledKeeps == Inv /\ cancelled => Inv'
<1> SUFFICES ASSUME Inv, cancelled PROVE Inv'
  OBVIOUS
<1>1. Base
  BY DEF Inv
<1>2. PICK E \in Seq(Event), rest \in Seq(Frame), pend \in Seq(KnownType) : Match(E, rest, pend)
  BY DEF Inv
<1> DEFINE e == Head(E)
<1>3. /\ down # <<>> /\ Head(down).type = "cancel" /\ down' = Tail(down)
      /\ consumers' = [consumers EXCEPT ![Head(down).tag] = None]
      /\ chain' = chain /\ receiver' = receiver /\ object' = object
      /\ UNCHANGED <<bodies, calls, up, queue, subscribed, sent, got>>
  BY DEF cancelled, Receive, serverVars
<1>4. /\ e \in GoodEvents(bodies, sent, calls)
      /\ Head(down) = method(e) /\ Head(down).type = e.kind
      /\ Idle(<<>>, <<>>, receiver, object) /\ Legal(e, consumers)
  BY <1>1, <1>2, <1>3, EventTaken
<1>5. e \in Event /\ e.kind = "cancel" /\ e.tag \in Tags
  BY <1>3, <1>4 DEF GoodEvents, Changes
<1>6. e.kind \notin Replies /\ e.kind \notin Carriers /\ e.kind \in Changes
  BY <1>5 DEF Replies, Carriers, Changes
<1>7. Head(down).tag = e.tag
  BY <1>4, <1>5, <1>6, MethodFacts
<1>8. consumers' = e.table
  BY <1>3, <1>4, <1>5, <1>6, <1>7 DEF Legal, Effect
<1>9. consumers' \in GoodTables(calls)
  BY <1>1, <1>3, <1>5, <1>7, TableChanges
<1>10. Wish[e] = <<>> /\ <<>> \in Seq(KnownType)
  BY <1>5, <1>6, WishFacts, EmptySeq
<1>11. Current(Content(e), <<>>, receiver, object, bodies, sent, calls)
  BY <1>4, <1>6, IdleStays DEF Current
<1>12. object' \in Objects
  BY <1>1, <1>3 DEF Base
<1> HIDE DEF e
<1> QED
  BY <1>1, <1>2, <1>3, <1>5, <1>6, <1>8, <1>9, <1>10, <1>11, <1>12, MethodKeeps DEF e

(* DeferredGet::reportSuccess without a message keeps it.                   *)
LEMMA GetEmptyKeeps == Inv /\ getEmpty => Inv'
<1> SUFFICES ASSUME Inv, getEmpty PROVE Inv'
  OBVIOUS
<1>1. Base
  BY DEF Inv
<1>2. PICK E \in Seq(Event), rest \in Seq(Frame), pend \in Seq(KnownType) : Match(E, rest, pend)
  BY DEF Inv
<1> DEFINE e == Head(E)
<1>3. /\ down # <<>> /\ Head(down).type = "get-empty" /\ down' = Tail(down)
      /\ consumers' = consumers /\ chain' = Tail(chain) /\ receiver' = receiver /\ object' = object
      /\ UNCHANGED <<bodies, calls, up, queue, subscribed, sent, got>>
  BY DEF getEmpty, Receive, serverVars
<1>4. /\ e \in GoodEvents(bodies, sent, calls) /\ Head(down).type = e.kind
      /\ Idle(<<>>, <<>>, receiver, object) /\ Legal(e, consumers)
  BY <1>1, <1>2, <1>3, EventTaken
<1>5. e \in Event /\ e.kind = "get-empty"
  BY <1>3, <1>4 DEF GoodEvents
<1>6. e.kind \in Replies /\ e.kind \notin Carriers /\ e.kind \notin Changes
  BY <1>5 DEF Replies, Carriers, Changes
<1>7. consumers' = e.table /\ consumers' \in GoodTables(calls) /\ object' \in Objects
  BY <1>1, <1>3, <1>4, <1>5, <1>6 DEF Legal, Effect, Base
<1>8. Wish[e] = <<>> /\ <<>> \in Seq(KnownType)
  BY <1>5, <1>6, WishFacts, EmptySeq
<1>9. Current(Content(e), <<>>, receiver, object, bodies, sent, calls)
  BY <1>4, <1>6, IdleStays DEF Current
<1> HIDE DEF e
<1> QED
  BY <1>1, <1>2, <1>3, <1>5, <1>6, <1>7, <1>8, <1>9, MethodKeeps DEF e

(* DeferredGet::reportSuccess keeps it.                                     *)
LEMMA GetOkKeeps == Inv /\ getOk => Inv'
<1> SUFFICES ASSUME Inv, getOk PROVE Inv'
  OBVIOUS
<1>1. Base
  BY DEF Inv
<1>2. PICK E \in Seq(Event), rest \in Seq(Frame), pend \in Seq(KnownType) : Match(E, rest, pend)
  BY DEF Inv
<1> DEFINE e == Head(E)
<1>3. /\ down # <<>> /\ Head(down).type = "get-ok" /\ down' = Tail(down)
      /\ consumers' = consumers /\ chain' = Tail(chain)
      /\ receiver' = Head(chain).object /\ object' = Started(object, Head(chain).object, Head(down).id)
      /\ UNCHANGED <<bodies, calls, up, queue, subscribed, sent, got>>
  BY DEF getOk, Receive, serverVars, initialize, Started
<1>4. /\ e \in GoodEvents(bodies, sent, calls)
      /\ Head(down) = method(e) /\ Head(down).type = e.kind
      /\ Idle(<<>>, <<>>, receiver, object) /\ Legal(e, consumers)
      /\ e.kind \in Replies => Head(chain).object = e.object
  BY <1>1, <1>2, <1>3, EventTaken
<1>5. e \in Event /\ e.kind = "get-ok"
  BY <1>3, <1>4 DEF GoodEvents
<1>6. e.kind \in Replies /\ e.kind \in Carriers /\ e.kind \notin Changes
  BY <1>5 DEF Replies, Carriers, Changes
<1>7. consumers' = e.table /\ consumers' \in GoodTables(calls)
  BY <1>1, <1>3, <1>4, <1>5, <1>6 DEF Legal, Effect, Base
<1>8. receiver' = e.object /\ object' = Started(object, e.object, e.id)
  BY <1>3, <1>4, <1>5, <1>6, MethodFacts
<1>9. object' \in Objects /\ Receiving(Content(e), Wish[e], receiver', object', bodies, sent, calls)
  BY <1>1, <1>4, <1>6, <1>8, StartReceiving DEF Base, Idle
<1>10. Wish[e] \in Seq(KnownType)
  BY <1>5, WishFacts
<1>11. Current(Content(e), Wish[e], receiver', object', bodies, sent, calls)
  BY <1>9 DEF Current
<1> HIDE DEF e
<1> QED
  BY <1>1, <1>2, <1>3, <1>5, <1>6, <1>7, <1>9, <1>10, <1>11, MethodKeeps DEF e

(* DeferredConsumer::process keeps it.                                      *)
LEMMA DeliverKeeps == Inv /\ deliver => Inv'
<1> SUFFICES ASSUME Inv, deliver PROVE Inv'
  OBVIOUS
<1>1. Base
  BY DEF Inv
<1>2. PICK E \in Seq(Event), rest \in Seq(Frame), pend \in Seq(KnownType) : Match(E, rest, pend)
  BY DEF Inv
<1> DEFINE e == Head(E)
<1> DEFINE o == consumers[Head(down).tag]
<1>3. /\ down # <<>> /\ Head(down).type = "deliver" /\ down' = Tail(down)
      /\ consumers' = consumers /\ chain' = chain
      /\ o # None => receiver' = o /\ object' = Started(object, o, Head(down).id)
      /\ UNCHANGED <<bodies, calls, up, queue, subscribed, sent, got>>
  BY DEF deliver, Receive, serverVars, initialize, Started
<1>4. /\ e \in GoodEvents(bodies, sent, calls)
      /\ Head(down) = method(e) /\ Head(down).type = e.kind
      /\ Idle(<<>>, <<>>, receiver, object) /\ Legal(e, consumers)
  BY <1>1, <1>2, <1>3, EventTaken
<1>5. e \in Event /\ e.kind = "deliver" /\ e.object \in Nat
  BY <1>3, <1>4 DEF GoodEvents, Event
<1>6. e.kind \notin Replies /\ e.kind \in Carriers /\ e.kind \notin Changes
  BY <1>5 DEF Replies, Carriers, Changes
<1>7. consumers' = e.table /\ consumers' \in GoodTables(calls)
  BY <1>1, <1>3, <1>4, <1>5, <1>6 DEF Legal, Effect, Base
<1>8. Head(down).tag = e.tag /\ Head(down).id = e.id
  BY <1>4, <1>5, <1>6, MethodFacts
<1>9. o = e.object /\ o # None
  BY <1>4, <1>5, <1>8, DeliveryAssumption DEF Legal
<1>10. receiver' = e.object /\ object' = Started(object, e.object, e.id)
  BY <1>3, <1>8, <1>9
<1>11. object' \in Objects /\ Receiving(Content(e), Wish[e], receiver', object', bodies, sent, calls)
  BY <1>1, <1>4, <1>6, <1>10, StartReceiving DEF Base, Idle
<1>12. Wish[e] \in Seq(KnownType)
  BY <1>5, WishFacts
<1>13. Current(Content(e), Wish[e], receiver', object', bodies, sent, calls)
  BY <1>11 DEF Current
<1> HIDE DEF e
<1> QED
  BY <1>1, <1>2, <1>3, <1>5, <1>6, <1>7, <1>11, <1>12, <1>13, MethodKeeps DEF e

(* DeferredRecall::process keeps it.                                        *)
LEMMA ReturnKeeps == Inv /\ return => Inv'
<1> SUFFICES ASSUME Inv, return PROVE Inv'
  OBVIOUS
<1>1. Base
  BY DEF Inv
<1>2. PICK E \in Seq(Event), rest \in Seq(Frame), pend \in Seq(KnownType) : Match(E, rest, pend)
  BY DEF Inv
<1> DEFINE e == Head(E)
<1>3. /\ down # <<>> /\ Head(down).type = "return" /\ down' = Tail(down)
      /\ consumers' = consumers /\ chain' = chain
      /\ \/ receiver' = 0 /\ object' = Started(object, 0, Head(down).id)
         \/ receiver' = receiver /\ object' = object
      /\ UNCHANGED <<bodies, calls, up, queue, subscribed, sent, got>>
  BY DEF return, Receive, serverVars, initialize, Started
<1>4. /\ e \in GoodEvents(bodies, sent, calls)
      /\ Head(down) = method(e) /\ Head(down).type = e.kind
      /\ Idle(<<>>, <<>>, receiver, object) /\ Legal(e, consumers)
  BY <1>1, <1>2, <1>3, EventTaken
<1>5. e \in Event /\ e.kind = "return" /\ e.object = 0
  BY <1>3, <1>4 DEF GoodEvents
<1>6. e.kind \notin Replies /\ e.kind \in Carriers /\ e.kind \notin Changes
  BY <1>5 DEF Replies, Carriers, Changes
<1>7. consumers' = e.table /\ consumers' \in GoodTables(calls)
  BY <1>1, <1>3, <1>4, <1>5, <1>6 DEF Legal, Effect, Base
<1>8. Head(down).id = e.id
  BY <1>4, <1>5, <1>6, MethodFacts
<1>9. Wish[e] = <<>> /\ <<>> \in Seq(KnownType)
  BY <1>5, <1>6, WishFacts, EmptySeq DEF Keep
<1>10. CASE receiver' = 0 /\ object' = Started(object, 0, Head(down).id)
  <2>1. receiver' = e.object /\ object' = Started(object, e.object, e.id)
    BY <1>5, <1>8, <1>10
  <2>2. object' \in Objects /\ Receiving(Content(e), Wish[e], receiver', object', bodies, sent, calls)
    BY <1>1, <1>4, <1>6, <2>1, StartReceiving DEF Base, Idle
  <2>3. Current(Content(e), <<>>, receiver', object', bodies, sent, calls)
    BY <1>9, <2>2 DEF Current
  <2> HIDE DEF e
  <2> QED
    BY <1>1, <1>2, <1>3, <1>5, <1>6, <1>7, <1>9, <2>2, <2>3, MethodKeeps DEF e
<1>11. CASE receiver' = receiver /\ object' = object
  <2>1. object' \in Objects
    BY <1>1, <1>11 DEF Base
  <2>2. Current(Content(e), <<>>, receiver', object', bodies, sent, calls)
    BY <1>4, <1>5, <1>11, IdleSkips DEF Current
  <2> HIDE DEF e
  <2> QED
    BY <1>1, <1>2, <1>3, <1>5, <1>6, <1>7, <1>9, <2>1, <2>2, MethodKeeps DEF e
<1> QED
  BY <1>3, <1>10, <1>11

-----------------------------------------------------------------------------
(* The frames of a message keep it.                                         *)
LEMMA ContentKeeps ==
    ASSUME Base, NEW E \in Seq(Event), NEW rest \in Seq(Frame), NEW pend, Match(E, rest, pend),
           rest # <<>>, Stream(E, Tail(rest), Tail(down)), down' = Tail(down),
           object' \in Objects, got' \in Seq(GoodGot(bodies, sent)),
           NEW new \in Seq(KnownType), Report(E, new, got', sent),
           Current(Tail(rest), new, receiver', object', bodies, sent, calls),
           UNCHANGED <<consumers, chain, bodies, calls, up, queue, subscribed, sent>>
    PROVE  Inv'
<1>1. /\ consumers' = consumers /\ chain' = chain /\ bodies' = bodies /\ calls' = calls /\ up' = up
      /\ queue' = queue /\ subscribed' = subscribed /\ sent' = sent
  OBVIOUS
<1>2. Tail(rest) \in Seq(Frame)
  BY HeadAndTail
<1>3. Base'
  BY <1>1 DEF Base
<1>4. Match(E, Tail(rest), new)'
  BY <1>1 DEF Match
<1> QED
  BY <1>2, <1>3, <1>4 DEF Inv

(* complete: the message has been put together again.                       *)
LEMMA CompleteFacts ==
    ASSUME Base, NEW E, NEW id \in Nat, NEW size \in Sizes,
           receiver \in 0..calls, OthersQuiet(object, receiver),
           Published(id, size, bodies), Occurs(sent, receiver, id),
           Report(E, Keep([object |-> receiver, id |-> id]), got, sent),
           NEW y \in ObjectType, y.bodySize = 0, y.data = Body(size),
           y.message = [id |-> id, size |-> size, body |-> y.data],
           complete(receiver, y)
    PROVE  /\ object' \in Objects /\ got' \in Seq(GoodGot(bodies, sent))
           /\ Report(E, <<>>, got', sent) /\ Idle(<<>>, <<>>, receiver', object')
<1> DEFINE m == [object |-> receiver, id |-> id, body |-> y.data, data |-> y.data]
           z == [y EXCEPT !.message = NoMessage]
<1>1. receiver' = None /\ got' = Append(got, m) /\ object' = [object EXCEPT ![receiver] = z]
  <2>1. y.message.id = id /\ y.message.body = y.data
    OBVIOUS
  <2> QED
    BY <2>1 DEF complete
<1>2. y.data \in Bytes /\ receiver \in Nat /\ size \in Nat
  BY BaseTypes, SizeFacts DEF ObjectType
<1>3. m \in GotType /\ m.object = receiver /\ m.id = id /\ m.body = y.data /\ m.data = y.data
  BY <1>2 DEF GotType
<1>4. m \in GoodGot(bodies, sent)
  <2> HIDE DEF m
  <2>1. id \in 1..Len(bodies) /\ y.data = Body(bodies[id])
    BY DEF Published
  <2> QED
    BY <1>3, <2>1 DEF GoodGot
<1>5. Keep(m) = Keep([object |-> receiver, id |-> id])
  BY DEF Keep, Known
<1> HIDE DEF m
<1>6. got' \in Seq(GoodGot(bodies, sent))
  BY <1>1, <1>4, AppendProperties DEF Base
<1>7. Report(E, <<>>, got', sent)
  BY <1>1, <1>3, <1>5, BaseTypes, ReportComplete
<1>8. NoMessage \in Message
  BY EmptySeq DEF NoMessage, Message, Bytes
<1>9. z \in ObjectType /\ Quiet(z)
  BY <1>8 DEF ObjectType, Quiet
<1> HIDE DEF z
<1>10. object \in Objects /\ receiver \in 0..MaxCalls
  BY BaseTypes DEF Base
<1>11. object' \in Objects
  BY <1>1, <1>9, <1>10 DEF Objects
<1>12. ASSUME NEW p \in 0..MaxCalls PROVE Quiet(object'[p])
  <2>1. CASE p = receiver
    BY <1>1, <1>9, <1>10, <2>1 DEF Objects
  <2>2. CASE p # receiver
    <3>1. object'[p] = object[p]
      BY <1>1, <1>10, <2>2 DEF Objects
    <3> QED
      BY <2>2, <3>1 DEF OthersQuiet
  <2> QED
    BY <2>1, <2>2
<1>13. Idle(<<>>, <<>>, receiver', object')
  <2>1. Len(<<>>) = 0
    BY EmptySeq
  <2> QED
    BY <1>1, <1>12, <2>1 DEF Idle
<1> QED
  BY <1>6, <1>7, <1>11, <1>13

(* The object waits for the rest of the message.                            *)
LEMMA ContinueFacts ==
    ASSUME Base, receiver \in 0..calls, OthersQuiet(object, receiver),
           NEW y \in ObjectType, object' = [object EXCEPT ![receiver] = y]
    PROVE  object' \in Objects /\ OthersQuiet(object', receiver) /\ object'[receiver] = y
<1>1. object \in Objects /\ receiver \in 0..MaxCalls
  BY BaseTypes DEF Base
<1>2. object' \in Objects /\ object'[receiver] = y
  BY <1>1 DEF Objects
<1>3. \A p \in 0..MaxCalls : p # receiver => object'[p] = object[p]
  BY <1>1 DEF Objects
<1> QED
  BY <1>2, <1>3 DEF OthersQuiet

(* A frame that nobody receives.                                            *)
LEMMA SkipKeeps ==
    ASSUME Base, NEW E \in Seq(Event), NEW rest \in Seq(Frame), NEW pend \in Seq(KnownType),
           Match(E, rest, pend), rest # <<>>, Stream(E, Tail(rest), Tail(down)), down' = Tail(down),
           receiver = None, UNCHANGED <<receiver, object, got>>,
           UNCHANGED <<consumers, chain, bodies, calls, up, queue, subscribed, sent>>
    PROVE  Inv'
<1>1. Current(rest, pend, receiver, object, bodies, sent, calls) /\ Report(E, pend, got, sent)
  BY DEF Match
<1>2. Idle(rest, pend, receiver, object)
  <2>1. receiver \notin 0..calls
    BY BaseTypes
  <2> QED
    BY <1>1, <2>1 DEF Current, Receiving
<1>3. Idle(Tail(rest), pend, receiver, object)
  BY <1>2, IdleFrame
<1>4. object' \in Objects /\ got' \in Seq(GoodGot(bodies, sent)) /\ Report(E, pend, got', sent)
  BY <1>1 DEF Base
<1>5. Current(Tail(rest), pend, receiver', object', bodies, sent, calls)
  BY <1>3 DEF Current
<1> QED
  BY <1>4, <1>5, ContentKeeps

(* DeferredReceiver::process of a header keeps it.                          *)
LEMMA HeaderKeeps == Inv /\ header => Inv'
<1> SUFFICES ASSUME Inv, header PROVE Inv'
  OBVIOUS
<1>1. Base
  BY DEF Inv
<1>2. PICK E \in Seq(Event), rest \in Seq(Frame), pend \in Seq(KnownType) : Match(E, rest, pend)
  BY DEF Inv
<1>3. /\ down # <<>> /\ Head(down).type = "header" /\ down' = Tail(down)
      /\ UNCHANGED <<consumers, chain, bodies, calls, up, queue, subscribed, sent>>
  BY DEF header, Receive, serverVars
<1>4. /\ Stream(E, rest, down) /\ Report(E, pend, got, sent)
      /\ Current(rest, pend, receiver, object, bodies, sent, calls)
  BY <1>2 DEF Match
<1>5. rest # <<>> /\ Head(down) = Head(rest) /\ Stream(E, Tail(rest), Tail(down))
  BY <1>3, <1>4, ContentInside
<1>6. CASE receiver = None
  <2>1. UNCHANGED <<receiver, object, got>>
    BY <1>6 DEF header
  <2> QED
    BY <1>1, <1>2, <1>3, <1>5, <1>6, <2>1, SkipKeeps
<1>7. CASE receiver # None
  <2>1. PICK id \in Nat, size \in Nat, p \in Pieces :
          /\ receiver \in 0..calls /\ OthersQuiet(object, receiver)
          /\ Published(id, size, bodies) /\ Occurs(sent, receiver, id)
          /\ pend = Keep([object |-> receiver, id |-> id])
          /\ \/ Starting(rest, object[receiver], id, size, p)
             \/ Filling(rest, object[receiver], id, size, p)
    BY <1>4, <1>7 DEF Current, Idle, Receiving
  <2> DEFINE x == object[receiver]
  <2>2. Starting(rest, x, id, size, p)
    <3>1. ASSUME Filling(rest, x, id, size, p) PROVE FALSE
      <4>1. Pops(rest, BodyFrame(Head(p)), BodyFrames(Tail(p)))
        BY <3>1, FirstOfRest
      <4>2. Head(down) = BodyFrame(Head(p))
        BY <1>5, <4>1 DEF Pops
      <4> QED
        BY <1>3, <4>2 DEF BodyFrame
    <3> QED
      BY <2>1, <3>1
  <2>3. Head(down).size = size /\ Tail(rest) = BodyFrames(p)
    <3>1. Pops(rest, Header(size), BodyFrames(p))
      BY <2>2, FirstOfRest
    <3>2. Head(down) = Header(size) /\ Tail(rest) = BodyFrames(p)
      BY <1>5, <3>1 DEF Pops
    <3> QED
      BY <3>2 DEF Header
  <2> DEFINE y == [x EXCEPT !.bodySize = size, !.message.size = size]
  <2>4. completeIfDone(receiver, y)
    BY <1>7, <2>3 DEF header, processHeader
  <2>5. x \in ObjectType /\ size \in Sizes
    BY <1>1, <2>1, BaseTypes DEF Base, Objects, Published
  <2> HIDE DEF x
  <2>6. /\ y = [bodySize |-> size, message |-> [id |-> id, size |-> size, body |-> <<>>], data |-> <<>>]
        /\ y \in ObjectType
        /\ size = 0 => p = <<>> /\ Body(size) = <<>>
        /\ size # 0 => Filling(BodyFrames(p), y, id, size, p)
    BY <2>2, <2>5, HeaderStep
  <2> HIDE DEF y
  <2>7. y.bodySize = size /\ y.data = <<>> /\ y.message = [id |-> id, size |-> size, body |-> y.data]
    BY <2>6
  <2>8. CASE size = 0
    <3>1. complete(receiver, y)
      BY <2>4, <2>7, <2>8 DEF completeIfDone
    <3>2. y.data = Body(size) /\ Tail(rest) = <<>>
      BY <2>3, <2>6, <2>7, <2>8, BodyFramesFacts
    <3>3. /\ object' \in Objects /\ got' \in Seq(GoodGot(bodies, sent))
          /\ Report(E, <<>>, got', sent) /\ Idle(<<>>, <<>>, receiver', object')
      BY <1>1, <1>4, <2>1, <2>5, <2>6, <2>7, <2>8, <3>1, <3>2, CompleteFacts
    <3>4. Current(Tail(rest), <<>>, receiver', object', bodies, sent, calls) /\ <<>> \in Seq(KnownType)
      BY <3>2, <3>3, EmptySeq DEF Current
    <3> QED
      BY <1>1, <1>2, <1>3, <1>5, <3>3, <3>4, ContentKeeps
  <2>9. CASE size # 0
    <3>1. object' = [object EXCEPT ![receiver] = y] /\ receiver' = receiver /\ got' = got
      BY <2>4, <2>7, <2>9 DEF completeIfDone
    <3>2. object' \in Objects /\ OthersQuiet(object', receiver) /\ object'[receiver] = y
      BY <1>1, <2>1, <2>6, <3>1, ContinueFacts
    <3>3. Filling(Tail(rest), y, id, size, p)
      BY <2>3, <2>6, <2>9
    <3>4. Current(Tail(rest), pend, receiver', object', bodies, sent, calls)
      BY <2>1, <3>1, <3>2, <3>3 DEF Current, Receiving
    <3>5. got' \in Seq(GoodGot(bodies, sent)) /\ Report(E, pend, got', sent)
      BY <1>1, <1>4, <3>1 DEF Base
    <3> QED
      BY <1>1, <1>2, <1>3, <1>5, <3>2, <3>4, <3>5, ContentKeeps
  <2> QED
    BY <2>8, <2>9
<1> QED
  BY <1>6, <1>7

(* DeferredReceiver::process of a body frame keeps it.                      *)
LEMMA BodyKeeps == Inv /\ body => Inv'
<1> SUFFICES ASSUME Inv, body PROVE Inv'
  OBVIOUS
<1>1. Base
  BY DEF Inv
<1>2. PICK E \in Seq(Event), rest \in Seq(Frame), pend \in Seq(KnownType) : Match(E, rest, pend)
  BY DEF Inv
<1>3. /\ down # <<>> /\ Head(down).type = "body" /\ down' = Tail(down)
      /\ UNCHANGED <<consumers, chain, bodies, calls, up, queue, subscribed, sent>>
  BY DEF body, Receive, serverVars
<1>4. /\ Stream(E, rest, down) /\ Report(E, pend, got, sent)
      /\ Current(rest, pend, receiver, object, bodies, sent, calls)
  BY <1>2 DEF Match
<1>5. rest # <<>> /\ Head(down) = Head(rest) /\ Stream(E, Tail(rest), Tail(down))
  BY <1>3, <1>4, ContentInside
<1>6. CASE receiver = None
  <2>1. UNCHANGED <<receiver, object, got>>
    BY <1>6 DEF body
  <2> QED
    BY <1>1, <1>2, <1>3, <1>5, <1>6, <2>1, SkipKeeps
<1>7. CASE receiver # None
  <2>1. PICK id \in Nat, size \in Nat, p \in Pieces :
          /\ receiver \in 0..calls /\ OthersQuiet(object, receiver)
          /\ Published(id, size, bodies) /\ Occurs(sent, receiver, id)
          /\ pend = Keep([object |-> receiver, id |-> id])
          /\ \/ Starting(rest, object[receiver], id, size, p)
             \/ Filling(rest, object[receiver], id, size, p)
    BY <1>4, <1>7 DEF Current, Idle, Receiving
  <2> DEFINE x == object[receiver]
             h == Head(p)
             t == Tail(p)
  <2>2. Filling(rest, x, id, size, p)
    <3>1. ASSUME Starting(rest, x, id, size, p) PROVE FALSE
      <4>1. Pops(rest, Header(size), BodyFrames(p))
        BY <3>1, FirstOfRest
      <4>2. Head(down) = Header(size)
        BY <1>5, <4>1 DEF Pops
      <4> QED
        BY <1>3, <4>2 DEF Header
    <3> QED
      BY <2>1, <3>1
  <2>3. Head(down).piece = h /\ Tail(rest) = BodyFrames(t)
    <3>1. Pops(rest, BodyFrame(Head(p)), BodyFrames(Tail(p)))
      BY <2>2, FirstOfRest
    <3>2. Head(down) = BodyFrame(h) /\ Tail(rest) = BodyFrames(t)
      BY <1>5, <3>1 DEF Pops
    <3> QED
      BY <3>2 DEF BodyFrame
  <2> DEFINE y == Taken(x, h)
  <2>4. completeIfDone(receiver, y)
    BY <1>7, <2>3 DEF body, processBody, Taken
  <2>5. x \in ObjectType /\ size \in Sizes
    BY <1>1, <2>1, BaseTypes DEF Base, Objects, Published
  <2> HIDE DEF x
  <2>6. /\ y \in ObjectType
        /\ y.message = [id |-> id, size |-> size, body |-> y.data]
        /\ t \in Pieces
        /\ y.bodySize = 0 => t = <<>> /\ y.data = Body(size)
        /\ y.bodySize # 0 => Filling(BodyFrames(t), y, id, size, t)
    <3>1. y = Taken(x, Head(p))
      OBVIOUS
    <3> HIDE DEF y
    <3> QED
      BY <2>2, <2>5, <3>1, BodyStep
  <2> HIDE DEF y, t
  <2>8. CASE y.bodySize = 0
    <3>1. complete(receiver, y)
      BY <2>4, <2>8 DEF completeIfDone
    <3>2. y.data = Body(size) /\ Tail(rest) = <<>>
      BY <2>3, <2>6, <2>8, BodyFramesFacts
    <3>3. /\ object' \in Objects /\ got' \in Seq(GoodGot(bodies, sent))
          /\ Report(E, <<>>, got', sent) /\ Idle(<<>>, <<>>, receiver', object')
      BY <1>1, <1>4, <2>1, <2>5, <2>6, <2>8, <3>1, <3>2, CompleteFacts
    <3>4. Current(Tail(rest), <<>>, receiver', object', bodies, sent, calls) /\ <<>> \in Seq(KnownType)
      BY <3>2, <3>3, EmptySeq DEF Current
    <3> QED
      BY <1>1, <1>2, <1>3, <1>5, <3>3, <3>4, ContentKeeps
  <2>9. CASE y.bodySize # 0
    <3>1. object' = [object EXCEPT ![receiver] = y] /\ receiver' = receiver /\ got' = got
      BY <2>4, <2>9 DEF completeIfDone
    <3>2. object' \in Objects /\ OthersQuiet(object', receiver) /\ object'[receiver] = y
      BY <1>1, <2>1, <2>6, <3>1, ContinueFacts
    <3>3. Filling(Tail(rest), y, id, size, t)
      BY <2>3, <2>6, <2>9
    <3>4. Current(Tail(rest), pend, receiver', object', bodies, sent, calls)
      BY <2>1, <2>6, <3>1, <3>2, <3>3 DEF Current, Receiving
    <3>5. got' \in Seq(GoodGot(bodies, sent)) /\ Report(E, pend, got', sent)
      BY <1>1, <1>4, <3>1 DEF Base
    <3> QED
      BY <1>1, <1>2, <1>3, <1>5, <3>2, <3>4, <3>5, ContentKeeps
  <2> QED
    BY <2>8, <2>9
<1> QED
  BY <1>6, <1>7

(* Every frame that the client processes keeps it.                          *)
LEMMA FramesKeep == Inv /\ Frames => Inv'
BY ConsumeOkKeeps, CancelOkKeeps, CancelledKeeps, GetOkKeeps, GetEmptyKeeps, DeliverKeeps,
   ReturnKeeps, HeaderKeeps, BodyKeeps DEF Frames

-----------------------------------------------------------------------------
(* The steps of the server keep it.                                         *)

(* Any event, once it is known what becomes of the request.                 *)
LEMMA EventKeeps ==
    ASSUME Inv, NEW e \in GoodEvents(bodies, sent', calls),
           down' = Cat(down, Packet[e]), Legal(e, subscribed), subscribed' = e.table,
           subscribed' \in GoodTables(calls), queue' \in Seq(GoodMessages(bodies)),
           \/ \E k \in KnownType : sent' = Append(sent, k) /\ Wish[e] = Keep(k)
           \/ sent' = sent /\ Wish[e] = <<>>,
           \/ up # <<>> /\ up' = Tail(up) /\ Answers[e] = Asks[Head(up)]
           \/ up' = up /\ Answers[e] = <<>>,
           UNCHANGED <<consumers, receiver, chain, object, bodies, calls, got>>
    PROVE  Inv'
<1>1. Base
  BY DEF Inv
<1>2. PICK E \in Seq(Event), rest \in Seq(Frame), pend \in Seq(KnownType) : Match(E, rest, pend)
  BY DEF Inv
<1>3. e \in Event
  BY DEF GoodEvents
<1>4. up' \in Seq(GoodRequests(bodies, calls)) /\ Askers(Append(E, e), up', chain)
  <2>1. up \in Seq(GoodRequests(bodies, calls)) /\ up \in Seq(Requests) /\ chain \in Seq(Waiting)
    BY <1>1, BaseTypes DEF Base
  <2>2. Askers(E, up, chain)
    BY <1>2 DEF Match
  <2>3. CASE up # <<>> /\ up' = Tail(up) /\ Answers[e] = Asks[Head(up)]
    BY <1>3, <2>1, <2>2, <2>3, AskersAnswer, HeadAndTail
  <2>4. CASE up' = up /\ Answers[e] = <<>>
    BY <1>3, <2>1, <2>2, <2>4, AskersSend
  <2> QED
    BY <2>3, <2>4
<1>5. /\ Append(E, e) \in Seq(Event) /\ Match(Append(E, e), rest, pend)'
      /\ sent' \in Seq(KnownType) /\ got' \in Seq(GoodGot(bodies, sent'))
  BY <1>1, <1>2, <1>4, EventSent
<1>6. Base'
  BY <1>1, <1>4, <1>5 DEF Base
<1> QED
  BY <1>5, <1>6 DEF Inv

(* The event of a frame without content.                                    *)
PlainKinds == {"consume-ok", "cancel-ok", "cancel", "get-empty"}
Plain(kind, tag, o, table) ==
    [kind |-> kind, tag |-> tag, object |-> o, id |-> 0, size |-> 0, pieces |-> <<>>, table |-> table]

(* A body may have no pieces.                                               *)
LEMMA NoPieces == <<>> \in Pieces
BY EmptySeq DEF Pieces, Bytes

(* These events carry no message.                                           *)
LEMMA KindFacts ==
    /\ "consume-ok" \in PlainKinds /\ "cancel-ok" \in PlainKinds
    /\ "cancel" \in PlainKinds /\ "get-empty" \in PlainKinds
BY DEF PlainKinds

PlainOK(kind, tag, o, n, table) ==
    /\ kind \in PlainKinds /\ tag \in Tags \union {None} /\ n \in Nat /\ o \in 0..n
    /\ table \in GoodTables(n)
    /\ kind # "get-empty" => tag \in Tags

(* The frames and the place of such an event.                               *)
LEMMA PlainFacts ==
    ASSUME NEW kind, NEW tag, NEW o, NEW n, NEW table, PlainOK(kind, tag, o, n, table),
           NEW e, e = Plain(kind, tag, o, table)
    PROVE  /\ e \in Event /\ \A bs, s : e \in GoodEvents(bs, s, n)
           /\ e.kind = kind /\ e.tag = tag /\ e.object = o /\ e.table = table
           /\ Packet[e] = One(method(e)) /\ Wish[e] = <<>>
<1>0. /\ kind \in PlainKinds /\ tag \in Tags \union {None} /\ n \in Nat /\ o \in 0..n
      /\ table \in GoodTables(n)
      /\ kind # "get-empty" => tag \in Tags
  BY DEF PlainOK
<1>1. e.kind = kind /\ e.tag = tag /\ e.object = o /\ e.table = table
  BY DEF Plain
<1>2. kind \notin Carriers /\ kind \in Replies \union Carriers \union Changes
      /\ kind # "deliver" /\ kind # "return"
  BY <1>0 DEF Carriers, Replies, Changes, PlainKinds
<1>3. table \in Tables
  BY <1>0 DEF GoodTables, Tables
<1>4. e \in Event
  BY <1>0, <1>2, <1>3, NoPieces DEF Plain, Event
<1>5. ASSUME NEW bs, NEW s PROVE e \in GoodEvents(bs, s, n)
  BY <1>0, <1>1, <1>2, <1>4 DEF GoodEvents, Changes
<1>6. Packet[e] = Cons(method(e), <<>>)
  BY <1>1, <1>2, <1>4, PacketFacts DEF Content
<1>7. Cons(method(e), <<>>) = One(method(e))
  BY DEF Cons, One
<1>8. Wish[e] = <<>>
  BY <1>1, <1>2, <1>4, WishFacts
<1> QED
  BY <1>1, <1>4, <1>5, <1>6, <1>7, <1>8

(* A frame without content that answers a request, or comes by itself.      *)
LEMMA PlainKeeps ==
    ASSUME Inv, NEW kind, NEW tag, NEW o, PlainOK(kind, tag, o, calls, subscribed'),
           NEW e, e = Plain(kind, tag, o, subscribed'), Legal(e, subscribed),
           down' = Append(down, method(e)),
           \/ up # <<>> /\ up' = Tail(up) /\ Answers[e] = Asks[Head(up)]
           \/ up' = up /\ Answers[e] = <<>>,
           UNCHANGED <<consumers, receiver, chain, object, bodies, calls, queue, sent, got>>
    PROVE  Inv'
<1>1. Base
  BY DEF Inv
<1>2. PICK E \in Seq(Event), rest \in Seq(Frame), pend \in Seq(KnownType) : Match(E, rest, pend)
  BY DEF Inv
<1>3. /\ e \in GoodEvents(bodies, sent, calls) /\ e \in Event /\ e.table = subscribed'
      /\ Packet[e] = One(method(e)) /\ Wish[e] = <<>>
  BY PlainFacts
<1>4. method(e) \in Frame
  BY <1>3, MethodFacts
<1>5. down \in Seq(Frame)
  BY <1>2, StreamType DEF Match
<1>6. down' = Cat(down, Packet[e])
  <2>1. Append(down, method(e)) = down \o <<method(e)>>
    BY <1>4, <1>5, AppendIsConcat
  <2> QED
    BY <1>3, <2>1 DEF Cat, One
<1>7. /\ sent' = sent /\ e \in GoodEvents(bodies, sent', calls) /\ subscribed' = e.table
      /\ subscribed' \in GoodTables(calls)
  BY <1>3 DEF PlainOK
<1>8. queue' \in Seq(GoodMessages(bodies))
  BY <1>1 DEF Base
<1> QED
  BY <1>3, <1>6, <1>7, <1>8, EventKeeps

(* Tables with one tag changed.                                             *)
LEMMA SubscribedChanges ==
    ASSUME Base, NEW tag \in Tags, NEW o \in {None} \union 1..calls
    PROVE  [subscribed EXCEPT ![tag] = o] \in GoodTables(calls)
BY DEF Base, GoodTables

(* The request in front.                                                    *)
LEMMA FirstRequest ==
    ASSUME Base, up # <<>>
    PROVE  /\ Head(up) \in GoodRequests(bodies, calls) /\ Head(up) \in Requests
           /\ Tail(up) \in Seq(GoodRequests(bodies, calls))
           /\ Head(up).type = "publish" => Asks[Head(up)] = <<>>
           /\ Head(up).type # "publish" => /\ Asks[Head(up)] = One(Head(up).object)
                                           /\ Head(up).object \in 1..calls
           /\ Head(up).type \in {"consume", "cancel"} => Head(up).tag \in Tags
<1>1. Head(up) \in GoodRequests(bodies, calls) /\ Tail(up) \in Seq(GoodRequests(bodies, calls))
  BY HeadAndTail DEF Base
<1>2. /\ Head(up) \in Requests
      /\ Head(up).type # "publish" => Head(up).object \in 1..calls
      /\ Head(up).type \in {"consume", "cancel"} => Head(up).tag \in Tags
  BY <1>1 DEF GoodRequests
<1> QED
  BY <1>1, <1>2, AskersValues

(* The answer to consume() keeps it.                                        *)
LEMMA SubscribesKeeps == Inv /\ serverSubscribes => Inv'
<1> SUFFICES ASSUME Inv, serverSubscribes PROVE Inv'
  OBVIOUS
<1> DEFINE r == Head(up)
           tag == r.tag
           o == r.object
           e == Plain("consume-ok", tag, o, subscribed')
<1>1. /\ up # <<>> /\ r.type = "consume" /\ up' = Tail(up)
      /\ subscribed' = [subscribed EXCEPT ![tag] = o]
      /\ down' = Append(down, [type |-> "consume-ok", tag |-> tag])
      /\ UNCHANGED <<consumers, receiver, chain, object, bodies, calls, queue, sent, got>>
  BY DEF serverSubscribes, Request, clientVars
<1>2. Base
  BY DEF Inv
<1>3. tag \in Tags /\ o \in 1..calls /\ o \in 0..calls /\ Asks[r] = One(o) /\ calls \in Nat
  BY <1>1, <1>2, FirstRequest, BaseTypes
<1> HIDE DEF r, tag, o
<1>4. subscribed' \in GoodTables(calls)
  BY <1>1, <1>2, <1>3, SubscribedChanges
<1>5. e.kind = "consume-ok" /\ e.tag = tag /\ e.object = o /\ e.table = subscribed'
  BY DEF Plain
<1>6. PlainOK("consume-ok", tag, o, calls, subscribed')
  BY <1>3, <1>4, KindFacts DEF PlainOK
<1> HIDE DEF e
<1>10. e = Plain("consume-ok", tag, o, subscribed')
  BY DEF e
<1>11. e \in Event
  BY <1>6, <1>10, PlainFacts
<1>7. Legal(e, subscribed)
  BY <1>1, <1>5 DEF Legal, Effect
<1>8. method(e) = [type |-> "consume-ok", tag |-> tag]
  BY <1>5 DEF method, Changes
<1>9. Answers[e] = Asks[Head(up)]
  BY <1>3, <1>5, <1>11, AskersValues DEF Replies, r
<1> QED
  BY <1>1, <1>6, <1>7, <1>8, <1>9, <1>10, PlainKeeps

(* The answer to cancel() keeps it.                                         *)
LEMMA UnsubscribesKeeps == Inv /\ serverUnsubscribes => Inv'
<1> SUFFICES ASSUME Inv, serverUnsubscribes PROVE Inv'
  OBVIOUS
<1> DEFINE r == Head(up)
           tag == r.tag
           o == r.object
           e == Plain("cancel-ok", tag, o, subscribed')
<1>1. /\ up # <<>> /\ r.type = "cancel" /\ up' = Tail(up)
      /\ subscribed' = [subscribed EXCEPT ![tag] = None]
      /\ down' = Append(down, [type |-> "cancel-ok", tag |-> tag])
      /\ UNCHANGED <<consumers, receiver, chain, object, bodies, calls, queue, sent, got>>
  BY DEF serverUnsubscribes, Request, clientVars
<1>2. Base
  BY DEF Inv
<1>3. tag \in Tags /\ o \in 1..calls /\ o \in 0..calls /\ Asks[r] = One(o) /\ calls \in Nat
  BY <1>1, <1>2, FirstRequest, BaseTypes
<1> HIDE DEF r, tag, o
<1>4. subscribed' \in GoodTables(calls)
  BY <1>1, <1>2, <1>3, SubscribedChanges
<1>5. e.kind = "cancel-ok" /\ e.tag = tag /\ e.object = o /\ e.table = subscribed'
  BY DEF Plain
<1>6. PlainOK("cancel-ok", tag, o, calls, subscribed')
  BY <1>3, <1>4, KindFacts DEF PlainOK
<1> HIDE DEF e
<1>10. e = Plain("cancel-ok", tag, o, subscribed')
  BY DEF e
<1>11. e \in Event
  BY <1>6, <1>10, PlainFacts
<1>7. Legal(e, subscribed)
  BY <1>1, <1>5 DEF Legal, Effect, Changes
<1>8. method(e) = [type |-> "cancel-ok", tag |-> tag]
  BY <1>5 DEF method, Changes
<1>9. Answers[e] = Asks[Head(up)]
  BY <1>3, <1>5, <1>11, AskersValues DEF Replies, r
<1> QED
  BY <1>1, <1>6, <1>7, <1>8, <1>9, <1>10, PlainKeeps

(* A cancel by the server keeps it.                                         *)
LEMMA CancelsKeeps == Inv /\ serverCancels => Inv'
<1> SUFFICES ASSUME Inv, serverCancels PROVE Inv'
  OBVIOUS
<1>1. PICK tag \in Tags :
        /\ subscribed' = [subscribed EXCEPT ![tag] = None]
        /\ down' = Append(down, [type |-> "cancel", tag |-> tag])
  BY DEF serverCancels
<1>2. up' = up /\ UNCHANGED <<consumers, receiver, chain, object, bodies, calls, queue, sent, got>>
  BY DEF serverCancels, clientVars
<1>3. Base /\ calls \in Nat /\ 0 \in 0..calls
  BY BaseTypes DEF Inv
<1> DEFINE e == Plain("cancel", tag, 0, subscribed')
<1>4. subscribed' \in GoodTables(calls)
  BY <1>1, <1>3, SubscribedChanges
<1>5. e.kind = "cancel" /\ e.tag = tag /\ e.table = subscribed'
  BY DEF Plain
<1>6. PlainOK("cancel", tag, 0, calls, subscribed')
  BY <1>3, <1>4, KindFacts DEF PlainOK
<1> HIDE DEF e
<1>10. e = Plain("cancel", tag, 0, subscribed')
  BY DEF e
<1>11. e \in Event
  BY <1>6, <1>10, PlainFacts
<1>7. Legal(e, subscribed)
  BY <1>1, <1>5 DEF Legal, Effect, Changes
<1>8. method(e) = [type |-> "cancel", tag |-> tag]
  BY <1>5 DEF method, Changes
<1>9. Answers[e] = <<>>
  BY <1>5, <1>11, AskersValues DEF Replies
<1> QED
  BY <1>1, <1>2, <1>6, <1>7, <1>8, <1>9, <1>10, PlainKeeps

(* The frames of a message that the server sends.                           *)
LEMMA SendFacts ==
    ASSUME NEW msg \in GoodMessages(bodies), NEW m \in Frame, NEW o, down \in Seq(Frame), Send(m, msg, o)
    PROVE  /\ \E p \in Pieces :
                /\ FlattenSeq(p) = Body(msg.size)
                /\ down' = Cat(down, Cons(m, Cons(Header(msg.size), BodyFrames(p))))
           /\ sent' = Append(sent, [object |-> o, id |-> msg.id])
<1>1. msg.size \in Nat /\ msg.body \in Bytes /\ msg.body = Body(msg.size)
  BY DEF GoodMessages
<1>2. PICK k \in 1..MaxPayload :
        down' = down \o <<m, [type |-> "header", size |-> msg.size]>>
                  \o [i \in DOMAIN Split(msg.body, k) |-> [type |-> "body", piece |-> Split(msg.body, k)[i]]]
  BY DEF Send
<1> DEFINE p == Split(msg.body, k)
           h == Header(msg.size)
           b == BodyFrames(p)
           two == <<m, h>>
<1>3. k \in Nat \ {0}
  BY DeliveryAssumption
<1>4. p \in Pieces /\ FlattenSeq(p) = msg.body
  BY <1>1, <1>3, SplitFacts
<1> HIDE DEF p
<1>5. p \in Seq(Bytes) /\ DOMAIN p = 1..Len(p)
  BY <1>4, PieceFacts, LenProperties
<1>6. b \in Seq(Frame) /\ h \in Frame
  BY <1>1, <1>4, BodyFramesFacts DEF Header, Frame
<1>7. down' = (down \o two) \o b
  BY <1>2, <1>5 DEF p, Header, BodyFrames, BodyFrame
<1> HIDE DEF b, h
<1>8. two \in Seq(Frame) /\ two = One(m) \o One(h) /\ One(m) \in Seq(Frame) /\ One(h) \in Seq(Frame)
  BY <1>6 DEF One
<1> HIDE DEF two
<1>a. two \in Seq(Frame)
  BY <1>8
<1>9. Cat(two, b) = Cons(m, Cons(h, b))
  <2>1. Cat(Cat(One(m), One(h)), b) = Cat(One(m), Cat(One(h), b))
    BY <1>6, <1>8, CatAssociative
  <2>2. Cat(One(h), b) = Cons(h, b) /\ Cons(h, b) \in Seq(Frame)
    BY <1>6, OneInFront, ConsFacts
  <2>3. Cat(One(m), Cons(h, b)) = Cons(m, Cons(h, b))
    BY <2>2, OneInFront
  <2>4. two = Cat(One(m), One(h))
    BY <1>8 DEF Cat
  <2> QED
    BY <2>1, <2>2, <2>3, <2>4
<1>10. Cat(Cat(down, two), b) = Cat(down, Cat(two, b))
  BY <1>6, <1>a, CatAssociative
<1>11. down' = Cat(Cat(down, two), b)
  BY <1>7 DEF Cat
<1>12. down' = Cat(down, Cons(m, Cons(h, b)))
  BY <1>9, <1>10, <1>11
<1>13. sent' = Append(sent, [object |-> o, id |-> msg.id])
  BY DEF Send
<1> QED
  BY <1>1, <1>4, <1>12, <1>13 DEF h, b

(* The event of a message.                                                  *)
Carried(kind, tag, o, msg, p, table) ==
    [kind |-> kind, tag |-> tag, object |-> o, id |-> msg.id, size |-> msg.size, pieces |-> p,
     table |-> table]

CarriedOK(kind, tag, o, n, bs, s, msg, p, table) ==
    /\ kind \in Carriers /\ tag \in Tags \union {None} /\ n \in Nat /\ o \in 0..n
    /\ kind = "deliver" => tag \in Tags
    /\ kind = "return" => o = 0
    /\ msg \in GoodMessages(bs) /\ p \in Pieces /\ FlattenSeq(p) = Body(msg.size)
    /\ table \in GoodTables(n) /\ Occurs(s, o, msg.id)

(* The frames and the place of an event that carries a message.             *)
LEMMA CarriedFacts ==
    ASSUME NEW kind, NEW tag, NEW o, NEW n, NEW bs, NEW s, NEW msg, NEW p, NEW table,
           CarriedOK(kind, tag, o, n, bs, s, msg, p, table),
           NEW e, e = Carried(kind, tag, o, msg, p, table)
    PROVE  /\ e \in GoodEvents(bs, s, n) /\ e \in Event
           /\ e.kind = kind /\ e.tag = tag /\ e.object = o /\ e.table = table
           /\ Packet[e] = Cons(method(e), Cons(Header(msg.size), BodyFrames(p)))
           /\ method(e) = IF kind = "deliver" THEN [type |-> "deliver", tag |-> tag, id |-> msg.id]
                          ELSE [type |-> kind, id |-> msg.id]
           /\ Wish[e] = Keep([object |-> o, id |-> msg.id])
<1>0. /\ kind \in Carriers /\ tag \in Tags \union {None} /\ n \in Nat /\ o \in 0..n
      /\ kind = "deliver" => tag \in Tags
      /\ kind = "return" => o = 0
      /\ msg \in GoodMessages(bs) /\ p \in Pieces /\ FlattenSeq(p) = Body(msg.size)
      /\ table \in GoodTables(n) /\ Occurs(s, o, msg.id)
  BY DEF CarriedOK
<1>1. /\ e.kind = kind /\ e.tag = tag /\ e.object = o /\ e.id = msg.id /\ e.size = msg.size
      /\ e.pieces = p /\ e.table = table
  BY DEF Carried
<1>2. kind \notin Changes /\ kind \in Replies \union Carriers \union Changes /\ kind # "get-empty"
  BY <1>0 DEF Carriers, Replies, Changes
<1>3. table \in Tables
  BY <1>0 DEF GoodTables, Tables
<1>4. msg.id \in Nat /\ msg.size \in Nat /\ Published(msg.id, msg.size, bs)
  BY <1>0 DEF GoodMessages
<1>5. e \in Event
  BY <1>0, <1>2, <1>3, <1>4 DEF Carried, Event
<1>6. e \in GoodEvents(bs, s, n)
  BY <1>0, <1>1, <1>2, <1>4, <1>5 DEF GoodEvents
<1>7. Packet[e] = Cons(method(e), Cons(Header(msg.size), BodyFrames(p)))
  BY <1>0, <1>1, <1>5, PacketFacts DEF Content
<1>8. method(e) = IF kind = "deliver" THEN [type |-> "deliver", tag |-> tag, id |-> msg.id]
                  ELSE [type |-> kind, id |-> msg.id]
  BY <1>1, <1>2 DEF method
<1>9. Keep(e) = Keep([object |-> o, id |-> msg.id])
  BY <1>1 DEF Keep, Known
<1>10. Wish[e] = Keep([object |-> o, id |-> msg.id])
  BY <1>0, <1>1, <1>5, <1>9, WishFacts
<1> QED
  BY <1>1, <1>5, <1>6, <1>7, <1>8, <1>10

(* It is one of the events that the server may send.                        *)
LEMMA CarriedGood ==
    \A kind, tag, o, n, bs, s, msg, p, table :
        CarriedOK(kind, tag, o, n, bs, s, msg, p, table)
        => Carried(kind, tag, o, msg, p, table) \in GoodEvents(bs, s, n)
<1> TAKE kind, tag, o, n, bs, s, msg, p, table
<1> HAVE CarriedOK(kind, tag, o, n, bs, s, msg, p, table)
<1> DEFINE e == Carried(kind, tag, o, msg, p, table)
<1>0. /\ kind \in Carriers /\ tag \in Tags \union {None} /\ n \in Nat /\ o \in 0..n
      /\ kind = "deliver" => tag \in Tags
      /\ kind = "return" => o = 0
      /\ msg \in GoodMessages(bs) /\ p \in Pieces /\ FlattenSeq(p) = Body(msg.size)
      /\ table \in GoodTables(n) /\ Occurs(s, o, msg.id)
  BY DEF CarriedOK
<1>1. /\ e.kind = kind /\ e.tag = tag /\ e.object = o /\ e.id = msg.id /\ e.size = msg.size
      /\ e.pieces = p /\ e.table = table
  BY DEF Carried
<1>2. kind \notin Changes /\ kind \in Replies \union Carriers \union Changes /\ kind # "get-empty"
  BY <1>0 DEF Carriers, Replies, Changes
<1>3. table \in Tables
  BY <1>0 DEF GoodTables, Tables
<1>4. msg.id \in Nat /\ msg.size \in Nat /\ Published(msg.id, msg.size, bs)
  BY <1>0 DEF GoodMessages
<1>5. e \in Event
  BY <1>0, <1>2, <1>3, <1>4 DEF Carried, Event
<1> HIDE DEF e
<1>6. e \in GoodEvents(bs, s, n)
  BY <1>0, <1>1, <1>2, <1>4, <1>5 DEF GoodEvents
<1> QED
  BY <1>6 DEF e

(* A message that is sent keeps it.                                         *)
LEMMA SendKeeps ==
    ASSUME Inv, NEW kind \in Carriers, NEW tag \in Tags \union {None}, NEW o \in 0..calls,
           kind = "deliver" => tag \in Tags /\ subscribed[tag] = o, kind = "return" => o = 0,
           NEW msg \in GoodMessages(bodies),
           NEW m, m = IF kind = "deliver" THEN [type |-> "deliver", tag |-> tag, id |-> msg.id]
                      ELSE [type |-> kind, id |-> msg.id],
           Send(m, msg, o), queue' \in Seq(GoodMessages(bodies)),
           \/ up # <<>> /\ up' = Tail(up) /\ Asks[Head(up)] = IF kind \in Replies THEN One(o) ELSE <<>>
           \/ up' = up /\ kind \notin Replies,
           UNCHANGED <<consumers, receiver, chain, object, bodies, calls, subscribed, got>>
    PROVE  Inv'
<1>1. Base
  BY DEF Inv
<1>2. PICK E \in Seq(Event), rest \in Seq(Frame), pend \in Seq(KnownType) : Match(E, rest, pend)
  BY DEF Inv
<1>3. down \in Seq(Frame)
  BY <1>2, StreamType DEF Match
<1> DEFINE k == [object |-> o, id |-> msg.id]
<1>4. msg.id \in Nat /\ msg.size \in Nat /\ o \in Nat /\ calls \in Nat /\ sent \in Seq(KnownType)
  BY <1>1, BaseTypes DEF GoodMessages, Base
<1>5. m \in Frame
  <2>1. kind # "deliver" => kind \in {"get-ok", "return"}
    BY DEF Carriers
  <2> QED
    BY <1>4, <2>1 DEF Frame
<1>6. PICK p \in Pieces :
        /\ FlattenSeq(p) = Body(msg.size)
        /\ down' = Cat(down, Cons(m, Cons(Header(msg.size), BodyFrames(p))))
  BY <1>3, <1>5, SendFacts
<1>7. sent' = Append(sent, k)
  BY <1>3, <1>5, SendFacts
<1>8. k \in KnownType /\ Occurs(sent', o, msg.id)
  BY <1>4, <1>7, OccursLast DEF KnownType
<1> DEFINE e == Carried(kind, tag, o, msg, p, subscribed)
<1>9. subscribed \in GoodTables(calls)
  BY <1>1 DEF Base
<1> DEFINE S == sent'
<1>10. /\ e = Carried(kind, tag, o, msg, p, subscribed)
       /\ CarriedOK(kind, tag, o, calls, bodies, S, msg, p, subscribed)
  BY <1>4, <1>6, <1>8, <1>9 DEF CarriedOK
<1> HIDE DEF e, S
<1>11. /\ e \in GoodEvents(bodies, S, calls) /\ e \in Event
       /\ e.kind = kind /\ e.tag = tag /\ e.object = o /\ e.table = subscribed
  <2>0. CarriedOK(kind, tag, o, calls, bodies, S, msg, p, subscribed)
    BY <1>10
  <2>1. e \in GoodEvents(bodies, S, calls)
    <3>1. Carried(kind, tag, o, msg, p, subscribed) \in GoodEvents(bodies, S, calls)
      BY <2>0, CarriedGood, Zenon
    <3>2. e = Carried(kind, tag, o, msg, p, subscribed)
      BY <1>10
    <3> QED
      BY <3>1, <3>2, Zenon
  <2>2. e \in Event
    BY <2>1 DEF GoodEvents
  <2>3. e.kind = kind /\ e.tag = tag /\ e.object = o /\ e.table = subscribed
    BY <1>10 DEF Carried
  <2> QED
    BY <2>1, <2>2, <2>3
<1>12. /\ Packet[e] = Cons(method(e), Cons(Header(msg.size), BodyFrames(p)))
       /\ method(e) = IF kind = "deliver" THEN [type |-> "deliver", tag |-> tag, id |-> msg.id]
                      ELSE [type |-> kind, id |-> msg.id]
       /\ Wish[e] = Keep(k)
  BY <1>10, CarriedFacts
<1> HIDE DEF k
<1>13. method(e) = m
  BY <1>12
<1>14. down' = Cat(down, Packet[e]) /\ subscribed' = e.table
  BY <1>6, <1>11, <1>12, <1>13
<1>15. Legal(e, subscribed)
  <2>1. kind \notin Changes /\ kind # "consume-ok"
    BY DEF Carriers, Changes
  <2> QED
    BY <1>11, <2>1 DEF Legal, Effect
<1>16. Answers[e] = IF kind \in Replies THEN One(o) ELSE <<>>
  BY <1>11, AskersValues
<1>17. \/ up # <<>> /\ up' = Tail(up) /\ Answers[e] = Asks[Head(up)]
       \/ up' = up /\ Answers[e] = <<>>
  BY <1>16
<1>18. \E x \in KnownType : sent' = Append(sent, x) /\ Wish[e] = Keep(x)
  BY <1>7, <1>8, <1>12
<1>19. e \in GoodEvents(bodies, sent', calls) /\ subscribed' \in GoodTables(calls)
  BY <1>9, <1>11 DEF S
<1> QED
  BY <1>14, <1>15, <1>17, <1>18, <1>19, EventKeeps

(* What the server makes of a message that was published.                   *)
LEMMA StoredFacts ==
    ASSUME Base, up # <<>>, Head(up).type = "publish"
    PROVE  Stored(Head(up)) \in GoodMessages(bodies) /\ Stored(Head(up)).id = Head(up).id
<1> DEFINE r == Head(up)
           m == [id |-> r.id, size |-> r.size, body |-> FlattenSeq(r.pieces)]
<1>1. r \in GoodRequests(bodies, calls) /\ r.type = "publish"
  BY FirstRequest
<1> HIDE DEF r
<1>2. r \in Publishing /\ Published(r.id, r.size, bodies) /\ FlattenSeq(r.pieces) = Body(r.size)
  BY <1>1 DEF GoodRequests, Requests, Asking
<1>3. r.id \in Nat /\ r.size \in Nat /\ r.pieces \in Pieces
  BY <1>2 DEF Publishing
<1>4. FlattenSeq(r.pieces) \in Bytes
  BY <1>3, PieceFacts
<1>5. m \in GoodMessages(bodies)
  BY <1>2, <1>3, <1>4 DEF GoodMessages
<1> QED
  BY <1>5 DEF Stored, r

(* A message that is put into the queue keeps it.                           *)
LEMMA RoutesKeeps == Inv /\ serverRoutes => Inv'
<1> SUFFICES ASSUME Inv, serverRoutes PROVE Inv'
  OBVIOUS
<1>1. Base
  BY DEF Inv
<1>2. PICK E \in Seq(Event), rest \in Seq(Frame), pend \in Seq(KnownType) : Match(E, rest, pend)
  BY DEF Inv
<1>3. /\ up # <<>> /\ Head(up).type = "publish" /\ up' = Tail(up)
      /\ queue' = Append(queue, Stored(Head(up)))
      /\ consumers' = consumers /\ receiver' = receiver /\ chain' = chain /\ object' = object
      /\ bodies' = bodies /\ calls' = calls /\ down' = down /\ subscribed' = subscribed
      /\ sent' = sent /\ got' = got
  BY DEF serverRoutes, Request, clientVars
<1>4. queue' \in Seq(GoodMessages(bodies))
  BY <1>1, <1>3, StoredFacts, AppendProperties DEF Base
<1>5. up' \in Seq(GoodRequests(bodies, calls)) /\ Asks[Head(up)] = <<>>
  BY <1>1, <1>3, FirstRequest
<1>6. Askers(E, up', chain)
  <2>1. Askers(E, up, chain)
    BY <1>2 DEF Match
  <2> QED
    BY <1>1, <1>3, <1>5, <2>1, BaseTypes, AskersTake
<1>7. Base'
  BY <1>1, <1>3, <1>4, <1>5 DEF Base
<1>8. Match(E, rest, pend)'
  BY <1>2, <1>3, <1>6 DEF Match
<1> QED
  BY <1>7, <1>8 DEF Inv

(* A message that is returned keeps it.                                     *)
LEMMA ReturnsKeeps == Inv /\ serverReturns => Inv'
<1> SUFFICES ASSUME Inv, serverReturns PROVE Inv'
  OBVIOUS
<1>1. Base /\ 0 \in 0..calls
  BY BaseTypes DEF Inv
<1> DEFINE msg == Stored(Head(up))
           m == [type |-> "return", id |-> Head(up).id]
<1>2. /\ up # <<>> /\ Head(up).type = "publish" /\ up' = Tail(up)
      /\ Send(m, msg, 0) /\ queue' = queue
      /\ UNCHANGED <<consumers, receiver, chain, object, bodies, calls, subscribed, got>>
  BY DEF serverReturns, Request, clientVars
<1>3. msg \in GoodMessages(bodies) /\ msg.id = Head(up).id
  BY <1>1, <1>2, StoredFacts
<1>4. m = [type |-> "return", id |-> msg.id]
  BY <1>3
<1> HIDE DEF m, msg
<1>5. Asks[Head(up)] = <<>> /\ queue' \in Seq(GoodMessages(bodies))
  BY <1>1, <1>2, FirstRequest DEF Base
<1>6. "return" \in Carriers /\ "return" \notin Replies
  BY DEF Carriers, Replies
<1> QED
  BY <1>1, <1>2, <1>3, <1>4, <1>5, <1>6, SendKeeps

(* A message that is delivered keeps it.                                    *)
LEMMA DeliversKeeps == Inv /\ serverDelivers => Inv'
<1> SUFFICES ASSUME Inv, serverDelivers PROVE Inv'
  OBVIOUS
<1>1. Base
  BY DEF Inv
<1> DEFINE msg == Head(queue)
<1>2. PICK tag \in Tags :
        /\ subscribed[tag] # None
        /\ Send([type |-> "deliver", tag |-> tag, id |-> msg.id], msg, subscribed[tag])
  BY DEF serverDelivers
<1>3. /\ queue # <<>> /\ queue' = Tail(queue) /\ up' = up
      /\ UNCHANGED <<consumers, receiver, chain, object, bodies, calls, subscribed, got>>
  BY DEF serverDelivers, clientVars
<1>4. msg \in GoodMessages(bodies) /\ queue' \in Seq(GoodMessages(bodies))
  BY <1>1, <1>3, HeadAndTail DEF Base
<1> HIDE DEF msg
<1> DEFINE o == subscribed[tag]
           m == [type |-> "deliver", tag |-> tag, id |-> msg.id]
<1>5. o \in 0..calls
  <2>1. o \in {None} \union 1..calls
    BY <1>1 DEF Base, GoodTables
  <2> QED
    BY <1>1, <1>2, <2>1, BaseTypes
<1>6. Send(m, msg, o)
  BY <1>2
<1>7. m = [type |-> "deliver", tag |-> tag, id |-> msg.id] /\ subscribed[tag] = o
  OBVIOUS
<1> HIDE DEF m, o
<1>8. "deliver" \in Carriers /\ "deliver" \notin Replies
  BY DEF Carriers, Replies
<1> QED
  BY <1>3, <1>4, <1>5, <1>6, <1>7, <1>8, SendKeeps

(* The answer to get() keeps it, with and without a message.                *)
LEMMA GetsKeeps == Inv /\ serverGets => Inv'
<1> SUFFICES ASSUME Inv, serverGets PROVE Inv'
  OBVIOUS
<1>1. Base /\ calls \in Nat
  BY BaseTypes DEF Inv
<1> DEFINE o == Head(up).object
<1>2. /\ up # <<>> /\ Head(up).type = "get" /\ up' = Tail(up)
      /\ UNCHANGED <<consumers, receiver, chain, object, bodies, calls, subscribed, got>>
  BY DEF serverGets, Request, clientVars
<1>3. o \in 0..calls /\ Asks[Head(up)] = One(o)
  BY <1>1, <1>2, FirstRequest
<1>4. CASE queue # <<>>
  <2> DEFINE msg == Head(queue)
             m == [type |-> "get-ok", id |-> msg.id]
  <2>1. Send(m, msg, o) /\ queue' = Tail(queue)
    BY <1>4 DEF serverGets
  <2>2. msg \in GoodMessages(bodies) /\ queue' \in Seq(GoodMessages(bodies))
    BY <1>1, <1>4, <2>1, HeadAndTail DEF Base
  <2>3. m = [type |-> "get-ok", id |-> msg.id]
    OBVIOUS
  <2> HIDE DEF msg, m, o
  <2>4. "get-ok" \in Carriers /\ "get-ok" \in Replies
    BY DEF Carriers, Replies
  <2> QED
    BY <1>2, <1>3, <2>1, <2>2, <2>3, <2>4, SendKeeps
<1>5. CASE queue = <<>>
  <2> DEFINE e == Plain("get-empty", None, o, subscribed')
  <2>1. down' = Append(down, [type |-> "get-empty"]) /\ queue' = queue /\ sent' = sent
    BY <1>5 DEF serverGets
  <2>2. subscribed' \in GoodTables(calls)
    BY <1>1, <1>2 DEF Base
  <2> HIDE DEF o
  <2>3. e.kind = "get-empty" /\ e.object = o /\ e.table = subscribed'
    BY DEF Plain
  <2>4. PlainOK("get-empty", None, o, calls, subscribed')
    BY <1>1, <1>3, <2>2, KindFacts DEF PlainOK
  <2> HIDE DEF e
  <2>8. e = Plain("get-empty", None, o, subscribed')
    BY DEF e
  <2>9. e \in Event
    BY <2>4, <2>8, PlainFacts
  <2>5. Legal(e, subscribed)
    BY <1>2, <2>3 DEF Legal, Effect, Changes
  <2>6. method(e) = [type |-> "get-empty"]
    BY <2>3 DEF method, Changes
  <2>7. Answers[e] = Asks[Head(up)]
    BY <1>3, <2>3, <2>9, AskersValues DEF Replies
  <2> QED
    BY <1>2, <2>1, <2>4, <2>5, <2>6, <2>7, <2>8, PlainKeeps
<1> QED
  BY <1>4, <1>5

(* Every step of the server keeps it.                                       *)
LEMMA ServerKeeps == Inv /\ Server => Inv'
BY RoutesKeeps, ReturnsKeeps, DeliversKeeps, SubscribesKeeps, UnsubscribesKeeps, CancelsKeeps,
   GetsKeeps DEF Server

(* Every step keeps it.                                                     *)
LEMMA NextKeeps == Inv /\ [Next]_vars => Inv'
<1> SUFFICES ASSUME Inv, [Next]_vars PROVE Inv'
  OBVIOUS
<1>1. CASE UNCHANGED vars
  <2>1. /\ consumers' = consumers /\ receiver' = receiver /\ chain' = chain /\ object' = object
        /\ bodies' = bodies /\ calls' = calls /\ up' = up /\ down' = down
        /\ queue' = queue /\ subscribed' = subscribed /\ sent' = sent /\ got' = got
    BY <1>1 DEF vars, clientVars, serverVars
  <2>2. Base'
    BY <2>1 DEF Inv, Base
  <2>3. PICK E \in Seq(Event), rest \in Seq(Frame), pend \in Seq(KnownType) : Match(E, rest, pend)
    BY DEF Inv
  <2>4. Match(E, rest, pend)'
    BY <2>1, <2>3 DEF Match
  <2> QED
    BY <2>2, <2>4 DEF Inv
<1>2. CASE Application
  BY <1>2, ApplicationKeeps
<1>3. CASE Frames
  BY <1>3, FramesKeep
<1>4. CASE Server
  BY <1>4, ServerKeeps
<1> QED
  BY <1>1, <1>2, <1>3, <1>4 DEF Next

-----------------------------------------------------------------------------
(* What the invariant says of the types, of the messages and of who         *)
(* receives them.                                                           *)

(* When no frame is on its way, there is neither a rest nor an event.       *)
LEMMA StreamEmpty ==
    ASSUME NEW E \in Seq(Event), NEW rest \in Seq(Frame), NEW d, Stream(E, rest, d), d = <<>>
    PROVE  rest = <<>> /\ E = <<>>
<1> DEFINE a == Flat(Packet, E)
<1>1. a \in Seq(Frame)
  BY PacketFacts, EachType
<1>2. ASSUME rest # <<>> PROVE FALSE
  <2> DEFINE h == Head(rest)
             t == Tail(rest)
  <2>1. h \in Frame /\ t \in Seq(Frame) /\ rest = Cons(h, t)
    BY <1>2, HeadAndTail
  <2> HIDE DEF a, h, t
  <2>2. d = Cat(Cons(h, t), a)
    BY <2>1 DEF Stream, a
  <2>3. h \in Frame /\ t \in Seq(Frame)
    BY <2>1
  <2>4. Pops(d, h, Cat(t, a))
    BY <1>1, <2>2, <2>3, ConsInFront
  <2> QED
    BY <2>4 DEF Pops
<1>3. ASSUME E # <<>> PROVE FALSE
  <2> DEFINE e == Head(E)
             F == Tail(E)
             b == Flat(Packet, F)
             m == method(e)
             c == Content(e)
  <2>1. e \in Event /\ F \in Seq(Event) /\ E = Cons(e, F)
    BY <1>3, HeadAndTail
  <2> HIDE DEF e, F
  <2>2. b \in Seq(Frame) /\ m \in Frame /\ c \in Seq(Frame) /\ Packet[e] = Cons(m, c)
    BY <2>1, PacketFacts, MethodFacts, EachType
  <2>3. a = Cat(Packet[e], b)
    BY <2>1, PacketFacts, FlatCons
  <2>4. d = a
    BY <1>1, <1>2, CatFacts DEF Stream
  <2> HIDE DEF a, b, m, c
  <2>5. d = Cat(Cons(m, c), b)
    BY <2>2, <2>3, <2>4
  <2>6. Pops(d, m, Cat(c, b))
    BY <2>2, <2>5, ConsInFront
  <2> QED
    BY <2>6 DEF Pops
<1> QED
  BY <1>2, <1>3

(* Then no message is half received either.                                 *)
LEMMA NothingPending ==
    ASSUME NEW pend, NEW r, NEW ob, NEW bs, NEW s, NEW n, Current(<<>>, pend, r, ob, bs, s, n)
    PROVE  pend = <<>>
<1>1. ASSUME Receiving(<<>>, pend, r, ob, bs, s, n) PROVE FALSE
  <2>1. PICK id \in Nat, size \in Nat, p \in Pieces :
          Starting(<<>>, ob[r], id, size, p) \/ Filling(<<>>, ob[r], id, size, p)
    BY <1>1 DEF Receiving
  <2> QED
    BY <2>1, FirstOfRest DEF Pops
<1> QED
  BY <1>1 DEF Current, Idle

(* An object is quiet, or it is the receiver and has room for what lacks.   *)
Fits(x) == /\ x.bodySize \in 0..(Width - 1) /\ x.bodySize <= x.message.size
           /\ Len(x.message.body) <= x.message.size

(* An object at rest.                                                       *)
LEMMA QuietFits ==
    ASSUME NEW x, Quiet(x)
    PROVE  Fits(x) /\ x.message.size = 0
<1>1. x.bodySize = 0 /\ x.message.size = 0 /\ x.message.body = <<>>
  BY DEF Quiet, NoMessage
<1>2. 0 \in 0..(Width - 1) /\ Len(<<>>) = 0
  BY DeliveryAssumption, EmptySeq
<1> QED
  BY <1>1, <1>2 DEF Fits

(* An object that waits for the header.                                     *)
LEMMA StartingFits ==
    ASSUME NEW rest, NEW x, NEW id, NEW size, NEW p, Starting(rest, x, id, size, p)
    PROVE  Fits(x)
<1>1. x.bodySize = 0 /\ x.message.size = 0 /\ x.message.body = <<>>
  BY DEF Starting
<1>2. 0 \in 0..(Width - 1) /\ Len(<<>>) = 0
  BY DeliveryAssumption, EmptySeq
<1> QED
  BY <1>1, <1>2 DEF Fits

(* An object that waits for pieces: those it has and those it lacks are     *)
(* the body.                                                                *)
LEMMA FillingFits ==
    ASSUME NEW rest, NEW x \in ObjectType, NEW id, NEW size \in Sizes, NEW p \in Pieces,
           Filling(rest, x, id, size, p)
    PROVE  Fits(x)
<1> DEFINE a == x.data
           b == FlattenSeq(p)
<1>1. a \in Seq(Nat)
  BY DEF ObjectType, Bytes
<1>2. b \in Seq(Nat)
  BY PieceFacts DEF Bytes
<1>3. size \in Nat /\ size < Width /\ Width \in Nat
  BY SizeFacts, DeliveryAssumption
<1>4. x.bodySize = Len(b) /\ x.message.size = size /\ x.message.body = a /\ a \o b = Body(size)
  BY DEF Filling, Cat
<1> HIDE DEF a, b
<1>5. Len(a \o b) = Len(a) + Len(b) /\ Len(a) \in Nat /\ Len(b) \in Nat
  BY <1>1, <1>2, ConcatProperties, LenProperties
<1>6. Len(Body(size)) = size
  BY <1>3, BodyFacts
<1>7. Len(a) + Len(b) = size
  BY <1>4, <1>5, <1>6
<1>8. Len(b) \in 0..(Width - 1) /\ Len(b) <= size /\ Len(a) <= size
  BY <1>3, <1>5, <1>7
<1> QED
  BY <1>4, <1>8 DEF Fits

(* The unsigned subtraction in DeferredReceiver::process never wraps        *)
(* around.                                                                  *)
LEMMA InvTypes == Inv => TypeOK
<1> SUFFICES ASSUME Inv PROVE TypeOK
  OBVIOUS
<1>1. Base
  BY DEF Inv
<1>2. PICK E \in Seq(Event), rest \in Seq(Frame), pend \in Seq(KnownType) : Match(E, rest, pend)
  BY DEF Inv
<1>3. Current(rest, pend, receiver, object, bodies, sent, calls)
  BY <1>2 DEF Match
<1>4. consumers \in [Tags -> {None} \union 1..calls]
  BY <1>1 DEF Base, GoodTables
<1>5. /\ receiver \in {None} \union 0..calls
      /\ \A o \in 0..MaxCalls : Fits(object[o]) /\ (object[o].message.size # 0 => o = receiver)
  <2>1. CASE Idle(rest, pend, receiver, object)
    <3>1. receiver = None /\ \A o \in 0..MaxCalls : Quiet(object[o])
      BY <2>1 DEF Idle
    <3> QED
      BY <3>1, QuietFits
  <2>2. CASE Receiving(rest, pend, receiver, object, bodies, sent, calls)
    <3>1. PICK id \in Nat, size \in Nat, p \in Pieces :
            /\ receiver \in 0..calls /\ OthersQuiet(object, receiver)
            /\ Published(id, size, bodies)
            /\ \/ Starting(rest, object[receiver], id, size, p)
               \/ Filling(rest, object[receiver], id, size, p)
      BY <2>2 DEF Receiving
    <3>2. receiver \in 0..MaxCalls
      BY <1>1, <3>1, BaseTypes
    <3>3. object[receiver] \in ObjectType /\ size \in Sizes
      BY <1>1, <3>1, <3>2 DEF Base, Objects, Published
    <3>4. Fits(object[receiver])
      BY <3>1, <3>3, StartingFits, FillingFits
    <3>5. \A o \in 0..MaxCalls : o # receiver => Fits(object[o]) /\ object[o].message.size = 0
      BY <3>1, QuietFits DEF OthersQuiet
    <3> QED
      BY <3>1, <3>4, <3>5
  <2> QED
    BY <1>3, <2>1, <2>2 DEF Current
<1> QED
  BY <1>4, <1>5 DEF TypeOK, Fits

(* What was handed over was published, and sent to this object.             *)
LEMMA GotFacts ==
    ASSUME Inv, NEW i \in DOMAIN got
    PROVE  /\ got[i].id \in 1..Len(bodies) /\ got[i].body = Body(bodies[got[i].id])
           /\ got[i].data = got[i].body /\ Occurs(sent, got[i].object, got[i].id)
<1>1. got \in Seq(GoodGot(bodies, sent))
  BY DEF Inv, Base
<1>2. DOMAIN got = 1..Len(got)
  BY <1>1, LenProperties
<1>3. got[i] \in GoodGot(bodies, sent)
  BY <1>1, <1>2, ElementOfSeq
<1> QED
  BY <1>3 DEF GoodGot

(* Messages are intact.                                                     *)
LEMMA InvIntact == Inv => Intact
<1> SUFFICES ASSUME Inv, NEW i \in DOMAIN got
             PROVE  /\ got[i].id \in DOMAIN bodies
                    /\ got[i].body = Body(bodies[got[i].id])
                    /\ got[i].data = got[i].body
  BY DEF Intact
<1>1. bodies \in Seq(Sizes)
  BY DEF Inv, Base
<1>2. DOMAIN bodies = 1..Len(bodies)
  BY <1>1, LenProperties
<1> QED
  BY <1>2, GotFacts

(* Messages reach the right receiver.                                       *)
LEMMA InvReceiver == Inv => RightReceiver
<1> SUFFICES ASSUME Inv PROVE RightReceiver
  OBVIOUS
<1>1. Base
  BY DEF Inv
<1>2. PICK E \in Seq(Event), rest \in Seq(Frame), pend \in Seq(KnownType) : Match(E, rest, pend)
  BY DEF Inv
<1>3. /\ Stream(E, rest, down) /\ Report(E, pend, got, sent)
      /\ Current(rest, pend, receiver, object, bodies, sent, calls)
  BY <1>2 DEF Match
<1>4. got \in Seq(GotType) /\ sent \in Seq(KnownType)
  BY <1>1, BaseTypes DEF Base
<1>5. IsPrefix(Wanted(got), Wanted(sent))
  BY <1>3, <1>4, ReportPrefix
<1>6. ASSUME down = <<>> PROVE Wanted(got) = Wanted(sent)
  <2>1. rest = <<>> /\ E = <<>>
    BY <1>3, <1>6, StreamEmpty
  <2>2. pend = <<>>
    BY <1>3, <2>1, NothingPending
  <2> QED
    BY <1>3, <1>4, <2>1, <2>2, ReportPrefix
<1>7. ASSUME NEW i \in DOMAIN got PROVE \E j \in DOMAIN sent : sent[j] = Known(got[i])
  <2>1. Occurs(sent, got[i].object, got[i].id)
    BY GotFacts
  <2>2. DOMAIN sent = 1..Len(sent)
    BY <1>4, LenProperties
  <2> QED
    BY <2>1, <2>2 DEF Occurs, Known
<1> QED
  BY <1>5, <1>6, <1>7 DEF RightReceiver

-----------------------------------------------------------------------------
(* The frames on their way are those of a list of events that explains the  *)
(* chain, the consumers and the messages handed over.                       *)
THEOREM DeliveryInvariance == Spec => []Inv
<1>1. Inv /\ [Next]_vars => Inv'
  BY NextKeeps
<1> QED
  BY InitInv, <1>1, PTL DEF Spec

(* DeferredReceiver never counts below zero and never takes more than the   *)
(* header announced, whatever the sizes of the frames.                      *)
THEOREM DeliveryTypes == Spec => []TypeOK
BY DeliveryInvariance, InvTypes, PTL

(* A message that complete() hands over is the one that was published.      *)
THEOREM MessagesIntact == Spec => []Intact
BY DeliveryInvariance, InvIntact, PTL

(* Every message reaches the object for which the server sent it, once and  *)
(* in order.                                                                *)
THEOREM RightReceivers == Spec => []RightReceiver
BY DeliveryInvariance, InvReceiver, PTL
=============================================================================
