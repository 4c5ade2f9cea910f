--------------------------- MODULE ChannelProofs ---------------------------
(***************************************************************************)
(* Proofs about Channel, for every set of requests, every number of calls, *)
(* with and without errors of the server and of the connection:            *)
(*   - the type invariant;                                                 *)
(*   - a closed channel has settled every deferred (ClosedIsSettled), from *)
(*     the inductive invariant Settling;                                   *)
(*   - the order of the frames on the wire (InOrder, NothingAfterClose);   *)
(*   - one question at a time, the right answer to each, and final         *)
(*     outcomes (OneAtATime, AnswersMatch, ResolvedOnce), for a well       *)
(*     behaved application: see the second half.                           *)
(* One lemma per operator that the actions are built from says what the    *)
(* operator keeps; the step lemmas then go through the actions.            *)
(***************************************************************************)
EXTENDS Channel, SequenceTheorems, TLAPS

Inv == TypeOK /\ Settling

-----------------------------------------------------------------------------
(* The kinds of frames that the channel and the server use are frames of    *)
(* the catalogue (channelimpl.cpp constructs them by name).                 *)
LEMMA ChannelKinds ==
    {"ChannelOpen", "ChannelCloseOK", "BasicPublish", "BasicHeader", "Body",
     "ChannelClose", "BasicGetOK", "BasicGetEmpty", "BasicGet"} \subseteq Kinds
BY DEF Kinds, Catalogue

(* Every answer of the server is a frame of the catalogue.                  *)
LEMMA AnswerKinds == \A k \in DOMAIN AnswerOf : AnswerOf[k] \in Kinds
BY DEF Kinds, Catalogue, AnswerOf

(* A function over the first n numbers is a sequence.                       *)
LEMMA FunctionIsSeq ==
    ASSUME NEW S, NEW n \in Nat, NEW f \in [1..n -> S]
    PROVE  f \in Seq(S) /\ Len(f) = n
BY SeqDef

(* Tuples of one, two and three elements are sequences.                     *)
LEMMA TupleIsSeq ==
    ASSUME NEW S, NEW a \in S, NEW b \in S, NEW c \in S
    PROVE  <<a>> \in Seq(S) /\ <<a, b>> \in Seq(S) /\ <<a, b, c>> \in Seq(S)
OBVIOUS

(* The frame of a call, and the answer to one, are well typed.              *)
LEMMA FrameTyped ==
    ASSUME NEW kind \in Kinds, NEW n \in Nat, NEW b \in BOOLEAN
    PROVE  Frame(kind, n, b) \in FrameType /\ Answer(kind, n, b) \in AnswerType
BY DEF Frame, FrameType, Answer, AnswerType

(* Whether a frame exceeds the maximum is a Boolean.                        *)
LEMMA SizesBoolean == \A kind : Sizes(kind) \subseteq BOOLEAN
BY DEF Sizes

(* ChannelImpl::send keeps the types of the queue and the wire, and leaves  *)
(* a closed channel alone.                                                  *)
LEMMA SendKeeps ==
    ASSUME TypeOK, NEW f \in FrameType, NEW ok \in BOOLEAN, send(f, ok)
    PROVE  /\ queue' \in Seq(FrameType) /\ toServer' \in Seq(FrameType)
           /\ synchronous' \in BOOLEAN
           /\ state = "closed" => UNCHANGED <<queue, synchronous>>
<1>1. Append(queue, f) \in Seq(FrameType) /\ Append(toServer, f) \in Seq(FrameType)
  BY AppendProperties DEF TypeOK
<1>2. (f.kind \in SynchronousKinds) \in BOOLEAN  OBVIOUS
<1> QED  BY <1>1, <1>2 DEF TypeOK, send, usable

(* The frames of a message are queued or sent in the same way.              *)
LEMMA SendAllKeeps ==
    ASSUME TypeOK, NEW fs \in Seq(FrameType), NEW ok \in BOOLEAN, sendAll(fs, ok)
    PROVE  /\ queue' \in Seq(FrameType) /\ toServer' \in Seq(FrameType)
           /\ synchronous' \in BOOLEAN
           /\ state = "closed" => UNCHANGED <<queue, synchronous>>
<1>1. ASSUME NEW k \in 0..Len(fs)
      PROVE  SubSeq(fs, 1, k) \in Seq(FrameType)
  BY SubSeqProperties, ElementOfSeq
<1>2. queue \in Seq(FrameType) /\ toServer \in Seq(FrameType) /\ synchronous \in BOOLEAN
  BY DEF TypeOK
<1>3. queue \o fs \in Seq(FrameType)  BY <1>2, ConcatProperties
<1>4. ASSUME NEW k \in 0..Len(fs)
      PROVE  toServer \o SubSeq(fs, 1, k) \in Seq(FrameType)
  BY <1>1, <1>2, ConcatProperties
<1> QED  BY <1>2, <1>3, <1>4 DEF sendAll, usable

(* ChannelImpl::flush keeps the types, and has nothing to do on a channel   *)
(* with an empty queue.                                                     *)
LEMMA FlushKeeps ==
    ASSUME TypeOK, flush
    PROVE  /\ queue' \in Seq(FrameType) /\ toServer' \in Seq(FrameType)
           /\ synchronous' \in BOOLEAN
<1>1. ASSUME NEW k \in 0..Len(queue)
      PROVE  SubSeq(queue, 1, k) \in Seq(FrameType) /\ SubSeq(queue, k + 1, Len(queue)) \in Seq(FrameType)
  <2>1. queue \in Seq(FrameType) /\ Len(queue) \in Nat  BY LenProperties DEF TypeOK
  <2>2. \A i \in 1..k : queue[i] \in FrameType  BY <2>1, ElementOfSeq
  <2>3. \A i \in (k + 1)..Len(queue) : queue[i] \in FrameType  BY <2>1, ElementOfSeq
  <2> QED  BY <2>1, <2>2, <2>3, SubSeqProperties
<1>2. queue # <<>> => Tail(queue) \in Seq(FrameType)  BY HeadTailProperties DEF TypeOK
<1>3. CASE Relays
  <2>1. PICK k \in 0..Len(queue) :
              /\ toServer' = toServer \o SubSeq(queue, 1, k)
              /\ queue' = SubSeq(queue, k + 1, Len(queue))
              /\ synchronous' = (k > 0 /\ queue[k].kind \in SynchronousKinds)
    BY <1>3 DEF flush
  <2> QED  BY <2>1, <1>1, ConcatProperties DEF TypeOK
<1>4. CASE ~Relays
  BY <1>2, <1>4, EmptySeq DEF TypeOK, flush
<1> QED  BY <1>3, <1>4

-----------------------------------------------------------------------------
(* A call of the application was recorded, with a deferred on the chain or  *)
(* (ack, reject, publish) without one.                                      *)
CallAdded ==
    /\ calls' \in Seq(CallType)
    /\ Len(calls') = Len(calls) + 1
    /\ \A n \in 1..Len(calls) : calls'[n] = calls[n]
    /\ calls'[Len(calls) + 1].at = state
    /\ chain' \in Seq(Nat)
    /\ \/ chain' = chain /\ calls'[Len(calls) + 1].result = "none"
       \/ chain' = Append(chain, Len(calls) + 1)

(* ChannelImpl::push records the call and chains its deferred.              *)
LEMMA PushAdds ==
    ASSUME TypeOK, state # "unattached", NEW kind \in Kinds, NEW ok \in BOOLEAN, push(kind, ok)
    PROVE  CallAdded
<1> DEFINE c == Call(kind, IF ok THEN "pending" ELSE "error")
<1>1. c \in CallType /\ c.at = state  BY DEF Call, CallType, Deferreds, TypeOK
<1>2. Len(calls) \in Nat  BY LenProperties DEF TypeOK
<1>3. calls' = Append(calls, c) /\ chain' = Append(chain, Len(calls) + 1)  BY DEF push
<1> HIDE DEF c
<1>4. chain' \in Seq(Nat)  BY <1>2, <1>3, AppendProperties DEF TypeOK
<1> QED  BY <1>1, <1>2, <1>3, <1>4, AppendProperties DEF TypeOK, CallAdded

(* A call that returns a bool is recorded without a deferred.               *)
LEMMA NotifyAdds ==
    ASSUME TypeOK, state # "unattached", NEW kind \in Kinds,
           calls' = Append(calls, Call(kind, "none")), UNCHANGED chain
    PROVE  CallAdded
<1> DEFINE c == Call(kind, "none")
<1>1. c \in CallType /\ c.at = state /\ c.result = "none"  BY DEF Call, CallType, Deferreds, TypeOK
<1>2. Len(calls) \in Nat  BY LenProperties DEF TypeOK
<1>3. calls' = Append(calls, c)  OBVIOUS
<1> HIDE DEF c
<1> QED  BY <1>1, <1>2, <1>3, AppendProperties DEF TypeOK, CallAdded

(* A call that is made on a channel keeps the invariant: on a closed one    *)
(* the deferred was not handed out before, on an open one it is chained.    *)
LEMMA CallKeeps ==
    ASSUME Inv, CallAdded, state # "unattached",
           state' = state \/ (state # "closed" /\ state' = "closing"),
           UNCHANGED <<linked, active, after>>,
           state = "closed" => UNCHANGED <<queue, synchronous>>
    PROVE  Settling'
<1> DEFINE N == Len(calls)
<1>1. N \in Nat /\ Len(chain) \in Nat  BY LenProperties DEF Inv, TypeOK
<1>2. \A n \in 1..Len(calls') : n \in 1..N \/ n = N + 1  BY <1>1 DEF CallAdded
<1>3. \A i \in 1..Len(chain) : i \in 1..Len(chain') /\ chain'[i] = chain[i]
  <2>1. CASE chain' = chain  BY <2>1
  <2>2. CASE chain' = Append(chain, N + 1)  BY <1>1, <2>2, AppendProperties DEF Inv, TypeOK
  <2> QED  BY <2>1, <2>2 DEF CallAdded
<1>4. \A i \in 1..Len(chain') : chain'[i] \in 1..Len(calls')
  <2>1. CASE chain' = chain  BY <1>1, <2>1 DEF Inv, Settling, CallAdded
  <2>2. CASE chain' = Append(chain, N + 1)
    <3>1. Len(chain') = Len(chain) + 1 /\ chain'[Len(chain) + 1] = N + 1
      BY <1>1, <2>2, AppendProperties DEF Inv, TypeOK
    <3>2. ASSUME NEW i \in 1..Len(chain')
          PROVE  chain'[i] \in 1..(N + 1)
      <4>1. CASE i = Len(chain) + 1  BY <1>1, <3>1, <4>1
      <4>2. CASE i \in 1..Len(chain)  BY <1>1, <1>3, <4>2 DEF Inv, Settling
      <4> QED  BY <1>1, <3>1, <4>1, <4>2
    <3> QED  BY <3>2 DEF CallAdded
  <2> QED  BY <2>1, <2>2 DEF CallAdded
<1>5. \A n \in 1..N : Unsettled(n)' <=> Unsettled(n)  BY <1>1 DEF Unsettled, CallAdded
<1>6. state = "closed" => \A n : n = N + 1 => ~Unsettled(n)'  BY DEF Unsettled, CallAdded
<1>7. ASSUME NEW n \in 1..Len(calls'), Unsettled(n)'
      PROVE  n \in ChainIds(chain')
  <2>1. CASE n \in 1..N
    <3>1. n \in ChainIds(chain)  BY <1>5, <1>7, <2>1 DEF Inv, Settling
    <3>2. DOMAIN chain = 1..Len(chain) /\ DOMAIN chain' = 1..Len(chain')
      BY LenProperties DEF Inv, TypeOK, CallAdded
    <3> QED  BY <1>3, <3>1, <3>2 DEF ChainIds
  <2>2. CASE n = N + 1
    <3>1. chain' = Append(chain, N + 1)  BY <1>7, <2>2 DEF Unsettled, CallAdded
    <3>2. Len(chain') = Len(chain) + 1 /\ chain'[Len(chain) + 1] = N + 1
      BY <1>1, <3>1, AppendProperties DEF Inv, TypeOK
    <3>3. Len(chain) + 1 \in DOMAIN chain'  BY <1>1, <3>2, LenProperties DEF CallAdded
    <3> QED  BY <2>2, <3>2, <3>3 DEF ChainIds
  <2> QED  BY <1>2, <2>1, <2>2
<1>8. ClosedIsSettled'  BY <1>2, <1>5, <1>6 DEF Inv, Settling, ClosedIsSettled
<1>9. active' # 0 => active' \in 1..Len(calls') /\ calls'[active'].result # "pending"
  BY <1>1 DEF Inv, Settling, CallAdded
<1>10. active' # 0 /\ (chain' = <<>> \/ Head(chain') # active') =>
          state' = "closed" /\ \A n \in 1..Len(calls') : ~Unsettled(n)'
  <2> SUFFICES ASSUME active' # 0, chain' = <<>> \/ Head(chain') # active'
               PROVE  state' = "closed" /\ \A n \in 1..Len(calls') : ~Unsettled(n)'
    OBVIOUS
  <2>1. chain = <<>> \/ Head(chain) # active
    <3> SUFFICES ASSUME chain # <<>>  PROVE Head(chain) # active  OBVIOUS
    <3>1. 1 \in 1..Len(chain)  BY <1>1, EmptySeq DEF Inv, TypeOK
    <3>2. chain' # <<>> /\ Head(chain') = Head(chain)
      BY <1>1, <1>3, <3>1, EmptySeq DEF Inv, TypeOK, CallAdded
    <3> QED  BY <3>2
  <2>2. state = "closed" /\ \A n \in 1..N : ~Unsettled(n)  BY <2>1 DEF Inv, Settling
  <2> QED  BY <1>2, <1>5, <1>6, <2>2
<1> QED  BY <1>4, <1>7, <1>8, <1>9, <1>10 DEF Inv, Settling

-----------------------------------------------------------------------------
(* ChannelImpl::reportError settles everything, provided that the chain it  *)
(* walks holds every open deferred.                                         *)
LEMMA ErrorSettles ==
    ASSUME Inv, NEW rest, reportError(rest),
           \A n \in 1..Len(calls) : Unsettled(n) => n \in ChainIds(rest)
    PROVE  /\ calls' \in Seq(CallType) /\ Len(calls') = Len(calls)
           /\ \A n \in 1..Len(calls') : ~Unsettled(n)'
           /\ \A n \in 1..Len(calls) : calls[n].result # "pending" => calls'[n].result # "pending"
<1> DEFINE ids == ChainIds(rest)
<1>1. calls' = [n \in DOMAIN calls |-> IF n \in ids THEN [calls[n] EXCEPT !.result = "error"] ELSE calls[n]]
  BY DEF reportError, Failed
<1> HIDE DEF ids
<1>2. calls \in Seq(CallType) /\ Len(calls) \in Nat /\ DOMAIN calls = 1..Len(calls)
  BY LenProperties DEF Inv, TypeOK
<1>3. \A n \in 1..Len(calls) : calls[n] \in CallType  BY <1>2, ElementOfSeq
<1>4. \A n \in 1..Len(calls) : [calls[n] EXCEPT !.result = "error"] \in CallType
  BY <1>3 DEF CallType, Deferreds
<1>5. calls' \in [1..Len(calls) -> CallType]  BY <1>1, <1>2, <1>3, <1>4
<1>6. calls' \in Seq(CallType) /\ Len(calls') = Len(calls)  BY <1>2, <1>5, FunctionIsSeq
<1>7. ASSUME NEW n \in 1..Len(calls)
      PROVE  /\ calls'[n].at = calls[n].at
             /\ n \in ids => calls'[n].result = "error"
             /\ n \notin ids => calls'[n] = calls[n]
  BY <1>1, <1>2, <1>3 DEF CallType
<1>8. \A n \in 1..Len(calls) : Unsettled(n) => n \in ids  BY DEF ids
<1>9. ASSUME NEW n \in 1..Len(calls'), Unsettled(n)'
      PROVE  FALSE
  <2>1. n \in 1..Len(calls)  BY <1>6
  <2>2. calls'[n].result = "pending" /\ calls'[n].at # "closed"  BY <1>9 DEF Unsettled
  <2>3. n \notin ids /\ calls'[n] = calls[n]  BY <1>7, <2>1, <2>2
  <2>4. Unsettled(n)  BY <1>2, <2>1, <2>2, <2>3 DEF Unsettled
  <2> QED  BY <1>8, <2>1, <2>3, <2>4
<1>10. \A n \in 1..Len(calls) : calls[n].result # "pending" => calls'[n].result # "pending"
  BY <1>7
<1> QED  BY <1>6, <1>9, <1>10

(* After reportError the invariant holds again, also when the callback of   *)
(* the oldest deferred is still running.                                    *)
LEMMA ErrorKeeps ==
    ASSUME Inv, NEW rest, reportError(rest),
           \A n \in 1..Len(calls) : Unsettled(n) => n \in ChainIds(rest),
           \/ UNCHANGED <<active, after>>
           \/ active' = 0 /\ after' = "none"
    PROVE  /\ Settling'
           /\ calls' \in Seq(CallType) /\ chain' \in Seq(Nat) /\ queue' \in Seq(FrameType)
<1>1. /\ calls' \in Seq(CallType) /\ Len(calls') = Len(calls)
      /\ \A n \in 1..Len(calls') : ~Unsettled(n)'
      /\ \A n \in 1..Len(calls) : calls[n].result # "pending" => calls'[n].result # "pending"
  BY ErrorSettles
<1>2. state' = "closed" /\ ~synchronous' /\ queue' = <<>> /\ chain' = <<>> /\ ~linked'
  BY DEF reportError
<1>3. chain' \in Seq(Nat) /\ queue' \in Seq(FrameType) /\ Len(chain') = 0  BY <1>2, EmptySeq
<1>4. ClosedIsSettled'  BY <1>1, <1>2 DEF ClosedIsSettled
<1>5. active' # 0 => active' \in 1..Len(calls') /\ calls'[active'].result # "pending"
  BY <1>1 DEF Inv, Settling
<1>6. after' = "reportError" => active' # 0  BY DEF Inv, Settling
<1>7. \A i \in 1..Len(chain') : chain'[i] \in 1..Len(calls')  BY <1>3
<1> QED  BY <1>1, <1>2, <1>3, <1>4, <1>5, <1>6, <1>7 DEF Settling

(* reportSuccess resolves the oldest deferred, which heads the chain while  *)
(* its callback runs.                                                       *)
LEMMA ResolveKeeps ==
    ASSUME Inv, linked, active = 0, NEW r \in Nat, resolveOldest(r), UNCHANGED <<chain, linked>>,
           \/ UNCHANGED <<state, after>>
           \/ state' = "closed" /\ after' = "reportError"
    PROVE  /\ Settling'
           /\ calls' \in Seq(CallType) /\ active' \in Nat
<1> DEFINE h == Head(chain)
<1>1. chain # <<>> /\ active' = h
      /\ calls' = [calls EXCEPT ![h].result = "success", ![h].by = r]
  BY DEF resolveOldest
<1>2. chain \in Seq(Nat) /\ Len(chain) \in Nat \ {0} /\ h = chain[1]
  BY <1>1, EmptySeq DEF Inv, TypeOK
<1>3. h \in 1..Len(calls)  BY <1>2 DEF Inv, Settling
<1> HIDE DEF h
<1>4. calls \in Seq(CallType) /\ Len(calls) \in Nat /\ DOMAIN calls = 1..Len(calls)
      /\ calls \in [1..Len(calls) -> CallType]
  BY LenProperties DEF Inv, TypeOK
<1>5. calls[h] \in CallType  BY <1>3, <1>4
<1>6. calls' = [calls EXCEPT ![h] = [calls[h] EXCEPT !.result = "success", !.by = r]]
  BY <1>1, <1>3, <1>4, <1>5 DEF CallType
<1>7. [calls[h] EXCEPT !.result = "success", !.by = r] \in CallType  BY <1>5 DEF CallType, Deferreds
<1>8. calls' \in [1..Len(calls) -> CallType]  BY <1>3, <1>4, <1>6, <1>7
<1>9. calls' \in Seq(CallType) /\ Len(calls') = Len(calls)  BY <1>4, <1>8, FunctionIsSeq
<1>10. calls'[h].result = "success" /\ \A n \in 1..Len(calls) : n # h => calls'[n] = calls[n]
  BY <1>3, <1>4, <1>5, <1>6 DEF CallType
<1>11. ASSUME NEW n \in 1..Len(calls'), Unsettled(n)'
       PROVE  n \in 1..Len(calls) /\ Unsettled(n)
  BY <1>9, <1>10, <1>11 DEF Unsettled
<1>12. \A n \in 1..Len(calls') : Unsettled(n)' => n \in ChainIds(chain')
  BY <1>11 DEF Inv, Settling
<1>13. ~(state = "closed" /\ after = "none")  BY DEF Inv, Settling
<1>14. ~(state' = "closed" /\ after' = "none")  BY <1>13
<1>15. active' # 0  BY <1>1, <1>3
<1>16. active' \in 1..Len(calls') /\ calls'[active'].result # "pending" /\ chain' # <<>> /\ Head(chain') = active'
  BY <1>1, <1>3, <1>9, <1>10 DEF h
<1>17. after' = "reportError" => state' = "closed"  BY DEF Inv, Settling
<1>18. state' # "unattached"  BY DEF Inv, Settling
<1>19. \A i \in 1..Len(chain') : chain'[i] \in 1..Len(calls')  BY <1>9 DEF Inv, Settling
<1>20. ClosedIsSettled'  BY <1>14 DEF ClosedIsSettled
<1> QED  BY <1>9, <1>12, <1>14, <1>15, <1>16, <1>17, <1>18, <1>19, <1>20 DEF Settling

-----------------------------------------------------------------------------
(* The calls of the application.                                            *)

(* A call that sends one frame and returns a deferred.                      *)
LEMMA RequestStep ==
    ASSUME Inv, NEW kind \in Kinds, Request(kind)
    PROVE  Inv'
<1>1. state # "unattached" /\ UNCHANGED <<state, linked, receiver, active, after, conn, toClient, server>>
  BY DEF Request, MayCall
<1>2. PICK ok \in BOOLEAN, big \in Sizes(kind) :
          send(Frame(kind, Len(calls) + 1, big), ok) /\ push(kind, ok)
  BY DEF Request
<1>3. Frame(kind, Len(calls) + 1, big) \in FrameType
  <2>1. Len(calls) + 1 \in Nat  BY LenProperties DEF Inv, TypeOK
  <2>2. big \in BOOLEAN  BY SizesBoolean
  <2> QED  BY <2>1, <2>2, FrameTyped
<1>4. /\ queue' \in Seq(FrameType) /\ toServer' \in Seq(FrameType) /\ synchronous' \in BOOLEAN
      /\ state = "closed" => UNCHANGED <<queue, synchronous>>
  BY <1>2, <1>3, SendKeeps DEF Inv
<1>5. CallAdded  BY <1>1, <1>2, PushAdds DEF Inv
<1>6. Settling'  BY <1>1, <1>4, <1>5, CallKeeps
<1>7. TypeOK'  BY <1>1, <1>4, <1>5 DEF Inv, TypeOK, CallAdded
<1> QED  BY <1>6, <1>7 DEF Inv

(* A call that sends one frame and returns a bool.                          *)
LEMMA NotifyStep ==
    ASSUME Inv, NEW kind \in Kinds, Notify(kind)
    PROVE  Inv'
<1>1. state # "unattached"
      /\ UNCHANGED <<state, linked, chain, receiver, active, after, conn, toClient, server>>
  BY DEF Notify, MayCall
<1>2. PICK ok \in BOOLEAN :
          send(Frame(kind, Len(calls) + 1, FALSE), ok) /\ calls' = Append(calls, Call(kind, "none"))
  BY DEF Notify
<1>3. Frame(kind, Len(calls) + 1, FALSE) \in FrameType
  BY LenProperties DEF Frame, FrameType, Inv, TypeOK
<1>4. /\ queue' \in Seq(FrameType) /\ toServer' \in Seq(FrameType) /\ synchronous' \in BOOLEAN
      /\ state = "closed" => UNCHANGED <<queue, synchronous>>
  BY <1>2, <1>3, SendKeeps DEF Inv
<1>5. CallAdded  BY <1>1, <1>2, NotifyAdds DEF Inv
<1>6. Settling'  BY <1>1, <1>4, <1>5, CallKeeps
<1>7. TypeOK'  BY <1>1, <1>4, <1>5 DEF Inv, TypeOK, CallAdded
<1> QED  BY <1>6, <1>7 DEF Inv

(* ChannelImpl::publish.                                                    *)
LEMMA PublishStep ==
    ASSUME Inv, publish
    PROVE  Inv'
<1>1. state # "unattached"
      /\ UNCHANGED <<state, linked, chain, receiver, active, after, conn, toClient, server>>
  BY DEF publish, MayCall
<1>2. PICK ok \in BOOLEAN, big \in Sizes("BasicPublish"), bodySize \in {0, 1} :
          /\ sendAll(MessageFrames(Len(calls) + 1, big, bodySize), ok)
          /\ calls' = Append(calls, Call("BasicPublish", "none"))
  BY DEF publish
<1> DEFINE id == Len(calls) + 1
           head == <<Frame("BasicPublish", id, FALSE), Frame("BasicHeader", id, big)>>
<1>3. \A k \in {"BasicPublish", "BasicHeader", "Body"}, b \in BOOLEAN : Frame(k, id, b) \in FrameType
  BY LenProperties, ChannelKinds, FrameTyped DEF Inv, TypeOK
<1>4. big \in BOOLEAN  BY SizesBoolean
<1>5. head \in Seq(FrameType)
  <2>1. Frame("BasicPublish", id, FALSE) \in FrameType  BY <1>3
  <2>2. Frame("BasicHeader", id, big) \in FrameType  BY <1>3, <1>4
  <2> QED  BY <2>1, <2>2, TupleIsSeq
<1>6. MessageFrames(Len(calls) + 1, big, bodySize) \in Seq(FrameType)
  <2>1. Append(head, Frame("Body", id, FALSE)) \in Seq(FrameType)  BY <1>3, <1>5, AppendProperties
  <2> QED  BY <1>5, <2>1 DEF MessageFrames
<1>7. /\ queue' \in Seq(FrameType) /\ toServer' \in Seq(FrameType) /\ synchronous' \in BOOLEAN
      /\ state = "closed" => UNCHANGED <<queue, synchronous>>
  BY <1>2, <1>6, SendAllKeeps DEF Inv
<1>8. CallAdded  BY <1>1, <1>2, NotifyAdds, ChannelKinds DEF Inv
<1>9. Settling'  BY <1>1, <1>7, <1>8, CallKeeps
<1>10. TypeOK'  BY <1>1, <1>7, <1>8 DEF Inv, TypeOK, CallAdded
<1> QED  BY <1>9, <1>10 DEF Inv

(* ChannelImpl::close.                                                      *)
LEMMA CloseStep ==
    ASSUME Inv, close
    PROVE  Inv'
<1>1. state # "unattached" /\ UNCHANGED <<linked, receiver, active, after, conn, toClient, server>>
  BY DEF close, MayCall
<1>2. Frame("ChannelClose", Len(calls) + 1, FALSE) \in FrameType
  BY LenProperties, ChannelKinds DEF Frame, FrameType, Inv, TypeOK
<1>3. /\ CallAdded
      /\ queue' \in Seq(FrameType) /\ toServer' \in Seq(FrameType) /\ synchronous' \in BOOLEAN
      /\ state = "closed" => UNCHANGED <<queue, synchronous>>
      /\ state' = state \/ (state # "closed" /\ state' = "closing")
  <2>1. CASE ~usable
    <3>1. push("ChannelClose", state # "closing") /\ UNCHANGED <<state, queue, synchronous, toServer>>
      BY <2>1 DEF close, closeChannel
    <3>2. CallAdded  BY <1>1, <3>1, PushAdds, ChannelKinds DEF Inv
    <3> QED  BY <3>1, <3>2 DEF Inv, TypeOK
  <2>2. CASE usable
    <3>1. PICK ok \in BOOLEAN :
              /\ send(Frame("ChannelClose", Len(calls) + 1, FALSE), ok)
              /\ push("ChannelClose", ok)
              /\ state' = IF ok THEN "closing" ELSE state
      BY <2>2 DEF close, closeChannel
    <3>2. CallAdded  BY <1>1, <3>1, PushAdds, ChannelKinds DEF Inv
    <3>3. queue' \in Seq(FrameType) /\ toServer' \in Seq(FrameType) /\ synchronous' \in BOOLEAN
      BY <1>2, <3>1, SendKeeps DEF Inv
    <3>4. state # "closed"  BY <2>2 DEF usable
    <3> QED  BY <3>1, <3>2, <3>3, <3>4
  <2> QED  BY <2>1, <2>2
<1>4. Settling'  BY <1>1, <1>3, CallKeeps
<1>5. TypeOK'  BY <1>1, <1>3 DEF Inv, TypeOK, CallAdded
<1> QED  BY <1>4, <1>5 DEF Inv

(* ChannelImpl::attach.                                                     *)
LEMMA AttachStep ==
    ASSUME Inv, attach
    PROVE  Inv'
<1>1. /\ state = "unattached" /\ state' = "connected" /\ linked' = TRUE /\ synchronous' \in BOOLEAN
      /\ UNCHANGED <<queue, chain, receiver, active, after, calls, conn, toClient, server>>
      /\ toServer' = <<Frame("ChannelOpen", 0, FALSE)>>
  BY DEF attach
<1>2. toServer' \in Seq(FrameType)  BY <1>1, ChannelKinds DEF Frame, FrameType
<1>3. TypeOK'  BY <1>1, <1>2 DEF Inv, TypeOK
<1>4. \A n \in 1..Len(calls) : Unsettled(n)' <=> Unsettled(n)  BY <1>1 DEF Unsettled
<1>5. Settling'  BY <1>1, <1>4 DEF Inv, Settling, ClosedIsSettled, ChainIds
<1> QED  BY <1>3, <1>5 DEF Inv

-----------------------------------------------------------------------------
(* Received frames.                                                         *)

(* ConnectionImpl::parse hands out one frame at a time, between callbacks.  *)
LEMMA ReceiveKeeps ==
    ASSUME TypeOK, NEW handler, Receive(handler)
    PROVE  active = 0 /\ Head(toClient).id \in Nat /\ toClient' \in Seq(AnswerType)
<1>1. active = 0 /\ toClient # <<>> /\ toClient' = Tail(toClient)  BY DEF Receive
<1>2. Head(toClient) \in AnswerType /\ Tail(toClient) \in Seq(AnswerType)
  BY <1>1, HeadTailProperties DEF TypeOK
<1> QED  BY <1>1, <1>2 DEF AnswerType

(* A step that leaves the deferreds alone keeps the invariant, as long as   *)
(* it does not put frames on a closed channel.                              *)
LEMMA QuietKeeps ==
    ASSUME Inv, UNCHANGED <<linked, chain, active, after, calls>>,
           \/ UNCHANGED <<state, queue, synchronous>>
           \/ linked /\ state' # "closed" /\ state' # "unattached" /\ state # "closed"
           \/ linked /\ UNCHANGED state
    PROVE  Settling'
<1>1. \A n \in 1..Len(calls) : Unsettled(n)' <=> Unsettled(n)  BY DEF Unsettled
<1>2. ChainIds(chain)' = ChainIds(chain)  BY DEF ChainIds
<1>3. ClosedIsSettled'  BY <1>1 DEF Inv, Settling, ClosedIsSettled
<1> QED  BY <1>1, <1>2, <1>3 DEF Inv, Settling

(* ChannelOpenOKFrame: ChannelImpl::reportReady.                            *)
LEMMA ReadyStep ==
    ASSUME Inv, reportReady
    PROVE  Inv'
<1>1. /\ linked /\ flush /\ Receive("reportReady")
      /\ state' = IF state = "connected" THEN "ready" ELSE state
      /\ UNCHANGED <<linked, chain, receiver, active, after, calls, conn, server>>
  BY DEF reportReady
<1>2. toClient' \in Seq(AnswerType)  BY <1>1, ReceiveKeeps DEF Inv
<1>3. queue' \in Seq(FrameType) /\ toServer' \in Seq(FrameType) /\ synchronous' \in BOOLEAN
  BY <1>1, FlushKeeps DEF Inv
<1>4. Settling'  BY <1>1, QuietKeeps
<1>5. TypeOK'  BY <1>1, <1>2, <1>3 DEF Inv, TypeOK
<1> QED  BY <1>4, <1>5 DEF Inv

(* A -ok frame that resolves the oldest deferred.                           *)
LEMMA ResolveStep ==
    ASSUME Inv, NEW handler, Receive(handler), linked, resolveOldest(Head(toClient).id),
           UNCHANGED <<linked, chain, conn, server>>, receiver' \in Nat,
           \/ UNCHANGED <<state, after>>
           \/ state' = "closed" /\ after' = "reportError"
    PROVE  Inv'
<1>1. active = 0 /\ Head(toClient).id \in Nat /\ toClient' \in Seq(AnswerType)  BY ReceiveKeeps DEF Inv
<1>2. Settling' /\ calls' \in Seq(CallType) /\ active' \in Nat  BY <1>1, ResolveKeeps
<1>3. flush  BY DEF resolveOldest
<1>4. queue' \in Seq(FrameType) /\ toServer' \in Seq(FrameType) /\ synchronous' \in BOOLEAN
  BY <1>3, FlushKeeps DEF Inv
<1>5. TypeOK'  BY <1>1, <1>2, <1>4 DEF Inv, TypeOK
<1> QED  BY <1>2, <1>5 DEF Inv

(* A frame that nobody waits for changes nothing but the wire.              *)
LEMMA IgnoredStep ==
    ASSUME Inv, NEW handler, Receive(handler), UNCHANGED <<channelVars, calls, conn, toServer, server>>
    PROVE  Inv'
<1>1. toClient' \in Seq(AnswerType)  BY ReceiveKeeps DEF Inv
<1>2. Settling'  BY QuietKeeps DEF channelVars
<1>3. TypeOK'  BY <1>1 DEF Inv, TypeOK, channelVars
<1> QED  BY <1>2, <1>3 DEF Inv

(* ChannelImpl::reportSuccess and BasicGetOKFrame::process.                 *)
LEMMA SuccessStep ==
    ASSUME Inv, reportSuccess \/ getOK
    PROVE  Inv'
<1>1. PICK handler : Receive(handler)  BY DEF reportSuccess, getOK
<1>2. linked /\ UNCHANGED <<state, linked, chain, after, conn, server>>  BY DEF reportSuccess, getOK
<1>3. CASE resolveOldest(Head(toClient).id) /\ receiver' \in {receiver, Head(chain)}
  <2>1. Head(chain) \in Nat  BY <1>3, HeadTailProperties DEF resolveOldest, Inv, TypeOK
  <2>2. receiver' \in Nat  BY <1>3, <2>1 DEF Inv, TypeOK
  <2> QED  BY <1>1, <1>2, <1>3, <2>2, ResolveStep
<1>4. CASE UNCHANGED <<queue, synchronous, toServer, active, calls, receiver>>
  BY <1>1, <1>2, <1>4, IgnoredStep DEF channelVars
<1> QED  BY <1>3, <1>4 DEF reportSuccess, getOK

(* Content of a message: DeferredReceiver::process, DeferredGet::complete.  *)
LEMMA ContentStep ==
    ASSUME Inv, NEW handler, content(handler)
    PROVE  Inv'
<1>1. /\ linked /\ Receive(handler)
      /\ UNCHANGED <<state, linked, chain, active, after, calls, conn, server>>
  BY DEF content
<1>2. toClient' \in Seq(AnswerType)  BY <1>1, ReceiveKeeps DEF Inv
<1>3. CASE flush /\ receiver' = 0
  <2>1. queue' \in Seq(FrameType) /\ toServer' \in Seq(FrameType) /\ synchronous' \in BOOLEAN
    BY <1>3, FlushKeeps DEF Inv
  <2>2. Settling'  BY <1>1, QuietKeeps
  <2>3. TypeOK'  BY <1>1, <1>2, <1>3, <2>1 DEF Inv, TypeOK
  <2> QED  BY <2>2, <2>3 DEF Inv
<1>4. CASE UNCHANGED <<queue, synchronous, toServer, receiver>>
  BY <1>1, <1>4, IgnoredStep DEF channelVars
<1> QED  BY <1>3, <1>4 DEF content

(* reportError, called for a frame of the server or by the connection.      *)
LEMMA FailStep ==
    ASSUME Inv, reportError(chain), UNCHANGED <<receiver, active, after, server>>,
           conn' \in {conn, "closed"}, toServer' \in Seq(FrameType), toClient' \in Seq(AnswerType)
    PROVE  Inv'
<1>1. \A n \in 1..Len(calls) : Unsettled(n) => n \in ChainIds(chain)  BY DEF Inv, Settling
<1>2. Settling' /\ calls' \in Seq(CallType) /\ chain' \in Seq(Nat) /\ queue' \in Seq(FrameType)
  BY <1>1, ErrorKeeps
<1>3. TypeOK'  BY <1>2 DEF Inv, TypeOK, reportError
<1> QED  BY <1>2, <1>3 DEF Inv

(* ChannelImpl::reportClosed.                                               *)
LEMMA ClosedStep ==
    ASSUME Inv, reportClosed
    PROVE  Inv'
<1>1. Receive("reportClosed") /\ linked /\ UNCHANGED <<receiver, conn, server>>  BY DEF reportClosed
<1>2. CASE resolveOldest(Head(toClient).id) /\ state' = "closed" /\ after' = "reportError"
           /\ UNCHANGED <<chain, linked>>
  BY <1>1, <1>2, ResolveStep DEF Inv, TypeOK
<1>3. CASE reportError(chain) /\ UNCHANGED <<active, after, toServer>>
  <2>1. toClient' \in Seq(AnswerType)  BY <1>1, ReceiveKeeps DEF Inv
  <2> QED  BY <1>1, <1>3, <2>1, FailStep DEF Inv, TypeOK
<1> QED  BY <1>2, <1>3 DEF reportClosed

(* ChannelCloseFrame::process.                                              *)
LEMMA ChannelCloseStep ==
    ASSUME Inv, channelClose
    PROVE  Inv'
<1>1. Receive("reportError") /\ UNCHANGED <<receiver, active, after, conn, server>>  BY DEF channelClose
<1>2. toClient' \in Seq(AnswerType)  BY <1>1, ReceiveKeeps DEF Inv
<1>3. toServer' \in Seq(FrameType)
  <2>1. Frame("ChannelCloseOK", 0, FALSE) \in FrameType  BY ChannelKinds, FrameTyped
  <2>2. Append(toServer, Frame("ChannelCloseOK", 0, FALSE)) \in Seq(FrameType)
    BY <2>1, AppendProperties DEF Inv, TypeOK
  <2> QED  BY <2>2 DEF channelClose, Inv, TypeOK
<1>4. CASE reportError(chain)  BY <1>1, <1>2, <1>3, <1>4, FailStep
<1>5. CASE UNCHANGED <<state, linked, synchronous, queue, chain, calls>>
  <2>1. Settling'  BY <1>1, <1>5, QuietKeeps
  <2>2. TypeOK'  BY <1>1, <1>2, <1>3, <1>5 DEF Inv, TypeOK
  <2> QED  BY <2>1, <2>2 DEF Inv
<1> QED  BY <1>4, <1>5 DEF channelClose

(* The return from the success callback: the deferred leaves the chain.     *)
LEMMA ReturnStep ==
    ASSUME Inv, callbackReturns
    PROVE  Inv'
<1> DEFINE rest == IF chain # <<>> /\ Head(chain) = active THEN Tail(chain) ELSE <<>>
<1>1. active # 0 /\ active' = 0 /\ after' = "none" /\ UNCHANGED <<receiver, conn, toServer, toClient, server>>
  BY DEF callbackReturns, wireVars
<1>2. chain \in Seq(Nat) /\ Len(chain) \in Nat /\ DOMAIN chain = 1..Len(chain)
  BY LenProperties DEF Inv, TypeOK
<1>3. rest \in Seq(Nat)  BY <1>2, HeadTailProperties, EmptySeq
<1>4. ASSUME NEW n \in 1..Len(calls), Unsettled(n)
      PROVE  n \in ChainIds(rest)
  <2>1. chain # <<>> /\ Head(chain) = active  BY <1>1, <1>4 DEF Inv, Settling
  <2>2. rest = Tail(chain)  BY <2>1
  <2>3. Len(rest) = Len(chain) - 1 /\ \A i \in 1..Len(rest) : rest[i] = chain[i + 1]
    BY <1>2, <2>1, <2>2, HeadTailProperties
  <2>4. n # active  BY <1>1, <1>4 DEF Inv, Settling, Unsettled
  <2>5. PICK i \in 1..Len(chain) : n = chain[i]  BY <1>2, <1>4 DEF Inv, Settling, ChainIds
  <2>6. i # 1  BY <2>1, <2>4, <2>5
  <2>7. i - 1 \in 1..Len(rest) /\ rest[i - 1] = n  BY <1>2, <2>3, <2>5, <2>6
  <2>8. i - 1 \in DOMAIN rest  BY <1>3, <2>7, LenProperties
  <2> QED  BY <2>7, <2>8 DEF ChainIds
<1>5. \A i \in 1..Len(rest) : rest[i] \in 1..Len(calls)
  <2>1. CASE chain # <<>> /\ Head(chain) = active
    <3>1. Len(rest) = Len(chain) - 1 /\ \A i \in 1..Len(rest) : rest[i] = chain[i + 1]
      BY <1>2, <2>1, HeadTailProperties
    <3> QED  BY <1>2, <3>1 DEF Inv, Settling
  <2>2. CASE ~(chain # <<>> /\ Head(chain) = active)
    <3>1. Len(rest) = 0  BY <2>2, EmptySeq
    <3> QED  BY <3>1
  <2> QED  BY <2>1, <2>2
<1>6. CASE after = "none"
  <2>1. chain' = rest /\ UNCHANGED <<state, linked, synchronous, queue, calls>>
    BY <1>6 DEF callbackReturns
  <2> HIDE DEF rest
  <2>2. \A n \in 1..Len(calls) : Unsettled(n)' <=> Unsettled(n)  BY <2>1 DEF Unsettled
  <2>3. ClosedIsSettled'  BY <1>1, <1>6, <2>1, <2>2 DEF Inv, Settling, ClosedIsSettled
  <2>4. \A n \in 1..Len(calls') : Unsettled(n)' => n \in ChainIds(chain')
    BY <1>4, <2>1, <2>2 DEF ChainIds
  <2>5. \A i \in 1..Len(chain') : chain'[i] \in 1..Len(calls')  BY <1>5, <2>1
  <2>6. Settling'  BY <1>1, <1>6, <2>1, <2>3, <2>4, <2>5 DEF Inv, Settling
  <2>7. TypeOK'  BY <1>1, <1>3, <2>1 DEF Inv, TypeOK
  <2> QED  BY <2>6, <2>7 DEF Inv
<1>7. CASE after = "reportError"
  <2>1. reportError(rest)  BY <1>7 DEF callbackReturns
  <2> HIDE DEF rest
  <2>2. Settling' /\ calls' \in Seq(CallType) /\ chain' \in Seq(Nat) /\ queue' \in Seq(FrameType)
    BY <1>1, <1>4, <2>1, ErrorKeeps
  <2>3. TypeOK'  BY <1>1, <2>1, <2>2 DEF Inv, TypeOK, reportError
  <2> QED  BY <2>2, <2>3 DEF Inv
<1> QED  BY <1>6, <1>7 DEF Inv, TypeOK

-----------------------------------------------------------------------------
(* The connection and the server.                                           *)

(* ConnectionImpl::close calls ChannelImpl::close.                          *)
LEMMA ConnectionCloseStep ==
    ASSUME Inv, connectionClose
    PROVE  Inv'
<1>1. /\ linked /\ UNCHANGED <<linked, synchronous, receiver, active, after, toServer, toClient, server>>
      /\ state # "unattached"
  BY DEF connectionClose, wireVars, Inv, Settling
<1>2. Frame("ChannelClose", Len(calls) + 1, FALSE) \in FrameType
  <2>1. Len(calls) + 1 \in Nat  BY LenProperties DEF Inv, TypeOK
  <2> QED  BY <2>1, ChannelKinds, FrameTyped
<1>3. Append(queue, Frame("ChannelClose", Len(calls) + 1, FALSE)) \in Seq(FrameType)
  BY <1>2, AppendProperties DEF Inv, TypeOK
<1>4. /\ \E ok \in BOOLEAN : push("ChannelClose", ok)
      /\ queue' \in Seq(FrameType)
      /\ conn' \in {"shutdown", "closing"}
      /\ state' = state \/ (state # "closed" /\ state' = "closing")
      /\ state = "closed" => UNCHANGED queue
  <2>1. CASE usable /\ ~waiting  BY <2>1 DEF connectionClose, Inv, TypeOK
  <2>2. CASE usable /\ waiting
    <3>1. state # "closed"  BY <2>2 DEF usable
    <3> QED  BY <1>3, <2>2, <3>1 DEF connectionClose
  <2>3. CASE ~usable  BY <2>3 DEF connectionClose, Inv, TypeOK
  <2> QED  BY <2>1, <2>2, <2>3
<1>5. CallAdded  BY <1>1, <1>4, PushAdds, ChannelKinds DEF Inv
<1>6. Settling'  BY <1>1, <1>4, <1>5, CallKeeps
<1>7. TypeOK'  BY <1>1, <1>4, <1>5 DEF Inv, TypeOK, CallAdded
<1> QED  BY <1>6, <1>7 DEF Inv

(* The end of the connection: orderly, or by ConnectionImpl::fail.          *)
LEMMA ConnectionStep ==
    ASSUME Inv, connectionSendClose \/ connectionClosed \/ connectionFail
    PROVE  Inv'
<1>1. CASE connectionSendClose \/ connectionClosed
  <2>1. UNCHANGED <<channelVars, calls, toServer, toClient, server>> /\ conn' \in {"closing", "closed"}
    BY <1>1 DEF connectionSendClose, connectionClosed, wireVars
  <2>2. Settling'  BY <2>1, QuietKeeps DEF channelVars
  <2>3. TypeOK'  BY <2>1 DEF Inv, TypeOK, channelVars
  <2> QED  BY <2>2, <2>3 DEF Inv
<1>2. CASE connectionFail
  <2>1. UNCHANGED <<receiver, active, after, toServer, toClient, server>> /\ conn' = "closed"
    BY <1>2 DEF connectionFail, wireVars
  <2>2. CASE reportError(chain)  BY <2>1, <2>2, FailStep DEF Inv, TypeOK
  <2>3. CASE UNCHANGED <<state, linked, synchronous, queue, chain, calls>>
    <3>1. Settling'  BY <2>1, <2>3, QuietKeeps
    <3>2. TypeOK'  BY <2>1, <2>3 DEF Inv, TypeOK
    <3> QED  BY <3>1, <3>2 DEF Inv
  <2> QED  BY <1>2, <2>2, <2>3 DEF connectionFail
<1> QED  BY <1>1, <1>2

(* The server's answers are well typed.                                     *)
LEMMA AnswersTyped ==
    ASSUME NEW f \in FrameType, NEW answer \in Answers(f)
    PROVE  answer \in Seq(AnswerType)
<1>1. f.id \in Nat  BY DEF FrameType
<1>2. \A k \in Kinds, b \in BOOLEAN : Answer(k, f.id, b) \in AnswerType  BY <1>1, FrameTyped
<1>3. /\ Answer("BasicGetOK", f.id, FALSE) \in AnswerType
      /\ Answer("BasicGetEmpty", f.id, FALSE) \in AnswerType
      /\ \A b \in BOOLEAN : Answer("BasicHeader", f.id, b) \in AnswerType
      /\ Answer("Body", f.id, FALSE) \in AnswerType
  BY <1>2, ChannelKinds
<1>4. CASE f.kind = "BasicGet"
  <2>1. <<Answer("BasicGetEmpty", f.id, FALSE)>> \in Seq(AnswerType)  BY <1>3, TupleIsSeq
  <2>2. <<Answer("BasicGetOK", f.id, FALSE), Answer("BasicHeader", f.id, FALSE)>> \in Seq(AnswerType)
    BY <1>3, TupleIsSeq
  <2>3. <<Answer("BasicGetOK", f.id, FALSE), Answer("BasicHeader", f.id, TRUE),
          Answer("Body", f.id, FALSE)>> \in Seq(AnswerType)
    BY <1>3, TupleIsSeq
  <2>4. Content(f, 0) \in Seq(AnswerType) /\ Content(f, 1) \in Seq(AnswerType)
    BY <2>2, <2>3 DEF Content
  <2> QED  BY <1>4, <2>1, <2>4 DEF Answers
<1>5. CASE f.kind # "BasicGet" /\ f.kind \in DOMAIN AnswerOf
  <2>1. AnswerOf[f.kind] \in Kinds  BY <1>5, AnswerKinds
  <2>2. <<Answer(AnswerOf[f.kind], f.id, FALSE)>> \in Seq(AnswerType)  BY <1>2, <2>1, TupleIsSeq
  <2> QED  BY <1>5, <2>2 DEF Answers
<1>6. CASE f.kind # "BasicGet" /\ f.kind \notin DOMAIN AnswerOf
  BY <1>6, EmptySeq DEF Answers
<1> QED  BY <1>4, <1>5, <1>6

(* The server.                                                              *)
LEMMA ServerStep ==
    ASSUME Inv, Server
    PROVE  Inv'
<1>1. UNCHANGED <<channelVars, calls, conn>>  BY DEF Server, serverReceive, serverRaises
<1>2. Settling'  BY <1>1, QuietKeeps DEF channelVars
<1>3. \A k \in Kinds, n \in Nat : Append(toClient, Answer(k, n, FALSE)) \in Seq(AnswerType)
  BY FrameTyped, AppendProperties DEF Inv, TypeOK
<1>4. CASE serverReceive
  <2> DEFINE f == Head(toServer)
  <2>1. f \in FrameType /\ toServer' \in Seq(FrameType)
    BY <1>4, HeadTailProperties DEF serverReceive, Inv, TypeOK
  <2>2. f.id \in Nat  BY <2>1 DEF FrameType
  <2>3. \A answer \in Answers(f) : toClient \o answer \in Seq(AnswerType)
    BY <2>1, AnswersTyped, ConcatProperties DEF Inv, TypeOK
  <2>4. Append(toClient, Answer("ChannelCloseOK", f.id, FALSE)) \in Seq(AnswerType)
    BY <1>3, <2>2, ChannelKinds
  <2> HIDE DEF f
  <2>5. toClient' \in Seq(AnswerType) /\ server' \in {"idle", "open", "closing", "closed"}
    BY <1>4, <2>3, <2>4 DEF serverReceive, Inv, TypeOK, f
  <2>6. TypeOK'  BY <1>1, <2>1, <2>5 DEF Inv, TypeOK, channelVars
  <2> QED  BY <1>2, <2>6 DEF Inv
<1>5. CASE serverRaises
  <2>1. toClient' \in Seq(AnswerType)  BY <1>3, <1>5, ChannelKinds DEF serverRaises
  <2>2. TypeOK'  BY <1>1, <1>5, <2>1 DEF serverRaises, Inv, TypeOK, channelVars
  <2> QED  BY <1>2, <2>2 DEF Inv
<1> QED  BY <1>4, <1>5 DEF Server

-----------------------------------------------------------------------------
(* The initial state satisfies the invariant.                               *)
LEMMA InitInv == Init => Inv
<1> SUFFICES ASSUME Init PROVE Inv  OBVIOUS
<1>1. TypeOK  BY EmptySeq DEF Init, TypeOK
<1>2. Len(calls) = 0 /\ Len(chain) = 0  BY EmptySeq DEF Init
<1>3. Settling  BY <1>2 DEF Init, Settling, ClosedIsSettled
<1> QED  BY <1>1, <1>3 DEF Inv

(* Every step keeps the invariant.                                          *)
LEMMA NextInv == Inv /\ [Next]_vars => Inv'
<1> SUFFICES ASSUME Inv, [Next]_vars PROVE Inv'  OBVIOUS
<1>1. CASE Application
  <2>1. CASE \E kind \in Requests : Request(kind)
    <3>1. PICK kind \in Requests : Request(kind)  BY <2>1
    <3> QED  BY <3>1, RequestStep, ChannelAssumption DEF ChannelAssumption
  <2>2. CASE \E kind \in Requests : Notify(kind)
    <3>1. PICK kind \in Requests : Notify(kind)  BY <2>2
    <3> QED  BY <3>1, NotifyStep, ChannelAssumption DEF ChannelAssumption
  <2>3. (\E kind \in Requests : Request(kind)) \/ (\E kind \in Requests : Notify(kind))
        \/ attach \/ close \/ publish
    <3>1. \A kind : Request(kind) => kind \in Requests  BY DEF Request, MayCall
    <3>2. \A kind : Notify(kind) => kind \in Requests  BY DEF Notify, MayCall
    <3>3. \/ attach \/ close \/ publish
          \/ \E kind : Request(kind)
          \/ \E kind : Notify(kind)
      BY <1>1 DEF Application, ack, reject, get, recover, pause, resume, confirmSelect,
           startTransaction, commitTransaction, rollbackTransaction, declareExchange, bindExchange,
           unbindExchange, removeExchange, declareQueue, bindQueue, unbindQueue, purgeQueue,
           removeQueue, setQos, consume, cancel
    <3> QED  BY <3>1, <3>2, <3>3
  <2> QED  BY <2>1, <2>2, <2>3, AttachStep, CloseStep, PublishStep
<1>2. CASE Library
  <2>1. CASE ignored
    <3>1. PICK handler : Receive(handler)  BY <2>1 DEF ignored
    <3>2. UNCHANGED <<channelVars, calls, conn, toServer, server>>  BY <2>1 DEF ignored
    <3> QED  BY <3>1, <3>2, IgnoredStep
  <2>2. CASE header \/ body  BY <2>2, ContentStep DEF header, body
  <2> QED  BY <1>2, <2>1, <2>2, ReadyStep, SuccessStep, ClosedStep, ReturnStep, ChannelCloseStep DEF Library
<1>3. CASE Connection  BY <1>3, ConnectionCloseStep, ConnectionStep DEF Connection
<1>4. CASE Server  BY <1>4, ServerStep
<1>5. CASE UNCHANGED vars
  <2>1. Settling'  BY <1>5, QuietKeeps DEF vars, channelVars
  <2>2. TypeOK'  BY <1>5 DEF vars, channelVars, wireVars, Inv, TypeOK
  <2> QED  BY <2>1, <2>2 DEF Inv
<1> QED  BY <1>1, <1>2, <1>3, <1>4, <1>5 DEF Next

(* The invariant holds in every reachable state.                            *)
THEOREM Invariance == Spec => []Inv
BY InitInv, NextInv, PTL DEF Spec

(* The types of the channel, its calls and the wires (ChannelImpl's         *)
(* members), for every set of requests and any number of calls.             *)
THEOREM TypeCorrect == Spec => []TypeOK
<1>1. Inv => TypeOK  BY DEF Inv
<1> QED  BY <1>1, Invariance, PTL

(* Every open deferred is on the chain, and the one whose callback is       *)
(* running heads it (ChannelImpl::push, reportSuccess and reportError).     *)
THEOREM OpenDeferredsAreChained == Spec => []Settling
<1>1. Inv => Settling  BY DEF Inv
<1> QED  BY <1>1, Invariance, PTL

(* A closed channel holds no frame and has reported every deferred that it  *)
(* handed out before (ChannelImpl::reportError and reportClosed), whatever  *)
(* callbacks do and however the connection ends.                            *)
THEOREM ClosedChannelIsSettled == Spec => []ClosedIsSettled
<1>1. Inv => ClosedIsSettled  BY DEF Inv, Settling
<1> QED  BY <1>1, Invariance, PTL

-----------------------------------------------------------------------------
(* The order in which a channel puts frames on the wire.  It speaks of the  *)
(* pipeline, the frames on the wire followed by those that wait in the      *)
(* queue.  flush() moves frames within it, a call adds to its end, the      *)
(* server reads from its front, and reportError() cuts off the queue, so    *)
(* that any two frames keep their order.  The invariant adds what makes a   *)
(* new frame fit behind all others: their numbers are not above that of the *)
(* last call, and none of them is a close frame as long as the channel can  *)
(* be used.                                                                 *)

(* May frame g come behind frame f?  Behind a synchronous frame come only   *)
(* frames of later calls.                                                   *)
MayFollow(f, g) ==
    /\ f.id > 0 /\ g.id > 0 => f.id <= g.id
    /\ f.id > 0 /\ g.id > 0 /\ f.kind \in SynchronousKinds => f.id < g.id
    /\ f.kind = "ChannelClose" => g.kind = "ChannelCloseOK"

Follows(s) == \A i, j \in 1..Len(s) : i < j => MayFollow(s[i], s[j])

Pipeline == toServer \o queue

Order ==
    /\ Follows(Pipeline)
    /\ \A f \in Range(Pipeline) :
          /\ f.id <= Len(calls)
          /\ f.kind = "ChannelClose" => state \in {"closing", "closed"}
    /\ ~linked => queue = <<>>

OrderInv == Inv /\ Order

-----------------------------------------------------------------------------
(* Sequences and the sets of their elements.                                *)

(* The elements of a sequence, by index.                                    *)
LEMMA RangeIndex ==
    ASSUME NEW S, NEW s \in Seq(S)
    PROVE  \A x : x \in Range(s) <=> \E i \in 1..Len(s) : x = s[i]
BY RangeEquality

(* The empty sequence has no elements; Append adds one.                     *)
LEMMA RangeAppend ==
    ASSUME NEW S, NEW s \in Seq(S), NEW e \in S
    PROVE  Range(<<>>) = {} /\ Range(Append(s, e)) = Range(s) \union {e}
<1>1. Range(<<>>) = {}  BY DEF Range
<1>2. \A x : x \in Range(s) <=> \E i \in 1..Len(s) : x = s[i]  BY RangeIndex
<1>3. Append(s, e) \in Seq(S)  BY AppendProperties
<1>4. \A x : x \in Range(Append(s, e)) <=> \E i \in 1..Len(Append(s, e)) : x = Append(s, e)[i]
  BY <1>3, RangeIndex
<1>5. Len(s) \in Nat /\ Len(Append(s, e)) = Len(s) + 1
      /\ (\A i \in 1..Len(s) : Append(s, e)[i] = s[i]) /\ Append(s, e)[Len(s) + 1] = e
  BY AppendProperties, LenProperties
<1>6. \A i \in 1..(Len(s) + 1) : i \in 1..Len(s) \/ i = Len(s) + 1  BY <1>5
<1>7. ASSUME NEW x PROVE x \in Range(Append(s, e)) <=> x \in Range(s) \/ x = e
  <2>1. x \in Range(Append(s, e)) => x \in Range(s) \/ x = e  BY <1>2, <1>4, <1>5, <1>6
  <2>2. x \in Range(s) => x \in Range(Append(s, e))  BY <1>2, <1>4, <1>5
  <2>3. e \in Range(Append(s, e))  BY <1>4, <1>5
  <2> QED  BY <2>1, <2>2, <2>3
<1> QED  BY <1>1, <1>7

(* Append makes a sequence longer by one, whatever is appended.             *)
LEMMA AppendLength ==
    ASSUME NEW S, NEW s \in Seq(S), NEW e
    PROVE  Len(Append(s, e)) = Len(s) + 1
<1>1. s \in Seq(S \union {e})  BY SeqMonotonic
<1> QED  BY <1>1, AppendProperties

(* Head and Tail divide the elements.                                       *)
LEMMA RangeTail ==
    ASSUME NEW S, NEW s \in Seq(S), s # <<>>
    PROVE  Range(s) = {Head(s)} \union Range(Tail(s))
<1>1. \A x : x \in Range(s) <=> \E i \in 1..Len(s) : x = s[i]  BY RangeIndex
<1>2. Tail(s) \in Seq(S) /\ Len(Tail(s)) = Len(s) - 1 /\ \A i \in 1..Len(Tail(s)) : Tail(s)[i] = s[i + 1]
  BY HeadTailProperties
<1>3. \A x : x \in Range(Tail(s)) <=> \E i \in 1..Len(Tail(s)) : x = Tail(s)[i]  BY <1>2, RangeIndex
<1>4. Len(s) \in Nat \ {0} /\ Head(s) = s[1]  BY EmptySeq
<1>5. ASSUME NEW x \in Range(s) PROVE x = Head(s) \/ x \in Range(Tail(s))
  <2>1. PICK i \in 1..Len(s) : x = s[i]  BY <1>1
  <2>2. CASE i = 1  BY <1>4, <2>1, <2>2
  <2>3. CASE i # 1
    <3>1. i - 1 \in 1..Len(Tail(s)) /\ Tail(s)[i - 1] = x  BY <1>2, <1>4, <2>1, <2>3
    <3> QED  BY <1>3, <3>1
  <2> QED  BY <2>2, <2>3
<1>6. Head(s) \in Range(s)  BY <1>1, <1>4
<1>7. ASSUME NEW x \in Range(Tail(s)) PROVE x \in Range(s)
  <2>1. PICK i \in 1..Len(Tail(s)) : x = Tail(s)[i]  BY <1>3
  <2>2. i + 1 \in 1..Len(s) /\ x = s[i + 1]  BY <1>2, <1>4, <2>1
  <2> QED  BY <1>1, <2>2
<1> QED  BY <1>5, <1>6, <1>7

(* t is s with some elements left out.                                      *)
Within(t, s) ==
    \E m \in [1..Len(t) -> 1..Len(s)] :
        /\ \A i, j \in 1..Len(t) : i < j => m[i] < m[j]
        /\ \A i \in 1..Len(t) : t[i] = s[m[i]]

(* Leaving out frames keeps the order of the others.                        *)
LEMMA WithinFollows ==
    ASSUME NEW s \in Seq(FrameType), NEW t \in Seq(FrameType), Within(t, s), Follows(s)
    PROVE  Follows(t) /\ Range(t) \subseteq Range(s)
<1>1. PICK m \in [1..Len(t) -> 1..Len(s)] :
          /\ \A i, j \in 1..Len(t) : i < j => m[i] < m[j]
          /\ \A i \in 1..Len(t) : t[i] = s[m[i]]
  BY DEF Within
<1>2. Follows(t)
  <2> SUFFICES ASSUME NEW i \in 1..Len(t), NEW j \in 1..Len(t), i < j
               PROVE  MayFollow(t[i], t[j])
    BY DEF Follows
  <2>1. m[i] \in 1..Len(s) /\ m[j] \in 1..Len(s) /\ m[i] < m[j]  BY <1>1
  <2>2. MayFollow(s[m[i]], s[m[j]])  BY <2>1 DEF Follows
  <2> QED  BY <1>1, <2>2
<1>3. Range(t) \subseteq Range(s)
  <2> SUFFICES ASSUME NEW x \in Range(t) PROVE x \in Range(s)  OBVIOUS
  <2>1. PICK i \in 1..Len(t) : x = t[i]  BY RangeIndex
  <2>2. m[i] \in 1..Len(s) /\ x = s[m[i]]  BY <1>1, <2>1
  <2> QED  BY <2>2, RangeIndex
<1> QED  BY <1>2, <1>3

(* What the server reads, and what a lost buffer or reportError() takes off *)
(* the queue, is left out.                                                  *)
LEMMA WithinParts ==
    ASSUME NEW s \in Seq(FrameType), NEW t \in Seq(FrameType)
    PROVE  /\ s \o t \in Seq(FrameType) /\ s \o <<>> = s /\ Within(s \o t, s \o t)
           /\ Within(s, s \o t)
           /\ s # <<>> => Tail(s) \o t \in Seq(FrameType) /\ Within(Tail(s) \o t, s \o t)
           /\ t # <<>> => s \o Tail(t) \in Seq(FrameType) /\ Within(s \o Tail(t), s \o t)
<1>1. /\ s \o t \in Seq(FrameType) /\ Len(s \o t) = Len(s) + Len(t)
      /\ \A i \in 1..(Len(s) + Len(t)) : (s \o t)[i] = IF i <= Len(s) THEN s[i] ELSE t[i - Len(s)]
  BY ConcatProperties
<1>2. Len(s) \in Nat /\ Len(t) \in Nat  BY LenProperties
<1>3. s \o <<>> = s  BY ConcatEmptySeq
<1>4. Within(s \o t, s \o t)
  <2> DEFINE m == [i \in 1..Len(s \o t) |-> i]
  <2>1. m \in [1..Len(s \o t) -> 1..Len(s \o t)]  OBVIOUS
  <2>2. \A i, j \in 1..Len(s \o t) : i < j => m[i] < m[j]  OBVIOUS
  <2>3. \A i \in 1..Len(s \o t) : (s \o t)[i] = (s \o t)[m[i]]  OBVIOUS
  <2> QED  BY <2>1, <2>2, <2>3 DEF Within
<1>5. Within(s, s \o t)
  <2> DEFINE m == [i \in 1..Len(s) |-> i]
  <2>1. m \in [1..Len(s) -> 1..Len(s \o t)]  BY <1>1, <1>2
  <2>2. \A i, j \in 1..Len(s) : i < j => m[i] < m[j]  OBVIOUS
  <2>3. \A i \in 1..Len(s) : s[i] = (s \o t)[m[i]]  BY <1>1, <1>2
  <2> QED  BY <2>1, <2>2, <2>3 DEF Within
<1>6. ASSUME s # <<>>
      PROVE  Tail(s) \o t \in Seq(FrameType) /\ Within(Tail(s) \o t, s \o t)
  <2>1. /\ Tail(s) \in Seq(FrameType) /\ Len(Tail(s)) = Len(s) - 1 /\ Len(s) > 0
        /\ \A i \in 1..Len(Tail(s)) : Tail(s)[i] = s[i + 1]
    BY <1>2, <1>6, HeadTailProperties, EmptySeq
  <2> DEFINE r == Tail(s) \o t
             m == [i \in 1..Len(r) |-> i + 1]
  <2>2. /\ r \in Seq(FrameType) /\ Len(r) = Len(s) - 1 + Len(t)
        /\ \A i \in 1..(Len(s) - 1 + Len(t)) : r[i] = IF i <= Len(s) - 1 THEN Tail(s)[i] ELSE t[i - (Len(s) - 1)]
    BY <2>1, ConcatProperties
  <2> HIDE DEF r
  <2>3. m \in [1..Len(r) -> 1..Len(s \o t)]  BY <1>1, <1>2, <2>2
  <2>4. \A i, j \in 1..Len(r) : i < j => m[i] < m[j]  BY <1>2, <2>2
  <2>5. ASSUME NEW i \in 1..Len(r) PROVE r[i] = (s \o t)[m[i]]
    <3>1. i + 1 \in 1..(Len(s) + Len(t)) /\ m[i] = i + 1  BY <1>2, <2>2
    <3>2. CASE i <= Len(s) - 1  BY <1>1, <1>2, <2>1, <2>2, <3>1, <3>2
    <3>3. CASE ~(i <= Len(s) - 1)
      <4>1. i - (Len(s) - 1) = (i + 1) - Len(s) /\ ~(i + 1 <= Len(s))  BY <1>2, <3>3
      <4> QED  BY <1>1, <1>2, <2>2, <3>1, <3>3, <4>1
    <3> QED  BY <3>2, <3>3
  <2> QED  BY <2>2, <2>3, <2>4, <2>5 DEF Within, r
<1>7. ASSUME t # <<>>
      PROVE  s \o Tail(t) \in Seq(FrameType) /\ Within(s \o Tail(t), s \o t)
  <2>1. /\ Tail(t) \in Seq(FrameType) /\ Len(Tail(t)) = Len(t) - 1 /\ Len(t) > 0
        /\ \A i \in 1..Len(Tail(t)) : Tail(t)[i] = t[i + 1]
    BY <1>2, <1>7, HeadTailProperties, EmptySeq
  <2> DEFINE r == s \o Tail(t)
             m == [i \in 1..Len(r) |-> IF i <= Len(s) THEN i ELSE i + 1]
  <2>2. /\ r \in Seq(FrameType) /\ Len(r) = Len(s) + (Len(t) - 1)
        /\ \A i \in 1..(Len(s) + (Len(t) - 1)) : r[i] = IF i <= Len(s) THEN s[i] ELSE Tail(t)[i - Len(s)]
    BY <2>1, ConcatProperties
  <2> HIDE DEF r
  <2>3. m \in [1..Len(r) -> 1..Len(s \o t)]  BY <1>1, <1>2, <2>2
  <2>4. \A i, j \in 1..Len(r) : i < j => m[i] < m[j]  BY <1>2, <2>2
  <2>5. ASSUME NEW i \in 1..Len(r) PROVE r[i] = (s \o t)[m[i]]
    <3>2. CASE i <= Len(s)  BY <1>1, <1>2, <2>2, <3>2
    <3>3. CASE ~(i <= Len(s))
      <4>1. i + 1 \in 1..(Len(s) + Len(t)) /\ m[i] = i + 1  BY <1>2, <2>2, <3>3
      <4>2. i - Len(s) \in 1..Len(Tail(t))  BY <1>2, <2>1, <2>2, <3>3
      <4>3. (i - Len(s)) + 1 = (i + 1) - Len(s) /\ ~(i + 1 <= Len(s))  BY <1>2, <3>3
      <4>4. r[i] = Tail(t)[i - Len(s)] /\ Tail(t)[i - Len(s)] = t[(i - Len(s)) + 1]
        BY <1>2, <2>1, <2>2, <3>3, <4>2
      <4> QED  BY <1>1, <4>1, <4>3, <4>4
    <3> QED  BY <3>2, <3>3
  <2> QED  BY <2>2, <2>3, <2>4, <2>5 DEF Within, r
<1> QED  BY <1>1, <1>3, <1>4, <1>5, <1>6, <1>7

(* Frames that may follow those of s are added behind them.                 *)
LEMMA FollowsConcat ==
    ASSUME NEW s \in Seq(FrameType), NEW t \in Seq(FrameType), Follows(s), Follows(t),
           \A f \in Range(s), g \in Range(t) : MayFollow(f, g)
    PROVE  Follows(s \o t)
<1>1. /\ Len(s \o t) = Len(s) + Len(t)
      /\ \A i \in 1..(Len(s) + Len(t)) : (s \o t)[i] = IF i <= Len(s) THEN s[i] ELSE t[i - Len(s)]
  BY ConcatProperties
<1>2. Len(s) \in Nat /\ Len(t) \in Nat  BY LenProperties
<1> SUFFICES ASSUME NEW i \in 1..Len(s \o t), NEW j \in 1..Len(s \o t), i < j
             PROVE  MayFollow((s \o t)[i], (s \o t)[j])
  BY DEF Follows
<1>3. CASE j <= Len(s)
  <2>1. i \in 1..Len(s) /\ j \in 1..Len(s)  BY <1>1, <1>2, <1>3
  <2>2. (s \o t)[i] = s[i] /\ (s \o t)[j] = s[j]  BY <1>1, <1>2, <2>1
  <2> QED  BY <2>1, <2>2 DEF Follows
<1>4. CASE Len(s) < i
  <2>1. i - Len(s) \in 1..Len(t) /\ j - Len(s) \in 1..Len(t) /\ i - Len(s) < j - Len(s)
    BY <1>1, <1>2, <1>4
  <2>2. (s \o t)[i] = t[i - Len(s)] /\ (s \o t)[j] = t[j - Len(s)]  BY <1>1, <1>2, <1>4
  <2> QED  BY <2>1, <2>2 DEF Follows
<1>5. CASE i <= Len(s) /\ Len(s) < j
  <2>1. i \in 1..Len(s) /\ j - Len(s) \in 1..Len(t)  BY <1>1, <1>2, <1>5
  <2>2. (s \o t)[i] = s[i] /\ (s \o t)[j] = t[j - Len(s)]  BY <1>1, <1>2, <1>5
  <2>3. s[i] \in Range(s) /\ t[j - Len(s)] \in Range(t)  BY <2>1, RangeIndex
  <2> QED  BY <2>2, <2>3
<1> QED  BY <1>2, <1>3, <1>4, <1>5

-----------------------------------------------------------------------------
(* What a step does to the pipeline.                                        *)

(* A step that at most leaves out frames keeps the order.                   *)
LEMMA ThinOrder ==
    ASSUME OrderInv, Inv', Within(Pipeline', Pipeline), Len(calls') >= Len(calls),
           state \in {"closing", "closed"} => state' \in {"closing", "closed"},
           ~linked' => queue' = <<>>
    PROVE  Order'
<1>1. Pipeline \in Seq(FrameType) /\ Pipeline' \in Seq(FrameType)
  BY ConcatProperties DEF OrderInv, Inv, TypeOK, Pipeline
<1>2. Follows(Pipeline') /\ Range(Pipeline') \subseteq Range(Pipeline)
  BY <1>1, WithinFollows DEF OrderInv, Order
<1>3. Len(calls) \in Nat /\ Len(calls') \in Nat  BY LenProperties DEF OrderInv, Inv, TypeOK
<1>4. ASSUME NEW f \in Range(Pipeline')
      PROVE  f.id <= Len(calls') /\ (f.kind = "ChannelClose" => state' \in {"closing", "closed"})
  <2>1. f \in Range(Pipeline)  BY <1>2
  <2>2. f \in FrameType  BY <1>1, <2>1, RangeOfSeq
  <2>3. f.id \in Nat  BY <2>2 DEF FrameType
  <2> QED  BY <1>3, <2>1, <2>3 DEF OrderInv, Order
<1> QED  BY <1>2, <1>4 DEF Order

(* The frames of a new call, added behind all others on a usable channel,   *)
(* keep the order; a close frame makes the channel closing.                 *)
LEMMA CallOrder ==
    ASSUME OrderInv, Inv', usable, linked, UNCHANGED linked, Len(calls') = Len(calls) + 1,
           NEW part \in Seq(FrameType), Pipeline' = Pipeline \o part, Follows(part),
           \A f \in Range(part) : f.id = Len(calls) + 1 /\ (f.kind = "ChannelClose" => state' = "closing")
    PROVE  Order'
<1>1. Pipeline \in Seq(FrameType)  BY ConcatProperties DEF OrderInv, Inv, TypeOK, Pipeline
<1>2. Len(calls) \in Nat  BY LenProperties DEF OrderInv, Inv, TypeOK
<1>3. \A f \in Range(Pipeline) : f \in FrameType /\ f.id \in Nat /\ f.id <= Len(calls) /\ f.kind # "ChannelClose"
  <2>1. \A f \in Range(Pipeline) : f \in FrameType  BY <1>1, RangeOfSeq
  <2>2. state \notin {"closing", "closed"}  BY DEF usable
  <2> QED  BY <2>1, <2>2 DEF OrderInv, Order, FrameType
<1>4. \A f \in Range(Pipeline), g \in Range(part) : MayFollow(f, g)
  BY <1>2, <1>3 DEF MayFollow
<1>5. Follows(Pipeline')  BY <1>1, <1>4, FollowsConcat DEF OrderInv, Order
<1>6. Range(Pipeline') = Range(Pipeline) \union Range(part)  BY <1>1, RangeConcatenation
<1>7. \A f \in Range(Pipeline') :
          f.id <= Len(calls') /\ (f.kind = "ChannelClose" => state' \in {"closing", "closed"})
  BY <1>2, <1>3, <1>6
<1> QED  BY <1>5, <1>7 DEF Order

(* ChannelImpl::send(const Frame &) leaves the pipeline alone, or adds the  *)
(* frame behind all others: it goes to the queue while frames wait there.   *)
LEMMA SendAdds ==
    ASSUME TypeOK, NEW f \in FrameType, NEW ok \in BOOLEAN, send(f, ok)
    PROVE  \/ UNCHANGED <<queue, toServer>>
           \/ usable /\ linked /\ ok /\ Pipeline' = Pipeline \o <<f>>
<1>1. queue \in Seq(FrameType) /\ toServer \in Seq(FrameType) /\ <<f>> \in Seq(FrameType)
  BY DEF TypeOK
<1>2. CASE usable /\ linked /\ ok /\ queue' = Append(queue, f) /\ UNCHANGED toServer
  <2>1. queue' = queue \o <<f>>  BY <1>1, <1>2, AppendIsConcat
  <2> QED  BY <1>1, <1>2, <2>1, ConcatAssociative DEF Pipeline
<1>3. CASE usable /\ linked /\ ok /\ ~waiting /\ toServer' = Append(toServer, f) /\ UNCHANGED queue
  <2>1. queue = <<>> /\ queue' = <<>>  BY <1>3 DEF waiting
  <2>2. toServer' = toServer \o <<f>>  BY <1>1, <1>3, AppendIsConcat
  <2>3. toServer' \in Seq(FrameType)  BY <1>1, <2>2, ConcatProperties
  <2>4. Pipeline = toServer  BY <1>1, <2>1, ConcatEmptySeq DEF Pipeline
  <2>5. Pipeline' = toServer'  BY <2>1, <2>3, ConcatEmptySeq DEF Pipeline
  <2> QED  BY <1>3, <2>2, <2>4, <2>5
<1> QED  BY <1>2, <1>3 DEF send

(* Sequences of frames are joined in any order.                             *)
LEMMA Regroup ==
    ASSUME NEW s \in Seq(FrameType), NEW t \in Seq(FrameType), NEW u \in Seq(FrameType)
    PROVE  (s \o t) \o u = s \o (t \o u)
BY ConcatAssociative

(* The frames of a message, or the first of them up to one that is too      *)
(* large, are added in the same way.                                        *)
LEMMA SendAllAdds ==
    ASSUME TypeOK, NEW fs \in Seq(FrameType), NEW ok \in BOOLEAN, sendAll(fs, ok)
    PROVE  \/ UNCHANGED <<queue, toServer>>
           \/ /\ usable /\ linked
              /\ \E k \in 0..Len(fs) : Pipeline' = Pipeline \o SubSeq(fs, 1, k)
<1>1. queue \in Seq(FrameType) /\ toServer \in Seq(FrameType) /\ Len(fs) \in Nat
  BY LenProperties DEF TypeOK
<1>2. CASE usable /\ linked /\ queue' = queue \o fs /\ UNCHANGED toServer
  <2>1. SubSeq(fs, 1, Len(fs)) = fs  BY SubSeqFull
  <2>2. Pipeline' = Pipeline \o fs
    <3>1. (toServer \o queue) \o fs = toServer \o (queue \o fs)  BY <1>1, Regroup
    <3> QED  BY <1>2, <3>1 DEF Pipeline
  <2>3. Len(fs) \in 0..Len(fs) /\ Pipeline' = Pipeline \o SubSeq(fs, 1, Len(fs))  BY <1>1, <2>1, <2>2
  <2> QED  BY <1>2, <2>3
<1>3. CASE /\ usable /\ linked /\ ~waiting /\ UNCHANGED queue
           /\ \E k \in 0..Len(fs) : toServer' = toServer \o SubSeq(fs, 1, k)
  <2>1. PICK k \in 0..Len(fs) : toServer' = toServer \o SubSeq(fs, 1, k)  BY <1>3
  <2>2. queue = <<>> /\ queue' = <<>>  BY <1>3 DEF waiting
  <2>3. SubSeq(fs, 1, k) \in Seq(FrameType)  BY <1>1, SubSeqProperties, ElementOfSeq
  <2>4. toServer' \in Seq(FrameType)  BY <1>1, <2>1, <2>3, ConcatProperties
  <2>5. Pipeline = toServer  BY <1>1, <2>2, ConcatEmptySeq DEF Pipeline
  <2>6. Pipeline' = toServer'  BY <2>2, <2>4, ConcatEmptySeq DEF Pipeline
  <2> QED  BY <1>3, <2>1, <2>5, <2>6
<1> QED  BY <1>2, <1>3 DEF sendAll

(* ChannelImpl::flush moves frames from the queue to the wire.              *)
LEMMA FlushMoves ==
    ASSUME TypeOK, flush
    PROVE  /\ Relays => Pipeline' = Pipeline
           /\ Within(Pipeline', Pipeline)
<1>1. queue \in Seq(FrameType) /\ toServer \in Seq(FrameType) /\ Len(queue) \in Nat
  BY LenProperties DEF TypeOK
<1>2. ASSUME Relays PROVE Pipeline' = Pipeline
  <2>1. PICK k \in 0..Len(queue) :
            toServer' = toServer \o SubSeq(queue, 1, k) /\ queue' = SubSeq(queue, k + 1, Len(queue))
    BY <1>2 DEF flush
  <2>2. SubSeq(queue, 1, k) \in Seq(FrameType)  BY <1>1, SubSeqProperties, ElementOfSeq
  <2>3. SubSeq(queue, k + 1, Len(queue)) \in Seq(FrameType)
    <3>1. \A i \in (k + 1)..Len(queue) : queue[i] \in FrameType  BY <1>1, ElementOfSeq
    <3> QED  BY <1>1, <3>1, SubSeqProperties
  <2>4. SubSeq(queue, 1, k) \o SubSeq(queue, k + 1, Len(queue)) = queue
    <3>1. 1 \in 1..(Len(queue) + 1) /\ k \in (1 - 1)..Len(queue) /\ Len(queue) \in k..Len(queue)
      BY <1>1
    <3> QED  BY <1>1, <3>1, ConcatAdjacentSubSeq, SubSeqFull
  <2> DEFINE sent == SubSeq(queue, 1, k)
             rest == SubSeq(queue, k + 1, Len(queue))
  <2>5. sent \in Seq(FrameType) /\ rest \in Seq(FrameType) /\ sent \o rest = queue
    BY <2>2, <2>3, <2>4
  <2>6. (toServer \o sent) \o rest = toServer \o queue
    <3> HIDE DEF sent, rest
    <3>1. toServer \in Seq(FrameType) /\ sent \in Seq(FrameType) /\ rest \in Seq(FrameType)
      BY <1>1, <2>5
    <3>2. (toServer \o sent) \o rest = toServer \o (sent \o rest)
      BY <3>1, Regroup
    <3> QED  BY <3>2, <2>5
  <2> QED  BY <2>1, <2>6 DEF Pipeline
<1>3. ASSUME ~Relays PROVE Within(Pipeline', Pipeline)
  <2>1. UNCHANGED toServer /\ queue' = IF queue = <<>> THEN <<>> ELSE Tail(queue)  BY <1>3 DEF flush
  <2> QED  BY <1>1, <2>1, WithinParts DEF Pipeline
<1>4. Within(Pipeline, Pipeline)  BY <1>1, WithinParts DEF Pipeline
<1> QED  BY <1>2, <1>3, <1>4

(* ChannelImpl::reportError cuts the queue off.                             *)
LEMMA CutOrder ==
    ASSUME OrderInv, Inv', NEW rest, reportError(rest), UNCHANGED toServer
    PROVE  Order'
<1>1. queue' = <<>> /\ state' = "closed" /\ Len(calls') = Len(calls)
  <2>1. DOMAIN calls' = DOMAIN calls  BY DEF reportError, Failed
  <2>2. Len(calls') = Len(calls)  BY <2>1, LenProperties DEF OrderInv, Inv, TypeOK
  <2> QED  BY <2>2 DEF reportError
<1>2. Within(Pipeline', Pipeline)
  <2>1. queue \in Seq(FrameType) /\ toServer \in Seq(FrameType)  BY DEF OrderInv, Inv, TypeOK
  <2>2. Pipeline' = toServer  BY <1>1, <2>1, ConcatEmptySeq DEF Pipeline
  <2> QED  BY <2>1, <2>2, WithinParts DEF Pipeline
<1>3. Len(calls) \in Nat  BY LenProperties DEF OrderInv, Inv, TypeOK
<1> QED  BY <1>1, <1>2, <1>3, ThinOrder

(* A step that leaves the pipeline alone.                                   *)
LEMMA IdleOrder ==
    ASSUME OrderInv, Inv', UNCHANGED <<toServer, queue, linked>>, Len(calls') >= Len(calls),
           state \in {"closing", "closed"} => state' \in {"closing", "closed"}
    PROVE  Order'
<1>1. Within(Pipeline', Pipeline)
  BY WithinParts DEF Pipeline, OrderInv, Inv, TypeOK
<1> QED  BY <1>1, ThinOrder DEF OrderInv, Order

-----------------------------------------------------------------------------
(* The calls of the application.                                            *)

(* A call that sends one frame: Request, Notify and close().                *)
LEMMA FrameOrder ==
    ASSUME OrderInv, Inv', NEW f \in FrameType, NEW ok \in BOOLEAN, send(f, ok),
           f.id = Len(calls) + 1, Len(calls') = Len(calls) + 1, UNCHANGED linked,
           f.kind = "ChannelClose" /\ ok /\ usable => state' = "closing",
           state \in {"closing", "closed"} => state' \in {"closing", "closed"}
    PROVE  Order'
<1>1. Len(calls) \in Nat  BY LenProperties DEF OrderInv, Inv, TypeOK
<1>2. CASE UNCHANGED <<queue, toServer>>  BY <1>1, <1>2, IdleOrder
<1>3. CASE usable /\ linked /\ ok /\ Pipeline' = Pipeline \o <<f>>
  <2>1. <<f>> \in Seq(FrameType) /\ Len(<<f>>) = 1 /\ <<f>>[1] = f  OBVIOUS
  <2>2. Follows(<<f>>)  BY <2>1 DEF Follows
  <2>3. \A x \in Range(<<f>>) : x = f
    <3>1. \A x : x \in Range(<<f>>) <=> \E i \in 1..Len(<<f>>) : x = <<f>>[i]  BY <2>1, RangeIndex
    <3> QED  BY <2>1, <3>1
  <2> QED  BY <1>3, <2>1, <2>2, <2>3, CallOrder
<1> QED  BY <1>2, <1>3, SendAdds DEF OrderInv, Inv

(* No frame of a message is synchronous.                                    *)
LEMMA MessageKinds ==
    {"BasicPublish", "BasicHeader", "Body"} \intersect SynchronousKinds = {}
<1>1. ASSUME NEW type, NEW fields, NEW fixed, NEW operands
      PROVE  LET e == ExtFrame(type, fields, fixed, operands)
             IN  /\ "synchronous" \in DOMAIN e /\ "class" \in DOMAIN e /\ "method" \in DOMAIN e
                 /\ "process" \in DOMAIN e /\ e.synchronous = FALSE
  BY DEF ExtFrame
<1>2. BasicPublishFrame.synchronous = FALSE
  BY <1>1 DEF BasicPublishFrame, Asynchronous, BasicFrame, MethodFrame
<1>3. BasicHeaderFrame.synchronous = FALSE
  <2> DEFINE fields == <<"short">> \o <<"short", "longlong", "metadata">>
             size == 10 + 2
             e == ExtFrame(2, fields, size, 1)
  <2>1. /\ "synchronous" \in DOMAIN e /\ "class" \in DOMAIN e /\ "process" \in DOMAIN e
        /\ e.synchronous = FALSE
    <3> HIDE DEF fields, size
    <3> QED  BY DEF ExtFrame
  <2>2. BasicHeaderFrame = [[e EXCEPT !.class = 60] EXCEPT !.process = "header"]
    BY DEF BasicHeaderFrame, Processed, HeaderFrame
  <2> HIDE DEF e
  <2> QED  BY <2>1, <2>2
<1>4. BodyFrame.synchronous = FALSE
  BY <1>1 DEF BodyFrame, Processed
<1>5. /\ Catalogue["BasicPublish"] = BasicPublishFrame
      /\ Catalogue["BasicHeader"] = BasicHeaderFrame
      /\ Catalogue["Body"] = BodyFrame
  BY DEF Catalogue
<1> QED  BY <1>2, <1>3, <1>4, <1>5 DEF SynchronousKinds

(* A message has two or three frames.                                       *)
LEMMA MessageLength ==
    ASSUME NEW id \in Nat, NEW big \in BOOLEAN, NEW bodySize \in {0, 1}
    PROVE  Len(MessageFrames(id, big, bodySize)) \in {2, 3}
<1> DEFINE a == Frame("BasicPublish", id, FALSE)
           b == Frame("BasicHeader", id, big)
           c == Frame("Body", id, FALSE)
           fs == MessageFrames(id, big, bodySize)
<1>1. fs = <<a, b>> \/ fs = Append(<<a, b>>, c)  BY DEF MessageFrames
<1> HIDE DEF a, b, c, fs
<1>2. <<a, b>> \in Seq({a, b, c}) /\ Len(<<a, b>>) = 2  OBVIOUS
<1>3. Len(Append(<<a, b>>, c)) = 3  BY <1>2, AppendProperties
<1> QED  BY <1>1, <1>2, <1>3 DEF fs

(* The frames of one message follow each other.                             *)
LEMMA MessageFollows ==
    ASSUME NEW id \in Nat, NEW big \in BOOLEAN, NEW bodySize \in {0, 1},
           NEW k \in 0..Len(MessageFrames(id, big, bodySize))
    PROVE  LET part == SubSeq(MessageFrames(id, big, bodySize), 1, k)
           IN  /\ MessageFrames(id, big, bodySize) \in Seq(FrameType)
               /\ part \in Seq(FrameType) /\ Follows(part)
               /\ \A f \in Range(part) :
                     f.id = id /\ f.kind \in {"BasicPublish", "BasicHeader", "Body"}
<1> DEFINE a == Frame("BasicPublish", id, FALSE)
           b == Frame("BasicHeader", id, big)
           c == Frame("Body", id, FALSE)
           fs == MessageFrames(id, big, bodySize)
           part == SubSeq(fs, 1, k)
           M == {f \in FrameType : f.id = id /\ f.kind \in {"BasicPublish", "BasicHeader", "Body"}}
<1>1. a \in M /\ b \in M /\ c \in M
  <2>1. a \in FrameType /\ b \in FrameType /\ c \in FrameType  BY ChannelKinds, FrameTyped
  <2> QED  BY <2>1 DEF Frame
<1>2. fs = <<a, b>> \/ fs = Append(<<a, b>>, c)  BY DEF MessageFrames
<1> HIDE DEF a, b, c, fs
<1>3. <<a, b>> \in Seq(M)  BY <1>1, TupleIsSeq
<1>4. fs \in Seq(M)
  <2> HIDE DEF M
  <2>1. Append(<<a, b>>, c) \in Seq(M)  BY <1>1, <1>3, AppendProperties
  <2> QED  BY <1>2, <1>3, <2>1
<1> HIDE DEF M
<1>5. Len(fs) \in Nat /\ k \in 0..Len(fs)  BY <1>4, LenProperties DEF fs
<1>6. part \in Seq(M)
  <2>1. \A i \in 1..k : fs[i] \in M  BY <1>4, <1>5, ElementOfSeq
  <2> QED  BY <1>5, <2>1, SubSeqProperties
<1>7. M \subseteq FrameType  BY DEF M
<1>8. part \in Seq(FrameType) /\ fs \in Seq(FrameType)  BY <1>4, <1>6, <1>7, SeqMonotonic
<1>9. \A f \in M : f.id = id /\ f.kind \in {"BasicPublish", "BasicHeader", "Body"}  BY DEF M
<1>10. \A f \in Range(part) : f \in M  BY <1>6, RangeOfSeq
<1>11. \A kind \in {"BasicPublish", "BasicHeader", "Body"} : kind \notin SynchronousKinds
  BY MessageKinds
<1>12. \A f, g \in M : MayFollow(f, g)  BY <1>9, <1>11 DEF MayFollow
<1>13. Follows(part)  BY <1>6, <1>12, ElementOfSeq DEF Follows
<1> QED  BY <1>8, <1>9, <1>10, <1>13 DEF fs

(* ChannelImpl::publish.                                                    *)
LEMMA PublishOrder ==
    ASSUME OrderInv, Inv', publish
    PROVE  Order'
<1>1. UNCHANGED <<state, linked>>  BY DEF publish
<1>2. PICK ok \in BOOLEAN, big \in Sizes("BasicPublish"), bodySize \in {0, 1} :
          /\ sendAll(MessageFrames(Len(calls) + 1, big, bodySize), ok)
          /\ calls' = Append(calls, Call("BasicPublish", "none"))
  BY DEF publish
<1> DEFINE id == Len(calls) + 1
           fs == MessageFrames(id, big, bodySize)
<1>3. Len(calls) \in Nat /\ id \in Nat /\ big \in BOOLEAN
  BY LenProperties, SizesBoolean DEF OrderInv, Inv, TypeOK
<1>4. Len(calls') = id  BY <1>2, AppendLength DEF OrderInv, Inv, TypeOK
<1>5. fs \in Seq(FrameType)
  <2>1. 0 \in 0..Len(fs)  BY MessageLength, <1>3
  <2> QED  BY <1>3, <2>1, MessageFollows
<1>6. sendAll(fs, ok)  BY <1>2
<1> HIDE DEF fs
<1>7. CASE UNCHANGED <<queue, toServer>>  BY <1>1, <1>3, <1>4, <1>7, IdleOrder
<1>8. CASE /\ usable /\ linked
           /\ \E k \in 0..Len(fs) : Pipeline' = Pipeline \o SubSeq(fs, 1, k)
  <2>1. PICK k \in 0..Len(fs) : Pipeline' = Pipeline \o SubSeq(fs, 1, k)  BY <1>8
  <2> DEFINE part == SubSeq(fs, 1, k)
  <2>2. /\ part \in Seq(FrameType) /\ Follows(part)
        /\ \A f \in Range(part) : f.id = id /\ f.kind \in {"BasicPublish", "BasicHeader", "Body"}
    BY <1>3, MessageFollows DEF fs
  <2> HIDE DEF part
  <2>3. Pipeline' = Pipeline \o part  BY <2>1 DEF part
  <2> QED  BY <1>1, <1>4, <1>8, <2>2, <2>3, CallOrder
<1> QED  BY <1>5, <1>6, <1>7, <1>8, SendAllAdds DEF OrderInv, Inv

(* The calls of Request and Notify.                                         *)
LEMMA RequestOrder ==
    ASSUME OrderInv, Inv', NEW kind \in Kinds, kind # "ChannelClose", Request(kind) \/ Notify(kind)
    PROVE  Order'
<1>1. UNCHANGED <<state, linked>>  BY DEF Request, Notify
<1>2. PICK ok \in BOOLEAN, big \in BOOLEAN :
          /\ send(Frame(kind, Len(calls) + 1, big), ok)
          /\ Len(calls') = Len(calls) + 1
  <2>1. CASE Request(kind)
    <3>1. PICK ok \in BOOLEAN, big \in Sizes(kind) :
              send(Frame(kind, Len(calls) + 1, big), ok) /\ push(kind, ok)
      BY <2>1 DEF Request
    <3>2. Len(calls') = Len(calls) + 1  BY <3>1, AppendLength DEF push, OrderInv, Inv, TypeOK
    <3> QED  BY <3>1, <3>2, SizesBoolean
  <2>2. CASE Notify(kind)
    <3>1. PICK ok \in BOOLEAN :
              send(Frame(kind, Len(calls) + 1, FALSE), ok) /\ calls' = Append(calls, Call(kind, "none"))
      BY <2>2 DEF Notify
    <3>2. Len(calls') = Len(calls) + 1  BY <3>1, AppendLength DEF OrderInv, Inv, TypeOK
    <3> QED  BY <3>1, <3>2
  <2> QED  BY <2>1, <2>2
<1> DEFINE f == Frame(kind, Len(calls) + 1, big)
<1>3. f \in FrameType
  <2>1. Len(calls) + 1 \in Nat  BY LenProperties DEF OrderInv, Inv, TypeOK
  <2> QED  BY <2>1, FrameTyped
<1>4. f.id = Len(calls) + 1 /\ f.kind = kind  BY DEF Frame
<1>5. send(f, ok)  BY <1>2
<1> HIDE DEF f
<1> QED  BY <1>1, <1>2, <1>3, <1>4, <1>5, FrameOrder

(* ChannelImpl::close.                                                      *)
LEMMA CloseOrder ==
    ASSUME OrderInv, Inv', close
    PROVE  Order'
<1>1. UNCHANGED linked  BY DEF close
<1>2. Len(calls) \in Nat  BY LenProperties DEF OrderInv, Inv, TypeOK
<1>3. CASE ~usable
  <2>1. push("ChannelClose", state # "closing") /\ UNCHANGED <<state, queue, synchronous, toServer>>
    BY <1>3 DEF close, closeChannel
  <2>2. Len(calls') = Len(calls) + 1  BY <2>1, AppendLength DEF push, OrderInv, Inv, TypeOK
  <2> QED  BY <1>1, <1>2, <2>1, <2>2, IdleOrder
<1>4. CASE usable
  <2> DEFINE f == Frame("ChannelClose", Len(calls) + 1, FALSE)
  <2>1. PICK ok \in BOOLEAN :
            send(f, ok) /\ push("ChannelClose", ok) /\ state' = IF ok THEN "closing" ELSE state
    BY <1>4 DEF close, closeChannel
  <2>2. Len(calls') = Len(calls) + 1  BY <2>1, AppendLength DEF push, OrderInv, Inv, TypeOK
  <2>3. f \in FrameType /\ f.id = Len(calls) + 1
    <3>1. Len(calls) + 1 \in Nat  BY <1>2
    <3> QED  BY <3>1, ChannelKinds, FrameTyped DEF Frame
  <2> HIDE DEF f
  <2> QED  BY <1>1, <1>4, <2>1, <2>2, <2>3, FrameOrder DEF usable
<1> QED  BY <1>3, <1>4

(* ChannelImpl::attach: the open frame is the first.                        *)
LEMMA AttachOrder ==
    ASSUME OrderInv, Inv', attach
    PROVE  Order'
<1> DEFINE f == Frame("ChannelOpen", 0, FALSE)
<1>1. toServer' = <<f>> /\ linked' = TRUE /\ queue' = queue /\ calls' = calls /\ state = "unattached"
  BY DEF attach
<1>2. queue = <<>>  BY <1>1 DEF OrderInv, Inv, Settling, Order
<1>3. f \in FrameType /\ f.id = 0 /\ f.kind = "ChannelOpen"  BY ChannelKinds, FrameTyped DEF Frame
<1> HIDE DEF f
<1>4. <<f>> \in Seq(FrameType) /\ Len(<<f>>) = 1 /\ <<f>>[1] = f  BY <1>3
<1>5. Pipeline' = <<f>>  BY <1>1, <1>2, <1>4, ConcatEmptySeq DEF Pipeline
<1>6. \A x \in Range(<<f>>) : x = f
  <2>1. \A x : x \in Range(<<f>>) <=> \E i \in 1..Len(<<f>>) : x = <<f>>[i]  BY <1>4, RangeIndex
  <2> QED  BY <1>4, <2>1
<1>7. Follows(Pipeline')  BY <1>4, <1>5 DEF Follows
<1>8. Len(calls') \in Nat  BY LenProperties DEF Inv, TypeOK
<1> QED  BY <1>1, <1>3, <1>5, <1>6, <1>7, <1>8 DEF Order

-----------------------------------------------------------------------------
(* Received frames.                                                         *)

(* A step that flushes the queue.                                           *)
LEMMA FlushOrder ==
    ASSUME OrderInv, Inv', linked, flush, UNCHANGED linked, DOMAIN calls' = DOMAIN calls,
           state \in {"closing", "closed"} => state' \in {"closing", "closed"}
    PROVE  Order'
<1>1. Len(calls') = Len(calls) /\ Len(calls) \in Nat  BY LenProperties DEF OrderInv, Inv, TypeOK
<1>2. Within(Pipeline', Pipeline)  BY FlushMoves DEF OrderInv, Inv
<1> QED  BY <1>1, <1>2, ThinOrder

(* The frames that a channel or the receiver of a message handles.          *)
LEMMA ReceivedOrder ==
    ASSUME OrderInv, Inv', reportReady \/ reportSuccess \/ getOK \/ header \/ body
    PROVE  Order'
<1>1. linked /\ UNCHANGED linked
  BY DEF reportReady, reportSuccess, getOK, header, body, content
<1>2. state \in {"closing", "closed"} => state' \in {"closing", "closed"}
  BY DEF reportReady, reportSuccess, getOK, header, body, content
<1>3. DOMAIN calls' = DOMAIN calls
  BY DEF reportReady, reportSuccess, getOK, header, body, content, resolveOldest
<1>4. flush \/ UNCHANGED <<queue, toServer>>
  BY DEF reportReady, reportSuccess, getOK, header, body, content, resolveOldest
<1>5. CASE flush  BY <1>1, <1>2, <1>3, <1>5, FlushOrder
<1>6. CASE UNCHANGED <<queue, toServer>>
  <2>1. Len(calls') = Len(calls) /\ Len(calls) \in Nat
    BY <1>3, LenProperties DEF OrderInv, Inv, TypeOK
  <2> QED  BY <1>1, <1>2, <1>6, <2>1, IdleOrder
<1> QED  BY <1>4, <1>5, <1>6

(* ChannelImpl::reportClosed, and the return from the callback.             *)
LEMMA ClosedOrder ==
    ASSUME OrderInv, Inv', reportClosed \/ callbackReturns
    PROVE  Order'
<1>1. CASE reportClosed
  <2>1. CASE resolveOldest(Head(toClient).id) /\ state' = "closed" /\ UNCHANGED linked
    <3>1. linked  BY <1>1 DEF reportClosed
    <3>2. flush /\ DOMAIN calls' = DOMAIN calls  BY <2>1 DEF resolveOldest
    <3> QED  BY <2>1, <3>1, <3>2, FlushOrder
  <2>2. CASE reportError(chain) /\ UNCHANGED toServer  BY <2>2, CutOrder
  <2> QED  BY <1>1, <2>1, <2>2 DEF reportClosed
<1>2. CASE callbackReturns
  <2>1. UNCHANGED toServer  BY <1>2 DEF callbackReturns, wireVars
  <2>2. CASE UNCHANGED <<state, linked, synchronous, queue, calls>>
    <3>1. Len(calls) \in Nat  BY LenProperties DEF OrderInv, Inv, TypeOK
    <3> QED  BY <2>1, <2>2, <3>1, IdleOrder
  <2>3. CASE \E rest : reportError(rest)
    <3>1. PICK rest : reportError(rest)  BY <2>3
    <3> QED  BY <2>1, <3>1, CutOrder
  <2> QED  BY <1>2, <2>2, <2>3 DEF callbackReturns
<1> QED  BY <1>1, <1>2

(* ChannelCloseFrame::process: the confirmation may go behind any frame.    *)
LEMMA ChannelCloseOrder ==
    ASSUME OrderInv, Inv', channelClose
    PROVE  Order'
<1> DEFINE f == Frame("ChannelCloseOK", 0, FALSE)
<1>1. queue' = <<>> /\ ~linked' /\ (linked => state' = "closed") /\ (~linked => state' = state)
  BY DEF channelClose, reportError, OrderInv, Order
<1>2. DOMAIN calls' = DOMAIN calls  BY DEF channelClose, reportError, Failed
<1>3. Len(calls') = Len(calls) /\ Len(calls) \in Nat
  BY <1>2, LenProperties DEF OrderInv, Inv, TypeOK
<1>4. toServer' = toServer \/ toServer' = Append(toServer, f)  BY DEF channelClose
<1>5. f \in FrameType /\ f.id = 0 /\ f.kind = "ChannelCloseOK"  BY ChannelKinds, FrameTyped DEF Frame
<1>6. /\ toServer \in Seq(FrameType) /\ queue \in Seq(FrameType) /\ toServer' \in Seq(FrameType)
      /\ Pipeline \in Seq(FrameType)
  BY ConcatProperties DEF OrderInv, Inv, TypeOK, Pipeline
<1>7. Pipeline' = toServer'  BY <1>1, <1>6, ConcatEmptySeq DEF Pipeline
<1>8. Follows(toServer) /\ Range(toServer) \subseteq Range(Pipeline)
  <2>1. Within(toServer, Pipeline)  BY <1>6, WithinParts DEF Pipeline
  <2> QED  BY <1>6, <2>1, WithinFollows DEF OrderInv, Order
<1> HIDE DEF f
<1>9. Follows(toServer') /\ Range(toServer') \subseteq Range(toServer) \union {f}
  <2>1. CASE toServer' = toServer  BY <1>8, <2>1
  <2>2. CASE toServer' = Append(toServer, f)
    <3>1. <<f>> \in Seq(FrameType) /\ Len(<<f>>) = 1 /\ <<f>>[1] = f  BY <1>5
    <3>2. \A x \in Range(<<f>>) : x = f
      <4>1. \A x : x \in Range(<<f>>) <=> \E i \in 1..Len(<<f>>) : x = <<f>>[i]  BY <3>1, RangeIndex
      <4> QED  BY <3>1, <4>1
    <3>3. Follows(<<f>>)  BY <3>1 DEF Follows
    <3>4. \A x : MayFollow(x, f)  BY <1>5 DEF MayFollow
    <3>5. Follows(toServer \o <<f>>)  BY <1>6, <1>8, <3>1, <3>2, <3>3, <3>4, FollowsConcat
    <3>6. toServer' = toServer \o <<f>>  BY <1>5, <1>6, <2>2, AppendIsConcat
    <3>7. Range(toServer') = Range(toServer) \union {f}  BY <1>5, <1>6, <2>2, RangeAppend
    <3> QED  BY <3>5, <3>6, <3>7
  <2> QED  BY <1>4, <2>1, <2>2
<1>10. state \in {"closing", "closed"} => state' \in {"closing", "closed"}  BY <1>1
<1>11. \A x \in Range(Pipeline') :
          x.id <= Len(calls') /\ (x.kind = "ChannelClose" => state' \in {"closing", "closed"})
  BY <1>3, <1>5, <1>7, <1>8, <1>9, <1>10 DEF OrderInv, Order
<1> QED  BY <1>1, <1>7, <1>9, <1>11 DEF Order

-----------------------------------------------------------------------------
(* The connection and the server.                                           *)

(* ConnectionImpl::close and the end of the connection.                     *)
LEMMA ConnectionOrder ==
    ASSUME OrderInv, Inv', Connection
    PROVE  Order'
<1>1. Len(calls) \in Nat  BY LenProperties DEF OrderInv, Inv, TypeOK
<1>2. CASE connectionClose
  <2> DEFINE f == Frame("ChannelClose", Len(calls) + 1, FALSE)
  <2>1. linked /\ UNCHANGED <<linked, toServer>>  BY <1>2 DEF connectionClose, wireVars
  <2>2. Len(calls') = Len(calls) + 1
    BY <1>2, AppendLength DEF connectionClose, push, OrderInv, Inv, TypeOK
  <2>3. CASE UNCHANGED <<state, queue>>  BY <1>1, <2>1, <2>2, <2>3, IdleOrder
  <2>4. CASE usable /\ queue' = Append(queue, f) /\ state' = "closing"
    <3>1. f \in FrameType /\ f.id = Len(calls) + 1
      <4>1. Len(calls) + 1 \in Nat  BY <1>1
      <4> QED  BY <4>1, ChannelKinds, FrameTyped DEF Frame
    <3> HIDE DEF f
    <3>2. <<f>> \in Seq(FrameType) /\ Len(<<f>>) = 1 /\ <<f>>[1] = f  BY <3>1
    <3>3. queue \in Seq(FrameType) /\ toServer \in Seq(FrameType)  BY DEF OrderInv, Inv, TypeOK
    <3>4. queue' = queue \o <<f>>  BY <2>4, <3>1, <3>3, AppendIsConcat
    <3>5. Pipeline' = Pipeline \o <<f>>  BY <2>1, <3>2, <3>3, <3>4, ConcatAssociative DEF Pipeline
    <3>6. Follows(<<f>>)  BY <3>2 DEF Follows
    <3>7. \A x \in Range(<<f>>) : x = f
      <4>1. \A x : x \in Range(<<f>>) <=> \E i \in 1..Len(<<f>>) : x = <<f>>[i]  BY <3>2, RangeIndex
      <4> QED  BY <3>2, <4>1
    <3> QED  BY <2>1, <2>2, <2>4, <3>1, <3>2, <3>5, <3>6, <3>7, CallOrder
  <2> QED  BY <1>2, <2>3, <2>4 DEF connectionClose
<1>3. CASE connectionSendClose \/ connectionClosed
  <2>1. UNCHANGED <<toServer, queue, linked, state, calls>>
    BY <1>3 DEF connectionSendClose, connectionClosed, wireVars, channelVars
  <2> QED  BY <1>1, <2>1, IdleOrder
<1>4. CASE connectionFail
  <2>1. UNCHANGED toServer  BY <1>4 DEF connectionFail, wireVars
  <2>2. CASE reportError(chain)  BY <2>1, <2>2, CutOrder
  <2>3. CASE UNCHANGED <<state, linked, synchronous, queue, chain, calls>>
    BY <1>1, <2>1, <2>3, IdleOrder
  <2> QED  BY <1>4, <2>2, <2>3 DEF connectionFail
<1> QED  BY <1>2, <1>3, <1>4 DEF Connection

(* The server reads from the front.                                         *)
LEMMA ServerOrder ==
    ASSUME OrderInv, Inv', Server
    PROVE  Order'
<1>1. UNCHANGED <<state, linked, queue, calls>>
  BY DEF Server, serverReceive, serverRaises, channelVars
<1>2. Len(calls) \in Nat  BY LenProperties DEF OrderInv, Inv, TypeOK
<1>3. CASE serverReceive
  <2>1. toServer # <<>> /\ toServer' = Tail(toServer)  BY <1>3 DEF serverReceive
  <2>2. Within(Pipeline', Pipeline)  BY <1>1, <2>1, WithinParts DEF Pipeline, OrderInv, Inv, TypeOK
  <2> QED  BY <1>1, <1>2, <2>2, ThinOrder DEF OrderInv, Order
<1>4. CASE serverRaises
  BY <1>1, <1>2, <1>4, IdleOrder DEF serverRaises
<1> QED  BY <1>3, <1>4 DEF Server

-----------------------------------------------------------------------------
(* The initial state: nothing is on its way.                                *)
LEMMA InitOrder == Init => OrderInv
<1> SUFFICES ASSUME Init PROVE OrderInv  OBVIOUS
<1>1. Inv  BY InitInv
<1>2. Pipeline = <<>>  BY EmptySeq, ConcatEmptySeq DEF Init, Pipeline
<1>3. Len(Pipeline) = 0 /\ Range(Pipeline) = {}  BY <1>2, EmptySeq DEF Range
<1> QED  BY <1>1, <1>3 DEF Init, OrderInv, Order, Follows

(* Every step keeps the order.                                              *)
LEMMA NextOrder == OrderInv /\ [Next]_vars => OrderInv'
<1> SUFFICES ASSUME OrderInv, [Next]_vars PROVE OrderInv'  OBVIOUS
<1>1. Inv'  BY NextInv DEF OrderInv
<1> SUFFICES Order'  BY <1>1 DEF OrderInv
<1>2. CASE Application
  <2>1. \/ attach \/ close \/ publish
        \/ \E kind : kind # "ChannelClose" /\ (Request(kind) \/ Notify(kind))
    BY <1>2 DEF Application, ack, reject, get, recover, pause, resume, confirmSelect,
         startTransaction, commitTransaction, rollbackTransaction, declareExchange, bindExchange,
         unbindExchange, removeExchange, declareQueue, bindQueue, unbindQueue, purgeQueue,
         removeQueue, setQos, consume, cancel
  <2>2. ASSUME NEW kind, kind # "ChannelClose", Request(kind) \/ Notify(kind)
        PROVE  Order'
    <3>1. kind \in Kinds  BY <2>2, ChannelAssumption DEF Request, Notify, MayCall, ChannelAssumption
    <3> QED  BY <1>1, <2>2, <3>1, RequestOrder
  <2> QED  BY <1>1, <2>1, <2>2, AttachOrder, CloseOrder, PublishOrder
<1>3. CASE Library
  <2>1. CASE ignored
    <3>1. UNCHANGED <<toServer, queue, linked, state, calls>>  BY <2>1 DEF ignored, channelVars
    <3>2. Len(calls) \in Nat  BY LenProperties DEF OrderInv, Inv, TypeOK
    <3> QED  BY <1>1, <3>1, <3>2, IdleOrder
  <2> QED  BY <1>1, <1>3, <2>1, ReceivedOrder, ClosedOrder, ChannelCloseOrder DEF Library
<1>4. CASE Connection  BY <1>1, <1>4, ConnectionOrder
<1>5. CASE Server  BY <1>1, <1>5, ServerOrder
<1>6. CASE UNCHANGED vars
  <2>1. UNCHANGED <<toServer, queue, linked, state, calls>>  BY <1>6 DEF vars, channelVars, wireVars
  <2>2. Len(calls) \in Nat  BY LenProperties DEF OrderInv, Inv, TypeOK
  <2> QED  BY <1>1, <2>1, <2>2, IdleOrder
<1> QED  BY <1>2, <1>3, <1>4, <1>5, <1>6 DEF Next

(* The pipeline is in order in every reachable state.                       *)
THEOREM PipelineOrdered == Spec => []OrderInv
BY InitOrder, NextOrder, PTL DEF Spec

(* The frames of the calls reach the wire in the order of the calls, sent   *)
(* at once by ChannelImpl::send or queued and flushed, for every set of     *)
(* requests.                                                                *)
THEOREM SentInOrder == Spec => []InOrder
<1>1. OrderInv => InOrder  BY DEF OrderInv, Order, Follows, MayFollow, Pipeline, InOrder
<1> QED  BY <1>1, PipelineOrdered, PTL

(* After its own close frame a channel sends nothing but the confirmation   *)
(* of a close by the server (ChannelImpl::close, ChannelCloseFrame::process *)
(* and the flush of what was queued before).                                *)
THEOREM CloseIsLast == Spec => []NothingAfterClose
<1>1. OrderInv => NothingAfterClose
  BY DEF OrderInv, Order, Follows, MayFollow, Pipeline, NothingAfterClose
<1> QED  BY <1>1, PipelineOrdered, PTL

-----------------------------------------------------------------------------
(***************************************************************************)
(* Why answers find their deferred.  Frames carry no reference to a call:  *)
(* ChannelImpl::reportSuccess resolves the oldest deferred of the chain,   *)
(* and relies on having at most one unanswered frame on the wires and on   *)
(* the order of the chain.                                                 *)
(*                                                                         *)
(* The first part shows that Frame::synchronous and the queue of           *)
(* ChannelImpl keep at most one unanswered frame on the wires              *)
(* (OneAtATime), the second one AnswersMatch and ResolvedOnce, for every   *)
(* application that keeps to                                               *)
(*   - calls whose frame is synchronous if and only if it is answered, and *)
(*     answered by one frame: all but get(), recover(), reject() with the  *)
(*     multiple flag and declareExchange() with nowait,                    *)
(*   - frames that fit into the negotiated maximum,                        *)
(* and for connections that are not lost from within a callback (Orderly). *)
(* The server may raise an error and the connection may be closed or lost  *)
(* at any other time, and callbacks may call the channel again.  Without   *)
(* the first two restrictions answers go astray: see the runs ChannelNack  *)
(* and ChannelOversize.                                                    *)
(***************************************************************************)

(* The frames that are synchronous and answered by one frame, and those     *)
(* that are neither.                                                        *)
Answerable == SynchronousKinds \intersect DOMAIN AnswerOf
Plain == {"BasicPublish", "BasicHeader", "Body", "BasicAck", "BasicReject"}

Orderly ==
    /\ Requests \subseteq (Answerable \ {"ChannelOpen"}) \union Plain
    /\ MayExceed = {}
    /\ FailInCallback = FALSE

Asks(f) == f.kind \in Answerable
Replies(a) == a.kind # "ChannelClose"

(* Behind a synchronous frame there is only the confirmation of a close.    *)
Lone(s) ==
    \A i, j \in 1..Len(s) : i < j /\ s[i].kind \in SynchronousKinds => s[j].kind = "ChannelCloseOK"

(* There is at most one reply.                                              *)
Single(s) == \A i, j \in 1..Len(s) : i < j => ~(Replies(s[i]) /\ Replies(s[j]))

(* The wires carry at most one question or one reply.                       *)
OneQuestion ==
    /\ Lone(toServer)
    /\ Single(toClient)
    /\ \A a \in Range(toClient) : Replies(a) =>
          \A f \in Range(toServer) : f.kind = "ChannelCloseOK"

(* The channel is in synchronous mode as long as it can expect a reply.     *)
ModeKept ==
    /\ linked /\ ~synchronous =>
          /\ \A f \in Range(toServer) : f.kind \notin SynchronousKinds
          /\ \A a \in Range(toClient) : ~Replies(a)
    /\ queue # <<>> => synchronous
    /\ conn \in {"closing", "closed"} => ~linked \/ ~waiting

FramesKnown ==
    \A f \in Range(Pipeline) :
        /\ f.kind \in Answerable \union Plain \union {"ChannelCloseOK"}
        /\ f.id = 0 <=> f.kind \in {"ChannelOpen", "ChannelCloseOK"}
        /\ f.kind = "ChannelCloseOK" => ~linked

RepliesKnown ==
    \A a \in Range(toClient) : Replies(a) =>
        \E k \in DOMAIN AnswerOf :
            a.kind = AnswerOf[k] /\ (a.id = 0 <=> k = "ChannelOpen") /\ a.id <= Len(calls)

Attached ==
    /\ state = "unattached" =>
          /\ toServer = <<>> /\ toClient = <<>> /\ chain = <<>>
          /\ conn = "connected" /\ server = "idle"
    /\ ~linked => state \in {"unattached", "closed"}

Discipline == OneQuestion /\ ModeKept /\ FramesKnown /\ RepliesKnown /\ Attached

DisciplineInv == Orderly /\ OrderInv /\ Discipline

-----------------------------------------------------------------------------
(* What the catalogue says of the frames involved.                          *)

(* The members that the frame classes override.                             *)
LEMMA FrameMembers ==
    ASSUME NEW type, NEW fields, NEW fixed, NEW operands
    PROVE  LET e == ExtFrame(type, fields, fixed, operands)
           IN  /\ "synchronous" \in DOMAIN e /\ "class" \in DOMAIN e /\ "method" \in DOMAIN e
               /\ "process" \in DOMAIN e
BY DEF ExtFrame

(* Which frames are synchronous: ChannelFrame, and the classes that override *)
(* Frame::synchronous().                                                    *)
LEMMA SynchronousFacts ==
    /\ {"ChannelOpen", "ChannelClose"} \subseteq Answerable
    /\ "ChannelCloseOK" \in SynchronousKinds
    /\ Plain \intersect SynchronousKinds = {}
<1>1. /\ Catalogue["ChannelOpen"] = ChannelOpenFrame /\ Catalogue["ChannelClose"] = ChannelCloseFrame
      /\ Catalogue["ChannelCloseOK"] = ChannelCloseOKFrame
      /\ Catalogue["BasicAck"] = BasicAckFrame /\ Catalogue["BasicReject"] = BasicRejectFrame
  BY DEF Catalogue
<1>2. /\ ChannelOpenFrame.synchronous = TRUE /\ ChannelCloseFrame.synchronous = TRUE
      /\ ChannelCloseOKFrame.synchronous = TRUE
  BY FrameMembers DEF ChannelOpenFrame, ChannelCloseFrame, ChannelCloseOKFrame, ChannelFrame, MethodFrame, Processed
<1>3. BasicAckFrame.synchronous = FALSE /\ BasicRejectFrame.synchronous = FALSE
  BY FrameMembers DEF BasicAckFrame, BasicRejectFrame, BasicFrame, MethodFrame, Processed, Asynchronous
<1>4. {"ChannelOpen", "ChannelClose", "ChannelCloseOK"} \subseteq SynchronousKinds
  BY <1>1, <1>2, ChannelKinds DEF SynchronousKinds
<1>5. "BasicAck" \notin SynchronousKinds /\ "BasicReject" \notin SynchronousKinds
  BY <1>1, <1>3 DEF SynchronousKinds
<1>6. {"ChannelOpen", "ChannelClose"} \subseteq DOMAIN AnswerOf  BY DEF AnswerOf
<1> QED  BY <1>4, <1>5, <1>6, MessageKinds DEF Answerable, Plain

(* Which frames are answered.                                               *)
LEMMA AnsweredFacts ==
    /\ Plain \intersect DOMAIN AnswerOf = {}
    /\ "ChannelCloseOK" \notin DOMAIN AnswerOf /\ "BasicGet" \notin DOMAIN AnswerOf
    /\ AnswerOf["ChannelClose"] = "ChannelCloseOK"
    /\ \A k \in DOMAIN AnswerOf : AnswerOf[k] # "ChannelClose"
BY DEF Plain, AnswerOf

(* How the answers are handled.                                             *)
LEMMA ReplyHandlers ==
    \A k \in DOMAIN AnswerOf :
        Catalogue[AnswerOf[k]].process =
            IF k = "ChannelOpen" THEN "reportReady"
            ELSE IF k = "ChannelClose" THEN "reportClosed" ELSE "reportSuccess"
<1>1. /\ ChannelOpenOKFrame.process = "reportReady" /\ ChannelCloseOKFrame.process = "reportClosed"
      /\ ChannelFlowOKFrame.process = "reportSuccess"
  BY FrameMembers DEF ChannelOpenOKFrame, ChannelCloseOKFrame, ChannelFlowOKFrame, ChannelFrame, MethodFrame, Processed
<1>2. /\ ConfirmSelectOKFrame.process = "reportSuccess"
      /\ TransactionSelectOKFrame.process = "reportSuccess"
      /\ TransactionCommitOKFrame.process = "reportSuccess"
      /\ TransactionRollbackOKFrame.process = "reportSuccess"
  BY FrameMembers DEF ConfirmSelectOKFrame, TransactionSelectOKFrame, TransactionCommitOKFrame,
       TransactionRollbackOKFrame, ConfirmFrame, TransactionFrame, MethodFrame, Processed
<1>3. /\ ExchangeDeclareOKFrame.process = "reportSuccess" /\ ExchangeDeleteOKFrame.process = "reportSuccess"
      /\ ExchangeBindOKFrame.process = "reportSuccess" /\ ExchangeUnbindOKFrame.process = "reportSuccess"
  BY FrameMembers DEF ExchangeDeclareOKFrame, ExchangeDeleteOKFrame, ExchangeBindOKFrame,
       ExchangeUnbindOKFrame, ExchangeFrame, MethodFrame, Processed
<1>4. /\ QueueDeclareOKFrame.process = "reportSuccess" /\ QueueBindOKFrame.process = "reportSuccess"
      /\ QueueUnbindOKFrame.process = "reportSuccess" /\ QueuePurgeOKFrame.process = "reportSuccess"
      /\ QueueDeleteOKFrame.process = "reportSuccess"
  BY FrameMembers DEF QueueDeclareOKFrame, QueueBindOKFrame, QueueUnbindOKFrame, QueuePurgeOKFrame,
       QueueDeleteOKFrame, QueueFrame, MethodFrame, Processed
<1>5. /\ BasicQosOKFrame.process = "reportSuccess" /\ BasicConsumeOKFrame.process = "reportSuccess"
      /\ BasicCancelOKFrame.process = "reportSuccess" /\ BasicRecoverOKFrame.process = "reportSuccess"
  BY FrameMembers DEF BasicQosOKFrame, BasicConsumeOKFrame, BasicCancelOKFrame, BasicRecoverOKFrame,
       BasicFrame, MethodFrame, Processed
<1>6. /\ Catalogue["ChannelOpenOK"] = ChannelOpenOKFrame /\ Catalogue["ChannelCloseOK"] = ChannelCloseOKFrame
      /\ Catalogue["ChannelFlowOK"] = ChannelFlowOKFrame /\ Catalogue["ConfirmSelectOK"] = ConfirmSelectOKFrame
      /\ Catalogue["TransactionSelectOK"] = TransactionSelectOKFrame
      /\ Catalogue["TransactionCommitOK"] = TransactionCommitOKFrame
      /\ Catalogue["TransactionRollbackOK"] = TransactionRollbackOKFrame
      /\ Catalogue["ExchangeDeclareOK"] = ExchangeDeclareOKFrame
      /\ Catalogue["ExchangeDeleteOK"] = ExchangeDeleteOKFrame
      /\ Catalogue["ExchangeBindOK"] = ExchangeBindOKFrame
      /\ Catalogue["ExchangeUnbindOK"] = ExchangeUnbindOKFrame
  BY DEF Catalogue
<1>7. /\ Catalogue["QueueDeclareOK"] = QueueDeclareOKFrame /\ Catalogue["QueueBindOK"] = QueueBindOKFrame
      /\ Catalogue["QueueUnbindOK"] = QueueUnbindOKFrame /\ Catalogue["QueuePurgeOK"] = QueuePurgeOKFrame
      /\ Catalogue["QueueDeleteOK"] = QueueDeleteOKFrame /\ Catalogue["BasicQosOK"] = BasicQosOKFrame
      /\ Catalogue["BasicConsumeOK"] = BasicConsumeOKFrame /\ Catalogue["BasicCancelOK"] = BasicCancelOKFrame
      /\ Catalogue["BasicRecoverOK"] = BasicRecoverOKFrame
  BY DEF Catalogue
<1> QED  BY <1>1, <1>2, <1>3, <1>4, <1>5, <1>6, <1>7 DEF AnswerOf

-----------------------------------------------------------------------------
(* Sequences of frames with one question, of answers with one reply.        *)

(* A question goes on the wire when there is no other one; a confirmation   *)
(* goes behind anything.                                                    *)
LEMMA LoneConcat ==
    ASSUME NEW s \in Seq(FrameType), NEW t \in Seq(FrameType), Lone(s), Lone(t),
           \/ \A f \in Range(s) : f.kind \notin SynchronousKinds
           \/ \A g \in Range(t) : g.kind = "ChannelCloseOK"
    PROVE  Lone(s \o t)
<1>1. /\ Len(s \o t) = Len(s) + Len(t)
      /\ \A i \in 1..(Len(s) + Len(t)) : (s \o t)[i] = IF i <= Len(s) THEN s[i] ELSE t[i - Len(s)]
  BY ConcatProperties
<1>2. Len(s) \in Nat /\ Len(t) \in Nat  BY LenProperties
<1> SUFFICES ASSUME NEW i \in 1..Len(s \o t), NEW j \in 1..Len(s \o t), i < j,
                    (s \o t)[i].kind \in SynchronousKinds
             PROVE  (s \o t)[j].kind = "ChannelCloseOK"
  BY DEF Lone
<1>3. CASE j <= Len(s)
  <2>1. i \in 1..Len(s) /\ j \in 1..Len(s)  BY <1>1, <1>2, <1>3
  <2>2. (s \o t)[i] = s[i] /\ (s \o t)[j] = s[j]  BY <1>1, <1>2, <2>1
  <2> QED  BY <2>1, <2>2 DEF Lone
<1>4. CASE Len(s) < i
  <2>1. i - Len(s) \in 1..Len(t) /\ j - Len(s) \in 1..Len(t) /\ i - Len(s) < j - Len(s)
    BY <1>1, <1>2, <1>4
  <2>2. (s \o t)[i] = t[i - Len(s)] /\ (s \o t)[j] = t[j - Len(s)]  BY <1>1, <1>2, <1>4
  <2> QED  BY <2>1, <2>2 DEF Lone
<1>5. CASE i <= Len(s) /\ Len(s) < j
  <2>1. i \in 1..Len(s) /\ j - Len(s) \in 1..Len(t)  BY <1>1, <1>2, <1>5
  <2>2. (s \o t)[i] = s[i] /\ (s \o t)[j] = t[j - Len(s)]  BY <1>1, <1>2, <1>5
  <2>3. s[i] \in Range(s) /\ t[j - Len(s)] \in Range(t)  BY <2>1, RangeIndex
  <2> QED  BY <2>2, <2>3
<1> QED  BY <1>2, <1>3, <1>4, <1>5

(* Reading the first frame.                                                 *)
LEMMA LoneTail ==
    ASSUME NEW s \in Seq(FrameType), s # <<>>, Lone(s)
    PROVE  /\ Lone(Tail(s))
           /\ Head(s).kind \in SynchronousKinds => \A f \in Range(Tail(s)) : f.kind = "ChannelCloseOK"
<1>1. Tail(s) \in Seq(FrameType) /\ Len(Tail(s)) = Len(s) - 1 /\ \A i \in 1..Len(Tail(s)) : Tail(s)[i] = s[i + 1]
  BY HeadTailProperties
<1>2. Len(s) \in Nat \ {0} /\ Head(s) = s[1]  BY EmptySeq
<1>3. \A i \in 1..Len(Tail(s)) : i + 1 \in 1..Len(s) /\ 1 < i + 1  BY <1>1, <1>2
<1>4. Lone(Tail(s))
  <2> SUFFICES ASSUME NEW i \in 1..Len(Tail(s)), NEW j \in 1..Len(Tail(s)), i < j,
                      Tail(s)[i].kind \in SynchronousKinds
               PROVE  Tail(s)[j].kind = "ChannelCloseOK"
    BY DEF Lone
  <2>1. i + 1 < j + 1  BY <1>1, <1>2
  <2> QED  BY <1>1, <1>3, <2>1 DEF Lone
<1>5. ASSUME Head(s).kind \in SynchronousKinds, NEW f \in Range(Tail(s))
      PROVE  f.kind = "ChannelCloseOK"
  <2>1. PICK i \in 1..Len(Tail(s)) : f = Tail(s)[i]
    <3>1. \A x : x \in Range(Tail(s)) <=> \E i \in 1..Len(Tail(s)) : x = Tail(s)[i]
      BY <1>1, RangeIndex
    <3> QED  BY <1>5, <3>1
  <2>2. i + 1 \in 1..Len(s) /\ 1 \in 1..Len(s) /\ 1 < i + 1 /\ f = s[i + 1]  BY <1>1, <1>2, <1>3, <2>1
  <2> QED  BY <1>2, <1>5, <2>2 DEF Lone
<1> QED  BY <1>4, <1>5

(* A reply is sent when there is no other one.                              *)
LEMMA SingleAppend ==
    ASSUME NEW s \in Seq(AnswerType), NEW a \in AnswerType, Single(s),
           \/ ~Replies(a)
           \/ \A x \in Range(s) : ~Replies(x)
    PROVE  Single(Append(s, a))
<1>1. /\ Len(Append(s, a)) = Len(s) + 1 /\ Append(s, a)[Len(s) + 1] = a
      /\ \A i \in 1..Len(s) : Append(s, a)[i] = s[i] /\ s[i] \in Range(s)
  BY AppendProperties, RangeIndex
<1>2. Len(s) \in Nat  BY LenProperties
<1> SUFFICES ASSUME NEW i \in 1..(Len(s) + 1), NEW j \in 1..(Len(s) + 1), i < j
             PROVE  ~(Replies(Append(s, a)[i]) /\ Replies(Append(s, a)[j]))
  BY <1>1 DEF Single
<1>3. i \in 1..Len(s)  BY <1>2
<1>4. CASE j \in 1..Len(s)  BY <1>1, <1>3, <1>4 DEF Single
<1>5. CASE j = Len(s) + 1  BY <1>1, <1>3, <1>5
<1> QED  BY <1>2, <1>4, <1>5

(* Reading the first answer.                                                *)
LEMMA SingleTail ==
    ASSUME NEW s \in Seq(AnswerType), s # <<>>, Single(s)
    PROVE  /\ Single(Tail(s))
           /\ Replies(Head(s)) => \A x \in Range(Tail(s)) : ~Replies(x)
<1>1. Tail(s) \in Seq(AnswerType) /\ Len(Tail(s)) = Len(s) - 1 /\ \A i \in 1..Len(Tail(s)) : Tail(s)[i] = s[i + 1]
  BY HeadTailProperties
<1>2. Len(s) \in Nat \ {0} /\ Head(s) = s[1]  BY EmptySeq
<1>3. \A i \in 1..Len(Tail(s)) : i + 1 \in 1..Len(s) /\ 1 < i + 1  BY <1>1, <1>2
<1>4. Single(Tail(s))
  <2> SUFFICES ASSUME NEW i \in 1..Len(Tail(s)), NEW j \in 1..Len(Tail(s)), i < j
               PROVE  ~(Replies(Tail(s)[i]) /\ Replies(Tail(s)[j]))
    BY DEF Single
  <2>1. i + 1 < j + 1  BY <1>1, <1>2
  <2> QED  BY <1>1, <1>3, <2>1 DEF Single
<1>5. ASSUME Replies(Head(s)), NEW x \in Range(Tail(s))
      PROVE  ~Replies(x)
  <2>1. PICK i \in 1..Len(Tail(s)) : x = Tail(s)[i]
    <3> DEFINE t == Tail(s)
    <3>1. t \in Seq(AnswerType) /\ x \in Range(t)  BY <1>1, <1>5
    <3> HIDE DEF t
    <3>2. \E i \in 1..Len(t) : x = t[i]  BY <3>1, RangeIndex
    <3> QED  BY <3>2 DEF t
  <2>2. i + 1 \in 1..Len(s) /\ 1 \in 1..Len(s) /\ 1 < i + 1
    <3>1. i + 1 \in 1..Len(s) /\ 1 < i + 1  BY <1>3
    <3>2. 1 \in 1..Len(s)  BY <1>2
    <3> QED  BY <3>1, <3>2
  <2>3. x = s[i + 1]  BY <1>1, <2>1
  <2> QED  BY <1>2, <1>5, <2>2, <2>3 DEF Single
<1> QED  BY <1>4, <1>5

-----------------------------------------------------------------------------
(* The discipline of the wires, by what a step does.                        *)

(* The sequences and the sets of their elements.                            *)
LEMMA WireTypes ==
    ASSUME TypeOK
    PROVE  /\ toServer \in Seq(FrameType) /\ queue \in Seq(FrameType) /\ toClient \in Seq(AnswerType)
           /\ Pipeline \in Seq(FrameType) /\ Range(Pipeline) = Range(toServer) \union Range(queue)
           /\ \A f \in Range(Pipeline) : f \in FrameType /\ f.id \in Nat
           /\ \A a \in Range(toClient) : a \in AnswerType /\ a.id \in Nat
           /\ Len(calls) \in Nat
<1>1. toServer \in Seq(FrameType) /\ queue \in Seq(FrameType) /\ toClient \in Seq(AnswerType)
  BY DEF TypeOK
<1>2. Pipeline \in Seq(FrameType) /\ Range(Pipeline) = Range(toServer) \union Range(queue)
  BY <1>1, ConcatProperties, RangeConcatenation DEF Pipeline
<1>3. \A f \in Range(Pipeline) : f \in FrameType  BY <1>2, RangeOfSeq
<1>4. \A a \in Range(toClient) : a \in AnswerType  BY <1>1, RangeOfSeq
<1>5. Len(calls) \in Nat  BY LenProperties DEF TypeOK
<1> QED  BY <1>1, <1>2, <1>3, <1>4, <1>5 DEF FrameType, AnswerType

(* Nothing is sent; at most the first answer is taken off the wire.         *)
LEMMA QuietDiscipline ==
    ASSUME DisciplineInv, Inv', UNCHANGED <<queue, toServer, synchronous, linked>>,
           UNCHANGED toClient \/ (toClient # <<>> /\ toClient' = Tail(toClient)),
           Len(calls') >= Len(calls), Attached',
           conn' \in {"closing", "closed"} => ~linked \/ ~waiting
    PROVE  Discipline'
<1>1. Single(toClient') /\ Range(toClient') \subseteq Range(toClient)
  <2>1. CASE UNCHANGED toClient  BY <2>1 DEF DisciplineInv, Discipline, OneQuestion
  <2>2. CASE toClient # <<>> /\ toClient' = Tail(toClient)
    <3>1. toClient \in Seq(AnswerType)  BY DEF DisciplineInv, OrderInv, Inv, TypeOK
    <3> QED  BY <2>2, <3>1, RangeTail, SingleTail DEF DisciplineInv, Discipline, OneQuestion
  <2> QED  BY <2>1, <2>2
<1>2. Pipeline' = Pipeline  BY DEF Pipeline
<1>3. OneQuestion'  BY <1>1 DEF DisciplineInv, Discipline, OneQuestion
<1>4. ModeKept'  BY <1>1 DEF DisciplineInv, Discipline, ModeKept, waiting
<1>5. FramesKnown'  BY <1>2 DEF DisciplineInv, Discipline, FramesKnown
<1>6. RepliesKnown'
  <2> SUFFICES ASSUME NEW a \in Range(toClient'), Replies(a)
               PROVE  \E k \in DOMAIN AnswerOf :
                         a.kind = AnswerOf[k] /\ (a.id = 0 <=> k = "ChannelOpen") /\ a.id <= Len(calls')
    BY DEF RepliesKnown
  <2>1. a \in Range(toClient)  BY <1>1
  <2>2. PICK k \in DOMAIN AnswerOf :
            a.kind = AnswerOf[k] /\ (a.id = 0 <=> k = "ChannelOpen") /\ a.id <= Len(calls)
    BY <2>1 DEF DisciplineInv, Discipline, RepliesKnown
  <2>3. a.id \in Nat /\ Len(calls) \in Nat /\ Len(calls') \in Nat
    BY <2>1, WireTypes, LenProperties DEF DisciplineInv, OrderInv, Inv, TypeOK
  <2> QED  BY <2>2, <2>3
<1> QED  BY <1>3, <1>4, <1>5, <1>6 DEF Discipline

(* The replies stay known while nothing is added to the wire.               *)
LEMMA RepliesStay ==
    ASSUME DisciplineInv, Inv', Range(toClient') \subseteq Range(toClient), Len(calls') >= Len(calls)
    PROVE  RepliesKnown'
<1> SUFFICES ASSUME NEW a \in Range(toClient'), Replies(a)
             PROVE  \E k \in DOMAIN AnswerOf :
                       a.kind = AnswerOf[k] /\ (a.id = 0 <=> k = "ChannelOpen") /\ a.id <= Len(calls')
  BY DEF RepliesKnown
<1>1. a \in Range(toClient)  OBVIOUS
<1>2. PICK k \in DOMAIN AnswerOf :
          a.kind = AnswerOf[k] /\ (a.id = 0 <=> k = "ChannelOpen") /\ a.id <= Len(calls)
  BY <1>1 DEF DisciplineInv, Discipline, RepliesKnown
<1>3. a.id \in Nat /\ Len(calls) \in Nat /\ Len(calls') \in Nat
  BY <1>1, WireTypes, LenProperties DEF DisciplineInv, OrderInv, Inv, TypeOK
<1> QED  BY <1>2, <1>3

(* What a call may send.                                                    *)
Sendable(f) == f.kind \in (Answerable \ {"ChannelOpen"}) \union Plain /\ f.id > 0

(* Frames wait behind a question.                                           *)
LEMMA QueuedDiscipline ==
    ASSUME DisciplineInv, Inv', linked, waiting, UNCHANGED <<toServer, toClient, synchronous, linked>>,
           NEW part \in Seq(FrameType), queue' = queue \o part, \A f \in Range(part) : Sendable(f),
           Len(calls') >= Len(calls), Attached', conn' \in {conn, "shutdown"}
    PROVE  Discipline'
<1>1. synchronous  BY DEF waiting, DisciplineInv, Discipline, ModeKept
<1>2. conn \notin {"closing", "closed"}  BY DEF DisciplineInv, Discipline, ModeKept
<1>3. OneQuestion'  BY DEF DisciplineInv, Discipline, OneQuestion
<1>4. ModeKept'  BY <1>1, <1>2 DEF ModeKept
<1>5. Range(Pipeline) = Range(toServer) \union Range(queue) /\ queue \in Seq(FrameType)
      /\ Range(Pipeline') = Range(toServer') \union Range(queue')
  <2>1. TypeOK /\ TypeOK'  BY DEF DisciplineInv, OrderInv, Inv
  <2>2. Range(toServer' \o queue') = Range(toServer') \union Range(queue')
    <3>1. toServer' \in Seq(FrameType) /\ queue' \in Seq(FrameType)  BY <2>1 DEF TypeOK
    <3>2. \A s, t \in Seq(FrameType) : Range(s \o t) = Range(s) \union Range(t)
      BY RangeConcatenation
    <3> QED  BY <3>1, <3>2
  <2> QED  BY <2>1, <2>2, WireTypes DEF Pipeline
<1>6. Range(queue') = Range(queue) \union Range(part)  BY <1>5, RangeConcatenation
<1>7. FramesKnown'
  <2> SUFFICES ASSUME NEW f \in Range(Pipeline')
               PROVE  /\ f.kind \in Answerable \union Plain \union {"ChannelCloseOK"}
                      /\ f.id = 0 <=> f.kind \in {"ChannelOpen", "ChannelCloseOK"}
                      /\ f.kind = "ChannelCloseOK" => ~linked'
    BY DEF FramesKnown
  <2>1. CASE f \in Range(Pipeline)  BY <2>1 DEF DisciplineInv, Discipline, FramesKnown
  <2>2. CASE f \in Range(part)
    <3>1. f \in FrameType  BY <2>2, RangeOfSeq
    <3>2. f.id \in Nat  BY <3>1 DEF FrameType
    <3>3. "ChannelCloseOK" \notin Answerable \union Plain /\ "ChannelOpen" \notin Plain
      BY AnsweredFacts DEF Answerable, Plain
    <3> QED  BY <2>2, <3>2, <3>3 DEF Sendable
  <2> QED  BY <1>5, <1>6, <2>1, <2>2
<1>8. RepliesKnown'  BY RepliesStay
<1> QED  BY <1>3, <1>4, <1>7, <1>8 DEF Discipline

(* Frames go on the wire when no question is open.                          *)
LEMMA SentDiscipline ==
    ASSUME DisciplineInv, Inv', linked, ~waiting, UNCHANGED <<queue, toClient, linked, conn>>,
           NEW part \in Seq(FrameType), toServer' = toServer \o part, Lone(part),
           \A f \in Range(part) : Sendable(f),
           \A f \in Range(part) : f.kind \in SynchronousKinds => synchronous',
           conn \in {"closing", "closed"} => ~synchronous',
           Len(calls') >= Len(calls), Attached'
    PROVE  Discipline'
<1>1. queue = <<>> /\ ~synchronous  BY DEF waiting
<1>2. /\ \A f \in Range(toServer) : f.kind \notin SynchronousKinds
      /\ \A a \in Range(toClient) : ~Replies(a)
  BY <1>1 DEF DisciplineInv, Discipline, ModeKept
<1>3. TypeOK /\ TypeOK'  BY DEF DisciplineInv, OrderInv, Inv
<1>4. toServer \in Seq(FrameType)  BY <1>3, WireTypes
<1>5. Range(toServer') = Range(toServer) \union Range(part)  BY <1>4, RangeConcatenation
<1>6. OneQuestion'
  <2>1. Lone(toServer')  BY <1>2, <1>4, LoneConcat DEF DisciplineInv, Discipline, OneQuestion
  <2> QED  BY <1>2, <2>1 DEF DisciplineInv, Discipline, OneQuestion
<1>7. ModeKept'  BY <1>1, <1>2, <1>5 DEF ModeKept, waiting
<1>8. FramesKnown'
  <2>1. Range(toServer' \o queue') = Range(toServer') \union Range(queue')
    <3>1. toServer' \in Seq(FrameType) /\ queue' \in Seq(FrameType)  BY <1>3 DEF TypeOK
    <3>2. \A s, t \in Seq(FrameType) : Range(s \o t) = Range(s) \union Range(t)
      BY RangeConcatenation
    <3> QED  BY <3>1, <3>2
  <2>2. Range(queue') = {}  BY <1>1 DEF Range
  <2>3. Range(Pipeline) = Range(toServer) \union Range(queue)  BY <1>3, WireTypes
  <2> SUFFICES ASSUME NEW f \in Range(Pipeline')
               PROVE  /\ f.kind \in Answerable \union Plain \union {"ChannelCloseOK"}
                      /\ f.id = 0 <=> f.kind \in {"ChannelOpen", "ChannelCloseOK"}
                      /\ f.kind = "ChannelCloseOK" => ~linked'
    BY DEF FramesKnown
  <2>4. CASE f \in Range(toServer)  BY <2>3, <2>4 DEF DisciplineInv, Discipline, FramesKnown
  <2>5. CASE f \in Range(part)
    <3>1. f \in FrameType  BY <2>5, RangeOfSeq
    <3>2. f.id \in Nat  BY <3>1 DEF FrameType
    <3>3. "ChannelCloseOK" \notin Answerable \union Plain /\ "ChannelOpen" \notin Plain
      BY AnsweredFacts DEF Answerable, Plain
    <3> QED  BY <2>5, <3>2, <3>3 DEF Sendable
  <2> QED  BY <1>5, <2>1, <2>2, <2>4, <2>5 DEF Pipeline
<1>9. RepliesKnown'  BY RepliesStay
<1> QED  BY <1>6, <1>7, <1>8, <1>9 DEF Discipline

(* A reply takes the channel out of synchronous mode, and the frames that   *)
(* waited go on the wire up to the next question.                           *)
LEMMA FlushDiscipline ==
    ASSUME DisciplineInv, Inv', linked, UNCHANGED <<linked, conn>>, conn # "closed", flush,
           toClient # <<>>, toClient' = Tail(toClient), Replies(Head(toClient)),
           Len(calls') >= Len(calls), Attached'
    PROVE  Discipline' /\ Relays /\ Pipeline' = Pipeline
<1>1. TypeOK /\ TypeOK'  BY DEF DisciplineInv, OrderInv, Inv
<1>2. /\ toServer \in Seq(FrameType) /\ queue \in Seq(FrameType) /\ toClient \in Seq(AnswerType)
      /\ Len(queue) \in Nat
  BY <1>1, WireTypes, LenProperties
<1>3. Range(toClient) = {Head(toClient)} \union Range(toClient')  BY <1>2, RangeTail
<1>4. Single(toClient') /\ \A a \in Range(toClient') : ~Replies(a)
  BY <1>2, SingleTail DEF DisciplineInv, Discipline, OneQuestion
<1>5. synchronous  BY <1>3 DEF DisciplineInv, Discipline, ModeKept
<1>6. Relays
  <2>1. conn \notin {"closing", "closed"}  BY <1>5 DEF DisciplineInv, Discipline, ModeKept, waiting
  <2> QED  BY <1>1, <2>1 DEF Relays, TypeOK
<1>7. Pipeline' = Pipeline  BY <1>1, <1>6, FlushMoves
<1>8. toServer = <<>>
  <2>1. \A f \in Range(toServer) : f.kind = "ChannelCloseOK"
    BY <1>3 DEF DisciplineInv, Discipline, OneQuestion
  <2>2. \A f \in Range(toServer) : f.kind # "ChannelCloseOK"
    BY <1>1, WireTypes DEF DisciplineInv, Discipline, FramesKnown
  <2>3. Range(toServer) = {}  BY <2>1, <2>2
  <2>4. ~(Len(toServer) \in Nat \ {0})
    <3>1. Len(toServer) \in Nat \ {0} => toServer[1] \in Range(toServer)  BY <1>2, RangeIndex
    <3> QED  BY <2>3, <3>1
  <2> QED  BY <1>2, <2>4, EmptySeq
<1>9. PICK k \in 0..Len(queue) :
          /\ FlushPoint(k)
          /\ toServer' = toServer \o SubSeq(queue, 1, k)
          /\ queue' = SubSeq(queue, k + 1, Len(queue))
          /\ synchronous' = (k > 0 /\ queue[k].kind \in SynchronousKinds)
  BY <1>6 DEF flush
<1> DEFINE part == SubSeq(queue, 1, k)
<1>10. part \in Seq(FrameType) /\ Len(part) = k /\ \A i \in 1..k : part[i] = queue[i]
  <2>1. \A i \in 1..k : queue[i] \in FrameType  BY <1>2, ElementOfSeq
  <2>2. /\ part \in Seq(FrameType) /\ Len(part) = (IF 1 <= k THEN k - 1 + 1 ELSE 0)
        /\ \A i \in 1..(k - 1 + 1) : part[i] = queue[1 + i - 1]
    BY <1>2, <2>1, SubSeqProperties
  <2> HIDE DEF part
  <2> QED  BY <1>2, <2>2
<1>11. toServer' = part  BY <1>8, <1>9, <1>10, ConcatEmptySeq
<1> HIDE DEF part
<1>12. Lone(part)
  <2> SUFFICES ASSUME NEW i \in 1..Len(part), NEW j \in 1..Len(part), i < j
               PROVE  part[i].kind \notin SynchronousKinds
    BY DEF Lone
  <2>1. i \in 1..(k - 1)  BY <1>2, <1>10
  <2> QED  BY <1>2, <1>9, <1>10, <2>1 DEF FlushPoint
<1>13. ASSUME NEW f \in Range(part), ~synchronous'
       PROVE  f.kind \notin SynchronousKinds
  <2>1. PICK i \in 1..Len(part) : f = part[i]  BY <1>10, RangeIndex
  <2>2. CASE i = k
    <3>1. k > 0 /\ f = queue[k]  BY <1>2, <1>10, <2>1, <2>2
    <3>2. ~(k > 0 /\ queue[k].kind \in SynchronousKinds)  BY <1>9, <1>13
    <3> QED  BY <3>1, <3>2
  <2>3. CASE i \in 1..(k - 1)  BY <1>2, <1>9, <1>10, <2>1, <2>3 DEF FlushPoint
  <2> QED  BY <1>2, <1>10, <2>1, <2>2, <2>3
<1>14. ASSUME queue' # <<>>
       PROVE  synchronous'
  <2>1. k < Len(queue)
    <3>1. ~(k < Len(queue)) => k + 1 > Len(queue)  BY <1>2
    <3>2. k + 1 > Len(queue) => queue' = <<>>  BY <1>2, <1>9, SubSeqEmpty
    <3> QED  BY <1>14, <3>1, <3>2
  <2> QED  BY <1>9, <2>1 DEF FlushPoint
<1>15. OneQuestion'  BY <1>4, <1>11, <1>12 DEF OneQuestion
<1>16. ModeKept'
  <2>1. conn' \notin {"closing", "closed"}  BY <1>6 DEF Relays
  <2> QED  BY <1>4, <1>11, <1>13, <1>14, <2>1 DEF ModeKept
<1>17. FramesKnown'  BY <1>7 DEF DisciplineInv, Discipline, FramesKnown
<1>18. RepliesKnown'  BY <1>3, RepliesStay
<1> QED  BY <1>6, <1>7, <1>15, <1>16, <1>17, <1>18 DEF Discipline

(* The channel fails: its queue is dropped, and the close by the server may *)
(* be confirmed.                                                            *)
LEMMA FailDiscipline ==
    ASSUME DisciplineInv, Inv', ~linked', queue' = <<>>, Attached',
           UNCHANGED toClient \/ (toClient # <<>> /\ toClient' = Tail(toClient)),
           \/ UNCHANGED toServer
           \/ toServer' = Append(toServer, Frame("ChannelCloseOK", 0, FALSE)),
           Len(calls') >= Len(calls)
    PROVE  Discipline'
<1> DEFINE f == Frame("ChannelCloseOK", 0, FALSE)
<1>1. TypeOK /\ TypeOK'  BY DEF DisciplineInv, OrderInv, Inv
<1>2. /\ toServer \in Seq(FrameType) /\ queue \in Seq(FrameType) /\ toClient \in Seq(AnswerType)
      /\ toServer' \in Seq(FrameType)
  BY <1>1, WireTypes DEF TypeOK
<1>3. f \in FrameType /\ f.kind = "ChannelCloseOK" /\ f.id = 0  BY ChannelKinds, FrameTyped DEF Frame
<1>4. UNCHANGED toServer \/ toServer' = Append(toServer, f)  OBVIOUS
<1> HIDE DEF f
<1>5. Single(toClient') /\ Range(toClient') \subseteq Range(toClient)
  <2>1. CASE UNCHANGED toClient  BY <2>1 DEF DisciplineInv, Discipline, OneQuestion
  <2>2. CASE toClient # <<>> /\ toClient' = Tail(toClient)
    BY <1>2, <2>2, RangeTail, SingleTail DEF DisciplineInv, Discipline, OneQuestion
  <2> QED  BY <2>1, <2>2
<1>6. Lone(toServer') /\ Range(toServer') \subseteq Range(toServer) \union {f}
  <2>1. CASE UNCHANGED toServer  BY <2>1 DEF DisciplineInv, Discipline, OneQuestion
  <2>2. CASE toServer' = Append(toServer, f)
    <3>1. <<f>> \in Seq(FrameType) /\ Len(<<f>>) = 1 /\ <<f>>[1] = f  BY <1>3
    <3>2. Lone(<<f>>)  BY <3>1 DEF Lone
    <3>3. \A g \in Range(<<f>>) : g = f
      <4>1. \A x : x \in Range(<<f>>) <=> \E i \in 1..Len(<<f>>) : x = <<f>>[i]  BY <3>1, RangeIndex
      <4> QED  BY <3>1, <4>1
    <3>4. toServer' = toServer \o <<f>>  BY <1>2, <1>3, <2>2, AppendIsConcat
    <3>5. Lone(toServer')
      BY <1>2, <1>3, <3>1, <3>2, <3>3, <3>4, LoneConcat DEF DisciplineInv, Discipline, OneQuestion
    <3>6. Range(toServer') = Range(toServer) \union {f}  BY <1>2, <1>3, <2>2, RangeAppend
    <3> QED  BY <3>5, <3>6
  <2> QED  BY <1>4, <2>1, <2>2
<1>7. OneQuestion'  BY <1>3, <1>5, <1>6 DEF DisciplineInv, Discipline, OneQuestion
<1>8. ModeKept'  BY DEF ModeKept
<1>9. FramesKnown'
  <2>1. Pipeline' = toServer'  BY <1>2, ConcatEmptySeq DEF Pipeline
  <2>2. Range(toServer) \subseteq Range(Pipeline)  BY <1>1, WireTypes
  <2> QED  BY <1>3, <1>6, <2>1, <2>2 DEF DisciplineInv, Discipline, FramesKnown
<1>10. RepliesKnown'  BY <1>5, RepliesStay
<1> QED  BY <1>7, <1>8, <1>9, <1>10 DEF Discipline

-----------------------------------------------------------------------------
(* The discipline of the wires, by action.                                  *)

(* A sequence of one frame.                                                 *)
LEMMA OneFrame ==
    ASSUME NEW f \in FrameType
    PROVE  <<f>> \in Seq(FrameType) /\ Lone(<<f>>) /\ Range(<<f>>) = {f}
<1>1. <<f>> \in Seq(FrameType) /\ Len(<<f>>) = 1 /\ <<f>>[1] = f  OBVIOUS
<1>2. \A x : x \in Range(<<f>>) <=> \E i \in 1..Len(<<f>>) : x = <<f>>[i]  BY <1>1, RangeIndex
<1>3. Range(<<f>>) = {f}  BY <1>1, <1>2
<1>4. Lone(<<f>>)  BY <1>1 DEF Lone
<1> QED  BY <1>1, <1>3, <1>4

(* ChannelImpl::send.                                                       *)
LEMMA SendDiscipline ==
    ASSUME DisciplineInv, Inv', NEW f \in FrameType, NEW ok \in BOOLEAN, send(f, ok), Sendable(f),
           UNCHANGED <<linked, conn, toClient>>, Len(calls') >= Len(calls), Attached'
    PROVE  Discipline'
<1>1. <<f>> \in Seq(FrameType) /\ Lone(<<f>>) /\ Range(<<f>>) = {f}  BY OneFrame
<1>2. toServer \in Seq(FrameType) /\ queue \in Seq(FrameType)
  BY DEF DisciplineInv, OrderInv, Inv, TypeOK
<1>3. CASE UNCHANGED <<queue, synchronous, toServer>>
  <2>1. conn' \in {"closing", "closed"} => ~linked \/ ~waiting
    BY DEF DisciplineInv, Discipline, ModeKept
  <2> QED  BY <1>3, <2>1, QuietDiscipline
<1>4. CASE linked /\ waiting /\ queue' = Append(queue, f) /\ UNCHANGED <<synchronous, toServer>>
  <2>1. queue' = queue \o <<f>>  BY <1>2, <1>4, AppendIsConcat
  <2> QED  BY <1>1, <1>4, <2>1, QueuedDiscipline
<1>5. CASE /\ linked /\ ~waiting /\ Accepts(f) /\ toServer' = Append(toServer, f)
           /\ synchronous' = (f.kind \in SynchronousKinds) /\ UNCHANGED queue
  <2>1. toServer' = toServer \o <<f>>  BY <1>2, <1>5, AppendIsConcat
  <2>2. conn = "connected"  BY <1>5 DEF Accepts
  <2> QED  BY <1>1, <1>5, <2>1, <2>2, SentDiscipline
<1> QED  BY <1>3, <1>4, <1>5 DEF send

(* The frames of a message, none of which is a question.                    *)
LEMMA SendAllDiscipline ==
    ASSUME DisciplineInv, Inv', NEW fs \in Seq(FrameType), NEW ok \in BOOLEAN, sendAll(fs, ok),
           \A f \in Range(fs) : Sendable(f) /\ f.kind \in Plain,
           UNCHANGED <<linked, conn, toClient>>, Len(calls') >= Len(calls), Attached'
    PROVE  Discipline'
<1>1. CASE UNCHANGED <<queue, synchronous, toServer>>
  <2>1. conn' \in {"closing", "closed"} => ~linked \/ ~waiting
    BY DEF DisciplineInv, Discipline, ModeKept
  <2> QED  BY <1>1, <2>1, QuietDiscipline
<1>2. CASE linked /\ waiting /\ queue' = queue \o fs /\ UNCHANGED <<synchronous, toServer>>
  BY <1>2, QueuedDiscipline
<1>3. CASE /\ linked /\ ~waiting /\ UNCHANGED <<queue, synchronous>>
           /\ \E k \in 0..Len(fs) : toServer' = toServer \o SubSeq(fs, 1, k)
  <2>1. PICK k \in 0..Len(fs) : toServer' = toServer \o SubSeq(fs, 1, k)  BY <1>3
  <2> DEFINE part == SubSeq(fs, 1, k)
  <2>2. Len(fs) \in Nat  BY LenProperties
  <2>3. part \in Seq(Range(fs))
    <3>1. \A i \in 1..k : fs[i] \in Range(fs)
      <4>1. \A x : x \in Range(fs) <=> \E i \in 1..Len(fs) : x = fs[i]  BY RangeIndex
      <4> QED  BY <2>2, <4>1
    <3> QED  BY <2>2, <3>1, SubSeqProperties
  <2>4. Range(fs) \subseteq FrameType  BY RangeOfSeq
  <2>5. part \in Seq(FrameType)  BY <2>3, <2>4, SeqMonotonic
  <2>6. toServer' = toServer \o part  BY <2>1
  <2> HIDE DEF part
  <2>7. Range(part) \subseteq Range(fs)  BY <2>3, RangeOfSeq
  <2>8. \A f \in Range(part) : f.kind \notin SynchronousKinds
    BY <2>7, SynchronousFacts
  <2>9. Lone(part)
    <3>1. \A i \in 1..Len(part) : part[i] \in Range(part)
      <4>1. \A x : x \in Range(part) <=> \E i \in 1..Len(part) : x = part[i]  BY <2>5, RangeIndex
      <4> QED  BY <4>1
    <3> QED  BY <2>8, <3>1 DEF Lone
  <2>10. ~synchronous'  BY <1>3 DEF waiting
  <2> QED  BY <1>3, <2>5, <2>6, <2>7, <2>8, <2>9, <2>10, SentDiscipline
<1> QED  BY <1>1, <1>2, <1>3 DEF sendAll

(* A message of the application: what its frames are.                       *)
LEMMA MessageSendable ==
    ASSUME NEW id \in Nat, id > 0, NEW big \in BOOLEAN, NEW bodySize \in {0, 1}
    PROVE  /\ MessageFrames(id, big, bodySize) \in Seq(FrameType)
           /\ \A f \in Range(MessageFrames(id, big, bodySize)) :
                 Sendable(f) /\ f.kind \in Plain /\ f.id = id
<1> DEFINE fs == MessageFrames(id, big, bodySize)
<1>1. Len(fs) \in {2, 3}  BY MessageLength
<1>2. Len(fs) \in 0..Len(fs)  BY <1>1
<1>3. /\ fs \in Seq(FrameType)
      /\ \A f \in Range(SubSeq(fs, 1, Len(fs))) :
            f.id = id /\ f.kind \in {"BasicPublish", "BasicHeader", "Body"}
  BY <1>2, MessageFollows
<1> HIDE DEF fs
<1>4. SubSeq(fs, 1, Len(fs)) = fs  BY <1>3, SubSeqFull
<1>5. \A f \in Range(fs) : f.id = id /\ f.kind \in Plain  BY <1>3, <1>4 DEF Plain
<1> QED  BY <1>3, <1>5 DEF Sendable, fs

(* The calls of the application.                                            *)
LEMMA CallDiscipline ==
    ASSUME DisciplineInv, Inv', publish \/ close \/ \E kind : Request(kind) \/ Notify(kind)
    PROVE  Discipline'
<1>1. /\ state # "unattached" /\ UNCHANGED <<linked, conn, toClient>>
      /\ state' = state \/ (state' = "closing" /\ usable)
  BY DEF publish, close, closeChannel, Request, Notify, MayCall
<1>2. Attached'
  <2>1. linked \/ state = "closed"  BY <1>1 DEF DisciplineInv, Discipline, Attached
  <2> QED  BY <1>1, <2>1 DEF Attached, usable
<1>3. Len(calls) \in Nat  BY LenProperties DEF DisciplineInv, OrderInv, Inv, TypeOK
<1>4. Len(calls') = Len(calls) + 1
  BY AppendLength DEF publish, close, closeChannel, Request, Notify, push, DisciplineInv, OrderInv, Inv, TypeOK
<1>5. ASSUME NEW kind, NEW ok \in BOOLEAN, NEW big \in BOOLEAN,
             kind \in (Answerable \ {"ChannelOpen"}) \union Plain, kind \in Kinds,
             send(Frame(kind, Len(calls) + 1, big), ok)
      PROVE  Discipline'
  <2> DEFINE f == Frame(kind, Len(calls) + 1, big)
  <2>1. f \in FrameType /\ Sendable(f)
    <3>1. Len(calls) + 1 \in Nat /\ Len(calls) + 1 > 0  BY <1>3
    <3> QED  BY <1>5, <3>1, FrameTyped DEF Sendable, Frame
  <2>2. send(f, ok)  BY <1>5
  <2> HIDE DEF f
  <2> QED  BY <1>1, <1>2, <1>3, <1>4, <2>1, <2>2, SendDiscipline
<1>6. \A kind \in Requests : kind \in (Answerable \ {"ChannelOpen"}) \union Plain /\ kind \in Kinds
  BY ChannelAssumption DEF ChannelAssumption, DisciplineInv, Orderly
<1>7. CASE \E kind : Request(kind) \/ Notify(kind)
  <2>1. PICK kind : Request(kind) \/ Notify(kind)  BY <1>7
  <2>2. kind \in Requests  BY <2>1 DEF Request, Notify, MayCall
  <2>3. PICK ok \in BOOLEAN, big \in BOOLEAN : send(Frame(kind, Len(calls) + 1, big), ok)
    BY <2>1, SizesBoolean DEF Request, Notify
  <2> QED  BY <1>5, <1>6, <2>2, <2>3
<1>8. CASE publish
  <2>1. PICK ok \in BOOLEAN, big \in BOOLEAN, bodySize \in {0, 1} :
            sendAll(MessageFrames(Len(calls) + 1, big, bodySize), ok)
    BY <1>8, SizesBoolean DEF publish
  <2> DEFINE fs == MessageFrames(Len(calls) + 1, big, bodySize)
  <2>2. fs \in Seq(FrameType) /\ \A f \in Range(fs) : Sendable(f) /\ f.kind \in Plain
    <3>1. Len(calls) + 1 \in Nat /\ Len(calls) + 1 > 0  BY <1>3
    <3> QED  BY <3>1, MessageSendable
  <2>3. sendAll(fs, ok)  BY <2>1
  <2> HIDE DEF fs
  <2> QED  BY <1>1, <1>2, <1>3, <1>4, <2>2, <2>3, SendAllDiscipline
<1>9. CASE close
  <2>1. CASE ~usable
    <3>1. UNCHANGED <<queue, synchronous, toServer>>  BY <1>9, <2>1 DEF close, closeChannel
    <3>2. conn' \in {"closing", "closed"} => ~linked \/ ~waiting
      BY <1>1 DEF DisciplineInv, Discipline, ModeKept
    <3> QED  BY <1>1, <1>2, <1>3, <1>4, <3>1, <3>2, QuietDiscipline
  <2>2. CASE usable
    <3>1. PICK ok \in BOOLEAN : send(Frame("ChannelClose", Len(calls) + 1, FALSE), ok)
      BY <1>9, <2>2 DEF close, closeChannel
    <3>2. "ChannelClose" \in (Answerable \ {"ChannelOpen"}) \union Plain /\ "ChannelClose" \in Kinds
      BY SynchronousFacts, ChannelKinds
    <3> QED  BY <1>5, <3>1, <3>2
  <2> QED  BY <2>1, <2>2
<1> QED  BY <1>7, <1>8, <1>9

(* ChannelImpl::attach.                                                     *)
LEMMA AttachDiscipline ==
    ASSUME DisciplineInv, Inv', attach
    PROVE  Discipline'
<1> DEFINE f == Frame("ChannelOpen", 0, FALSE)
<1>1. /\ state = "unattached" /\ state' = "connected" /\ linked' = TRUE /\ toServer' = <<f>>
      /\ synchronous' = ("ChannelOpen" \in SynchronousKinds)
      /\ UNCHANGED <<queue, chain, calls, conn, toClient>>
  BY DEF attach
<1>2. toClient = <<>> /\ conn = "connected"  BY <1>1 DEF DisciplineInv, Discipline, Attached
<1>3. queue = <<>>  BY <1>1 DEF DisciplineInv, OrderInv, Inv, Settling, Order
<1>4. synchronous'  BY <1>1, SynchronousFacts DEF Answerable
<1>5. f \in FrameType /\ f.kind = "ChannelOpen" /\ f.id = 0  BY ChannelKinds, FrameTyped DEF Frame
<1> HIDE DEF f
<1>6. <<f>> \in Seq(FrameType) /\ Lone(<<f>>) /\ Range(<<f>>) = {f}  BY <1>5, OneFrame
<1>7. Range(toClient') = {} /\ Len(toClient') = 0  BY <1>1, <1>2, EmptySeq DEF Range
<1>8. OneQuestion'  BY <1>1, <1>6, <1>7 DEF OneQuestion, Single
<1>9. ModeKept'  BY <1>1, <1>2, <1>4 DEF ModeKept
<1>10. FramesKnown'
  <2>1. Pipeline' = <<f>>  BY <1>1, <1>3, <1>6, ConcatEmptySeq DEF Pipeline
  <2> QED  BY <1>5, <1>6, <2>1, SynchronousFacts DEF FramesKnown
<1>11. RepliesKnown'  BY <1>7 DEF RepliesKnown
<1>12. Attached'  BY <1>1 DEF Attached
<1> QED  BY <1>8, <1>9, <1>10, <1>11, <1>12 DEF Discipline

(* A frame that the channel is handed while it is known to the connection   *)
(* is the reply to its question, unless the server closes the channel; the  *)
(* reply to the open frame is the one without a call.                       *)
LEMMA ReceivedReply ==
    ASSUME DisciplineInv, NEW handler, handler # "reportError", Receive(handler)
    PROVE  /\ Replies(Head(toClient)) /\ Head(toClient) \in Range(toClient)
           /\ toClient # <<>> /\ toClient' = Tail(toClient) /\ active = 0 /\ conn # "closed"
           /\ handler \in {"reportReady", "reportSuccess", "reportClosed"}
           /\ handler = "reportReady" <=> Head(toClient).id = 0
<1> DEFINE a == Head(toClient)
<1>1. toClient # <<>> /\ toClient' = Tail(toClient) /\ active = 0 /\ conn # "closed"
      /\ Catalogue[a.kind].process = handler
  BY DEF Receive
<1>2. a \in Range(toClient)
  <2>1. toClient \in Seq(AnswerType)  BY DEF DisciplineInv, OrderInv, Inv, TypeOK
  <2> QED  BY <1>1, <2>1, RangeTail
<1> HIDE DEF a
<1>3. Catalogue["ChannelClose"].process = "reportError"
  <2>1. Catalogue["ChannelClose"] = ChannelCloseFrame  BY DEF Catalogue
  <2>2. ChannelCloseFrame.process = "reportError"
    BY FrameMembers DEF ChannelCloseFrame, ChannelFrame, MethodFrame, Processed
  <2> QED  BY <2>1, <2>2
<1>4. Replies(a)  BY <1>1, <1>3 DEF Replies
<1>5. PICK k \in DOMAIN AnswerOf : a.kind = AnswerOf[k] /\ (a.id = 0 <=> k = "ChannelOpen")
  BY <1>2, <1>4 DEF DisciplineInv, Discipline, RepliesKnown
<1>6. handler = IF k = "ChannelOpen" THEN "reportReady"
                ELSE IF k = "ChannelClose" THEN "reportClosed" ELSE "reportSuccess"
  BY <1>1, <1>5, ReplyHandlers
<1> QED  BY <1>1, <1>2, <1>4, <1>5, <1>6 DEF a

(* Received frames and the return from a callback.                          *)
LEMMA LibraryDiscipline ==
    ASSUME DisciplineInv, Inv', Library
    PROVE  Discipline'
<1>1. Len(calls) \in Nat /\ Len(calls') \in Nat
  BY LenProperties DEF DisciplineInv, OrderInv, Inv, TypeOK
<1>2. ASSUME DOMAIN calls' = DOMAIN calls
      PROVE  Len(calls') >= Len(calls)
  BY <1>1, <1>2, LenProperties DEF DisciplineInv, OrderInv, Inv, TypeOK
<1>3. conn \in {"closing", "closed"} => ~linked \/ ~waiting
  BY DEF DisciplineInv, Discipline, ModeKept
<1>4. ~header /\ ~body /\ ~getOK
  BY ReceivedReply DEF header, body, content, getOK
<1>5. CASE ignored
  <2>1. toClient # <<>> /\ toClient' = Tail(toClient)  BY <1>5 DEF ignored, Receive
  <2>2. UNCHANGED <<state, linked, synchronous, queue, chain, calls, conn, toServer>>
    BY <1>5 DEF ignored, channelVars
  <2>3. Attached'
    <3>1. state # "unattached"  BY <2>1 DEF DisciplineInv, Discipline, Attached
    <3> QED  BY <2>2, <3>1 DEF DisciplineInv, Discipline, Attached
  <2> QED  BY <1>1, <1>3, <2>1, <2>2, <2>3, QuietDiscipline
<1>6. CASE reportReady
  <2>1. /\ Receive("reportReady") /\ linked /\ flush /\ UNCHANGED <<linked, calls, conn>>
        /\ state' = IF state = "connected" THEN "ready" ELSE state
    BY <1>6 DEF reportReady
  <2>2. Attached'  BY <2>1 DEF Attached, DisciplineInv, OrderInv, Inv, Settling
  <2> QED  BY <1>1, <2>1, <2>2, ReceivedReply, FlushDiscipline
<1>7. CASE reportSuccess
  <2>1. Receive("reportSuccess") /\ linked /\ UNCHANGED <<state, linked, conn>>
    BY <1>7 DEF reportSuccess
  <2>2. Attached'  BY <2>1 DEF Attached, DisciplineInv, OrderInv, Inv, Settling
  <2>3. CASE resolveOldest(Head(toClient).id)
    <3>1. flush /\ DOMAIN calls' = DOMAIN calls  BY <2>3 DEF resolveOldest
    <3> QED  BY <1>2, <2>1, <2>2, <3>1, ReceivedReply, FlushDiscipline
  <2>4. CASE UNCHANGED <<queue, synchronous, toServer, active, calls>>
    <3>1. toClient # <<>> /\ toClient' = Tail(toClient)  BY <2>1 DEF Receive
    <3> QED  BY <1>1, <1>3, <2>1, <2>2, <2>4, <3>1, QuietDiscipline
  <2> QED  BY <1>7, <2>3, <2>4 DEF reportSuccess
<1>8. CASE reportClosed
  <2>1. Receive("reportClosed") /\ linked /\ UNCHANGED conn /\ state' = "closed"
    BY <1>8 DEF reportClosed, reportError
  <2>2. Attached'  BY <2>1 DEF Attached
  <2>3. CASE resolveOldest(Head(toClient).id) /\ UNCHANGED linked
    <3>1. flush /\ DOMAIN calls' = DOMAIN calls  BY <2>3 DEF resolveOldest
    <3> QED  BY <1>2, <2>1, <2>2, <2>3, <3>1, ReceivedReply, FlushDiscipline
  <2>4. CASE reportError(chain) /\ UNCHANGED toServer
    <3>1. toClient # <<>> /\ toClient' = Tail(toClient)  BY <2>1 DEF Receive
    <3>2. ~linked' /\ queue' = <<>> /\ DOMAIN calls' = DOMAIN calls  BY <2>4 DEF reportError, Failed
    <3> QED  BY <1>2, <2>2, <2>4, <3>1, <3>2, FailDiscipline
  <2> QED  BY <1>8, <2>3, <2>4 DEF reportClosed
<1>9. CASE callbackReturns
  <2>1. UNCHANGED <<toServer, toClient, conn>> /\ active # 0  BY <1>9 DEF callbackReturns, wireVars
  <2>2. CASE UNCHANGED <<state, linked, synchronous, queue, calls>>
    <3>1. Attached'  BY <2>1, <2>2 DEF Attached, DisciplineInv, Discipline, OrderInv, Inv, Settling
    <3> QED  BY <1>1, <1>3, <2>1, <2>2, <3>1, QuietDiscipline
  <2>3. CASE \E rest : reportError(rest)
    <3>1. ~linked' /\ queue' = <<>> /\ DOMAIN calls' = DOMAIN calls /\ state' = "closed"
      BY <2>3 DEF reportError, Failed
    <3>2. Attached'  BY <3>1 DEF Attached
    <3> QED  BY <1>2, <2>1, <3>1, <3>2, FailDiscipline
  <2> QED  BY <1>9, <2>2, <2>3 DEF callbackReturns
<1>10. CASE channelClose
  <2>1. /\ toClient # <<>> /\ toClient' = Tail(toClient) /\ ~linked' /\ queue' = <<>>
        /\ DOMAIN calls' = DOMAIN calls
    BY <1>10 DEF channelClose, Receive, reportError, Failed, DisciplineInv, OrderInv, Order
  <2>2. UNCHANGED toServer \/ toServer' = Append(toServer, Frame("ChannelCloseOK", 0, FALSE))
    BY <1>10 DEF channelClose
  <2>3. Attached'
    <3>1. state # "unattached"  BY <2>1 DEF DisciplineInv, Discipline, Attached
    <3> QED  BY <1>10, <3>1 DEF channelClose, reportError, Attached, DisciplineInv, Discipline
  <2> QED  BY <1>2, <2>1, <2>2, <2>3, FailDiscipline
<1> QED  BY <1>4, <1>5, <1>6, <1>7, <1>8, <1>9, <1>10 DEF Library

(* The connection.                                                          *)
LEMMA ConnectionDiscipline ==
    ASSUME DisciplineInv, Inv', Connection
    PROVE  Discipline'
<1>1. Len(calls) \in Nat /\ Len(calls') \in Nat
  BY LenProperties DEF DisciplineInv, OrderInv, Inv, TypeOK
<1>2. CASE connectionClose
  <2> DEFINE f == Frame("ChannelClose", Len(calls) + 1, FALSE)
  <2>1. linked /\ UNCHANGED <<linked, synchronous, toServer, toClient>> /\ state # "unattached"
    BY <1>2 DEF connectionClose, wireVars, DisciplineInv, OrderInv, Inv, Settling
  <2>2. Len(calls') = Len(calls) + 1
    BY <1>2, AppendLength DEF connectionClose, push, DisciplineInv, OrderInv, Inv, TypeOK
  <2>3. Attached'
    <3>1. state' \in {state, "closing"}  BY <1>2 DEF connectionClose
    <3>2. state' # "unattached" /\ linked'  BY <2>1, <3>1
    <3> QED  BY <3>2 DEF Attached
  <2>4. CASE UNCHANGED queue /\ (conn' = "shutdown" \/ ~waiting)
    BY <1>1, <2>1, <2>2, <2>3, <2>4, QuietDiscipline
  <2>5. CASE waiting /\ queue' = Append(queue, f) /\ conn' = "shutdown"
    <3>1. f \in FrameType /\ Sendable(f)
      <4>1. Len(calls) + 1 \in Nat /\ Len(calls) + 1 > 0  BY <1>1
      <4> QED  BY <4>1, SynchronousFacts, ChannelKinds, FrameTyped DEF Sendable, Frame
    <3> HIDE DEF f
    <3>2. <<f>> \in Seq(FrameType) /\ Range(<<f>>) = {f}  BY <3>1, OneFrame
    <3>3. queue' = queue \o <<f>>
      <4>1. queue \in Seq(FrameType)  BY DEF DisciplineInv, OrderInv, Inv, TypeOK
      <4> QED  BY <2>5, <3>1, <4>1, AppendIsConcat
    <3>4. \A g \in Range(<<f>>) : Sendable(g)  BY <3>1, <3>2
    <3>5. Len(calls') >= Len(calls) /\ conn' \in {conn, "shutdown"}  BY <1>1, <2>2, <2>5
    <3> DEFINE part == <<f>>
    <3>6. part \in Seq(FrameType) /\ queue' = queue \o part /\ \A g \in Range(part) : Sendable(g)
      BY <3>2, <3>3, <3>4
    <3> HIDE DEF part
    <3> QED  BY <2>1, <2>3, <2>5, <3>5, <3>6, QueuedDiscipline
  <2> QED  BY <1>2, <2>4, <2>5 DEF connectionClose
<1>3. CASE connectionSendClose \/ connectionClosed
  <2>1. UNCHANGED <<state, linked, synchronous, queue, chain, calls, toServer, toClient>>
    BY <1>3 DEF connectionSendClose, connectionClosed, channelVars, wireVars
  <2>2. ~linked \/ ~waiting
    BY <1>3 DEF connectionSendClose, connectionClosed, DisciplineInv, Discipline, ModeKept
  <2>3. state # "unattached"
    BY <1>3 DEF connectionSendClose, connectionClosed, DisciplineInv, Discipline, Attached
  <2>4. Attached'  BY <2>1, <2>3 DEF DisciplineInv, Discipline, Attached
  <2> QED  BY <1>1, <2>1, <2>2, <2>4, QuietDiscipline
<1>4. CASE connectionFail
  <2>1. UNCHANGED <<toServer, toClient>> /\ state # "unattached"  BY <1>4 DEF connectionFail, wireVars
  <2>2. DOMAIN calls' = DOMAIN calls  BY <1>4 DEF connectionFail, reportError, Failed
  <2>3. Len(calls') >= Len(calls)
    BY <1>1, <2>2, LenProperties DEF DisciplineInv, OrderInv, Inv, TypeOK
  <2>4. ~linked' /\ queue' = <<>> /\ Attached'
    BY <1>4, <2>1 DEF connectionFail, reportError, Attached, DisciplineInv, Discipline, OrderInv, Order
  <2> QED  BY <2>1, <2>3, <2>4, FailDiscipline
<1> QED  BY <1>2, <1>3, <1>4 DEF Connection

(* The server answers a question, or discards it after an error.            *)
LEMMA ServerAnswers ==
    ASSUME DisciplineInv, serverReceive
    PROVE  LET f == Head(toServer)
           IN  /\ toServer # <<>> /\ toServer' = Tail(toServer) /\ f \in Range(Pipeline)
               /\ f \in FrameType /\ f.id \in Nat /\ Range(toServer) = {f} \union Range(toServer')
               /\ \/ /\ UNCHANGED toClient
                     /\ Asks(f) => server \in {"closing", "closed"}
                  \/ /\ Asks(f)
                     /\ toClient' = Append(toClient, Answer(AnswerOf[f.kind], f.id, FALSE))
                     /\ Answer(AnswerOf[f.kind], f.id, FALSE) \in AnswerType
<1> DEFINE f == Head(toServer)
<1>1. TypeOK  BY DEF DisciplineInv, OrderInv, Inv
<1>2. toServer # <<>> /\ toServer' = Tail(toServer)  BY DEF serverReceive
<1>3. Range(toServer) = {f} \union Range(toServer')  BY <1>1, <1>2, RangeTail DEF TypeOK
<1>4. f \in Range(Pipeline) /\ f \in FrameType /\ f.id \in Nat  BY <1>1, <1>3, WireTypes
<1> HIDE DEF f
<1>5. f.kind \in Answerable \union Plain \union {"ChannelCloseOK"}
  BY <1>4 DEF DisciplineInv, Discipline, FramesKnown
<1>6. f.kind # "BasicGet" /\ (Asks(f) <=> f.kind \in DOMAIN AnswerOf)
  BY <1>5, AnsweredFacts DEF Asks, Answerable, Plain
<1>7. Asks(f) => Answer(AnswerOf[f.kind], f.id, FALSE) \in AnswerType
  <2>1. Asks(f) => AnswerOf[f.kind] \in Kinds  BY <1>6, AnswerKinds
  <2> QED  BY <1>4, <2>1, FrameTyped
<1>8. CASE server \in {"idle", "open"}
  <2>1. PICK answer \in Answers(f) : toClient' = toClient \o answer  BY <1>8 DEF serverReceive, f
  <2>2. CASE Asks(f)
    <3> DEFINE a == Answer(AnswerOf[f.kind], f.id, FALSE)
    <3>1. answer = <<a>>  BY <1>6, <2>1, <2>2 DEF Answers
    <3>2. a \in AnswerType  BY <1>7, <2>2
    <3> HIDE DEF a
    <3>3. toClient' = Append(toClient, a)  BY <1>1, <2>1, <3>1, <3>2, AppendIsConcat DEF TypeOK
    <3> QED  BY <1>2, <1>3, <1>4, <2>2, <3>2, <3>3 DEF a, f
  <2>3. CASE ~Asks(f)
    <3>1. answer = <<>>  BY <1>6, <2>1, <2>3 DEF Answers
    <3>2. toClient' = toClient  BY <1>1, <2>1, <3>1, ConcatEmptySeq DEF TypeOK
    <3> QED  BY <1>2, <1>3, <1>4, <2>3, <3>2 DEF f
  <2> QED  BY <2>2, <2>3
<1>9. CASE server = "closing"
  <2>1. CASE f.kind = "ChannelClose"
    <3>1. Asks(f) /\ AnswerOf[f.kind] = "ChannelCloseOK"
      BY <2>1, SynchronousFacts, AnsweredFacts DEF Asks
    <3>2. toClient' = Append(toClient, Answer("ChannelCloseOK", f.id, FALSE))
      BY <1>9, <2>1 DEF serverReceive, f
    <3> QED  BY <1>2, <1>3, <1>4, <1>7, <3>1, <3>2 DEF f
  <2>2. CASE f.kind # "ChannelClose"
    <3>1. UNCHANGED toClient  BY <1>9, <2>2 DEF serverReceive, f
    <3> QED  BY <1>2, <1>3, <1>4, <1>9, <3>1 DEF f
  <2> QED  BY <2>1, <2>2
<1>10. CASE server = "closed"
  <2>1. UNCHANGED toClient  BY <1>10 DEF serverReceive
  <2> QED  BY <1>2, <1>3, <1>4, <1>10, <2>1 DEF f
<1> QED  BY <1>1, <1>8, <1>9, <1>10 DEF TypeOK

(* The server.                                                              *)
LEMMA ServerDiscipline ==
    ASSUME DisciplineInv, Inv', Server
    PROVE  Discipline'
<1>1. UNCHANGED <<state, linked, synchronous, queue, chain, calls, conn>>
  BY DEF Server, serverReceive, serverRaises, channelVars
<1>2. TypeOK /\ TypeOK'  BY DEF DisciplineInv, OrderInv, Inv
<1>3. toServer \in Seq(FrameType) /\ toClient \in Seq(AnswerType) /\ queue \in Seq(FrameType)
  BY <1>2 DEF TypeOK
<1>4. CASE serverReceive
  <2> DEFINE f == Head(toServer)
             a == Answer(AnswerOf[f.kind], f.id, FALSE)
  <2>1. /\ toServer # <<>> /\ toServer' = Tail(toServer) /\ f \in Range(Pipeline)
        /\ f \in FrameType /\ f.id \in Nat /\ Range(toServer) = {f} \union Range(toServer')
    BY <1>4, ServerAnswers
  <2>2. \/ UNCHANGED toClient
        \/ Asks(f) /\ toClient' = Append(toClient, a) /\ a \in AnswerType
    BY <1>4, ServerAnswers
  <2>3. Lone(toServer')
        /\ (f.kind \in SynchronousKinds => \A g \in Range(toServer') : g.kind = "ChannelCloseOK")
    BY <1>3, <2>1, LoneTail DEF DisciplineInv, Discipline, OneQuestion
  <2>4. Asks(f) => f.kind \in SynchronousKinds /\ f.kind \in DOMAIN AnswerOf /\ f.kind # "ChannelCloseOK"
    BY AnsweredFacts DEF Asks, Answerable
  <2>5. a.kind = AnswerOf[f.kind] /\ a.id = f.id  BY DEF Answer
  <2>6. f.id <= Len(calls) /\ (Asks(f) => (f.id = 0 <=> f.kind = "ChannelOpen"))
    BY <2>1, <2>4 DEF DisciplineInv, Discipline, FramesKnown, OrderInv, Order
  <2> HIDE DEF f, a
  <2>7. FramesKnown' /\ Attached'
    <3>1. state # "unattached"  BY <2>1 DEF DisciplineInv, Discipline, Attached
    <3>2. Range(Pipeline) = Range(toServer) \union Range(queue)  BY <1>2, WireTypes
    <3>3. Range(Pipeline') = Range(toServer') \union Range(queue')
      <4>1. toServer' \in Seq(FrameType) /\ queue' \in Seq(FrameType)  BY <1>2 DEF TypeOK
      <4>2. \A s, t \in Seq(FrameType) : Range(s \o t) = Range(s) \union Range(t)
        BY RangeConcatenation
      <4> QED  BY <4>1, <4>2 DEF Pipeline
    <3>4. Range(Pipeline') \subseteq Range(Pipeline)  BY <1>1, <2>1, <3>2, <3>3
    <3> QED  BY <1>1, <3>1, <3>4 DEF DisciplineInv, Discipline, FramesKnown, Attached
  <2>8. CASE UNCHANGED toClient
    <3>1. OneQuestion'  BY <2>1, <2>3, <2>8 DEF DisciplineInv, Discipline, OneQuestion
    <3>2. ModeKept'  BY <1>1, <2>1, <2>8 DEF DisciplineInv, Discipline, ModeKept, waiting
    <3>3. RepliesKnown'  BY <1>1, <2>8 DEF DisciplineInv, Discipline, RepliesKnown
    <3> QED  BY <2>7, <3>1, <3>2, <3>3 DEF Discipline
  <2>9. CASE Asks(f) /\ toClient' = Append(toClient, a) /\ a \in AnswerType
    <3>1. \A x \in Range(toClient) : ~Replies(x)
      BY <2>1, <2>4, <2>9 DEF DisciplineInv, Discipline, OneQuestion
    <3>2. Single(toClient')
      BY <1>3, <2>9, <3>1, SingleAppend DEF DisciplineInv, Discipline, OneQuestion
    <3>3. Range(toClient') = Range(toClient) \union {a}  BY <1>3, <2>9, RangeAppend
    <3>4. \A g \in Range(toServer') : g.kind = "ChannelCloseOK"  BY <2>3, <2>4, <2>9
    <3>5. OneQuestion'  BY <2>3, <3>2, <3>4 DEF OneQuestion
    <3>6. ~linked \/ synchronous
      BY <2>1, <2>4, <2>9 DEF DisciplineInv, Discipline, ModeKept
    <3>7. ModeKept'  BY <1>1, <3>6 DEF DisciplineInv, Discipline, ModeKept, waiting
    <3>8. RepliesKnown'
      BY <1>1, <2>4, <2>5, <2>6, <2>9, <3>1, <3>3 DEF RepliesKnown
    <3> QED  BY <2>7, <3>5, <3>7, <3>8 DEF Discipline
  <2> QED  BY <2>2, <2>8, <2>9
<1>5. CASE serverRaises
  <2> DEFINE a == Answer("ChannelClose", 0, FALSE)
  <2>1. toClient' = Append(toClient, a) /\ UNCHANGED toServer  BY <1>5 DEF serverRaises
  <2>2. a \in AnswerType /\ ~Replies(a)  BY ChannelKinds, FrameTyped DEF Answer, Replies
  <2> HIDE DEF a
  <2>3. Range(toClient') = Range(toClient) \union {a}  BY <1>3, <2>1, <2>2, RangeAppend
  <2>4. Single(toClient')
    BY <1>3, <2>1, <2>2, SingleAppend DEF DisciplineInv, Discipline, OneQuestion
  <2>5. OneQuestion'  BY <2>1, <2>2, <2>3, <2>4 DEF DisciplineInv, Discipline, OneQuestion
  <2>6. ModeKept'  BY <1>1, <2>1, <2>2, <2>3 DEF DisciplineInv, Discipline, ModeKept, waiting
  <2>7. RepliesKnown'  BY <1>1, <2>2, <2>3 DEF DisciplineInv, Discipline, RepliesKnown
  <2>8. FramesKnown'  BY <1>1, <2>1 DEF DisciplineInv, Discipline, FramesKnown, Pipeline
  <2>9. Attached'
    <3>1. state # "unattached"  BY <1>5 DEF serverRaises, DisciplineInv, Discipline, Attached
    <3> QED  BY <1>1, <3>1 DEF DisciplineInv, Discipline, Attached
  <2> QED  BY <2>5, <2>6, <2>7, <2>8, <2>9 DEF Discipline
<1> QED  BY <1>4, <1>5 DEF Server

(* The initial state.                                                       *)
LEMMA InitDiscipline == Orderly /\ Init => DisciplineInv
<1> SUFFICES ASSUME Orderly, Init PROVE DisciplineInv  OBVIOUS
<1>1. OrderInv  BY InitOrder
<1>2. toServer = <<>> /\ toClient = <<>> /\ queue = <<>>  BY DEF Init
<1>3. Pipeline = <<>>  BY <1>2, EmptySeq, ConcatEmptySeq DEF Pipeline
<1>4. Range(toServer) = {} /\ Range(toClient) = {} /\ Range(Pipeline) = {}  BY <1>2, <1>3 DEF Range
<1>5. Len(toServer) = 0 /\ Len(toClient) = 0  BY <1>2, EmptySeq
<1>6. OneQuestion /\ FramesKnown /\ RepliesKnown
  BY <1>4, <1>5 DEF OneQuestion, FramesKnown, RepliesKnown, Lone, Single
<1>7. ModeKept /\ Attached  BY <1>2 DEF Init, ModeKept, Attached
<1> QED  BY <1>1, <1>6, <1>7 DEF DisciplineInv, Discipline

(* Every step keeps the discipline.                                         *)
LEMMA NextDiscipline == DisciplineInv /\ [Next]_vars => DisciplineInv'
<1> SUFFICES ASSUME DisciplineInv, [Next]_vars PROVE DisciplineInv'  OBVIOUS
<1>1. OrderInv' /\ Inv'  BY NextOrder DEF DisciplineInv, OrderInv
<1>2. Orderly'  BY DEF DisciplineInv, Orderly
<1> SUFFICES Discipline'  BY <1>1, <1>2 DEF DisciplineInv
<1>3. CASE Application
  <2>1. attach \/ close \/ publish \/ \E kind : Request(kind) \/ Notify(kind)
    BY <1>3 DEF Application, ack, reject, get, recover, pause, resume, confirmSelect,
         startTransaction, commitTransaction, rollbackTransaction, declareExchange, bindExchange,
         unbindExchange, removeExchange, declareQueue, bindQueue, unbindQueue, purgeQueue,
         removeQueue, setQos, consume, cancel
  <2> QED  BY <1>1, <2>1, AttachDiscipline, CallDiscipline
<1>4. CASE UNCHANGED vars
  <2>1. UNCHANGED <<state, linked, synchronous, queue, chain, calls, conn, toServer, toClient, server>>
    BY <1>4 DEF vars, channelVars, wireVars
  <2>2. Len(calls) \in Nat  BY LenProperties DEF DisciplineInv, OrderInv, Inv, TypeOK
  <2>3. Attached'  BY <2>1 DEF DisciplineInv, Discipline, Attached
  <2>4. conn' \in {"closing", "closed"} => ~linked \/ ~waiting
    BY <2>1 DEF DisciplineInv, Discipline, ModeKept
  <2> QED  BY <1>1, <2>1, <2>2, <2>3, <2>4, QuietDiscipline
<1> QED  BY <1>1, <1>3, <1>4, LibraryDiscipline, ConnectionDiscipline, ServerDiscipline DEF Next

(* The discipline holds in every reachable state.                           *)
THEOREM WireDiscipline == Orderly /\ Spec => []DisciplineInv
BY InitDiscipline, NextDiscipline, PTL DEF Spec

(* At most one question is on the wires (Frame::synchronous, the queue of   *)
(* ChannelImpl::send and flush), for every set of requests that are         *)
(* answered by one frame if they are synchronous and not otherwise.         *)
THEOREM QuestionsAreSingle == Orderly /\ Spec => []OneAtATime
<1>1. DisciplineInv => OneAtATime
  <2> SUFFICES ASSUME DisciplineInv PROVE OneAtATime  OBVIOUS
  <2>1. TypeOK  BY DEF DisciplineInv, OrderInv, Inv
  <2>2. \A i \in 1..Len(toClient) : toClient[i] \in Range(toClient)
    BY <2>1, RangeIndex DEF TypeOK
  <2>3. \A j \in 1..Len(toServer) : toServer[j] \in Range(toServer)
    BY <2>1, RangeIndex DEF TypeOK
  <2> QED  BY <2>2, <2>3 DEF DisciplineInv, Discipline, OneQuestion, Lone, Replies, OneAtATime
<1> QED  BY <1>1, WireDiscipline, PTL

-----------------------------------------------------------------------------
(* Answers and calls.                                                       *)

(* The server has closed the channel and the client is about to read that.  *)
Raised == toClient # <<>> /\ ~Replies(Head(toClient))

(* The deferred of a call whose frame was sent or queued.                   *)
Pending(n) == calls[n].result = "pending" /\ calls[n].at \in {"connected", "ready"}

(* A deferred whose call sent nothing: the channel was closing, or the      *)
(* connection refused the frame.                                            *)
Unsent(n) == n \in Range(chain) /\ ~Pending(n) /\ n # active

(* No further frame will be sent.                                           *)
Frozen == state = "closing" \/ (conn # "connected" /\ ~waiting)

(* The chain is in the order of the calls, and what is resolved leaves it.  *)
ChainOrder ==
    /\ \A i, j \in 1..Len(chain) : i < j => chain[i] < chain[j]
    /\ \A n \in Range(chain) : calls[n].result = "success" => n = active

(* A server that has closed the channel has said so, or was asked to.       *)
ServerKnown ==
    /\ linked /\ server = "closing" => \E a \in Range(toClient) : ~Replies(a)
    /\ linked /\ server = "closed" => Range(Pipeline) = {} /\ state \in {"closing", "closed"}

(* The question of every frame on its way is on the chain.                  *)
QuestionsOpen ==
    \A f \in Range(Pipeline) : Asks(f) /\ f.id > 0 => f.id \in Range(chain) /\ Pending(f.id)

(* What was not sent is younger than what was, and nothing follows it.      *)
UnsentLast ==
    \A n \in Range(chain) : Unsent(n) => Frozen /\ \A f \in Range(Pipeline) : f.id < n

(* A reply belongs to a deferred on the chain that is older than the others. *)
RepliesFirst ==
    \A a \in Range(toClient) : Replies(a) /\ a.id > 0 =>
        /\ a.id \in Range(chain) /\ Pending(a.id)
        /\ \A f \in Range(Pipeline) : Asks(f) /\ f.id > 0 => a.id < f.id
        /\ \A n \in Range(chain) : Unsent(n) => a.id < n

(* What was sent has its question or its reply on the way.                  *)
PendingSent ==
    \A n \in Range(chain) : Pending(n) =>
        \/ \E f \in Range(Pipeline) : Asks(f) /\ f.id = n
        \/ \E a \in Range(toClient) : Replies(a) /\ a.id = n

Matched ==
    linked /\ state # "closed" =>
        QuestionsOpen /\ UnsentLast /\ (~Raised => RepliesFirst /\ PendingSent)

Matching == ChainOrder /\ ServerKnown /\ Matched /\ AnswersMatch
MatchInv == DisciplineInv /\ Matching

-----------------------------------------------------------------------------
(* Types, and what the invariants say of a channel that reads a frame.      *)

(* The numbers on the chain are those of calls.                             *)
LEMMA ChainTypes ==
    ASSUME Inv
    PROVE  /\ chain \in Seq(Nat) /\ Len(chain) \in Nat /\ calls \in Seq(CallType) /\ Len(calls) \in Nat
           /\ \A n \in Range(chain) : n \in Nat /\ n > 0 /\ n <= Len(calls)
           /\ \A n \in Range(chain) : \E i \in 1..Len(chain) : n = chain[i]
           /\ \A i \in 1..Len(chain) : chain[i] \in Range(chain)
<1>1. chain \in Seq(Nat) /\ calls \in Seq(CallType)  BY DEF Inv, TypeOK
<1>2. Len(calls) \in Nat /\ Len(chain) \in Nat  BY <1>1, LenProperties
<1>3. \A x : x \in Range(chain) <=> \E i \in 1..Len(chain) : x = chain[i]  BY <1>1, RangeIndex
<1>4. \A i \in 1..Len(chain) : chain[i] \in 1..Len(calls)  BY DEF Inv, Settling
<1>5. ASSUME NEW n \in Range(chain) PROVE n \in Nat /\ n > 0 /\ n <= Len(calls)
  <2>1. n \in 1..Len(calls)  BY <1>3, <1>4
  <2> QED  BY <1>2, <2>1
<1> QED  BY <1>1, <1>2, <1>3, <1>5

(* The oldest deferred comes before all others.                             *)
LEMMA OldestFirst ==
    ASSUME Inv, ChainOrder, chain # <<>>
    PROVE  /\ Head(chain) \in Range(chain)
           /\ Range(chain) = {Head(chain)} \union Range(Tail(chain))
           /\ \A n \in Range(Tail(chain)) : Head(chain) < n
           /\ \A i, j \in 1..Len(Tail(chain)) : i < j => Tail(chain)[i] < Tail(chain)[j]
<1>1. chain \in Seq(Nat) /\ Len(chain) \in Nat  BY ChainTypes
<1>2. Range(chain) = {Head(chain)} \union Range(Tail(chain))  BY <1>1, RangeTail
<1>3. Len(chain) # 0 /\ Head(chain) = chain[1]  BY <1>1, EmptySeq
<1>4. /\ Tail(chain) \in Seq(Nat) /\ Len(Tail(chain)) = Len(chain) - 1
      /\ \A i \in 1..Len(Tail(chain)) : Tail(chain)[i] = chain[i + 1]
  BY <1>1, HeadTailProperties
<1>5. \A i \in 1..Len(Tail(chain)) : i + 1 \in 1..Len(chain) /\ 1 \in 1..Len(chain) /\ 1 < i + 1
  BY <1>1, <1>3, <1>4
<1>6. ASSUME NEW n \in Range(Tail(chain)) PROVE Head(chain) < n
  <2>1. \A x : x \in Range(Tail(chain)) <=> \E i \in 1..Len(Tail(chain)) : x = Tail(chain)[i]
    BY <1>4, RangeIndex
  <2>2. PICK i \in 1..Len(Tail(chain)) : n = Tail(chain)[i]  BY <2>1
  <2> QED  BY <1>3, <1>4, <1>5, <2>2 DEF ChainOrder
<1>7. ASSUME NEW i \in 1..Len(Tail(chain)), NEW j \in 1..Len(Tail(chain)), i < j
      PROVE  Tail(chain)[i] < Tail(chain)[j]
  <2>1. i + 1 < j + 1  BY <1>1, <1>4, <1>7
  <2> QED  BY <1>4, <1>5, <2>1 DEF ChainOrder
<1> QED  BY <1>2, <1>6, <1>7

(* A channel that is given a reply is not closed, in synchronous mode, and  *)
(* has nothing on the wire.                                                 *)
LEMMA ReadingReply ==
    ASSUME DisciplineInv, linked, active = 0, toClient # <<>>, Replies(Head(toClient))
    PROVE  /\ state # "closed" /\ waiting /\ ~Raised
           /\ Range(toClient) = {Head(toClient)} \union Range(Tail(toClient))
           /\ \A a \in Range(Tail(toClient)) : ~Replies(a)
<1>1. toClient \in Seq(AnswerType)  BY DEF DisciplineInv, OrderInv, Inv, TypeOK
<1>2. Range(toClient) = {Head(toClient)} \union Range(Tail(toClient))  BY <1>1, RangeTail
<1>3. \A a \in Range(Tail(toClient)) : ~Replies(a)
  BY <1>1, SingleTail DEF DisciplineInv, Discipline, OneQuestion
<1>4. state # "closed"
  <2>1. after \in {"none", "reportError"}  BY DEF DisciplineInv, OrderInv, Inv, TypeOK
  <2> QED  BY <2>1 DEF DisciplineInv, OrderInv, Inv, Settling
<1>5. waiting  BY <1>2 DEF DisciplineInv, Discipline, ModeKept, waiting
<1> QED  BY <1>2, <1>3, <1>4, <1>5 DEF Raised

(* The heart of it: the reply that the channel reads belongs to the oldest  *)
(* deferred.  An older one would be one that sent nothing, but those come   *)
(* last, or one whose question or reply is on the way, but its question     *)
(* would be behind this one and there is no second reply.                   *)
LEMMA ReplyIsForOldest ==
    ASSUME MatchInv, linked, active = 0, toClient # <<>>, Replies(Head(toClient)), Head(toClient).id > 0
    PROVE  LET r == Head(toClient).id
           IN  /\ chain # <<>> /\ Head(chain) = r /\ r \in Range(chain) /\ Pending(r)
               /\ \A f \in Range(Pipeline) : Asks(f) /\ f.id > 0 => r < f.id
<1> DEFINE a == Head(toClient)
           r == a.id
<1>1. /\ state # "closed" /\ ~Raised /\ Range(toClient) = {a} \union Range(Tail(toClient))
      /\ \A x \in Range(Tail(toClient)) : ~Replies(x)
  BY ReadingReply DEF MatchInv
<1>2. RepliesFirst /\ PendingSent  BY <1>1 DEF MatchInv, Matching, Matched
<1>3. a \in Range(toClient) /\ Replies(a) /\ r > 0  BY <1>1
<1> HIDE DEF a
<1>4. /\ r \in Range(chain) /\ Pending(r) /\ \A f \in Range(Pipeline) : Asks(f) /\ f.id > 0 => r < f.id
      /\ \A n \in Range(chain) : Unsent(n) => r < n
  BY <1>2, <1>3 DEF RepliesFirst
<1>5. Inv /\ ChainOrder  BY DEF MatchInv, Matching, DisciplineInv, OrderInv
<1>6. chain # <<>>
  <2>1. Range(<<>>) = {}  BY DEF Range
  <2> QED  BY <1>4, <2>1
<1>7. Head(chain) \in Range(chain) /\ (r = Head(chain) \/ Head(chain) < r)
  BY <1>4, <1>5, <1>6, OldestFirst
<1>8. Head(chain) \in Nat /\ Head(chain) > 0 /\ r \in Nat  BY <1>4, <1>5, <1>7, ChainTypes
<1>9. ASSUME Head(chain) < r PROVE FALSE
  <2>1. ~Unsent(Head(chain))  BY <1>4, <1>7, <1>8, <1>9
  <2>2. Pending(Head(chain))  BY <1>7, <1>8, <2>1 DEF Unsent
  <2>3. CASE \E f \in Range(Pipeline) : Asks(f) /\ f.id = Head(chain)  BY <1>4, <1>8, <1>9, <2>3
  <2>4. CASE \E x \in Range(toClient) : Replies(x) /\ x.id = Head(chain)  BY <1>1, <1>8, <1>9, <2>4
  <2> QED  BY <1>2, <1>7, <2>2, <2>3, <2>4 DEF PendingSent
<1> QED  BY <1>4, <1>6, <1>7, <1>9 DEF a

-----------------------------------------------------------------------------
(* The calls and the chain, by what a step does.                            *)

(* A step that changes results only.                                        *)
LEMMA SameLength ==
    ASSUME NEW n \in Nat, Inv', DOMAIN calls' = 1..n
    PROVE  Len(calls') = n
<1>1. calls' \in Seq(CallType)  BY DEF Inv, TypeOK
<1>2. Len(calls') \in Nat /\ DOMAIN calls' = 1..Len(calls')  BY <1>1, LenProperties
<1> QED  BY <1>2

(* The channel fails: nothing is left on the chain.                         *)
LEMMA FailMatching ==
    ASSUME MatchInv, Inv', ~linked', chain' = <<>>, NEW ids, calls' = Failed(calls, ids)
    PROVE  Matching'
<1>1. Len(chain') = 0 /\ Range(chain') = {}  BY EmptySeq DEF Range
<1>2. ChainOrder'  BY <1>1 DEF ChainOrder
<1>3. ServerKnown' /\ Matched'  BY DEF ServerKnown, Matched
<1>4. AnswersMatch'
  <2>1. calls \in Seq(CallType) /\ Len(calls) \in Nat
    BY ChainTypes DEF MatchInv, DisciplineInv, OrderInv
  <2>2. DOMAIN calls = 1..Len(calls)  BY <2>1, LenProperties
  <2>3. DOMAIN calls' = 1..Len(calls)
        /\ \A n \in 1..Len(calls) : calls'[n] = IF n \in ids THEN [calls[n] EXCEPT !.result = "error"] ELSE calls[n]
    BY <2>2 DEF Failed
  <2>4. Len(calls') = Len(calls)  BY <2>1, <2>3, SameLength
  <2>5. \A n \in 1..Len(calls) : calls[n] \in CallType  BY <2>1, ElementOfSeq
  <2> SUFFICES ASSUME NEW n \in 1..Len(calls), calls'[n].result = "success" PROVE calls'[n].by = n
    BY <2>4 DEF AnswersMatch
  <2>6. n \notin ids  BY <2>3, <2>5 DEF CallType
  <2> QED  BY <2>3, <2>6 DEF MatchInv, Matching, AnswersMatch
<1> QED  BY <1>2, <1>3, <1>4 DEF Matching

(* Nothing happens that the invariant speaks of, but the connection may     *)
(* proceed with its close.                                                  *)
LEMMA QuietMatching ==
    ASSUME MatchInv, UNCHANGED <<state, linked, synchronous, queue, chain, active, calls, toServer, server>>,
           UNCHANGED conn \/ conn' # "connected",
           UNCHANGED toClient \/ ~linked
    PROVE  Matching'
<1>1. ChainOrder' /\ AnswersMatch'  BY DEF MatchInv, Matching, ChainOrder, AnswersMatch
<1>2. Pipeline' = Pipeline  BY DEF Pipeline
<1>3. ServerKnown'  BY <1>2 DEF MatchInv, Matching, ServerKnown
<1>4. CASE ~linked \/ state = "closed"  BY <1>1, <1>3, <1>4 DEF Matching, Matched
<1>5. CASE linked /\ state # "closed"
  <2>1. \A n : (Pending(n)' <=> Pending(n)) /\ (Unsent(n)' <=> Unsent(n))  BY DEF Pending, Unsent
  <2>2. Frozen => Frozen'  BY DEF Frozen, waiting
  <2>3. QuestionsOpen' /\ UnsentLast'
    BY <1>2, <1>5, <2>1, <2>2 DEF MatchInv, Matching, Matched, QuestionsOpen, UnsentLast
  <2>4. UNCHANGED toClient /\ (Raised' <=> Raised)  BY <1>5 DEF Raised
  <2>5. ~Raised => RepliesFirst' /\ PendingSent'
    BY <1>2, <1>5, <2>1, <2>4 DEF MatchInv, Matching, Matched, RepliesFirst, PendingSent
  <2> QED  BY <1>1, <1>3, <2>3, <2>4, <2>5 DEF Matching, Matched
<1> QED  BY <1>4, <1>5

(* The server's view when the channel reads a reply.                        *)
LEMMA ReadingServer ==
    ASSUME MatchInv, linked, active = 0, toClient # <<>>, Replies(Head(toClient)),
           toClient' = Tail(toClient), Pipeline' = Pipeline, UNCHANGED <<linked, server>>,
           state = "closing" => state' \in {"closing", "closed"}
    PROVE  ServerKnown'
<1>1. Range(toClient) = {Head(toClient)} \union Range(toClient') /\ state # "closed"
  BY ReadingReply DEF MatchInv
<1> QED  BY <1>1 DEF MatchInv, Matching, ServerKnown

(* The reply to the open frame: the chain stays as it is.                   *)
LEMMA ReadyMatching ==
    ASSUME MatchInv, linked, active = 0, toClient # <<>>, Replies(Head(toClient)), Head(toClient).id = 0,
           toClient' = Tail(toClient), Pipeline' = Pipeline,
           UNCHANGED <<linked, server, chain, active, calls, conn>>,
           state = "closing" => state' = "closing"
    PROVE  Matching'
<1>1. /\ Range(toClient) = {Head(toClient)} \union Range(toClient') /\ state # "closed"
      /\ \A a \in Range(toClient') : ~Replies(a)
      /\ waiting /\ ~Raised
  BY ReadingReply DEF MatchInv
<1>2. ServerKnown'  BY ReadingServer
<1>3. ChainOrder' /\ AnswersMatch'  BY DEF MatchInv, Matching, ChainOrder, AnswersMatch
<1>4. \A n : (Pending(n)' <=> Pending(n)) /\ (Unsent(n)' <=> Unsent(n))  BY DEF Pending, Unsent
<1>5. Frozen => Frozen'  BY <1>1 DEF Frozen
<1>6. QuestionsOpen' /\ UnsentLast'
  BY <1>1, <1>4, <1>5 DEF MatchInv, Matching, Matched, QuestionsOpen, UnsentLast
<1>7. RepliesFirst'  BY <1>1 DEF RepliesFirst
<1>8. PendingSent'
  <2> SUFFICES ASSUME NEW n \in Range(chain), Pending(n)
               PROVE  \E f \in Range(Pipeline) : Asks(f) /\ f.id = n
    BY <1>4 DEF PendingSent
  <2>1. n \in Nat /\ n > 0  BY ChainTypes DEF MatchInv, DisciplineInv, OrderInv
  <2> QED  BY <1>1, <2>1 DEF MatchInv, Matching, Matched, PendingSent
<1> QED  BY <1>2, <1>3, <1>6, <1>7, <1>8 DEF Matching, Matched

(* The reply to a call resolves its deferred.                               *)
LEMMA ResolveMatching ==
    ASSUME MatchInv, Inv', linked, active = 0, toClient # <<>>, Replies(Head(toClient)), Head(toClient).id > 0,
           toClient' = Tail(toClient), Pipeline' = Pipeline, resolveOldest(Head(toClient).id),
           UNCHANGED <<linked, server, chain, conn>>, state' \in {state, "closed"}
    PROVE  Matching'
<1> DEFINE r == Head(toClient).id
<1>1. /\ Range(toClient) = {Head(toClient)} \union Range(toClient') /\ state # "closed"
      /\ \A a \in Range(toClient') : ~Replies(a)
      /\ waiting /\ ~Raised
  BY ReadingReply DEF MatchInv
<1>2. /\ Head(chain) = r /\ r \in Range(chain) /\ Pending(r)
      /\ \A f \in Range(Pipeline) : Asks(f) /\ f.id > 0 => r < f.id
  BY ReplyIsForOldest
<1>3. Inv  BY DEF MatchInv, DisciplineInv, OrderInv
<1>4. r \in Nat /\ r > 0 /\ r \in 1..Len(calls) /\ calls \in Seq(CallType) /\ Len(calls) \in Nat
  BY <1>2, <1>3, ChainTypes
<1>5. active' = r /\ calls' = [calls EXCEPT ![r].result = "success", ![r].by = r]
  BY <1>2 DEF resolveOldest
<1>6. Head(toClient).id = r  OBVIOUS
<1> HIDE DEF r
<1>7. /\ DOMAIN calls = 1..Len(calls) /\ Len(calls') = Len(calls)
      /\ \A n \in 1..Len(calls) : calls[n] \in CallType
  <2>1. DOMAIN calls = 1..Len(calls)  BY <1>4, LenProperties
  <2>2. DOMAIN calls' = 1..Len(calls)  BY <1>5, <2>1
  <2> QED  BY <1>4, <2>1, <2>2, SameLength, ElementOfSeq
<1>8. /\ calls'[r].result = "success" /\ calls'[r].by = r
      /\ \A n \in 1..Len(calls) : n # r => calls'[n] = calls[n]
  BY <1>4, <1>5, <1>7 DEF CallType
<1>9. AnswersMatch'
  BY <1>7, <1>8 DEF MatchInv, Matching, AnswersMatch
<1>10. \A n \in Range(chain) : n \in 1..Len(calls) /\ n # 0  BY <1>3, ChainTypes
<1>11. ChainOrder'
  BY <1>5, <1>8, <1>10 DEF MatchInv, Matching, ChainOrder
<1>12. ServerKnown'  BY ReadingServer
<1>13. CASE state' = "closed"  BY <1>9, <1>11, <1>12, <1>13 DEF Matching, Matched
<1>14. CASE state' = state
  <2>1. QuestionsOpen /\ UnsentLast /\ RepliesFirst /\ PendingSent
    BY <1>1 DEF MatchInv, Matching, Matched
  <2>2. \A n \in Range(chain) : n # r => (Pending(n)' <=> Pending(n)) /\ (Unsent(n)' <=> Unsent(n))
    BY <1>5, <1>8, <1>10 DEF Pending, Unsent
  <2>3. \A n \in Range(chain) : n = r => ~Pending(n)' /\ ~Unsent(n)'  BY <1>5, <1>8 DEF Pending, Unsent
  <2>4. Frozen => Frozen'  BY <1>1, <1>14 DEF Frozen
  <2>5. QuestionsOpen'
    <3> SUFFICES ASSUME NEW f \in Range(Pipeline), Asks(f), f.id > 0
                 PROVE  f.id \in Range(chain) /\ Pending(f.id)'
      BY DEF QuestionsOpen
    <3>1. f.id \in Range(chain) /\ Pending(f.id) /\ r < f.id  BY <1>2, <2>1 DEF QuestionsOpen
    <3>2. f.id # r  BY <1>4, <3>1
    <3> QED  BY <2>2, <3>1, <3>2
  <2>6. UnsentLast'  BY <2>1, <2>2, <2>3, <2>4 DEF UnsentLast
  <2>7. RepliesFirst'  BY <1>1 DEF RepliesFirst
  <2>8. PendingSent'
    <3> SUFFICES ASSUME NEW n \in Range(chain), Pending(n)'
                 PROVE  \E f \in Range(Pipeline) : Asks(f) /\ f.id = n
      BY DEF PendingSent
    <3>1. n # r  BY <2>3
    <3>2. Pending(n)  BY <2>2, <3>1
    <3> QED  BY <1>1, <1>6, <2>1, <3>1, <3>2 DEF PendingSent
  <2> QED  BY <1>9, <1>11, <1>12, <2>5, <2>6, <2>7, <2>8 DEF Matching, Matched
<1> QED  BY <1>13, <1>14

(* The callback returns, and the resolved deferred leaves the chain.        *)
LEMMA ReturnMatching ==
    ASSUME MatchInv, active # 0, active' = 0,
           chain' = IF chain # <<>> /\ Head(chain) = active THEN Tail(chain) ELSE <<>>,
           UNCHANGED <<state, linked, synchronous, queue, calls, conn, toServer, toClient, server>>
    PROVE  Matching'
<1>1. Inv /\ ChainOrder  BY DEF MatchInv, Matching, DisciplineInv, OrderInv
<1>2. Pipeline' = Pipeline  BY DEF Pipeline
<1>3. ServerKnown' /\ AnswersMatch'  BY <1>2 DEF MatchInv, Matching, ServerKnown, AnswersMatch
<1>4. CASE chain # <<>> /\ Head(chain) = active
  <2>1. /\ Range(chain) = {active} \union Range(chain')
        /\ \A n \in Range(chain') : active < n
        /\ \A i, j \in 1..Len(chain') : i < j => chain'[i] < chain'[j]
    BY <1>1, <1>4, OldestFirst
  <2>2. \A n \in Range(chain) : n \in Nat  BY <1>1, ChainTypes
  <2>3. \A n \in Range(chain') : n # active /\ n \in Range(chain)  BY <2>1, <2>2
  <2>4. ChainOrder'  BY <2>1, <2>3 DEF MatchInv, Matching, ChainOrder
  <2>5. calls[active].result # "pending"  BY <1>1 DEF Inv, Settling
  <2>6. \A n \in Range(chain) : Pending(n) => n \in Range(chain')  BY <2>1, <2>5 DEF Pending
  <2>7. \A n : (Pending(n)' <=> Pending(n)) /\ (Unsent(n)' => Unsent(n))  BY <2>3 DEF Pending, Unsent
  <2>8. Frozen' <=> Frozen  BY DEF Frozen, waiting
  <2>9. Raised' <=> Raised  BY DEF Raised
  <2>10. ASSUME linked, state # "closed" PROVE QuestionsOpen' /\ UnsentLast'
    BY <1>2, <2>3, <2>6, <2>7, <2>8, <2>10 DEF MatchInv, Matching, Matched, QuestionsOpen, UnsentLast
  <2>11. ASSUME linked, state # "closed", ~Raised PROVE RepliesFirst' /\ PendingSent'
    BY <1>2, <2>3, <2>6, <2>7, <2>11 DEF MatchInv, Matching, Matched, RepliesFirst, PendingSent
  <2> QED  BY <1>3, <2>4, <2>9, <2>10, <2>11 DEF Matching, Matched
<1>5. CASE ~(chain # <<>> /\ Head(chain) = active)
  <2>1. state = "closed"  BY <1>1, <1>5 DEF Inv, Settling
  <2>2. Len(chain') = 0 /\ Range(chain') = {}  BY <1>5, EmptySeq DEF Range
  <2> QED  BY <1>3, <2>1, <2>2 DEF Matching, Matched, ChainOrder
<1> QED  BY <1>4, <1>5

-----------------------------------------------------------------------------
(* The server.                                                              *)

(* Every frame behind the first one may follow it.                          *)
LEMMA FirstFollows ==
    ASSUME OrderInv, OrderInv', toServer # <<>>, toServer' = Tail(toServer), UNCHANGED queue
    PROVE  /\ Range(Pipeline) = {Head(toServer)} \union Range(Pipeline')
           /\ \A g \in Range(Pipeline') : MayFollow(Head(toServer), g)
<1>1. TypeOK /\ TypeOK'  BY DEF OrderInv, Inv
<1>2. toServer \in Seq(FrameType) /\ queue \in Seq(FrameType) /\ toServer' \in Seq(FrameType)
  BY <1>1 DEF TypeOK
<1>3. /\ Len(toServer') = Len(toServer) - 1 /\ Len(toServer) \in Nat \ {0} /\ Head(toServer) = toServer[1]
      /\ \A i \in 1..Len(toServer') : toServer'[i] = toServer[i + 1]
  BY <1>2, HeadTailProperties, EmptySeq
<1>4. Len(queue) \in Nat  BY <1>2, LenProperties
<1>5. /\ Pipeline \in Seq(FrameType) /\ Len(Pipeline) = Len(toServer) + Len(queue)
      /\ \A i \in 1..(Len(toServer) + Len(queue)) :
            Pipeline[i] = IF i <= Len(toServer) THEN toServer[i] ELSE queue[i - Len(toServer)]
  BY <1>2, ConcatProperties DEF Pipeline
<1>6. \A x : x \in Range(queue) <=> \E i \in 1..Len(queue) : x = queue[i]  BY <1>2, RangeIndex
<1>7. \A x : x \in Range(toServer') <=> \E i \in 1..Len(toServer') : x = toServer'[i]  BY <1>2, RangeIndex
<1>8. \A s, t \in Seq(FrameType) : Range(s \o t) = Range(s) \union Range(t)  BY RangeConcatenation
<1>9. Range(Pipeline) = Range(toServer) \union Range(queue)
      /\ Range(Pipeline') = Range(toServer') \union Range(queue)
  BY <1>2, <1>8 DEF Pipeline
<1>10. Range(toServer) = {Head(toServer)} \union Range(toServer')  BY <1>2, RangeTail
<1>11. 1 \in 1..Len(Pipeline) /\ Pipeline[1] = Head(toServer)  BY <1>3, <1>4, <1>5
<1>12. ASSUME NEW g \in Range(Pipeline') PROVE \E j \in 1..Len(Pipeline) : 1 < j /\ Pipeline[j] = g
  <2>1. CASE g \in Range(toServer')
    <3>1. PICK i \in 1..Len(toServer') : g = toServer'[i]  BY <1>7, <2>1
    <3>2. i + 1 \in 1..Len(Pipeline) /\ 1 < i + 1 /\ Pipeline[i + 1] = g  BY <1>3, <1>4, <1>5, <3>1
    <3> QED  BY <3>2
  <2>2. CASE g \in Range(queue)
    <3>1. PICK i \in 1..Len(queue) : g = queue[i]  BY <1>6, <2>2
    <3>2. i + Len(toServer) \in 1..Len(Pipeline) /\ 1 < i + Len(toServer) /\ ~(i + Len(toServer) <= Len(toServer))
          /\ (i + Len(toServer)) - Len(toServer) = i
      BY <1>3, <1>4, <1>5, <3>1
    <3>3. Pipeline[i + Len(toServer)] = g  BY <1>5, <3>1, <3>2
    <3> QED  BY <3>2, <3>3
  <2> QED  BY <1>9, <2>1, <2>2
<1>13. \A g \in Range(Pipeline') : MayFollow(Head(toServer), g)
  BY <1>11, <1>12 DEF OrderInv, Order, Follows
<1> QED  BY <1>9, <1>10, <1>13

(* The server reads a frame, and answers it if it is a question.            *)
LEMMA ServerReceiveMatching ==
    ASSUME MatchInv, DisciplineInv', serverReceive
    PROVE  Matching'
<1> DEFINE f == Head(toServer)
           a == Answer(AnswerOf[f.kind], f.id, FALSE)
<1>1. UNCHANGED <<state, linked, synchronous, queue, chain, active, calls, conn>>
  BY DEF serverReceive, channelVars
<1>2. /\ toServer # <<>> /\ toServer' = Tail(toServer) /\ f \in Range(Pipeline) /\ f \in Range(toServer)
      /\ f.id \in Nat
  BY ServerAnswers DEF MatchInv
<1>3. \/ UNCHANGED toClient /\ (Asks(f) => server \in {"closing", "closed"})
      \/ Asks(f) /\ toClient' = Append(toClient, a) /\ a \in AnswerType
  BY ServerAnswers DEF MatchInv
<1>4. Range(Pipeline) = {f} \union Range(Pipeline') /\ \A g \in Range(Pipeline') : MayFollow(f, g)
  BY <1>1, <1>2, FirstFollows DEF MatchInv, DisciplineInv
<1>5. server' = "closing" => server = "closing"  BY DEF serverReceive
<1>6. server' = "closed" => server = "closed" \/ f.kind \in {"ChannelClose", "ChannelCloseOK"}
  BY DEF serverReceive
<1>7. a.id = f.id /\ (Asks(f) => Replies(a))
  BY AnsweredFacts DEF Answer, Replies, Asks, Answerable
<1>8. Asks(f) => f.kind # "ChannelCloseOK" /\ f.kind \in SynchronousKinds
  BY AnsweredFacts DEF Asks, Answerable
<1> HIDE DEF f, a
<1>9. toClient \in Seq(AnswerType)  BY DEF MatchInv, DisciplineInv, OrderInv, Inv, TypeOK
<1>10. ASSUME Asks(f) PROVE \A x \in Range(toClient) : ~Replies(x)
  BY <1>2, <1>8, <1>10 DEF MatchInv, DisciplineInv, Discipline, OneQuestion
<1>11. ChainOrder' /\ AnswersMatch'  BY <1>1 DEF MatchInv, Matching, ChainOrder, AnswersMatch
<1>12. Range(toClient) \subseteq Range(toClient')
  <2>1. a \in AnswerType => Range(Append(toClient, a)) = Range(toClient) \union {a}  BY <1>9, RangeAppend
  <2> QED  BY <1>3, <2>1
<1>13. ServerKnown'
  <2>1. ASSUME linked, server' = "closing" PROVE \E x \in Range(toClient') : ~Replies(x)
    BY <1>5, <1>12, <2>1 DEF MatchInv, Matching, ServerKnown
  <2>2. ASSUME linked, server' = "closed"
        PROVE  Range(Pipeline') = {} /\ state \in {"closing", "closed"}
    <3>1. server # "closed"  BY <1>2, <2>2 DEF MatchInv, Matching, ServerKnown
    <3>2. f.kind = "ChannelClose"
      BY <1>2, <1>6, <2>2, <3>1 DEF MatchInv, DisciplineInv, Discipline, FramesKnown
    <3>3. \A g \in Range(Pipeline') : g.kind = "ChannelCloseOK" /\ g \in Range(Pipeline)
      BY <1>4, <3>2 DEF MayFollow
    <3>4. \A g \in Range(Pipeline) : g.kind # "ChannelCloseOK"
      BY <2>2 DEF MatchInv, DisciplineInv, Discipline, FramesKnown
    <3>5. state \in {"closing", "closed"}  BY <1>2, <3>2 DEF MatchInv, DisciplineInv, OrderInv, Order
    <3> QED  BY <3>3, <3>4, <3>5
  <2> QED  BY <1>1, <2>1, <2>2 DEF ServerKnown
<1> SUFFICES ASSUME linked, state # "closed" PROVE Matched'
  BY <1>1, <1>11, <1>13 DEF Matching, Matched
<1>14. QuestionsOpen /\ UnsentLast /\ (~Raised => RepliesFirst /\ PendingSent)
  BY DEF MatchInv, Matching, Matched
<1>15. \A n : (Pending(n)' <=> Pending(n)) /\ (Unsent(n)' <=> Unsent(n))  BY <1>1 DEF Pending, Unsent
<1>16. Frozen' <=> Frozen  BY <1>1 DEF Frozen, waiting
<1>17. QuestionsOpen' /\ UnsentLast'
  BY <1>1, <1>4, <1>14, <1>15, <1>16 DEF QuestionsOpen, UnsentLast
<1> SUFFICES ASSUME ~Raised' PROVE RepliesFirst' /\ PendingSent'  BY <1>17 DEF Matched
<1>18. CASE UNCHANGED toClient /\ (Asks(f) => server \in {"closing", "closed"})
  <2>1. ~Raised  BY <1>18 DEF Raised
  <2>2. ~Asks(f)
    <3> SUFFICES ASSUME Asks(f) PROVE FALSE  OBVIOUS
    <3>1. server # "closed"  BY <1>2 DEF MatchInv, Matching, ServerKnown
    <3>2. \E x \in Range(toClient) : ~Replies(x)  BY <1>18, <3>1 DEF MatchInv, Matching, ServerKnown
    <3>3. toClient # <<>>
      <4>1. Range(<<>>) = {}  BY DEF Range
      <4> QED  BY <3>2, <4>1
    <3>4. Head(toClient) \in Range(toClient)  BY <1>9, <3>3, RangeTail
    <3> QED  BY <1>10, <2>1, <3>3, <3>4 DEF Raised
  <2> QED  BY <1>1, <1>4, <1>14, <1>15, <1>18, <2>1, <2>2 DEF RepliesFirst, PendingSent
<1>19. CASE Asks(f) /\ toClient' = Append(toClient, a) /\ a \in AnswerType
  <2>1. toClient = <<>>
    <3> SUFFICES ASSUME toClient # <<>> PROVE FALSE  OBVIOUS
    <3>1. Head(toClient) \in Range(toClient)  BY <1>9, RangeTail
    <3>2. Head(toClient') = Head(toClient) /\ toClient' # <<>>  BY <1>9, <1>19
    <3> QED  BY <1>10, <1>19, <3>1, <3>2 DEF Raised
  <2>2. Range(toClient) = {} /\ Range(toClient') = {a}
    <3>1. Range(toClient) = {}  BY <2>1 DEF Range
    <3> QED  BY <1>9, <1>19, <3>1, RangeAppend
  <2>3. ~Raised  BY <2>1 DEF Raised
  <2>4. RepliesFirst'
    <3> SUFFICES ASSUME a.id > 0
                 PROVE  /\ a.id \in Range(chain) /\ Pending(f.id)
                        /\ \A g \in Range(Pipeline') : Asks(g) /\ g.id > 0 => a.id < g.id
                        /\ \A n \in Range(chain) : Unsent(n) => a.id < n
      BY <1>1, <1>7, <1>15, <2>2 DEF RepliesFirst
    <3> QED  BY <1>2, <1>4, <1>7, <1>8, <1>14, <1>19 DEF QuestionsOpen, UnsentLast, MayFollow
  <2>5. PendingSent'
    BY <1>1, <1>4, <1>7, <1>14, <1>15, <1>19, <2>2, <2>3 DEF PendingSent
  <2> QED  BY <2>4, <2>5
<1> QED  BY <1>3, <1>18, <1>19

(* The server raises a channel error.                                       *)
LEMMA ServerRaisesMatching ==
    ASSUME MatchInv, serverRaises
    PROVE  Matching'
<1> DEFINE a == Answer("ChannelClose", 0, FALSE)
<1>1. /\ UNCHANGED <<state, linked, synchronous, queue, chain, active, calls, conn, toServer>>
      /\ server' = "closing" /\ toClient' = Append(toClient, a)
  BY DEF serverRaises, channelVars
<1>2. a \in AnswerType /\ ~Replies(a)  BY ChannelKinds, FrameTyped DEF Answer, Replies
<1> HIDE DEF a
<1>3. toClient \in Seq(AnswerType)  BY DEF MatchInv, DisciplineInv, OrderInv, Inv, TypeOK
<1>4. Range(toClient') = Range(toClient) \union {a}  BY <1>1, <1>2, <1>3, RangeAppend
<1>5. ChainOrder' /\ AnswersMatch'  BY <1>1 DEF MatchInv, Matching, ChainOrder, AnswersMatch
<1>6. ServerKnown'  BY <1>1, <1>2, <1>4 DEF ServerKnown
<1>7. Pipeline' = Pipeline  BY <1>1 DEF Pipeline
<1> SUFFICES ASSUME linked, state # "closed" PROVE Matched'
  BY <1>1, <1>5, <1>6 DEF Matching, Matched
<1>8. \A n : (Pending(n)' <=> Pending(n)) /\ (Unsent(n)' <=> Unsent(n))  BY <1>1 DEF Pending, Unsent
<1>9. Frozen' <=> Frozen  BY <1>1 DEF Frozen, waiting
<1>10. QuestionsOpen' /\ UnsentLast'
  BY <1>1, <1>7, <1>8, <1>9 DEF MatchInv, Matching, Matched, QuestionsOpen, UnsentLast
<1> SUFFICES ASSUME ~Raised' PROVE RepliesFirst' /\ PendingSent'  BY <1>10 DEF Matched
<1>11. toClient # <<>>
  <2>1. toClient = <<>> => Head(toClient') = a /\ toClient' # <<>>  BY <1>1, <1>2
  <2> QED  BY <1>2, <2>1 DEF Raised
<1>12. Head(toClient') = Head(toClient) /\ toClient' # <<>>  BY <1>1, <1>3, <1>11
<1>13. ~Raised  BY <1>12 DEF Raised
<1> QED  BY <1>1, <1>2, <1>4, <1>7, <1>8, <1>13 DEF MatchInv, Matching, Matched, RepliesFirst, PendingSent

-----------------------------------------------------------------------------
(* The calls of the application.                                            *)

(* A new call is younger than all others.  Its deferred, if it has one, has *)
(* a question on its way, or nothing will be sent any more.                 *)
LEMMA CallMatching ==
    ASSUME MatchInv, DisciplineInv', UNCHANGED <<linked, active, toClient, server>>,
           state' = state \/ (usable /\ state' = "closing"),
           NEW c \in CallType, c.result # "success", calls' = Append(calls, c),
           NEW pushed \in BOOLEAN, chain' = IF pushed THEN Append(chain, Len(calls) + 1) ELSE chain,
           NEW P, Range(Pipeline') = Range(Pipeline) \union P, \A f \in P : f.id = Len(calls) + 1,
           P # {} => usable /\ linked /\ ~Frozen,
           Frozen => Frozen',
           linked /\ state' # "closed" =>
             LET sent == c.result = "pending" /\ c.at \in {"connected", "ready"}
             IN  /\ \A f \in P : Asks(f) => pushed /\ sent
                 /\ pushed => IF sent THEN \E f \in P : Asks(f) ELSE P = {} /\ Frozen'
    PROVE  Matching'
<1> DEFINE k == Len(calls) + 1
<1>1. /\ chain \in Seq(Nat) /\ Len(chain) \in Nat /\ calls \in Seq(CallType) /\ Len(calls) \in Nat
      /\ \A n \in Range(chain) : n \in Nat /\ n > 0 /\ n <= Len(calls)
      /\ \A i \in 1..Len(chain) : chain[i] \in Range(chain)
  BY ChainTypes DEF MatchInv, DisciplineInv, OrderInv
<1>2. /\ Len(calls') = Len(calls) + 1 /\ calls'[Len(calls) + 1] = c
      /\ \A n \in 1..Len(calls) : calls'[n] = calls[n]
  BY <1>1, AppendProperties
<1>3. k \in Nat /\ \A n \in Range(chain) : n \in 1..Len(calls) /\ n < k /\ n # k  BY <1>1
<1>4. Range(chain') = IF pushed THEN Range(chain) \union {k} ELSE Range(chain)
  <2>1. Range(Append(chain, k)) = Range(chain) \union {k}  BY <1>1, <1>3, RangeAppend
  <2> QED  BY <2>1
<1>5. \A i, j \in 1..Len(chain') : i < j => chain'[i] < chain'[j]
  <2>1. CASE ~pushed  BY <2>1 DEF MatchInv, Matching, ChainOrder
  <2>2. CASE pushed
    <3>1. /\ Len(chain') = Len(chain) + 1 /\ chain'[Len(chain) + 1] = k
          /\ \A i \in 1..Len(chain) : chain'[i] = chain[i] /\ chain[i] < k
      <4>1. chain' = Append(chain, k)  BY <2>2
      <4> QED  BY <1>1, <1>3, <4>1, AppendProperties
    <3> SUFFICES ASSUME NEW i \in 1..(Len(chain) + 1), NEW j \in 1..(Len(chain) + 1), i < j
                 PROVE  chain'[i] < chain'[j]
      BY <3>1
    <3>2. i \in 1..Len(chain) /\ (j = Len(chain) + 1 \/ j \in 1..Len(chain))  BY <1>1
    <3> QED  BY <3>1, <3>2 DEF MatchInv, Matching, ChainOrder
  <2> QED  BY <2>1, <2>2
<1> HIDE DEF k
<1>6. calls'[k] = c  BY <1>2 DEF k
<1>7. ChainOrder'
  BY <1>2, <1>3, <1>4, <1>5, <1>6 DEF MatchInv, Matching, ChainOrder
<1>8. AnswersMatch'
  <2>1. \A n \in 1..Len(calls') : n \in 1..Len(calls) \/ n = k  BY <1>1, <1>2 DEF k
  <2> QED  BY <1>2, <1>6, <2>1 DEF MatchInv, Matching, AnswersMatch
<1>9. ServerKnown'
  <2>1. linked /\ server = "closed" => P = {}  BY DEF MatchInv, Matching, ServerKnown, usable
  <2>2. linked /\ server = "closed" => Range(Pipeline') = {} /\ state' \in {"closing", "closed"}
    BY <2>1 DEF MatchInv, Matching, ServerKnown
  <2> QED  BY <2>2 DEF MatchInv, Matching, ServerKnown
<1> SUFFICES ASSUME linked, state' # "closed" PROVE Matched'
  BY <1>7, <1>8, <1>9 DEF Matching, Matched
<1>10. QuestionsOpen /\ UnsentLast /\ (~Raised => RepliesFirst /\ PendingSent)
  <2>1. state # "closed"  BY DEF usable
  <2> QED  BY <2>1 DEF MatchInv, Matching, Matched
<1>11. Raised' <=> Raised  BY DEF Raised
<1>12. \A n \in Range(chain) : (Pending(n)' <=> Pending(n)) /\ (Unsent(n)' <=> Unsent(n))
  BY <1>2, <1>3, <1>4 DEF Pending, Unsent
<1>13. \A n : n = k => (Pending(n)' <=> c.result = "pending" /\ c.at \in {"connected", "ready"})
  BY <1>6 DEF Pending
<1>14. /\ \A f \in P : f.id = k
       /\ \A f \in Range(Pipeline) : f.id \in Nat /\ f.id < k
  <2>1. \A f \in Range(Pipeline) : f.id \in Nat /\ f.id <= Len(calls)
    BY WireTypes DEF MatchInv, DisciplineInv, OrderInv, Order, Inv
  <2> QED  BY <1>1, <2>1 DEF k
<1>15. \A a \in Range(toClient) : Replies(a) => a.id \in Nat /\ a.id < k
  <2> SUFFICES ASSUME NEW a \in Range(toClient), Replies(a) PROVE a.id \in Nat /\ a.id < k  OBVIOUS
  <2>1. a.id \in Nat  BY WireTypes DEF MatchInv, DisciplineInv, OrderInv, Inv
  <2>2. a.id <= Len(calls)  BY DEF MatchInv, DisciplineInv, Discipline, RepliesKnown
  <2> QED  BY <1>1, <2>1, <2>2 DEF k
<1>16. ASSUME NEW n \in Range(chain'), n \notin Range(chain), Unsent(n)'
       PROVE  n = k /\ P = {} /\ Frozen'
  BY <1>4, <1>13, <1>16 DEF Unsent
<1>17. QuestionsOpen'
  <2> SUFFICES ASSUME NEW f \in Range(Pipeline'), Asks(f), f.id > 0
               PROVE  f.id \in Range(chain') /\ Pending(f.id)'
    BY DEF QuestionsOpen
  <2>1. CASE f \in Range(Pipeline)  BY <1>4, <1>10, <1>12, <2>1 DEF QuestionsOpen
  <2>2. CASE f \in P  BY <1>4, <1>13, <1>14, <2>2
  <2> QED  BY <2>1, <2>2
<1>18. UnsentLast'
  <2> SUFFICES ASSUME NEW n \in Range(chain'), Unsent(n)'
               PROVE  Frozen' /\ \A f \in Range(Pipeline') : f.id < n
    BY DEF UnsentLast
  <2>1. CASE n \in Range(chain)  BY <1>10, <1>12, <2>1 DEF UnsentLast
  <2>2. CASE n \notin Range(chain)  BY <1>14, <1>16, <2>2
  <2> QED  BY <2>1, <2>2
<1>19. ASSUME ~Raised PROVE RepliesFirst'
  <2> SUFFICES ASSUME NEW a \in Range(toClient), Replies(a), a.id > 0
               PROVE  /\ a.id \in Range(chain') /\ Pending(a.id)'
                      /\ \A f \in Range(Pipeline') : Asks(f) /\ f.id > 0 => a.id < f.id
                      /\ \A n \in Range(chain') : Unsent(n)' => a.id < n
    BY DEF RepliesFirst
  <2>1. /\ a.id \in Range(chain) /\ Pending(a.id)
        /\ \A f \in Range(Pipeline) : Asks(f) /\ f.id > 0 => a.id < f.id
        /\ \A n \in Range(chain) : Unsent(n) => a.id < n
    BY <1>10, <1>19 DEF RepliesFirst
  <2>2. \A n \in Range(chain') : Unsent(n)' => a.id < n  BY <1>12, <1>15, <1>16, <2>1
  <2> QED  BY <1>4, <1>12, <1>14, <1>15, <2>1, <2>2
<1>20. ASSUME ~Raised PROVE PendingSent'
  <2> SUFFICES ASSUME NEW n \in Range(chain'), Pending(n)'
               PROVE  \/ \E f \in Range(Pipeline') : Asks(f) /\ f.id = n
                      \/ \E a \in Range(toClient) : Replies(a) /\ a.id = n
    BY DEF PendingSent
  <2>1. CASE n \in Range(chain)  BY <1>10, <1>12, <1>20, <2>1 DEF PendingSent
  <2>2. CASE n \notin Range(chain)
    <3>1. n = k /\ pushed  BY <1>4, <2>2
    <3> QED  BY <1>13, <1>14, <3>1
  <2> QED  BY <2>1, <2>2
<1> QED  BY <1>11, <1>17, <1>18, <1>19, <1>20 DEF Matched

(* ChannelImpl::send: a frame is sent or queued if the channel can be used  *)
(* and the call succeeds; otherwise no frame follows any more.              *)
LEMMA SendMatching ==
    ASSUME MatchInv, NEW f \in FrameType, ~f.big, NEW ok \in BOOLEAN, send(f, ok),
           UNCHANGED <<linked, conn>>,
           state' = state \/ (usable /\ state' = "closing")
    PROVE  LET P == IF usable /\ linked /\ ok THEN {f} ELSE {}
           IN  /\ Range(Pipeline') = Range(Pipeline) \union P
               /\ P # {} => ~Frozen
               /\ Frozen => Frozen'
               /\ linked /\ state' # "closed" /\ P = {} => Frozen'
<1>1. TypeOK /\ Inv  BY DEF MatchInv, DisciplineInv, OrderInv, Inv
<1>2. CASE usable /\ linked /\ ok
  <2>1. Pipeline' = Pipeline \o <<f>>
    <3>1. ~UNCHANGED <<queue, toServer>>
      <4>1. queue \in Seq(FrameType) /\ toServer \in Seq(FrameType)  BY <1>1 DEF TypeOK
      <4>2. Append(queue, f) # queue /\ Append(toServer, f) # toServer
        <5>1. \A s \in Seq(FrameType) : Len(s) \in Nat /\ Len(Append(s, f)) = Len(s) + 1
          BY AppendProperties, LenProperties
        <5>2. \A s \in Seq(FrameType) : Append(s, f) # s
          <6> SUFFICES ASSUME NEW s \in Seq(FrameType), Append(s, f) = s PROVE FALSE  OBVIOUS
          <6>1. Len(s) \in Nat /\ Len(s) = Len(s) + 1  BY <5>1
          <6> QED  BY <6>1
        <5> QED  BY <4>1, <5>2
      <4> QED  BY <1>2, <4>2 DEF send, usable
    <3> QED  BY <1>1, <3>1, SendAdds
  <2>2. Range(Pipeline') = Range(Pipeline) \union {f}
    <3>1. Pipeline \in Seq(FrameType)  BY <1>1, WireTypes
    <3>2. <<f>> \in Seq(FrameType) /\ Range(<<f>>) = {f}  BY OneFrame
    <3>3. \A s, t \in Seq(FrameType) : Range(s \o t) = Range(s) \union Range(t)  BY RangeConcatenation
    <3> QED  BY <2>1, <3>1, <3>2, <3>3
  <2>3. ~Frozen  BY <1>2 DEF send, usable, Frozen, Accepts
  <2> QED  BY <1>2, <2>2, <2>3
<1>3. CASE ~(usable /\ linked /\ ok)
  <2>1. UNCHANGED <<queue, synchronous, toServer>>  BY <1>3 DEF send
  <2>2. Pipeline' = Pipeline /\ (waiting' <=> waiting)  BY <2>1 DEF Pipeline, waiting
  <2>3. Frozen => Frozen'  BY <2>2 DEF Frozen, usable
  <2>4. ASSUME linked, state' # "closed" PROVE Frozen'
    <3>1. state \in {"connected", "ready", "closing"}
      BY <1>1, <2>4 DEF TypeOK, Inv, Settling, usable
    <3>2. CASE state = "closing"  BY <3>2 DEF Frozen, usable
    <3>3. CASE usable
      <4>1. ~ok  BY <1>3, <2>4, <3>3
      <4>2. ~waiting /\ conn # "connected"  BY <2>4, <3>3, <4>1 DEF send, usable, Accepts
      <4> QED  BY <2>2, <4>2 DEF Frozen
    <3> QED  BY <3>1, <3>2, <3>3 DEF usable
  <2> QED  BY <1>3, <2>2, <2>3, <2>4
<1> QED  BY <1>2, <1>3

(* A call that returns a deferred.                                          *)
LEMMA RequestMatching ==
    ASSUME MatchInv, DisciplineInv', NEW kind, kind \notin Plain, Request(kind)
    PROVE  Matching'
<1>1. state # "unattached" /\ kind \in Requests /\ UNCHANGED <<state, linked, active, conn, toClient, server>>
  BY DEF Request, MayCall
<1>2. kind \in Answerable /\ kind \in Kinds /\ Sizes(kind) = {FALSE}
  BY <1>1, ChannelAssumption DEF ChannelAssumption, MatchInv, DisciplineInv, Orderly, Sizes
<1>3. PICK ok \in BOOLEAN : send(Frame(kind, Len(calls) + 1, FALSE), ok) /\ push(kind, ok)
  BY <1>2 DEF Request
<1> DEFINE f == Frame(kind, Len(calls) + 1, FALSE)
           c == Call(kind, IF ok THEN "pending" ELSE "error")
           P == IF usable /\ linked /\ ok THEN {f} ELSE {}
<1>4. Len(calls) \in Nat  BY ChainTypes DEF MatchInv, DisciplineInv, OrderInv
<1>5. f \in FrameType /\ f.id = Len(calls) + 1 /\ Asks(f) /\ ~f.big /\ send(f, ok)
  <2>1. Len(calls) + 1 \in Nat  BY <1>4
  <2>2. f \in FrameType  BY <1>2, <2>1, FrameTyped
  <2>3. f.id = Len(calls) + 1 /\ Asks(f) /\ ~f.big  BY <1>2 DEF Frame, Asks
  <2> QED  BY <1>3, <2>2, <2>3
<1>6. TypeOK  BY DEF MatchInv, DisciplineInv, OrderInv, Inv
<1>7. /\ c \in CallType /\ c.at = state /\ (c.result = "pending" <=> ok) /\ c.result # "success"
      /\ calls' = Append(calls, c) /\ chain' = Append(chain, Len(calls) + 1)
  BY <1>1, <1>2, <1>3, <1>6 DEF Call, CallType, Deferreds, push, TypeOK
<1> HIDE DEF f, c
<1>8. /\ Range(Pipeline') = Range(Pipeline) \union P
      /\ P # {} => ~Frozen
      /\ Frozen => Frozen'
      /\ linked /\ state' # "closed" /\ P = {} => Frozen'
  BY <1>1, <1>5, SendMatching
<1>9. P # {} => usable /\ linked /\ ~Frozen  BY <1>8
<1>10. \A g \in P : g.id = Len(calls) + 1  BY <1>5
<1>11. ASSUME linked, state' # "closed"
       PROVE  LET sent == c.result = "pending" /\ c.at \in {"connected", "ready"}
              IN  /\ \A g \in P : Asks(g) => TRUE /\ sent
                  /\ TRUE => IF sent THEN \E g \in P : Asks(g) ELSE P = {} /\ Frozen'
  BY <1>5, <1>7, <1>8, <1>11 DEF usable
<1> HIDE DEF P
<1>12. chain' = IF TRUE THEN Append(chain, Len(calls) + 1) ELSE chain  BY <1>7
<1> QED  BY <1>1, <1>7, <1>8, <1>9, <1>10, <1>11, <1>12, CallMatching

(* A call that returns a bool.                                              *)
LEMMA NotifyMatching ==
    ASSUME MatchInv, DisciplineInv', NEW kind \in {"BasicAck", "BasicReject", "BasicNack"}, Notify(kind)
    PROVE  Matching'
<1>1. state # "unattached" /\ kind \in Requests /\ UNCHANGED <<state, linked, chain, active, conn, toClient, server>>
  BY DEF Notify, MayCall
<1>2. kind \in Kinds /\ kind \in Answerable \union Plain
  BY <1>1, ChannelAssumption DEF ChannelAssumption, MatchInv, DisciplineInv, Orderly
<1>3. kind \notin Answerable  BY DEF Answerable, AnswerOf
<1>4. PICK ok \in BOOLEAN : send(Frame(kind, Len(calls) + 1, FALSE), ok)  BY DEF Notify
<1> DEFINE f == Frame(kind, Len(calls) + 1, FALSE)
           c == Call(kind, "none")
           P == IF usable /\ linked /\ ok THEN {f} ELSE {}
<1>5. Len(calls) \in Nat  BY ChainTypes DEF MatchInv, DisciplineInv, OrderInv
<1>6. f \in FrameType /\ f.id = Len(calls) + 1 /\ ~Asks(f) /\ ~f.big /\ send(f, ok)
  <2>1. Len(calls) + 1 \in Nat  BY <1>5
  <2>2. f \in FrameType  BY <1>2, <2>1, FrameTyped
  <2>3. f.id = Len(calls) + 1 /\ ~Asks(f) /\ ~f.big  BY <1>3 DEF Frame, Asks
  <2> QED  BY <1>4, <2>2, <2>3
<1>7. TypeOK  BY DEF MatchInv, DisciplineInv, OrderInv, Inv
<1>8. c \in CallType /\ c.result # "success" /\ calls' = Append(calls, c)
  BY <1>1, <1>2, <1>7 DEF Call, CallType, Notify, TypeOK
<1> HIDE DEF f, c
<1>9. /\ Range(Pipeline') = Range(Pipeline) \union P
      /\ P # {} => ~Frozen
      /\ Frozen => Frozen'
  BY <1>1, <1>6, SendMatching
<1>10. P # {} => usable /\ linked /\ ~Frozen  BY <1>9
<1>11. \A g \in P : g.id = Len(calls) + 1 /\ ~Asks(g)  BY <1>6
<1> HIDE DEF P
<1>12. chain' = IF FALSE THEN Append(chain, Len(calls) + 1) ELSE chain  BY <1>1
<1> QED  BY <1>1, <1>8, <1>9, <1>10, <1>11, <1>12, CallMatching

(* A message: none of its frames is a question.                             *)
LEMMA PublishMatching ==
    ASSUME MatchInv, DisciplineInv', publish
    PROVE  Matching'
<1>1. /\ state # "unattached" /\ "BasicPublish" \in Requests
      /\ UNCHANGED <<state, linked, chain, active, conn, toClient, server>>
  BY DEF publish, MayCall
<1>2. PICK ok \in BOOLEAN, big \in BOOLEAN, bodySize \in {0, 1} :
          sendAll(MessageFrames(Len(calls) + 1, big, bodySize), ok)
  BY SizesBoolean DEF publish
<1> DEFINE fs == MessageFrames(Len(calls) + 1, big, bodySize)
           c == Call("BasicPublish", "none")
<1>3. Len(calls) \in Nat  BY ChainTypes DEF MatchInv, DisciplineInv, OrderInv
<1>4. fs \in Seq(FrameType) /\ \A f \in Range(fs) : f.id = Len(calls) + 1 /\ f.kind \in Plain
  <2>1. Len(calls) + 1 \in Nat /\ Len(calls) + 1 > 0  BY <1>3
  <2> QED  BY <2>1, MessageSendable
<1>5. sendAll(fs, ok)  BY <1>2
<1>6. TypeOK  BY DEF MatchInv, DisciplineInv, OrderInv, Inv
<1>7. c \in CallType /\ c.result # "success" /\ calls' = Append(calls, c)
  <2>1. "BasicPublish" \in Kinds  BY <1>1, ChannelAssumption DEF ChannelAssumption
  <2> QED  BY <1>1, <1>6, <2>1 DEF Call, CallType, publish, TypeOK
<1> HIDE DEF fs, c
<1>8. Pipeline \in Seq(FrameType)  BY <1>6, WireTypes
<1>9. \A s, t \in Seq(FrameType) : Range(s \o t) = Range(s) \union Range(t)  BY RangeConcatenation
<1>10. chain' = IF FALSE THEN Append(chain, Len(calls) + 1) ELSE chain  BY <1>1
<1>11. ASSUME NEW P, Range(Pipeline') = Range(Pipeline) \union P, P \subseteq Range(fs),
              P # {} => usable /\ linked /\ ~Frozen, Frozen => Frozen'
       PROVE  Matching'
  <2>1. \A f \in P : f.id = Len(calls) + 1 /\ ~Asks(f)
    BY <1>4, <1>11, SynchronousFacts DEF Asks, Answerable
  <2> QED  BY <1>1, <1>7, <1>10, <1>11, <2>1, CallMatching
<1>12. CASE UNCHANGED <<queue, synchronous, toServer>>
  <2>1. Pipeline' = Pipeline  BY <1>12 DEF Pipeline
  <2>2. Frozen' <=> Frozen  BY <1>1, <1>12 DEF Frozen, waiting
  <2> DEFINE P == {}
  <2>3. Range(Pipeline') = Range(Pipeline) \union P /\ P \subseteq Range(fs) /\ P = {}  BY <2>1
  <2> HIDE DEF P
  <2> QED  BY <1>11, <2>2, <2>3
<1>13. CASE /\ usable /\ linked /\ ~UNCHANGED <<queue, synchronous, toServer>>
            /\ waiting \/ conn = "connected"
  <2>1. ~Frozen  BY <1>13 DEF Frozen, usable
  <2>2. PICK k \in 0..Len(fs) : Pipeline' = Pipeline \o SubSeq(fs, 1, k)
    <3>1. CASE UNCHANGED <<queue, toServer>>
      <4>1. UNCHANGED synchronous  BY <1>5, <1>13, <3>1 DEF sendAll, usable
      <4> QED  BY <1>13, <3>1, <4>1
    <3> QED  BY <1>4, <1>5, <1>6, <3>1, SendAllAdds
  <2>3. Len(fs) \in Nat  BY <1>4, LenProperties
  <2>4. SubSeq(fs, 1, k) \in Seq(Range(fs))
    <3>1. \A i \in 1..k : fs[i] \in Range(fs)
      <4>1. \A x : x \in Range(fs) <=> \E i \in 1..Len(fs) : x = fs[i]  BY <1>4, RangeIndex
      <4> QED  BY <2>3, <4>1
    <3> QED  BY <2>3, <3>1, SubSeqProperties
  <2>5. Range(fs) \subseteq FrameType  BY <1>4, RangeOfSeq
  <2>6. SubSeq(fs, 1, k) \in Seq(FrameType)  BY <2>4, <2>5, SeqMonotonic
  <2>7. Range(SubSeq(fs, 1, k)) \subseteq Range(fs)  BY <2>4, RangeOfSeq
  <2>8. Range(Pipeline') = Range(Pipeline) \union Range(SubSeq(fs, 1, k))  BY <1>8, <1>9, <2>2, <2>6
  <2> QED  BY <1>11, <1>13, <2>1, <2>7, <2>8
<1>14. ASSUME usable, linked, ~waiting, conn # "connected"
       PROVE  UNCHANGED <<queue, synchronous, toServer>>
  <2>1. toServer' = toServer \o SubSeq(fs, 1, 0) /\ UNCHANGED <<queue, synchronous>>
    BY <1>5, <1>14 DEF sendAll, usable
  <2>2. SubSeq(fs, 1, 0) = <<>>  BY <1>4, SubSeqEmpty
  <2>3. toServer \in Seq(FrameType)  BY <1>6 DEF TypeOK
  <2> QED  BY <2>1, <2>2, <2>3, ConcatEmptySeq
<1>15. CASE ~(usable /\ linked)
  <2>1. UNCHANGED <<queue, synchronous, toServer>>  BY <1>5, <1>15 DEF sendAll
  <2> QED  BY <1>12, <2>1
<1> QED  BY <1>12, <1>13, <1>14, <1>15

(* ChannelImpl::close, by the application or by Connection::close.          *)
LEMMA CloseMatching ==
    ASSUME MatchInv, DisciplineInv', state # "unattached", UNCHANGED <<linked, active, toClient, server>>,
           NEW ok \in BOOLEAN, push("ChannelClose", ok),
           \/ UNCHANGED conn
           \/ conn' # "connected",
           \/ /\ ~usable /\ ok = (state # "closing")
              /\ UNCHANGED <<state, queue, synchronous, toServer>>
           \/ /\ usable /\ UNCHANGED conn
              /\ send(Frame("ChannelClose", Len(calls) + 1, FALSE), ok)
              /\ state' = IF ok THEN "closing" ELSE state
           \/ /\ usable /\ linked /\ ~waiting /\ ~ok /\ conn' # "connected"
              /\ UNCHANGED <<state, queue, synchronous, toServer>>
           \/ /\ usable /\ linked /\ waiting /\ ok /\ state' = "closing"
              /\ queue' = Append(queue, Frame("ChannelClose", Len(calls) + 1, FALSE))
              /\ UNCHANGED <<synchronous, toServer>>
    PROVE  Matching'
<1> DEFINE f == Frame("ChannelClose", Len(calls) + 1, FALSE)
           c == Call("ChannelClose", IF ok THEN "pending" ELSE "error")
           P == IF usable /\ linked /\ ok THEN {f} ELSE {}
<1>1. Len(calls) \in Nat  BY ChainTypes DEF MatchInv, DisciplineInv, OrderInv
<1>2. f \in FrameType /\ f.id = Len(calls) + 1 /\ Asks(f) /\ ~f.big
  <2>1. Len(calls) + 1 \in Nat  BY <1>1
  <2>2. f \in FrameType  BY <2>1, ChannelKinds, FrameTyped
  <2> QED  BY <2>2, SynchronousFacts DEF Frame, Asks
<1>3. TypeOK /\ Inv  BY DEF MatchInv, DisciplineInv, OrderInv, Inv
<1>4. /\ c \in CallType /\ c.at = state /\ (c.result = "pending" <=> ok) /\ c.result # "success"
      /\ calls' = Append(calls, c) /\ chain' = Append(chain, Len(calls) + 1)
  BY <1>3, ChannelKinds DEF Call, CallType, Deferreds, push, TypeOK
<1> HIDE DEF c
<1>5. linked => state \in {"connected", "ready", "closing", "closed"}  BY <1>3 DEF TypeOK, Inv, Settling
<1>6. state' = state \/ (usable /\ state' = "closing")  OBVIOUS
<1>7. \A g \in P : g.id = Len(calls) + 1  BY <1>2
<1>8. ASSUME Range(Pipeline') = Range(Pipeline) \union P, P # {} => ~Frozen, Frozen => Frozen',
             linked /\ state' # "closed" /\ P = {} => Frozen'
      PROVE  Matching'
  <2>1. P # {} => usable /\ linked /\ ~Frozen  BY <1>8
  <2>2. ASSUME linked, state' # "closed"
        PROVE  LET sent == c.result = "pending" /\ c.at \in {"connected", "ready"}
               IN  /\ \A g \in P : Asks(g) => TRUE /\ sent
                   /\ TRUE => IF sent THEN \E g \in P : Asks(g) ELSE P = {} /\ Frozen'
    BY <1>2, <1>4, <1>8, <2>2 DEF usable
  <2> HIDE DEF P, f
  <2>3. chain' = IF TRUE THEN Append(chain, Len(calls) + 1) ELSE chain  BY <1>4
  <2> QED  BY <1>4, <1>6, <1>7, <1>8, <2>1, <2>2, <2>3, CallMatching
<1>9. CASE ~usable /\ UNCHANGED <<state, queue, synchronous, toServer>>
  <2>1. Range(Pipeline') = Range(Pipeline) \union P  BY <1>9 DEF Pipeline
  <2>2. Frozen => Frozen'  BY <1>9 DEF Frozen, waiting
  <2>3. linked /\ state' # "closed" => Frozen'  BY <1>5, <1>9 DEF Frozen, usable
  <2> QED  BY <1>8, <1>9, <2>1, <2>2, <2>3
<1>10. CASE usable /\ UNCHANGED conn /\ send(f, ok)
  <2> HIDE DEF f
  <2>1. /\ Range(Pipeline') = Range(Pipeline) \union P
        /\ P # {} => ~Frozen
        /\ Frozen => Frozen'
        /\ linked /\ state' # "closed" /\ P = {} => Frozen'
    BY <1>2, <1>6, <1>10, SendMatching
  <2> QED  BY <1>8, <2>1
<1>11. CASE usable /\ linked /\ ~waiting /\ ~ok /\ conn' # "connected" /\ UNCHANGED <<state, queue, synchronous, toServer>>
  <2>1. Range(Pipeline') = Range(Pipeline) \union P  BY <1>11 DEF Pipeline
  <2>2. Frozen'  BY <1>11 DEF Frozen, waiting
  <2> QED  BY <1>8, <1>11, <2>1, <2>2
<1>12. CASE /\ usable /\ linked /\ waiting /\ ok /\ state' = "closing" /\ queue' = Append(queue, f)
            /\ UNCHANGED <<synchronous, toServer>>
  <2>1. P = {f}  BY <1>12
  <2> HIDE DEF f, P
  <2>2. ~Frozen  BY <1>12 DEF Frozen, usable
  <2>3. TypeOK'  BY DEF DisciplineInv, OrderInv, Inv
  <2>4. toServer \in Seq(FrameType) /\ queue \in Seq(FrameType) /\ queue' \in Seq(FrameType)
    BY <1>3, <2>3 DEF TypeOK
  <2>5. Range(queue') = Range(queue) \union {f}
    <3>1. Range(Append(queue, f)) = Range(queue) \union {f}  BY <1>2, <2>4, RangeAppend
    <3> QED  BY <1>12, <3>1
  <2>6. \A s, t \in Seq(FrameType) : Range(s \o t) = Range(s) \union Range(t)  BY RangeConcatenation
  <2>7. Range(Pipeline) = Range(toServer) \union Range(queue)  BY <2>4, <2>6 DEF Pipeline
  <2>8. Range(toServer \o queue') = Range(toServer) \union Range(queue')  BY <2>4, <2>6
  <2>9. Pipeline' = toServer \o queue'  BY <1>12 DEF Pipeline
  <2>10. Range(Pipeline') = Range(Pipeline) \union P  BY <2>1, <2>5, <2>7, <2>8, <2>9
  <2> QED  BY <1>8, <2>1, <2>2, <2>10
<1> QED  BY <1>9, <1>10, <1>11, <1>12

-----------------------------------------------------------------------------
(* Every step.                                                              *)

(* ChannelImpl::attach.                                                     *)
LEMMA AttachMatching ==
    ASSUME MatchInv, attach
    PROVE  Matching'
<1> DEFINE f == Frame("ChannelOpen", 0, FALSE)
<1>1. /\ state = "unattached" /\ state' = "connected" /\ toServer' = <<f>>
      /\ UNCHANGED <<queue, chain, active, calls, conn, toClient, server>>
  BY DEF attach
<1>2. chain = <<>> /\ toClient = <<>> /\ server = "idle"
  BY <1>1 DEF MatchInv, DisciplineInv, Discipline, Attached
<1>3. queue = <<>>
  BY <1>1 DEF MatchInv, DisciplineInv, OrderInv, Inv, Settling, Order
<1>4. f \in FrameType /\ f.id = 0  BY ChannelKinds, FrameTyped DEF Frame
<1> HIDE DEF f
<1>5. <<f>> \in Seq(FrameType) /\ Range(<<f>>) = {f}  BY <1>4, OneFrame
<1>6. Pipeline' = <<f>>  BY <1>1, <1>3, <1>5, ConcatEmptySeq DEF Pipeline
<1>7. Range(chain') = {} /\ Len(chain') = 0 /\ Range(toClient') = {}  BY <1>1, <1>2, EmptySeq DEF Range
<1>8. ChainOrder' /\ ServerKnown' /\ AnswersMatch'
  BY <1>1, <1>2, <1>7 DEF ChainOrder, ServerKnown, MatchInv, Matching, AnswersMatch
<1>9. QuestionsOpen' /\ UnsentLast' /\ RepliesFirst' /\ PendingSent'
  BY <1>4, <1>5, <1>6, <1>7 DEF QuestionsOpen, UnsentLast, RepliesFirst, PendingSent
<1> QED  BY <1>8, <1>9 DEF Matching, Matched

(* Received frames and the return from a callback.                          *)
LEMMA LibraryMatching ==
    ASSUME MatchInv, DisciplineInv', Library
    PROVE  Matching'
<1>1. DisciplineInv /\ Inv' /\ Inv  BY DEF MatchInv, DisciplineInv, OrderInv
<1>2. ~header /\ ~body /\ ~getOK
  BY <1>1, ReceivedReply DEF header, body, content, getOK
<1>3. ASSUME Replies(Head(toClient)), toClient # <<>>, toClient' = Tail(toClient), linked, conn # "closed",
             flush, UNCHANGED <<linked, conn>>, DOMAIN calls' = DOMAIN calls, Attached'
      PROVE  Pipeline' = Pipeline
  <2>1. calls \in Seq(CallType) /\ calls' \in Seq(CallType)  BY <1>1 DEF Inv, TypeOK
  <2>2. Len(calls') >= Len(calls)  BY <1>3, <2>1, LenProperties
  <2> QED  BY <1>1, <1>3, <2>2, FlushDiscipline
<1>4. Attached'  BY DEF DisciplineInv, Discipline
<1>5. CASE ignored
  BY <1>5, QuietMatching DEF ignored, channelVars
<1>6. CASE reportReady
  <2>1. /\ Receive("reportReady") /\ linked /\ flush
        /\ UNCHANGED <<linked, chain, active, calls, conn, server>>
        /\ state' = IF state = "connected" THEN "ready" ELSE state
    BY <1>6 DEF reportReady
  <2>2. /\ Replies(Head(toClient)) /\ Head(toClient).id = 0 /\ toClient # <<>> /\ toClient' = Tail(toClient)
        /\ active = 0 /\ conn # "closed"
    BY <1>1, <2>1, ReceivedReply
  <2>3. Pipeline' = Pipeline  BY <1>3, <1>4, <2>1, <2>2
  <2> QED  BY <2>1, <2>2, <2>3, ReadyMatching
<1>7. CASE reportSuccess \/ reportClosed
  <2> DEFINE r == Head(toClient).id
  <2>1. /\ Receive("reportSuccess") \/ Receive("reportClosed")
        /\ linked /\ UNCHANGED <<conn, server>>
        /\ \/ resolveOldest(r) /\ UNCHANGED <<linked, chain>> /\ state' \in {state, "closed"}
           \/ chain = <<>>
    BY <1>7 DEF reportSuccess, reportClosed
  <2>2. /\ Replies(Head(toClient)) /\ r # 0 /\ Head(toClient) \in Range(toClient)
        /\ toClient # <<>> /\ toClient' = Tail(toClient) /\ active = 0 /\ conn # "closed"
    BY <1>1, <2>1, ReceivedReply
  <2>3. r \in Nat  BY <1>1, <2>2, WireTypes DEF Inv
  <2>4. r > 0  BY <2>2, <2>3
  <2>5. chain # <<>>  BY <2>1, <2>2, <2>4, ReplyIsForOldest
  <2>6. flush /\ DOMAIN calls' = DOMAIN calls  BY <2>1, <2>5 DEF resolveOldest
  <2>7. Pipeline' = Pipeline  BY <1>3, <1>4, <2>1, <2>2, <2>5, <2>6
  <2> QED  BY <1>1, <2>1, <2>2, <2>4, <2>5, <2>7, ResolveMatching
<1>8. CASE callbackReturns
  <2>1. active # 0 /\ active' = 0 /\ UNCHANGED <<conn, toServer, toClient, server>>
    BY <1>8 DEF callbackReturns, wireVars
  <2>2. CASE /\ chain' = IF chain # <<>> /\ Head(chain) = active THEN Tail(chain) ELSE <<>>
             /\ UNCHANGED <<state, linked, synchronous, queue, calls>>
    BY <2>1, <2>2, ReturnMatching
  <2>3. CASE \E rest : reportError(rest)
    <3>1. PICK rest : reportError(rest)  BY <2>3
    <3>2. ~linked' /\ chain' = <<>> /\ calls' = Failed(calls, ChainIds(rest))  BY <3>1 DEF reportError
    <3> QED  BY <1>1, <3>2, FailMatching
  <2> QED  BY <1>8, <2>2, <2>3 DEF callbackReturns
<1>9. CASE channelClose
  <2>1. CASE reportError(chain)
    <3>1. ~linked' /\ chain' = <<>> /\ calls' = Failed(calls, ChainIds(chain))  BY <2>1 DEF reportError
    <3> QED  BY <1>1, <3>1, FailMatching
  <2>2. CASE ~linked /\ UNCHANGED <<state, linked, synchronous, queue, chain, calls>>
    <3>1. UNCHANGED active  BY <1>9 DEF channelClose
    <3>2. ChainOrder' /\ AnswersMatch'
      BY <2>2, <3>1 DEF MatchInv, Matching, ChainOrder, AnswersMatch
    <3> QED  BY <2>2, <3>2 DEF Matching, ServerKnown, Matched
  <2> QED  BY <1>9, <2>1, <2>2 DEF channelClose
<1> QED  BY <1>2, <1>5, <1>6, <1>7, <1>8, <1>9 DEF Library

(* The connection.                                                          *)
LEMMA ConnectionMatching ==
    ASSUME MatchInv, DisciplineInv', Connection
    PROVE  Matching'
<1>1. Inv' /\ Inv  BY DEF MatchInv, DisciplineInv, OrderInv
<1>2. CASE connectionClose
  <2>1. /\ linked /\ conn = "connected" /\ conn' # "connected"
        /\ UNCHANGED <<linked, synchronous, active, toClient, toServer, server>>
    BY <1>2 DEF connectionClose, wireVars
  <2>2. state # "unattached"  BY <1>1, <2>1 DEF Inv, Settling
  <2>3. PICK ok \in BOOLEAN :
           /\ push("ChannelClose", ok)
           /\ \/ ~usable /\ ok = (state # "closing") /\ UNCHANGED <<state, queue>>
              \/ usable /\ ~waiting /\ ~ok /\ UNCHANGED <<state, queue>>
              \/ /\ usable /\ waiting /\ ok /\ state' = "closing"
                 /\ queue' = Append(queue, Frame("ChannelClose", Len(calls) + 1, FALSE))
    <3>1. CASE ~usable /\ push("ChannelClose", state # "closing") /\ UNCHANGED <<state, queue>>
      BY <3>1
    <3>2. CASE usable /\ ~waiting /\ push("ChannelClose", FALSE) /\ UNCHANGED <<state, queue>>
      BY <3>2
    <3>3. CASE /\ usable /\ waiting /\ push("ChannelClose", TRUE) /\ state' = "closing"
               /\ queue' = Append(queue, Frame("ChannelClose", Len(calls) + 1, FALSE))
      BY <3>3
    <3> QED  BY <1>2, <3>1, <3>2, <3>3 DEF connectionClose
  <2> QED  BY <2>1, <2>2, <2>3, CloseMatching
<1>3. CASE connectionSendClose \/ connectionClosed
  BY <1>3, QuietMatching DEF connectionSendClose, connectionClosed, channelVars, wireVars
<1>4. CASE connectionFail
  <2>1. CASE reportError(chain)
    <3>1. ~linked' /\ chain' = <<>> /\ calls' = Failed(calls, ChainIds(chain))  BY <2>1 DEF reportError
    <3> QED  BY <1>1, <3>1, FailMatching
  <2>2. CASE ~linked /\ UNCHANGED <<state, linked, synchronous, queue, chain, calls>>
    <3>1. UNCHANGED <<active, toServer, toClient, server>> /\ conn' # "connected"
      BY <1>4 DEF connectionFail, wireVars
    <3> QED  BY <2>2, <3>1, QuietMatching
  <2> QED  BY <1>4, <2>1, <2>2 DEF connectionFail
<1> QED  BY <1>2, <1>3, <1>4 DEF Connection

(* What the application's calls are.                                        *)
LEMMA ApplicationCalls ==
    ASSUME Application
    PROVE  \/ attach \/ close \/ publish
           \/ \E kind : kind \notin Plain /\ Request(kind)
           \/ \E kind \in {"BasicAck", "BasicReject", "BasicNack"} : Notify(kind)
<1>1. CASE ack \/ reject
  <2>1. \E kind \in {"BasicAck", "BasicReject", "BasicNack"} : Notify(kind)  BY <1>1 DEF ack, reject
  <2> QED  BY <2>1
<1>2. CASE ~(ack \/ reject \/ attach \/ close \/ publish)
  <2>1. \E kind : kind \notin Plain /\ Request(kind)
    BY <1>2 DEF Application, get, recover, pause, resume, confirmSelect,
         startTransaction, commitTransaction, rollbackTransaction, declareExchange, bindExchange,
         unbindExchange, removeExchange, declareQueue, bindQueue, unbindQueue, purgeQueue,
         removeQueue, setQos, consume, cancel, Plain
  <2> QED  BY <2>1
<1> QED  BY <1>1, <1>2

(* The initial state.                                                       *)
LEMMA InitMatching == Orderly /\ Init => MatchInv
<1> SUFFICES ASSUME Orderly, Init PROVE MatchInv  OBVIOUS
<1>1. DisciplineInv  BY InitDiscipline
<1>2. chain = <<>> /\ calls = <<>> /\ ~linked  BY DEF Init
<1>3. Range(chain) = {} /\ Len(chain) = 0 /\ Len(calls) = 0  BY <1>2, EmptySeq DEF Range
<1>4. Matching  BY <1>2, <1>3 DEF Matching, ChainOrder, ServerKnown, Matched, AnswersMatch
<1> QED  BY <1>1, <1>4 DEF MatchInv

(* Every step keeps the matching.                                           *)
LEMMA NextMatching == MatchInv /\ [Next]_vars => MatchInv'
<1> SUFFICES ASSUME MatchInv, [Next]_vars PROVE MatchInv'  OBVIOUS
<1>1. DisciplineInv'  BY NextDiscipline DEF MatchInv
<1> SUFFICES Matching'  BY <1>1 DEF MatchInv
<1>2. CASE Application
  <2>1. CASE close
    <3>1. state # "unattached" /\ UNCHANGED <<linked, active, conn, toClient, server>> /\ closeChannel
      BY <2>1 DEF close, MayCall
    <3>2. CASE ~usable
      <4>1. push("ChannelClose", state # "closing") /\ UNCHANGED <<state, queue, synchronous, toServer>>
        BY <3>1, <3>2 DEF closeChannel
      <4>2. PICK ok \in BOOLEAN : push("ChannelClose", ok) /\ ok = (state # "closing")  BY <4>1
      <4> QED  BY <1>1, <3>1, <3>2, <4>1, <4>2, CloseMatching
    <3>3. CASE usable
      <4>1. PICK ok \in BOOLEAN :
               /\ send(Frame("ChannelClose", Len(calls) + 1, FALSE), ok)
               /\ push("ChannelClose", ok)
               /\ state' = IF ok THEN "closing" ELSE state
        BY <3>1, <3>3 DEF closeChannel
      <4> QED  BY <1>1, <3>1, <3>3, <4>1, CloseMatching
    <3> QED  BY <3>2, <3>3
  <2> QED  BY <1>1, <1>2, <2>1, ApplicationCalls, AttachMatching, PublishMatching, RequestMatching, NotifyMatching
<1>3. CASE UNCHANGED vars
  BY <1>3, QuietMatching DEF vars, channelVars, wireVars
<1>4. CASE Server  BY <1>1, <1>4, ServerReceiveMatching, ServerRaisesMatching DEF Server
<1> QED  BY <1>1, <1>2, <1>3, <1>4, LibraryMatching, ConnectionMatching DEF Next

(* Questions, replies and deferreds match in every reachable state.         *)
THEOREM RepliesFindTheirCall == Orderly /\ Spec => []MatchInv
BY InitMatching, NextMatching, PTL DEF Spec

(* ChannelImpl::reportSuccess resolves a deferred with the answer to its    *)
(* own call, whatever the calls, the callbacks, the errors of the server    *)
(* and the loss or the close of the connection, for every Orderly           *)
(* application.                                                             *)
THEOREM AnswersAreTheRightOnes == Orderly /\ Spec => []AnswersMatch
<1>1. MatchInv => AnswersMatch  BY DEF MatchInv, Matching
<1> QED  BY <1>1, RepliesFindTheirCall, PTL

-----------------------------------------------------------------------------
(* Outcomes are final.                                                      *)
OutcomesKept ==
    \A n \in 1..Len(calls) :
        calls[n].result \in {"success", "error"} => calls'[n].result = calls[n].result

(* reportError() leaves the deferred alone that was just resolved.          *)
LEMMA FailKeepsOutcomes ==
    ASSUME Inv, NEW rest \in Seq(Nat), reportError(rest),
           \A n \in Range(rest) : calls[n].result # "success"
    PROVE  OutcomesKept
<1>1. calls \in Seq(CallType)  BY DEF Inv, TypeOK
<1>2. /\ DOMAIN calls = 1..Len(calls) /\ Len(calls) \in Nat
      /\ \A n \in 1..Len(calls) : calls[n] \in CallType
  BY <1>1, LenProperties, ElementOfSeq
<1>3. ChainIds(rest) = Range(rest)  BY DEF ChainIds, Range
<1>4. \A n \in 1..Len(calls) :
         calls'[n] = IF n \in Range(rest) THEN [calls[n] EXCEPT !.result = "error"] ELSE calls[n]
  BY <1>2, <1>3 DEF reportError, Failed
<1> SUFFICES ASSUME NEW n \in 1..Len(calls), calls[n].result \in {"success", "error"}
             PROVE  calls'[n].result = calls[n].result
  BY DEF OutcomesKept
<1>5. CASE n \in Range(rest)
  <2>1. calls[n].result = "error"  BY <1>5
  <2>2. calls'[n].result = "error"  BY <1>2, <1>4, <1>5 DEF CallType
  <2> QED  BY <2>1, <2>2
<1>6. CASE n \notin Range(rest)  BY <1>4, <1>6
<1> QED  BY <1>5, <1>6

(* A new call leaves the others alone.                                      *)
LEMMA CallKeepsOutcomes ==
    ASSUME Inv, NEW c, calls' = Append(calls, c)
    PROVE  OutcomesKept
<1>1. calls \in Seq(CallType)  BY DEF Inv, TypeOK
<1>2. calls \in Seq(CallType \union {c})  BY <1>1, SeqMonotonic
<1>3. \A n \in 1..Len(calls) : calls'[n] = calls[n]  BY <1>2, AppendProperties
<1> QED  BY <1>3 DEF OutcomesKept

(* No step changes an outcome.                                              *)
LEMMA StepKeepsOutcomes ==
    ASSUME MatchInv, Next
    PROVE  OutcomesKept
<1>1. DisciplineInv /\ Inv /\ ChainOrder  BY DEF MatchInv, Matching, DisciplineInv, OrderInv
<1>2. chain \in Seq(Nat) /\ \A n \in Range(chain) : n # 0  BY <1>1, ChainTypes
<1>3. CASE UNCHANGED calls  BY <1>3 DEF OutcomesKept
<1>4. CASE Application
  <2>1. UNCHANGED calls \/ \E c : calls' = Append(calls, c)
    BY <1>4, ApplicationCalls DEF attach, close, closeChannel, publish, Request, Notify, push
  <2> QED  BY <1>1, <1>3, <2>1, CallKeepsOutcomes
<1>5. ASSUME active = 0, reportError(chain) PROVE OutcomesKept
  <2>1. \A n \in Range(chain) : calls[n].result # "success"  BY <1>1, <1>2, <1>5 DEF ChainOrder
  <2> QED  BY <1>1, <1>2, <1>5, <2>1, FailKeepsOutcomes
<1>6. CASE Connection
  <2>1. CASE connectionClose
    <3>1. \E c : calls' = Append(calls, c)  BY <2>1 DEF connectionClose, push
    <3> QED  BY <1>1, <3>1, CallKeepsOutcomes
  <2>2. CASE connectionSendClose \/ connectionClosed
    BY <1>3, <2>2 DEF connectionSendClose, connectionClosed
  <2>3. CASE connectionFail
    <3>1. active = 0  BY <1>1, <2>3 DEF connectionFail, DisciplineInv, Orderly
    <3> QED  BY <1>3, <1>5, <2>3, <3>1 DEF connectionFail
  <2> QED  BY <1>6, <2>1, <2>2, <2>3 DEF Connection
<1>7. CASE Server  BY <1>3, <1>7 DEF Server, serverReceive, serverRaises
<1>8. CASE Library
  <2>1. ~header /\ ~body /\ ~getOK
    BY <1>1, ReceivedReply DEF header, body, content, getOK
  <2>2. CASE ignored \/ reportReady  BY <1>3, <2>2 DEF ignored, reportReady
  <2>3. CASE reportSuccess \/ reportClosed
    <3> DEFINE r == Head(toClient).id
    <3>1. /\ Receive("reportSuccess") \/ Receive("reportClosed")
          /\ linked
          /\ resolveOldest(r) \/ chain = <<>>
      BY <2>3 DEF reportSuccess, reportClosed
    <3>2. /\ Replies(Head(toClient)) /\ r # 0 /\ Head(toClient) \in Range(toClient)
          /\ toClient # <<>> /\ active = 0
      BY <1>1, <3>1, ReceivedReply
    <3>3. r \in Nat  BY <1>1, <3>2, WireTypes DEF Inv
    <3>4. chain # <<>> /\ Head(chain) = r /\ Pending(r)  BY <3>1, <3>2, <3>3, ReplyIsForOldest
    <3>5. calls' = [calls EXCEPT ![r].result = "success", ![r].by = r]  BY <3>1, <3>4 DEF resolveOldest
    <3> HIDE DEF r
    <3>6. \A n \in 1..Len(calls) : n # r => calls'[n] = calls[n]
      <4>1. DOMAIN calls = 1..Len(calls)  BY <1>1, LenProperties DEF Inv, TypeOK
      <4> QED  BY <3>5, <4>1
    <3> QED  BY <3>4, <3>6 DEF OutcomesKept, Pending
  <2>4. CASE callbackReturns
    <3>1. CASE UNCHANGED calls  BY <1>3, <3>1
    <3>2. CASE ~UNCHANGED calls
      <4> DEFINE rest == IF chain # <<>> /\ Head(chain) = active THEN Tail(chain) ELSE <<>>
      <4>1. reportError(rest)  BY <2>4, <3>2 DEF callbackReturns
      <4>2. rest \in Seq(Nat) /\ \A n \in Range(rest) : calls[n].result # "success"
        <5>1. CASE chain # <<>> /\ Head(chain) = active
          <6>1. Tail(chain) \in Seq(Nat)  BY <1>2, <5>1, HeadTailProperties
          <6>2. /\ Range(chain) = {active} \union Range(Tail(chain))
                /\ \A n \in Range(Tail(chain)) : active < n
            BY <1>1, <5>1, OldestFirst
          <6>3. \A n \in Range(chain) : n \in Nat  BY <1>1, ChainTypes
          <6>4. \A n \in Range(Tail(chain)) : n # active /\ n \in Range(chain)  BY <6>2, <6>3
          <6>5. \A n \in Range(Tail(chain)) : calls[n].result # "success"  BY <1>1, <6>4 DEF ChainOrder
          <6> QED  BY <5>1, <6>1, <6>5
        <5>2. CASE ~(chain # <<>> /\ Head(chain) = active)
          <6>1. rest = <<>>  BY <5>2
          <6> HIDE DEF rest
          <6> QED  BY <6>1, EmptySeq DEF Range
        <5> QED  BY <5>1, <5>2
      <4> HIDE DEF rest
      <4> QED  BY <1>1, <4>1, <4>2, FailKeepsOutcomes
    <3> QED  BY <3>1, <3>2
  <2>5. CASE channelClose
    <3>1. active = 0  BY <2>5 DEF channelClose, Receive
    <3> QED  BY <1>3, <1>5, <2>5, <3>1 DEF channelClose
  <2> QED  BY <1>8, <2>1, <2>2, <2>3, <2>4, <2>5 DEF Library
<1> QED  BY <1>4, <1>6, <1>7, <1>8 DEF Next

(* A deferred that was resolved keeps its outcome: neither reportSuccess    *)
(* nor reportError reaches it again, for every Orderly application.         *)
THEOREM OutcomesAreFinal == Orderly /\ Spec => ResolvedOnce
<1>1. MatchInv /\ [Next]_vars =>
        [\A n \in 1..Len(calls) :
            calls[n].result \in {"success", "error"} => calls'[n].result = calls[n].result]_vars
  BY StepKeepsOutcomes DEF OutcomesKept
<1> QED  BY <1>1, RepliesFindTheirCall, PTL DEF Spec, ResolvedOnce
=============================================================================
