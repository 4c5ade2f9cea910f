-------------------------------- MODULE Wire --------------------------------
(***************************************************************************)
(* The receiving half of a connection, from the bytes on the socket to the *)
(* frame object that is processed.                                         *)
(*                                                                         *)
(* A peer sends frames; the network hands their bytes over in chunks of    *)
(* any size.  TcpConnected::process reads no more bytes than the library   *)
(* expects (TcpInBuffer::receivefrom), passes its buffer to                *)
(* ConnectionImpl::parse, and shrinks it by the number of processed bytes. *)
(* Without tcp an application does the same with the plain Connection      *)
(* class: it reads what there is and keeps the bytes that were not         *)
(* processed.  parse() recognises frames with ReceivedFrame, dispatches    *)
(* them by number, and computes how many bytes it wants next.              *)
(*                                                                         *)
(* A byte is its offset in the part of the stream that is not yet          *)
(* processed, so a buffer that lost or kept a byte too many shows.  The    *)
(* peer lays out a frame as fill() of its class does and announces the     *)
(* payload size that the constructor of its class computes.                *)
(***************************************************************************)
EXTENDS Frames, Integers, FiniteSets

CONSTANT Setups     \* the circumstances in which a connection may start

WireKinds == Kinds \ {"ProtocolHeader", "ExchangeDeclareNoWait"}

(* In a setup, tcp says who reads: TcpConnected, or an application.  kinds  *)
(* are the kinds of frame that the peer sends, lengths those of their       *)
(* variable fields, initial is _maxFrame and the size of TcpInBuffer at     *)
(* first (4096), limits are the frame sizes that the peer may propose in    *)
(* connection.tune, and unread bounds the frames sent and not yet processed. *)
ASSUME WireAssumption ==
    \A s \in Setups :
        /\ s.tcp \in BOOLEAN
        /\ s.kinds \subseteq WireKinds /\ s.lengths \subseteq Nat
        /\ s.initial \in Nat /\ s.initial >= 20
        /\ s.limits \subseteq Nat /\ \A m \in s.limits : m >= 8
        /\ s.unread \in Nat \ {0}

VARIABLES
    setup,      \* one of the Setups, which does not change
    stream,     \* frames sent and not yet processed, oldest first
    taken,      \* bytes of the stream that were read from the socket
    data,       \* the buffer: the offsets of the bytes it holds
    expected,   \* ConnectionImpl::_expected
    maxFrame,   \* ConnectionImpl::_maxFrame
    allocated,  \* bytes that TcpInBuffer can hold
    peerMax,    \* the largest frame that the peer may send
    parsing,    \* a call of parse() is under way
    processed,  \* bytes that the last call of parse() processed
    delivered,  \* kinds of frame that the last call of parse() processed
    failure     \* why the connection ended, or "none"

vars == <<setup, stream, taken, data, expected, maxFrame, allocated, peerMax,
          parsing, processed, delivered, failure>>

-----------------------------------------------------------------------------
(* Frames as bytes.                                                         *)

(* What a field takes when its value has length n.  The size() of a table   *)
(* counts its own length prefix (4), that of meta data its flags (2).       *)
Width(field, n) ==
    CASE field \in {"octet", "bits", "empty"} -> 1
      [] field = "short" -> 2
      [] field \in {"long", "emptylong"} -> 4
      [] field = "longlong" -> 8
      [] field = "shortstr" -> 1 + n
      [] field \in {"longstr", "table"} -> 4 + n
      [] field = "metadata" -> 2 + n
      [] field = "data" -> n

(* The bytes that fill() writes for the fields of a frame.                  *)
fill(kind, n) ==
    LET fields == Catalogue[kind].fields
        sum[i \in 0..Len(fields)] == IF i = 0 THEN 0 ELSE sum[i - 1] + Width(fields[i], n)
    IN  sum[Len(fields)]

(* Seeded fault: the length prefix of a table is not counted.               *)
payloadSizeBare(kind, n) == Catalogue[kind].fixed + Catalogue[kind].operands * n

(* The payload size that the constructor announces: a constant, plus the    *)
(* length or size() of each operand.                                        *)
payloadSize(kind, n) ==
    LET frame == Catalogue[kind]
        own(field, m) == m * Cardinality({i \in DOMAIN frame.fields : frame.fields[i] = field})
    IN  frame.fixed + frame.operands * n + own("table", 4) + own("metadata", 2)

(* ExtFrame::headerSize, trailerSize and totalSize.                         *)
headerSize == 7
trailerSize == 1

(* Seeded fault: the end-of-frame byte is not part of the frame.            *)
totalSizeOpen(f) == f.announced + headerSize
totalSize(f) == f.announced + headerSize + trailerSize

(* A frame as it is sent: the payload size in its header, and the payload   *)
(* bytes that follow.  A frame without variable fields has one form, a tune *)
(* frame one for each limit that it proposes.                               *)
Form(k, n, m) ==
    [kind |-> k, announced |-> payloadSize(k, n), written |-> fill(k, n),
     max |-> IF k = "ConnectionTune" THEN m ELSE 0]
FrameForms ==
    UNION {{Form(k, n, m) : n \in IF Catalogue[k].operands = 0 THEN {0} ELSE setup.lengths,
                            m \in setup.limits} : k \in setup.kinds}

SizeOf(f) == headerSize + f.written + trailerSize

(* The offset of the last byte of the i-th frame of a stream.               *)
EndOf(frames, i) ==
    LET end[j \in 0..i] == IF j = 0 THEN 0 ELSE end[j - 1] + SizeOf(frames[j])
    IN  end[i]

(* Seeded fault: one label of the table is wrong.                           *)
processQueueFrameSwapped(method) ==
    CASE method = 10 -> "QueueDeclare" [] method = 11 -> "QueueDeclareOK"
      [] method = 20 -> "QueueBind" [] method = 21 -> "QueueBindOK" [] method = 30 -> "QueuePurge"
      [] method = 31 -> "QueuePurgeOK" [] method = 40 -> "QueueDelete"
      [] method = 41 -> "QueueDeleteOK" [] method = 50 -> "QueueUnbind"
      [] method = 51 -> "QueueBindOK" [] OTHER -> "unrecognized"

-----------------------------------------------------------------------------
(* ReceivedFrame::process and the tables under it.                          *)

processConnectionFrame(method) ==
    CASE method = 10 -> "ConnectionStart" [] method = 11 -> "ConnectionStartOK"
      [] method = 20 -> "ConnectionSecure" [] method = 21 -> "ConnectionSecureOK"
      [] method = 30 -> "ConnectionTune" [] method = 31 -> "ConnectionTuneOK"
      [] method = 40 -> "ConnectionOpen" [] method = 41 -> "ConnectionOpenOK"
      [] method = 50 -> "ConnectionClose" [] method = 51 -> "ConnectionCloseOK"
      [] method = 60 -> "ConnectionBlock" [] method = 61 -> "ConnectionUnblock"
      [] OTHER -> "unrecognized"
processChannelFrame(method) ==
    CASE method = 10 -> "ChannelOpen" [] method = 11 -> "ChannelOpenOK"
      [] method = 20 -> "ChannelFlow" [] method = 21 -> "ChannelFlowOK"
      [] method = 40 -> "ChannelClose" [] method = 41 -> "ChannelCloseOK"
      [] OTHER -> "unrecognized"
processExchangeFrame(method) ==
    CASE method = 10 -> "ExchangeDeclare" [] method = 11 -> "ExchangeDeclareOK"
      [] method = 20 -> "ExchangeDelete" [] method = 21 -> "ExchangeDeleteOK"
      [] method = 30 -> "ExchangeBind" [] method = 31 -> "ExchangeBindOK"
      [] method = 40 -> "ExchangeUnbind" [] method = 51 -> "ExchangeUnbindOK"
      [] OTHER -> "unrecognized"
processQueueFrame(method) ==
    CASE method = 10 -> "QueueDeclare" [] method = 11 -> "QueueDeclareOK"
      [] method = 20 -> "QueueBind" [] method = 21 -> "QueueBindOK" [] method = 30 -> "QueuePurge"
      [] method = 31 -> "QueuePurgeOK" [] method = 40 -> "QueueDelete"
      [] method = 41 -> "QueueDeleteOK" [] method = 50 -> "QueueUnbind"
      [] method = 51 -> "QueueUnbindOK" [] OTHER -> "unrecognized"
processBasicFrame(method) ==
    CASE method = 10 -> "BasicQos" [] method = 11 -> "BasicQosOK" [] method = 20 -> "BasicConsume"
      [] method = 21 -> "BasicConsumeOK" [] method = 30 -> "BasicCancel"
      [] method = 31 -> "BasicCancelOK" [] method = 40 -> "BasicPublish"
      [] method = 50 -> "BasicReturn" [] method = 60 -> "BasicDeliver"
      [] method = 70 -> "BasicGet" [] method = 71 -> "BasicGetOK"
      [] method = 72 -> "BasicGetEmpty" [] method = 80 -> "BasicAck"
      [] method = 90 -> "BasicReject" [] method = 100 -> "BasicRecoverAsync"
      [] method = 110 -> "BasicRecover" [] method = 111 -> "BasicRecoverOK"
      [] method = 120 -> "BasicNack" [] OTHER -> "unrecognized"
processConfirmFrame(method) ==
    CASE method = 10 -> "ConfirmSelect" [] method = 11 -> "ConfirmSelectOK"
      [] OTHER -> "unrecognized"
processTransactionFrame(method) ==
    CASE method = 10 -> "TransactionSelect" [] method = 11 -> "TransactionSelectOK"
      [] method = 20 -> "TransactionCommit" [] method = 21 -> "TransactionCommitOK"
      [] method = 30 -> "TransactionRollback" [] method = 31 -> "TransactionRollbackOK"
      [] OTHER -> "unrecognized"

processMethodFrame(class, method) ==
    CASE class = 10 -> processConnectionFrame(method)
      [] class = 20 -> processChannelFrame(method)
      [] class = 40 -> processExchangeFrame(method)
      [] class = 50 -> processQueueFrame(method)
      [] class = 60 -> processBasicFrame(method)
      [] class = 85 -> processConfirmFrame(method)
      [] class = 90 -> processTransactionFrame(method)
      [] OTHER -> "unrecognized"
processHeaderFrame(class) == IF class = 60 THEN "BasicHeader" ELSE "unrecognized"

(* The kind of frame object that is made from the numbers on the wire.      *)
process(type, class, method) ==
    CASE type = 1 -> processMethodFrame(class, method)
      [] type = 2 -> processHeaderFrame(class)
      [] type = 3 -> "Body"
      [] type \in {4, 8} -> "Heartbeat"
      [] OTHER -> "unrecognized"

-----------------------------------------------------------------------------
(* Reading: TcpConnected::process until it calls parse().                   *)

StreamLength == EndOf(stream, Len(stream))

(* Seeded fault: everything is read that fits the buffer.                   *)
receivefromGreedy == {n \in 1..(StreamLength - taken) : n <= allocated - Len(data)}

(* How many bytes TcpInBuffer::receivefrom reads: the socket can hold any   *)
(* part of what was sent, and no more than the library expects is read.     *)
receivefrom ==
    LET available == StreamLength - taken
        room == IF setup.tcp THEN expected - Len(data) ELSE available
    IN  {n \in 0..available : n <= room /\ (n = 0 => room = 0)}

(* The socket is readable.  A read that returns 0 is taken for the end of   *)
(* the file.                                                                *)
Receive ==
    /\ failure = "none" /\ ~ parsing
    /\ taken < StreamLength
    /\ \E n \in receivefrom :
          /\ data' = data \o [k \in 1..n |-> taken + k]
          /\ taken' = taken + n
          /\ parsing' = (n > 0)
          /\ failure' = IF n = 0 THEN "connection lost" ELSE failure
    /\ processed' = 0 /\ delivered' = <<>>
    /\ UNCHANGED <<setup, stream, expected, maxFrame, allocated, peerMax>>

-----------------------------------------------------------------------------
(* ConnectionImpl::parse: ReceivedFrame looks at the rest of the buffer.    *)

Unprocessed == SubSeq(data, processed + 1, Len(data))

(* Seeded fault: seven bytes are not yet a header.                          *)
headerLate(bytes) == Len(bytes) > headerSize

(* ReceivedFrame::header and ReceivedFrame::complete: how much is there?    *)
header(bytes) == Len(bytes) >= headerSize
complete(bytes, f) == Len(bytes) >= f.announced + 8

(* Seeded fault: the largest frame is refused.                              *)
exceededAtLimit(f) == maxFrame > 0 /\ f.announced >= maxFrame - 8
exceeded(f) == maxFrame > 0 /\ f.announced > maxFrame - 8

(* The frame whose first bytes these are; none if the bytes do not start    *)
(* where a frame starts, and then they make no sense.                       *)
FramesAt(bytes) ==
    {i \in DOMAIN stream : \A k \in 1..headerSize : bytes[k] = EndOf(stream, i - 1) + k}

(* The constructor of ReceivedFrame: the index of a complete frame in the   *)
(* stream, or what is wrong, or how many bytes parse() will expect.         *)
Found(i) == [index |-> i, wrong |-> "none", want |-> 0]
Wrong(message) == [index |-> 0, wrong |-> message, want |-> 0]
Partial(n) == [index |-> 0, wrong |-> "none", want |-> n]
ReceivedFrame(bytes) ==
    IF ~ header(bytes) THEN Partial(7)
    ELSE IF FramesAt(bytes) = {} THEN Wrong("garbage")
    ELSE LET i == CHOOSE i \in FramesAt(bytes) : TRUE
             f == stream[i]
         IN  CASE exceeded(f) -> Wrong("frame size exceeded")
               [] ~ exceeded(f) /\ ~ complete(bytes, f) -> Partial(totalSize(f))
               [] OTHER -> IF bytes[f.announced + 8] = EndOf(stream, i) THEN Found(i)
                           ELSE Wrong("invalid end of frame marker")

(* The frame object that process() of a complete frame makes, or why none.  *)
Recognized(f) ==
    LET frame == Catalogue[f.kind]
        kind == process(frame.type, frame.class, frame.method)
    IN  IF kind = "unrecognized" THEN Wrong(kind)
        ELSE IF Catalogue[kind].process = "unimplemented" THEN Wrong("unimplemented frame")
        ELSE [wrong |-> "none", kind |-> kind]

(* TcpInBuffer::shrink forgets the bytes at the end of the buffer; an       *)
(* application drops the bytes that were processed.                         *)
shrink ==
    IF setup.tcp THEN SubSeq(data, 1, Len(data) - processed)
           ELSE SubSeq(data, processed + 1, Len(data))

(* Seeded fault: the buffer keeps its size.                                 *)
reallocateNever == allocated

(* TcpConnected::maxframe leaves an instruction that process() carries out  *)
(* after parsing; zero is no instruction.                                   *)
reallocate ==
    IF setup.tcp /\ maxFrame > 0 /\ \E i \in DOMAIN delivered : delivered[i] = "ConnectionTune"
    THEN maxFrame ELSE allocated

(* parse() returns.  Offsets are counted anew from the end of the last      *)
(* frame that was processed.                                                *)
Return ==
    LET used == EndOf(stream, Len(delivered))
    IN  /\ parsing' = FALSE
        /\ stream' = SubSeq(stream, Len(delivered) + 1, Len(stream))
        /\ taken' = taken - used
        /\ data' = [k \in DOMAIN shrink |-> shrink[k] - used]
        /\ allocated' = reallocate
        /\ UNCHANGED <<setup, processed, delivered, maxFrame, peerMax>>

(* A complete frame: process it; connection.tune changes the limit, for the *)
(* frames behind it in the same buffer too.                                 *)
ProcessFrame ==
    /\ parsing /\ processed < Len(data)
    /\ LET r == ReceivedFrame(Unprocessed)
           f == stream[r.index]
           known == Recognized(f)
       IN  /\ r.index > 0 /\ known.wrong = "none"
           /\ processed' = processed + totalSize(f)
           /\ delivered' = Append(delivered, known.kind)
           /\ maxFrame' = IF known.kind = "ConnectionTune" THEN f.max ELSE maxFrame
    /\ UNCHANGED <<setup, stream, taken, data, expected, allocated, peerMax, parsing, failure>>

(* A part of a frame: parse() says how much it needs.                       *)
NeedMore ==
    /\ parsing /\ processed < Len(data)
    /\ LET r == ReceivedFrame(Unprocessed)
       IN  /\ r.index = 0 /\ r.wrong = "none"
           /\ expected' = r.want
    /\ Return
    /\ UNCHANGED failure

(* A ProtocolException, from ReceivedFrame or from process(), is reported   *)
(* to the handler, which gives the socket up: the model ends here.          *)
Raise ==
    /\ parsing /\ processed < Len(data)
    /\ LET r == ReceivedFrame(Unprocessed)
           wrong == IF r.index > 0 THEN Recognized(stream[r.index]).wrong ELSE r.wrong
       IN  /\ wrong # "none"
           /\ failure' = wrong
    /\ Return
    /\ UNCHANGED expected

(* The entire buffer has been processed.  (The close frame that parse() may *)
(* send at this point is in Channel, as connectionSendClose.)               *)
AllProcessed ==
    /\ parsing /\ processed >= Len(data)
    /\ expected' = 7
    /\ Return
    /\ UNCHANGED failure

-----------------------------------------------------------------------------
(* The peer sends a frame that is not larger than it may be.  It proposes a *)
(* new limit at most once.                                                  *)
Send(f) ==
    /\ Len(stream) < setup.unread
    /\ SizeOf(f) <= peerMax
    /\ f.kind = "ConnectionTune" => peerMax = setup.initial
    /\ stream' = Append(stream, f)
    /\ peerMax' = IF f.kind = "ConnectionTune" THEN f.max ELSE peerMax
    /\ UNCHANGED <<setup, taken, data, expected, maxFrame, allocated, parsing, processed, delivered,
                   failure>>

Init ==
    /\ setup \in Setups
    /\ stream = <<>> /\ taken = 0 /\ data = <<>> /\ expected = 7
    /\ maxFrame = setup.initial /\ allocated = setup.initial /\ peerMax = setup.initial
    /\ parsing = FALSE /\ processed = 0 /\ delivered = <<>> /\ failure = "none"

Step == Receive \/ ProcessFrame \/ NeedMore \/ Raise \/ AllProcessed
Next == (\E f \in FrameForms : Send(f)) \/ Step

(* The event loop reports a readable socket until it is read, and a call of *)
(* parse() returns.                                                         *)
Spec == Init /\ [][Next]_vars /\ WF_vars(Step)

-----------------------------------------------------------------------------
(* Properties.                                                              *)

(* The buffer holds exactly the bytes that were read and not yet processed, *)
(* in order.  TcpInBuffer::shrink does not move bytes to the front: this    *)
(* needs that parse() processes all of the buffer or nothing of it, however *)
(* the network cuts the stream.                                             *)
BufferIsTail == failure = "none" => data = [k \in 1..taken |-> k]

(* parse() never leaves _expected at a value that is already reached: the   *)
(* next read would ask for zero bytes, and its result 0 means end of file   *)
(* to TcpConnected::reportError.                                            *)
WantsMore == failure = "none" /\ ~ parsing => expected > Len(data)

(* What the library expects fits in TcpInBuffer, before and after the frame *)
(* size is negotiated (ConnectionImpl::_maxFrame and TcpConnected::         *)
(* _reallocate change at different moments).                                *)
ExpectedFits ==
    setup.tcp /\ failure = "none" /\ ~ parsing => expected <= allocated /\ Len(data) <= allocated

(* A peer that lays out and measures frames as these classes do, and that   *)
(* keeps to the negotiated size, is never accused of a protocol error; only *)
(* a frame that has no process() of its own ends the connection.            *)
NoFalseAlarm ==
    failure # "none" =>
        /\ failure = "unimplemented frame"
        /\ Catalogue[Head(stream).kind].process = "unimplemented"

(* parse() makes of the stream the frames that were sent, none skipped, none *)
(* twice, in the order of sending, each with the class it was sent as.      *)
FramesInOrder ==
    parsing => /\ Len(delivered) <= Len(stream)
               /\ \A i \in DOMAIN delivered : delivered[i] = stream[i].kind

Takes == Len(stream') < Len(stream)

(* The parser does not starve: while there are frames in the stream, calls  *)
(* of parse() keep taking frames from it, unless a frame that a server does *)
(* not send ended the connection.                                           *)
EveryFrameProcessed ==
    <>[](stream # <<>> /\ failure # "unimplemented frame") => []<><<Takes>>_vars
=============================================================================
