------------------------------- MODULE Frames -------------------------------
(***************************************************************************)
(* The catalogue of AMQP frame classes (src/src/...frame.h).  Every class    *)
(* is a record with                                                        *)
(*   type, class, method  the numbers that identify the frame on the wire, *)
(*   fields               what fill() writes after those numbers, in       *)
(*                        order; the constructor that takes a              *)
(*                        ReceivedFrame reads the same list,               *)
(*   fixed, operands      the size that the sending constructor hands to   *)
(*                        its base: a constant plus one length or size()   *)
(*                        per variable field,                              *)
(*   synchronous          the sender must wait for the answer,             *)
(*   handshake, shutdown  partOfHandshake() and partOfShutdown(),          *)
(*   process              what process() makes of a received frame;        *)
(*                        "unimplemented" throws a ProtocolException.      *)
(* Values of fields are abstracted to their lengths.                       *)
(***************************************************************************)
EXTENDS Naturals, Sequences

-----------------------------------------------------------------------------
(* The base classes: what a frame is unless its own class overrides it.     *)

(* ExtFrame: type, channel and payload size in front, a separator behind.   *)
ExtFrame(type, fields, fixed, operands) ==
    [type |-> type, class |-> 0, method |-> 0, fields |-> fields,
     fixed |-> fixed, operands |-> operands, synchronous |-> FALSE,
     handshake |-> FALSE, shutdown |-> FALSE, process |-> "unimplemented"]

(* MethodFrame: class and method id come first (4 bytes), and the frame is  *)
(* synchronous unless the class says otherwise.                             *)
MethodFrame(class, method, fields, fixed, operands) ==
    [ExtFrame(1, <<"short", "short">> \o fields, fixed + 4, operands)
        EXCEPT !.class = class, !.method = method, !.synchronous = TRUE]

(* HeaderFrame: the class id comes first (2 bytes).                         *)
HeaderFrame(class, fields, fixed, operands) ==
    [ExtFrame(2, <<"short">> \o fields, fixed + 2, operands) EXCEPT !.class = class]

ConnectionFrame(method, fields, fixed, operands) == MethodFrame(10, method, fields, fixed, operands)
ChannelFrame(method, fields, fixed, operands) == MethodFrame(20, method, fields, fixed, operands)
ExchangeFrame(method, fields, fixed, operands) == MethodFrame(40, method, fields, fixed, operands)
QueueFrame(method, fields, fixed, operands) == MethodFrame(50, method, fields, fixed, operands)
BasicFrame(method, fields, fixed, operands) == MethodFrame(60, method, fields, fixed, operands)
ConfirmFrame(method, fields, fixed, operands) == MethodFrame(85, method, fields, fixed, operands)
TransactionFrame(method, fields, fixed, operands) == MethodFrame(90, method, fields, fixed, operands)

Asynchronous(f) == [f EXCEPT !.synchronous = FALSE]
UnlessNoWait(f, noWait) == [f EXCEPT !.synchronous = ~noWait]
PartOfHandshake(f) == [f EXCEPT !.handshake = TRUE]
PartOfShutdown(f) == [f EXCEPT !.shutdown = TRUE]
Processed(f, handler) == [f EXCEPT !.process = handler]

-----------------------------------------------------------------------------
(* Connection class (10): handshake, tuning, shutdown.                      *)

(* not an ExtFrame (no type, channel, size or separator): type 0 says so    *)
ProtocolHeaderFrame ==
    PartOfHandshake(ExtFrame(0, <<"protocol", "octet", "octet", "octet">>, 8, 0))
ConnectionStartFrame ==
    Processed(ConnectionFrame(10, <<"octet", "octet", "table", "longstr", "longstr">>, 10, 3),
              "start")
ConnectionStartOKFrame ==
    PartOfHandshake(ConnectionFrame(11, <<"table", "shortstr", "longstr", "shortstr">>, 6, 4))
ConnectionSecureFrame == ConnectionFrame(20, <<"longstr">>, 4, 1)
ConnectionSecureOKFrame == ConnectionFrame(21, <<"longstr">>, 4, 1)
ConnectionTuneFrame == Processed(ConnectionFrame(30, <<"short", "long", "short">>, 8, 0), "tune")
ConnectionTuneOKFrame == PartOfHandshake(ConnectionFrame(31, <<"short", "long", "short">>, 8, 0))
(* the capabilities string is always empty, so its length is not an operand *)
ConnectionOpenFrame == PartOfHandshake(ConnectionFrame(40, <<"shortstr", "empty", "bits">>, 3, 1))
ConnectionOpenOKFrame == Processed(ConnectionFrame(41, <<"empty">>, 1, 0), "setReady")
ConnectionCloseFrame ==
    PartOfShutdown(Processed(ConnectionFrame(50, <<"short", "shortstr", "short", "short">>, 7, 1),
                             "connectionError"))
ConnectionCloseOKFrame == Processed(ConnectionFrame(51, <<>>, 0, 0), "connectionClosed")
ConnectionBlockFrame == Processed(ConnectionFrame(60, <<"shortstr">>, 1, 1), "reportBlocked")
ConnectionUnblockFrame == Processed(ConnectionFrame(61, <<>>, 0, 0), "reportUnblocked")

-----------------------------------------------------------------------------
(* Channel class (20).                                                      *)

ChannelOpenFrame == ChannelFrame(10, <<"empty">>, 1, 0)
ChannelOpenOKFrame == Processed(ChannelFrame(11, <<"emptylong">>, 4, 0), "reportReady")
ChannelFlowFrame == ChannelFrame(20, <<"bits">>, 1, 0)
ChannelFlowOKFrame == Processed(ChannelFrame(21, <<"bits">>, 1, 0), "reportSuccess")
ChannelCloseFrame ==
    Processed(ChannelFrame(40, <<"short", "shortstr", "short", "short">>, 7, 1), "reportError")
ChannelCloseOKFrame == Processed(ChannelFrame(41, <<>>, 0, 0), "reportClosed")

-----------------------------------------------------------------------------
(* Exchange class (40) and queue class (50).                                *)

ExchangeDeclareFrame(noWait) ==
    UnlessNoWait(ExchangeFrame(10, <<"short", "shortstr", "shortstr", "bits", "table">>, 5, 3), noWait)
ExchangeDeclareOKFrame == Processed(ExchangeFrame(11, <<>>, 0, 0), "reportSuccess")
ExchangeDeleteFrame(noWait) ==
    UnlessNoWait(ExchangeFrame(20, <<"short", "shortstr", "bits">>, 4, 1), noWait)
ExchangeDeleteOKFrame == Processed(ExchangeFrame(21, <<>>, 0, 0), "reportSuccess")
ExchangeBindFrame(noWait) ==
    UnlessNoWait(ExchangeFrame(30, <<"short", "shortstr", "shortstr", "shortstr", "bits", "table">>,
                               6, 4), noWait)
ExchangeBindOKFrame == Processed(ExchangeFrame(31, <<>>, 0, 0), "reportSuccess")
ExchangeUnbindFrame(noWait) ==
    UnlessNoWait(ExchangeFrame(40, <<"short", "shortstr", "shortstr", "shortstr", "bits", "table">>,
                               6, 4), noWait)
ExchangeUnbindOKFrame == Processed(ExchangeFrame(51, <<>>, 0, 0), "reportSuccess")

QueueDeclareFrame(noWait) ==
    UnlessNoWait(QueueFrame(10, <<"short", "shortstr", "bits", "table">>, 4, 2), noWait)
QueueDeclareOKFrame == Processed(QueueFrame(11, <<"shortstr", "long", "long">>, 9, 1), "reportSuccess")
QueueBindFrame(noWait) ==
    UnlessNoWait(QueueFrame(20, <<"short", "shortstr", "shortstr", "shortstr", "bits", "table">>,
                            6, 4), noWait)
QueueBindOKFrame == Processed(QueueFrame(21, <<>>, 0, 0), "reportSuccess")
QueuePurgeFrame(noWait) ==
    UnlessNoWait(QueueFrame(30, <<"short", "shortstr", "bits">>, 4, 1), noWait)
QueuePurgeOKFrame == Processed(QueueFrame(31, <<"long">>, 4, 0), "reportSuccess")
QueueDeleteFrame(noWait) ==
    UnlessNoWait(QueueFrame(40, <<"short", "shortstr", "bits">>, 4, 1), noWait)
QueueDeleteOKFrame == Processed(QueueFrame(41, <<"long">>, 4, 0), "reportSuccess")
QueueUnbindFrame ==
    QueueFrame(50, <<"short", "shortstr", "shortstr", "shortstr", "table">>, 5, 4)
QueueUnbindOKFrame == Processed(QueueFrame(51, <<>>, 0, 0), "reportSuccess")

-----------------------------------------------------------------------------
(* Basic class (60): messages.                                              *)

BasicQosFrame == BasicFrame(10, <<"long", "short", "bits">>, 7, 0)
BasicQosOKFrame == Processed(BasicFrame(11, <<>>, 0, 0), "reportSuccess")
BasicConsumeFrame(noWait) ==
    UnlessNoWait(BasicFrame(20, <<"short", "shortstr", "shortstr", "bits", "table">>, 5, 3), noWait)
BasicConsumeOKFrame == Processed(BasicFrame(21, <<"shortstr">>, 1, 1), "reportSuccess")
BasicCancelFrame(noWait) ==
    UnlessNoWait(Processed(BasicFrame(30, <<"shortstr", "bits">>, 2, 1), "reportCancelled"), noWait)
BasicCancelOKFrame == Processed(BasicFrame(31, <<"shortstr">>, 1, 1), "reportSuccess")
BasicPublishFrame == Asynchronous(BasicFrame(40, <<"short", "shortstr", "shortstr", "bits">>, 5, 2))
BasicReturnFrame ==
    Asynchronous(Processed(BasicFrame(50, <<"short", "shortstr", "shortstr", "shortstr">>, 5, 3),
                           "recall"))
BasicDeliverFrame ==
    Asynchronous(Processed(BasicFrame(60, <<"shortstr", "longlong", "bits", "shortstr", "shortstr">>,
                                      12, 3), "deliver"))
BasicGetFrame == BasicFrame(70, <<"short", "shortstr", "bits">>, 4, 1)
BasicGetOKFrame ==
    Processed(BasicFrame(71, <<"longlong", "bits", "shortstr", "shortstr", "long">>, 15, 2), "getOK")
BasicGetEmptyFrame == Processed(BasicFrame(72, <<"empty">>, 1, 0), "reportSuccess")
BasicAckFrame == Asynchronous(Processed(BasicFrame(80, <<"longlong", "bits">>, 9, 0), "confirm"))
BasicRejectFrame == Asynchronous(BasicFrame(90, <<"longlong", "bits">>, 9, 0))
BasicRecoverAsyncFrame == Asynchronous(BasicFrame(100, <<"bits">>, 1, 0))
BasicRecoverFrame == Asynchronous(BasicFrame(110, <<"bits">>, 1, 0))
BasicRecoverOKFrame == Processed(BasicFrame(111, <<>>, 0, 0), "reportSuccess")
(* the class does not override synchronous(), so a nack is "synchronous"    *)
BasicNackFrame == Processed(BasicFrame(120, <<"longlong", "bits">>, 9, 0), "confirm")

BasicHeaderFrame == Processed(HeaderFrame(60, <<"short", "longlong", "metadata">>, 10, 1), "header")
BodyFrame == Processed(ExtFrame(3, <<"data">>, 0, 1), "body")
HeartbeatFrame == Processed(ExtFrame(8, <<>>, 0, 0), "reportHeartbeat")

-----------------------------------------------------------------------------
(* Confirm class (85) and transaction class (90).                           *)

ConfirmSelectFrame == ConfirmFrame(10, <<"bits">>, 1, 0)
ConfirmSelectOKFrame == Processed(ConfirmFrame(11, <<>>, 0, 0), "reportSuccess")
TransactionSelectFrame == TransactionFrame(10, <<>>, 0, 0)
TransactionSelectOKFrame == Processed(TransactionFrame(11, <<>>, 0, 0), "reportSuccess")
TransactionCommitFrame == TransactionFrame(20, <<>>, 0, 0)
TransactionCommitOKFrame == Processed(TransactionFrame(21, <<>>, 0, 0), "reportSuccess")
TransactionRollbackFrame == TransactionFrame(30, <<>>, 0, 0)
TransactionRollbackOKFrame == Processed(TransactionFrame(31, <<>>, 0, 0), "reportSuccess")
-----------------------------------------------------------------------------
(* The frames by name, as the library sends and receives them.  The only    *)
(* class that a caller can give noWait is exchange.declare; all others are  *)
(* constructed with noWait = false.                                         *)
Catalogue ==
    [ProtocolHeader |-> ProtocolHeaderFrame,
     ConnectionStart |-> ConnectionStartFrame, ConnectionStartOK |-> ConnectionStartOKFrame,
     ConnectionSecure |-> ConnectionSecureFrame, ConnectionSecureOK |-> ConnectionSecureOKFrame,
     ConnectionTune |-> ConnectionTuneFrame, ConnectionTuneOK |-> ConnectionTuneOKFrame,
     ConnectionOpen |-> ConnectionOpenFrame, ConnectionOpenOK |-> ConnectionOpenOKFrame,
     ConnectionClose |-> ConnectionCloseFrame, ConnectionCloseOK |-> ConnectionCloseOKFrame,
     ConnectionBlock |-> ConnectionBlockFrame, ConnectionUnblock |-> ConnectionUnblockFrame,
     ChannelOpen |-> ChannelOpenFrame, ChannelOpenOK |-> ChannelOpenOKFrame,
     ChannelFlow |-> ChannelFlowFrame, ChannelFlowOK |-> ChannelFlowOKFrame,
     ChannelClose |-> ChannelCloseFrame, ChannelCloseOK |-> ChannelCloseOKFrame,
     ExchangeDeclare |-> ExchangeDeclareFrame(FALSE),
     ExchangeDeclareNoWait |-> ExchangeDeclareFrame(TRUE),
     ExchangeDeclareOK |-> ExchangeDeclareOKFrame,
     ExchangeDelete |-> ExchangeDeleteFrame(FALSE), ExchangeDeleteOK |-> ExchangeDeleteOKFrame,
     ExchangeBind |-> ExchangeBindFrame(FALSE), ExchangeBindOK |-> ExchangeBindOKFrame,
     ExchangeUnbind |-> ExchangeUnbindFrame(FALSE), ExchangeUnbindOK |-> ExchangeUnbindOKFrame,
     QueueDeclare |-> QueueDeclareFrame(FALSE), QueueDeclareOK |-> QueueDeclareOKFrame,
     QueueBind |-> QueueBindFrame(FALSE), QueueBindOK |-> QueueBindOKFrame,
     QueuePurge |-> QueuePurgeFrame(FALSE), QueuePurgeOK |-> QueuePurgeOKFrame,
     QueueDelete |-> QueueDeleteFrame(FALSE), QueueDeleteOK |-> QueueDeleteOKFrame,
     QueueUnbind |-> QueueUnbindFrame, QueueUnbindOK |-> QueueUnbindOKFrame,
     BasicQos |-> BasicQosFrame, BasicQosOK |-> BasicQosOKFrame,
     BasicConsume |-> BasicConsumeFrame(FALSE), BasicConsumeOK |-> BasicConsumeOKFrame,
     BasicCancel |-> BasicCancelFrame(FALSE), BasicCancelOK |-> BasicCancelOKFrame,
     BasicPublish |-> BasicPublishFrame, BasicReturn |-> BasicReturnFrame,
     BasicDeliver |-> BasicDeliverFrame, BasicGet |-> BasicGetFrame,
     BasicGetOK |-> BasicGetOKFrame, BasicGetEmpty |-> BasicGetEmptyFrame,
     BasicAck |-> BasicAckFrame, BasicReject |-> BasicRejectFrame, BasicNack |-> BasicNackFrame,
     BasicRecoverAsync |-> BasicRecoverAsyncFrame, BasicRecover |-> BasicRecoverFrame,
     BasicRecoverOK |-> BasicRecoverOKFrame,
     BasicHeader |-> BasicHeaderFrame, Body |-> BodyFrame, Heartbeat |-> HeartbeatFrame,
     ConfirmSelect |-> ConfirmSelectFrame, ConfirmSelectOK |-> ConfirmSelectOKFrame,
     TransactionSelect |-> TransactionSelectFrame, TransactionSelectOK |-> TransactionSelectOKFrame,
     TransactionCommit |-> TransactionCommitFrame, TransactionCommitOK |-> TransactionCommitOKFrame,
     TransactionRollback |-> TransactionRollbackFrame,
     TransactionRollbackOK |-> TransactionRollbackOKFrame]

Kinds == DOMAIN Catalogue
SynchronousKinds == {k \in Kinds : Catalogue[k].synchronous}
=============================================================================
