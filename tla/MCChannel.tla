----------------------------- MODULE MCChannel -----------------------------
(* Channel for TLC: the requests that are too many to list in a .cfg file.  *)
EXTENDS Channel

(* Everything that a call of the application may send.                      *)
AllRequests ==
    {"ChannelFlow", "ConfirmSelect", "TransactionSelect", "TransactionCommit",
     "TransactionRollback", "ExchangeDeclare", "ExchangeDeclareNoWait", "ExchangeBind",
     "ExchangeUnbind", "ExchangeDelete", "QueueDeclare", "QueueBind", "QueueUnbind",
     "QueuePurge", "QueueDelete", "BasicQos", "BasicConsume", "BasicCancel", "BasicGet",
     "BasicRecover", "BasicAck", "BasicReject", "BasicNack", "BasicPublish", "ChannelClose"}
=============================================================================
