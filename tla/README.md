# A verification project for AMQP-CPP

AMQP-CPP is a C++ client library for RabbitMQ. It is single threaded and
event driven: the application calls it, the event loop hands it bytes, and it
calls the application back. Nothing blocks. Every operation returns a deferred
result, and the result arrives later, in a frame that carries no reference to
the call it answers. Most of what can go wrong is therefore a matter of order:
which frame is sent when, which answer belongs to which call, what happens to
the rest when one step fails, and what a callback may do to the library that is
calling it. The models in this directory are about that.

All paths below are relative to the repository (`src/` in `PROJECT.json`).

## 1. Inventory

| Component | State | Operations | Hard parts |
|---|---|---|---|
| **Frame classes** `src/*frame.h` | none | numbers, field layout, announced size, `synchronous()`, `process()` | three hand-written descriptions of each frame have to agree |
| **ReceivedFrame, TcpInBuffer, parse()** `src/receivedframe.cpp`, `src/linux_tcp/tcpinbuffer.h`, `tcpconnected.h`, `ConnectionImpl::parse` | input buffer, `_expected`, `_maxFrame`, pending reallocation | read, recognise, dispatch, shrink, reallocate | the stream is cut anywhere; a read of 0 bytes means end of file; the size is renegotiated while parsing |
| **Channel** `src/channelimpl.cpp` | `_state`, `_synchronous`, `_queue`, chain `_oldestCallback` ... `_newestCallback`, `_receiver` | about 25 calls, `send`, `flush`, `reportReady/Success/Closed/Error` | one synchronous frame at a time; answers matched by position; calls from callbacks; close by both sides at once; connection closed or lost at any moment |
| **Deferreds** `include/amqpcpp/deferred*.h`, `src/deferred*.cpp` | callbacks, `_next`, `_failed`, content being received | report success or error once | resolved while still on the chain |
| **Publisher confirms** `src/tagger.cpp`, `src/throttle.cpp`, `include/amqpcpp/reliable.h` | `_current`, `_last`, `_open`, `_queue`, `_throttle`, `_handlers`, `_close` | `publish`, `onAck/onNack`, `flush`, `throttle`, `close`, `reportError` | tags must stay in step with the server; multiple acks; window edges; delayed close; callbacks in the middle of an ack |
| **Connection** `src/connectionimpl.cpp` | `_state`, `_closed`, `_channels`, `_nextFreeChannel`, `_queue`, limits | handshake, `add/remove`, `send`, `close`, `sendClose`, `setReady`, `fail` | frames queued during the handshake; close waits for channels; numbers are reused |
| **Consumers, delivery, returns** `src/deferredconsumer.cpp`, `deferredextreceiver.cpp`, `deferredrecall.cpp` | consumer table, message being received | deliver, header, body, cancel | which receiver content belongs to; body size accounting |
| **TCP and TLS states** `src/linux_tcp/` | state object, socket, out buffer, resolver thread | resolve, connect, send, process, close | a thread; a state that replaces itself inside callbacks |
| **Event loop adapters** `include/amqpcpp/lib*.h` | watchers, timers | heartbeats, timeouts | two deadlines on one timer |
| **Values, envelopes, addresses, buffers** | plain data | encode, decode | none beyond encoding |

How they interact. Bytes go from the socket to `parse()`, which makes a frame
object whose `process()` calls the channel with the frame's number. The channel
calls the deferred, the deferred the application, and the application may call
channel, connection or publisher again before the first call has returned. On
the way out, a call makes a frame; the channel keeps it while an earlier
synchronous frame is unanswered; the connection keeps it during the handshake
or refuses it while it closes. `Tagger`, `Throttle` and `Reliable` sit on top
of a channel, take its acks and nacks, and keep messages in a queue of their own.

What makes each part correct:

* frames: the stream is cut into exactly the frames that were sent, and nothing
  legal is refused;
* channel: frames keep the order of the calls; after a synchronous frame nothing
  is sent until its answer; each deferred is resolved once, by its own answer;
  a closed channel owes nothing; everything is resolved in the end;
* publisher: tags mean the same to client and server; the window is respected
  and no slot leaks; a verdict is reported for the message it is about; closing
  waits for all confirms; every message is reported;
* connection: nothing overtakes the handshake queue; numbers are unique; closing
  ends;
* delivery: content reaches the receiver that was announced for it;
* TCP: the out buffer is a byte FIFO; the handler is told when it ends, and why;
* timers: a silent server is given up in time and not too early, it gets our heartbeats,
  and the references of the event loop are balanced.

`PROJECT.json` lists under `hazards` where in the code these can go wrong, with the
properties that watch them, and for the rest why none does.

## 2. Modules

| Module | Models | Uses |
|---|---|---|
| `Frames` | the frame classes, as a catalogue | |
| `Channel` | one channel between an application and a server | `Frames` |
| `Publisher` | `Tagger`, `Throttle`, `Reliable` over a channel in confirm mode | |
| `Wire` | bytes to frames: `parse()`, `ReceivedFrame`, `TcpInBuffer` | `Frames` |
| `Connection` | handshake, channel numbers, closing, with several channels | `Frames` |
| `Delivery` | bodies cut and put together, consumers, `get()`, returns | |
| `Tcp` | resolver thread, TCP and TLS states, `TcpOutBuffer`, calls on the handler | implements `ByteFifo` |
| `ByteFifo` | abstract: what a transport promises to the connection above it | |
| `LibEv` | the timer and the loop references of `LibEvHandler` | |
| `MCChannel`, `MCWire` | sets of requests and of streams for TLC | |
| `ChannelProofs` | types, that a channel settles its deferreds, the order of frames; one question at a time, answers and calls, final outcomes | `Channel` |
| `PublisherProofs` | tags, slots and the window; what the application is told of its messages | `Publisher` |
| `ConnectionProofs` | what a closed connection leaves, whose replies are whose, what the server gets | `Connection` |
| `DeliveryProofs` | messages are whole, and with the right receiver | `Delivery`, `Flattening` |
| `Flattening` | facts about concatenating and cutting sequences | |
| `TcpProofs` | how a connection ends, and what reaches the socket | `Tcp`, `Flattening` |
| `LibEvProofs` | timers and references of the loop | `LibEv` |
| `WireProofs` | sizes and numbers of the frame classes, the buffer, the limit and the frames that are read | `Wire`, `Flattening` |

**`Frames`**: one definition per frame class, with the numbers, the fields that
`fill()` writes, the size the constructor announces, the predicates and what
`process()` does. Base classes are operators (`MethodFrame`, `BasicFrame`, ...), so
that what a class inherits is visible: `MethodFrame` is synchronous unless
overridden. Field values are reduced to their lengths. A no-wait exchange declare is
a kind of its own, because its `synchronous()` depends on the flag.

**`Channel`**:

| Model | Code |
|---|---|
| `state`, `linked`, `synchronous`, `queue`, `chain`, `receiver` | `_state`, `_connection`, `_synchronous`, `_queue`, the chained deferreds, `_receiver` |
| `active`, `after` | the stack of the library while a success callback runs |
| `send`, `sendAll`, `flush`, `push`, `reportError` | the methods of those names; `sendAll` is `send` for the frames of one message |
| `declareQueue`, `publish`, `ack`, `get`, `close`, ... | one action per call |
| `reportReady`, `reportSuccess`, `getOK`, `header`, `body`, `reportClosed`, `channelClose` | `process()` of the frames that reach the channel |
| `callbackReturns` | the second half of `reportSuccess` |
| `connectionClose`, `connectionSendClose`, `connectionClosed`, `connectionFail` | `ConnectionImpl::close`, `sendClose`, `reportClosed`, `fail`, as far as one channel sees them |
| `serverReceive`, `serverRaises` | external: RabbitMQ reads and answers in order, may raise a channel error and then discards frames until it is confirmed |

A call is a record with the state in which it was made, its outcome, and the call
whose answer resolved it. Application actions are enabled while `active # 0`: that is
a call made from a success callback. With `FailInCallback` the connection may also be
lost there. A frame is only its kind, its call and whether it is too large.

**`Publisher`**: `Reliable<Throttle>`, `Reliable<Tagger>` or `Throttle` alone
(constants `Throttled`, `Individual`). A message is two frames, so that it can be cut
by the window, by `flush(max)` and by a failure. Processing a confirm is several steps
(`onConfirm`, `nextHandler`, `handlersDone`), since the callback of each handler may
publish, close, flush or resize the window; so is `reportError` (`nextLost`). The
channel below is reduced to open, closing, closed; its own queue is part of the wire.

**`Wire`**: a byte is its offset in the unprocessed part of the stream, so a buffer
that keeps or loses a byte too many is visible. `Receive` is
`TcpConnected::process` up to `parse()`, or an application with a buffer of its own;
`ProcessFrame`, `NeedMore`, `Raise` and `AllProcessed` are the branches of
`ConnectionImpl::parse`; `Return` is what the caller does with its result, `shrink`
and `reallocate` included. The peer sizes its frames as the sending constructors do
and writes what `fill()` writes, so that the two and the dispatch tables are compared.
Who reads, which classes the peer sends, how long their fields are and which limits it
may negotiate is a record, `setup`, chosen in `Init` from the constant `Setups`.

**`Connection`**: the state variables are the members of `ConnectionImpl`; `channels`
maps a number to the object that is registered for it. `start`, `tune`, `setReady`,
`onReadyReturns`, `connectionError`, `connectionClosed` and the channel frames are the
`process()` methods; `parseEnd` is the tail of `parse()` that sends a pending close.
The `onReady()` callback is an interval (`running = "onReady"`) in which the
application may call anything, with the queue of the handshake still unsent. A channel
is reduced to its number, its state, whether it waits, and its queue. Frames carry
the object they belong to, which the real wire does not show: this is how a number
that means different channels to the two sides is noticed. The server (external)
is strict: it keeps its own view of which channels are open and is *surprised* by a frame
that the protocol does not allow then. It may close any channel that is open for it at
any time, and discards what still comes for it until the confirmation.

There are two specifications. `Spec` is the code with any application. In `PatientSpec` the
application opens no channel that would get a number for which one of our close frames is still
unanswered (`Late`), a case that needs closes of both sides to cross and that `add()` does
not exclude; everything else is free, and a number that only the server has closed may be used again at
once. What fails without patience is the run `ConnectionCrossing`.

**`Delivery`**: `publish` cuts a body by `maxPayload()`; the server (external) queues,
routes, returns and cuts again, in pieces of its own; `deliver`, `getOk`, `return` and
`cancelled`, `cancelOk`, `consumeOk` install and remove receivers; `header` and `body`
are `DeferredReceiver::initialize/process`, with `_bodySize` as an unsigned integer of
`Width` values. A byte is its place in the body. A receiving object is the number of
the call that made it, so that a tag that is used again is a different object.

**`Tcp`**: `impl` is the class of the state object. A step is a reported descriptor,
a call from above, a call of the application or of the resolver thread; a call of
`SSL_read`, `SSL_write`, `SSL_do_handshake` or `SSL_shutdown` has any result that OpenSSL
may give. `SslConnected` works in several steps (`step`), because data may be handed
over, and the connection may be closed, by callbacks in between. `out` is
`TcpOutBuffer`: chunks, the bytes to skip in the first, and the counted size. `handler`
is what the application's handler watches and was told. The refinement
`Fifo == INSTANCE ByteFifo WITH pending <- Content(out), delivered <- wire, mode <- ...` states that all
of this (chunks, skips, partial writes, hand-over between six state classes, repeated
SSL calls) is a FIFO of bytes that takes everything while it is open.

**`LibEv`**: time in half seconds. The wrapper is its two times, the interval and
when its one timer is due; the loop may be late by `Lag`. The calls on the handler
come in the orders that `Tcp` has, `monitor()` after `onDetached()` included. A heartbeat goes
through `ConnectionImpl::send` (`sendHeartbeat`): it is queued until open-ok (`queued`), refused once
the connection is being closed (`closing`), and counts as sent only when the transport gets it (`beat`).

Definitions marked *seeded fault* are used by no action. Each is a wrong variant of
the definition that follows it; put in its place, it violates the property
that `PROJECT.json` pairs it with.

## 3. Runs

Passing runs:

| Run | What it asks | Bounds |
|---|---|---|
| `ChannelSafety` | Does a channel that mixes declares, publishes, acks and close keep order, match answers to calls, send nothing after its close, and owe nothing when closed, with calls from callbacks, server errors, and the connection closed or lost? Is every deferred resolved, and does `Connection::close()` stop waiting? | 4 calls |
| `ChannelAll` | Does the channel keep its chain of deferreds complete where answers no longer match (get, nack, no-wait, refused frames, a connection lost inside a callback)? Every pair of calls of the interface. | 2 calls of 25 kinds |
| `PublisherFull` | `Reliable<Throttle>`: truth of reports, window, delayed close, each verdict once; every message is reported and `close()` is answered | 3 messages, windows 1 and 2 |
| `PublisherThrottle` | `Throttle` alone: tags and slots, window 0, `flush()`, publishing on a dead channel | 3 messages, windows 0, 1, 2 |
| `Wire` | Do buffer, expected bytes, limit and allocation fit together however the stream is cut and renegotiated, for both readers? Does every class announce what it writes and arrive as itself? | frames up to 32 bytes, 2 unread frames; one frame of each class, empty and non-empty fields |
| `Connection` | Does the server ever get a frame that is not allowed then; does a frame reach the wrong owner of a number; is a channel left behind by a close; does `close()` end? For a patient application. | 3 channel objects on 2 numbers, 1 further call |
| `Delivery` | Are messages whole and with the right receiver when tags are cancelled and used again? | 2 tags, 2 messages of 0 or 3 bytes in frames of at most 2, 3 calls |
| `Tcp` | Is the transport a byte FIFO; does it drain, end, and report its end? | plain and TLS, 7 bytes in chunks of 1 or 3, `close(true)` at any time |
| `LibEv` | Are silence and heartbeats timed right, and references balanced? | intervals 0 to 3 s, 12 s, a loop half a second late |

Why the bounds are enough to be interesting. Four calls are a synchronous frame
under way, one queued behind it, a third between them, and one from a callback;
misalignments of the chain show with three. Three messages with a window of one
or two have one under way, one queued, and one that is published from a callback; a
multiple ack then covers more than one. The frame sizes of `Wire` are scaled down
(4096 becomes 24), and the lengths include those at which a frame has exactly the
limit before and after renegotiation; two frames give a complete frame followed by any
part of the next. Three objects on two numbers make a number be given out again while
frames for its first owner are under way. Three bytes in frames of two are a full and
a partial frame in each direction. Chunks of three and one make partial writes stop
within a chunk, twice in the same one, and beyond one. Intervals of 0, 1, 2 and 3
seconds are no heartbeats, the one that is rounded up, an even and an odd one.

Deadlock is not checked: a finite number of calls, messages, bytes or half seconds
comes to an end, and a connection that has ended stays so. In its place the liveness
properties state what has to happen before.

Fairness. `Channel`: the event loop keeps delivering what arrived and callbacks
return (`Library`), the server reads and answers (`serverReceive`), and `parse()` sends
the pending close when nobody waits (`connectionSendClose`), after which the server
confirms it (`connectionClosed`). `Publisher`: the same, and the server confirms every
message. `Wire`: a readable socket is reported until it is read. `Connection`: frames that
arrived are processed, `onReady()` returns, the server reads. `Tcp`: the thread ends
and `process()` runs to its end; a descriptor that is watched for writing gets writable
(`process()` looks at that flag first, so reading cannot starve it: strong fairness);
one that is watched only for reading need not get readable unless the peer owes
something (`SslOwed` and the comment there): its part of a TLS handshake, for which
`SSL_do_handshake` or `SSL_write` may wait, or the end of the stream once TLS has failed or the AMQP
connection has ended. After an `SSL_read` that wants more the peer owes nothing. OpenSSL,
when it is called again and again, does not ask for a repetition for ever. Nothing is assumed of
the application, of errors, of lost connections or of other data from the peer.

Runs that show a disagreement (each is a `finding`, with the words it contradicts):

* `ChannelNack` violates `EveryCallSettles`: `basic.nack` is synchronous by inheritance
  and never answered, so `reject()` with `multiple` stalls the channel.
* `ChannelOversize` violates `AnswersMatch`: the deferred of a refused frame stays on
  the chain and shifts all later answers.
* `ConnectionCrossing` violates `NoCrossTalk`: both sides close a channel at once, the
  client frees its number when it has the server's close frame, `add()` gives the number to a new
  channel, and the close-ok for the old channel closes the new one. Two objects and one
  number are enough to show it; with 65535 numbers the counter has to stand at that one, as
  it does once in every round, and sooner when most numbers are in use. The other
  properties of `Connection` are stated for an application that is patient (`PatientSpec`,
  section 2).

### Known deviations without a run

They are in the models, as in the code, or excluded where this says so; the passing
properties are stated so that they do not hide behind them.

Channel:

* `get()` flushes with the get-ok and again with the end of the content
  (`src/deferredget.cpp:65`), when a synchronous frame may already be under way, although "After a
  synchronous frame no more frames may be sent until the accompanying -ok frame
  arrives" (`include/amqpcpp/frame.h`). `ChannelSafety` leaves `get()` out of its requests;
  `ChannelAll` has it.
* A no-wait declare shifts the answers as a refused frame does
  (`src/channelimpl.cpp:303`); `ChannelSafety` leaves both out.
* A frame that is too large is sent after all when it was queued first
  (`src/connectionimpl.cpp:415` has no check). When the header of a message is
  refused for its size, its publish frame is already out (`src/channelimpl.cpp:504`).
* `close()` on a closed channel returns a deferred that never resolves
  (`src/channelimpl.cpp:259`); hence `EveryCallSettles` is about deferreds that were
  handed out before the channel closed.
* A connection that is failed inside a success callback reports an error to the deferred
  that has just succeeded (`include/amqpcpp/channelimpl.h:703`); hence
  `ResolvedOnce` is checked with `FailInCallback` off.

Publisher:

* A message that could not be published is filed under tag 0 and acked by the next
  multiple ack (`include/amqpcpp/reliable.h:277`), while "Callback that is called when the
  broker confirmed message publication" is what `deferredpublish.h:104` says.
  `PublisherFull` does not publish on a dead channel (`PublishClosed`).
* `Tagger::close()` is never answered when the channel fails while it waits
  (`src/tagger.cpp:119`), nor when a failed publish left a handler under tag 0; it is
  answered twice when it is called in the callback of the last confirm
  (`src/tagger.cpp:81`). Hence the exceptions in `CloseIsAnswered`.
* After a regular `Connection::close()` messages that are still in the throttle are never
  reported (`include/amqpcpp/connectionimpl.h:422`); `PublisherFull` does not close the
  connection, `PublisherThrottle` does. (While other channels of the connection wait,
  `Connection::close()` does not send its frame at once, and the throttle's queue, which goes out as
  buffers, is still accepted, `src/connectionimpl.cpp:415`. `Publisher` has its channel
  alone on the connection: then the frame is sent at once and buffers are refused as frames are.)
* `onLost()` of a publish that failed at once is not called
  (`include/amqpcpp/deferredpublish.h:137`).

Connection:

* An error of the connection fails the channels but leaves `_state` as it is
  (`src/connectionimpl.cpp:229`): channels can be opened on it. `MayCall` stops the
  application after `onError()`, as the handler's documentation asks.
* When the server closes during the handshake, the close-ok waits in the queue for ever; after
  `Connection::close()` it is refused (`src/connectionimpl.cpp:388`), like a channel.close-ok.
  `CloseCompletes` holds nevertheless, as the error is reported.
* Channels that are opened before the tune frame are not limited by channel-max, and
  `add()` loops for ever when all numbers are in use and there is no limit
  (`src/connectionimpl.cpp:65`).
* The tail of `parse()` that sends a pending close is skipped when the buffer ends in the
  middle of a frame; the next call gets there.

Transport and timers:

* A negotiated frame size of 0 (no limit) does not enlarge the input buffer
  (`src/linux_tcp/tcpconnected.h:248`); `Wire` negotiates sizes above 0.
* After `SSL_ERROR_WANT_READ` only readability is watched, and what is sent meanwhile waits
  in the buffer until the peer sends something, which it need not do, or until the heartbeat timer
  ends the connection (`src/linux_tcp/sslconnected.h:139`, `:391`). `EverythingLeaves` makes an exception of
  exactly that state after an `SSL_read`, `AwaitsRead`; without it TLC finds the violation.
* Heartbeats that are due before open-ok wait in the queue of the handshake, so a slow server may miss them
  then, and after `Connection::close()` they are refused, while the timer goes on as if they had been
  sent (`include/amqpcpp/libev.h:269`, `src/connectionimpl.cpp:385`). `WeAreHeard` is about the time
  between.
* `onDetached()` is not the last call on the handler, as `include/amqpcpp/linux_tcp/tcphandler.h:239`
  says: a resolver that fails calls it and then, when it is destructed, `monitor()`
  (`src/linux_tcp/tcpresolver.h:238`); `close(true)` calls `onLost()` and `onDetached()` before the
  destructor of the old state calls `monitor()` and both of them again.
* For that reason `LibEvHandler` makes a new wrapper, with a timer of a minute, for
  a connection that has failed to resolve.

## 4. Proofs

`ChannelProofs` proves, for every set of requests, any number of calls and every
setting of the failure constants (`ChannelAssumption` is the only assumption):

* `TypeCorrect`: `Spec => []TypeOK`;
* `ClosedChannelIsSettled`: `Spec => []ClosedIsSettled` - a closed channel has an
  empty queue, does not wait, and has resolved every deferred that it handed out before;
* `OpenDeferredsAreChained`: `Spec => []Settling`;
* `Invariance`: `Spec => []Inv`, from which the three follow, with `Inv == TypeOK /\ Settling`.

`ClosedIsSettled` is not inductive: that `reportError` settles every deferred needs
that every open deferred is on the chain it walks. That is the core of
`Settling`. It has to survive the two steps that take deferreds off the chain. The
return from a success callback drops the head, so the head must be the deferred whose
callback ran, and that one is already settled; and if the channel failed during the
callback the head is another one or none, but then everything was
settled. `reportClosed` sets the state to closed before its callback runs and clears
up after it (`after = "reportError"`), which is why `ClosedIsSettled` exempts that interval
and `Settling` says that a callback is then running. The proof has one lemma per
helper of the code (`SendKeeps`, `FlushKeeps`, `PushAdds`, `ErrorSettles`,
`ResolveKeeps`, ...), one per action, and `NextInv` puts them together. The
theorem covers the cases in which answers do not match their calls, since it does
not depend on that. `Settling` is checked by TLC in `ChannelAll`.

It also proves, under the same assumption only:

* `SentInOrder`: `Spec => []InOrder`;
* `CloseIsLast`: `Spec => []NothingAfterClose`.

Both speak of what is on the wire, and neither is inductive as long as the queue is left
out. The invariant (`PipelineOrdered`) is about the pipeline, the wire followed by the queue:
any two of its frames are in the order of their calls, and behind a close there is at most
a close-ok. `flush` moves frames from the queue to the wire and so leaves the pipeline as it
is, the server takes from its front, `reportError` cuts off its end, and a call adds to its end.
A frame may be added because no number in the pipeline is above that of the last call
and because no close frame is in it while the channel is usable.

The second half of `ChannelProofs` proves, under the hypothesis `Orderly`:

* `QuestionsAreSingle`: `Orderly /\ Spec => []OneAtATime`;
* `AnswersAreTheRightOnes`: `Orderly /\ Spec => []AnswersMatch`;
* `OutcomesAreFinal`: `Orderly /\ Spec => ResolvedOnce`, an action property.

`Orderly` restricts the constants, not the states. It says that every call of the application
is synchronous if and only if it is answered by one frame, that no frame exceeds the
negotiated maximum, and that the connection is not lost inside a callback; the number and
the order of the calls, calls from callbacks, errors of the server and the loss or the
close of the connection at any other time are free. It holds in the run
`ChannelSafety`, and it is needed. A `BasicNack` frame counts as synchronous and is never
answered, the deferred of a frame that is too large stays on the chain (runs `ChannelNack`,
`ChannelOversize`), and a connection that is lost inside the callback of a success reports an
error to the deferred that has just succeeded, so `ResolvedOnce` fails.

The discipline of the wires (`WireDiscipline`) is: there is at most one question or one
reply on them, and as long as there is one the channel is in synchronous mode. The second
half carries the first, since in that mode everything is queued; it also has to survive
`flush`, which stops at the first synchronous frame. The matching (`RepliesFindTheirCall`) adds that the
chain is in the order of the calls, that each question in the pipeline belongs to a pending deferred
of the chain, that each pending deferred has its question or its reply under way, and
that deferreds without either (calls on a closing channel, or refused by the connection) are
younger than all others, so that a reply finds its own deferred at the head. The
exception is a channel the server has closed: its discarded questions are never answered, and
the close that is under way settles them all (`Raised`).

`PublisherProofs` proves, for any number of messages, every window, with and without
`Throttle` and `Reliable` (`PublisherAssumption` is the only assumption):

* `TagsAgree`: `Spec => []TagAgreement`;
* `SlotsAreInFlight`: `Spec => []OpenIsInFlight`;
* `WindowIsKept`: `Flushes = {} /\ Spec => ThrottleBound`, an action property.

The hypothesis of the last one leaves out `flush()`, whose purpose is to send more than the
window. The invariant (`CountingAgrees`) gives each frame of each message a place in one
numbering, two per tag. The frames on the wire continue where the server stopped reading, the
queue of the throttle continues the wire, and it ends at the next tag to be given
(`Pipe`, `Waiting`): this is what keeps a message that is cut by the window, or by a failure,
from shifting the count. Tags are given once and frames carry the tag of their message (`Tagging`). A
confirm covers tags that the server has confirmed and no later confirm covers them again (`Confirms`),
and the open slots are exactly the tags under way (`Slots`).

It also proves, under the hypothesis `Obedient == PublishClosed = FALSE`:

* `ReportsAreTrue`: `Obedient /\ Spec => []Truthful`;
* `ClosesAfterTheLast`: `Obedient /\ Spec => []CloseAfterConfirms`;
* `ReportsAreFinal`: `Obedient /\ Spec => ReportedOnce`, an action property.

The hypothesis says that the application does not publish where that must fail (channel or publisher
closing or closed, connection gone). There `publish()` returns 0 and `Reliable` stores the handler under tag 0, which
every multiple confirm covers. The invariant (`HandlersArePending`) is that there is a handler exactly for each message
that is pending, under the tag of the message, and that a tag that has a handler and is
confirmed is in the confirm that is being processed or in one that is not read yet. It
is stated for the middle of a confirm too, since callbacks of handlers run there and may publish or
close. A close goes out when no message is unconfirmed, which the counting
above turns into a statement about every message.

`ConnectionProofs` proves, for any number of channel objects and channel numbers, every limit
that the server proposes and every combination of failures (`ConnectionAssumption` is the only
assumption; it says among other things that channel objects are not numbers, since the field
`of` of a frame holds either):

* `ConnectionTypes`: `PatientSpec => []TypeOK`;
* `CloseLeavesNothing`: `PatientSpec => []NothingLeftBehind`;
* `NumbersDoNotMix`: `PatientSpec => []NoCrossTalk`;
* `ServerNotSurprised`: `PatientSpec => []NoSurprise`;
* `ConnectionInvariance`: `PatientSpec => []Inv`, from which the four follow.

None of them is inductive. The parts of `Inv` are: exactly the channels that are open or closing are
registered, and only these wait or have frames (`Registry`); a frame carries the number of the
object it belongs to, and nobody else has that number, unless our confirmation is behind it (`Owned`); the handshake is in
one of seven stages, which fix both wires (`Stage`, `Hand`); a close of the connection and its confirmation are
the last on their wire (`End`). For the server's part the pipeline counts again, the
wire followed by the queue of the connection: which frame may come behind which (`Order`), and that
when all of it has arrived the server will have open what the client still sends on (`View`).
A number that is given to a new object is the hard case. The client frees it with the close-ok or
with the server's own close frame. In the second case requests of the old owner, our
confirmation, the new open frame and the calls of the new owner may all be under way behind each other, while for the
server the number is still closing. `Order` says in which order they stand (the confirmation separates the two
owners), `View` that a number which is closing at the server is confirmed before it is opened, and
`Reuse` that as long as channels may be opened, a number that is free at the client is not open at the server
when it has read the pipeline, that all that may still come for such a number is the answer to a close, and that nothing comes behind
that answer. Patience enters in one lemma, `OpenInv`: the number that is taken has no such answer
to come.
Sequences are only used through their elements and the relation `Before`, with one lemma each for
appending, taking the head and concatenating.

`TcpProofs` proves, for plain and secure connections, any amount of data in any pieces, and
with or without `close(true)`:

* `EndsAreClean`: `Spec => []CleanEnd`;
* `TransportTypes`: `Spec => []TypeOK`, with the counted size of the output buffer;
* `TransportIsFifo`: `Spec => InOrderOnce`, the refinement of `ByteFifo`.

The calls `onLost()` and `onDetached()` are made by the destructor of the last state that has the
socket. The invariant `EndInv` therefore says who has what: only the resolver has the pipe,
and every later state that is not closed has the socket (`Ownership`); and that the handler knows
why whenever the AMQP connection is not open any more (`Reasons`).

The other two need what `TcpOutBuffer` does to the bytes. The bytes in a buffer are those of its
chunks, less the ones that are skipped in the first. `BufferType` is what `add` and `shrink`
rely on: no chunk is empty, less is skipped than the first chunk has, and the
counted size is the real one. `AddKeeps` and `ShrinkKeeps` say that they keep that, and that they
append to the bytes and remove as many as they were told at the front, wherever in a
chunk that is; `FirstFacts` that what `SSL_write` gets is a front part of the bytes.
`BufInv` adds what the states contribute: `close()` comes only when the connection is up, a
connection that is over has nothing in its buffer, and a write, or its repetition, finds something to
write. One lemma for each group of steps then shows a step of `ByteFifo`, or a stutter. What
`FlattenSeq` returns for chunks one behind the other is proved in `Flattening` from its recursive
definition. The induction is over the numbers that are not in a set (the least one of them leads
to a contradiction), since a theorem with a predicate as parameter cannot be used.

`DeliveryProofs` proves, for all tags, sizes of bodies and sizes of frames on either side, and any number of
messages and calls:

* `DeliveryTypes`: `Spec => []TypeOK`;
* `MessagesIntact`: `Spec => []Intact`;
* `RightReceivers`: `Spec => []RightReceiver`;
* `DeliveryInvariance`: `Spec => []Inv`, from which the three follow.

`DeliveryAssumption` is the only assumption. `Width`, the number of values of the unsigned `_bodySize`, is positive, and
the sizes that are published are below it.

The frames to the client say neither for which object they are nor where a message ends, so no
invariant over the variables alone is inductive. `Inv` says that there is a list of *events* (a reply, a cancel,
or a message with all of its frames) which explains everything at once. The frames under way are the rest of
the current message and then the frames of the events (`Stream`). The objects of the replies among the
events, followed by those of the requests under way, are the client's chain (`Askers`): this is why the oldest
deferred is the one a `get-ok` is for. Applied one after the other, the events turn the client's table of consumers into
the server's, and a delivery is for the consumer its tag has at that place of the list (`Linked`):
this is why a tag that is cancelled and used again does no harm. What was handed over, what is being received and
what the events carry is, in this order, what the server sent (`Report`). And the receiver is idle, or waits for the
header, or has the first part of a published body whose other pieces are the rest (`Current`), so that the
unsigned subtraction ends at exactly zero with the last piece. The server adds an event at the end of the list,
the client takes one from the front, and one lemma for each of the five parts says what becomes of it.
`SplitFacts` shows that the loop of `ChannelImpl::publish` loses no byte and cuts no empty piece,
for every size of body and frame.

TLC finds no violation of the inductive invariants of the other modules on the bounds of the runs (with a finite
set of numbers in place of `Nat` where an invariant quantifies over it); that of `DeliveryProofs` quantifies over
lists of events, which TLC cannot enumerate.

`LibEvProofs` proves, for every set of intervals, every connect timeout, every delay of
the loop and any length of time (`LibEvAssumption` is the only assumption):

* `ReferencesBalanced`: `Spec => []RefsBalanced`;
* `SilenceNoticed`: `Spec => []SilenceIsNoticed`;
* `HeartbeatsInTime`: `Spec => []WeAreHeard`.

None of them is inductive. All follow from `Inv`, whose parts are: the timer runs until the
handshake is over, and a wrapper's timer runs exactly if one of its times is set, which is what
the destructor of `Wrapper` goes by (`Kept`); once an interval is agreed, the timer is due no later
than either of its times, and these are tied to when the server was last heard and
when the last heartbeat went to the transport (`Beats`), or one waits in the queue for open-ok. Reading moves one of the times without touching the
timer; it can only move it to later, so the timer stays early enough. The paths
that end a connection share `Balanced`, a lemma each for `lookup`, `onDetached` and
`closeImmediately`, and one for all steps that close (`ClosingKeeps`).

`WireProofs` proves, for every set of frame classes, all lengths of their variable fields, any number of frames
with a frame size that is negotiated once, up or down and anywhere among them, and every way in which the network cuts the stream:

* `BufferStaysTail`: `Spec => []BufferIsTail`;
* `AlwaysWantsMore`: `Spec => []WantsMore`;
* `ExpectedAlwaysFits`: `Spec => []ExpectedFits`;
* `NeverFalseAlarm`: `Spec => []NoFalseAlarm`;
* `FramesStayInOrder`: `Spec => []FramesInOrder`;
* `WireInvariance`: `Spec => []WireInv`, from which the five follow.

`WireAssumption` is the only assumption: an initial limit of at least 20 bytes (the code has 4096) and proposed limits
of at least 8, the size of the smallest frame.

The argument has three layers. The sizes of payloads and the places of frames are sums over sequences; `Total` is the
last of the partial sums of some weights, and lemmas say that there is one such function and that it grows by the next
weight. With them, a list of fields `Fits` the two numbers that a constructor announces (a constant part, and how many
variable fields) if `fill()` writes that for *every* length, and one field more keeps this true. So each of the
65 classes is shown to announce what it writes, and to have the numbers under which `ReceivedFrame::process` makes
it again (`Right`, one lemma for each group of classes; for these `processMethodFrame` and
its seven tables are operators with a case for each number, as the code's switches are). This is the only layer that knows
the classes; above it a frame is a size, a class and a limit (`Sent`).

The third layer is the inductive invariant. None of the five is inductive alone: that no frame is refused needs that the
limit in force *when its turn comes* allows it, although it was sent before `connection.tune` or
after it. `Governs` says that there is a limit for each place of the stream which starts at `_maxFrame`, changes
behind a tune to what that proposed and ends at what the peer believes, and that each frame respects the one before it;
processing a frame moves along this chain, sending one extends it. `Placed` says that parse() stands at the end of a
frame and no byte was read that was not sent; `data = Upto(taken)` that the buffer starts there; `Asked`
what the last call asked for, and hence that a read never goes past the first incomplete frame, which is why
a buffer that is replaced in the middle of parse() holds nothing of a frame still to be processed.

What remains with TLC:

* liveness (`EveryCallSettles`, `ShutdownCompletes`, `EveryMessageReported`, `CloseIsAnswered`,
  `EverythingLeaves`, `EndIsReported`, `CloseCompletes`, `EveryFrameProcessed` and the others): these need fairness and ENABLED, which the
  prover does not handle;
* everything for applications that are not `Orderly` or not `Obedient`, beyond the theorems
  that do not need it.

## 5. Not modelled

* Destruction of library objects inside callbacks (`Monitor`), the destructor of
  `TcpConnection`, and `close(true)` from inside a callback: what could go wrong is the use of
  an object that no longer exists, which a model of the control flow does not show.
* Calls that are made from error callbacks (`src/channelimpl.cpp:910`).
* The io watchers of `LibEvHandler` (a list of descriptors and flags), and the adapters for Boost.Asio,
  libuv and libevent.
* The wrappers around OpenSSL and its loading at run time (forwarding of calls).
* Tables, arrays, fields and meta data (encoding of data), addresses and logins (parsing of
  strings), wording of messages.
* RabbitMQ beyond what a client sees.

## 6. Plan

1. Done: `Frames`, `Channel`, `Publisher`, `Wire`, `Connection`, `Delivery`, `Tcp`,
   `ByteFifo`, `LibEv`, and the proofs of section 4.
   Every safety invariant and every action property that a passing run checks is stated by a theorem.
2. Further refinements: a channel as a FIFO of requests and responses, implemented by
   `Channel` for requests that are answered.
