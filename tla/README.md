# Parlo++ verification

TLA+ models of the Parlo++ networking library (the C++ sources in `src/`), the
TLC configurations that check them, and TLAPS proofs of their main properties.

Parlo++ sends length-prefixed packets over TCP. Its logic is small and its
difficulty is in its threads: a byte buffer with a worker thread, a blocking
queue, and a connection object in which five threads meet.

## 1. Inventory

| component | state | operations | talks to |
|---|---|---|---|
| `Packet` (`Packet.cpp`, `PacketHeaders.h`) | id, flag, 16-bit length, payload; immutable | constructors, `buildPacket` | used by all |
| `ProcessingBuffer` (`ProcessingBuffer.cpp`) | byte queue, header read so far, stop flag, handler, mutex, condition variable, a worker thread | `setOnPacketProcessedHandler`, `addData`, destructor; the worker's `processPackets` and `readHeader` | fed by `NetworkClient`'s read handler; calls the packet handler with its mutex held |
| `BlockingQueue` (`BlockingQueue.h`) | deque, capacity, mutex, two condition variables | `add`, `tryTake`, `take()`, `take(item)` | holds the `Listener`'s clients; the application takes from it |
| `NetworkClient` (`NetworkClient.cpp`, `Parlo.h`) | `connected`, heartbeat counter and `isAlive` with a mutex each, two threads and their stop flags, `owner`, five handlers, the receive buffer, a `ProcessingBuffer` | two constructors, `connectAsync`, `sendAsync`, `disconnectAsync`, the read loop, two heartbeat loops, the packet handler, the destructor, compression | asio (through `Socket`), `ProcessingBuffer`, the application's handlers |
| `Listener` (`Listener.cpp`) | one socket, an accept loop on a `std::async` thread, the queue of clients, handlers | `startAccepting`, `stopAccepting`, accept completions, the handlers of disconnecting clients | asio, `BlockingQueue`, `NetworkClient` |
| `Socket` (`Socket.cpp`) | an asio socket | thin wrappers | asio |
| `HeartbeatPacket`, `GoodbyePacket` | two 64-bit numbers | to and from bytes | `NetworkClient` |
| `Logger` | a callback | `Log` | output only |
| `EncryptedPacket.h`, `EncryptionArgs.h`, `EncryptionMode.h`, `PacketHandler.h` | | | included by no file of the build |

What is hard here, and what makes each component correct:

* **ProcessingBuffer.** `addData` releases the mutex before it notifies; the
  worker keeps the mutex while it calls the handler and while it sleeps 10 ms; the
  destructor sets its flag without the mutex. TCP may cut the stream anywhere, and
  a header read in one iteration waits for its payload in another. Correct means:
  no wakeup lost, no byte lost or moved, every packet handed over once, whole and
  in order, and the destructor ends all that.
* **BlockingQueue.** Two wait sets; a notification given to one thread may be
  overtaken by another. Correct means: the bound is kept, nobody sleeps beside
  an item or a free place, everyone who can be served is.
* **NetworkClient.** Application, I/O thread, worker, and two heartbeat threads
  share flags, two mutexes and two joins; handlers call back into the object and
  may drop the last pointer to it; operations outlive it.
  Correct means: one read at a time and always one while connected, nothing runs
  on after a disconnect, `disconnectAsync` returns, a silent peer is noticed, the
  threads are joined before their members go, the object is alive when it calls the application and is freed
  to its last member when nobody needs it.
* **The outgoing stream.** Three threads start writes on one socket, each out of
  a vector nobody keeps. Correct means: the peer gets the packets of the calls,
  whole, in order, each once, and can read what the library itself put in them.
* **Listener.** Accepts are started from two threads on one socket; the last
  reference to a client may be dropped in the client's own threads.

All hazards are listed, each at its line, in `PROJECT.json`.

## 2. Modules

| module | models |
|---|---|
| `Packet` | the constructors, with the 16-bit wrap of the length, `buildPacket`, and the reading of a length field |
| `ProcessingBuffer` | the buffer, its worker and its owner, for arbitrary byte streams |
| `Framing` | the same, fed with packets built by `buildPacket`; what the handler then sees |
| `PacketChannel` | abstract specification: packets arrive and are handed over in order |
| `BlockingQueue` | the queue, for any number of threads |
| `NetworkClient` | one connection, its five threads, and its life from constructor to destructor |
| `InternalPackets` | the bodies of heartbeats and goodbyes, byte for byte, both ways |
| `Sending` | what `sendAsync` accepts, and what becomes of it on the wire |
| `Listener` | the accept loop, its completions and the list of clients |
| `ClientRegistry` | abstract specification: a client is listed once, and its own report takes it off |
| `MCFraming`, `MCProcessingBuffer`, `MCSending` | concrete packets, streams and payloads for TLC; the others are instantiated by their `.cfg` alone |
| `Stream_proofs` | lemmas about packets and the sequential reading of a stream |
| `ProcessingBuffer_proofs`, `Framing_proofs`, `BlockingQueue_proofs`, `NetworkClient_proofs`, `InternalPackets_proofs`, `Sending_proofs`, `Listener_proofs` | theorems |

`Packet` is extended by `ProcessingBuffer` (and so `Framing`) and by
`InternalPackets` (and so `Sending`). `Framing` and `Sending` are the two ends of one
connection: what `Sending` puts on the wire is read by `FramesIn`, the sequential
reading of a stream that `ProcessingBuffer`'s worker is checked against
(`OnlyWholeFrames`). `NetworkClient` takes from both that packets arrive whole and in
order, and `Listener` takes from `NetworkClient` what a client reports and when, and
from `BlockingQueue` that its operations are atomic.

Definitions marked "Mutant" are not part of any specification. Each is a
definition of the model with a plausible bug; replacing the one by the other
breaks the property it is listed with in `PROJECT.json`, which shows that the
property does depend on that line of code.

### Packet and ProcessingBuffer

Bytes and 16-bit lengths are numbers (`Byte`, `Word`). An action is a piece of code
between two points at which another thread may run. The worker's `worker` counter
names them: `test` (line 107), `lock`, `evaluate` and `block` (the two halves of
`cv.wait`'s loop, between which a notification without the mutex is lost), `blocked`
(in the wait set), `relock`, and the parts of the body, all with the mutex held.
The owner's `owner` counter splits `addData` into lock, push-and-unlock and notify,
and the destructor into store, notify and join. An exception in the worker (the
`std::invalid_argument` of a packet with no payload, line 122) ends the process:
`terminated`. Handler calls are recorded in `delivered`. `setOnPacketProcessedHandler`
is only called before the first byte, as all callers do. The bytes the owner reads
from `input` are cut by `ReadSizes`.

### BlockingQueue

A mutex-protected member function is one step up to the point where it waits. A
thread that is in `add` or in `take()` and in no wait set contends for the mutex. It
evaluates its predicate when it gets it, whether it just called or was woken, so
there is no separate counter for these. `notify_one` removes any one thread from
the wait set. `tryTake` and `take(item)` never wait. Spurious wakeups are a step.
`take()` and `tryTake` call `queue.pop()` (line 60, and in `tryTake`), which a
`std::deque` does not have: they are members of a template, would not compile if they were
used, and nothing in the library uses them. The model takes what they mean,
`pop_front`.

### NetworkClient

`at[t]` is the place of thread `t` in its own code, `inCall[t]` its place in
`disconnectAsync`, which any thread but the heartbeat sender may be in, because
handlers may call it (`Disconnecting` says which do). asio is external: `reads` and
`writes` count outstanding operations, which complete through the I/O thread
according to the state of `socket`. The ProcessingBuffer is reduced to a queue of
packets and the fact that its worker holds the mutex while it handles one, both
established by `Framing`. Time is not modelled: a sleep may end at any moment.

`refs` says who holds a `shared_ptr` to the client: the application (for a server,
the Listener's list) and every thread that is in a call of a handler, which is
passed one. Whoever gives up the last one runs the destructor (`GiveUp`), with the
same steps as `disconnectAsync` from its first join on, and an exception in it
terminates. `~NetworkClient` ends with `pImpl`; `Impl` itself lives on as long as an
outstanding operation, or a thread the connect handler started, holds `self`
(`Unreferenced`), and then its members go: a joinable `std::thread` terminates, the
ProcessingBuffer joins its worker (`DestroyImpl`). After that
the plain pointer `owner` dangles, and so does the `this` of the packet handler: a call
through it is a choice between the end of the process and a handler that is given
something (`CallHandler`).

A client may connect again when its old connection has come to rest.

`ImplShared`. `NetworkClient::Impl` calls `shared_from_this()` but is owned by a
`std::unique_ptr` (`NetworkClient.cpp:158`). As the code stands (`ImplShared = FALSE`)
`connectAsync` throws `std::bad_weak_ptr`, `sendAsync` throws it, and the server's
constructor throws with two joinable threads, which terminates (`ConnectAsync`,
`SendThrows`, `Construct`). There is nothing to check about a system whose every
first call fails, so all runs take `ImplShared = TRUE`, that is, the same code with
that one exception gone: they say what the rest of the code does and how far it
is right.

What is sent is only counted (it is `Sending`'s business). Of what is received `Kinds`
tells apart what the packet handler does with it. A `heartbeat` has a body long enough
for `byteArrayToObject` and a `badHeartbeat` has not, as the library's own have
not (`own_heartbeat`); `badData` is flagged as compressed and is not. The two throw in the
worker, which catches nothing, and the process ends: a bad heartbeat does so behind the
reset of the counter, with both mutexes held (`HeartbeatResets`, `HandlePacket`). The counter of missed heartbeats stops counting one above the
limit, since it is only compared with it. A write on a socket that is connecting may
fail or wait, and `shutdown` on it may throw or not: systems differ.

A client that connects and one the Listener accepted differ in their initial
states only (`InitAs`).

### InternalPackets and Sending

A 64-bit integer is written in eight bytes, least first, as `memcpy` does on the
machines the library is built for, and read back with the sign of its highest word.
A heartbeat is two of them and a goodbye two as well, its time cut to seconds.

`Sending` starts with a connection that is up. A call of `sendAsync` throws or
starts an `async_write`: the socket takes a part of the bytes at once
(`StartWrite`) and the rest later, in the I/O thread (`ContinueWrite`), or the
connection breaks and the write fails (`FailWrite`). `writes` holds the outstanding
ones, `wire` what the socket has taken. Writes are independent, so parts of two may
alternate. `asio::buffer(data)` refers to the caller's vector, and `lasting` says whether
that outlives the write: those of the heartbeat thread and of `disconnectAsync` are
temporaries and never do, the application may keep its own. A part that is
written out of a vector that is gone is what the vector held or `Junk`. `lastRTT` has
no initial value and is later the peer's choice, so it is one of `RTTs` at each
call. The clock is one value of `Times` per turn of the heartbeat loop, where the code
reads it up to four times in a row; it may be set back. `orderly` remembers
whether a write was ever started beside another one, or continued without
its vector. Both spoil the stream, and the code does both (section 3). What the
properties about the stream say, they say of orderly behaviours,
in which neither has happened: they are about sizes, limits, partial writes,
the bodies and the close, and nothing here promises that a behaviour is orderly.

`disconnectAsync` is split where another thread may run: test, goodbye, closing,
joining. An exception ends it there (`disconnecting` is `idle` again), and the
heartbeat thread goes on until it is `done`.

### Listener

`at[t]` is where a thread is: one of the `std::async` threads of `acceptAsync`, or one
of the threads that run the io_context. The loop of `acceptAsync` (`LoopTest`,
`StartAccept`) is the same for both, since the completion handler ends by calling it.
There is one `listenerSocket`. `accepts` counts the accepts outstanding, `errors` those
that have ended because the socket was open when they were started, and `connection[c]`
is what has become of a connection. A client is named by its connection. Between its
construction and the moment it is listed its handlers are set one by one (`handlers`),
and it may be lost at any point (`Report`). `networkClients` is a sequence: its
operations are single steps under the queue's mutex (`BlockingQueue`), and its capacity
is that of `size_t`, so that nobody waits. What is left when sockets, threads and handlers are forgotten is
`ClientRegistry`: a client's status is new, listed or gone, and the queue with the
handlers around it implements that (`ImplementsRegistry`). `startAccepting` throws where `NetworkClient`
does, for the same reason, and `ImplShared` says the same.

## 3. Runs

Passing runs:

| run | checks | bounds, and why they are enough |
|---|---|---|
| `framing` | `TypeOK`, `InOrder`, `BufferIsSuffix`, `NoLostWakeup`, `AtMostOneAfterStop`, `EveryPacketDelivered`, refinement of `PacketChannel` | three packets, a length field whose high byte counts, a packet behind and one ahead of it; chunks of 1 byte allow a cut at every place, chunks of 133 and 262 span header, payload and the next packet |
| `malformed` | `OnlyWholeFrames`, `CrashOnlyOnEmptyPayload`, `StarvesOnlyOnARest` | length fields 0 to 8, 260 and 65535 in the middle frame; `MAX_PACKET_SIZE` 8 so that chunks of 9 are refused |
| `blocking_queue` | `TypeOK`, `WithinCapacity`, `NoSleepingTaker`, `NoSleepingAdder`, `TakersServed`, `AddersServed` | four threads, two items, capacity 2: two sleepers on a side beside two active threads |
| `client_session` | `TypeOK`, `OneRead`, `QuietAfterDisconnect`, `NoThreadLeft`, `ConnectedIsReading` | both kinds of client, two connects, all six kinds of packets and two packets, a goodbye handler that disconnects, a lost handler that drops the pointer, an application that drops its own; one outstanding write told apart, one heartbeat may be missed. The third packet would meet no state the second does not: the queue is emptied in order |
| `session_live` | `DisconnectReturns`, `DeadPeerNoticed`, `PacketsAreHandled`, `SettledIsFreed` | an accepted client, one packet, well-formed or not, the same handlers; the application and the goodbye handler may both be in `disconnectAsync`, and the destructor in any thread that may run it |
| `sending` | `TypeOK`, `PeerReceivesPackets`, `LengthIsTold`, `GoodbyesReadBack`, `PeerIsTold`, `EveryPacketArrives` | two writes among the application's, heartbeats and the goodbye; sizes below, at and above a `MAX_PACKET_SIZE` and a compression threshold scaled to 21 bytes (a heartbeat is 20), and one payload whose length wraps; a socket that takes nothing, 12 bytes or all; times that fill one and several bytes; an RTT at and above its threshold |
| `listener` | `TypeOK`, `LiveClientsListed`, refinement of `ClientRegistry`, `DeadClientsRemoved`, `StopReturns`, `IoThreadsComeBack`, `SomebodyServed` | two io threads, two connections, accepting started twice; one outstanding accept and one error told apart: a second accept can be started once the first has ended, before its handler runs |

`CHECK_DEADLOCK FALSE` is set because all of these stop rightly: the peer has sent
everything, the buffer is destroyed, all threads of the queue wait, the client is
disconnected, or nobody accepts any more.

`QuietAfterDisconnect` speaks of states in which nobody is in a join: of two threads
that disconnect, the second finds the stop flag set, skips the join and may be
through while the first still waits. It says that both heartbeat threads are then at
the test of their flag or ended; a check thread whose own lost handler disconnected
could not join itself, and may still be on its way back from that handler.
`NoThreadLeft` is about an accepted client whose lost handler does not disconnect: once its
socket is closed and nobody is in the teardown, its two threads have been joined, even
if a second thread that disconnects found the flags set and went past a join. In a client that
connects it does not hold: the connect handler may start its threads
behind the back of a disconnect, and they stay joinable until the object is destroyed,
which then ends the process.
`PeerReceivesPackets` is about what `sendAsync` did not refuse.

Violation runs; each is a finding in `PROJECT.json`, with the line of the
repository it contradicts:

| run | what the code does |
|---|---|
| `destructor_hangs` | the destructor's notification falls between predicate and blocking; its join never returns |
| `client_outlived` | the application gives up its client while a read is outstanding: the operation keeps `Impl`, not the `NetworkClient`, and the loss is reported when the destructor has begun and nobody holds the client any more |
| `disconnect_hangs` | a disconnect in the heartbeat handler waits for a thread that waits for the handler's mutex |
| `one_connection` | a second peer that connects is accepted and dropped, since the one socket is open with the connection of the first |
| `own_heartbeat` | the receiver rejects the heartbeat the sender makes, and terminates |

The models also have behaviours that no run states a property about yet, and that a
reader of the code should know:

* `addData` need not return. The worker sleeps with the mutex held and retakes it at
  once, and `std::mutex` is not fair. `StarvesOnlyOnARest` says how far that goes:
  only beside a worker that has handed over every whole frame it has and spins on the rest
  of one, waiting for the very bytes that `addData` has, or one that is woken spuriously
  for ever.
* `bufferCount()` right after `addData` of a whole header may be 0, where
  `TestAddingData` expects 4.
* A send before the first connect is not refused as unconnected, as `connected` is
  true from the start; after a disconnect it stays false, and a client that connects
  again never reads. Its threads are started into members that may still be
  joinable, where the one before gave up half-way, and then the process terminates.
* A connect handler that runs behind a disconnect starts threads that nobody
  joins: the next destructor or connect of that client terminates.
* A client whose first connect fails calls the lost handler through an uninitialised
  `owner`.
* A handler that drops the last pointer in the check thread or the worker, as the
  Listener's two handlers do, makes that thread join itself; `join` throws in a
  destructor, and the process terminates.
* `shutdown` throws when the peer is gone: the rest of the teardown is skipped,
  the threads run on, and `connected` stays true (`CloseSocket`).
* `sendAsync` starts its write on the caller's vector and leaves its own copy, `finalData`,
  unused (`NetworkClient.cpp:379`): heartbeats and goodbyes are temporaries, and what the
  socket has not taken when `sendAsync` returns is sent from freed memory
  (`ContinueWrite`). Nor does anything keep two writes apart that are outstanding at once.
* A heartbeat may follow the goodbye, and a write that is outstanding when the socket is
  closed is cut off, the goodbye included.
* A packet of the maximum size, after a slow heartbeat and with compression applied, is
  refused: `sendAsync` builds the compressed packet from an empty vector, and the
  constructor throws. Nothing is ever sent compressed.
* `lastRTT` is read by `sendAsync` before any heartbeat has set it, and what a
  heartbeat sets it to includes the time since the heartbeat before, 30 seconds.
* The application's own disconnect cancels the read and is reported as a loss.
* A heartbeat handled between the comparison of the counter and the assignment of
  `isAlive` does not save the client from being marked dead.
* The handler of the first accept never returns while the Listener runs: it loops in
  `acceptAsync`, and each accept started onto the open socket ends with an error whose
  handler takes another io thread. A client whose read needs one of these threads is not
  served until `stopAccepting`.
* An accept that is outstanding when `stopAccepting` returns still makes a client
  (`StartAccepting`, `StartAccept`, `StopAccepting`, `WaitForFuture`, `AcceptEnds`,
  `HandleAccept`).
* A second `startAccepting` without a stop waits for the first loop, for ever.
* A client disconnected while another is in its place on the socket closes the other
  one's connection; this takes two threads that disconnect the same client.
* A client that says goodbye before its accept handler has listed it is listed
  afterwards, until its missed heartbeats are counted up.

Fairness. Threads that can run do run: weak fairness of each thread's steps. That is
what an operating system gives. `std::mutex` promises no fairness, so taking it is only
weakly fair everywhere. Spurious
wakeups may happen and are never promised. The I/O thread completes what can be
completed, and the check thread of a client whose peer is gone counts on. In `Sending`
only asio's part is fair: a write goes on as long as the socket takes something, or
fails. The peer need not send, and the application need not call anything.

## 4. Proofs

For every set of streams, chunk sizes, packets, threads and every capacity
(the named assumptions on the constants are all that is used):

* `Stream_proofs`: what the sequential reading `FramesIn` finds in a stream. `FramesIn` is
  a recursive function over offsets; that there is one is proved by the least number
  principle applied to the offsets at which it could fail (`FramesExist`), and from then
  on it is used through two equations (`FramesFromFrame`, `FramesFromEnd`).
  `BeginsWith(s, packets, border)` says that s starts with these packets, one behind the
  other, up to border; `BeginsWithFrames` relates that to `FramesIn`, and `CutStream` says
  that whatever a stream of packets is cut off to, the whole ones in it are read and
  nothing else. `LengthRoundTrip`: the two bytes `buildPacket` writes give the length
  back to `readHeader`, if 16 bits hold it.
* `ProcessingBuffer_proofs`: `TypeOK`, `BufferIsSuffix`, `NoLostWakeup`,
  `AtMostOneAfterStop`, `OnlyWholeFrames` and `CrashOnlyOnEmptyPayload` are invariants,
  for every stream of bytes. They are not inductive alone. `IInv` adds
  that a worker in the body holds the mutex (`LockInv`), that it only blocks having
  seen an empty buffer (`BlockInv`; together with `LockInv` this is why nothing is
  pushed in between), that a packet being cut counts against the one delivery
  after a stop (`StopInv`), and that the handler is called with a packet that
  exists (`HandlerInv`). For the frames it adds that the header variables are the last
  four bytes popped for as long as the header is in force, across any number of
  iterations (`HeaderInv`), that the packets constructed are those the accepted bytes begin
  with, up to that header or to what is not popped yet (`ConstructedInv`), and
  that all of them but the one in hand have been handed over (`HandedInv`).
* `Framing_proofs`: `InOrder`, and `ImplementsChannel`: each step of the
  implementation is an `Arrive`, a `Deliver`, a `Close` or a stutter of
  `PacketChannel`. `FInv` says that what is taken out of the buffer ends at the start
  of a packet or 4 bytes behind it (`StreamInv`, `FrameInv`), that the header variables
  hold that packet's fields, and that what was delivered are the packets before it
  (`DeliveryInv`).
* `BlockingQueue_proofs`: `TypeOK`, `WithinCapacity`, `NoSleepingTaker` and
  `NoSleepingAdder`. The inductive invariant counts: as long as somebody sleeps in
  `notEmpty`, there are at most as many items as threads on their way to take one.
  Dually for `notFull`. It uses the finiteness of the set of threads.
* `NetworkClient_proofs`: `TypeOK`, `OneRead`, `ConnectedIsReading`,
  `QuietAfterDisconnect` and `NoThreadLeft`, for both kinds of client, any handlers and
  any number of connects, packets and writes. The invariant has four arguments.
  Reads: a connect is only outstanding on a socket nobody reads from, so its handler and
  that of a read cannot both start one (`SocketInv`), and an open connection has its read
  at every place of the I/O thread but those on the way to it (`ReadingInv`).
  Threads: one that is not at an end is joinable, and one told to stop is at the test of
  its flag or somebody is in the join for it (`ThreadInv`; `CallInv` says when a check
  thread can be in the teardown itself). Teardown: once a client that never connected
  has closed its socket, each of its threads is joined or somebody is on the way to it
  (`TeardownInv`), which with nobody in the teardown is `NoThreadLeft`. Start: such a client
  has no connect outstanding, so that no handler of one starts its threads again
  (`StartInv`). `InHandInv` is that a
  packet being handled is still in the queue, which `TypeOK` needs where it is removed.
* `Listener_proofs`: `TypeOK`, `LiveClientsListed` and `ImplementsRegistry`, for any number
  of io threads, connections and starts. `HandlingInv` says that an accept handler owns
  its client: no other handler has it, it has not been added, and its handlers are set in
  their order. `AddedInv` says that what is in the queue was added, and that both
  handlers of an added client are set. So a report of a listed client always takes
  it out, an add is always of a new client, and each step is a `List`, a `Report` or a
  stutter of `ClientRegistry`.
* `InternalPackets_proofs`: `GoodbyeRoundTrip`, that every 64-bit timeout and every
  64-bit time from the epoch on survives `toByteArray` and `fromByteArray`, but for the
  milliseconds. A number is four 16-bit words, a word two bytes (`WordSplit`), and the
  words add up whatever the sign (`WordsAddUp`). `HeartbeatIsNeverParsed` is the finding
  `own_heartbeat` for every time.
* `Sending_proofs`: `TypeOK`, `LengthIsTold`, `PeerReceivesPackets`,
  `GoodbyesReadBack` and the action property `PeerIsTold`, for every payload,
  clock, limit and way the socket takes the bytes in parts. That an orderly wire is a prefix of
  the bytes given is not inductive: `OpenInv` says that as long as writes were orderly and the socket is open,
  all the bytes given are those on the wire followed by the rest of the one outstanding
  write. When the socket is no longer open the rest may be dropped, and the wire only
  stays a prefix. `LengthIsTold` rests on the size check being on the bytes (`Accepts`)
  and `MAX_PACKET_SIZE` fitting 16 bits. `PacketsInv` adds that the bytes given are the
  packets taken, one behind the other, that a goodbye is among them as soon as one was
  built, and that each of them reads back (`GoodbyeRoundTrip`). The wire is that stream
  cut off somewhere, and `CutStream` says what the peer can read in it. That a clock's
  count fits in 63 bits, as an `int64_t` does, is an assumption on `Times`.

Every safety property that a passing run checks is proved. Only model-checked are the
liveness properties, and with them everything that depends on fairness and `ENABLED`,
which the prover cannot handle: `EveryPacketDelivered`, `StarvesOnlyOnARest`, `TakersServed`,
`AddersServed`, `DisconnectReturns`, `DeadPeerNoticed`, `PacketsAreHandled`,
`SettledIsFreed`, `EveryPacketArrives`, `DeadClientsRemoved`, `StopReturns`,
`IoThreadsComeBack`, `SomebodyServed`. No module declares a RECURSIVE
operator.

## 5. Not modelled, and the plan

The order was: the byte path (`Packet`, `ProcessingBuffer`, `Framing`), the queue,
the connection, the Listener, then lifetimes and reconnecting, the outgoing stream and
the codecs; then the proofs, in the same order. Left:

1. Two clients back to back: an abstract connection that `Sending` at one end and
   `Framing` at the other implement. Both ends are proved to keep the packets whole and in
   order (`PeerGetsPackets`, `FramesDelivered`); what is missing is one module in which
   the wire of the one is the input of the other.
2. The step from `Listener`'s one-step `Take` and `Append` to `BlockingQueue`'s
   `TakeItem` and `Add`, which is now an argument in words.

Not modelled, of what is in the build:

* what zlib makes of data (`compressData`, `decompressData`): it is external, and
  `sendAsync` never gets to send what it compressed. That `decompressData` may throw is in
  `HandlePacket`;
* setting a handler or `setApplyCompression` while another thread may read it: a data
  race on a `std::function` has no outcomes that can be enumerated. Handlers are set
  before the client is used, except in `Listener`, where it is the order of the
  setters that matters and that is modelled;
* the `Listener`'s destructor and `setApplyCompression`;
* the one-sided shutdowns of `Socket`, which nobody calls.

Left out for good: `Logger` (output), headers that no file of the build includes
(encryption, which would not compile, and `PacketHandler`), build files, precompiled
headers and the DLL entry point.
