# sentinet_cpp: a verification development

sentinet_cpp (`src/`) is the C++ communication layer of a robot: control
clients that publish, subscribe, request and serve over ZeroMQ on threads of
their own, proxies between them, a kernel that drives a Teensy micro-controller
over a serial line, and a C library of wire formats. This directory holds TLA+
models of it, TLC configurations that check them and TLAPS proofs about them.

## 1. Inventory

| Component | State it keeps | Operations | Talks to |
|---|---|---|---|
| **ZMQ control client** `control/ZMQControlClient` | four maps key -> {thread, exit promise, socket}; a one-shot PUB and a one-shot REQ socket; a ZeroMQ context | periodic publish / request, subscribe, serve, bind_server, one cancel for each, quit; one-shot publish and request | starts the thread functions below |
| **Network patterns** `control/NetworkPatterns` | per thread: socket, exit future, callback; for the whole process: `mutex_lock` | four loops: publish, subscribe, request, serve | calls the application's callbacks |
| **RMT control client** `control/RMTControlClient` | `ping_callbacks`, one request and one reply buffer | ping_endpoint, register_ping_func, the ping server's callback | a ZMQ control client with a bound server |
| **Kermit kernel** `kernel/KermitKernel`, `KermitNetworkInterface` | `receiving_cvels`, the teensy and localizer messages, `running`, the sender thread | cmd_vel callback, state-request handler, sender loop, start, quit | RMT client, serial line, localizer |
| **Pipes and proxies** `messages/pipe/` | id -> proxy and thread; per proxy: `running`, `paused`, `adding_filter`, filters, registered callbacks | create, stop, kill, signal, register_signal, set_filter; spin loop of a PUB/SUB and of a ROUTER/DEALER proxy | sits between clients |
| **Data messages** `messages/data_messages.c`, `rmt_messages.c` | a 256 byte buffer with a field index | serialize, get, to / from wire; the robot's messages built of them | every message sent |
| **Ping messages** `messages/ping_message.c` | header and excess bytes | to_wire, from_wire, getters | RMT client, kernel |
| **Byte utilities** `messages/data.c`, `checksum.c` | none | network order, smallest size, byte reversal, checksum | data messages |
| **Serial line** `kernel/serial.c` | file descriptor, a buffer shared by reads and writes | open, write, read with timeout, read_until; 17 byte frames to and from the Teensy | kernel's sender thread |
| **Localizer filter** `Simple_Localizer` | last teensy and camera values | convert one message into a path state | filter of a PUB/SUB proxy |
| **Position localizers** `PosLocalizer`, `AprilDetector` | a position guarded by a mutex | set_pos, get_pos, print_state | a ZMQ control client |
| **Wii remote control** `controllers/wiimote.cpp` | velocities, toggles | button handling | not built by any CMake target |

### How the components interact

The application calls a control client on its own thread. The client makes a
promise and a socket, and moves both into a new thread that runs one of the
loops of `NetworkPatterns.cpp` until the promise is satisfied; a cancel
satisfies it and joins. The loops call back into the application, all of them
under one static mutex, except a publisher's `get_data`, which no lock
protects. The kernel is a client whose callbacks set the state that its sender
thread writes to the serial line every 100 ms. Proxies run a second family of
threads, each with flags that other threads set.

### What is hard, and what correctness means

* **Ending threads.** Cancels, quit and destructors race with loops that look
  at their exit signal only between two blocking calls. Correct: a joined
  thread runs no callback; quit leaves nothing; a join ends.
* **One lock for everything.** Callbacks, and a requester's sleep, run under
  one lock. Correct: callbacks exclude each other, and no dead peer can keep
  the lock from the others.
* **Requests.** REQ sockets are strict alternation; retries recreate sockets.
  Correct: a reply belongs to the request it answers, no more than the promised
  number of sends, a client that failed can be used again.
* **Robot state.** Commands and velocities arrive on different threads.
  Correct: once a stop has been acknowledged the robot stays stopped until a
  command that starts it.
* **Proxy flags.** stop, pause and filters are set from outside the proxy's
  thread. Correct: stop ends it, a pause is temporary, filters are complete
  before they are used.
* **Wire formats.** Lengths, limits at 32 fields and 256 bytes, resynchronising
  a byte stream. Correct: what was written is read back, nothing overruns.

## 2. Plan

The project was built in this order, the most important behaviour first.

1. `ControlClient`: threads, cancels, quit, destruction; its abstract
   specification `WorkerPool`; `ControlClientProofs`.
2. `KermitKernel`: state requests, velocity commands, the sender, the
   localizer, printing, signals and the end of the process;
   `KermitKernelProofs`.
3. `Proxy` and `Pipe`: the life of a proxy thread, the signals to it, filters,
   and the pipe that owns the proxies; `PipeProofs`.
4. `PingMessage` and `Request`: a ping with its retries over a network that
   loses and delays; its abstract specification `RequestReply`;
   `RequestProofs`.
5. `DataBuffer` and `DataMessage`, `RobotMessages`, `Localization` (its
   abstract specification is `PoseEstimate`), `SerialLine`: the formats, and
   the programs that rely on them; a module of proofs for each.

What could follow: the composition of `KermitKernel` with `SerialLine` (the
kernel has a response or none, where the line has bytes), two callers of
`ping_endpoint()` once the code has a lock for them, and pipes whose calls by
id are repaired.

## 3. Modules

| Module | What it is |
|---|---|
| `ControlClient` | the calls on control clients and the loops of their threads |
| `WorkerPool` | what a client promises about its threads, without sockets, promises or locks |
| `KermitKernel` | the kernel: main thread and signal handler, three client threads, the sender |
| `Proxy` | the loop of a proxy on any number of threads, and the calls on it |
| `Pipe` | extends `Proxy` by the pipe and the programs built on it, and states the specification |
| `PingMessage` | the wire format of pings, as operators |
| `Request` | `ping_endpoint()`, `request()` and the ping server, over `PingMessage` |
| `RequestReply` | what a sequence of calls promises, without sockets, attempts or bytes |
| `DataBuffer` | the data buffer and its operations, as operators on arrays of cells |
| `DataMessage` | the life of one buffer |
| `RobotMessages` | the messages of the robot as buffers with fixed places |
| `Localization` | the camera process, the kernel's publisher and the localizer filter |
| `PoseEstimate` | what a receiver of the localizer topic may rely on |
| `SerialLine` | the commands to the Teensy and its bytes |
| `MC...` | instances of the module it names, for TLC |
| `...Proofs` | theorems about the module it names; `DataBufferProofs` is used by those of `DataMessage` and `Localization` |

The modules share no state. `KermitKernel` does not instantiate
`ControlClient`: it has the three threads the kernel starts, with the loops of
`ControlClient` cut down to what their callbacks see; that a cancelled thread
ends, and that callbacks exclude each other, is what the runs and theorems of
`ControlClient` establish. In the same way it takes a drive frame and a
response as one step each, where `SerialLine` has bytes, and a ping as a
record, where `PingMessage` and `Request` have its bytes.

A definition whose comment begins with "mutant of" is not part of the model: it
is the definition it names with a plausible bug in it, kept to show that a
property does depend on that line of code.

### ControlClient and the code

*Workers.* `Workers` is the set of threads an application may start, each a
record of its client, its kind (which of the four maps of `thread_space`) and
its key there. `thread_space[w]` is the state of the map entry: absent; its
promise unset ("running"); set ("signalled"); its thread joined. Nothing erases
an entry (`ZMQControlClient.cpp:107-221`). `unused_socket` are the entries
whose socket was replaced by `create_socket()` and not moved to a thread.

*Calls.* `PeriodicPublish`, `PeriodicRequest`, `Serve` (serve and bind_server)
and `Subscribe` do their lookup and spawn in a step: no other thread looks at
the maps. `Cancel` stands for the four cancels, which are one code over four
maps. A cancel and `quit()` take several steps: set the promise (`Signal`),
wait for the thread (`JoinReturns`); `quit()` walks its four loops in order
(`QuitStep`). `Destroy` and `ContextCloses` are the empty destructor, which
terminates the ZeroMQ context first. `ret` is how a call ended, exceptions
included.

*Threads.* `pc[w]` is the place in the loop of `NetworkPatterns.cpp`: "start"
(properties taken, socket attached), "check" (the exit signal), "poll"
(zmq::poll of 100 ms), "data" (get_data and send), "recv" (a requester's
s_recv), "lock", "callback", "reply", "sleep", "done". `mutex_lock` is its
holder; a requester holds it through its sleep, as the guard of line 130 lives
to the end of the loop body. `channel[r]` is where the request of requester `r`
is, `serving[s]` whose request server `s` works on.

*Left out.* What messages say. `serve()` and `bind_server()` differ in connect
and bind, which `Routes` stands for. Callbacks are opaque and call no client.
One application thread uses a client. Memory, and failures of ZeroMQ other than
the termination of the context.

### KermitKernel and the code

*Main thread.* `main` goes through the constructor (`Register`), `start()`
(`OpenTeensy`, `StartSender`, `StoreSender`, then `InitComms`: two `Spin`s),
the loop of `kermit_start()`, `print_state()` (`PrintState`, `Printed`).
`Lines` are the outcomes of opening the port, a failure, which the code
ignores, among them. A thread starts in one step and is stored in another:
`held` are the threads that `async_sender` and the maps of the client have,
`entries` the map entries that are there. `Signal` is the delivery of SIGINT or
SIGQUIT, between any two of these steps: the handler runs on this thread and
destroys the kernel, whose destructor is `kermit_quit()`: `JoinSender`, which
joins what is in `async_sender`, then the joins of `quit()` in the order of its
loops (that of an entry without a thread ends the process), `Cleanup`, the base
destructor's close of the line, and `Exits`.

*Server.* `ReceivePing`, `AcquireLock`, `HandlePing` (lookup in
`ping_callbacks`, `robot_ping_handler()` or the default reply), for a stop
`WriteLin` and `WriteAng` under `guard`, `SendReply`. A code is a set of bits,
and so is the excess field; `GivesLeave` and `TakesLeave` are the effects of
the seven handlers on `receiving_cvels`.

*Subscriber.* `ReceiveCmdVel`, `AcquireLock`, `DriveMessageCallback` (tests
`receiving_cvels` and settles on the command or on zero), `WriteLin`,
`WriteAng`, `CallbackReturns`.

*Publisher.* `ReadMeasuredV` and `ReadMeasuredW` are `localizer_cmd_get_data()`
under `guard`.

*Sender.* `SenderChecks` (`while (running)`), `ReadArgument` for each of the
two unlocked reads in either order, `SendDrive`, then no response or
`ReadResponseV` and `ReadResponseW`, unlocked writes. `frames` counts the
frames since the last reply to a ping, up to two.

*Left out.* The bytes of frames and messages, failures of the open line, w_err
and dt (they move with v and w), a bounded life time (`set_alive_time()` is
given 0), the command line. A float is stored in one step. Signals are
delivered to the main thread only. The data race between
`register_ping_func()` and the lookup is an insertion at one moment. Garbage is
the value of a member that was never written, distinct from every speed.

### Proxy and Pipe and the code

*The loop.* A thread `t` is a proxy's own thread or an application thread, as
the signal `START` runs `start()` on the thread that calls `signal()`.
`target[t]` is the proxy it is at and `pc[t]` the place: "enter" (`paused =
false`), "bind" (`__start__()`, new sockets), "test" (the loop's condition),
"lock", and inside `__spin__()` "poll", "spin" (what the poll found), "filter"
(the test of `adding_filter`), "raw", "convert", "send", or "dealer" for the
server proxy. `locker[p]` is held from "lock" to the end of `__spin__()`. A
second `Bind` loses what the old sockets have queued, and either throws,
because the address is taken, or goes through (`BindFails`, `Bind`).

*The calls.* `Signal` with the functions of the constructor (stop, kill, start,
pause) and those of `RegisterSignal`; `KillEnds` (ten seconds later the process
ends), `PauseEnds` and `PauseReturns` (the caller of `pause()` waits);
`AddFilter`, `PushFilter`, `FilterAdded` are the three lines of `add_filter()`.
Growing the vector while a thread iterates over it may end the process.

*The pipe.* An endpoint is created in four steps: `Create` (an entry without a
proxy), `InsertProxy`, `StartProxyThread` and `StoreProxyThread` (the
assignment to `t_space`). `SetFilter`; `StopPipe`, `StopProxy` and `JoinProxy`
for each entry, and `Exit`. `Interrupt` is the handler of `kermit_proxy`, which
runs `stop()` on the main thread wherever that is: a join that was interrupted
is begun again and throws, an entry without a proxy is a null pointer, and a
thread that is not yet in `t_space` is not joined. `CallUnknown` is what the
calls by id do to an id that is not there; for one that is there they do
nothing. `owned` are the proxies of a program without a pipe, which two threads
call directly (`DirectCall`). `Arrive`, `Serve` and `Reconnect` are other
processes.

*Left out.* What filters do (`Localization` has the one there is); multi-part
messages, which the server proxy passes part by part; the sleep between two
rounds.

### Messages and the code

*`DataBuffer`.* A cell is a byte. `create_buffer`, `to_wire`, `serialize_data`
(with `Fits`, the length check, and the three ways of copying: by the type's
width, which is `Width` for each type code, by bytes, by 64-bit words),
`get_data`, `get_number_fields` and `Found` are operators over the array and
the two members that change. `overran` says that a copy wrote beyond the array.
Two assumptions of the build: network order conversion is switched off
(`NO_NET_BYTE`), and machines are little endian.

*`DataMessage`.* `Serialize` and `ToWire` in any order, on one buffer. An
element is remembered with the bytes it was given.

*`RobotMessages`.* The `create_...()` functions, which look up the places of
the members once, and the `..._to_wire()` and `..._from_wire()` that copy to
and from these places. A float is four equal cells; one that mixes two reads as
`Torn`.

*`Localization`.* The camera process: `SyncStart` (whose result `main()` does
not use), `Detect`, `LockPosition`, `SetPosition` member by member,
`UnlockPosition`, `CaptureFails`, `CloseWindow`, `Destroy`, and the publisher's
`PublishPosition`. `PublishMotion` is the kernel, which publishes the v of one
measurement and the w of the same or another, as the sender's thread stores
them without the lock under which they are read (`Unmeasured` before the first
response); `PublishOther` is a program that sends something else on the topic.
`Convert` is `Simple_Localizer::convert()` in the proxy.

*`PingMessage`.* Bytes at the positions of `ping_message_keys.h`. `Sent` is
what goes over the wire, `PING_HEADER_SIZE` bytes; `InMemory` is what the
getters of the receiver find, which read four bytes more than arrived.
`Carried` is the part of a ping that survives.

*`Request`.* `PingEndpoint` moves the socket out of `this_client`;
`SendRequest`, `ReceiveReply`, `Retry`, `GiveUp` are the loop of
`concurrent_request()`, and `Finish` makes the next socket. `requests` and
`replies` are the network: they are sets, so a message may be overtaken by any
other, and `Lose` takes any. A reply whose socket is gone is dropped. `Handle`
is `ping_server_callback()` in another process, `RegisterPingFunc` its
registration.

*`SerialLine`.* `SendDrive` is `teensy_send_data()`, `ReadByte`,
`NothingToRead` and `ReadError` are the loop of `serialport_read()`,
`TakeResponse` and `RefuseResponse` what `read_teensy_response()` does with 17
bytes. `Answer` and `Arrive` are the Teensy and the line, external. `Received`
is what the terminal makes of a byte: `serialport_init()` leaves ICRNL set, the
one translation of input that a terminal of Linux has by default, and 13
arrives as 10. `fd` may be -1, and `leaked` says that a descriptor stays open
behind it.

*Left out.* Float formats, the checksum (written as 0 by pings and data
messages, looked at by nobody), printing functions, and reads of a data message
whose fields were not written by this library.

## 4. Runs

| Run | What it asks | Answer |
|---|---|---|
| `client_node` | safety of one client with a thread of each kind, and refinement of `WorkerPool` | holds, 0.2 million states |
| `client_live` | do joins and `quit()` end, do received messages reach their callback | holds |
| `client_quit_hangs` | does `quit()` end for a node that requests from itself | no |
| `kermit_drive` | safety of the running kernel with a Teensy | holds, 2.2 million states |
| `kermit_stop` | does a stop reach the serial line | holds |
| `kermit_quit` | does the process end after a signal, is the line kept for the sender that is joined | holds |
| `pipe` | safety of a publisher and a server proxy, with a pipe and without | holds |
| `pipe_live` | do stopped loops end, does the stop of a pipe end the process | holds |
| `data_message` | is what was added to a message read back, what overruns | holds |
| `localization` | does a receiver see whole positions and published velocities, refinement of `PoseEstimate` | holds |
| `request` | whose answer does a call return, refinement of `RequestReply` | holds |
| `serial` | what is taken for a response after failed reads, what shifts where reads begin | holds |

### What the properties say

Of the client: callbacks exclude each other (`CallbacksExclusive`), a joined
thread never runs (`JoinedIsOver`), a request that was read is answered
(`TakenIsServed`), `quit()` leaves nothing (`QuitStopsAll`) and the destruction
after it is clean (`NoTerminateAfterQuit`). Of the kernel: a stop that was
replied to stands (`StopStands`), at most one more frame moves the robot
(`StopWithinOneFrame`), a component of the velocity becomes non-zero only while
commands are welcome (`MovesOnlyWithLeave`), the sender that `kermit_quit()`
finds never uses the line after it was closed (`SerialLineKept`). It says
nothing of a sender that a signal found started and not yet stored: that one is
not joined, and the line is closed under it (section 6).

Of proxies: two threads are never in `__spin__()` of one proxy
(`SpinExclusive`), which is what `locker` is for; `__start__()` does not take
it and may replace the sockets under a thread in `__spin__()`. Messages leave
in the order they came all the same (`ForwardsInOrder`). When `stop()` of the
pipe lets the process exit, at most one thread of a proxy is left, that which a
signal found started and not yet in the table (`ExitIsClean`). That one can be
left (`NoThreadAtExit`, `PipeUnjoined.cfg`). A stop ends every loop for good
(`StoppedLoopsEnd`, `PipeStops`). `StoppedLoopsEnd` excepts proxies whose
sockets a second `start()` replaced under a thread: that thread may wait for
ever on a socket that has nothing.

Of messages: an element reads back as it was added unless it or one before it
has another length in the array than its size says (`ReadsBack`); a message
writes behind its array only after a value was added whose copy is longer than
its size, by 64-bit words or by the width of a wider type
(`OverrunsOnlyByLongCopies`); and neither elements nor headers change earlier
elements (`AppendOnly`). The position that is published was set at one moment
(`PositionWhole`); what the filter sends keeps its header and its five elements
(`PathIsMessage`); and a receiver at the end of the way from the two sensors
sees whole positions, and v and w replaced together, each of which was measured
or was there before anything was, but not necessarily in one measurement
(`EstimateSpec`). That `dt` of the camera is stored in the header of its own
message does not disturb that.

Of requests: what is handled is what was asked, three times at most
(`HandledAsAsked`), a call returns (`CallReturns`), and returns an answer to
its own request or the zero ping (`RequestReplySpec`).

Of the serial line: as long as no measurement has a byte that reads as 'r', a
measurement is taken whole, as the line delivers it, once and in order,
although reads fail in the middle (`AcceptedInOrder`). With such a byte this is
false, which is why the property asks for it; and as the line delivers it is
not always as the Teensy wrote it (`AcceptedAsWritten`, `SerialLineRaw.cfg`).
Where reads begin shifts only with a read that is cut (`OnlyCutsShift`): a response
that is refused does not bring the thread back in step with the Teensy, only
another cut does.

### Bounds

`client_node` has one worker of each kind: the kinds differ in the code they
run, two of a kind run the same code and meet only at `mutex_lock`. Entries are
never erased, so a worker is started once and the state space is finite without
a bound on calls. `client_live` leaves out the publisher, which takes no lock.
In `kermit_drive` the six pings give leave, take it, stop, leave things as they
are, and get the default reply; one command with both components non-zero is
enough to see a command that comes too late. `MaxSignals` is 2: after the first
the handler runs, the second ends the process, a third would find nothing.
Opening the line may fail (`Lines`), but in `kermit_stop`, which asks what is
written to it.
`frames` stops at 2, the first count the property speaks of.

`pipe` has a proxy of each kind, two application threads with one call each
(enough for two threads in `start()` of one proxy besides its own), two
messages, enough to be out of order, and one interrupt, which may come at every
step of `main()`. `pipe_live` has one message: it asks what ends, not in which
order things go. `data_message` shrinks the array from 256 to 40 bytes and the
fields from 32 to 4, so that four elements reach both limits; its fifteen
values have every type code with a width and two sizes that are not the width,
one of them that of the angular velocity in `teensy_msg`; the theorems hold for
any sizes up to 256. `localization` has two positions that differ in every
member, a measurement, the velocities that were there before it, and a queue of
two. `request` has two calls, so that the second may meet what the first left
in the network, of two types, one of which the server may have a function for;
three attempts are the code's. `serial` has floats of one byte (a response of 5
bytes instead of 17), two measurements, one of which has an 'r' and one a byte
13, and three responses to four commands, so that a response can be late, cut
and followed by another.

Deadlock is checked in the runs of the kernel, of `data_message` (a header can
always be written) and of `localization`. In the others the system may stop: an
application has destroyed its clients, the process has ended, the bound on
messages, calls or commands is reached.

### Fairness

Weak fairness on the steps of each thread: the scheduler runs them. Strong
fairness on the acquisition of a lock that is free again and again
(`AcquireLock`, and `guard` in `WriteLin` and `ReadMeasuredV`): a holder of
`mutex_lock` goes through a poll, a receive or a send on a socket before it
takes it again, and a holder of `guard` through a message, a sleep or a
publication, so a waiter is not passed over for ever. No fairness for the
application's calls, the arrival of messages, signals or printing. `quit()` of
a client with requesters needs their servers to answer (`ServersAnswer`), and
`QuitEndsIfAnswered` says so; `JoinEnds` and `ReceivedIsHandled` do not need
it. In `Pipe` and `Request` weak fairness of threads is all, also for `locker`:
a stopped proxy's loops leave one after the other. A server proxy's DEALER
blocks without a server, so the two properties of `pipe_live` ask that one
stays connected (`BackendAnswers`). Nothing is promised of the ping server in
`request`: the 100 ms of each attempt end by themselves.

## 5. Proofs

`ControlClientProofs`, for any clients, keys, topics, workers and routes, under
the assumptions on constants at the head of `ControlClient`: `TypeCorrect`,
`MutualExclusion`, `Joined`, `RequestsServed`,
`QuitLeavesNothing`, `DestroyAfterQuit`, and `Refinement` of `WorkerPool`.
`IInv` adds to the types what the properties leave unsaid: a thread exists from
the creation of its entry and ends only when signalled (`Lifecycle`); whoever
is in a stretch of code under `mutex_lock` is its holder (`HolderInside`); a
request that was read is with a *server* that still has to reply
(`ServerHasRequest`, which `TakenIsServed` without the kind is too weak to
preserve); what a join waits for (`JoinTarget`); and for `quit()` that every
entry of the client is joined, being joined or still to do (`QuitProgress`).
Mutual exclusion follows as two holders of one lock are one. The refinement
maps an entry and a place to a phase, and each action to one action of the pool
or to none.

`KermitKernelProofs`, for any speeds, commands, pings, samples and number of
signals: `TypeCorrect`, `StopIsKept`, `StopIsSent`, `LineNotClosedUnderSender`,
`MovesWithLeave`. That a stop stands is not inductive. A command may have been
taken before the stop: `LockHeld` and `TargetHasLeave` say that it can be
stored only by a callback that holds the lock and only while `receiving_cvels`
holds; `StopInProgress` that the handler has cleared `receiving_cvels` before
it writes the zeros and that both are in place before the reply; `StopSettled`
that after the reply nothing gives leave but a server callback, whose reply
ends the claim. For the frames, `StopSettled` adds that the arguments read
after the first frame are zeros. `Places` says which places a thread can be in
and what the constructor has done by then; `SerialInv` that the line was tried
before a sender starts and, of the sender that is in `async_sender`, that it is
done before the line is closed.

`PipeProofs`, for any proxies, callers, signals, messages, calls and
interrupts: `TypeCorrect`, `OneThreadSpins`, `SentInOrder`,
`AtMostOneOutlivesExit`. The types need `HandsFull`, that a thread in a place
between receiving and sending has a message in its hands. `SpinExclusive` is
inductive with the places threads can be in (`SpinInv`). The order of messages
is not: `OrderInv` says that what was sent came before what a thread has in its
hands, and that before what is queued, and needs `SpinInv`, without which two
threads have a message in their hands. That at most one thread outlives the
exit needs `ExitInv`: while main() stops the pipe, every entry with a thread is
joined, being joined or still to do, but one that an interrupt left half
created.

`RequestProofs`, for any pings of known types, any bytes behind a message, any
number of calls: `TypeCorrect`, `RequestsHandledAsAsked` and `Refinement` of
`RequestReply`. Three times at most is not inductive: `ThreeInAll` counts the
requests of a call that were handled, those in the network and the attempts
left, three together. `HeaderCarries` is about the bytes: what the receiver
reads, whatever lies behind the message in its memory, is the type, the code
and the first half of the excess that were written. For the refinement,
`SocketIsNew` says that no message in the network is from a socket that is yet
to be made, `SocketHasCall` that the requests of the present socket are of the
present call, and `ReplyIsAnswer` that a reply to it is an answer to that call,
which was handled.

`DataBufferProofs` has the lemmas about the operators on the array: what
`to_wire()` and `serialize_data()` leave alone, what they write, and
`ElementPlace`: for elements one behind the other, each ended by its
terminator, `get_data()` finds every one of them. It is an induction over the
elements of a message. The library's induction theorems take a predicate as a
parameter, which the provers cannot instantiate, but the least element of a
set of numbers needs none: `LeastNumber` comes from the well-foundedness of
`<` (`WFMin` of `WellFoundedInduction`), and each induction is an argument
about the least number in the set of wrong ones. `AddFloatsStep` and
`QuadsAdded` in `LocalizationProofs` are of the same form.

`DataMessageProofs`, for any elements of any length and any array up to 256
bytes: `TypeCorrect` (the length stays within the array), `LengthCheckHolds`,
`ElementsStay` and `WhatWasAdded`. An element reads back by `ReadInv`: the
place of each element is the end of the one before it
(`OneBehindTheOther`), and its size, type and, if the copy had the length the
size counts, its bytes and terminator are in the array (`AllWritten`). The
chain that `get_data()` follows is then that of the elements.

`LocalizationProofs`, for any positions, measurements and number of messages on
their way, and any array that has room for the largest message
(`RoomAssumption`): `WholePositions`, by the invariant that the members set so
far are those of the new position; `TypeCorrect`, `PathStaysMessage` and
`EstimateRefinement`. These rest on the bytes of each message: `PathMade`,
`CmdVelMade`, `TeensyMade` and `CameraMade` say what the `create_...()`
functions build and where they find their members, `MembersStored` that members
with places of their own are read as they were written and all else stays. The
invariant (`LocalizationInv`) is that each message on its way is one of three
kinds (`Wires`), of which `CameraRead`, `TeensyRead` and `OtherRead` say what
`convert()` takes from it, and that the outgoing message has its header, its
five elements and, in their places, the estimate (`Holds`). What a receiver
reads is then the estimate itself (`ReceivedState`), and a step of the filter
is one of `PoseEstimate` or none.

`SerialLineProofs`, for floats of any size, any number of answers and any
failures of reads: `TypeCorrect` (a read stays within the buffer),
`WholeInOrder` and `ShiftOnlyByCut`. The first of these two is not inductive:
`ReadSoFar` says that the buffer has the latest bytes of the line, as they were
delivered, as far as the present read has come, and `TakenBefore` that what was
accepted is matched with answers in their order whose bytes all lie before
those of the present read. A response that begins with 'r', when no measurement
has such a byte, begins where an answer does, as no other byte is delivered as
an 'r', so the new one is whole and later than those before it.

Each `Init => IInv` and `IInv /\ [Next]_vars => IInv'` has one lemma or step
per action.

Every safety property of the runs, every action property and every refinement
has a theorem. Only model-checked are the liveness properties (`JoinEnds`,
`ReceivedIsHandled`, `QuitEndsIfAnswered`, `StopReachesTeensy`, `QuitEnds`,
`StoppedLoopsEnd`, `PipeStops`, `CallReturns`) and the absence of deadlock, as
fairness and ENABLED are out of the prover's reach.

The theorems assume of the constants what the modules state as ASSUME, and
nothing else. Of sizes these are: an array of at most 256 bytes with room for
its header (`SizeAssumption`), for the messages of the robot room for five
elements of four bytes and more than five fields (`RoomAssumption`; the code
has 256 bytes and 32 fields).

## 6. Where code and documents disagree

One disagreement has a run:

* `quit()` is to "return satisfactorily and clean up all thread or publishing
  objects" (`ControlClientInterface.hpp:187`). It hangs for a client that
  periodically requests from a server of its own (`client_quit_hangs`).

Eight more have a configuration of their own; each ends with a counterexample,
as `tlc -config X.cfg MCX` shows with the instance it belongs to
(`MCControlClient`, `MCKermitKernel`, `MCPipe`, `MCSerialLine`):

* `quit()` throws after any cancel (`ControlClientQuitThrows.cfg`).
* A repeated subscription is to be refused ("Subscriber Already Exists",
  `ZMQControlClient.cpp:188`); the lookup uses the wrong key, and
  `get_future()` throws (`ControlClientResubscribe.cfg`).
* `kermit_quit()` takes no lock, deliberately
  (`KermitNetworkInterface.cpp:30`), and deadlocks all the same when the signal
  interrupts `print_state()` (`KermitKernelQuitPrinting.cfg`).
* `kermit_quit()` is to join the sender before it closes the serial line
  (`KermitNetworkInterface.cpp:32`); a signal between the start of the thread
  and the assignment to `async_sender` (line 75) finds nothing to join, and the
  destructor closes the line under the sender (`KermitKernelUnjoined.cfg`).
* "Need mutexes on these babies" (`KermitNetworkInterface.cpp:77`) is right: a
  frame can mix two commands (`KermitKernelTorn.cfg`).
* "code has the ore'd bits for what state to change"
  (`ping_message_keys.h:68`): a code of several bits is acknowledged and
  ignored, a stop among them too (`KermitKernelOred.cfg`).
* `stop()` of a pipe is to "Stop the whole thing" (`PipeInterface.hpp:49`).
  Called by the handler of a signal that came between the start of a proxy's
  thread and its assignment to `t_space` (`PipeInterface.cpp:47`, `:77`), it
  leaves that thread running while the process exits (`PipeUnjoined.cfg`).
* `serialport_init()` is to "make raw" (`serial.c:80`) and leaves ICRNL set
  (`:78`): a byte 13 of a measurement is taken as 10 (`SerialLineRaw.cfg`).

Noted while modelling, and part of the models as they are:

* `pause()` is to pause "temporarily" (`ProxyInterface.hpp:44`): it ends the
  loop, and nothing but a new `start()` begins another.
* `stop(id)`, `kill(id)`, `signal(id)` and `register_signal(id)` of a pipe test
  `find()` the wrong way round (`PipeInterface.cpp:90`).
* `serialize_data()` copies by words of 64 bits and counts four bytes a word
  (`data_messages.c:215`), and returns 0 when it has refused an element.
* `create_camera_msg()` never sets the place of `dt`, which lands on the
  protocol version of the message (`rmt_messages.c:269`); receivers look at the
  type in the first element and do not notice.
* `PING_HEADER_SIZE` is 11 and the message is 15 bytes
  (`ping_message_keys.h:18`).
* `AprilDetector` does not store what its constructor is told about the window,
  `main()` ignores that the camera could not be opened, and the publisher sends
  a position before there is one.
* `serialport_init()` leaves a descriptor open when it fails after `open()`,
  and the kernel starts its sender without a line as well as with one.
* `quit()` from a signal handler joins through a null pointer when the entry of
  a thread is made and the thread not yet stored (`ZMQControlClient.cpp:204`).
* `add_filter()` raises `adding_filter` while it grows the vector, but a thread
  tests the flag once and then iterates (`ProxyInterface.cpp:205`).

## 7. Not modelled

* The one-shot `publish()`, a single send over a socket that is moved away: one
  thread, one step.
* `serialport_read_until()` and `serialport_flush()`, called by a manual test
  only; the helpers of `data.c`, which no component calls; the checksum, which
  nobody computes.
* The detector's image processing (AprilTags, OpenCV) and the camera
  calibration sample: sequential code of other libraries' calls.
* The Wii remote, whose base class has no implementation in the build, and the
  session program, which does not compile.
* Two application threads in one client: the maps and buffers have no lock, so
  any overlap is undefined from its first step.
* Headers without an implementation, vendored helpers, argument parsing.
