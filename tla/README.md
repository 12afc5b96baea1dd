# Verification of lib-streamlabs-ipc

TLA+ specifications of the inter-process call library in this repository, the
TLC configurations that check them on small instances, and TLAPS proofs about
them for every size. A *server* process registers functions; a *client*
process calls them through a named pipe, synchronously or with a callback.

## 1. The system

| Part | State | Operations | Talks to |
|---|---|---|---|
| Windows client (`source/windows/ipc-client-win.cpp`) | `m_cb` (callbacks by uid) under `m_lock`, `m_socket`, `m_watcher.stop`, read operation `m_rop`, buffer | `call`, `call_synchronous_helper`, `cancel`, `stop` on application threads; `worker`, `read_callback_init`, `read_callback_msg` on its thread | the pipe; callbacks of the application |
| Windows server instance (`source/windows/ipc-server-instance-win.cpp`) | `m_rop`, `m_wop`, `m_rbuf`, `m_write_queue`, `m_write_waiting`, `m_stopWorkers` | `worker` and its callbacks, `watchdog_callbacks`, destructor | the pipe; `server::client_call_function` |
| Server (`source/ipc-server.cpp`) | `m_sockets`, `m_clients`, two mutexes, `m_watcher`, `m_isInitialized`, `m_classes` | `watcher`, `spawn_client`, `kill_client`, `initialize`, `finalize`, destructor, setters, `register_collection`, `client_call_function` | instances (creates and destroys), handlers of the application |
| Registry (`source/ipc-class.cpp`, `source/ipc-function.cpp`) | tables of functions by name | `register_function`, `get_function`, `call` | server |
| Values and messages (`source/ipc-value.cpp`, `source/ipc.cpp`, `include/ipc.hpp`) | none | `size`, `serialize`, `deserialize`, `make_sendable`, `read_size` | client, instance |
| Windows pipe and overlapped operations (`ipc-socket-win.cpp`, `async_request.cpp`, `overlapped.cpp`, `waitable.cpp`, `source/async_op.cpp`) | handle, peer id, valid flag of an operation, its event | `accept`, `read`, `write`, `is_connected`, `wait`, `wait_any`, `call_callback`, `cancel` | Windows |
| Windows semaphore, utilities, log, `ProcessInfo` | a semaphore handle; nothing else that matters | `signal`; translation and formatting | everything |
| Apple client (`source/apple/ipc-client-osx.cpp`) | `m_cb`, `m_writer_sem`, `m_socket`, one shared read buffer, the static uid counter | `call`, `call_synchronous_helper`, `read_callback_*` on the callers' threads; `stop` | the FIFOs |
| Apple server instance (`source/apple/ipc-server-instance-osx.cpp`) | `m_reader_sem`, `m_writer_sem`, `msgs`, `m_stopWorkers` | `worker_req`, `worker_rep`, destructor | the FIFOs; `server::client_call_function` |
| Apple socket (`source/apple/ipc-socket-osx.cpp`) | `fd_write`, the local descriptors of `read`, two named FIFOs | `accept`, `read`, `write`, `clean_file_descriptors` | the kernel |
| Apple semaphore, waitable, async operation | | | nobody waits on them |
| `source/apple/named-pipe.cpp` | | | nobody: it is not built |
| Tests, CMake, CI | | | read for what they promise |

A call: `client_win::call` takes a uid from a static counter, serializes,
registers the callback, writes, and waits until the write completed. The
instance's worker reads header and body, `client_call_function` looks the
function up and runs it, the reply is queued and written by the same worker.
The client's worker reads it and runs the callback with `m_lock` held. If the
connection ends, the client's worker runs all callbacks that are left with
"Lost IPC Connection" and then the disconnection callback.

What is hard, and what would make each part correct:

* **Client.** Application threads, the worker and `stop()` interleave on `m_cb`;
  the pipe may break between any two steps. A callback must run at most once, not
  after its call failed, never into a dead stack frame, in order, and an accepted
  call must be answered before the disconnection is reported.
* **Instance.** One flag (`m_rop` stays valid but consumed) makes the connection
  half duplex. Too early a reset mixes two requests, too late a reset stalls for
  good. The watchdog and the destructor run beside it.
* **Server.** The watcher spawns and kills while the application finalizes or
  destroys. Handlers must be balanced, functions over before the disconnect
  handler, nothing left after `finalize()`, and neither thread may wait for ever.
* **Registry and messages.** What is called is what was registered first under
  the name; what arrives is what was sent; an error is never taken for a result.
* **Apple client.** A turn is taken in `call()` and given back in one of two other
  functions, depending on the reply that was read, which may be another caller's. At
  most one caller may use the buffer; each callback must get the reply to its call.
* **Apple instance.** Two workers hand the turn to each other through two
  semaphores; the destructor wakes both with a dummy byte, writing through the
  descriptor that `worker_rep` uses. Nothing that is not a request may be popped, and
  no message may get into the other FIFO.
* **Apple socket.** A message has no end mark but the size of its last piece.

`PROJECT.json` lists every hazard at its line, with the properties that cover it
or the reason why none does.

## 2. Modules

| Module | Models | Notes |
|---|---|---|
| `RpcContract` | what the library promises for one remote call | abstract: executed at most once; "reply" only after execution, "refused" only if never executed; answered once |
| `IpcClientWin` | the Windows client, with the server process as environment | refines `RpcContract` |
| `IpcClientWinProofs` | TLAPS proofs about it: types, callbacks | |
| `IpcClientRpcProofs` | TLAPS proofs about it: the refinement of `RpcContract`, the order of the answers, the end of the worker | extends `IpcClientWinProofs` |
| `MCIpcClientWin` | sets of call kinds and symmetry for TLC | |
| `SerialService` | what one connection promises to its client | abstract: requests taken in order, one at a time, each answered before the next is taken |
| `ServerInstanceWin` | the Windows server instance, with the client as environment | refines `SerialService` |
| `ServerInstanceWinProofs` | TLAPS proofs about it, the refinement included | |
| `IpcServer` | the server: watcher thread and application thread | instances and clients as far as the server sees them |
| `IpcServerProofs` | TLAPS proofs about it | |
| `IpcMessage` | values, messages, frames, as operators | |
| `IpcMessageProofs` | TLAPS proofs about them: what is serialized is deserialized | |
| `CallPath` | registry, and a call from `call()` to its callback, data included | uses `IpcMessage` |
| `CallPathProofs` | TLAPS proofs about it | uses `IpcMessageProofs` |
| `MCCallPath` | values, names and functions for TLC | |
| `OsxPipes` | the two FIFOs of the macOS build and the descriptors on them | no specification of its own |
| `IpcClientOsx` | the macOS client, its process and those that follow it | uses `OsxPipes` |
| `ServerInstanceOsx` | the macOS server instance | uses `OsxPipes` |
| `OsxIpc` | both over the same FIFOs: specification and properties | |
| `OsxIpcProofs` | TLAPS proofs about the composition | |
| `FifoStream` | one message of any size through a FIFO, in pieces | |
| `FifoStreamProofs` | TLAPS proofs about it | |

### IpcClientWin

One uid names a call; four kinds of calls differ in whether they have a callback
and whose `cbid` variable they use. `pc[t]` is the position of application thread
`t` in `call()`. Steps end where another thread can get in between: `Call` (up to
the critical section), `Register` (the critical section), `WriteOk`/`WriteFails`/
`WriteNull`, `Written` (the completed write), `Cancel`, `WakeUp`. `wpc` is the
worker's position: `Top`, `Issue`, the waits (`Timeout`, `Header`, `HeaderError`,
`Message`), `Body`, `Erase`, and the end of the thread (`DrainLock`, `DrainOne`,
`DrainEnd`, `Final`). `StopBegin`/`StopEnd` are `stop()`, which is also all that
the destructor does. The pipe is `open`; `closing` after the server process died
(what it wrote can still be read); `disconnected` after `DisconnectNamedPipe`
(what it wrote is gone). An exception that leaves the worker, or a null
`m_socket`, ends the process (`proc`).

Abstractions: a reply fits the 16 MB pipe buffer, so header and body are written
together; callbacks do not call the client; there is one client object, so
the static counter is its own; a client is not started again after `stop()`;
the freeze callback, which only reports, is left out; lines 109-113 are not
reached, since `wait` of a completed write returns `Success`. A read that fails for
another reason than a lost connection calls its callback before the exception leaves
the worker; the process ends in either order. `WakeUp` has no `cancel` branch: the
wait of a synchronous call ends only when its callback was called.

The server in this module and the client in `ServerInstanceWin` stand for the code of
the other process, and are mapped to it; only the end of a process is external.

### ServerInstanceWin

`wpc` is the position of the worker; `m_rop` tells whether the read operation is
invalid, reads a header or a body, or is valid but consumed ("called").
`HeaderRead`/`ReadBody` are `read_callback_init`, `BeginCall`/`EndCall` are
`read_callback_msg` around the application's function, `WriteCallback` is
`write_callback`. `DogLoop`/`DogCheck` are the watchdog, `Destroy`,
`WorkerJoined`, `WatchdogJoined` the destructor. `TimePasses` makes a waiting
reply overdue: the timeout is an arbitrary moment. A `WriteFileEx` that fails also
invalidates both operations before the loop ends. Left out are the exceptions that
end the process: a body that cannot be read, a size of zero, a request that does not
deserialize, a wait that fails.

### IpcServer

`kill_client` is run by the watcher and by `finalize()`; its steps take the thread
as parameter. The scan of the watcher visits the sockets one by one (`VisitSocket`)
under `m_sockets_mtx`; `Spawn`, `ConnectHandler`, `InsertClient` are
`accept_client_cb` and `spawn_client`. The pending accept of a scan is dropped in
the same scan (it is never kept in `pa_map`, since `accept` never returns
`Success`), so it has no state.

Of each instance the module has the worker's loop (`InstanceLoop`, `WaitTimedOut`,
`BeginFunction`, `EndFunction`, `WriteReply`), as far as it decides what the server
sees: `unread` counts the requests in the pipe, and `IsConnected` is
`socket_win::is_connected`, for which a client that has left counts as connected
while something is left to read (`PeekNamedPipe`). The destructor waits for the
worker to be `ended`. The watchdog and the two operations of the loop are in
`ServerInstanceWin` only.

### IpcMessage, CallPath

A buffer is a sequence of 32-bit cells; 64-bit fields are two cells; payloads are
counted in cells; casts to `uint32_t` are taken modulo `Word`. `CallPath` has the
registry's tables, two byte streams, and one action per handler: a reader takes a
header, then as many cells as it says. Messages larger than the frame can count
are left out by the guard `Countable`. The application registers before it
initializes the server, as the tests do. Names have no zero bytes (`get_function`
compares C strings), and the pre and post callbacks around a function, which see the
call and change nothing, are left out.

### OsxPipes, IpcClientOsx, ServerInstanceOsx, OsxIpc

`OsxIpc` joins the steps of both processes; each leaves the other's variables alone
and both change the FIFOs. A FIFO is a sequence of messages, and is emptied when its
last descriptor is closed. A reader opens `O_RDWR` and so always has a writer; an
`open(O_WRONLY)` waits for a reader. A write without a reader ends its process
(SIGPIPE is not handled anywhere); a write through a closed descriptor fails, and its
result is not looked at.

In the client, `pc[c]` is the position of a caller: `turn` before `sem_wait`; `open`,
`write`, `reply`, `header`, `body` within its turn; `wait` in
`call_synchronous_helper`. A reply runs the callback that its uid names, whoever reads
it. `ClientEnds` replaces the process at any moment: semaphore, callbacks and the uid
counter start anew, the FIFOs' contents stay if the server holds them open. `owed`
and `orphan` are history variables: which written calls have no reply yet, and
whether a process ended with one. The server admits nobody: `accept()` reports a
connection at once, client or not, so there is one instance until the server ends
(`Accept`, `FinalizeFirst`).

In the instance, `rqpc`, `rppc` and `dpc` are the positions of the two workers and of
the destructor; `OpenWrite`, `WriteFd` and `CloseWrite` are the three calls of
`socket_osx::write`, used by `worker_rep` and the destructor for the one `fd_write`.
`ReqGarbled` is what `worker_req` makes of the dummy byte with a request behind it:
a message that may deserialize to anything, or makes `deserialize` call `abort()`.

Abstractions: a message fits one piece of 8 KB (see `FifoStream`); `stop()` is one
step; a descriptor number is not reused after `close`; one client process runs at a
time; callbacks do not call the client; `serialize` does not fail on a message that
was built to fit; `cancel`, which runs only when `sem_wait` fails, is left out; the
close and the open of a caller's `write` are one step; what `make_sendable` does to
the heap behind the destructor's buffer of one byte (it writes bytes 4 to 7 of it) is
left out.

### FifoStream

Sizes only. The writer opens the FIFO and writes one piece, then again; the kernel
takes what fits. The reader takes the header, then what it finds, and goes on if that
had the size of a full piece. `overtaken` records that the two ends lost step: the
reader found more than the first piece, or a piece went in by halves.

## 3. Runs

| Run | Instance | Question |
|---|---|---|
| `client_safety` | 2 threads, 3 calls, synchronous and asynchronous, `stop()` at any time | callbacks: at most once, in order, into live frames, silent after `false`; `RpcContract` is implemented; `SafetyInv` (the inductive invariant) holds |
| `client_answers` | 2 threads, 2 calls, `stop()` not while a call is being sent | every accepted call is answered, before the disconnection callback, and synchronous callers return |
| `client_default_cbid` (violation) | 1 thread, 2 calls with the default `cbid` | a failed call cancels another call's callback |
| `instance` | 4 pipelined requests, pipe with room for 1 reply, watchdog on | half duplex, one reply at a time, no stall, every request answered, destructor returns, `SerialService` |
| `server` | 2 sockets, 2 clients, 2 requests in a pipe | handlers balanced, quiet after disconnect and after `finalize()`, both threads progress, clients served; those that left no request behind are reaped |
| `server_dead_client` (violation) | 1 socket, 1 client, 2 requests in its pipe | a client that left a request behind is never reaped |
| `server_second_client` (violation) | 1 socket, 2 clients | the second client is never admitted |
| `messages` | 1 call with every pair of lists of up to 2 of 11 values, class and function of different names, registered or not | values of every width arrive as sent; an error arrives with its text and is recognisable |
| `registry` | 2 collections of one name, overloads, 2 pipelined calls of any of the names | lookups stable, frames aligned; each request runs in its place, with its names, and each callback gets what belongs to its own call |
| `registry_overloads` (violation) | 1 collection, 2 overloads | the second overload is refused |
| `osx` | 2 callers, 3 calls of the first client process, 1 of the second, all kinds of call; `stop()`, shutdown, end of the process and destructor at any time | turns, own replies, queue and streams in order; undisturbed calls return; the destructor returns when it meets waiting workers |
| `fifo` | bodies of 1 to 24 bytes, pieces of 5, header of 1, room for 12 | which sizes are read to their end, and when a read ends short |

Bounds. Two threads are enough for every pair of steps to interleave, since threads
meet only at `m_lock`, the pipe and the worker; a third call lets one thread have an
earlier call pending while both threads are busy. Four requests and room for one
reply make the reply of one request meet the next two. Two sockets put a socket
that is being killed and one that is spawned or listening into one scan, and a
`finalize()` between the two; the watcher handles one socket at a time, and the
theorems hold for any number. Two requests in a pipe are one that runs and one that
is left behind. `Word = 32` makes the largest argument list fill a frame to the last
cell. `messages` has one call, because its question is about values; which call is
answered with what is the question of `registry`, with two calls in the stream, two
names for classes and functions, and short values.

In `osx`, two callers and three calls let a caller read another's reply and let a turn
that was posted once too often be taken again; a second process with one call is
enough to be given a reply that the first left. In `fifo`, 24 bytes are five pieces and twice the room of the FIFO, so that
every remainder of the size and both full and empty FIFOs occur; the capacity is no
multiple of the piece, as the room left at the moment of a write need not be.

Symmetry of threads is used where only safety is checked. Deadlock is not checked: all
these systems stop (calls are bounded, servers are destroyed, processes end); that nothing stops
too early is what the liveness properties say.

Fairness. Threads are scheduled (weak fairness of each thread's steps), writes
complete and functions return in `client_answers` (the server's watchdog ends a server
whose function does not return), but nothing forces a call, a `stop()`, a timeout
or the end of a process. In `ServerInstanceWin` functions need not return: the
properties that depend on it say so. In `IpcServer` each worker is scheduled and
functions return; nothing forces a client to send or to leave. `FinalizeLock` is
strongly fair: the watcher sleeps for 20 ms between two scans with the mutex free. In `OsxIpc` each
caller, each worker and the destructor, once called, is scheduled, and functions
return (the code ignores `call_timeout` there); no call, stop, restart or destruction
is owed. A caller or worker that waits in `sem_wait`, `open` or `read` has no step to
take, so fairness gives it none. `FifoStream` has both ends scheduled.

## 4. Proofs

`IpcClientWinProofs` proves, for every set of threads and kinds of call, any
number of calls, with and without racing `stop()`:

* `TypeCorrect`: `Spec => []TypeOK`;
* `InvariantHolds`: `Spec => [](TypeOK /\ SafetyInv)`;
* `CalledAtMostOnceHolds`, `CallbackIntoLiveFrameHolds`, `SilentAfterFalseHolds`.

`CalledAtMostOnce` alone is not inductive: whether a callback may run again depends
on what is left in `m_cb` and on where the worker stands. `SafetyInv` says what the
code relies on: the worker holds `m_lock` exactly while it calls callbacks
(`LockHeld`); a uid not handed out has no trace (`FreshUids`); a busy thread makes a
call of its own that has not returned (`OneCallPerThread`); and whatever the worker
may still call (`Pending`: in `m_cb`, not just called and about to be erased, not
passed by the final loop) was never called, has not failed, and belongs to a live
frame if it is synchronous (`PendingEntries`). One lemma covers the steps that
leave the table, the frames and the results alone (`QuietStep`); the others have a
step each in `SafetyStep`. The two action properties follow because a step that
calls a callback calls a pending one (`OnlyPendingIsCalled`).

`IpcClientRpcProofs` goes on from there. `ClientImplementsContract` is
`Spec => ImplementsContract`, for any threads, kinds and number of calls, and any
`StopRaces`. A call is executed at most once because a request in `toServer` was sent
once and not executed (`RequestsOnce`); what was executed was sent, and did not fail
(`ExecutedOnce`); and whatever carries a reply, from `serving` through `toClient` and
`rbuf` to the callback, carries one of an executed call (`RepliesAreEarned`), for
which the buffer must not be read twice (`NothingUnread`). `RefinementStep` maps each
step to one of the contract, or to a stutter.

The order of answers needs a larger invariant, `OrderInv`. A call with a `cbid` of
its own that is unsettled (not answered, not failed) has its entry or a thread that
is about to insert it (`Registered`); once sent, and as long as the server lives, it
is somewhere on its way: in `toServer`, executing, in `toClient`, or in `rbuf`
(`OnItsWay`); and on that way no later call of the same thread is ahead of it
(`Behind`, `Ordered`). What the final loop has passed was called (`Drained`). With
`EndInv`, about a worker that has ended, this gives

* `OwnAnsweredInOrder`, and, if `stop()` does not overlap a `call()`,
  `OwnAnsweredFirst` and `NoOwnCallerLeft`: calls with a `cbid` of their own are
  answered in order, before the disconnection callback, and leave nobody waiting,
  whatever other calls the application makes;
* `AnsweredInOrder`, `AnsweredFirst`, `NoCallerLeft`: the properties the runs check,
  for an application whose `Kinds` lack `"async"`, as in those runs.

Neither hypothesis can be dropped: TLC finds each property violated when one that its
theorem has is taken away. A failed `call()` with the default `cbid` erases the entry
of some other such call, which then is never answered; `client_default_cbid` shows it.
And a `call()` that overlaps `stop()` may register its callback after the worker's
final loop.

`ServerInstanceWinProofs` proves, for any number of requests, any pipe capacity,
with and without a watchdog:

* `TypeCorrect`, `HalfDuplexHolds`, `OneReplyAtATimeHolds`,
  `SomethingToWaitForHolds` (`HalfDuplex` says what `m_rop` is until the worker has
  ended: a write that fails at the end invalidates it);
* `Refinement`: `Spec => ImplementsSerialService`.

None of these properties is inductive: that a reply is written only while no read
is in flight depends on `m_rop` staying valid after `read_callback_msg`, over
several iterations of the loop. The invariant `Phase` says that the worker is
always in one of six phases of one request (`Idle`, `Taken`, `Running`, `Queued`,
`Writing`, `Written`), and fixes in each the two operations, the buffer, the queue
and where the worker may be. `PhaseStep` shows that every step stays in its phase
or goes to the next one; the three invariants follow from the phases. For the
refinement (`RefinementStep`), `ReadBody` maps to `Take`, a write to an open pipe
to `Reply`, the client's steps to its own, and every other step to a stutter: the
request moves from `m_rbuf` to the queue without a change of `serving`.

`OsxIpcProofs` proves, for any callers, any number of calls and of client processes:

* `TypeCorrect`, `TurnTakingHolds`, `PopsARequestHolds`, `StreamsUnmixedHolds`, and
  the invariant `HandoverHolds` behind the last two.

`TurnTaking` says where the callers are, but what keeps a second one out is a
semaphore that is posted elsewhere. `Turns` counts the turn: it is in the semaphore,
or with the caller that took it, or with the caller whose callback was run by a reply
and that has yet to see it (`HasTurn`), and nowhere twice. That a reply gives the turn
to one caller at most needs that a process uses a uid once (`UidOnce`). `stop()` posts
out of turn: the invariant holds until then. `Handover` does the same for the
instance: the two semaphores, a reading `worker_req` and a replying `worker_rep` share
one baton (`OneBaton`), so the destructor's `open`, which needs a reader, and a
reply's write never share `fd_write` (`OwnFd`); every post before the dummy byte
stands for a message in the queue (`Posted`).

`OwnReplyHolds` stands on top of both. A reply names only a uid, so
the argument is about where a call is while its answer is due: in the request FIFO,
the queue, `serving` or the reply FIFO, in one of them and once (`InOnePlace`), always
with the process that wrote it, until a process ends with `owed` not empty. Each lemma
of its middle part moves one message one place on. A caller that has not written is
owed nothing (`NotYetOwed`), which is what makes a new uid new.

`IpcServerProofs` proves, for any clients and any number of sockets:

* `TypeCorrect`, `ConnectsMatchDisconnects`, `NothingRunsAfterDisconnect`,
  `FinalizeLeavesNothing`;
* `SocketServesOnce`: a socket calls the connect handler at most once, which is why
  one `initialize()` serves as many clients as it has sockets; `ThreadsExclude`: the
  two threads never work on the sockets, or on the clients, together.

`TypeOK` alone is not inductive here: `InsertClient` puts the socket being handled
into `m_clients`, which is typed only because a thread in that place handles one
(`Handling`). `Locks` says who holds which mutex by where the threads are, so the
steps of one thread see the other's as whole. For each socket, `SocketInv` ties
together its pipe, its instance, the counts of its handlers and whoever handles it:
a connect handler was called once more than the disconnect handler exactly while
`m_clients` has the socket or a thread is between the handler and the table (`Kept`).

`FifoStreamProofs` proves `WholeMessages` for every size of message, header and FIFO
and every piece of more than two headers (the code's is 8192 bytes, with a header of
8). Both ends stand on a multiple of the piece (`Border`) until one overtakes the
other; a reader that finds less than a full piece is then at the end.

`IpcMessageProofs` proves `MessageRoundTrip`: for any head and tail, of any number,
type and length of values, that the frame can count, `DeserializeMessage` of
`SerializeMessage` gives back both lists, each value as `Transmitted` says, and the
buffer of `MessageSize` cells is large enough. A message is read at an offset, so the
lemmas say what stands at a cell of a buffer (`At`): one value (`ValueRoundTrip`), by
its type; then a list, where the writer's concatenation, the size and the reader's
position advance together (`SizesAddUp`, `CellsLineUp`, `ValuesStand`,
`ListRoundTrip`). The three recursive functions of `IpcMessage` are functions on
`0..n`; induction over them is an argument about the set of numbers up to which they
agree (`SetInduction`, `Iteration`), as the induction theorems of the library
cannot be instantiated.

`CallPathProofs` uses it for the whole path, for any collections, functions, names,
arguments, results and number of calls that a cell can number: `TypeCorrect`,
`RequestsIntact`, `AnswersIntact` (together `CallsIntact`), `ErrorsRecognised`, `StreamsStayAligned`,
`LookupsAreStable`. None is inductive: what a handler decodes depends on what is in
the stream. In the invariant `IInv` each stream is exactly the frames of the messages
that were sent and not read (`Stands`): writing puts a frame behind them
(`FrameIsWritten`), reading a header and what it counts takes the first one
(`FrameIsTaken`, `FrameIsRead`). So the k-th run is of the k-th call (`Served`), and
the first calls are answered, the rest have their callback (`Answered`). Names are
unique in both tables (`KeysAreUnique`), which makes lookups stable.

Assumptions: the named assumptions on the constants in the modules concerned
(`ClientAssumption`, `InstanceAssumption`, `ServerAssumption`, `WordAssumption`,
`CallPathAssumption`, `StreamAssumption`), which TLC evaluates in every run of those
modules, and the hypotheses on `Kinds` and `StopRaces` named above. Each inductive
invariant was model-checked on the instances of the runs before it was proved.

One caution about the tool. The SMT encoding of tlapm 1.4.5 has an axiom that makes
`DOMAIN f = 1..Len(f)` for every function `f` with a natural `Len(f)`, a sequence or
not. Next to a function on `0..n`, as in `IpcMessage`, a leaf that mentions `Len` may
then follow from nothing. All proofs here were checked a second time without that
direction of the axiom, so no leaf depends on it.

Only model-checked: liveness (`SyncCallReturns`, `AcceptedIsAnswered`,
`RequestAnswered`, `DestructorReturns`, `FinalizeReturns`, `ConnectedIsServed`,
`DrainedClientReaped`, `CallReturns`, `Delivered`), which is out of reach of the prover.

## 5. What the checks found

* The default `cbid` is shared by all calls: when the write of a call without a
  function fails, `cancel` erases the callback of the last call that had one, which
  was accepted and is then never answered (`client_default_cbid`). A call with a
  function sets the `cbid` to its own uid first, so a single thread that passes a
  function each time, as `simple-multi-client` does, cancels only what failed.
* A client that leaves with requests unread is never reaped (`server_dead_client`):
  the worker ends when it cannot write a reply, nobody reads the pipe any more, and
  `is_connected()` stays true. The disconnect handler is called by `finalize()` at the
  earliest. If a call timeout is set, the instance's watchdog, which still sees a
  reply waiting, ends the server process.
* One `initialize()` serves one client in its life (`server_second_client`).
* Overloads by parameter types are refused (`registry_overloads`).

Read off `Final`, without a run of its own: without a disconnection callback the
client's worker just ends when the server disconnects, and the process does not exit
as `include/ipc-client.hpp:38-40` says.

On macOS, where no document promises otherwise, the excuses in the properties name
what happens, and TLC shows a trace when one is taken out:

* A `call()` with a function keeps the turn: nobody posts `m_writer_sem` after its
  reply, and every later call waits for ever (`kept` in `CallReturns`).
* A reply that a client process did not read is given to the next process's call of
  the same uid (`orphan` in `OwnReply`).
* The destructor hangs if it does not meet a reading `worker_req` and a `worker_rep`
  that can finish: `QuietDestruction` in `DestructorReturns`.
* A client that ends while its reply is written takes the server with it (SIGPIPE).
* A body of 8184 + 8192 k bytes, or of 8176 + 8192 k with k > 0, is never read to its
  end; one that is written faster than it is read may be cut short.

## 6. Not modelled

Memory of buffers and `OVERLAPPED` structures, data races on plain `bool`s (their
outcomes are those of atomic ones), `start()` after `stop()`, callbacks that call the
client, registration after `initialize()`, logging, utilities, tests. Of the Apple
sources: `named-pipe.cpp` is not in the build, and the semaphore, waitable and async
operation classes are not waited on by anybody.

## 7. Plan

1. Done: the Windows client, instance and server, the registry and messages, the
   macOS client, instance and socket; a theorem for every safety property and both
   refinements that the runs check.
2. Next modules: `AsyncRequest` (one overlapped operation: event, completion
   routine, valid flag, callback flags, cancellation, as `accept`, `read` and
   `write` use it); a composition of the Windows client and instance over one pipe
   against `RpcContract`.
3. Next proofs: the steps a liveness argument rests on (each thread of the server
   that waits for a mutex waits for one that another thread can release; the turn of
   the macOS client is never lost before `stop()`); invariants of the modules of 2.
