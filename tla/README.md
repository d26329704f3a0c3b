# zestRPC: formal models, checks and proofs

This directory is a TLA+ development of zestRPC, a C++ RPC library for Linux (one
event loop per thread, edge-triggered epoll, protobuf services). Paths are relative to
the repository (`zest/...` is below `src/`). It holds one module per component, modules
that compose components, TLC configurations for small instances, and TLAPS proofs for
every value of the constants. `PROJECT.json` maps each definition to the lines it
models and lists runs, mutants, hazards, findings and theorems.

1. [The system](#1-the-system)
2. [Modules and how they correspond to the code](#2-modules-and-how-they-correspond-to-the-code)
3. [Runs, bounds and what they show](#3-runs-bounds-and-what-they-show)
4. [Fairness](#4-fairness)
5. [Proofs](#5-proofs)
6. [What the checks found](#6-what-the-checks-found)
7. [Assumptions, and what is not modelled](#7-assumptions-and-what-is-not-modelled)
8. [Plan](#8-plan)

## 1. The system

| Component | State | Operations | What is hard | What makes it correct |
|---|---|---|---|---|
| **Event loop** `zest/net/eventloop.cc`, `fd_event.cc` | the queue `m_pending_tasks` (under `m_mutex`), the map `m_listen_fds`, `m_is_running`, an eventfd, an epoll instance | `loop`, `stop`, `addEpollEvent`, `deleteEpollEvent`, `runTask`, `addTask`, `wakeup` | other threads post and stop between any two steps of the owner; edge-triggered wakeups; descriptors closed and reused while calls for them are queued | no callback and no stop waits for `epoll_wait`'s time-out; callbacks run in order; an event always finds its handler; registrations settle to what was asked |
| **Timers** `zest/net/timer.cc` | a priority queue under a mutex, one timerfd | add, delete, re-arm, collect and run what is due | nested and concurrent calls of `resetTimerFd`; one-shot edge-triggered timerfd; timers invalidated while collected | never early, never twice, never after removal, no timer forgotten |
| **I/O thread, thread pool** `zest/net/io_thread.cc` | the thread, its loop, two semaphores, `m_is_valid` | construct, `start`, stop, destroy | construction and destruction against a thread that makes and runs its own loop | a valid thread has a loop; a destructor returns; nothing posted is left to a destroyed loop |
| **Asynchronous log** `zest/common/async_logging.cc` | a ring of buffers, two iterators, a log file | `append`, the backend's loop, rotation, growing and shrinking, the last flush | the backend writes and resets buffers without the lock | no line lost, duplicated or reordered while there is room |
| **TcpConnection** `zest/net/tcp/tcp_connection.cc` | state, two buffers, a decoder, an armed event | read, write, execute, half-close, clear | partial sends, FIN and reset in any order, one-shot events re-armed by hand | a request is answered; neither end takes the other for gone; a dead peer is noticed |
| **TcpServer, TcpAcceptor, ThreadPool** `zest/net/tcp/tcp_server.cc`, `tcp_acceptor.cc`, `zest/net/io_thread.cc` | the map of connections, the pool and its index, a cleaning timer, the listening descriptor | accept, choose a thread, construct, insert, erase, stop | an I/O thread serves a connection the main thread is still making; an edge-triggered backlog; threads that cannot be used | nothing points to a connection that is gone; a client is served or forgotten; the threads get equal shares |
| **TcpClient** `zest/net/tcp/tcp_client.cc` | a connection and its descriptor, a connect timer, a borrowed loop | `connect`, `start`, `stop`, destruction | connect result and timer in one round of the loop; a number closed more than once | `connect` returns, for a reason; it closes its own descriptor |
| **RpcChannel, RpcController** `zest/net/rpc/rpc_channel.cc`, `rpc_controller.cc` | error, flags, a call timer | `CallMethod`, `Reset`, `SetError` | a timer that outlives its call and keeps its client; the thread's calls share one loop and may share a controller | each call returns, with the error it earned, and is left alone afterwards |
| **Wire format** `zest/net/rpc/rpc_protocol.cc`, `zest/net/tcp/tcp_buffer.h` | the decoder's state, `m_remain_len`, a buffer with a start index | `RpcEncoder`, `decode`, append, `move_forward`, `substr` | packets cut anywhere; a buffer that shrinks under the decoder; empty fields | what is decoded is what was encoded, in step with the packets |
| **RpcService** `zest/net/rpc/rpc_service.cc` | the registry | `register_service`, `process`, the closure | error paths that answer nothing | responses are in order, one to a request, with its id and its method's outcome |
| Locks, logger front end, configuration, addresses | - | - | none of their own | - |

Interactions. The main thread's loop accepts connections and hands each to the loop of an
I/O thread (`addTask`); that loop calls `TcpConnection`'s callbacks, which call the decoder,
`RpcService::process` and the encoder, and arm the next event. The main loop's cleaning timer
erases connections that are `Closed`. A client thread makes a `TcpClient` per call, and runs
its own loop twice, to connect and to call; timers end either loop. Everything logs through
`AsyncLogging::append`.

## 2. Modules and how they correspond to the code

| Module | Extends or instantiates | Models |
|---|---|---|
| `TaskQueue` | | abstract: a FIFO queue of callbacks |
| `EventLoop` | instantiates `TaskQueue` | the owner's `loop()` step by step, other threads' `addTask`, close, delete, `stop` and `wakeup`, epoll and the eventfd |
| `IOThread` | extends `EventLoop` | construction, `start`, use, stop, join and destruction around that loop |
| `TimerFd` (`MCTimerFd`) | | `TimerFdEvent` with a stack of calls per thread |
| `LogFile` | | abstract: lines waiting, lines in the file |
| `AsyncLogging` (`MCAsyncLogging`) | instantiates `LogFile` | the ring and the backend thread |
| `TcpLink` | | both ends of a connection and the kernel between them, and the server's cleaning timer |
| `TcpServer` | extends `TcpLink` | the main thread, the acceptor, the pool and the map around that connection, from the backlog on |
| `RpcCall` | | `CallMethod` and its `TcpClient`, several calls of a thread one after another, over one table of descriptors |
| `TcpBuffer` | | `TcpBuffer` as operators on records |
| `RpcWire` | extends `TcpBuffer` | encoder, stream, decoder |
| `RpcService` (`MCRpcService`) | extends `RpcWire` | the registry and `process()` behind that decoder |
| `EventLoopProofs`, `TimerFdProofs`, `AsyncLoggingProofs`, `TcpServerProofs`, `RpcCallProofs`, `RpcServiceProofs` | extend the component's module | theorems; `TcpServerProofs` those about `TcpLink` as well, `RpcServiceProofs` those about `TcpBuffer` and `RpcWire` |
| `IOThreadProofs` | extends `IOThread`, `EventLoopProofs` | theorems |
| `Lemmas` | extended by the modules of theorems about `TimerFd`, `AsyncLogging`, `TcpServer`, `RpcCall` and `RpcService` | facts about numbers, sequences and rings |

**EventLoop.** `loop_pc` is the owner's place in `loop()`. A step lies between two points where
another thread can come in: testing `m_is_running`, swapping the queue (twice a round:
before `epoll_wait` and after the events were collected), running one callback, `epoll_wait`,
looking up one event, and the drain at the end, which holds `m_mutex`. `addTask` by another thread
is two steps, the post and the wakeup (`Wake`); so is `stop`. `Close` and `PostDelete` are the two
halves of a connection's `clear()`, called by the thread that also accepts: in between only the owner
and the other threads go on, and the number can be opened again once the delete is posted, before the owner
has carried it out.
An eventfd is reported once for each write as long as its counter is nonzero. `asked` is a history
variable: the descriptors whose last request was to listen.

**IOThread.** `main_pc` is the creating thread's place in the life of the object, `thread_pc` the
thread's place in `main`. All of `EventLoop`'s steps of the owner are steps of the thread once it
is in `loop()`.

**TimerFd.** `addTimerEvent`, `resetTimerFd` and `handleTimerEvent` call one another, the last two
recursively. `stack[thread]` holds the calls a thread is in, and a step lies between two points at
which the clock, the queue or the timerfd can be seen. Choosing the earliest timer (under the lock)
and arming the timerfd (after it) are two steps, as in the code.

**AsyncLogging.** `append` holds the lock from beginning to end and is one action. The backend's
`pc` goes through measuring, writing and resetting buffers one by one (unlocked),
advancing, rotating (locked), and the last flush. `saturated` records that `append` found the ring
full at its maximum, from which point on lines are dropped by design.

**TcpLink.** Data is counted in units. `chan`, `fin`, `rst` are what the kernel holds for an end;
`armed` is the one-shot event of the descriptor, `pc` the callback its thread is in. Receiving and sending
loop step by step, so the peer can close in the middle of a callback. `decode()` finds a message
when enough units have come; what is in a message is `RpcWire`'s.

When the process of an end sends after a FIN and the reset behind it, `SIGPIPE` ends that process
(`SigPipe`).

**TcpServer.** One client's connection is `TcpLink`'s, its request in flight from the start; the other
clients take a place in the backlog, a turn of the pool and a step of the main thread. `main_pc` is
the main thread's place in `accept_callback`: after `Construct` the constructor's
`listen_read()` is posted (`posted`) and the I/O thread may serve, finish and close the connection before
`MakeShared` and `Insert`. `Accept` goes on until `AcceptFails`, with EAGAIN or for want of a descriptor;
`edge` is what the edge-triggered listening socket still has to report. `TurnOf` and `IndexAfter` are
`get_io_thread()`, over a pool some of whose threads have no loop.

**RpcCall.** One thread, `Calls` calls. A round of the loop (`EpollWait`) takes a set of ready
callbacks in any order into `tasks` and each runs with what those before it left behind. Timers
of returned calls stay in the queue, as they do in the code, and each keeps its client (the lambda's
copy of the `shared_ptr`) with its number and its place in the loop. `owner` is the process's table of
descriptors, in which a new file gets the lowest free number; `m_fd` is the number a client believes is
its own. `m_listen_fds` is the loop's map and `listening` the part of it the kernel still watches: the file of
another that is closed leaves the second only, and `AddEpollEvent` is what `epoll_ctl` then does with the entry left
behind. A callback on a number that is another's file finds whatever that file has: any outcome `recv`
can have. Between `addTimerEvent()` and the first line of `loop()` (`pc` is `"arming_connect"` or
`"arming_call"`) the timer just added may be due already: `DueAtOnce` runs it there, as `resetTimerFd()` does, and
`StartLoop` sets `m_is_running` whatever it stopped. `stopped_by` records such a `stop()` as `"unheard"`. A
controller is used again after `Reset`. A callback queued behind the timer that destroyed its connection leads
to `pc = "undefined"`, where nothing more is said of the program.

**RpcWire.** A byte is a number, an integer four of them. `decode()` is one step per state of the
decoder; a field is taken with `Substr`, with the meaning the code gives to a length of 0. A flag that is not
there makes `decode()` fail. The sum is neither computed nor checked by the code
(`fill_check_sum` and `valid_check_sum` are stubs), so the state that would check it is passed over. `Fields` are
the twelve fields of a packet in the order `RpcEncoder` adds them, and the decoder's states take one each.

**RpcService.** Each protocol that `decode()` returns is handled in the same step (`Process`), as the I/O
thread does. `Callable` is the conjunction of the checks of `process()`, each of which ends it without a
response. What a method does is a constant: it answers, answers what cannot be serialized, or never
runs the closure.

Operators commented `Mutation:` are plausible bugs of the definition that follows them. No
specification uses them; `PROJECT.json` pairs each with a property that must fail when it takes
the place of the definition.

## 3. Runs, bounds and what they show

| Run | Instance | Shows |
|---|---|---|
| `eventloop` | 2 descriptors, 2 other threads, `MaxEvents` 2, 4 calls of other threads (about 246,000 states) | `NoLostWakeup`, `NoLostStop`, `NoNullHandler`, `RegistrationSettles`; `FifoQueue` (refinement of `TaskQueue`); `PostedRuns`, `StopReturns` |
| `iothread` | 1 descriptor, 3 posts, creation of the loop may fail | `ValidMeansUsable`, `JoinedMeansDrained`; `RunningLoopJoins` |
| `timerfd` | 2 timers, a periodic one that may be deleted and one for once, the owner and one other thread adding, 4 ticks (about 915,000 states) | `NeverEarly`, `RemovedStaysSilent`, `ArmedForEarliest`, `TimerFires` |
| `logging` | 9 lines of two lengths, buffers of 2, ring of 4 that may grow to 5, files of 3 lines | `NothingLost`, `RingInOrder`, `WritesLogFile` (refinement of `LogFile`), `LinesReachFile`, `LastFlush` |
| `logging_file` | 5 lines, files of 2 | violation: `CountsOpenFile` |
| `tcp` | request of 3, response of 5, kernel buffer of 4 units; 3 other clients; a pool of 3 threads all, two or none of which are valid; rejection, time-out, no descriptor, stop and death of the server (about 375,000 states) | `NoFalseHangUp`, `NothingDangles`, `Balanced`; `Answered`, `DeadServerNoticed`, `GoneClientForgotten` |
| `tcp_output` | response larger than the kernel's buffer | violation: `OutputArmed` |
| `tcp_closed` | the client may time out | violation: `ErasedIsClosed` |
| `rpc` | 3 calls, 2 controllers, 2 descriptors shared with another thread; refusals, hang-ups, silence, time-outs, also before the loop begins (about 900,000 states) | `FailsForAReason`, `Released`, `OwnDescriptor`; `ReturnedIsFinal`, `CallsReturn` |
| `rpc_stale` | 2 calls, server never fails, no call times out while it is current | violation: `FailedBlamesServer` |
| `wire` | 2 requests of 4, in every order, cut anywhere on receipt and into pieces of 20 bytes on sending, before and after the services are registered (about 1,800,000 states) | `InStep`, `FieldsArrive`, `AnswersMatch` |
| `wire_empty` | the same | violation: `DataArrives` |

Every passing run checks one type invariant as well.

Why the bounds are enough:

- `eventloop`: a lost wakeup needs one poster and one owner; a stop racing it, a second thread.
  Two descriptors let the delete of one race the add of the other; four calls are an
  add, a close, a re-add of the reused number and a stop. With `MaxEvents` 2 a round can hold the
  wakeup and a descriptor, or two descriptors, and has to leave the third for the next.
- `iothread`: three posts are one before `start()`, one after it and one against the destructor.
- `timerfd`: two timers are the smallest number with an earlier and a later one; in four ticks the periodic
  one fires more than once or is deleted while the other is added, moves to the front or fires. The theorem
  covers timers for once that are deleted too.
- `logging`: nine lines fill a ring of five buffers and overrun it, so that growing, shrinking,
  a full ring, dropping and rotation all happen, each in the middle of the backend's round.
- `tcp`: the request fits into the kernel's buffer and the response does not, so that it is sent in one piece when
  the client reads meanwhile and is left with the rest unsent when it does not (`tcp_output` is the run about that,
  see section 6). `Answered` excuses only the second (`Stranded`). Four connections are one more than the threads, so
  the pool's index wraps; the pool with a gap is the smallest in which passing a thread over matters. The
  client comes before, between and after the others.
- `rpc`: three calls, because the second has to be cut short by the first one's timer for its late
  answer or its destroyed connection to meet the third. Two numbers: one is the lowest free while a
  kept client holds the other, and both may be in use. The other thread has one file at a time. The
  first call's controller is fixed, which by symmetry loses nothing. A timer's time comes at any moment, in
  the loop, between two loops or before it is added (a time-out of 0, or a thread that was long off the processor); the
  timerfd reports it to the next loop, or `addTimerEvent()` sees it at once.
- `wire`: the four requests are to a method that answers, to one that cannot serialize its response
  (with empty data), to one that never answers, and to a service in a package, whose
  packet carries error information and empty data. Two packets let one be taken for the other's
  continuation. `Room` = 20 is less than a packet and no divisor of one.

`CHECK_DEADLOCK FALSE` stands where the system really stops: a destroyed thread or logger, a
connection forgotten by both ends, a clock or a number of calls or packets at its bound. The event loop's own
run checks deadlock.

## 4. Fairness

- `EventLoop`, `IOThread`: weak fairness of the owner's steps, with `epoll_wait` only
  when the wakeup descriptor is ready: neither the 10 s time-out nor traffic on other descriptors
  is relied on. Weak fairness of the second half of a post or stop, since the thread is past the
  point of no return there. Which calls are made is not fair. The main thread's destructor, once begun, goes on.
- `TimerFd`: threads finish their calls, the owner takes a reported timerfd, time passes.
- `AsyncLogging`: weak fairness of the backend only; its waits are timed. Nothing forces `append`
  or the destructor.
- `TcpLink`, `TcpServer`: the main thread, the I/O thread and the client's are scheduled, the kernel
  refuses what is sent to a closed descriptor, and the cleaning timer is periodic. The client's timer, another
  client, a program's `stop()` and the deaths of processes need not come. A client left in the
  backlog for want of descriptors waits for the next client: `LeftOut` excuses it.
- `RpcCall`: the thread runs and the time of a timer comes. The network need not
  do anything: a connection may stay pending and a server silent for ever.
- `RpcWire`, `RpcService` have no liveness property; `InStep` says that where the decoder has taken all
  there is nothing is missing.

## 5. Proofs

Every invariant and action property of `EventLoop`, `IOThread`, `TimerFd`, `AsyncLogging`, `TcpLink`,
`TcpServer`, `RpcCall`, `RpcWire` and `RpcService` that a run checks is a theorem too, and so are the
refinements of the two abstract specifications. The theorems hold for every value of the constants that satisfies the named assumptions of
the component's module. These only give the constants their types (`MaxCallsAssumption`,
`PoolAssumption`) or say what the code fixes: the acceptor is one of the threads that post
(`AcceptorAssumption`), the callbacks of a server's connection do not stop its loop
(`ServerCallbacksAssumption`), a line fits into a buffer (`LineLenAssumption`), the loop's thread is not one of
those that add timers from outside (`OwnerAssumption`), nobody but the thread that made an `IOThread`
posts to it in `IOThread`'s instance (`OnlyMainAssumption`), a byte has 256 values (`BytesAssumption`), and a
message has an id and the name of a method and no length beyond an `int32_t` (`MessagesAssumption`).

A component's properties are seldom inductive. Each proof has a strengthening, checked by TLC on the
component's run before it was proved; `Init => IInv`, `IInv /\ [Next]_vars => IInv'` with one lemma per
action or group of actions, and the property from `IInv`. The last step of each theorem is temporal (`PTL`).

**`EventLoopProofs`.**

| Theorem | States |
|---|---|
| `TypeCorrect`, `PostsAreWoken`, `StopsAreWoken`, `HandlersExist` | `TypeOK`, `NoLostWakeup`, `NoLostStop`, `NoNullHandler` |
| `RegistrationsSettle` | `RegistrationSettles` |
| `ImplementsTaskQueue` | `FifoQueue`: each step is a post, a run or a stutter of `TaskQueue` |

- `QueueContents` says which callbacks can be where. Callbacks of descriptors, the drain of the eventfd among
  them, are posted while collecting and run in the batch after it, so the batch that runs before
  `epoll_wait` holds only registrations. Otherwise that batch could swallow a wakeup
  or stop the loop with nothing to wake it.
- `MapCoversKernel`: the kernel's set is part of the map and of the open descriptors, and a
  descriptor is reported at most once in a round. Otherwise an event could be for an entry that
  another event of the round deleted.
- `Settling`, for `RegistrationsSettle`: every difference between the map, the kernel's set and what was
  asked for has a callback on its way. An entry the kernel has dropped waits for its delete, which is queued or
  about to be posted; what is asked for and not registered waits for an add; and for an open
  descriptor the add is behind the delete in the queue. With an empty queue the three agree.

**`IOThreadProofs`** rests on the invariant of the loop inside the thread.

| Theorem | States |
|---|---|
| `IOTypeCorrect`, `ValidThreadsAreUsable` | `IOTypeOK`, `ValidMeansUsable` |
| `NothingLeftToDestroy` | `JoinedMeansDrained` |

`Constructed` says that the constructor is released once, when the loop is there or will not be;
`StoppedByMain`, that only the destructor makes `loop()` return and that nothing is posted afterwards,
so that the drain is the last that happens to the queue.

**`TimerFdProofs`** (any set of timers, periodic or not, any number of threads that add).

| Theorem | States |
|---|---|
| `TypeCorrect`, `TimersAreNeverEarly` | `TypeOK`, `NeverEarly` |
| `TimerFdIsArmed` | `ArmedForEarliest` |
| `RemovedTimersAreSilent` | `RemovedStaysSilent` (an action property) |

- `Frames`: which calls can wait for which, as `resetTimerFd` and `handleTimerEvent` call each other.
- `InOnePlace`: a timer is in the queue or in one call on its way there, never in two.
- `InTime`: a timer's next round is due an interval after all it ran and all it was collected for. The
  counting needs `InOnePlace`: a timer that is in two places would be due twice.
- `RemovedIsInvalid`, `PickedIsEarliest` (while one thread adds, what it picked is the earliest until it
  arms the timerfd), `SomeoneArms` (with timers in the queue the timerfd is armed, has expired unseen, or a
  call is under way that arms it).

**`TcpServerProofs`** (any lengths of messages, any capacity of the kernel, any pool, any number of clients).

| Theorem | States |
|---|---|
| `NoFalseHangUpOfALink`, `NoFalseHangUpOfAServer` | `NoFalseHangUp`, of `TcpLink` and of `TcpServer` over it |
| `ServerTypeCorrect`, `ErasedWhenQuiet` | `ServerTypeOK`, `NothingDangles` |
| `PoolIsBalanced` | `Balanced` |

- `LinkInv`: `UnitsInOrder` (there is one request, and the response comes when it is gone; it bounds the
  buffers) and `PeerGone` (a FIN or reset on its way means that the other end is closed).
- `ServerIInv` adds `OneClient` (the client is in the backlog or about to be accepted, in one place, and in neither
  once its connection is made), `QuietWhenGone` (nothing happens to a connection before it is made, and one that
  is `Closed` has no registration, event or callback left), `GivenToClients` (no thread was given more clients
  than have come) and `InTurn` (the usable threads
  that come before the index in this turn have one client more than the others). `Balanced` alone is not
  inductive: it does not say where the index is.

**`RpcCallProofs`** (any number of calls, controllers and descriptors).

| Theorem | States |
|---|---|
| `TypeCorrect`, `FailuresHaveReasons`, `ClientsAreReleased` | `TypeOK`, `FailsForAReason`, `Released` |
| `WrongClosesHaveCauses` | `OwnDescriptor` |
| `OutcomesAreFinal` | `ReturnedIsFinal` (an action property) |

- `CallInOrder` and `TimersInOrder` say which call has a client and whose timers there are.
- `LastOwns`: of the calls that believe a number is theirs the kernel's owner is the last. `Lost`: a call
  that does not own its number gave it up in `connect()`, or an earlier call is recorded to have closed it. With
  the two a close of another's file has one of the causes `OwnDescriptor` names, however long the chain.
- `RoundInOrder`: the callbacks of a round are of different calls, and the number of each is closed, its
  own or another thread's; so one that arms its event again cannot bring a second call's registration back.
- `LeftBehind`: numbers and callbacks that stay in the loop behind their call are those of a call cut
  short by an earlier timer or answer. `EndsForAReason` is `FailsForAReason` before the
  call returns, and `TimedOutIsFinished` is what keeps a timer from writing to a controller whose call is over.

**`AsyncLoggingProofs`** (any size of a buffer and of the file, any maximum of the ring, any number and length of
lines).

| Theorem | States |
|---|---|
| `TypeCorrect`, `NoLineIsLost`, `RingStaysInOrder` | `TypeOK`, `NothingLost`, `RingInOrder` |
| `LastFlushWritesAll` | `LastFlush` (an action property) |
| `ImplementsLogFile` | `WritesLogFile`: each step accepts a line, writes the first ones of those that wait, or stutters |

The invariant has two parts, because the code keeps less once it drops lines.

- `SafeInv`, always: the types, `BackendInRing` (the backend's iterators are on buffers that were not erased)
  and `EachOnce` (a line is in one place, in a buffer or in the files, except those of the buffer that is
  written and about to be emptied, which are in both).
- `InOrder`, until a line is dropped: what is written is a prefix of what `append()` took;
  `BackendBehind`: in the order of the ring, counted from the buffer to flush next, the backend's two
  iterators are not ahead of the front end's; `NoneLeft`: buffers outside the stretch from the backend to the front
  end are empty; `Consecutive`: the buffers of that stretch hold consecutive lines, beginning with
  the first that is not written. Growing inserts a buffer into the ring and shrinking takes one out
  while the backend works on others, which moves the distances; most of the proof is about that.

**`RpcServiceProofs`** (any buffer; any messages, any number of them, cut up in any way; any services, methods
and names).

| Theorem | States |
|---|---|
| `ShrinkKeeps`, `AppendAppends`, `MoveForwardTakes` | a `TcpBuffer` is the sequence of its unused bytes: `shrink()` keeps it, `append()` extends it, `move_forward()` takes from its front, whether or not that drops what was used |
| `WireStaysInStep` | `InStep` and `FieldsArrive`, of `RpcWire` by itself |
| `ServiceTypeCorrect` | `ServiceTypeOK` |
| `StaysInStep`, `FieldsDoArrive` | `InStep` and `FieldsArrive`, of the wire with `RpcService` behind it |
| `AnswersDoMatch` | `AnswersMatch` |

`InStep` speaks of the bytes only before a start flag, and `FieldsArrive` only of packets that were returned;
neither is inductive. `WireInv` says where the decoder is in between:

- `WaysAgree`: before a start flag, what is on the way (`Unread`: the input buffer, the stream and the output
  buffer) is the packets that were not returned. After it `UnderWay` holds: what is on the way is the fields of the
  current packet from the one the state takes on (`Left`), and then the packets behind it.
- `UnderWay` also says that `m_remain_len` is the length of those fields, without which the data of the packet, whose
  length is not sent, could end in the wrong place; and that the protocol has the fields before them
  (`Took`), without which a string's length could be another's. Empty strings are left out of `Took`, because the code
  takes more than nothing for them.
- `WaitsForMore`: a receiver that does not decode has less than the state takes, which the third part of `InStep`
  needs.

From this, `GoesOn` finds that the decoder always takes exactly the field it has come to, so the flags are where it
looks for them and it never fails; `TakeStep` that taking it leaves the others in place, wherever the
bytes were cut; `IntArrives` that four bytes give the number back. `ServiceInv` adds the types and `AnswersMatch`,
which is inductive with them: `Match` is its body for one way of assigning requests to responses, and
`Process` extends that way by the packet that was returned. `NameSplits` and `NameJoins` are what
`parse_method_full_name()` does to a name: a dot in it gives a service and a method back, and those it was joined
from when the service is not in a package.

**`Lemmas`** holds what several proofs need of the data: the least element of a set of numbers (from
well-foundedness of `<`), induction in the form of sets ("a set that has 0 and the successor of each member has
all numbers"), sums modulo the size of a pool, sequences with an element removed, rings with a place
inserted or removed, `FlattenSeq` over a sequence, its pieces and one with an element more, and what of two ways to cut
a sequence is in front.

Only model-checked:

- All liveness properties (`PostedRuns`, `StopReturns`, `RunningLoopJoins`, `TimerFires`,
  `LinesReachFile`, `Answered`, `DeadServerNoticed`, `GoneClientForgotten`, `CallsReturn`):
  liveness under fairness and `ENABLED` are out of the prover's reach.
- That the instances reach the cases the properties are about: the mutants and the runs that expect a violation.

What folds compute over sequences of any length (`FlattenSeq`) would need the library's induction theorems, which the
provers cannot use. `Lemmas` proves the one fact about it that the others follow from (how it unfolds) by
induction over a set of numbers in the place of a predicate.

## 6. What the checks found

Runs that expect a violation, each a disagreement between the code and what the repository says of it
(quoted in `PROJECT.json`):

- `logging_file`: the counter of the log file's lines is not reset when the file is changed.
- `tcp_output`: after a partial `send()` the connection listens for reading only; the rest of the
  output waits for traffic from the peer that never comes.
- `tcp_closed`: a connection that the peer closed is marked `Closed` without closing its descriptor, and
  `clear()` returns at once for a `Closed` connection, so the descriptor is never closed.
- `rpc_stale`: the timer of a call that returned stops the loop of a later call of the thread,
  which fails although its server answers.
- `wire_empty`: a packet with empty serialized data (a protobuf message with default values
  only) is decoded with the sum, the end flag and what follows as its data. The same happens to an empty
  `m_error_info`, which every successful packet has; nobody reads it then.

Known defects without a run of their own, met while modelling; the properties that pass
are stated so that they do not cover them, and say so:

- An `IOThread` destroyed between `start()` and the first line of `loop()` (`eventloop.cc:86`), or
  never started (`io_thread.cc:45`), is never joined. `RunningLoopJoins` is about loops that run.
- When the loop of a thread cannot be made, `~IOThread` dereferences a null pointer
  (`io_thread.cc:34`); the model stops in a state of its own there.
- Two threads in `resetTimerFd()` may arm the timerfd in the wrong order (`timer.cc:105`), so that the
  earlier timer is late. `ArmedForEarliest` requires the earliest only while one thread adds.
- A timer that comes due between the collection of the due ones and `resetTimerFd()` is run before
  them (`timer.cc:112`), against the order of the queue; and the rounds a timer was collected for before it was deleted
  still run (`timer.cc:94`). `RemovedStaysSilent` excludes those.
- With every buffer of the ring in use the last flush writes nothing (`async_logging.cc:199`):
  `LastFlush` excludes that case.
- A dropped line leaves `m_current_itr` on the buffer the backend may erase next
  (`async_logging.cc:119`, `:174`): `RingInOrder` excludes dropped lines.
- The constructor of a connection posts its registration before `make_shared` returns, so a fast request
  reaches `shared_from_this()` too early (`tcp_connection.cc:216`): `bad_weak_ptr` ends the process
  (`BadWeakPtr`; `Answered` excuses a server that does not run).
- A message that fills the kernel's buffer is sent in part and waits for ever when the peer reads it only
  afterwards (`tcp_connection.cc:205`; `Answered` excuses it as `Stranded`).
- A client that `accept()` left in the backlog for want of descriptors is seen when the next one comes
  (`tcp_acceptor.cc:59`).
- Data read in the same callback as the FIN is never looked at (`tcp_connection.cc:159`): a response is
  lost when the server's process ends right after sending it (`ReadClosed` after `Receive`; `Answered`
  excuses it).
- `SIGPIPE` is not handled (`tcp_connection.cc:183`): a response to a client that has gone may end the
  server's process.
- The timer of a call, and the late answer to a call that such a timer cut short, stop the loop a later
  call runs (`rpc_channel.cc:46`). A callback of a connection that a timer of the same round destroyed
  runs on freed memory (`tcp_connection.cc:65`); `Released` shows that only cut-short calls lead there.
- `connect()` closes the descriptor after a refusal or a time-out and `clear()` closes the number again
  (`tcp_client.cc:69`, `:79`), by then perhaps another's; `OwnDescriptor` shows that nothing else does.
- A connection made in the round in which its timer expires has a closed descriptor
  and stays `Connected` (`tcp_client.cc:66`).
- The client of a call lives until the call's timer does (`rpc_channel.cc:36`): a thread that calls
  often runs out of descriptors, and `CallMethod` throws (`NoDescriptor`).
- A call that could not connect leaves its controller unfinished (`rpc_channel.cc:29`), so the
  timer of an earlier call with that controller overwrites `ERROR_CONNECT_FAILED` with
  `ERROR_CALL_TIMEOUT` after it has returned; `ReturnedIsFinal` excuses it.
- A timer that is due when it is added runs inside `addTimerEvent()` (`timer.cc:111`), and its `stop()` is
  overwritten when `loop()` begins (`eventloop.cc:86`). The timer is gone. With `setTimeout(0)`, or a thread that is
  descheduled for as long as the time-out, and a server that then says nothing, `CallMethod` never returns, or
  `connect()` does not; a call that is answered returns with `ERROR_CALL_TIMEOUT`. `CallsReturn` excuses only a
  loop whose own timer ran before it began while its connection has nothing to report (`Unheard`).
- An entry of another thread's closed file stays in `m_listen_fds`; `addEpollEvent` of the same number then
  modifies what the kernel has dropped, fails, and erases the entry (`eventloop.cc:177`): the connection is not
  registered, and its call ends by its timer only.
- `ERROR_CALL_TIMEOUT` is overwritten by `ERROR_CALL_FAILED` (`rpc_channel.cc:56`).
- `RpcController::Reset` leaves `m_is_failed` set; `done` is not run when the connection fails.
- A service in a package is registered under its full name and looked up by what precedes the first
  dot (`rpc_service.cc:136`), so it is never found; the error paths of `process()` answer nothing
  (`rpc_service.cc:48`). `AnswersMatch` leaves out both, and requests with empty data, which are
  answered or not as the bytes behind them have come or not.

Seen while reading, in code no module covers:

- `generateMsgID` changes `g_msg_id` in several threads without a lock (`tcp_connection.cc:15`), and
  `localtime` returns a shared buffer (`util.cc:44`).
- Trigger times are wall-clock, the timerfd counts on the monotonic clock (`timer.cc:13`).
- `pthread_create` is checked with `rt < 0` (`io_thread.cc:14`), but it returns positive errors.
- `EPOLL_CTL_MOD` keeps the old `FdEvent` in the map (`eventloop.cc:177`); every caller in `zest/`
  registers the same one.
- The members of `TcpServer` are destroyed in an order that leaves the map of connections with threads
  that still run (`tcp_server.h:49`); the process is ending then.

## 7. Assumptions, and what is not modelled

- `m_is_running` and `m_valid` are plain `bool`s read and written by several threads. A read gives
  the value last written: what x86-64 and a compiler that does not hoist
  the load produce. The loop's calls between two reads are opaque to it.
- `AsyncLogging`: the traversal of the ring that computes the distance is after the lock was released
  (`async_logging.cc:145`), and a data race with `append()`'s insertion. It is one step all the same, because under
  sequential consistency nothing else comes out of it: a buffer is inserted before `m_next_to_flush`, on the
  stretch of the ring the traversal does not visit. Nothing is logged once the logger's destructor has begun.
- `TimerFd`: whether a timer is periodic is a constant. `set_periodic` (`timer.h:30`), which could change it while the
  timer is in the queue, is called by `testcases/test_timer.cc:58` and by nothing in `zest/`, and is left out. One
  clock: the code uses wall-clock time for the queue and the monotonic clock for the timerfd; a clock that is
  set moves every timer.
- `TcpLink`: `tcp_read()` marks a connection `Closed` and returns in one step (`ReadClosed`): the callback does not
  touch the connection in between, so it may be destroyed there without harm.
- `TcpServer`: one client's connection in full, the others as places in queues: connections share
  nothing but the pool, the map and the backlog. `server_execute` takes the requests of a client that
  has one call in flight, as `CallMethod` has.
- `RpcCall`: controllers outlive the timers that point to them. The file of another thread answers
  whatever is asked of it. Message ids, the texts of errors and `IsCanceled` are left out: nothing in `zest/` reads
  them. The value of the time-out is not a number: a timer may come due at any time after it was made.
- Allocation does not fail, except where the code handles it.
- Not modelled: the text of log lines and errors, configuration, address
  conversions, protobuf, the wrappers of locks (every module models their effect), output of
  `protoc`, examples. The decoder on bytes that no `RpcEncoder` made is out of scope.

## 8. Plan

Order: what a lost wakeup or a hang would break first. Every component with state is modelled, and
every safety property a passing run checks is proved.

1. `EventLoop` with `TaskQueue`, and its proofs. *Done.*
2. `IOThread` over `EventLoop`. *Done, with proofs of its invariants.*
3. `TimerFd`. *Done, with proofs of its invariants and of `RemovedStaysSilent`.*
4. `AsyncLogging` with `LogFile`. *Done, with proofs of its invariants, of `LastFlush` and of the refinement.*
5. `TcpLink` and `TcpServer` over it. *Done, with proofs of their invariants.*
6. `RpcCall`. *Done, with proofs of its invariants and of `ReturnedIsFinal`.*
7. `TcpBuffer`, `RpcWire` and `RpcService` over it. *Done, with proofs of their invariants.*

Further questions join the run of the component they are about, so that each run remains one
instance of one component.
