# flz_server in TLA+

This directory holds a TLA+ model of flz_server, a C++ server framework built on
fibers: a scheduler that runs fibers on threads, an IOManager that parks fibers on
epoll events and timers, hooks that turn blocking system calls into such waits, and
servers, clients and pools on top. The modules model the scheduling core, the layers that
turn bytes into messages, and the services around them; TLC checks them on small instances
and TLAPS proves most of the invariants among what TLC checks for every instance.

Run a configuration with `tlc -workers 2 -config X.cfg Module`, a proof with
`tlapm Module.tla`. `PROJECT.json` lists the runs, and the source lines of each definition.

## 1. The system

| Part | State | Operations | Works with |
|---|---|---|---|
| `Timer`, `TimerManager` (`src/timer.cc`) | `m_timers` ordered by `m_next`, `m_tickled`, `m_previouseTime` | addTimer, addConditionTimer, cancel, refresh, reset, getNextTimer, listExpiredCb | the idle loop sleeps until `getNextTimer`; a new first timer tickles it |
| `Scheduler` (`src/scheduler.cc`) | `m_fibers`, thread counters, `m_stopping`, fiber states | schedule, run, switchTo, start, stop | runs fibers; `tickle` and `idle` are virtual |
| `IOManager` (`src/iomanager.cc`) | `m_fdContexts`, one `FdContext` per descriptor, `m_pendingEventCount`, epoll, a pipe | addEvent, delEvent, cancelEvent, cancelAll, tickle, idle, stopping | is a Scheduler and a TimerManager |
| `Fiber` (`src/fiber.cc`) | `m_state`, a `ucontext`, thread-local current fiber | swapIn, swapOut, call, back, yields, reset | switched by the scheduler |
| hook (`src/hook.cc`) | `timer_info` for each call | do_io, connect_with_timeout, sleeps, accept, close, fcntl, ioctl, setsockopt | addEvent, timers, `FdManager` |
| `FdManager`, `FdCtx` (`src/fd_manager.cc`) | a table of descriptor flags and timeouts | get, del, setTimeout, setUserNonblock | the hook asks it about every descriptor |
| locks (`include/mutex.h`) | mutex, `m_lock` of the scoped locks | lock, unlock, destructors | everybody |
| `FiberSemaphore` (`src/mutex.cc`) | `m_concurrency`, `m_waiters` | wait, tryWait, notify | the scheduler, `WorkerGroup` |
| `Thread`, `ThreadPool` | `m_tasks`, `m_state`, a semaphore | enqueue, m_loop, init, destructor | not used by the scheduler |
| `WorkerGroup`, `WorkerManager` (`src/worker.cc`) | a semaphore; schedulers by name | schedule, doWork, waitAll, init, stop | schedulers |
| `Socket`, `TcpServer` (`src/tcp_server.cc`) | listening sockets, `m_isStop` | bind, start, stop, startAccept | accept fibers on a worker, clients on another |
| HTTP parsers (`http/http11_parser.cc`, `http/httpclient_parser.cc`, `http/http_parser.cc`) | machine state, offsets into the buffer | init, execute, callbacks | fed one read at a time |
| `HttpSession`, `HttpServer`, `HttpConnection` | the buffer, the bytes left of a body or chunk | recvRequest, handleClient, recvResponse | parsers, streams |
| `ServletDispatch` (`http/servlet.cc`) | exact URIs, patterns, a default | add, addGlob, del, delGlob, getMatchedServlet | sessions |
| WebSocket (`http/ws_session.cc`) | a frame being written, a message being assembled | WSSendMessage, WSPing, WSPong, WSRecvMessage | streams |
| `ByteArray` (`src/bytearray.cc`) | chain of blocks, position, current block | fixed and variable integers, strings, setPosition, iovecs, files | independent |
| `HttpConnectionPool` (`http/http_connection.cc`), `MySQLManager` (`db/mysql.cc`) | idle connections, counters, transactions | get, release, check, execute, begin, commit | sockets; the MySQL library |
| `ConfigVar`, `Config`, log | value, listeners, times of files; loggers and appenders | setValue, listeners, LoadFromConfDir, log | listeners reconfigure logs and pools |
| `Application`, `Daemon` | the pid file, a child process | init, run, main, restart | everything |
| `Module`, `Library`, `Env`, util | modules; arguments | add, del; parse | start-up |

What is hard here: fibers move between threads and are woken while they still run;
`epoll_wait` results and timer callbacks are used after the state they were made from
has changed; edge-triggered events are reported once; tickles and timeouts replace each
other when one is missed; `close()` is three steps; a timeout races the answer it guards
against; wall-clock time can go back; a read may end anywhere in a message; a pooled
connection carries what its last user left on it; configuration, servers and processes are
reloaded, stopped and restarted while others still use them. `PROJECT.json` lists each hazard with its line and
the properties that would catch it going wrong.

## 2. Modules

**`TimerManager`** — timers, and the part of `IOManager::idle` that sleeps on them.
`m_timers` is a set of pairs (key at insertion, timer), so that an entry whose `m_next`
changes in place would not be found again. A worker goes through `getNextTimer`,
`epoll_wait`, the clock reading of `listExpiredCb` and the collection under the lock as
separate steps; a caller through addTimer, its insertion and `onTimerInsertedAtFront`.
The pipe has its bytes and its epoll edge. The clock ticks and may be set back.
`MCTimerManager` adds the symmetry of the workers for TLC.

**`FiberService`** — what a scheduler promises, without threads and queues: a fiber that
is woken runs, once, on one thread, and a wake-up of a fiber that still runs is kept.

**`Scheduler`** — the list, the loop of `run()`, the idle fiber as far as it sleeps and
leaves, the states of the fibers, `schedule`, `switchTo`, the yields and `stop`. A
`claim` on a fiber is the right to schedule it, held by an event, a timer or a
semaphore that the fiber gave itself to before it yielded; `counted` are the claims that
`stopping()` counts, those of events and timers. Callbacks are armed and dropped again.
`Worker` may contain `Root`, the thread that made the scheduler with `use_caller`. The root
fiber and the fibers it switches to share one context, that of `t_thread_fiber`: `saved`
says where its owner left it, in `stop()` (`call()`) or in `run()` (`swapIn()`), and with
that where `back()` goes when `run()` ends. The refinement to `FiberService` maps the fibers
in hands of workers to `running`, those in the list to `runnable` and claims to `parked`.

**`IOManager`** — descriptor contexts and epoll. The body of each event call runs under
the context's mutex and is one step; the look-up in `m_fdContexts` before it, and the
results of `epoll_wait` that an idle worker goes through after it, are separate steps.
`contextResize` makes new contexts and may shrink the vector (`gen` tells the contexts
of one descriptor apart). A failed `FLZ_ASSERT` ends the process (`aborted`). `close()` is
cancelAll, which does nothing for a descriptor beyond the vector, and then the kernel's part
of it. What the code leaves to its callers is the guard of `AddEvent`: one user at a time for
an event of an open descriptor, where a user is done when it is scheduled or the descriptor
is closed (`uses`). A user that was overtaken by a `close()` may go on with the number
(`overtaken`), and meets whoever opened it again. `delEvent` has no caller in the
repository; in the model no addEvent for its event begins while it runs. `Comes` says what
descriptors become ready for. `MCIOManager` adds symmetry.

**`HookIO`** — the composition: one fiber that makes hooked calls on one descriptor,
over addEvent, cancelEvent, cancelAll and timers, each taken as one step as the modules
above show them. The timer callback is four steps (taken out, `winfo.lock()` and the
test of `cancelled`, the assignment, `cancelEvent`), `close()` is three. Time passes in
ticks, `PerMs` of them a millisecond: `usleep` and `nanosleep` cut what is asked (`Naps`) to
whole milliseconds, and the clock that a timer counts from is cut likewise, so that a wait may
end almost a millisecond early. Another reader, the peer and the kernel's view of a
connection are external. A call without an `FdCtx` is the bare system call.

**`TimerManagerProofs`**, **`SchedulerProofs`**, **`IOManagerProofs`**, **`HookIOProofs`** —
theorems about these modules and their proofs.

### From bytes to messages

**`HttpParser`** — what both HTTP parsers have in common: rules (state, bytes, next state,
actions), the registers the actions set, and what happens to the offsets when a new buffer
begins. **`RequestParser`** and **`ResponseParser`** give the rules of the two generated
machines, grouped by the part of the grammar (request line, targets, authorities, fields;
status line, fields, the three known fields, chunk headers); one action is one byte, one
buffer end, or the start of a parser. A character stands for all the bytes a machine treats alike;
the numbered states are named. Offsets are abstracted to what they point at, so a token is
given to its callback "whole", "torn" or not at all.

**`HttpStream`** — `recvRequest` and `recvResponse` on a keep-alive connection: reading a
head, taking what of the body is in the buffer, `readFixSize` for the rest, and the loop over
chunks. A read returns any part of what is on the wire. The sizes of bodies and chunks are
constants; a chunk size has one digit or two, a body one chunk or two.

**`WebSocket`** — one direction of a connection: frames written in parts, masks, the three
codings of a length, pings and pongs written by another fiber, and `WSRecvMessage`. What a
receiver makes of bytes it takes for something else is either the end of the stream or a
message of unknown content (`Garbled`).

**`ByteArray`** — the chain of blocks with `m_cur`, `m_position` and `m_size`, the integer
and string codings, `setPosition`, `clear`, `getReadBuffers` and `writeToFile`, which takes one
step for each block. History remembers what was put where, and a `get` compares. What the
program writes is given by constants (`FixedValues`, `StringValues`, ...).

**`WireProofs`** — theorems about `WebSocket`, `ByteArray` and `HttpStream` and their proofs.

**`MCWire`** puts these and the two pools (below) side by side for TLC. They share no state,
so the variable `part`, chosen at the start, says which of them a behaviour exercises: the
union of the seven state graphs is what seven runs would explore. The users and the objects
of the MySQL pool are interchangeable.

### Services

**`HttpPool`** — `HttpConnectionPool`: the list under its lock, `m_total` changed outside it,
the checks in `getConnection`, the exchange of a request, and `ReleasePtr`. Each lock, each
unlock and the reading and the taking of the front of the list are steps of their own:
`getConnection` unlocks by hand and the destructor of its scoped lock unlocks once more,
whoever has the lock by then (`hpStolen`). When two callers are in the list at once
(`Overlap`) its content is undefined, and the behaviour is not followed further. A reply may
arrive after its caller has given up, and what is neither chunked nor of a stated length is
not read to its end (`spoilt`): the rest is there for the next caller.

**`FdManager`** — the table of `FdCtx`, `get` with its two locks, and the hooked `socket`,
`accept`, `close`, `fcntl`, `ioctl` and `setsockopt` that keep what the user asked for apart
from what the kernel has. A socket may be asked for with SOCK_NONBLOCK; timeouts are asked
for in microseconds and kept in milliseconds, -1 when there is none; the kernel may refuse
one that the context has already taken. A thread without hooks opens and closes descriptors
behind the manager's back, and sets timeouts that only the kernel learns. `lost` says what
the manager has missed of a descriptor.

**`ConfigVar`** — `setValue` as two steps (tell listeners under the read lock, store under the
write lock), listeners that may throw, and `LoadFromConfDir`: compare times, parse, set.
**`LogConfig`** — the listener of the variable `logs` that rebuilds loggers from the
difference of two configurations, and an event that reaches a logger or the root.

**`TcpServer`** — bind, start, stop, the accept fibers with their waits in `accept()`, and the
lifetime of sockets. The task that `stop()` leaves to the accept worker is, for each socket,
its `cancelAll`, that of the hooked `close()` and `close_f`, with fibers free to wait again in
between (`late`: on a socket that is closed next). **`Servlet`** — the dispatch table, where
each call is one step under the lock.

**`FiberSemaphore`** — `wait`, `tryWait` and `notify` with the step between leaving the lock
and yielding, and `WorkerGroup` as a user of it. **`ThreadPool`** — the queue, the semaphore
and the mutex with one step for each lock, unlock and destructor of a scoped lock.

**`MySQLPool`** — `MySQLManager`'s list, `MySQL::ping/connect/execute/use` as far as sessions
see them, and `MySQLTransaction`. Locks and unlocks are steps as in `HttpPool`, with the same
second unlock in `get` and `checkConnection` (`myStolen`, `MyOverlap`); `age` tells the 5 s of
`isNeedCheck` from the time after which `checkConnection` drops an object. Sessions of the
server are external: they may be lost at any time and statements may fail. **`Application`** — launches of the program, the pid file
check, the daemon's fork and restart, and the steps of `main` that write the pid file, load
the modules and bind.

**`MCServices`** puts these side by side in the same way, but for the two pools.

**`PoolProofs`** (`HttpPool`, `MySQLPool`), **`ServiceProofs`** (`FdManager`, `ConfigVar`,
`LogConfig`, `Application`, `TcpServer`, `Servlet`) and **`SyncProofs`** (`FiberSemaphore`,
`ThreadPool`) — theorems about these and their proofs.

## 3. Runs

| Run | Shows | Bounds, and why they are enough |
|---|---|---|
| `timer_safety` | `TypeOK`; `SleepersCovered`: when all workers sleep, one of them wakes by the first timer's time; `NoEarlyExpiry` | two timers (an order), two workers (a race for the sleep and stale clock readings), one caller, one tick more than a delay, the clock set back once within the tolerance. `Hour`, `MaxTimeout` and `IntLimit` are the code's constants, scaled |
| `timer_live` | `TimerFires`: a due timer is taken out; `HeapConsistent`: every find() succeeds and `reset` does not wrap | one timer, delays of two lengths (`reset` shortens and lengthens), two workers; the theorem `HeapAgrees` covers several timers |
| `sched_service` | `TypeOK`, `NoDoubleRun`, `OnePlace`; `ImplementsService`, the refinement to `FiberService` with its liveness | two threads, two fibers, one outside caller: a fiber scheduled while it runs, a pinned one, a missed tickle |
| `sched_stop` | `StopDrains`, `RunEnds`: after `stop()` of a scheduler without threads of its own `run()` ends, with nothing that is counted left behind: a fiber that has started has ended or waits on a semaphore | the root thread, two fibers (one notifies or not what the other waits on) and a callback |
| `io_events` | `TypeOK`, `NoLostEdge`, `PendingCounts` | three fibers (two wait, one cancels), a callback, two workers with stale results, one descriptor, the vector grown once |
| `io_close` | `WokenOnce` and `AddAssertions` with descriptors closed, opened again and contexts lost by `contextResize` | two descriptors beyond the initial size (the vector grows for one and shrinks for the other), two fibers (one closes what the other uses), a worker with a stale result, `Comes` READ and an error, which triggers both events |
| `io_assert` (violation) | `TriggerAssertion` fails, see below | two fibers, two workers |
| `hook_waits` | `OneWake`, `TimeoutNotEarly`, `SleepsLongEnough`, `ConnectTruth`, `ReturnsUnlessLost` and `TypeOK` | three calls of any kind (a late callback of the first meets the third), two timers alive, a millisecond of two ticks, a timeout of one, sleeps of half a millisecond and of two, two messages, another reader, a `close()` |
| `hook_returns` (violation) | `Returns` fails | one read |
| `hook_refused` (violation) | `ConnectTruth` fails when connect(2) fails at once | one connect |
| `wire` | ten properties, see below | `MaxReads` 2: one cut, at any byte of a message; a buffer of five units and two messages: bodies that fit, that end in a later read, and that are followed by the next message; two frames and one control frame: a fragmented message or two messages, with a ping anywhere; blocks of two bytes, three of them, two writes: every value meets a block boundary at each of its bytes; two callers of each pool with two connections or objects: one in the list, or another's lock set free; two requests for a connection (`MaxRequest`), a pool of one (the overflow) |
| `services` | eight properties, see below | two of each actor (threads, loaders, fibers) and two of what they share; timeouts of nothing and of one and a half milliseconds, three sockets, bound in lists of addresses in which one may stand twice (a second bind, a bind that fails), four servlet edits, three launches with three main processes (a restart against two others) |

The properties of `wire`:
- `RequestWhole`, `ResponseWhole`: what a parser that reports an end without an error gave to
  its callbacks. `execute()` puts the offsets back to the start of the new buffer, so a token
  that a read cuts is given torn, or a field is not given at all, without an error: the
  properties show that this happens to cut tokens and to no others.
- `BodiesInOrder`: the bodies handed on are those sent, in order. Exceptions: a read ended
  inside a framing field or a chunk header (`torn`: a field is lost as above, and the chunk
  parser starts anew with every buffer), or a buffer held the beginning of the next message
  (`over`: pipelined bytes behind a message are dropped).
- `MessagesWhole`: WebSocket messages arrive whole, unmasked and in order. Exception: a ping
  or a pong written between two parts of a frame (`mixed`), for the parts are written without
  a lock. A read of no bytes closes the stream: this is how an empty frame ends a connection.
- `ItemsReadBack`: what was put is got back across block boundaries, and both kinds of iovecs
  agree. `m_cur` is null at the end of the last block; it is followed only by reading nothing
  there.
- `FileHoldsBytes`: a file holds the bytes from the position on, if the position is at a block
  boundary. From inside a block `writeToFile` subtracts the offset from a rest that is shorter
  than a block, too (`src/bytearray.cc:473`), so the file ends early or the count is negative.
- `PoolCounts`, `ReplyIsOwn`: connections of `HttpConnectionPool` are counted and are in one
  place, and a caller gets the reply to its own request although others gave up waiting.
  Exceptions: two callers are in the list at once after a second unlock (`hpStolen`), and a
  connection kept with the rest of a reply on its socket (`spoilt`). The
  age test of the pool is the wrong way round and `m_createTime` is never set, so age never
  retires a connection; only its socket and `m_maxRequest` do.
- `PoolHolds`, `SessionsClean`: a MySQL object is idle or held by one user, transactions do
  not outlive their `MySQLTransaction`, and the database is the one last used. Exceptions: two
  callers are in the list at once after a second unlock (`myStolen`); an
  object whose reconnection fails in `get()` is neither freed nor listed again; a transaction with `auto_commit` whose
  statement failed is left open, as is one whose COMMIT or ROLLBACK fails (`left`); a session
  that is opened again has forgotten `use()` (`renewed`).

The properties of `services`:
- `SocketsHonoured`: a hooked socket never blocks its thread, shows its user the flag the user
  set, and its calls wait for the time the user set, less than a millisecond short of it, so
  that the `{0,0}` which stands for "no end" is a wait of 0 ms (`src/hook.cc:417`). Exceptions
  (`lost`): a socket opened, or whose number was closed, on a thread without hooks, for which
  the context is missing or another's ("context"; a server that binds on such a thread has
  accept fibers that block their thread); `ioctl(FIONBIO)`, which reaches the kernel's flag
  ("blocking"); SOCK_NONBLOCK, which `init()` takes for the system's ("flags"); a timeout that
  the kernel refused, or that was set without hooks ("timeout").
- `ListenersTold`: between loads listeners know the stored value, and a file that will be
  skipped is in force. Exceptions: two overlapping `setValue` or `addListener`, overlapping
  loads, a listener that throws, a file that failed after its time was recorded, two edits in one second.
- `LoggersFollow`: loggers agree with the configuration. Exceptions: the comparison of two
  definitions compares `appenders` with itself, so a change of appenders alone is `ignored`;
  an event that reaches a root logger without appenders recurses until the program dies.
- `AcceptersEnd`: one accept fiber per socket; once the task of a `stop()` is done the sockets
  of all fibers are closed, and a fiber that waits on a closed socket, which nothing ends,
  began to between the last `cancelAll` and `close_f` (`late`): every other one has an
  `accept()` that fails and then finds `m_isStop`. Exceptions: a
  `start()` before the task of the last `stop()` has run (`overlapped`) and a failed bind,
  which clears `m_socks` while fibers still accept (`orphaned`). Overlapping tasks, and a
  `bind()` during one, would change `m_socks` while it is walked: undefined, and left out.
- `DispatchOrder`: the table against a reference over its whole history of edits.
- `PermitsKept`: permits of a semaphore are conserved and waiters served in order; a
  `WorkerGroup` never gets its first permit, because `m_sem` begins at 0.
- `TasksOnce`: each task runs once and the queue is used by one thread at a time. Exception: a
  scoped lock's destructor released a mutex that its thread had already unlocked and another
  thread had locked since (`stolen`). A task pushed while the destructor runs may be left.
- `PidfileTruth`: the pid file names the running server across crashes and restarts, unless
  the check passed while another launch was between its own check and its writing, or waiting
  to be restarted (`fooled`).

The exceptions are history variables set at the step of the code that goes wrong; they name
every way the property can fail within the bounds, so a change that adds another is found.

Deadlock is not checked in `io_*` and `hook_*`, where the process may abort or the bound
on calls be used up, nor in `wire` and `services`, where the bounds are used up or a pool's
list is no longer defined, nor in `sched_stop`, where `run()` ends.

**Fairness.** `TimerManager`: workers go on round their loop, a call that has begun goes
on, time passes. Callers need not call. `Scheduler`: threads run, so the loop, the
fiber's own steps and the tickle at the end of `schedule` are weakly fair; nothing forces
an outside caller. For `sched_stop` the fibers end at last, events fire (both strong
fairness: a fiber may yield many times first), and `stop()` is called; these are
assumptions about the program that uses the scheduler, without which `run()` rightly
goes on. No semaphore need be notified. `HookIO`: threads run, workers run due callbacks and deliver what epoll reports
(which `TimerFires` and `NoLostEdge` justify), time passes, a `close()` that has begun
goes on. `wire` and `services` check safety only and assume no fairness.

**What the violations show.**
- `io_assert`: `idle()` checks that *some* reported event is still waited for and then
  triggers *all* reported ones; `triggerEvent` asserts that its event is registered. Two
  workers with results `{READ}` and `{READ, WRITE}` for one descriptor suffice.
- `hook_returns`: `do_io` arms the timer before it registers the event. A callback that
  comes in between leaves `cancelled` set and finds no event, and later callbacks return
  because `cancelled` is set: the call waits for ever. `ReturnsUnlessLost` names the
  state all such waits have in common (`CancelLost`) and shows that there is no other way
  not to come back. Two more ways into it appear with `Shared = TRUE` (a callback late by
  one retry) and `MayClose = TRUE` (the fiber waits again between `cancelAll` and
  `close_f`, and `cancelEvent` fails on the closed descriptor).
- `hook_refused`: `n!=-1&&errno!=EINPROGRESS` is never true, so a refused connect is
  waited for, and SO_ERROR no longer has the error.

**Three more disagreements** are in the model as they are in the code, and no property hides
them:
- `stop()` does not come back. `call()` saves its place in `stop()` in the context of
  `t_thread_fiber` (`src/fiber.cc:76`), each `swapIn()` of the same thread, that of the idle
  fiber at least, saves the place in `run()` over it (line 91), and at the end of `run()` the
  root fiber's `back()` goes there, into a frame that has returned. In `Scheduler` the root
  then is at "stale" and not at "exit". `RunEnds` says that `run()` ends, not that `stop()`
  returns, which `src/test/test_iom.cc:60-65` expects.
- With threads of its own, `stopping()` never holds, because `m_threadCount` is set in the
  constructor and never lowered, and `stop()` joins workers that never leave `run()`:
  `RunEnds` is for a scheduler without them.
- A fiber that registers between the `cancelAll` and the `close_f` of a `close()` is left in
  the context, and the next user of the number that waits for the same event fails
  `FLZ_ASSERT(!(fd_ctx->events & event))` (`src/iomanager.cc:145`). `AddAssertions` shows that
  this needs a descriptor that was closed under one of its users (`overtaken`), and that the
  other assertion, on the `EventContext`, never fails.

## 4. Proofs

Every invariant the passing runs check is proved but the two of the HTTP parsers, which TLC
alone checks (section 4.7). The theorems hold for every value of the constants, with no
bound on the numbers of workers, timers, fibers, descriptors, connections or callers:
bounds such as `MaxCalls` or `MaxTasks` are constants, and any natural number will do.
They rest on the named assumption of each module, which says that bounds are natural
numbers, that the values which stand for "none" are not also things, and where the code
counts something, that it is finite. Some theorems have a hypothesis besides; section 4.6
lists them.

The pattern is the same throughout. The property is not inductive, so an invariant `Inv`
adds what it silently relies on; one lemma for each action shows that the action keeps it;
the theorem follows from the initial state, the steps and `Inv => property`.

### 4.1 Timers and scheduler

`TimerManagerProofs`
- `TypeCorrect`, `NoWrapInReset`: by `TypeInv`, which adds to the types that every
  `m_next` is at least `m_ms` and that a caller inside `addTimer` has a timer in hand. A
  non-empty `m_timers` has a first element (`LeastNat`, `BeginExists`), so the timeout
  given to `epoll_wait` is a number.
- `HeapAgrees`: `HeapConsistent` is not inductive, because a timer in the hands of
  `addTimer` has a callback and is not in the set yet. `HeapInv` says that such a timer is
  in one caller's hands only and not shared, and that every other timer with a callback is
  found.
- `ExpiryNotEarly`: an action property, from `ClockInv`: `m_previouseTime` and each
  worker's `now_ms` are bounded by the clock and what it was set back.
- `NobodyOversleeps`: `SleepersCovered` speaks of the moment when all workers sleep, but
  the reason lies in how they got there. `WakeInv` says of that moment that whoever set
  `m_tickled` is still on the way to the pipe, or its byte is there, and that otherwise
  some worker's timeout ends by the time of the first timer: the last worker to block has
  cleared `m_tickled` when it computed its timeout, so that an insertion at the front
  since then tickles. `DueInv` says that a timer is due at most its period from now while
  the clock is not set back, so that `refresh()`, which does not tickle, only moves a
  timer backwards.

`SchedulerProofs`
- `Invariance` proves `Inv`, `TypeCorrect`, `RunsOnce` and `FiberHasOnePlace` follow. Its
  parts: the list has no fiber twice (`Distinct`); a claimed fiber is not in the list
  (`ClaimedOrQueued`); a worker at a step that uses its fiber has one (`HoldersKnown`),
  and no two have the same one (`OneHolder`); a fiber that is executed is RUNNING until it
  yields (`ExecutingState`), and is in the list or claimed meanwhile only after it gave
  itself away (`Registered`, `YieldsRegistered`); no fiber is forgotten (`Kept`); a root
  that waits in the caller holds nothing (`RootWaits`). `NoDoubleRun` needs all of them: a
  fiber in the list that still runs is skipped only because its state is RUNNING exactly
  as long as another worker has it.
- `StopLeavesNothing`: `Drained` adds to `Inv` that a root whose idle fiber has ended, or
  that has left the loop, is the only worker, holds no fiber, and that the list is empty
  and no timer or event is pending (`AtRest`): `stopping()` saw this, and nobody is left who
  could schedule. With `Kept` a fiber that has started has then ended, or its claim is one
  that is not counted, that of a semaphore.
- `KeepsPromise`: `Scheduler` implements `FiberService!Promise`, which is `FiberService`
  without its fairness. Each step of a worker, of a fiber or of a caller is shown to be
  one step of the service or a stutter under the mapping (`Runs`, `Waits`, `Parked`,
  `Gone`); a fiber that has ended is never in the list again (`EndedGone`). That the steps
  also come at last is liveness, which the run `sched_service` checks.

### 4.2 Events and hooked calls

`IOManagerProofs`
- `TypeCorrect`, `PendingIsCounted`, `AddNeverAborts`, `WaitersWokenOnce`: by one `Inv`.
  Each event bit agrees with its `EventContext` (`CtxInv`); while `addEvent` runs nobody
  else adds that event and no context of the descriptor, current or lost, has it, unless the
  descriptor was closed under a user (`AloneInv`); `UseInv` ties this to the promise of the
  callers: who is in a context, or inside `addEvent`, is a user of that event; a fiber or callback is in one place, a context, the list or the hands of
  one call (`GiveInv`, `PlaceInv`, `HoldInv`); the events waited for are finitely many and
  counted (`CountInv`). The second assertion of `addEvent` holds always; the first follows
  from the promise that an event has one user at a time, as long as no `close()` overtakes
  a user. The promise is on users, not on contexts: that a context has forgotten its user
  by the time the user is scheduled is what the proof shows.
- `EdgesKept`, for behaviours without `close()`: `RegInv` says that epoll's registration
  is what the context says, and `EdgeInv` that every event that has come is in the ready
  list or in a result that has not been passed over; a stale result is harmless because
  the handler registers what is left, which makes epoll report again. With `close()`
  contexts outlive their registration, and only `WokenOnce` is claimed.

`HookIOProofs`
- `TypeCorrect`, `WokenByOne`, `TimeoutsLast`, `SleepsLast`, `ConnectReports`: by one
  `Inv`. Timers that are alive belong to calls that have begun, and those of earlier calls
  may still be about to cancel (`TimersKnown`); what keeps them from ending a later call
  is `winfo.lock()` with `cancelled`. A timer of the present call is as old as the call at
  most (`TimersAged`); a sleeping fiber's timer is alone and ends its sleep
  (`OneSleepTimer`, `SleepAged`), so that a sleep ends less than two milliseconds short of what
  was asked, one for the division and one for the clock (`WholeTicks`); the answer to connect(2) ends the wait for WRITE, or the
  timeout does (`ConnectInv`).

### 4.3 Synchronisation and pools

`SyncProofs`
- `PermitsAreKept`: `SemInv` counts permits (initial and notified are those left, passed,
  or on their way with a fiber that is scheduled) and splits the arrivals into the resumed
  and the waiting; `WaitersInv` keeps a fiber from waiting twice; `GroupInv` says that
  nobody ever notifies the semaphore of a `WorkerGroup`.
- `TasksRunOnce`: `MutexInv` (who is in a section holds the mutex), `WakeInv` (the number
  of tasks is that of the permits and of the threads woken, so `front()` finds a task),
  `QueueInv` and `HandInv` (the tasks taken are the oldest, each one run or in one hand),
  `LateInv` (who finds the queue empty and leaves has left only late ones). All of it as
  long as no destructor of a scoped lock has set free the mutex of another thread
  (`stolen`).

`PoolProofs`
- `PoolIsCounted`, `RepliesAreOwn`: who is in the list holds the lock, or a second unlock has
  set one free (`LockInv`); who has read the front of the list finds it there (`HandInv`); a
  connection is idle, used by one caller or in one
  caller's list of those to delete (`OnePlace`), and no reply is on its way on an idle or
  unused connection that is still connected, unless it is `spoilt` (`QuietInv`): a caller that
  gives up closes it. `m_total` is the cardinality of what exists.
- `MySQLsAreHeld`, `SessionsAreClean`: `MyLockInv` as above and `CallInv` (what a user's call
  has in hand), `MyPlaces` for the objects and `TransInv`: a
  `MySQLTransaction` keeps its connection, and is marked finished only when the server has
  ended the transaction.

### 4.4 Services

`ServiceProofs`
- `SocketsAreHonoured`: `OneMaker` (one thread makes the context of a new descriptor) and
  `ContextTrue` (for a number in use the context of `FdCtx::init` with what was asked for
  since, but for what is `lost`), which each action keeps for each descriptor. `WholeMs` is
  the division of a timeout.
- `ListenersAreTold`: `ToldInv` covers the step between the two locks of `setValue`,
  `LoadInv` the steps of a load: as long as the recorded time is that of the file, its
  value is stored or in the hands of the one load under way.
- `LoggersDoFollow`: the definitions seen last agree with those asked for but for ignored
  appenders (`AskedInv`), and the loggers with what the listener makes of the ones seen
  (`LoggersInv`). `PidfileIsTrue`: two launches exist only after a check overlooked one
  that had not written the file (`ApInv`).
- `AcceptFibersEnd`: `TsInv` relates the sockets in `m_socks`, those that fibers wait on
  and those that are open: a server that is running has no task of `stop()` left, and as
  long as nothing overtakes a `stop()` every open socket that a fiber waits on is in
  `m_socks`, so that the task closes them all. `NoneMissed`: when `close_f` comes, only who
  began to wait after the last `cancelAll` waits. That the fibers with a failing `accept()`
  also come to their end is liveness and not stated.
- `DispatchInOrder`: `SvInv` says of each table what the history of edits says of it, and
  that the patterns stand in the order of their servlets (`Increasing`), so that the first
  that matches is the oldest. The lemmas about `LastOf` and `EraseGlob` say what one more
  edit and the erase loop do.

### 4.5 WebSocket, ByteArray and HttpStream

`WireProofs`
- `MessagesArriveWhole`: the channel holds parts of frames that the receiver has not read, so
  no invariant about its present state alone will do. `WsInv` says that there is a sequence
  `g` of the states the receiver will go through, one for each part on the way (`Reading`),
  whose last state has caught up with the sender: between two frames it has collected all of
  the message that is being sent and handed on the messages before it (`CaughtUp`), and
  inside a frame it is waiting for the very part that the sender will write next
  (`InFrame`). Writing a part appends the state after it to `g` (`AfterPart`), reading one
  takes the first state off, and `Xor` twice with the same mask is the identity.
- `ItemsAreReadBack`, `FilesHoldBytes`: the chain of blocks is one memory (`Mem`), in which
  byte `a` is in block `a \div BaseSize + 1`. `ChainOK` says that `m_cur` is the block of the
  position, or null exactly at the capacity; every call keeps it, whatever its bytes. A
  `write` puts its bytes at the position (`Written`) and leaves the rest of the memory as it
  was (`KeepsRest`), with or without new blocks; a `read` returns what is there. Each coding
  is undone by its decoding, and a varint is read in as many steps as it has bytes
  (`VarintReadBack`). So every item not overwritten since stays in the memory (`Holds`,
  `ItemTrue`). `FileTrue` says that the part of the file already written is the memory up to
  where the writing is, and that this is at a block boundary as long as anything is left.
- `BodiesComeInOrder`: what a read leaves in the buffer and what is still on the wire are one
  stream. `Streamed` names what is on the way from each message on, and `Inside` splits
  the stream of the receiver into what is left of its message and the messages behind it,
  and says how that rest belongs to the receiver's place and to the body so far: the rest of
  a head with the length known (`AtHead`), the bytes still missing (`AtRest`), the chunks
  still to come (`AtChunks`), the rest of a chunk with its line end (`AtChunkRest`). Every
  read and every step of a parser cuts the stream at another place, which is one lemma
  (`Peel`); `HeadIsCut` and `HeaderStep` show that a cut inside a framing field or a chunk
  header is one that `torn` records. `HsAssumption` bounds a body to two chunks of sizes 1
  to 3, that is of one or two digits; `ChunksLeft` lists what is left of such a body.

### 4.6 Hypotheses

| Theorem | Hypothesis | Why |
|---|---|---|
| `NobodyOversleeps` | `Worker # {}`; `DelaysFit`: every delay is below `IntLimit` | without a worker nobody wakes; the `(int)` cast at `src/iomanager.cc:306` makes a longer delay negative, and the worker sleeps for ever |
| `StopLeavesNothing` | `~External` | a caller from outside may schedule after `stop()` has looked |
| `EdgesKept` | `~MayClose` | `close()` ends registrations behind the contexts |
| `ConnectReports` | `~MayRefuse` | the run `hook_refused` shows the contrary |
| `BodiesComeInOrder` | `HsAssumption`: a chunked body has one or two chunks of 1 to 3 bytes | a size of one digit and one of two, a last chunk behind one chunk and behind two: each case of the loop and of the header |
| `TasksRunOnce` | `PoolThreads # {}` | `threadNums` is 0 by default (`include/threadpool.h:17`), and such a pool runs nothing |

The exceptions in the properties themselves (`stolen`, `lost`, `overlapped`, ...) are
those of section 3.

### 4.7 Model-checked only

- Liveness and fairness, which are out of the prover's reach: `TimerFires`, `RunEnds`,
  `ReturnsUnlessLost`, and the fairness of `FiberService` in `ImplementsService`.
- `RequestWhole`, `ResponseWhole`: the bound on reads and the rules of the machines make
  these statements about one finite machine each, whose every state TLC visits.

## 5. What is not modelled

- Critical sections are single steps outside `ThreadPool`, `HttpPool` and `MySQLPool`, the
  three that have both an `unlock()` by hand and a destructor that unlocks again
  (`include/mutex.h:34`) where others use the lock meanwhile. In the scheduling core only
  `Scheduler::start` does both, before its threads matter. What becomes of a list that two
  threads change at once is undefined, and not followed.
- `start()`, thread ids before a thread has set its own (`src/scheduler.cc:46` may record one
  too early), and the contents of contexts in `Fiber`.
- `Timer::reset` compares the period with the old one before it takes the lock
  (`src/timer.cc:52`); `Reset` has the comparison and the locked body in one step. It decides
  only whether the body runs, which reads everything again.
- A field `Transfer-Encoding` that a read has cut still makes the response parser take the
  body as chunked (`http/httpclient_parser.rl:107`); `HttpStream` loses the field. Both are
  in states that `torn` excuses.
- Listeners of a `ConfigVar` that change its listeners: they would ask for the write lock
  under the read lock of `setValue` (`include/config.h:428`). No listener does.
- `EINTR` in `epoll_wait`, which begins the whole timeout again; `epoll_ctl` and memory
  failures other than those of closed descriptors.
- A delay of 2^31 ms or more: the `(int)` cast makes it negative. `AsInt` models the
  cast; the instances stay below `IntLimit`. A sleep of that length is not in `HookIO`.
- A descriptor number that is used again while a hooked call waits, or an accept fiber is on
  its way back to `accept()`, is in `IOManager`, not in `HookIO` or `TcpServer`.
- `Channel` has no implementation to model. `WorkerManager` and `ModuleManager` are tables
  filled at start-up; `Library` is `dlopen`.
- The message classes of `http/http.cc` and `http/http.h` (fields, formatting, cookies), the
  WebSocket handshake, `Address` and `Uri` (conversions), `SSLSocket`, zlib streams, `Env`,
  util, the YAML conversions of `Config` and its `Lookup`, log formatting.
- `MySQLStmt` and `MySQLRes`, which bind columns to C types through the library's buffers.
- Loggers and `TcpServer::m_socks` are changed without a lock; the data races themselves are
  not modelled, each of their operations is one step.

`PROJECT.json` (`components`) gives the reason for each part.

## 6. Plan

1. Refinements, each with its proof: an abstract semaphore and an abstract task queue that
   `FiberSemaphore` and `ThreadPool` implement; an abstract table that `Servlet` implements.
2. Action properties: a permit is handed on by one `notify` only, `m_pendingEventCount` changes
   with one event, a listener is told once for each `setValue`.
3. Liveness of `TcpServer` over `HookIO`'s calls: every accept fiber that is not `late` ends
   after `stop()`.
4. `FiberContext` and `ModuleManager`.
