# Formal models of rtl

TLA+ models of the concurrent parts of this library, model-checked with TLC on small
instances, and theorems about them proved with TLAPS for every value of their constants.

## The system

| Directory | Part | State that matters | Modelled in |
|---|---|---|---|
| `stp/UnbMpMcTemplateQueue.hpp` | bounded multi-producer multi-consumer queue | buffer, open/closing, size limit, two condition variables | `MpmcQueue`, promise `FifoChannel` |
| `stp/RtlThreadPool.hpp` | thread pool over that queue | pool state, two mutexes, worker and periodic threads | `ThreadPool`, promise `TaskService` |
| `stp/RtlTimer.hpp` | one-shot timer whose loop runs on an executor | pending handler, deadline and its version, cancel and stop flags | `RtlTimer` |
| `stp/IExecutor.hpp`, `ThreadPoolExecutor.hpp` | executors | accepts work until closed | as far as `RtlTimer` and `CoroTask` use them |
| `db/pool` | connection pool and leases | idle list, two counters, a condition variable, shared ownership | `ConnectionPool` |
| `db/core`, `db/tx` | transactions, savepoints, retries | `transaction_active`, the driver's transaction, the session on the server | `Transaction`, composed with `ConnectionPool` |
| `coro` | tasks, schedulers, `sync_wait` | frames, promises, continuations, `SyncWaitState` | `CoroTask` |
| `ws/server/WsSession.hpp` | one WebSocket session | send queue and its counters, state, timers, operations in flight | `WsSession` |
| `ws/server/WsProtocol.hpp` | messages, files in chunks | | operators of `WsProtocol` and `WsTransfer` |
| `ws/server/WsApp.hpp`, `WsRouter.hpp` | handshake decisions, routing | the handler maps | operators of `WsApp` |
| `ws/server/WsServer.hpp`, `WsEngine.hpp` | server, io threads, drain | list of sessions, `m_stopWait`, acceptor, timer | `WsServer`, over `WsApp` |
| `ws/server/WsClient.hpp` | client | flags, io thread, heartbeat and reconnect threads, write queue | `WsClient` |
| `stp/StaticThreadPool.*`, `UnboundedMPMCQueue.h`, `LockFreeQueue.hpp` | older pool and queues | | not modelled |
| `allocators`, `collectors`, `protocol` | block lists, buffers, device messages | | not modelled |
| `core`, `json`, `middleware/Auth`, `db/core/Result.*` | configuration, conversions, output, interfaces | none of their own | not modelled |

The thread pool gives its tasks to the queue and its workers take them with `tryTake`. The
timer runs on an executor, which is a thread pool, and submits its handlers to it. Coroutines
resume on one. Transactions hold a lease of the connection pool. The WebSocket server keeps a
list of sessions, asks the application about each, and may run its io threads on an executor.

`PROJECT.json` lists every part, the lines behind every definition, and the hazards of
each part with the property that would catch them.

## Modules

**`MpmcQueue`** is the queue. A section under `m_mutex` is one step. A wait on a condition
variable ends the step with the thread asleep (`pc[t]`); it goes on in `..._resume` after a
notify, a deadline (`expire`) or spuriously, and tests its predicate again. Notifications
that the code sends after unlocking (`tryTake`, `close`) are steps of their own.
`notify_one` wakes any one sleeper. `PopIndices` is the container: the front of a deque or
list, the back of a vector, a greatest element of a priority queue. `accepted` and `left`
are history. `take_resume` ignores the state because `take()` does.

**`FifoChannel`** is what a queue promises: values received in the order sent, each once,
none sent into a full or shut channel.

**`ThreadPool`** composes the pool with `Queue == INSTANCE MpmcQueue`. `at[thr]` is a
thread's place in the pool's code and `pc[thr]` its place in a queue call. `m_mtx` and
`m_joinMtx` are part of the state because `shutdown_graceful` and `join` keep them over
several steps. `frames[thr]` is the stack of tasks a thread runs: a task may submit, and under
`caller_runs` the submitter runs the task inside `put`. `put` is three steps (the unlocked
test of `m_poolState`, the queue call, what it makes of the answer). The constructor creates
workers one by one and any creation may throw. Periodic threads follow the loop of
`add_periodic_thread`, with both tests of `m_poolState` outside the mutex. `put_periodic` is
one step because it holds `m_mtx` throughout; a rejected one changes nothing. The destructor
is `join`.

**`TaskService`** is what the pool promises: each job is admitted, run inline or refused,
started at most once, admitted only while open, and finished before the service is drained.

**`ConnectionPool`** covers `PoolState`, `ConnectionPool` and the lease `PooledConnection`.
`owner[c]` is the thread whose lease holds `c`. `init_new_connection_locked` may throw when
`CreateMayFail`. A lease can be moved to another thread, broken, and returned after the
`ConnectionPool` object is gone; the last reference destroys the `PoolState`.

**`Transaction`** composes `Pool == INSTANCE ConnectionPool` with `with_retry`, `Transaction`,
`Savepoint` and `Connection::exec`. `tx[t]` is the rest of a thread's activation record: where
it is, the attempt, the exception it unwinds with, its savepoints. The database is external:
`server[c]` is the session's transaction and its savepoints. Every statement, COMMIT included,
may be refused, may make the server roll back, or may lose the connection. Destructors run
in the order of unwinding: savepoints innermost first, then the transaction, then the lease.
The function given to `with_retry` may commit or roll back itself (`fn_ends`, `fn_reset`):
`with_retry` then meets a transaction that is no longer active (`with_retry_spent`), rolls
nothing back, and its own commit throws `std::logic_error`.

**`RtlTimer`** has the callers' operations, the loop `run_timer` with its outer and inner
waits, and the executor: `executor_closes` at any time, `executor_runs` for a submitted
handler when a worker is free. The clock is a counter (`tick`). Other users fill the executor's
queue (`others_fill`) and its other workers drain it (`worker_drains`). A submit to a full
queue is answered by the pool's rejection policy (`Answers`): refused at once, refused unless
room comes in time, made to wait, or run by the loop itself. A refused submit returns an exceptional
future, which the timer drops. Under `caller_runs` and with a full queue the constructor would
run the loop itself and never return, so no timer starts there.

**`CoroTask`** gives each call of `sync_wait` a chain of frames: the runner, the task waited for,
and the tasks awaited below it. `frame[c][k]` is where a frame stands, `run[thr]` the frame a
thread executes. `co_await` and `final_suspend` are symmetric transfers and one step each;
`schedule` posts the handle, runs it in the caller, or fails with the executor's rejection. The
runner's publication of the result, its notify and its `co_return` are three steps, because
`sync_wait` may return, and destroy state and frame, after the first.

**`WsProtocol`** and **`WsApp`** are pure operators: `string_to_message`; `add_endpoint`,
`add_message_handler` and `setup_middleware`, which build the application that `WsServer` then
serves unchanged; `handle_auth`, `handle_accept` and the routing of a message.

**`WsSession`** is one record `s` with the session's members and what it has in flight. A
method is an operator from record to record. `s.ready` is the queue of posted handlers. With one
io thread a handler is one step. The engine may run several threads, without a strand or a
lock: then any of the first `ioThreads` posted handlers may begin next, and what a handler does
after its tests is a second step (`Rest`, `run_rest`) that acts on what the first one read while
other handlers begin and end in between. Finer interleavings, down to two threads inside the same
`std::deque`, are undefined behaviour that no record describes. Stream and peer are external:
an operation completes, fails or is aborted. `queue_overflow` asks the socket for its peer first;
if it is no longer connected that throws, and the exception ends the io thread instead of the session.

**`WsTransfer`** composes the session with `blob_to_chunk` and `chunks_to_blob`: the messages a
session sends are those a file is cut into, and what was written is put together again.

**`WsServer`** runs `start`, `stop` and broadcasts on callers' threads and the handlers of
acceptor, sessions and drain timer on the io threads, which may be an executor's. The thread in
`stop` holds `m_sessionMtx` between its test and its sleep, and the timer stores `m_stopWait`
without it; these are steps of their own. A session is reduced to how far it has come
(`SessionStep`): the handlers of `WsSession` that the server does not see are left out, and that
a session ends without a notice is a choice, which `WsSession` shows to be real.

**`WsClient`** has the users, the detached reconnect threads, the heartbeat thread and the io
thread. `at[t]` is a thread's place in `connect` or `close`, which change the members without a
lock; `gen` counts connections. The reconnect thread's test and its two stores are steps of their
own (`reconnect`, `reconnect_forget`, `reconnect_unschedule`). The first stores of `close` share
a step, and so do those of `init_io` after its joins: see *Not modelled*. As in Beast, a stream
reports one failure to one operation and `operation_aborted` to the others.

The `MC*` modules instantiate these for TLC and hold symmetry sets and scenarios.

## Runs

| Run | Configuration | Distinct states | Shows |
|---|---|---|---|
| `queue_pool` | 2 threads, 3 items, limit 2, priority queue, the pool's operations, fair | 51,346 | nothing lost, duplicated or invented; no lost wake-up of a producer; close unblocks |
| `queue_full` | 3 threads, 2 items, limits 0 to 2, deque, every operation | 419,643 | order, close reaches every sleeper (`QueueSafe`); no lost wake-up of a consumer; implements `FifoChannel` |
| `pool` | 1 client, 1 worker, 1 periodic thread, 2 tasks, four policies; client and periodic function submit, shut down and join | 756,407 | implements `TaskService`; stopping closes and drains, a refused task never runs, at most one late periodic start (`StopSafe`); join returns to a stopped pool and never to a thread of the pool (`JoinSound`) |
| `pool_live` | 2 clients, 1 worker, 2 tasks, block policy, fair | 51,333 | every admitted task ends; join returns while submitters are blocked |
| `conn_pool_wake` | 4 threads, 2 connections, 1 lease each, fair | 21,752 | exact counters, limit, one place per connection, no broken one idle, `m_shutdown` never observed (`PoolSafe`); no lost wake-up; nobody blocked for ever |
| `conn_pool_create_fails` | 3 threads, limit 1, connects fail, fair | violation | a failed connect uses up the wake-up |
| `db_tx` | 2 threads, 2 connections, limit 1, connects fail, 2 attempts, 1 statement, 2 savepoints, functions that may end the transaction themselves | 1,886,373 | connections go back clean; a call takes effect once; a savepoint fails silently only after a lost connection or a misordered end |
| `timer` | 2 callers, 2 waits, 3 versions, time to 1, 2 executor workers, a queue that fills once, four policies, fair | 330,830 | one result per wait, cancel wins, none forgotten, quiet after destruction (`TimerSafe`); never early; waits settled; handlers run |
| `coro` | 2 calls, one on a worker and for `Task<void>`, 2 workers, depth 2, 2 awaits, fair | 19,976 | a coroutine is in one place; the result is the task's; the runner outlives its caller only after publishing; `sync_wait` returns |
| `ws_session` | a file of 3 bytes in 4 messages, limits of 2 messages and 3 bytes, `size_t` modulo 8, 1 io thread or 2 with overlapping handlers, pings or idle timeout, fair | 1,165,271 | with one thread one write at a time and in order, and counters that cover the queue; a torn file is never accepted; the server learns of a close |
| `ws_server` | 2 callers, 2 clients, 2 io threads, 7 scenarios, fair | 221,501 | stop's wait misses no notification and returns; afterwards nothing runs; listed sessions were told; only admitted clients' messages are handled |
| `ws_client` | 2 users, 3 reconnect threads, 3 connections, 4 scenarios, fair | 63,019 | one write at a time, in order; close is final; a healthy connection stays; a reconnect happens, or waits for close if there is a heartbeat; messages go out |

`NoLostNotFull` is checked and proved for the operations the pool uses: `take`, `clear` and
`set_queue_max_size` make room without notifying `m_notFull`, so with them a producer can
sleep beside a free slot until the next `tryTake` or `close`.

Some properties carry an exemption, each for something the code really does:
- `SendOrder` and `CountersCover` are claimed for one io thread. With two, handlers overlap: one pushes
  with counters that another has changed, or starts a second write.
- With one thread, `SendOrder` and the bounds of `CountersCover` except a session where a message was
  enqueued in shutdown while a write was in flight: `do_write_next` then starts a second write of the
  same front, and the byte counter can wrap. It is not consulted again: `CountersCover` still says that
  the counters are exact while the session is open.
- `NoTornBlob` excepts a session on which a message was freed while it was being written.
- `ClosingIsReported` excepts a session whose stream reported its one error to the write of a drain or
  to a ping while no read was in flight (`swallowed`): its `async_close` is aborted.
- `DecidedHandlersRun` excepts a closed executor, and a full one under the two policies that refuse.
- `ReconnectHappens` excepts a failure that came between the reconnect thread's two stores (`overlooked`).
- `CloseIsFinal` excepts a `close()` that raced with a `connect()`, also one made by a reconnect
  thread that waited for the heartbeat: the client is then connected again.
- `RunnerRaceWindow` states the window in which the runner touches a destroyed state.
- `EffectOnce` leaves open whether a COMMIT whose connection was lost took effect, and excepts a call
  whose savepoint failed silently, and one whose function ended an attempt itself.
- `NoLostStopWake` waits for the drain timeout if a session ended without a notice.
- `StopTellsSessions` excepts sessions registered after `stop` took its list; they end with the
  drain timeout.

**Bounds.** Two items and limits of 1 and 2 make the queue full and empty and hold two items
at once, so that their order shows; three threads give a producer and a consumer asleep and one
closing, or two sleepers of a kind and the thread that notifies. `queue_pool` has two threads
because liveness rules out symmetry: a sleeper and the thread that must wake it. The theorem
`ProducersAreWoken` covers any number. Two tasks and a limit of 1 fill the pool's queue, let a
task submit another and leave a task queued at shutdown; a client and a periodic function are two
concurrent shutdowns or joins. For leases, four threads over two connections give holders, a
sleeper and a thread that comes between notify and wake-up. In `db_tx` a second attempt meets what
the first left, one connection makes the threads wait for each other, and two savepoints can be
ended in the wrong order. `MaxWaits` 2 is a wait and its successor; `MaxVersion` 3 allows for rearming
or cancelling one of them, the proofs cover any number; `MaxTime` 1 gives a deadline that has
passed or is to come; a queue that fills once meets each submit of the loop full or not. Depth 2 and two
awaits make a task that awaits twice and one that awaits in turn; two workers let one of them
block in `sync_wait`. The session's limits refuse a third message and a fourth byte; `size_t`
modulo 8 lets the counters wrap. Two clients are an early and a late session; three connections are
the first, a reconnect and a reconnect of that.

**Deadlock** is checked except in `pool`, where a self-join really blocks, in `db_tx`, where a
failed connect can leave threads asleep (item 3 below), and in `ws_server` and `ws_client`, where the scenarios end.

**Fairness.** Weak fairness of a thread's own steps: threads are scheduled and mutexes are
handed on. Strong fairness of a deadline: the code's deadlines pass in real time whatever
spurious wake-ups happen meanwhile. Strong fairness of the end of a task, a periodic function
or a lease: the user's functions return. In `CoroTask`, some free worker serves the handles the
executor accepted. In the WebSocket models the io threads run ready handlers, timers that are due
expire, the stream completes what it is given, and a stream that is closing gets its answer or an
error; reads on an open stream have no fairness, no peer or client is obliged to send anything.
No caller is ever obliged to call anything, and spurious wake-ups have no fairness.

## Disagreements between code and text

1. `join` "terminates on self-join" (`stp/RtlThreadPool.hpp:152`). When another thread is
   already in `join` it holds `m_joinMtx`, the self-joining worker blocks on it, and both
   wait for ever. `JoinSound` states the part that holds: no thread of the pool gets past it.
2. The feature test requires that a periodic task does not run after shutdown
   (`test/feature-test/feature-test.cpp:138`). A thread past its second test of the state runs
   it once more; never twice, which is part of `StopSafe`.
3. The pool test requires that a blocked acquire finishes after a connection is released
   (`db/test/integration/pool_main.cpp:167`). If the woken thread fails to connect, nobody
   else is woken although there is room (run `conn_pool_create_fails`).
4. `tryTake(0)` is commented "wait indefinitely" (`stp/UnbMpMcTemplateQueue.hpp:304`).
   `milliseconds::max()` added to the current time overflows, and the wait may end at once; the
   model lets it expire.
5. The tests of the application build a `WsApp` without a middleware and expect that "unknown
   endpoint should return HTTP 404" (`ws/test/WsAppLogicTest.cpp:180`) and that "typed route should
   dispatch the matching message handler" (`:235`). Without a middleware `setup_auth` refuses every
   handshake with 401 (`ws/server/WsApp.hpp:220`) before the endpoint is looked at. The model follows
   the code; `HandledAreKnown` states what the code enforces, that no message is handled for a client
   the middleware did not admit.

## What the models show about the code

Behaviour that the models contain because the code has it, and that a reader may not expect.

Transactions
- `mark_broken` destroys the connection while the driver's transaction still refers to it; the
  model lets statements after it fail.
- COMMIT of a transaction the server has already failed discards it without an error.
- Ending an outer savepoint first makes the inner one's destructor fail the transaction silently.
- Errors in the constructor of a transaction are not retried; an in-doubt commit is not either.
- A function that commits itself makes `with_retry` throw `std::logic_error` although its effects are
  durable; if it then throws a serialization failure or a deadlock it is run, and may commit, again.

Coroutines
- After publishing `done` the runner notifies and returns on a state and a frame that `sync_wait`
  may have destroyed (`RunnerRaceWindow`).
- `sync_wait` on workers of the executor it waits for blocks for ever when no worker is left; this is
  the premise of `SyncWaitReturns`.

WebSocket session
- With two io threads and no strand, messages may leave in another order than they were sent.
  Their handlers overlap, so that writes may overlap too and the counters miss updates.
- `begin_closing` clears the queue while a write from it is in flight, which reads freed memory (`freed`).
- A message enqueued in shutdown while a write is in flight starts a second write of the same front.
- An overflow on a socket that has lost its peer throws in `remote_endpoint` (`WsSession.hpp:705`), which
  ends the io thread, for all its sessions, and leaves the session open.
- `close_for_shutdown` posts after its test, and may revive a session that began to close meanwhile.
- A pong after `begin_closing` arms the heartbeat again. A write while draining, or a ping, that fails
  while no read is in flight may end the session without a notice (`swallowed`).

WebSocket server
- Of two concurrent calls of `stop` one returns at once. A `start` concurrent with another runs the
  engine twice; one that meets `stop` can leave the acceptor failing over and over.
- After `stop`, `start` runs on an `io_context` that was not restarted: it serves nobody, and a
  further `stop` may not return. Io threads on an executor are not joined.
- The drain timer's handler does not look at its error code. Forced closes are posted and then
  dropped when the io context stops. Without a middleware every handshake is refused.

WebSocket client
- An orderly close by the peer does not reconnect and leaves `m_started` set, so that `connect`
  afterwards does nothing.
- With a heartbeat a reconnect waits for the heartbeat thread, which only `close` ends; `close` then
  lets it connect again. The example enables both (`ws/examples/main_client.cpp:9`).
- The reconnect thread stores `m_started` and then `m_reconnectScheduled`. A `connect` by a user between
  the two makes a connection whose failure, if it comes before the second, schedules no reconnect.
- `init_io` replaces `m_ioc` first and the work guard, the resolver and the stream after it
  (`WsClient.hpp:250`), so on a reconnect those are destroyed after the `io_context` they refer to.
- The destructor calls `close`, whose `shared_from_this` throws there: it sets the flags and joins nothing.
- That a failed connection is replaced once rests on the stream reporting one error that is not
  `operation_aborted`.

## Proofs

The theorems hold for any finite sets of threads, clients and calls, any items, limits, depths,
scenarios and sets of operations. Each rests on the named assumptions on constants of its module
(`...Assumption`) and nothing else. Every inductive invariant was first checked with TLC. Proofs
are in modules of their own: one per component, except that coroutines and timer share
`ExecutorProofs`, the server and the connection pool share `RegistryProofs`, and the thread pool's
fill two. A shared proof module extends both components, so `RtlTimer` and `WsServer` name their
specification with their own prefix (`TimerInit`, `ServerSpec`, ...). A module that is proved
about extends no more of the community modules than it needs, since every definition in reach is
part of every proof obligation; this is why the chunks of a file are in `WsTransfer`, apart from
the session.

**`MpmcQueueProofs`**
- `TypeCorrect`: the type invariant, which the others rest on.
- `ConsumersAreWoken`: `NoLostNotEmpty`, with every operation. It is inductive over the type
  invariant. `ConsumerEffects` says what a step can do to the buffer, the sleeping consumers
  and those about to wake; a case split on it gives the step.
- `ProducersAreWoken`: `NoLostNotFull`, for the operations the thread pool uses. The
  assumption is needed: `take`, `clear` and `set_queue_max_size` make room silently.
- `CloseIsSeen`: `CloseReachesSleepers`. After close a sleeper has a notification pending,
  or is in `take`.
- `FifoCorrect`: `FifoOrder`. `QueueIsSafe` joins it with `CloseIsSeen`.
- `QueueImplementsChannel`: over a deque or list every step of the queue is a step of
  `FifoChannel` or invisible. It uses `FifoOrder` to identify what is popped with what is
  next to be received.
- `NothingLost`: `Conservation`, for every container. It is inductive over the type invariant;
  the lemma `WithoutRange` says what `pop` leaves behind, wherever it takes from.

**`RegistryProofs`**, the connection pool
- `ConnInvariant`: `TypeOK`, `CountersExact`, `WithinLimit`, `OnePlace` and `IdleAreOpen`
  together are inductive. They lean on each other: counting leases needs that a leased
  connection is not idle as well, and what is popped is open only if the list is exact.
  `CountersCorrect`, `LimitRespected`, `LeasesExclusive`, `BrokenNotReused` are its parts.
- `ShutdownNeverSeen`: `ShutdownUnobserved`, from the lifetime of the shared state. The
  branches on `m_shutdown` in `acquire`, `try_acquire_for` and `return_connection` are
  therefore never taken. `PoolIsSafe` joins all of these.
- `NoWakeupLost`: `NoLostWakeup` when connecting does not fail. With failures it is false
  (item 3 above).

**`ExecutorProofs`**, the timer
- `TimerInvariant`: the properties below are strengthened with `HandlerIsNewest` (the stored
  handler is that of the newest wait, for which nothing is decided), `CancelNoted` (a cancel of
  it stays noted until the loop settles it) and `LoopIsCurrent` (the loop's deadline is the
  expiry time in force while its version is current).
- `ResultsUnique`, `CancelIsHonoured`, `WaitsAreKept`, `InnerExitUnreachable`, `TimerTypeCorrect` are
  its parts; `ExpiryIsCurrent` is the action property `NeverEarly`, from `LoopIsCurrent`.
- `DestroyedIsQuiet`: the loop's end is stable and the destructor waits for it. `TimerIsSafe` joins
  the state properties.

**`ThreadPoolSteps`** and **`ThreadPoolProofs`**: the first has the invariant and the lemmas that a
step of each kind keeps it, the second puts them together and has the theorems.
- `PoolInvariant`: the invariant of the pool composed with its queue. A step in the queue is
  reduced by `QueueSteps` to one of a put, of a take, of `close`, or to threads that move; the pool
  relies on nothing else of the queue. The parts of the invariant:
  - `Agree` and `Stacks`: a thread's place in the pool fits its place in the queue and the tasks on
    its stack.
  - `Stopping`: `m_poolState` leaves "running" under `m_mtx`, whose owner keeps it until the queue
    is closed. This is why a second `shutdown_graceful`, which returns early, still
    returns to a closed queue.
  - `Stopped`, `Drained`: `join` has passed only threads that exited, and a worker that was told
    "closed" left an empty queue behind, which stays empty.
  - `Construction`: until every worker was created nobody uses the pool. A constructor that
    throws therefore has nothing to drain.
  - `Lateness`: a periodic thread that ran late meets a test that stops it before its next run.
  - `Ledger`, `Custody`, `Running`: what submitters were told agrees with what the queue accepted;
    an accepted task is in the queue, in one worker's hands or started, never two of these; a
    started task is on one stack, once.
- `StoppingIsSafe`: `StopSafe`. The case where construction failed is separate: there may be no
  worker that saw the queue empty, but nothing was ever accepted.
- `JoinIsSound`: the action property `JoinSound`. When the loop of `join` is done every thread of
  the pool has exited, so none of them is the one that returns (`JoinDoneFacts`).
- `PoolImplementsService`: `ImplementsService`, step by step. Storing a task is `Admit`, the return of a
  put `Refuse`, `Inline` or nothing, a worker's start `Start`, `close` is `Close`, the end of
  `join` is `Drain`. `Custody` gives that a started task was admitted and not started before,
  `Running` that a task that ends is on no other stack.

**`TransactionProofs`**
- `TransactionInvariant`: a thread has exactly one lease from the acquire to the release and none
  otherwise (`Placed`, `OneLease`), over the pool's own invariants. What was committed is known from
  where the call is and which exception is under way (`Committed`): this is what rules out
  a second attempt after a commit, for a function that leaves the commit to `with_retry`. A session is without a transaction before `begin` and after
  `finish`, in order while nothing was swallowed, and knows every active savepoint in scope
  unless savepoints were ended out of order (`Session`); for that, savepoints in scope are
  numbered upwards (`Numbered`), so that rolling back to one keeps those below it.
- `ConnectionsReturnClean`, `TakesEffectOnce`, `SavepointsAreScopeSafe`: `CleanReturn`, `EffectOnce`,
  `SavepointScopeSafe`.

**`ExecutorProofs`**, the coroutines
- `CoroInvariant`: a frame is executed, posted or at rest as its place says (`Placed`), by one
  thread (`Alone`); the callers of a frame that has begun are all awaiting (`Chain`), so that nothing
  it awaited still exists while it executes; a caller runs the frames of its own call only inside `sync_wait`
  (`CallersPlaces`); and how the task ended is in its promise until the runner has stored it, then in
  the state (`Delivered`). `Chain` is what makes the others inductive: a frame that ends resumes
  its continuation without a look at it, so the continuation must be known to be at rest.
- `FramesHaveOnePlace`, `ResultsAreDelivered`, `OnlyTheRunnerIsLeft`: `OnePlaceToRun`,
  `ResultDelivered`, `RunnerRaceWindow`.

**`RegistryProofs`**, the server
- `ServerInvariant`: `NoLostStopWake` with the facts that make it and the others inductive. A thread
  that has tested and not yet slept holds the mutex, and its test still holds or the timer has still
  to take the mutex and notify (`TestHolds`). The list holds registered sessions (`Listed`), and a
  session past its handshake was admitted (`OpenIsAdmitted`). While `stop` waits and after it, each
  listed session was told or is about to be (`WaitCovers`). Threads are joined only after the
  io context was stopped, and then no handler begins (`JoinedIsQuiet`).
- `StopIsWoken`, `StoppedIsQuiet`, `SessionsAreTold`, `OnlyKnownAreHandled`: `NoLostStopWake`,
  `StoppedMeansQuiet`, `StopTellsSessions`, `HandledAreKnown`.

**`WsClientProofs`**
- `ClientInvariant`: while the client lives, the right to make a connection is in one place:
  `m_started` being false, one thread, or the connection that may yet fail (`OneStarter`). A `close`
  that raced no `connect` meets none later, and takes down the io thread before the heartbeat, which
  only the io thread starts (`CloseTakesDown`).
- `CloseEndsAll`, `HealthyIsKept`, `HeartbeatBlocksReconnect`: `CloseIsFinal`, and the action
  properties `HealthyStays` and `ReconnectWaitsForClose`.
- `WritesInOrder`: `OneWriteInOrder`. Messages are numbered in the order of the calls
  (`Numbered`), and what is on the wire, in the queue and still posted are consecutive pieces of what
  was sent (`Flow`); a fresh connection has nothing in flight (`FreshIsEmpty`) and one thread
  builds it (`OneBuilder`).

**`WsSessionProofs`**
- All three theorems are about one io thread, where nothing runs between a handler's parts.
- `SessionInvariant`: until two writes overlapped, what was written comes before what is queued or in
  flight, and that before what is still posted (`Ordered`). One write is in flight, of the head of the queue unless closing
  emptied the queue (`OneWrite`); between two steps of an open session `m_writing` tells whether there is
  one (`Settled`). Nothing passes through a session that was never open (`Pristine`).
- `MessagesInOrder`: `SendOrder`.
- `CountersCovered`: `CountersCover`, with messages of any size. The bytes in the
  queue are the last of their running totals (`Totals`); the invariant `Counted` keeps totals that
  never decrease, so that a message can be added or taken off without a sum over the queue. Before a
  session opens nothing is counted, and an open session has never had overlapping writes.

Only model-checked:
- everything under fairness, since liveness is outside the prover; so also `ImplementsFairService`,
  the pool's promise that admitted tasks end;
- a session on several io threads: `NoTornBlob` and `ClosingIsReported`, on two;
- `NoTornBlob` of `WsTransfer`: the file is put together from its chunks by a fold over a sequence, and what
  that computes for every sequence needs induction over data, which is out of the prover's reach.

## Not modelled

- Pure queries (`size`, `empty`, counts, statistics), logging, wording of errors.
- Empty handlers in the timer. The inner loop's `!m_pending` exit is unreachable (`InnerMeansPending`).
- Weak memory. The WebSocket code uses relaxed atomics in places (`m_stopWait`, `m_closing`); the
  models treat every atomic as sequentially consistent.
- In the WebSocket client, the window between single stores of the flags that `close` sets before it
  posts, and of the members `init_io` sets after its joins: each group is one step. The first store of
  `close`, of `m_closing`, already turns away whoever looks, except a `connect` past its test, which is what
  `raced` marks. In `init_io` no other thread connects and the io and heartbeat threads are
  gone; a `close` beside it is again `raced`, and a `send_text` beside it reads `m_ws` while it is
  replaced, a data race whose outcome (a message given to a stream that is not connected yet) is left
  out. So are the order in which `init_io` destroys the old objects and the destructor's call of `close`.
- The configuration of the application (`add_endpoint`, `add_message_handler`, `setup_middleware`) while
  the server runs: the maps have no lock, and the models fix them before `start`.
- In a session on several io threads, interleavings finer than a handler's tests and the rest of it,
  torn accesses, and io threads that other sessions' overflows end.
- A function under `with_retry` that ends the transaction inside the scope of a savepoint, or that
  handles the failure of its own commit.
- Whether the database server is alive; a broken connection is a choice of the model.
- User callbacks that call back into the WebSocket client; moves of tasks, transactions and savepoints;
  tasks driven by hand with `resume()`.
- `stp/StaticThreadPool.*` and `UnboundedMPMCQueue.h`: an older, simpler form of pool and queue that
  nothing else in the library uses.
- `stp/LockFreeQueue.hpp`: nothing uses it; what its unreclaimed nodes do depends on the reuse of
  freed memory, which an abstraction to values hides.
- `allocators`, `collectors`, `protocol`: sequential arithmetic on bytes and addresses, used by nothing
  that is modelled.
- Configuration, `json`, results, serializer, logger, and the interfaces under `middleware/Auth`: I/O
  and conversions without state.
