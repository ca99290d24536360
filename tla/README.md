# Verification of kit_server

kit_server is a C++ server framework: a coroutine scheduler, an epoll based IO
scheduler with timers, hooked system calls, sockets and streams, and an HTTP
server and client. This directory holds TLA+ modules that model it, the
TLC configurations that check them, and proofs of their main invariants.
Paths below are relative to `kit_server/` in the repository.

## 1. Inventory

| Component | State | Operations | What is hard | Correct if |
|---|---|---|---|---|
| **Scheduler, Coroutine** (`scheduler.*`, `coroutine.*`) | task list `m_coroutines`, active and idle thread counts, `m_stopping`, `m_autoStop`; per coroutine `m_state`; per thread the task in hand, the spare coroutine, the idle coroutine | `schedule`, `start`, `stop`, `run`, `idle`, `stopping`; `swapIn`, `swapOut`, `YieldToReady`, `YieldToHold`, `reset` | N threads scan one list; a coroutine can be scheduled while it still executes; counters are changed outside the lock; the calling thread works inside `stop` | one thread per stack, no task lost or doubled, counts exact, `stop` returns and leaves nothing |
| **Timer, TimerManager** (`timer.*`) | ordered set, per timer `m_ms`, `m_next`, `m_cb`; `m_tickled`, `m_previousTime` | `addTimer`, `cancel`, `refresh`, `reset`, `getNextTime`, `listExpiredCb` | users against pollers, the sort key inside the object, a wall clock that can be set back, the unlock inside `reset` | expired timers fire once, cancelled ones do not, none fires early, the first timer is always watched |
| **IOManager** (`iomanager.*`) | `FdContext::events` and its event contexts, `m_pendingEventCount`, epoll, the tickle pipe | `addEvent`, `delEvent`, `cancelEvent`, `cancelAll`, `tickle`, `stopping`, `idle` | edge triggered reports used after other threads changed the registration; wakeups against threads going to sleep; `stopping` reads three things one after the other | counts and registrations agree, no edge lost, no event triggered twice, `stop` leaves no waiter |
| **Hooks** (`hook.*`) | per thread switch, per call `timer_info` | `do_io`, `connect_with_timeout`, `sleep`, `socket`, `accept`, `close`, the setters | timeout against readiness against close; a timer's callback that runs when its call has returned | a call is resumed once and returns with data, an error or its own timeout |
| **FdManager** (`fdmanager.*`) | table of `FdCtx` | `get`, `del`, `setTimeout` | read lock, gap, write lock; descriptor numbers are used again | one context per open descriptor, made for this opening |
| **TcpServer** (`tcp_server.*`) | listen sockets, `m_stopped` | `bind`, `start`, `stop`, `startAccept` | accept loops that suspend inside the hooked call against `stop` | a stopped server lets its sockets go |
| **Socket** (`socket.*`) | descriptor, connected flag, cached addresses | `bind`, `connect`, `close`, transfers | failures in the middle, reuse of the object | owns at most one descriptor, leaks none |
| **Address** (`address.*`) | bytes and port | networks, masks, text, lookup | boundaries of prefixes and runs of zeros | network, text and host parts mean the address |
| **Stream** (`stream.*`, `socket_stream.*`) | – | `readFixSize`, `writeFixSize` | short counts, errors kept unsigned | bytes are moved once and in order |
| **ByteArray** (`bytearray.*`) | node list, cursor, position, size | typed reads and writes, iovec buffers, files | node boundaries, varints | items come out as they went in |
| **HTTP messages, parsers** (`http/http.*`, `http_parser.*`, `*.rl.cpp`) | automaton state, marks, message | `execute`, callbacks, `dump` | marks into a buffer that is moved | the message sent is the one parsed |
| **HTTP server, session** | receive buffer | `recvRequest`, `handleClient` | requests in any pieces | whole requests, in order; the session ends |
| **HTTP client, pool** | receive buffer; idle connections, `m_total` | `recvResponse`; `getConnection`, `doRequest`, `ReleasePtr` | chunks in any pieces; counter outside the lock | whole responses; one owner per connection, limit kept |
| **Uri** (`uri.*`) | parts | `Create`, `dump`, `getPort` | one mark for all parts | parsing gives the parts back |
| **Config** (`config.*`) | variables and listeners, file times | `setValue`, `LookUp`, `LoadFromConfigDir` | notify and assign under two locks, files edited meanwhile | listeners know the value in effect |
| **Log** (`Log.*`) | loggers, appenders, formatters | `log`, the listener of `logs` | reconfiguration while threads log | an event is written as configured |
| **Application, Daemon** | pid file, parent and server process | `init`, `run`, `main`, `real_daemon` | crashes, second instances | a crashed server is started again |
| Servlets, Env, threads and locks, utilities | maps, wrappers | – | – | – |

How the parts interact: `IOManager` *is* a `Scheduler` and a `TimerManager`. A
task calls `addEvent` and suspends (`YieldToHold`); a thread with nothing to do
runs `IOManager::idle`, which sleeps in `epoll_wait` until a descriptor, the
first timer or the tickle pipe wakes it and puts tasks back with `schedule`.
The hooks turn blocking system calls into exactly that. `TcpServer` and the
HTTP parts are tasks on top: an accept coroutine per listening socket, and a
`handleClient` task per connection that parses requests out of a `SocketStream`.
All interaction of the core is through shared state under three kinds of lock (the
task list, the timer set, one per descriptor), atomic counters, the coroutine state
word, and the pipe.

`PROJECT.json` lists every component, and under `hazards` every place of the
code that is hard to test, with the properties that watch over it, and a note
where none does or only a part is covered.

## 2. Modules

| Module | Models | Uses |
|---|---|---|
| `Scheduler` | Scheduler and Coroutine | instance of `TaskPool` |
| `TaskPool` | abstract: what a scheduler promises the owner of a coroutine | – |
| `SchedulerProofs` | theorems about `Scheduler`, and the proof that it implements `TaskPool` | `Scheduler`, the library of sequence theorems, TLAPS |
| `SchedulerStop` | theorems about the thread counts, READY coroutines and what `stop()` leaves | `SchedulerProofs` |
| `TimerManager` | Timer, TimerManager, and the part of `idle` that serves them | – |
| `TimerProofs` | theorems about `TimerManager` | `TimerManager` |
| `IOManager` | IOManager with its scheduler; epoll and the pipe as external parts; timers as a set of pending callbacks | EXTENDS `Scheduler` |
| `IOManagerProofs` | theorems about events, the counter of pending events, epoll's edges and who may resume a coroutine under the IO scheduler, and the proof that `IOManager` implements `TaskPool` | `IOManager`, `SchedulerProofs` |
| `FdManager` | the table of descriptor contexts and the kernel's descriptors | – |
| `Hook` | the hooked calls over the interfaces of IOManager and TimerManager | EXTENDS `FdManager` |
| `HookProofs` | theorems about `Hook` and `FdManager` | `Hook` |
| `HttpMessage` | HttpRequest, HttpResponse, their text | – |
| `RequestParser`, `ResponseParser` | the generated automata and the callbacks | EXTEND `HttpMessage` |
| `RequestGrammar` | the request automaton fed with every short text, and the grammar as reference | EXTENDS `RequestParser` |
| `HttpSession`, `HttpConnection` | `recvRequest` and `handleClient`; `recvResponse` | EXTEND the parsers |
| `Uri` | Uri and its generated automaton | – |
| `TcpServer`, `Socket`, `ConnectionPool`, `Stream`, `ByteArray`, `Config`, `Logger`, `Process`, `Address` | the components of these names; `Process` is Application and Daemon | – |
| `ServicesProofs` | theorems about `Socket`, `Stream`, `ConnectionPool` and `Config` | these four |
| `ServerProofs` | theorems about `Logger`, `Process` and `TcpServer` | these three |
| `ByteArrayProofs` | theorems about `ByteArray` | `ByteArray`, the libraries of sequence and induction theorems, TLAPS |
| `MCScheduler`, `MCTimerManager`, `MCIOManager`, `MCHook` | model values and symmetry for TLC | |
| `MCWeb`, `MCServices` | the text and the service components side by side: a behaviour is one of the component chosen in its initial state | |

Variables have the names of the members and locals they stand for. One action is
one stretch of code no other thread can see half done: a critical section, an
update of an atomic counter, an assignment of `m_state`.

**Scheduler.** `pc[t]` is the place of thread `t` in `run()`: scanning
(`Take`, `ScanNothing`), dispatching (`SwapIn`, `DropEnded`, `RunCallback`), in
the task (`YieldToReady`, `Publish`, `YieldToHold`, `MainFunc`, `TaskSchedule`),
leaving its stack (`SwapOut`) and after it (`Deactivate`, then `Reschedule`,
`Retire` or `SetHold`). `SwapOut` is separate because a thread executes on the
coroutine's stack until then. The gap between `Deactivate` and `Reschedule` is
the one between `scheduler.cpp:285` and `289`. `stop()` is `StopBegin` to
`StopJoin`; with `UseCaller` the calling thread executes `run()` in `StopCheck`.
`handles` is the set of tasks somebody may pass to `schedule`: it is filled by
creation and by `Publish` (a coroutine gives out its pointer before it
suspends) and a `schedule` spends it. That a coroutine is not scheduled twice
before it was resumed is the contract of `schedule`, which does not test it;
`IOManager` shows that events keep it (`ContextBound`). The tickle of the
base class only logs, so it is not there.

**TimerManager.** An element of `m_timers` is `<<timer, key>>`, key being the
`m_next` at insertion, because `std::set` searches by key. `reset` is two
steps, as in the code: out of the set until the unlock, then `addTimer`.
`listExpiredCb` reads the clock before it takes the lock, so that is a step
too. A poller goes through `getNextTime`, `epoll_wait` (timeout, pipe or
event), `readNow`, `listExpiredCb`, `scheduleExpired` and back. A signal ends
`epoll_wait` with `EINTR`, and the loop at `iomanager.cpp:487` calls it again with the
same `next_timeout`, which neither asks `getNextTime` again nor takes off what has
passed (`WaitInterrupted`); the history variable `restarted` sums up the time
that a wait has lost this way. `Tick` and `SetClockBack` are the clock.

**IOManager.** `tickle`, `stopping` and `idle` replace those of `Scheduler`; the
other actions of `Scheduler` are used as they are, conjoined with what they
leave alone. A thread that must still call `tickle()` has `owes[t] > 0`
and does nothing else before. `stopping()` is three reads (`ReadPending`,
`ReadTimers`, `StoppingIsTrue` or `StoppingIsFalse`). epoll is `level` (what is
ready), `edge` (epoll's ready list) and the registration, which equals
`events` whenever the descriptor's lock is free. `process`, `triggerEvent` and
`decPending` are the loop over the reports; the descriptor stays locked
from `process` to the last `decPending`. Expiry of timers is left open
(`listExpiredCb` may take any subset), which covers every behaviour of
`TimerManager`. A timer holds a function, never a coroutine, as in the code; an event
holds either. A task schedules others only through events and timers: `TaskSchedule`, a direct call
out of a task, is in `Scheduler` alone, and a sleeping coroutine, which its timer's
function schedules, is in `Hook`.

**TaskPool.** A coroutine is owed a run, running, or ended. `Scheduler` maps to
it with `PoolOwed` (queued, taken, or READY in the hands of a thread that has yet
to put it back), `PoolRunning` (a thread is on its stack) and `PoolEnded`;
`ImplementsTaskPool` is the refinement.

**Hook.** `pc[c]` is the place of coroutine `c` in a hooked call: `LookupCtx`,
`TryIO` or `TryConnect`, `ArmTimer`, `AddEvent` (which registers and suspends),
`Resume` when it was scheduled again, `CheckCanceled`, and round again. Of
IOManager there remains who waits for which event (`waiter`) and who was
scheduled (`woken`). A timer is a record that is armed, due (its callback is a
queued task), or between setting `canceled` and `cancelEvent`; `Valid` is the
test of the weak pointer. `close` is three steps: wake the waiters, remove the
context, close the descriptor, whose number the kernel may then hand out
again. `GetRead` and `GetWrite` are the halves of `FdManager::get(fd, true)`. A callback
that has passed its test of `canceled` may still call `cancelEvent` when its own call is over;
the history variable `misled` marks a call whose wait was ended that way by the
timer of another one. With `ConcurrentClose = FALSE` a descriptor is
closed or handed on only when no call uses it.

**Parsers.** A text is a sequence of symbols; characters which every state of an
automaton treats alike are one symbol, and a state of the model stands for those
that differ only in how far an escape, an address or a keyword has been read.
A rule names the symbols, the next state and the actions of the
grammar. `execute` is a fold over the buffer and starts with fresh marks, as the
code does. `uri_relaxed` and `query_start`, which the program never
initialises, are chosen nondeterministically. The session and the connection
add the buffer, its free space, and a wire from which `read` takes any prefix. A
failing `read` ends the session or the response, except in `readFixSize()`, which takes
-1 for a count and goes on one byte further back with one byte more to read
(`ReadBodyError`, `RspReadError`): such a body can wait for bytes that never come.

**Services.** `ConnectionPool` has a step for each change of `m_total`, which is
outside the lock; times are modulo `Word` because `m_createTime` is -1. `ByteArray`
keeps the null pointer as the index behind the last node; following it ends in
the fate `crashed`. `Group` is what a varint's byte carries (128 in the code), a byte
has twice as many values, and a word is two bytes. `Config` splits `setValue` where the code changes locks,
and loading into `lstat`, the recorded time and the load. `Logger` applies a
configuration in the steps of the listener while threads log; the listener takes
the definitions in any order, the code in that of their names. `Process` has the
parent and the server process of two invocations with one pid file and one
port. In `TcpServer` an `accept` that fails leaves the connection in the backlog or has
taken it (`lost`). `Address` computes masks bit by bit on short bytes, with the byte behind an
IPv6 address that an index one too high reaches.

In each module the definitions under "Faulty variants" are mistakes the code
could contain; replacing the mapped definition by the variant makes TLC find
the property violated (`mutants` in `PROJECT.json`).

## 3. Runs

| Run | Instance | Result |
|---|---|---|
| `scheduler_workers` | 2 workers, 2 coroutines, 1 function, pins for both workers, 1 step per task | `TypeOK`, `OneStack`, `SwapInAllowed`, `ResetAllowed`, `CountsExact`, `ReadyHeldOnce`, `NothingStranded`, `ImplementsTaskPool` hold |
| `scheduler_live` | caller + 1 worker, 1 coroutine, 1 function, 2 steps | `Dispatched`, `StopReturns`, `EndedStays` hold |
| `timers_users` | 2 users, 2 pollers, a one-shot and a recurring timer of delay 2, signals | `KeysCurrent`, `FiresOnceOrCancelled`, `FrontIsWatched` hold |
| `timers_clock` | 1 user, 1 poller, delays 1 and 2, clock set back once | `NeverEarly` holds |
| `io_events` | 2 workers, 1 coroutine, 1 function (for an event or a timer), 1 descriptor, reads and hang-ups | `PendingExact`, `ContextBound`, `ReadyIsReported`, `TriggerAllowed` hold |
| `io_live` | caller + 1 worker, 2 coroutines, 1 descriptor | `ReadyServed`, `StopWhenServed` hold |
| `hook_calls` | 2 coroutines, 2 descriptors (one listening, one that is closed and opened again), 3 calls, table of 3 that must grow | `ResumedOnce`, `FreshContext`, `TimeoutIsOwn`, `ConnectHonest`, `CallReturns` hold |
| `web` | 3 requests (query, body, HTTP/1.0), 4 responses (without and with body, chunked, empty content-length), any split, failing reads; texts of up to 4 symbols; all combinations of URI parts | `RequestAsSent`, `ResponseAsSent`, `UriGrammar`, `UriParts`, `SessionEnds` hold |
| `services` | 2 listening sockets; 1 socket with 3 descriptors; 3 threads and a pool of 1; transfers of 3 bytes; 3 items in nodes of 3 bytes; 2 loaders; 2 logging threads and 3 configurations; 2 instances and 2 crashes; addresses of 4 groups | `SocketOwnsOne`, `PoolSound`, `StreamExact`, `BaFaithful`, `ConfigInEffect`, `LogAsConfigured`, `AddressExact`, `AcceptLoopEnds`, `CrashRestarts` hold |
| `io_trigger` | 2 workers, a reader and a writer of one descriptor | `TriggerAllowed` is violated |
| `hook_timeout` | 1 coroutine, 1 call with a timeout | `TimeoutWakes` is violated |
| `http_body` | as `web` | `BodyComplete` is violated |

What the violated runs show (details under `findings`):

1. `io_trigger`: reported events are not masked with the registered ones; the
   assertion of `triggerEvent` fails with two idle threads. In `io_events` only one
   kind of event is registered, and the assertion holds.
2. `hook_timeout`: a timer that expires before `addEvent` finds nothing to
   cancel; the coroutine then suspends with no timer left.
3. `http_body`: the rest of a body is read with the wrong length.

### Further disagreements

Each of these is a formula that states what the code or a comment says and that
TLC refutes; with the configuration named, or by adding the formula to that
of the run. They are kept apart from the runs above because each repeats a
question one of those asks already or concerns a corner of its component.

| Formula | Where | What happens |
|---|---|---|
| `PinnedTaskRuns` | `Scheduler_pinned.cfg` | `--m_activeThreadCount` (`scheduler.cpp:285`) before the READY coroutine is put back lets a worker leave; a task pinned to it stays in the queue, and `stop()` hangs or, if a running task pinned it, may return with it left |
| `ExpiredFires` | `TimerManager_late.cfg` | the test at `timer.cpp:243` is the wrong way round; a timer whose millisecond was missed is never handed out |
| `FrontInTime` | `TimerManager_signal.cfg` | a signal makes `epoll_wait` start anew with the timeout computed before it (`iomanager.cpp:508`); the poller sleeps past the first timer |
| `DeadTimersLeave` | `TimerManager_race.cfg` | `cancel()` inside the unlocked gap of `reset()` (`timer.cpp:103`); the cancelled timer goes back into the set |
| `NothingPending` | `IOManager_stop.cfg` | `stopping()` is three reads (`iomanager.cpp:454`); `stop()` returns with a registered event |
| `NoTaskSleeps` | `IOManager_sleep.cfg` | no wakeup between a thread's empty scan and its `++m_idleThreadCount` (`iomanager.cpp:436`); the task waits up to 3 s |
| `AddAllowed` | `Hook_close.cfg` | a descriptor closed by another coroutine and opened again meets the old waiter's retry: the assertion at `iomanager.cpp:195` fails |
| `ConnectStands` | `Hook_connect.cfg` | the callback of a `connect` that timed out, past its test (`hook.cpp:396`), cancels the wait of a later `connect` on the reused descriptor; that one finds no socket error and reports success while the connection is in progress (`hook.cpp:438`) |
| `ResponseComplete` | `HttpConnection`, run `web` | `len -= 2` (`http_connection.cpp:156`) is right only if the read ends with the chunk; `readFixSize` has the wrong length (`:233`) |
| `UriAccepted` | `Uri`, run `web` | an empty port, a password that begins with a digit, and an IPv6 literal with a gap in the middle are lost or refused |
| `StreamErrorReturned` | `Stream`, run `services` | -1 is kept in a `size_t` (`stream.cpp:18`, `:65`); the loop goes on, also when it reads a body |
| `BaNoCrash` | `ByteArray`, run `services` | `setPosition(capacity)` and buffers up to a node's end follow a null node |
| `ConfigFresh` | `Config`, run `services` | the time of a file is recorded before it is loaded (`config.cpp:169`) |
| `AppendersFollow` | `Logger`, run `services` | `addAppender` marks the format as set, so `setFormatter` never reaches an appender (`Log.cpp:437`) |
| `OneServer` | `Process`, run `services` | the pid is not flushed to the file while the server runs (`application.cpp:234`) |

The properties of the passing runs say what is left when these are taken into
account, and name the condition: `RequestAsSent` and `ResponseAsSent` are about
reads that do not end inside a token or chunk (`torn`, `rspTorn`), `UriParts`
about the parts that survive (`PlainParts`), `StreamExact` about transfers without
an error, `AcceptLoopEnds` about a stopped server to which somebody connects,
`ConfigInEffect` about loaders that do not overlap, `ConnectHonest` about calls
that are not `misled`, `FrontIsWatched` about the end of a wait as late as signals
have made it, `CallReturns` about a call whose descriptor is ready or whose timer was
handed out (a timer that is not, as in `ExpiredFires`, never ends it), `BaFaithful`
about arrays of which no null node was followed, and `NothingStranded` allows that
tasks are left which a running task pinned to a thread that has gone.

**Bounds.** `MaxSteps` (calls and yields of one task), `MaxQueue` (length of the
queue when an application or task calls `schedule`), `MaxTime`, `MaxBack`,
`MaxArrive`, and `MaxFired` (a count that saturates at 2) are the only caps. Two
threads and two tasks are the smallest instance in which a coroutine can be
queued while another thread still holds it; one yield or suspension followed
by a resumption is what every property of the scheduler is about, and the
proofs in section 5 remove the bound for the central ones. For timers,
delays of 1 and 2 within few ticks put an expiry before, at and after the moment a
poller looks, and a delay of 2 leaves room for a signal in the middle of a wait;
`Hour = 1` keeps set-backs of more and of less than the hour within that range. For the IO scheduler one descriptor
suffices, because its lock, registration and reports are per descriptor.
The clock stops at `MaxTime`, and pollers go on for ever then, so these runs may
not deadlock; after `stop()` has returned the modules stutter explicitly.

In `Hook`, `MaxCalls` counts the calls of all coroutines: three suffice for a
call, a close and an opening that reuses the number while a timer of the first
call is still queued; `InitialSize = 3` makes the first new descriptor grow the
table. In `HttpSession` and `HttpConnection`, `MaxReads` bounds the reads that return
only a part of what has arrived; two cuts reach every pair of places in a request
and the buffer is larger than the longest text. `MaxUnderrun = 1` is how far read errors
may take the place of the next byte in front of a body; one is enough to make the
body wait for more bytes than were sent. `MaxFed = 4` symbols hold
scheme, colon and two slashes, or an authority with user, host and port
delimiters. The byte array's nodes of three bytes of four bits make every
encoding cross a node at some offset. The users of these components may stop
calling, so `web`, `services` and the hook runs do not check for deadlock.

## 4. Fairness

- Every scheduling thread is weakly fair: the operating system runs it, and a
  task returns control after finitely many steps (`MaxSteps`). The base class's
  `idle` spins; `epoll_wait` returns after at most 3000 ms (`MAXTIMEOUT`), so
  it needs no wakeup to be enabled.
- The steps of `stop()` after the call are weakly fair: the caller waits in it.
- Time passes and a begun `addTimer` or `reset` is finished.
- Nothing obliges the application to call `start`, `schedule` or `stop`, a
  descriptor to become ready, or the clock to be set back.

- In `Hook`, a begun call proceeds, the queued callback of a timer runs and idle
  threads report what is ready. Nothing obliges a timer to be handed out, since
  `timer.cpp:243` passes over one whose millisecond was missed; nor a caller to
  call, a peer to send or a connection to be answered.
- In `web`, the session's coroutine runs on: `execute` and the servlet return, and
  a `read` returns if something has arrived or the peer has closed. No read is obliged
  to fail, and in a body as many do as `MaxUnderrun` allows.
- In `services`, the accept worker runs the task of `stop` and the accept
  coroutines (they are tasks of the scheduler), and the operating system runs
  parent and server processes. No crash and no client is obliged to come.

`ReadyServed` is claimed until `stop()` is called, and `StopWhenServed` only if
in the end nothing is registered: an event that never becomes ready keeps
`IOManager::stopping()` false by design.

## 5. Proofs

The proofs are for every set of threads, tasks, timers, descriptors, callers
and clients and for every bound. TLC checks each inductive invariant on its
instance as well.

**Assumptions on the constants.** `ThreadAssumption`: finitely many workers, at least
one thread, the caller is not a worker, pins name scheduling threads;
`TaskAssumption`: the kinds of tasks are disjoint; `BoundAssumption`: bounds are
naturals; `TimerAssumption`: delays have a largest one (`uint64_t`), there is
a poller; `IOAssumption`: finitely many descriptors, a worker; `FdAssumption`,
`HookAssumption`: descriptors are naturals, `None` is no caller;
`SocketAssumption`, `StreamAssumption`, `PoolAssumption`, `CfgAssumption`: bounds,
finitely many connections and clients, a non-empty list of files; `LogAssumption`:
events have a level from DEBUG to FATAL, configurations are well-formed;
`ProcessAssumption`, `TcpAssumption`: bounds. TLC evaluates each in
a run. Three theorems below have an assumption of their own; it is given with them.

**`SchedulerProofs`**

- `TypeCorrect`: `Spec => []TypeOK`;
- `OwnershipInvariant`: `Spec => []IInv`;
- `CoroutineExclusion`: `Spec => []OneStack`;
- `SwapInAssertion`: `Spec => []SwapInAllowed`;
- `SpareIsPrivate`: `Spec => []ResetAllowed`;
- `EndedForGood`: `Spec => EndedStays`;
- `SchedulerImplementsPool`: `Spec => ImplementsTaskPool`.

`OneStack` is not inductive: nothing in it says why a second thread does not take
a coroutine that is executing. `IInv` adds that, in two layers. `ShapeInv`
(`TypeOK`, `CoShape`, `PhaseOK`) says which local variables are set where in
`run()`; `TypeOK` needs it because a step may use `m_state[co[t]]` only when
`co[t]` is a coroutine. `OwnerInv` says who owns a coroutine: `UniqueHolder`
(one thread), `QueueUnique` (queued once), `StateAtPc` (its state where the
holder stands), `HandleSpent` (it is not both queued and still to be scheduled),
`SparePrivate` (the spare belongs to its thread), and the heart of the matter,
`OverlapIsExec`: if a coroutine that is held can be scheduled, or has been, by
somebody else, its state is EXEC until `run()` sets HOLD, which is what the
scan of the other threads tests. The assignment that `YieldToHold` leaves
commented out would break precisely this conjunct. There is one lemma per action
and layer.

For the refinement, most steps leave `owed`, `running` and `ended` alone (lemmas
`...Unseen`); `schedule` is a `Submit`, `SwapIn` a `Begin`, `DropEnded` a `Drop`, and `SwapOut` a `Yield`,
`Suspend` or `End` by the state the coroutine leaves its stack in. That these are
steps of the pool rests on `IInv`: `Begin` needs that nobody is on the stack
(`UniqueHolder`, `OverlapIsExec`), `Submit` that no run is owed already
(`HandleSpent`), and a `SwapIn` takes away what is owed only because the
coroutine was queued once (`QueueUnique`).

**`SchedulerStop`** proves `StopInvariant`: `Spec => [](IInv /\ StopInv)`, and from it
`CountsAreExact`, `ReadyIsHeldOnce` and `NothingIsStranded`. `StopInv` is `CountsExact`,
which is inductive with `IInv` (one thread enters or leaves a counted place at
a time), and `ServedInv`. The latter is about the moment in which
`stopping()` is true although a READY coroutine is on its way back into the queue:
`StillServed` says that while something is queued that no task has pinned, some
thread will scan the queue again (`ScansAgain`) or `stop()` has yet to test;
`RunnableHeld` and `ReadyUnpinned` that such a coroutine is in a thread's
hands and comes back without a pin, `LeavesLate` that a thread leaves only after
`stop()` was called, `PinsLate` that what is pinned after that was pinned by a
running task, and `JoinedAll` that `stop()` waits for all threads.

**`TimerProofs`** proves `TimerInvariant`, and from it `KeysStayCurrent`,
`FiresOnce` and the action property `HandedOutInTime` (`Spec => NeverEarly`). `TimerInv`
adds to `KeysCurrent` who knows a timer (`KnownTimers`), that an expiry is a
clock reading plus the delay (`DueTimes`), and `CallbackOnce`: the callback of a
one-shot timer is with the timer, with one poller, scheduled, or dropped.
`FrontAlwaysWatched` (`[]FrontIsWatched`) says that while a timer is in the set and no
wakeup is under way some poller's wait ends when the first timer expires, or later
by no more than `restarted`: a wait of 3 s into which a signal comes after 2 s ends
after 5 s, and nothing in the code prevents that (`FrontInTime`). The theorem bounds
it: what makes a wait late is its own signals, never a timer that was added,
refreshed or reset meanwhile. It assumes `MaxBack = 0`: `refresh()` announces
nothing, which is right only if a refreshed timer never moves to the front; if
the wall clock was set back it can. `WatchInv` states why the wakeup that
`m_tickled` suppresses is not needed (`AnnouncedOnce`).

**`IOManagerProofs`** proves `IOInvariant` (`ShapeInv /\ IdleInv /\ PendingExact`), and
with it `PendingIsExact`, `NoLostEdge` (`[]ReadyIsReported`) and, for one kind
of event (`Wanted = {ev}`), `TriggerAssertion` (`[]TriggerAllowed`); for two kinds
the run `io_trigger` refutes it. `IdleInv` says what a thread
has in its locals where in `idle()`, that a descriptor's lock has one holder
(`LockExclusive`), and that an event that was triggered is not registered
again before that lock is released (`TriggeredIsOff`). The steps `IOManager` takes over
from `Scheduler` are one case (`Plain`).

Its second half carries the ownership argument to the IO scheduler:
`IOOwnershipInvariant` (`IInv /\ IdleInv /\ WaitInv`), `WaitersAreBound` (`[]ContextBound`) and
`IOCoroutineExclusion` (`OneStack`, `SwapInAllowed` and `ResetAllowed` for `IOSpec`). `Scheduler`
assumes that a coroutine is not scheduled twice before it was resumed; `WaitInv`
is the proof that events keep to this: a task that waits is in
no other place from which it could be scheduled (`WaitsOnce`, `WaitsApart`), and if it
has not left its stack yet its state is EXEC (`WaitOverlap`). `IOImplementsPool`
(`IOSpec => ImplementsTaskPool`) follows: the promise of the base class survives
events. The wakeup of a coroutine, by a report or a cancellation
(`triggerEvent`, `CancelEvents`), is a `Submit` because a coroutine that waits is
owed no other run; what `scheduleExpired` puts into the queue are functions, of
which the pool knows nothing. Neither this nor `IOCoroutineExclusion` says anything
of coroutines that are scheduled by another task: `IOSpec` has none.

**`HookProofs`** proves `HookInvariant`, `ResumedExactlyOnce`, `TimeoutsAreOwn` and
`ContextsAreFresh`, also with concurrent `close()`. `HookInv` has three parts:
`ResumeInv` (who waits is held and not yet woken, and is registered for its own
descriptor and event), `TimeoutInv` (a timer that is not armed any more has left
its mark in the call it belongs to), `CtxInv` (a descriptor is being opened
or closed by one caller, and between that its context is of this opening).
With `ConcurrentClose = FALSE`, `ConnectInvariant`, `AddAssertion` (`[]AddAllowed`) and
`ConnectIsHonest` follow: a call has its descriptor to itself, and a wait for a
connection ends with an answer or a timeout. With a concurrent `close()` the
waiter is woken without either; `Hook_close.cfg` shows what happens then.

**`ServicesProofs`**

- `OneDescriptor` (`SockSpec => []SocketOwnsOne`), by numbering the descriptors.
- `TransfersAreExact` (`StreamSpec => []StreamExact`); `StreamInv` bounds the offset and
  keeps the bytes in place.
- `PoolIsSound` (`PoolSpec => []PoolSound`). The counter is changed outside the lock, so
  `PoolInv` counts the clients by where they stand (`TotalExact`); `IdleUsable` makes
  `getConnection` take the first idle connection, and `Owned` gives each one
  owner.
- `ConfigInvariant` and `ConfigIsInEffect` (`CfgSpec => []ConfigInEffect`). `setValue`
  notifies under one lock and assigns under the other, so listeners
  know the value in effect or the one about to be assigned (`Told`), and of the loaders at
  most one is in between (`OneAssigns`). A text whose time is recorded is about to be
  read, is being applied with all it has said so far in effect, or is in effect
  as a whole with nobody at work (`Applied`).

**`ServerProofs`**

- `LgInvariant` and `EventsAsConfigured` (`LgSpec => []LogAsConfigured`). `LgInv` says
  how far the listener has brought the loggers: those it has done and those the new
  value does not change are as it says (`LoggerIs`), the one it is at has the
  first appenders of its definition (`Built`), all others may be anything.
  `FormatterKept` is why an appender without a pattern of its own writes in the
  last valid one of its logger, and `EventsAs` follows an event from the
  logger to the root logger.
- `ProcessInvariant`, `PidFileRefusesNobody` (`[]NobodyRefused`) and `OneChildAtATime`
  (`OneChild`). TLC's counterexample to `OneServer` is not an accident of timing: the
  stream of the pid file is flushed when `main()` returns, so the file never has
  the pid of a running process (`PidEnded`), and the test of `init()` refuses nobody.
- `TcpInvariant` and `AcceptsOnOpenSockets` (`[]AcceptsOnOpen`): `SocketsOwned` ties the
  open sockets to their two owners, `AcceptorsRun` to the flag and the task of `stop()`.
  `ConnectionsCounted` is an equation: each connection that came is in the backlog, in
  the accept coroutine's hands, given to one task, or was answered with an error.

**`ByteArrayProofs`**

- `BaInvariant` and `ItemsComeBack` (`BaSpec => []BaFaithful`). `BaInv` ties three things
  together while no null pointer was followed: the node pointer and the position
  (`Sound`), the bytes of each item and the place it was written at (`ItemsLaid`), and
  the reader and the item it is at. `baAt`, the places, is there for the proof only.
- The memory: `addCapacity` keeps the cursor, `write` (`WriteFacts`) and `getWriteBuf`
  (`BufferFacts`) keep what is before it, `read` (`ReadFacts`) returns what is behind
  it or follows a null pointer.
- The encodings: a word has at most three groups, so the recursion of `varint`, which
  descends by division, is unfolded three times (`VarintBytes`) and `VarintRead` follows
  the rounds of `readVarint`; zigzag and both byte orders are inverted (`Zigzag`,
  `FixedBytes`), and an item is a head and a text (`ItemParts`, `ReadItemFacts`).
- Files: `writeToFile` and `readFromFile` are functions over the nodes and the chunks.
  The library's induction takes a formula as its parameter; `SetInduction` says the same of
  a set, by the well-foundedness of `<`, and gives `FileWritten` and `FileRead`: from
  the begin, the file is what is used, and loading it gives it back.

**Only model-checked.** Liveness under fairness (`Dispatched`, `StopReturns`, `ReadyServed`,
`StopWhenServed`, `CallReturns`, `SessionEnds`, `AcceptLoopEnds`, `CrashRestarts`) is
beyond the proof system. So is what a fold computes on every input: the parsers
(`RequestAsSent`, `ResponseAsSent`, `UriGrammar`, `UriParts`). `AddressExact` is about
bits, for which the provers have no theory.

## 6. Not modelled

- In the core: memory of stacks and the context switch itself; failing
  `epoll_ctl`, `pipe` and `write` calls; growth of `IOManager`'s descriptor table;
  an `IOManager` without workers; several schedulers in one process; destructors
  that run while threads are active; an exception out of the idle coroutine.
  `delEvent` is only called for callbacks: for a suspended coroutine it would
  drop the only pointer to it.
- Hooks: `Hook` keeps of IOManager who waits and who was scheduled; its threads,
  queue and counters are in `IOManager`. Composing both in full is out of TLC's
  reach; `ContextBound` and `PendingExact` show the interface that `Hook` assumes.
- HTTP: parameters and cookies, the functions that build requests, what a
  servlet answers. The servlet dispatcher is a lookup under one lock.
- Uri and the parsers: single characters of an escape, of a number of an IPv4
  address, and of a keyword.
- Address: interfaces of the machine, Unix addresses, the resolver itself.
- Config, Log: conversion between YAML and types, layout of the items,
  reopening of log files. Env, threads, locks and stateless helpers.
- TcpServer: `start` after `stop`, which gives a socket two accept loops.

## 7. Plan

Every component is modelled to the extent given above, and each safety property
that a run shows to hold is proved, but for those of the parsers and `AddressExact`. What could be
added: a composition of `Hook` with `IOManager`, and `start` after `stop` of a
`TcpServer`.
