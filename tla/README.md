# LoNetfw: a verification of the framework

LoNetfw is a C++ network framework built on coroutines ("fibers"): a scheduler
runs fibers on a pool of threads, an I/O scheduler adds timers and epoll events,
hooked system calls let a fiber wait without blocking its thread, and sockets,
a TCP server, a serializer, a configuration and a logger are built on top. This
directory holds TLA+ models of these parts, TLC configurations that check them
on small instances, and proofs that TLAPS checks for every value of the
constants.

Paths such as `scheduler/timer.cpp` are relative to the root of the repository.
The models follow the Linux build.

## 1. The system

| part | state | operations | talks to |
|---|---|---|---|
| fiber (`fiber/`) | `m_state`, the context and stack, the thread's current fiber | `swapIn`, `swapOut`, `yieldToReady`, `yieldToHold`, `reset`, `mainFunc` | entered by the scheduler's `run()`, leaves to it |
| scheduler (`scheduler/scheduler.*`) | the queue `m_tasks` under `m_mutex`, the atomic counters of active and idle threads, `m_stopping`, `m_auto_stop`, the threads, with `use_caller` a root fiber | `schedule`, `start`, `stop`, `run`, `stopping`, `idle`, `notify` | fibers, threads; subclassed by the I/O scheduler |
| timers (`scheduler/timer.*`) | the ordered set `m_timers` under a read-write lock, `m_notified`, `m_previous_time`; per timer `m_cb`, `m_ms`, `m_next` | `addTimer`, `addConditionTimer`, `cancel`, `refresh`, `reset`, `getNextTimerTimeMs`, `getExpiredCbsList` | the idle fibers, which sleep until the first timer; `notify()` through a pipe |
| I/O scheduler (`scheduler/ioscheduler.*`) | the vector of `FdContext`s under a read-write lock, in each a mutex, the registered events and who waits for them; `m_waitting_events_count`; the epoll instance and the notification pipe | `addEvent`, `delEvent`, `cancelEvent`, `cancelAll`, `triggerEvent`, `idle`, `notify`, `stopping` | epoll, timers, the scheduler's queue |
| hooked calls (`hook/hook.*`) | a `timerinfo` per waiting call | `read`, `write`, `accept`, `connect`, `sleep`, `close`, ... | timers, events, fibers, the descriptor table |
| descriptor table (`hook/fd.*`) | the vector of `Fd`s under a read-write lock, flags and timeouts of each | `get`, `del`, setters | hooked calls |
| threads (`thread/`) | a pthread, a semaphore; mutexes and scoped locks | construction handshake, `join`, lock, unlock | everything |
| sockets and streams (`net/socket*`, `util/stream.*`) | a descriptor, addresses, a connected flag | system calls; exact-length reads and writes | hooked calls |
| addresses, URI (`net/address.*`, `net/uri.*`) | values | parsing, formatting, masks | sockets |
| TCP server (`server/`) | the listening sockets, `m_is_stop` | `bind`, `start`, `stop`, the accept loops | two I/O schedulers, sockets |
| serializer (`util/serializer.*`) | a list of nodes, position, size, current node | fixed and variable-length reads and writes, buffers for `readv`/`writev` | sockets |
| configuration (`config/`) | named values with change callbacks | `setData`, `fromString`, callbacks | logger, users |
| logger (`log/`) | appenders, formatters, levels | output | everything writes to it |

What is hard in it, and nearly untestable:

* **Fibers move between threads.** A fiber that yields stores its new state while
  it still stands on its stack, and `run()` looks at the state of a fiber after
  another thread may have resumed it.
* **Stopping.** `stopping()` combines a queue, two flags and counters that change
  outside the lock; threads end on an answer that may be outdated.
* **Timers against pollers against clients.** The clock is read before the lock;
  `m_notified` saves wake-ups; `cancel()` erases from the set without looking.
* **Reports against cancellations.** A report of epoll is handled some time after
  it was made, under a lock that others had in the meantime.
* **Waits with a timeout** in the hooked calls: a timer, an event and a fiber.
* **Numbers.** The kernel gives the number of a closed socket out again; tables,
  registrations and socket objects that still have it speak of another socket.
* **Boundaries.** The cursor of a byte array at the end of a node, marks that the
  fields of a URI share, masks of prefixes.
* **Values that are announced before they are stored** in the configuration, and
  the loggers that its callback rebuilds.

`PROJECT.json` lists these as hazards, each at its line with the properties that
watch it, or with a note saying why none does.

## 2. The modules

| module | models | kind |
|---|---|---|
| `Fiber` | the states of a fiber and the checks of `swapIn()` and `reset()` | operators |
| `Scheduler` | `Scheduler` with the fibers it runs | state machine |
| `TimerManager` | `Timer`, `TimerManager`, the sleeping and collecting part of `IOScheduler::idle()`, `IOScheduler::notify()` | state machine |
| `IOEvents` | the events of `IOScheduler` | state machine |
| `Wait` | what a call that may wait promises the fiber that makes it | abstract specification |
| `HookIO` | the hooked calls and the descriptor table; implements `Wait` | state machine |
| `Socket` | socket objects and the kernel's numbers | part of `TcpServer` |
| `TcpServer` | `TcpServer` with its accept loops; extends `Socket` | state machine |
| `ByteBuffer` | a string of bytes with a position | abstract specification |
| `ByteArray` | `ByteArray`, `ZigZag`, `Varint`; implements `ByteBuffer` | state machine |
| `Stream` | `Stream`, `SocketStream`; extends `ByteArray` | state machine |
| `IPLiteral` | the numeric hosts of the URI machine | operators |
| `UriReference` | RFC 3986, read independently of `uri.rl` | reference definition |
| `Address` | the algorithms of `Address` | operators and calls |
| `Uri` | `Uri::create()`; extends `UriReference` (and with it `IPLiteral`) | state machine |
| `LoggerManager`, `Config` | the loggers, the registry of items | parts of `ConfigData` |
| `ConfigData` | `setData()` of an item and the callback that rebuilds the loggers; extends `Config` and `LoggerManager` | state machine |
| `MC...` | small sets for TLC; `MCUri` puts `Uri` and `Address`, which are independent, into one specification | |
| `SchedulerProofs`, `TimerProofs`, `IOEventsProofs`, `HookProofs`, `ServerProofs`, `StreamProofs`, `UriProofs`, `ConfigProofs` | inductive invariants and proofs, each about the module of its name; `StreamProofs` also about `ByteArray` | |

The variables have the names of the members they stand for; variables without
the prefix `m_` are program counters, local variables, the state of the
environment, or history that only properties look at. In all modules a critical
section is one step, and whatever the code does outside of a lock is a step of
its own. `fault` (`dead` in `ConfigData`) records that the process is gone (a
failed assertion, an exception nobody catches, an erased `end()`), after which
nothing happens. Definitions whose comment says *Mutant* are wrong on purpose:
each is a plausible bug of the definition after it, and breaks the property that
watches it.

**Scheduler.** A *job* is what a user hands to `schedule()`: a callback or a
fiber. A thread in `run()` scans the queue (`Take`, `FindNothing`), drops a fiber
that has ended (`DropEnded`) or goes on with it (`Dispatch`), looks at its state
(`SwapInPassed`, or `SwapInRefused` when it throws) and, without a lock in between,
enters it (`SwapIn`), executes the job's code (`Spawn`, `Reschedule`,
`YieldToReady`, `YieldToHold`, `Return`, `Throw`), leaves its stack (`SwapOut`),
decrements the counter (`Deactivate`) and decides what becomes of the fiber
(`SettleReady`, `SettleEnded`, `SettleOther`, `SetHold`); without a task it goes
through its idle fiber (`EnterIdle`, `Idle`) or ends (`Exit`). The caller
schedules, starts and stops (`Start`, `StopAuto`, `StopFlag`, `StopRoot`,
`RootReturns`, `Join`). `Ops` says which of its possibilities the code of jobs
uses; `ways` remembers how a job has put itself back: queued before it held, as
in every yield of the repository (by itself, or by the timer or event that it has
registered with), or queued by `run()` because it yielded as READY. When two threads are on one stack nothing is defined any more,
and the model stops with the fault `corrupt`. Abstractions: a job
holds only when somebody will resume it, that is when it is in the queue again;
a callback that has scheduled its own fiber yields before it ends, so that the
reuse of `cb_fiber` is not observed; `schedule()` of several tasks is covered by
single calls; `notify()` of this class is a log line.

**TimerManager.** Clients add (`Construct`, `Insert`, `Notify`: the clock is
read, the lock taken, the pipe written), `Cancel`, `Refresh` and reset timers
(`Reset`, then `ResetWaiting` or `ResetGone` under the lock). Pollers go through
`idle()`: `GetNextTimerTimeMs`, a sleep that ends by `Timeout` or `Wakeup`,
`ReadClock`, `CheckEmpty`, `Collect` or `CollectNothing`, `Drain`. The timeout of
`epoll_wait()` is relative, and is begun anew after a signal; both only delay its
end, so that a sleep ends at its target or any time later. `Tick` lets time pass,
`Jump` sets the clock. `modified` records that `detectTimeModified()` has struck.
`m_timers` holds, for each element, the key it was inserted under, because
`std::set::find` looks for the key a timer has now.
The pipe is edge-triggered: `edge` is an edge no poller has seen.

**IOEvents.** Fibers register (`AddFind`, `AddGrow`, `AddRegister`,
`AddRefused`) and cancel (`Find`, then `Del`, `Cancel`, `CancelAll` or
`CancelRefused`), pollers receive a report and handle it later (`Report`,
`Handle`, `Skip`), and whoever holds the mutex of a context triggers one event
after the other (`Trigger`, `TriggerFails`) and adjusts the counter (`Count`).
Contexts are numbered, since growing and cutting the vector may allocate several
for one descriptor. `late` records that the vector was resized for a descriptor
that it had room for by then, `since` what has been unregistered since a poller
got its report. epoll is external: its interest list and the answers of
`epoll_ctl()`, which fails where the kernel does and, with `CtlMayFail`, at will.
The reports of one `epoll_wait()` are handled one by one, as if each came from a
call of its own. `delEvent()` has no caller in the repository and is modelled as
an operation of the interface. A registration with a callback (`cb`) is a waiter
like one with a fiber. `addEvent()` registers the running fiber, so another
thread may schedule it before it has yielded; that race belongs to `run()`
(defect 1), so here a fiber is parked when it registers.

**HookIO and Wait.** A call enters (`EnterCall`; `RefuseConnect` for a number that
is not in the table), tries the original function (`TryIO`, `TryAccept`,
`TryConnect`), which succeeds, fails, keeps the thread in blocking mode or would
block (`WouldBlock`), returns that when the hook lets the call through (`waits`),
and otherwise arms its timeout (`Arm`), registers and yields (`AddAndHold`, `AddRefused`), is resumed
(`Resume`) and looks at why (`Check`). Timers expire (`Expire`), their callbacks
are run by the scheduler (`RunCallback`) and cancel the event
(`CallbackCancels`); epoll reports (`Report`, `Handle`); other fibers `close()`
in its three steps (`CloseCancel`, `CloseDel`, `CloseSys`), cancel, change flags
and timeouts; a thread without hooks closes the number (`CloseUnhooked`).
Whatever runs occupies one of `threads` threads, so that on one thread the code
between two yields is not interleaved with other fibers. The reader's and the
writer's calls (`read`, `readv`, `recv`, ..., `sendmsg`) differ in the event only
and are the kinds `read` and `write`. Registration and yield are one step, as in
`IOEvents`. All descriptors are sockets: for others `io()` takes the path of a
call that does not wait. Time is abstract: an armed timer expires at will, which is more than
the timers of `TimerManager` do. `Wait` knows nothing of descriptors, timers and
events; `KeepsPromise` maps where a fiber is to `out`, `busy`, `parked`, `woken`.

**Socket and TcpServer.** The user binds, starts and stops; accept loops and the
task that `stop()` queues run on the threads of the accept scheduler. A loop
looks at the flag (`CheckStop`), takes the number out of its object
(`CallAccept`) and calls the hooked `accept()` with it, which returns a client
(`AcceptClient`), fails (`AcceptError`) or waits (`AcceptWaits`, `Wake`). Between
taking the number and using it another thread may close it. The stop task goes
through the sockets in the steps of the code: `cancelAll()` (`StopCancels`), the
hooked `close()` with its own `cancelAll()` (`CloseCancels`), the removal from
the descriptor table (`CloseRemoves`) and `close_f()` (`CloseCloses`), then
`m_sockfd = -1` (`StopForgets`); in the end it drops them all (`StopClears`). A
loop that was woken tries again without a look at the flag and may register
between these steps; `missed` records that it did so after the last
`cancelAll()`. `handleClient()`
is the one of the base class, which returns at once.

**ByteArray, ByteBuffer and Stream.** Every call of a byte array is an action;
the loops over nodes are summarised by the cells they visit (`Store`, `Load`,
`Buffers`), `writeToFile()` is a recursive function. Bytes of fresh memory may
hold anything in `Fresh`. A byte has `Group + 1` bits, a number `Width`. `Stream`
moves blocks between the array, or plain memory, and a socket that moves as many
bytes at a time as it likes, fails and is closed.

**Uri, IPLiteral, UriReference.** The generated machine has 560 states; a state
is a record here: the part of the grammar, whether a scheme came before, how many
hex digits of a `%` are missing, and the counters of numeric hosts. Characters
are the 23 classes that the machine never tells apart. The blocks of the
generated code are the actions of `Uri`; those of an authority exist twice in it
(`Rel...`, `Abs...`). The step operators were also compared with the machine itself, by
extracting its transitions and actions from `uri.rl.cpp` with a script: the two
are bisimilar, the actions included. `UriReference` reads the same input as
RFC 3986 splits it, by the positions of delimiters, and shares with the machine
the classes of characters only.

**Address.** Each function is an operator; an action calls it for every small
input and keeps the result, which the invariants compare with arithmetic on the
number that an address stands for. Bytes have 2 bits and addresses 2 bytes in the
run; the text of an IPv6 address has its 8 groups. `networkAddress()` is left
out: what it computes is a defect (14), and only the tests call it, to print it.

**Config, ConfigData, LoggerManager.** `SetCall` and `Compare` under the read
lock, then the callback of `GlobalConfig` logger by logger (`NotInNew`, `Added`,
`Modified`, `Same`, `Clear`, `Add`, `Install`, `Removed`), then `Store` under the
write lock. Other threads use loggers, register items (`Register`, `Insert`),
and add, remove and get callbacks. `synced` records that the last stored value
came from a call whose callback ran, with no other call at the same time.

## 3. What TLC checks

| run | instance | shows |
|---|---|---|
| `sched_workers` | 2 workers, 2 jobs (one a fiber) that schedule each other, yield as READY or queue themselves and hold, twice each, 1 start, fairness | `TypeOK`, `SharedOnlyIfRescheduled`, `NoJobLost`, `StopDrains`, `JobsFinish` |
| `sched_stop` | 1 worker and the caller, 2 jobs pinned to either or to none that do everything a job can do, throw included, 1 yield each, 2 starts, fairness | `ActiveCountExact`, `StopReturns` |
| `sched_hold` | 2 workers, 2 jobs that queue themselves and hold | that the code violates `SingleExecution` (defect 1) |
| `timer_rate` | 1 loop timer with period 0 or 2, 1 client with all calls, 2 pollers, an hour of 1, a clock that runs from 1 to 3 and may be set once | `TypeOK`, `SetAgrees`, `RateBounded`, `WakeupCovered`, `CancelIsFinal` |
| `timer_live` | a one-shot and a loop timer with period 0 or 1, 1 client that adds and cancels, 2 pollers, an hour of 0, fairness | `OneShotExact`, `DueIsServed` |
| `events` | READ and WRITE on two descriptors, both beyond the vector, 2 fibers, 2 pollers, all calls, failing `epoll_ctl` | `CountExact`, `WaitersHeld`, `Watched`, `FaultOnlyStale` |
| `hook` | 2 fibers on 1 or 2 threads, 1 number, `read`, `accept`, `connect` and `sleep`, 2 calls, 1 more socket, 1 other operation | `ResumedOnce`, `CloseEndsWaits`, `WaitIsTimed`, `NeverBlocks`, `ConnectMeansConnected`, and `KeepsPromise`: `HookIO` implements `Wait` |
| `hook_live` | 2 fibers on 1 thread, 2 numbers, `accept` and `sleep`, with and without timeouts, fairness | `ReadyEndsWait`, `TimedCallReturns` |
| `server` | 1 or 2 accept threads, 3 numbers, 3 objects, 2 binds, 2 starts, 1 peer, fairness | `NumbersValid`, `NumbersOwned`, `StopEndsLoops`, `ConnectionsServed` |
| `bytes` | nodes of 2 bytes, up to 3 of them, 4 calls, blocks of up to 3 bytes | `CursorAgrees`, `ReadBack` (`NumberBack` and `ViewsAgree`), `TransferExact`, and `IsBuffer`: `ByteArray` implements `ByteBuffer` |
| `uri` | inputs of up to 9 characters with IP literals of any length; all small addresses, hosts of up to 5 characters | `FieldsExact`, `Decides`, `AddressExact` (which is `SplitExact`, `PrefixExact` and `TextDenotes`) |
| `config` | 2 threads, 2 loggers, 2 levels, 2 appenders, 2 items, 3 calls, fairness | `LoggersFollow`, `SetReturns` |

The types of the other modules are the first conjunct of one of their
invariants: `CountExact`, `ResumedOnce`, `NumbersOwned`, `CursorAgrees`,
`FieldsExact`, `LoggersFollow`.

Why these bounds are enough to be interesting: two threads are what every race
of the code needs. Two yields of each of two jobs put a job through the queue
again while the other thread decides what became of it or to end, so that the
HOLD of `run()` meets a fiber that was resumed in between; in `sched_stop` a
second start lets what the first left behind bite. The clock of `timer_rate` runs
for one period of 2, and a period of 0 is due again at once, so that stale times,
re-arming and the notification meet. The hour of `detectTimeModified()` is scaled
so that a poller that holds a time of more than an hour ago reaches the branch
for a clock that was set back: in `timer_rate` (an hour of 1, and the clock may be
set too) and in `timer_live` (an hour of 0, where a time that is one tick old is
enough). `MaxFires` bounds how far the collections of a timer are counted.
`MAX_TIMEOUT` is out of the horizon in `timer_live`, so
that the three-second cap does not hide a lost wake-up. Two registrations per
fiber let a report meet the registration after the one it was made for, and two
descriptors beyond the two initial contexts let the growth for the smaller one
cut the vector that the other has grown. `hook` has no `write`: it differs from
`read` in its event, and `connect` waits for that one.
One number that is closed and opened again is enough for a call, a timer or a
report to meet a socket that is not its own. Three
numbers leave one free next to two listening sockets, so that connections of
either can be served, and are given out again after a close. Nodes of two
bytes put every number and string over a boundary, and the fourth call can read
or seek where the third has left the cursor. Nine characters hold a scheme, an
authority with userinfo, host and port, a path, a query and a fragment, each
empty or not, and every pair of neighbours among them; inside an IP literal
nothing is marked or saved, so that characters in it are not counted and every
literal is explored. `MaxNumber` bounds the number that `atoi()` reads, which is
an `int`; nine characters do not reach it. Two setters are what overlap, in
`config`, and a third call comes after them by itself.

Deadlock is not checked where the environment may have nothing more to do:
timers, events, hooked calls, the server, bytes, URIs, the configuration. The
scheduler rests only when it is stopped.

Several properties hold under a condition that names what breaks them (one
thread, no `start()` during a `stop()`, no second resize of the vector for
nothing, no number closed behind the table). The conditions are defects of
section 5: the models reach them in the runs, and the properties were weakened
by as much as TLC showed to be needed. Where a condition is about what happened
before, a history variable says so (`ways`, `modified`, `late`, `since`,
`missed`, `early`, `raw`, `synced`), and the property goes on to speak about
everything else after it.

**Fairness.** `Scheduler!FairSpec` assumes that every thread that can take a
step takes one (the operating system schedules it and grants it the lock; jobs
return or yield) and that a `stop()` that was begun goes on; nobody has to call
it. `TimerManager!FairSpec` assumes the same of pollers and of a call of
`addTimer()` in progress, and nothing of the clock. `HookIO!FairSpec` lets every
fiber whose step is possible take it, and the scheduler expire timers, handle
reports and resume fibers; peers, calls and operations are free not to come.
`TcpServer!FairSpec` is fair to the threads of the accept scheduler, to the
report that wakes a loop and to handlers; users and peers are free.
`ConfigData!Spec` lets a thread that has called `setData()` go on. `IOEvents`,
`Stream` and `Uri` have no fairness: whether a descriptor becomes ready is the
peer's choice, and the others are sequential.

## 4. What TLAPS proves

All constants are arbitrary up to the named assumptions of the modules
(`ThreadAssumption`, `JobAssumption`, `TimerAssumption`, `ClockAssumption`,
`EventAssumption`, `HookAssumption`, `SocketAssumption`, `ServerAssumption`,
`ByteArrayAssumption`, `PowerAssumption`, `StringAssumption`, `StreamAssumption`,
`LoggerAssumption`): any number of threads, jobs, timers, clients, descriptors,
loggers, any periods, any bounds. They say that sets of threads, fibers and
descriptors are finite, since the code counts their members, that the values
that stand for nobody are not members, and that names of loggers are different
strings; `EventAssumption` has at least two initial contexts, because the growth
to one and a half times the descriptor is none below that. A byte has at least
two bits, a number a whole number of bytes, and a string a length that is one of
the numbers; `PowerAssumption` is the arithmetic of powers of two, which the
provers do not know, up to the exponents that occur. Only
`StopIsComplete` has hypotheses of its own, `Unbound` and `Faultless`. TLC has checked every inductive invariant on the run of its module before
it was proved.

**SchedulerProofs.**
* `TypeCorrect`, `ActiveCountCorrect`. The counters have their type only because
  of what they count: `CountInv` says that each is the number of threads at
  certain points of `run()`; `TypeInv` adds to the types who holds a task
  (`TaskInHand`) and where the threads are before `start()` and after `stop()`
  (`OffStage`).
* `OneStack` and `JobsSafe`, without an assumption on what jobs do. `PlaceInv`
  says of a job that has not queued itself (`Plain`) that it is in the queue once
  or in the hand of one thread, never both (`OnePlace`), that its state is what
  that place demands (`StateAgrees`, `StackAgrees`); and of every job, also one
  that queued itself, that it is somewhere (`Kept`). For the latter the point
  is that a fiber found in the state EXEC is being executed (`ExecHeld`), so that
  whoever passes it over or throws for it loses nothing. What is excepted is in
  the properties: a job that queued itself may be on two stacks (defect 1), and
  one that mixed both ways of yielding may lose its READY to a late HOLD.
* `StopIsComplete`: if tasks are not pinned (`Unbound`) and do not throw
  (`Faultless`), then `StopDrains`, whichever way the jobs yield. The counter does
  not help here, because it is decremented before
  the fiber is queued again; the invariant `StopInv` says that as long as there
  are tasks some thread has still to look into the queue. Both hypotheses are
  needed: defects 2 and 3.

**TimerProofs.**
* `TypeCorrect`; `m_next - m_ms` in `reset()` does not wrap.
* `SetStaysInAgreement`: `SetInv`, with `CallInv` on which client knows which
  timer, makes the unchecked `erase()` of `cancel()` safe.
* `CancelStaysFinal` and `OneShotFiresOnce`, also when the clock is set back.
* `RateStaysBounded`: a timer that can fire is due one period after its last
  firing counted from when it was armed (`RateInv`), and the times pollers hold
  are in the past (`SteadyInv`). It is stated for a clock that was not set, at any
  uptime, until `detectTimeModified()` strikes for the first time: a poller that
  stalls for more than an hour between its look at the clock and the lock, while
  another collects, makes it collect everything.
* `NobodyOversleeps`: while all pollers sleep and no notification is on its way,
  `m_notified` is down and some poller wakes up by the time the first timer is
  due (`WakeInv`).

**IOEventsProofs.**
* `CounterExact`: the counter is a sum over all contexts (`CountInv`): the events
  that are registered, plus the decrements that threads owe which have triggered
  and still hold the mutex. It needs the types of the table, where a
  context that a growth has cut off may still have waiters (`TableInv`).
* `FibersHeld`: `StoredInv` relates the fiber in a context with the place of that
  fiber, in both directions.
* `AssertsHold`: the mutex of a context belongs to one thread from its look at
  the events to its last trigger (`MutexInv`), so that what it is about to
  trigger is registered (`PendingInv`), except for what a broad report tells of
  and another thread has unregistered since (`StaleInv`, `LiveInv`; defect 4).
* `EventsWatched`, for any descriptors: what is registered in a context, also in
  one that the vector no longer has, is in epoll's interest list or about to be
  triggered (`WatchedInv`), since a second context of the same descriptor is
  refused by epoll as long as the first is watched. As long as the vector is
  resized only for descriptors that it has no room for, a context in use is the
  one of its index (`IndexInv`); afterwards defect 5 has it that waiters are
  watched but not found by those who want to cancel them.

**HookProofs.** For any number of threads:
* `OneResume` and `PromiseKept`, from `WaitInv`: a fiber that waits is stored in
  the event of its call or is in the queue, never both; a timer is armed only for
  the call that armed it, and `canceled` is set only by its own timer. The second
  theorem is the refinement of `Wait`: every step of `HookIO` is a step of `Wait`
  or a stutter under the mapping in `KeepsPromise`.

For one thread, from `SoloInv`, since with two the properties fail (defects 6 to
8):
* `CloseLeavesNobody`, `WaitsTimed`, `ThreadsKept`, `ConnectsTruly`. On one
  thread one fiber at a time is between two yields (`Alone`); what it has not
  published yet is then its own, which gives the agreement of the
  table with the kernel (`TableInv`), of waits with open numbers (`WatchInv`), of
  waits with timers (`TimedInv`), and of wake-ups with events (`EventInv`).

**ServerProofs.** `NumbersStayOwned` for any number of accept threads, and
`NumbersStayValid` for one, as long as nobody starts or binds while a stop is
under way (`ServerInv` says nothing after that: defect 10). `BirthInv`: objects
and numbers come into being together; `StopInv`: which sockets the stop task has
still to close; `OwnInv`: a number that an object has is its own in the kernel,
unless it was closed a moment ago; `BusyInv`: the stop task is with a number of
its own while it closes it; `LoopInv`: a loop that has taken a number is the loop
of the object that owns it, or the server is stopped and nobody listens on the
number; `WaitInv`: the same of a loop that waits, and that epoll watches it,
until one has registered after the last `cancelAll()` (`missed`); `OneInv`: on
one thread that never happens, since nobody is between the tries of a loop while
the stop task runs; `ValidInv`: on one thread nothing happens between the look at
the flag and `accept()`.

**StreamProofs**, about the byte array, for nodes of any size, bytes and numbers
of any width, and any strings:
* `CursorStays`. `CursorAgrees` is inductive as it stands, but only by what the
  operations compute: `DivAdd` (moving on by n bytes from the middle of a node
  arrives where the position divided by the size of a node says), `NewNodesIs`
  (the nodes that `addTotalSize()` adds are enough, and none when there is room)
  and `EncodedIs` (every encoding consists of bytes).
* `BufferKept`, the refinement of `ByteBuffer`. `FlatIs` says that the bytes of a
  list are those of its nodes one after the other, `LoadIs` and `StoreIs` that
  the loops over the nodes read and write them by their number; each call is then
  one step of the buffer (`PutStep`, `TakeStep`, `FailStep`, `SeekStep`,
  `DropStep`), where a call that only makes room or changes the byte order takes
  nothing.

and about the array with the streams, for blocks of any length and any way a
socket splits them:
* `StreamCursor` and `StreamBuffer`: the same with the rounds of `readF()` and
  `writeF()` among the steps.
* `TransferStays`, from `JobInv`: `TransferExact` byte by byte, and that the loop
  runs only while something is left. `BlockIs` says that the buffers of
  `getReadBuffers()`, put together, are the next bytes.
* `ReadsBack`, both halves of `ReadBack`. For `NumberBack`, `LastInv` says that
  the bytes of the number written last stay where they were written until a call
  writes over them or drops them, and `EncodedBack` that these bytes decode to the
  value: the loop that decodes a varint stops at the byte without the mark and not
  before (`VarintBack`), a fixed number is reversed twice (`FixedBack`), the zigzag
  of a signed number is undone (`ZigZagBack`). The sums are folds; `FoldIs` unfolds
  one by looking at the first prefix for which it would not be the number, which
  takes the place of an induction. For `ViewsAgree`, `FileLoopIs` follows the loop
  of `writeToFile()` round by round.

**UriProofs**, for inputs of any length:
* `FieldsStay` and `DecidesRightly`. Neither `FieldsExact` nor `Decides` says
  anything while characters are read, so `UriInv` adds what the machine knows in
  each part of the grammar (`Reading`): which part of RFC 3986 the reference is in
  there, where the mark is, which fields are saved already and which not yet, and
  whether the input so far is valid. `Opening` is for what comes before an
  authority, `Naming` for the characters that may still become a userinfo or a
  host, `Password` for what may be a password or a port, `Porting` for what
  follows a host, and `Segmented`, `Querying` and `Fragmented` for the rest.
* A `mark` is shared by all fields; `Segmented` says why the path may have none:
  `save_port` has cleared it after an empty port. That is the only way to throw.
* In an IP literal (`InLit`) the machine counts groups down and the reference
  counts them up; `Grouping` ties both counts, and `OctetOf` the states of the
  machine's `dec_octet` to the values of the digits that lead there. From 200 to
  249 the machine has no state for three digits: one of the four differences.
* Each block of the machine has a lemma (`StartOK`, `V6HeadOK`, `QuadOK`, ...), once
  for both copies of an authority; the actions that a step runs are a fold, which
  `RunsRound` unfolds one action at a time; `EofOK` is for the actions at the end of
  the input.

**ConfigProofs.**
* `LoggersStay`: while one callback runs, the loggers in front of its place are
  those of the new value (`Halfway`); loggers of different names are different
  objects (`LogOK`), so that clearing and filling one leaves those in front as
  they are, and so does whoever creates loggers by using them. Nothing is assumed
  of earlier calls: what they left in any of the loggers is replaced.

Only model-checked: all liveness (`JobsFinish`, `StopReturns`, `DueIsServed`,
`ReadyEndsWait`, `TimedCallReturns`, `StopEndsLoops`, `ConnectionsServed`,
`SetReturns`), since the prover does not handle fairness; and `AddressExact`,
because the masks of `Address` are made with the bitwise operators, about which
the provers know nothing.

## 5. Where the code falls short

Found while the models were made. Each is a behavior of the code, and of the
models where they have the part; the properties leave it out by the condition
named. The first is also a run of its own, because tests of the repository do
what breaks it.

Scheduler and events:
1. `yieldToHold()` stores HOLD before the stack is left (`fiber/fiber.cpp:377`):
   a job that schedules itself and holds can be entered by a second thread while
   the first is on its stack. `tests/test_scheduler.cpp:79` and
   `tests/test_hook.cpp:55` do this with several threads. `sched_hold` is the
   counterexample to `SingleExecution`; `SharedOnlyIfRescheduled` says that it is
   the only way. In the same way a late HOLD of `run()` (`scheduler/scheduler.cpp:193`, `223`)
   overwrites the READY of a fiber that was resumed meanwhile, which then is never
   queued: `Mixed` in `NoJobLost`.
2. `run()` resets the fiber of a callback that threw
   (`scheduler/scheduler.cpp:218`); `reset()` throws again, on a thread that
   catches nothing. `sched_stop` reaches it and ends there.
3. The active counter goes down before a READY fiber is queued again
   (`scheduler/scheduler.cpp:209`): a worker can end in between, and a job pinned
   to it is never run. `Stranded` in `StopReturns`.
4. A report of READ and WRITE, or of an error, that is handled after one of the
   two was unregistered by somebody else fails the assertion of `triggerEvent()`
   (`scheduler/ioscheduler.cpp:492`, called from `430`); `FaultOnlyStale` says that
   nothing else does.
5. Two threads that grow the vector for different descriptors, the smaller one
   last, cut it again (`scheduler/ioscheduler.cpp:121`), so that a descriptor is
   no longer an index, which the comment at line 109 says is ensured, and a
   cancellation does not find who waits. `events` has two such descriptors;
   `late` in `Watched`.

Hooked calls and server:
6. With two threads a timeout can expire before the event is registered, and
   the call then has none (`hook/hook.cpp:140`); `WaitIsTimed`.
7. With two threads a fiber that `close()` has resumed can register again before
   the number is closed (`hook/hook.cpp:797`), and waits for ever. So can an accept
   loop while the stop task closes its socket: `missed` in `NumbersOwned`,
   `StopEndsLoops` and `ConnectionsServed`; `CloseEndsWaits`.
8. A `connect()` whose wait somebody cancels returns success while it is not
   connected (`hook/hook.cpp:683`); `ConnectMeansConnected`.
9. `ioctl(FIONBIO)` off makes hooked calls block their thread; `NeverBlocks`.
10. With two accept threads, or a `start()` before the stop task has run, calls
    are made with the number -1, which indexes the descriptor table
    (`hook/fd.cpp:176`); with such a `start()` or `bind()` also on numbers of
    other objects; `NumbersValid`, `NumbersOwned`.
11. A failed `bind()` of a running server drops its sockets
    (`server/tcpserver.cpp:53`), and `stop()` no longer ends their loops.
12. A loop that finds no free number turns without yielding
    (`server/tcpserver.cpp:118`); `ConnectionsServed`.

Values:
13. An empty port after a scheme makes `Uri::create()` throw; a password that
    begins with a digit loses the beginning of the userinfo; `dec_octet` has the
    byte 2 for the digit; IPv6 forms ask for exactly n groups; ports are cut to
    16 bits. The properties of `uri` except each of these for exactly the inputs
    that show it (`NumericPassword`: there is a userinfo and its password begins
    with a digit; `Wide`: a `::` after a group that stands for more than one), so
    that they say that these are all, IPvFuture aside, which the reference does
    not read.
14. `networkAddress()` keeps the host bits instead of the network's, and for IPv6
    changes one byte only (`net/address.cpp:477`, `595`; `tests/test_net.cpp:11`
    prints it as the network); an IPv4 prefix of 0 shifts by the width of an int; a
    node in brackets, the form of the comment at `net/address.cpp:50`, keeps the
    opening one (`60`), and a bare IPv6 host gets a service (`66`). An IPv6 prefix of 128 writes the byte
    behind the address, which is one of `sin6_scope_id`. `AddressExact` states
    none of these results.
15. `writeToFile()` skips bytes from the middle of a node, and `read()` and
    `getReadBuffers()` at a position outside of the current node take the wrong
    one (`util/serializer.cpp:556`, `465`, `657`).
16. In the configuration: setters that overlap mix the appenders of a logger, while
    `config/README.md:85` promises safety between threads; a logger that exists
    keeps its level when the configuration changes it (`config/globalconfig.h:65`),
    while `log/README.md:80` promises levels that the file adjusts; a
    logger that is unchanged is a null pointer, one that is removed is named by
    `end()` (`config/globalconfig.h:73`, `104`); keys of callbacks are never
    advanced and tested the wrong way round (`config/configdata.h:90`, `106`);
    look-ups have no lock (`config/config.cpp:9`). `LoggersFollow` speaks about
    appenders, from a call on that ran by itself.
17. The distance to the first timer is cut to an `int` (`scheduler/ioscheduler.cpp:346`):
    a timer that is 2^31 ms or more away makes `epoll_wait()` get a negative
    timeout. `Periods` is below that.

## 6. What is not modelled

* `IOScheduler::stopping()` and `idle()` together with `run()`: `Scheduler`,
  `TimerManager` and `IOEvents` meet in `HookIO`, by what they promise; their
  product is out of TLC's reach.
* The gap between the locks of `FdManager::get()` and the growth of its table:
  an entry is made in one step.
* Threads, semaphores and locks, wrappers of pthreads that are used as what they
  promise.
* Socket options, `networkAddress()` (defect 14) and name resolution: calls into the operating system.
* `toString()` of a URI, the float numbers and the hexadecimal text of a byte
  array, formatting and output of log lines, conversions from and to YAML:
  nothing in the framework reads their results back.
* Third-party code and the Windows build.

Hazards that no property watches: a second
`stop()` after the end (`scheduler/scheduler.cpp:116`) and a callback that queues
its own fiber and ends (`204`), which the jobs of the model do not do; a report
that `idle()` drops because `epoll_ctl()` failed (`scheduler/ioscheduler.cpp:420`),
which nobody promises to repeat; a full notification pipe (`303`) and the float arithmetic of `addTotalSize()`
beyond 2^24 bytes (`util/serializer.cpp:739`), which no bound reaches;
`refresh()` after the clock was set back (`scheduler/timer.cpp:44`), where the
sleep of three seconds limits the harm; the number that `accept()` keeps when
`init()` fails (`net/socket.cpp:148`); `getLogger(name, false)`, which logs under
its own lock and has no caller (`log/logger.cpp:135`).

Next in line: the masks of `Address`, over a definition of the bitwise operators
by digits that a proof can unfold.
