----------------------------- MODULE TimerManager -----------------------------
(***************************************************************************)
(* lon::scheduler::Timer and TimerManager (scheduler/timer.h, timer.cpp),  *)
(* with the idle fibers of IOScheduler that sleep until the first timer is *)
(* due and collect what has expired.                                       *)
(*                                                                         *)
(* Every critical section of the manager's RWMutex is one step.  What the  *)
(* code does outside it is a step of its own: the constructor of a Timer   *)
(* reads the clock before addTimer() takes the lock, reset() compares the  *)
(* period before it takes the lock, getExpiredCbsList() reads the clock    *)
(* before it takes the lock, and the call of onTimerInsertAtFront()        *)
(* follows the unlock.                                                     *)
(*                                                                         *)
(* std::set orders the timers by (m_next, address), and find() looks for   *)
(* the m_next a timer has now; so the model's m_timers holds the key that  *)
(* each timer had when it was inserted.                                    *)
(***************************************************************************)
EXTENDS Integers, FiniteSets

CONSTANTS
    Timers,      \* the Timer objects that are ever created
    LoopTimers,  \* the ones with m_is_loop
    Clients,     \* threads that call addTimer, cancel, refresh and reset
    Pollers,     \* threads with an idle fiber
    Periods,     \* the values of ms, all below 2^31
    ClientOps,   \* what clients do with a timer besides adding it
    Hour,        \* 60 * 60 * 1000, scaled down
    MaxTimeout,  \* MAX_TIMEOUT of IOScheduler::idle(), scaled down
    Start,       \* the clock when the manager is constructed
    MaxClock,    \* bound: the clock stops here
    MaxJumps,    \* bound: how often somebody sets the clock
    MaxFires,    \* bound: up to which number the collections of a timer are counted
    None         \* no timer

ASSUME TimerAssumption ==
    /\ LoopTimers \subseteq Timers /\ None \notin Timers
    /\ IsFiniteSet(Timers)
    /\ Periods \subseteq Nat
    /\ ClientOps \subseteq {"cancel", "refresh", "reset"}

\* The hour never reaches back before 1970: m_previous_time - 60 * 60 * 1000
\* does not wrap around.
ASSUME ClockAssumption ==
    /\ Hour \in Nat /\ MaxTimeout \in Nat \ {0} /\ MaxJumps \in Nat /\ MaxFires \in Nat
    /\ Start \in Nat /\ MaxClock \in Nat /\ Hour <= Start /\ Start <= MaxClock

VARIABLES
    clock,            \* util::getCurrentMs()
    m_timers,         \* the keys in the std::set
    m_notified, m_previous_time,
    m_cb,             \* the timers whose m_cb is not null
    m_ms, m_next,     \* the fields of each timer
    handles,          \* the timers whose addTimer() has returned
    client,           \* the call each client is in
    pc,               \* where each poller is in idle()
    target,           \* the time before which the epoll_wait of the poller does not time out
    now_ms,           \* the poller's local variable now_ms
    drains,           \* the pollers whose epoll_wait reported the pipe
    edge,             \* an edge of the notification pipe nobody has seen
    jumps,            \* how often the clock was set
    born, fires,      \* when a timer was last armed, and how often it has
                      \* been collected since then
    cancelled,        \* the timers for which cancel() returned true
    modified,         \* detectTimeModified() has returned true
    fault             \* an end() iterator was erased

timerVars  == <<m_timers, m_cb, m_ms, m_next>>
clockVars  == <<clock, jumps>>
flagVars   == <<m_notified, m_previous_time>>
clientVars == <<handles, client>>
pollerVars == <<pc, target, now_ms, drains>>
histVars   == <<born, fires, cancelled, modified>>
vars == <<timerVars, clockVars, flagVars, clientVars, pollerVars, histVars, edge, fault>>

-----------------------------------------------------------------------------
\* A call in progress: addTimer() before its lock ("insert") or before
\* onTimerInsertAtFront() ("notify"), reset() before its lock, with from_now
\* ("restart") or without ("reset").
CallOps == {"insert", "notify", "reset", "restart"}
Calls == [op : CallOps \cup {"none"}, timer : Timers \cup {None}, ms : Periods \cup {0}]
Call(op, t, ms) == [op |-> op, timer |-> t, ms |-> ms]
Returned == Call("none", None, 0)
PCs == {"busy", "idle", "wait", "awake", "check", "collect", "drain"}

\* The element of a timer: what Comparator looks at.
Key(t) == [next |-> m_next[t], timer |-> t]

\* The candidates for *m_timers.begin(): timers that are due at the same
\* time are ordered by their addresses, which may be in any order.
Firsts(keys) == {k \in keys : \A other \in keys : k.next <= other.next}

Init ==
    /\ clock = Start /\ jumps = 0
    /\ m_timers = {} /\ m_cb = {}
    /\ m_ms = [t \in Timers |-> 0] /\ m_next = [t \in Timers |-> 0]
    /\ m_notified = FALSE /\ m_previous_time = Start
    /\ handles = {} /\ client = [c \in Clients |-> Returned]
    /\ pc = [p \in Pollers |-> "busy"] /\ target = [p \in Pollers |-> 0]
    /\ now_ms = [p \in Pollers |-> 0] /\ drains = {}
    /\ edge = FALSE
    /\ born = [t \in Timers |-> 0] /\ fires = [t \in Timers |-> 0]
    /\ cancelled = {} /\ modified = FALSE /\ fault = FALSE

Idle(c) == client[c].op = "none" /\ ~ fault
In(c, op) == client[c].op = op /\ ~ fault
InReset(c) == client[c].op \in {"reset", "restart"} /\ ~ fault
At(p, label) == pc[p] = label /\ ~ fault
Goto(p, label) == pc' = [pc EXCEPT ![p] = label]

\* Time passes, or somebody sets the clock to another time.
Tick ==
    /\ clock < MaxClock
    /\ clock' = clock + 1
    /\ UNCHANGED <<jumps, timerVars, flagVars, clientVars, pollerVars, histVars, edge, fault>>

Jump ==
    /\ jumps < MaxJumps
    /\ \E time \in Start .. MaxClock : clock' = time
    /\ jumps' = jumps + 1
    /\ UNCHANGED <<timerVars, flagVars, clientVars, pollerVars, histVars, edge, fault>>

-----------------------------------------------------------------------------
(* The clients.                                                            *)

\* new Timer(ms, cb, is_loop, this), before the lock is taken.
Construct(c, t, ms) ==
    /\ Idle(c)
    /\ t \notin handles /\ \A other \in Clients : client[other].timer # t
    /\ m_ms' = [m_ms EXCEPT ![t] = ms]
    /\ m_next' = [m_next EXCEPT ![t] = clock + ms]
    /\ m_cb' = m_cb \cup {t}
    /\ born' = [born EXCEPT ![t] = clock]
    /\ client' = [client EXCEPT ![c] = Call("insert", t, 0)]
    /\ UNCHANGED <<m_timers, clockVars, flagVars, handles, pollerVars, fires, cancelled, modified, edge, fault>>

\* addTimer(timer, lock) up to the unlock, for the timer t with the key k and
\* the other elements of the set: a new first element is announced, once for
\* every time that a poller looks at the timers.
AddTimer(c, t, k, others) ==
    /\ m_timers' = others \cup {k}
    /\ \E first \in Firsts(others \cup {k}) :
         LET is_front == first = k /\ ~ m_notified
         IN /\ m_notified' = (m_notified \/ is_front)
            /\ client' = [client EXCEPT ![c] =
                 IF is_front THEN Call("notify", t, 0) ELSE Returned]
            /\ handles' = IF is_front THEN handles ELSE handles \cup {t}

Insert(c) ==
    /\ In(c, "insert")
    /\ AddTimer(c, client[c].timer, Key(client[c].timer), m_timers)
    /\ UNCHANGED <<m_cb, m_ms, m_next, m_previous_time, clockVars, pollerVars, histVars, edge, fault>>

\* Mutant of Notify: the handle is taken after the call has given it up.
NotifyLosesHandle(c) ==
    /\ In(c, "notify")
    /\ edge' = (edge \/ \E p \in Pollers : pc[p] # "busy")
    /\ client' = [client EXCEPT ![c] = Returned]
    /\ handles' = handles \cup {client'[c].timer}
    /\ UNCHANGED <<timerVars, clockVars, flagVars, pollerVars, histVars, fault>>

\* onTimerInsertAtFront() of IOScheduler: a byte for the pipe, unless no
\* thread is inside its idle fiber.
Notify(c) ==
    /\ In(c, "notify")
    /\ edge' = (edge \/ \E p \in Pollers : pc[p] # "busy")
    /\ handles' = handles \cup {client[c].timer}
    /\ client' = [client EXCEPT ![c] = Returned]
    /\ UNCHANGED <<timerVars, clockVars, flagVars, pollerVars, histVars, fault>>

\* Mutant of Cancel: the timer stays in the set.
CancelKeepsElement(c, t) ==
    /\ Idle(c) /\ t \in handles /\ "cancel" \in ClientOps
    /\ t \in m_cb
    /\ m_cb' = m_cb \ {t}
    /\ cancelled' = cancelled \cup {t}
    /\ UNCHANGED <<m_timers, m_ms, m_next, clockVars, flagVars, clientVars, pollerVars, born, fires, modified, edge, fault>>

\* cancel() with a callback: the result of find() is erased unchecked.
Cancel(c, t) ==
    /\ Idle(c) /\ t \in handles /\ "cancel" \in ClientOps
    /\ t \in m_cb
    /\ m_cb' = m_cb \ {t}
    /\ m_timers' = m_timers \ {Key(t)}
    /\ fault' = (Key(t) \notin m_timers)
    /\ cancelled' = cancelled \cup {t}
    /\ UNCHANGED <<m_ms, m_next, clockVars, flagVars, clientVars, pollerVars, born, fires, modified, edge>>

\* refresh() of a timer that is waiting; nobody is notified.
Refresh(c, t) ==
    /\ Idle(c) /\ t \in handles /\ "refresh" \in ClientOps
    /\ t \in m_cb /\ Key(t) \in m_timers
    /\ m_next' = [m_next EXCEPT ![t] = clock + m_ms[t]]
    /\ m_timers' = (m_timers \ {Key(t)}) \cup {[next |-> clock + m_ms[t], timer |-> t]}
    /\ born' = [born EXCEPT ![t] = clock]
    /\ fires' = [fires EXCEPT ![t] = 0]
    /\ UNCHANGED <<m_cb, m_ms, clockVars, flagVars, clientVars, pollerVars, cancelled, modified, edge, fault>>

\* reset(ms, from_now): the check that is made without the lock.
Reset(c, t, ms, op) ==
    /\ Idle(c) /\ t \in handles /\ "reset" \in ClientOps
    /\ ms # m_ms[t] \/ op = "restart"
    /\ client' = [client EXCEPT ![c] = Call(op, t, ms)]
    /\ UNCHANGED <<timerVars, clockVars, flagVars, handles, pollerVars, histVars, edge, fault>>

\* Its critical section, for a timer that is still waiting ...
ResetWaiting(c) ==
    /\ InReset(c)
    /\ LET t     == client[c].timer
           ms    == client[c].ms
           start == IF client[c].op = "restart" THEN clock ELSE m_next[t] - m_ms[t]
       IN /\ t \in m_cb /\ Key(t) \in m_timers
          /\ m_ms' = [m_ms EXCEPT ![t] = ms]
          /\ m_next' = [m_next EXCEPT ![t] = start + ms]
          /\ AddTimer(c, t, [next |-> start + ms, timer |-> t], m_timers \ {Key(t)})
          /\ born' = [born EXCEPT ![t] = start]
          /\ fires' = [fires EXCEPT ![t] = 0]
    /\ UNCHANGED <<m_cb, m_previous_time, clockVars, pollerVars, cancelled, modified, edge, fault>>

\* ... and for one that has fired or was cancelled in the meantime.
ResetGone(c) ==
    /\ InReset(c)
    /\ client[c].timer \notin m_cb \/ Key(client[c].timer) \notin m_timers
    /\ client' = [client EXCEPT ![c] = Returned]
    /\ UNCHANGED <<timerVars, clockVars, flagVars, handles, pollerVars, histVars, edge, fault>>

-----------------------------------------------------------------------------
(* The pollers.                                                            *)

\* run() enters the idle fiber again.
EnterIdle(p) ==
    /\ At(p, "busy")
    /\ Goto(p, "idle")
    /\ UNCHANGED <<timerVars, clockVars, flagVars, clientVars, target, now_ms, drains, histVars, edge, fault>>

\* Mutant of GetNextTimerTimeMs: m_notified is never cleared.
GetNextKeepsNotified(p) ==
    /\ At(p, "idle")
    /\ \E due \in {k.next : k \in Firsts(m_timers)} \cup {clock + MaxTimeout} :
         /\ due <= clock + MaxTimeout
         /\ \A k \in m_timers : due <= k.next
         /\ target' = [target EXCEPT ![p] = due]
    /\ Goto(p, "wait")
    /\ UNCHANGED <<timerVars, clockVars, flagVars, clientVars, now_ms, drains, histVars, edge, fault>>

\* getNextTimerTimeMs(), and the epoll_wait that idle() starts with it: the time
\* until the first timer is due, and MAX_TIMEOUT at most.  The timeout is
\* relative: the wait begins some time after the look at the clock, and begins
\* again with the whole timeout after a signal (EINTR).  Each only delays its
\* end, so it times out at the target or at any time after it.
GetNextTimerTimeMs(p) ==
    /\ At(p, "idle")
    /\ m_notified' = FALSE
    /\ \E due \in {k.next : k \in Firsts(m_timers)} \cup {clock + MaxTimeout} :
         /\ due <= clock + MaxTimeout
         /\ \A k \in m_timers : due <= k.next
         /\ target' = [target EXCEPT ![p] = due]
    /\ Goto(p, "wait")
    /\ UNCHANGED <<timerVars, clockVars, m_previous_time, clientVars, now_ms, drains, histVars, edge, fault>>

\* epoll_wait() times out, maybe late.  It does not follow the clock that people set:
\* once that has happened it may return at any time.
Timeout(p) ==
    /\ At(p, "wait")
    /\ clock >= target[p] \/ jumps > 0
    /\ target' = [target EXCEPT ![p] = 0]
    /\ Goto(p, "awake")
    /\ UNCHANGED <<timerVars, clockVars, flagVars, clientVars, now_ms, drains, histVars, edge, fault>>

\* epoll_wait() reports the pipe: edge triggered, so to one poller only.
Wakeup(p) ==
    /\ At(p, "wait")
    /\ edge
    /\ edge' = FALSE
    /\ drains' = drains \cup {p}
    /\ target' = [target EXCEPT ![p] = 0]
    /\ Goto(p, "awake")
    /\ UNCHANGED <<timerVars, clockVars, flagVars, clientVars, now_ms, histVars, fault>>

\* getExpiredCbsList(): now_ms = util::getCurrentMs() ...
ReadClock(p) ==
    /\ At(p, "awake")
    /\ now_ms' = [now_ms EXCEPT ![p] = clock]
    /\ Goto(p, "check")
    /\ UNCHANGED <<timerVars, clockVars, flagVars, clientVars, target, drains, histVars, edge, fault>>

\* ... the look at the set under the read lock ...
CheckEmpty(p) ==
    /\ At(p, "check")
    /\ Goto(p, IF m_timers = {} THEN "drain" ELSE "collect")
    /\ UNCHANGED <<timerVars, clockVars, flagVars, clientVars, target, now_ms, drains, histVars, edge, fault>>

\* detectTimeModified(now_ms).
TimeModified(now) == now < m_previous_time /\ now < m_previous_time - Hour

\* Mutant of Expired: a timer that is due in the next millisecond is taken.
ExpiredEarly(now) ==
    {k \in m_timers : TimeModified(now) \/ k.next <= now + 1}

\* The range that leaves the set: everything once the clock was set back.
Expired(now) ==
    {k \in m_timers : TimeModified(now) \/ k.next <= now}

\* One more collection of the expired timers.
Counted(expired) ==
    [t \in Timers |-> IF t \in expired /\ fires[t] < MaxFires THEN fires[t] + 1 ELSE fires[t]]

\* Mutant of Collect: a loop timer gets its new time before it is erased.
CollectRekeys(p) ==
    /\ At(p, "collect")
    /\ m_timers # {}
    /\ LET now     == now_ms[p]
           expired == {k.timer : k \in Expired(now)}
           again   == expired \cap LoopTimers
       IN /\ m_next' = [t \in Timers |-> IF t \in again THEN now + m_ms[t] ELSE m_next[t]]
          /\ m_timers' = {k \in m_timers : k.timer \notin expired \/ k.timer \in again}
          /\ m_cb' = m_cb \ (expired \ LoopTimers)
          /\ fires' = Counted(expired)
          /\ modified' = (modified \/ TimeModified(now))
          /\ m_previous_time' = now
    /\ Goto(p, "drain")
    /\ UNCHANGED <<m_ms, m_notified, clockVars, clientVars, target, now_ms, drains, born, cancelled, edge, fault>>

\* Mutant of Collect: a one-shot timer keeps its callback.
CollectKeepsCallback(p) ==
    /\ At(p, "collect")
    /\ m_timers # {}
    /\ LET now     == now_ms[p]
           expired == {k.timer : k \in Expired(now)}
           again   == expired \cap LoopTimers
       IN /\ m_next' = [t \in Timers |-> IF t \in again THEN now + m_ms[t] ELSE m_next[t]]
          /\ m_timers' = (m_timers \ Expired(now))
                           \cup {[next |-> now + m_ms[t], timer |-> t] : t \in again}
          /\ fires' = Counted(expired)
          /\ modified' = (modified \/ TimeModified(now))
          /\ m_previous_time' = now
    /\ Goto(p, "drain")
    /\ UNCHANGED <<m_ms, m_cb, m_notified, clockVars, clientVars, target, now_ms, drains, born, cancelled, edge, fault>>

\* ... and the critical section under the write lock, which hands the
\* callbacks of the expired timers to schedule() and arms the loop timers
\* again.
Collect(p) ==
    /\ At(p, "collect")
    /\ m_timers # {}
    /\ LET now     == now_ms[p]
           expired == {k.timer : k \in Expired(now)}
           again   == expired \cap LoopTimers
       IN /\ m_next' = [t \in Timers |-> IF t \in again THEN now + m_ms[t] ELSE m_next[t]]
          /\ m_timers' = (m_timers \ Expired(now))
                           \cup {[next |-> now + m_ms[t], timer |-> t] : t \in again}
          /\ m_cb' = m_cb \ (expired \ LoopTimers)
          /\ fires' = Counted(expired)
          /\ modified' = (modified \/ TimeModified(now))
          /\ m_previous_time' = now
    /\ Goto(p, "drain")
    /\ UNCHANGED <<m_ms, m_notified, clockVars, clientVars, target, now_ms, drains, born, cancelled, edge, fault>>

CollectNothing(p) ==
    /\ At(p, "collect")
    /\ m_timers = {}
    /\ Goto(p, "drain")
    /\ UNCHANGED <<timerVars, clockVars, flagVars, clientVars, target, now_ms, drains, histVars, edge, fault>>

\* The rest of idle(): the reader of the pipe empties it, and an edge that
\* nobody has seen yet goes with the bytes; then swapOut().
Drain(p) ==
    /\ At(p, "drain")
    /\ edge' = (edge /\ p \notin drains)
    /\ drains' = drains \ {p}
    /\ now_ms' = [now_ms EXCEPT ![p] = 0]
    /\ Goto(p, "busy")
    /\ UNCHANGED <<timerVars, clockVars, flagVars, clientVars, target, histVars, fault>>

-----------------------------------------------------------------------------
ClientStep(c) ==
    \/ \E t \in Timers, ms \in Periods : Construct(c, t, ms)
    \/ Insert(c) \/ Notify(c)
    \/ \E t \in Timers : Cancel(c, t) \/ Refresh(c, t)
    \/ \E t \in Timers, ms \in Periods, op \in {"reset", "restart"} : Reset(c, t, ms, op)
    \/ ResetWaiting(c) \/ ResetGone(c)

PollerStep(p) ==
    \/ EnterIdle(p) \/ GetNextTimerTimeMs(p) \/ Timeout(p) \/ Wakeup(p)
    \/ ReadClock(p) \/ CheckEmpty(p) \/ Collect(p) \/ CollectNothing(p) \/ Drain(p)

Next ==
    \/ Tick \/ Jump
    \/ \E c \in Clients : ClientStep(c)
    \/ \E p \in Pollers : PollerStep(p)

Spec == Init /\ [][Next]_vars

\* Threads are scheduled, the lock is granted, and a client finishes the call
\* it is in; nobody has to make a call, and nothing is assumed of the clock.
Fairness ==
    /\ \A p \in Pollers : WF_vars(PollerStep(p))
    /\ \A c \in Clients : WF_vars(Insert(c) \/ Notify(c))

FairSpec == Spec /\ Fairness

-----------------------------------------------------------------------------
(* Properties.                                                             *)

TypeOK ==
    /\ clock \in Nat /\ jumps \in Nat /\ m_previous_time \in Nat
    /\ m_timers \subseteq [next : Nat, timer : Timers]
    /\ m_cb \subseteq Timers /\ handles \subseteq Timers /\ cancelled \subseteq Timers
    /\ m_ms \in [Timers -> Nat] /\ m_next \in [Timers -> Nat]
    /\ born \in [Timers -> Nat] /\ fires \in [Timers -> Nat]
    /\ m_notified \in BOOLEAN /\ edge \in BOOLEAN /\ modified \in BOOLEAN /\ fault \in BOOLEAN
    /\ client \in [Clients -> Calls]
    /\ pc \in [Pollers -> PCs] /\ drains \subseteq Pollers
    /\ target \in [Pollers -> Nat] /\ now_ms \in [Pollers -> Nat]

\* cancel() and refresh() rely on it: exactly the timers that have a callback
\* are in the set, each once and under the m_next it has now, so that find()
\* never returns end() (which cancel() would erase).
BeingAdded == {client[c].timer : c \in {d \in Clients : client[d].op = "insert"}}
SetAgrees ==
    /\ ~ fault
    /\ m_timers = {Key(t) : t \in m_cb \ BeingAdded}

\* While nobody sets the clock, a timer is never collected more often than its
\* period allows since it was last armed, however stale the now_ms is that
\* getExpiredCbsList() works with.  The one exception is a poller that stalls for
\* an hour between its look at the clock and the lock while others go on: then
\* detectTimeModified() takes it for a clock that was set back, and every timer
\* is collected.
RateBounded ==
    (jumps = 0 /\ ~ modified) =>
      \A t \in Timers : fires[t] * m_ms[t] <= clock - born[t]

\* A one-shot timer is collected at most once, and not at all when cancel()
\* returned true: whoever gets the lock first decides, even when
\* getExpiredCbsList() takes every timer because the clock was set back.
OneShotExact ==
    \A t \in Timers \ LoopTimers :
      fires[t] + (IF t \in cancelled THEN 1 ELSE 0) <= 1

\* Once cancel() has returned true no poller collects the timer again.
CancelIsFinal ==
    [][\A t \in cancelled : fires'[t] = fires[t] /\ t \notin m_cb']_vars

\* While nobody sets the clock the first timer is not overslept: unless some
\* poller is on its way to look at the timers, or is being woken, one sleeps
\* with a timeout that was, when it looked, no longer than until the first timer
\* is due.  This is what the m_notified flag must not break when it saves a
\* notification.
WakeupCovered ==
    (m_timers # {} /\ jumps = 0 /\ Pollers # {}) =>
      \/ edge
      \/ \E c \in Clients : client[c].op = "notify"
      \/ \E p \in Pollers : pc[p] # "wait"
      \/ \E p \in Pollers : \A k \in m_timers : target[p] <= k.next

\* A timer that is due is collected or cancelled; a loop timer without a period
\* is due again at once, and is collected again and again.
Due(t) == t \in m_cb \ BeingAdded /\ m_next[t] <= clock
Served(t) == \E p \in Pollers : Collect(p) /\ \E k \in Expired(now_ms[p]) : k.timer = t
DueIsServed == \A t \in Timers : []<> ~ Due(t) \/ []<><<Served(t)>>_vars
=============================================================================
