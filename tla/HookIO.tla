-------------------------------- MODULE HookIO --------------------------------
(***************************************************************************)
(* The hooked system calls (hook/hook.cpp, Linux part) with the table of   *)
(* descriptors they consult (hook/fd.cpp): a call that would block starts  *)
(* a timer, registers the running fiber for an event and yields; timers,   *)
(* reports of epoll, cancellations and close() by other fibers end the     *)
(* wait.                                                                   *)
(*                                                                         *)
(* The fibers run on `threads` threads: whatever runs occupies one, be it  *)
(* a call between two yields, a timeout callback or the handling of a      *)
(* report by idle().  With one thread the code between two yields is not   *)
(* interleaved with other fibers, with two it is.  Registration and yield  *)
(* are one step (the race between them is the one of module Scheduler),    *)
(* and so is a call of the I/O scheduler (its locks: module IOEvents).     *)
(* All descriptors are sockets; others take the path of a user's own       *)
(* non-blocking socket.  Time is abstract: an armed timer expires at will. *)
(***************************************************************************)
EXTENDS Integers, FiniteSets

CONSTANTS
    Fibers,
    Fds,          \* descriptor numbers, which the kernel gives out again
    ThreadCounts, \* how many threads the scheduler may have
    Kinds,        \* the calls the fibers make
    Ops,          \* what else they do
    MaxCalls,     \* bound: hooked calls of all fibers
    MaxOpens,     \* bound: sockets opened
    MaxOps,       \* bound: operations of Ops
    NoOne         \* no fiber, no table entry

ASSUME HookAssumption ==
    /\ IsFiniteSet(Fibers) /\ IsFiniteSet(Fds) /\ NoOne \notin Fibers
    /\ NoOne \notin [m_is_user_nonblock : BOOLEAN, timeouts : SUBSET {"READ", "WRITE"}]
    /\ ThreadCounts \subseteq Nat \ {0}
    /\ Kinds \subseteq {"read", "write", "accept", "connect", "sleep"}
    /\ Ops \subseteq {"cancel", "timeout", "fcntl", "ioctl", "unhooked"}
    /\ MaxCalls \in Nat /\ MaxOpens \in Nat /\ MaxOps \in Nat

Events == {"READ", "WRITE"}
EventOf(kind) == IF kind \in {"read", "accept"} THEN "READ" ELSE "WRITE"
EventsUsed == {EventOf(k) : k \in Kinds \ {"sleep"}}

VARIABLES
    threads,    \* the number of threads of the scheduler
    m_fds,      \* FdManager::m_fds: the entry of each number, or NoOne
    open,       \* kernel: the numbers that stand for a socket
    conn,       \* kernel: "new", "pending", "up" or "refused"
    nonblock,   \* kernel: O_NONBLOCK
    ready,      \* kernel: the events that would not block now
    interest,   \* epoll: the watched events of each number
    edge,       \* epoll: readiness it has to report
    reported,   \* reports that epoll_wait() returned and idle() has not handled
    waiter,     \* FdContext: the fiber registered for each event
    queue,      \* fibers the scheduler has to resume
    pc,         \* where each fiber is
    call,       \* the arguments of its call
    canceled,   \* timerinfo::canceled of its call
    calls,      \* how many calls it has made: tells the timerinfos apart
    opens,      \* how many sockets were opened
    ops,        \* how many operations of Ops were made
    armed,      \* timers in the TimerManager
    fired,      \* their callbacks in the queue of the scheduler
    cancelling, \* callbacks about to call cancelEvent()
    expired,    \* history: a timer of the call in progress has expired
    woke,       \* history: what ended the last wait of a fiber
    raw,        \* history: numbers whose socket was changed behind the table
    result      \* history: how the last call of a fiber ended

kernelVars == <<open, conn, nonblock, ready>>
epollVars  == <<interest, edge, reported>>
histVars   == <<woke, raw>>
timerVars  == <<armed, fired, cancelling, expired>>
callVars   == <<call, calls, canceled>>
vars == <<threads, ops, m_fds, kernelVars, epollVars, waiter, queue, pc, callVars,
          opens, timerVars, woke, raw, result>>

-----------------------------------------------------------------------------
NoCall == [kind |-> "read", fd |-> 0, waits |-> FALSE, timed |-> FALSE]
Running == {"try", "arm", "add", "check", "blocked", "create", "del", "sys"}
PCs == Running \cup {"out", "held"}
\* Fd::init() of an open socket.
NewEntry == [m_is_user_nonblock |-> FALSE, timeouts |-> {}]
Timers == [fiber : Fibers, call : 1 .. MaxCalls, kind : Kinds, fd : Fds \cup {0}]

Busy == Cardinality({f \in Fibers : pc[f] \in Running}) + Cardinality(cancelling)
            + Cardinality(reported)
Free == Busy < threads

Init ==
    /\ threads \in ThreadCounts
    /\ open \in SUBSET Fds
    /\ m_fds = [d \in Fds |-> IF d \in open THEN NewEntry ELSE NoOne]
    /\ conn \in {c \in [Fds -> {"new", "up"}] : \A d \in Fds \ open : c[d] = "new"}
    /\ nonblock = [d \in Fds |-> TRUE]
    /\ ready = [d \in Fds |-> {}]
    /\ interest = [d \in Fds |-> {}]
    /\ edge = {} /\ reported = {}
    /\ waiter = [d \in Fds |-> [e \in Events |-> NoOne]]
    /\ queue = {}
    /\ pc = [f \in Fibers |-> "out"]
    /\ call = [f \in Fibers |-> NoCall]
    /\ canceled = [f \in Fibers |-> FALSE]
    /\ calls = [f \in Fibers |-> 0]
    /\ opens = 0 /\ ops = 0
    /\ armed = {} /\ fired = {} /\ cancelling = {}
    /\ expired = [f \in Fibers |-> FALSE]
    /\ woke = [f \in Fibers |-> "nothing"]
    /\ raw = {}
    /\ result = [f \in Fibers |-> "none"]

Goto(f, label) == pc' = [pc EXCEPT ![f] = label]
InCall(f) == pc[f] \in {"try", "arm", "add", "check", "blocked", "held"}
Fd(f) == call[f].fd
Ev(f) == EventOf(call[f].kind)
Own(f) == {t \in armed : t.fiber = f}
Returns(f, r) == Goto(f, "out") /\ result' = [result EXCEPT ![f] = r]

-----------------------------------------------------------------------------
(* epoll and the calls of IOScheduler.                                     *)

Registered(d) == {e \in Events : waiter[d][e] # NoOne}

\* epoll_ctl() with a new set of events: what is ready is reported (again).
WatchFor(d, bits) ==
    /\ interest' = [interest EXCEPT ![d] = bits]
    /\ edge' = {x \in edge : x[1] # d} \cup {<<d, e>> : e \in bits \cap ready[d]}

\* EPOLL_CTL_ADD for the first event of a number, EPOLL_CTL_MOD for a second.
AddAccepted(d) ==
    /\ d \in open
    /\ Registered(d) = {} <=> interest[d] = {}

\* Mutant of Trigger: the registration is not cleared.
TriggerKeepsWaiter(d, evs, who) ==
    LET hit == IF interest[d] = {} THEN {} ELSE evs \cap Registered(d) IN
    /\ woke' = [f \in Fibers |-> IF \E e \in hit : waiter[d][e] = f THEN who ELSE woke[f]]
    /\ waiter' = [waiter EXCEPT ![d] = [e \in Events |-> @[e]]]
    /\ queue' = queue \cup {waiter[d][e] : e \in hit}
    /\ IF hit = {} THEN UNCHANGED <<interest, edge>> ELSE WatchFor(d, Registered(d) \ hit)

\* cancelEvent(), cancelAll() and idle() give up when epoll does not know the
\* number; otherwise they stop watching and schedule those who wait.
Trigger(d, evs, who) ==
    LET hit == IF interest[d] = {} THEN {} ELSE evs \cap Registered(d) IN
    /\ woke' = [f \in Fibers |-> IF \E e \in hit : waiter[d][e] = f THEN who ELSE woke[f]]
    /\ waiter' = [waiter EXCEPT ![d] = [e \in Events |-> IF e \in hit THEN NoOne ELSE @[e]]]
    /\ queue' = queue \cup {waiter[d][e] : e \in hit}
    /\ IF hit = {} THEN UNCHANGED <<interest, edge>> ELSE WatchFor(d, Registered(d) \ hit)

-----------------------------------------------------------------------------
(* io(), connect_with_timeout() and sleep().                               *)

\* The conditions up to `retry:`, FDMGR.get() included: the call may wait when the
\* socket is in the table and its user has not asked for non-blocking mode.
Waits(d) == m_fds[d] # NoOne /\ ~ m_fds[d].m_is_user_nonblock
CallsMade == Cardinality({c \in Fibers \X (1 .. MaxCalls) : c[2] <= calls[c[1]]})
MayCall(f, k) == pc[f] = "out" /\ Free /\ CallsMade < MaxCalls /\ k \in Kinds

\* connect() fails for a descriptor that is not in the table.
RefuseConnect(f, d) ==
    /\ MayCall(f, "connect") /\ m_fds[d] = NoOne
    /\ calls' = [calls EXCEPT ![f] = @ + 1]
    /\ Returns(f, "error")
    /\ UNCHANGED <<threads, ops, histVars, m_fds, kernelVars, epollVars,
                   waiter, queue, call, canceled, opens, timerVars>>

\* Every other call comes to the original function: what does not wait returns
\* what that returns.
EnterCall(f, k, d) ==
    /\ MayCall(f, k) /\ (k = "connect" => m_fds[d] # NoOne)
    /\ calls' = [calls EXCEPT ![f] = @ + 1]
    /\ call' = [call EXCEPT ![f] = [kind |-> k, fd |-> d, waits |-> Waits(d),
                  timed |-> Waits(d) /\ (k = "connect" \/ EventOf(k) \in m_fds[d].timeouts)]]
    /\ canceled' = [canceled EXCEPT ![f] = FALSE]
    /\ expired' = [expired EXCEPT ![f] = FALSE]
    /\ Goto(f, "try")
    /\ UNCHANGED <<threads, ops, histVars, m_fds, kernelVars, epollVars,
                   waiter, queue, opens, armed, fired, cancelling, result>>

\* The original function finds nothing to do: in blocking mode it keeps the
\* thread, else it says so (EAGAIN, EINPROGRESS) and the call waits or returns.
WouldBlock(f) ==
    \/ ~ nonblock[Fd(f)] /\ Goto(f, "blocked") /\ UNCHANGED result
    \/ nonblock[Fd(f)] /\ call[f].waits /\ Goto(f, "arm") /\ UNCHANGED result
    \/ nonblock[Fd(f)] /\ ~ call[f].waits /\ Returns(f, "error")

\* The kernel has no number for a new socket (EMFILE).
NoNumberLeft == opens = MaxOpens \/ Fds \subseteq open

\* fun(fd, ...) of io().
TryIO(f) ==
    /\ pc[f] = "try" /\ call[f].kind # "connect"
    /\ LET d == Fd(f) IN
       \/ /\ \/ d \notin open \/ conn[d] \in {"new", "refused"}
             \/ call[f].kind = "accept" /\ Ev(f) \in ready[d] /\ NoNumberLeft
          /\ Returns(f, "error")
          /\ UNCHANGED <<ready, call>>
       \/ /\ d \in open /\ conn[d] = "up" /\ Ev(f) \in ready[d] /\ call[f].kind # "accept"
          /\ \E more \in BOOLEAN : ready' = [ready EXCEPT ![d] = IF more THEN @ ELSE @ \ {Ev(f)}]
          /\ Returns(f, "ok")
          /\ UNCHANGED call
       \/ /\ d \in open /\ conn[d] \in {"up", "pending"} /\ Ev(f) \notin ready[d]
          /\ WouldBlock(f)
          /\ UNCHANGED <<ready, call>>
    /\ UNCHANGED <<threads, ops, histVars, m_fds, open, conn, nonblock,
                   epollVars, waiter, queue, calls, canceled, opens,
                   timerVars>>

\* The kernel picks a number nobody has for a new socket.
NewSocket(d, c) ==
    /\ d \notin open /\ opens < MaxOpens
    /\ opens' = opens + 1
    /\ open' = open \cup {d}
    /\ conn' = [conn EXCEPT ![d] = c]
    /\ nonblock' = [nonblock EXCEPT ![d] = FALSE]

\* accept_f() with a connection waiting.
TryAccept(f, d) ==
    /\ pc[f] = "try" /\ call[f].kind = "accept"
    /\ Fd(f) \in open /\ "READ" \in ready[Fd(f)]
    /\ NewSocket(d, "up")
    /\ ready' = [ready EXCEPT ![Fd(f)] = @ \ {"READ"}, ![d] = {}]
    /\ call' = [call EXCEPT ![f].fd = d]
    /\ Goto(f, "create") /\ result' = [result EXCEPT ![f] = "ok"]
    /\ UNCHANGED <<threads, ops, histVars, m_fds, epollVars, waiter, queue,
                   calls, canceled, timerVars>>

\* The kernel has connected the socket, or failed to: both make it writable.
Settle(d, c) ==
    /\ conn' = [conn EXCEPT ![d] = c]
    /\ ready' = [ready EXCEPT ![d] = @ \cup {"WRITE"}]
    /\ edge' = edge \cup {<<d, x>> : x \in {"WRITE"} \cap interest[d]}

\* connect_f(): a connection at once, EINPROGRESS, or an error, as for a socket
\* that has been connected before.
TryConnect(f) ==
    /\ pc[f] = "try" /\ call[f].kind = "connect"
    /\ \/ /\ Fd(f) \in open /\ conn[Fd(f)] = "new"
          /\ Settle(Fd(f), "up")
          /\ Returns(f, "ok")
       \/ /\ Fd(f) \in open /\ conn[Fd(f)] = "new"
          /\ conn' = [conn EXCEPT ![Fd(f)] = "pending"]
          /\ WouldBlock(f)
          /\ UNCHANGED <<ready, edge>>
       \/ Returns(f, "error") /\ UNCHANGED <<conn, ready, edge>>
    /\ UNCHANGED <<threads, ops, histVars, m_fds, open, nonblock, interest, reported,
                   waiter, queue, callVars, opens, timerVars>>

\* A call in blocking mode keeps its thread until there is something to do.
Unblock(f) ==
    /\ pc[f] = "blocked"
    /\ Fd(f) \notin open \/ conn[Fd(f)] = "refused" \/ Ev(f) \in ready[Fd(f)]
    /\ \/ /\ call[f].kind = "connect"
          /\ Returns(f, IF Fd(f) \in open /\ conn[Fd(f)] = "up" THEN "ok" ELSE "error")
       \/ call[f].kind # "connect" /\ Goto(f, "try") /\ UNCHANGED result
    /\ UNCHANGED <<threads, ops, histVars, m_fds, kernelVars, epollVars,
                   waiter, queue, callVars, opens, timerVars>>

\* Mutant of Arm: no timer is started.
ArmNothing(f) ==
    /\ pc[f] = "arm" /\ Goto(f, "add")
    /\ UNCHANGED <<threads, ops, histVars, m_fds, kernelVars, epollVars,
                   waiter, queue, callVars, opens, timerVars, result>>

\* addConditionTimer(), before the event is registered.
Arm(f) ==
    /\ pc[f] = "arm" /\ Goto(f, "add")
    /\ armed' = armed \cup
          {t \in Timers : /\ call[f].timed /\ t.fiber = f /\ t.call = calls[f]
                          /\ t.kind = call[f].kind /\ t.fd = Fd(f)}
    /\ UNCHANGED <<threads, ops, histVars, m_fds, kernelVars, epollVars,
                   waiter, queue, callVars, opens, fired, cancelling, expired,
                   result>>

\* addEvent() refuses an event somebody waits for, and what epoll refuses.
AddRefused(f) ==
    /\ pc[f] = "add"
    /\ Ev(f) \in Registered(Fd(f)) \/ ~ AddAccepted(Fd(f))
    /\ armed' = armed \ Own(f)
    /\ Returns(f, "error")
    /\ UNCHANGED <<threads, ops, histVars, m_fds, kernelVars, epollVars,
                   waiter, queue, callVars, opens, fired, cancelling, expired>>

\* addEvent() and yieldToHold().
AddAndHold(f) ==
    /\ pc[f] = "add"
    /\ Ev(f) \notin Registered(Fd(f)) /\ AddAccepted(Fd(f))
    /\ waiter' = [waiter EXCEPT ![Fd(f)][Ev(f)] = f]
    /\ WatchFor(Fd(f), Registered(Fd(f)) \cup {Ev(f)})
    /\ Goto(f, "held")
    /\ UNCHANGED <<threads, ops, histVars, m_fds, kernelVars, reported, queue,
                   callVars, opens, timerVars, result>>

\* sleep(), usleep(), nanosleep(): addTimer() with schedule() and yieldToHold().
Sleep(f) ==
    /\ MayCall(f, "sleep")
    /\ calls' = [calls EXCEPT ![f] = @ + 1]
    /\ call' = [call EXCEPT ![f] = [NoCall EXCEPT !.kind = "sleep"]]
    /\ canceled' = [canceled EXCEPT ![f] = FALSE]
    /\ expired' = [expired EXCEPT ![f] = FALSE]
    /\ armed' = armed \cup {[fiber |-> f, call |-> calls[f] + 1, kind |-> "sleep", fd |-> 0]}
    /\ Goto(f, "held")
    /\ UNCHANGED <<threads, ops, histVars, m_fds, kernelVars, epollVars,
                   waiter, queue, opens, fired, cancelling, result>>

\* What follows the yield: the timer is cancelled, the wait was timed out or
\* the call goes on.
Resume(f) ==
    /\ pc[f] = "held" /\ f \in queue /\ Free
    /\ queue' = queue \ {f}
    /\ armed' = armed \ Own(f)
    /\ CASE call[f].kind = "sleep" -> Returns(f, "ok")
         [] call[f].kind # "sleep" /\ canceled[f] -> Returns(f, "timedout")
         [] call[f].kind = "connect" /\ ~ canceled[f] -> Goto(f, "check") /\ UNCHANGED result
         [] OTHER -> Goto(f, "try") /\ UNCHANGED result
    /\ UNCHANGED <<threads, ops, histVars, m_fds, kernelVars, epollVars,
                   waiter, callVars, opens, fired, cancelling, expired>>

\* Mutant of Check: SO_ERROR is not looked at.
CheckNothing(f) ==
    /\ pc[f] = "check"
    /\ Returns(f, IF Fd(f) \notin open THEN "error" ELSE "ok")
    /\ UNCHANGED <<threads, ops, histVars, m_fds, kernelVars, epollVars,
                   waiter, queue, callVars, opens, timerVars>>

\* getsockopt(SO_ERROR) at the end of connect_with_timeout().
Check(f) ==
    /\ pc[f] = "check"
    /\ Returns(f, IF Fd(f) \notin open \/ conn[Fd(f)] = "refused" THEN "error" ELSE "ok")
    /\ UNCHANGED <<threads, ops, histVars, m_fds, kernelVars, epollVars,
                   waiter, queue, callVars, opens, timerVars>>

-----------------------------------------------------------------------------
(* Timers, reports and the kernel.                                         *)

\* idle() collects the timer, its callback is scheduled.
Expire(t) ==
    /\ Free
    /\ armed' = armed \ {t} /\ fired' = fired \cup {t}
    /\ expired' = [expired EXCEPT ![t.fiber] = TRUE]
    /\ UNCHANGED <<threads, ops, histVars, m_fds, kernelVars, epollVars,
                   waiter, queue, pc, callVars, opens, cancelling, result>>

\* Mutant of TinfoAlive: the timer knows the fiber only.
TinfoOfFiber(t) == InCall(t.fiber)

\* w_tinfo.lock(): the call that made the timerinfo is still in progress.
TinfoAlive(t) == calls[t.fiber] = t.call /\ InCall(t.fiber)

\* Mutant of RunCallback: the wait is marked, not ended.
RunCallbackHalf(t) ==
    /\ Free
    /\ fired' = fired \ {t}
    /\ \/ /\ t.kind = "sleep"
          /\ queue' = queue \cup {t.fiber}
          /\ UNCHANGED <<canceled, cancelling>>
       \/ /\ t.kind # "sleep" /\ TinfoAlive(t) /\ ~ canceled[t.fiber]
          /\ canceled' = [canceled EXCEPT ![t.fiber] = TRUE]
          /\ UNCHANGED cancelling
          /\ UNCHANGED queue
       \/ /\ t.kind # "sleep" /\ ~ (TinfoAlive(t) /\ ~ canceled[t.fiber])
          /\ UNCHANGED <<canceled, cancelling, queue>>
    /\ UNCHANGED <<threads, ops, histVars, m_fds, kernelVars, epollVars,
                   waiter, pc, call, calls, opens, armed, expired, result>>

\* The callback of a timeout; of a sleep it is schedule(fiber).
RunCallback(t) ==
    /\ Free
    /\ fired' = fired \ {t}
    /\ \/ /\ t.kind = "sleep"
          /\ queue' = queue \cup {t.fiber}
          /\ UNCHANGED <<canceled, cancelling>>
       \/ /\ t.kind # "sleep" /\ TinfoAlive(t) /\ ~ canceled[t.fiber]
          /\ canceled' = [canceled EXCEPT ![t.fiber] = TRUE]
          /\ cancelling' = cancelling \cup {t}
          /\ UNCHANGED queue
       \/ /\ t.kind # "sleep" /\ ~ (TinfoAlive(t) /\ ~ canceled[t.fiber])
          /\ UNCHANGED <<canceled, cancelling, queue>>
    /\ UNCHANGED <<threads, ops, histVars, m_fds, kernelVars, epollVars,
                   waiter, pc, call, calls, opens, armed, expired, result>>

\* The second half of the callback: ios->cancelEvent(fd, event).
CallbackCancels(t) ==
    /\ cancelling' = cancelling \ {t}
    /\ Trigger(t.fd, {EventOf(t.kind)}, "timer")
    /\ UNCHANGED <<threads, ops, m_fds, raw, kernelVars, reported, pc,
                   callVars, opens, armed, fired, expired, result>>

\* A peer sends, reads or connects.
BecomeReady(d, e) ==
    /\ d \in open /\ conn[d] = "up" /\ e \notin ready[d]
    /\ ready' = [ready EXCEPT ![d] = @ \cup {e}]
    /\ edge' = edge \cup {<<d, x>> : x \in {e} \cap interest[d]}
    /\ UNCHANGED <<threads, ops, histVars, m_fds, open, conn, nonblock,
                   interest, reported, waiter, queue, pc, callVars, opens,
                   timerVars, result>>

\* The connection is established or refused.
Connected(d, c) ==
    /\ d \in open /\ conn[d] = "pending" /\ c \in {"up", "refused"}
    /\ Settle(d, c)
    /\ UNCHANGED <<threads, ops, histVars, m_fds, open, nonblock, interest,
                   reported, waiter, queue, pc, callVars, opens, timerVars,
                   result>>

\* epoll_wait() returns a report, which idle() handles later.
Report(d, e) ==
    /\ <<d, e>> \in edge /\ Free
    /\ edge' = edge \ {<<d, e>>}
    /\ reported' = reported \cup {<<d, e>>}
    /\ UNCHANGED <<threads, ops, histVars, m_fds, kernelVars, interest, waiter,
                   queue, pc, callVars, opens, timerVars, result>>

\* Mutant of Handle: the report is lost.
HandleDrops(d, e) ==
    /\ <<d, e>> \in reported
    /\ reported' = reported \ {<<d, e>>}
    /\ UNCHANGED <<waiter, queue, interest, edge, woke>>
    /\ UNCHANGED <<threads, ops, m_fds, raw, kernelVars, pc, callVars, opens,
                   timerVars, result>>

Handle(d, e) ==
    /\ <<d, e>> \in reported
    /\ reported' = reported \ {<<d, e>>}
    /\ Trigger(d, {e}, "event")
    /\ UNCHANGED <<threads, ops, m_fds, raw, kernelVars, pc, callVars, opens,
                   timerVars, result>>

-----------------------------------------------------------------------------
(* Opening and closing, and the calls that change how a descriptor behaves. *)

\* Numbers that a fiber is opening or closing: others do not know them yet,
\* or leave them alone.
InHand(d) == \E f \in Fibers : pc[f] \in {"create", "del", "sys"} /\ Fd(f) = d

\* socket_f()
Socket(f, d) ==
    /\ pc[f] = "out" /\ Free
    /\ NewSocket(d, "new")
    /\ ready' = [ready EXCEPT ![d] = {}]
    /\ call' = [call EXCEPT ![f].fd = d]
    /\ Goto(f, "create")
    /\ UNCHANGED <<threads, ops, histVars, m_fds, epollVars, waiter, queue,
                   calls, canceled, timerVars, result>>

\* FDMGR.get(fd, true): an entry that is there is kept, a new one puts the
\* socket into non-blocking mode.
Create(f) ==
    /\ pc[f] = "create" /\ Returns(f, "ok")
    /\ \/ m_fds[Fd(f)] # NoOne /\ UNCHANGED <<m_fds, nonblock>>
       \/ /\ m_fds[Fd(f)] = NoOne
          /\ m_fds' = [m_fds EXCEPT ![Fd(f)] = NewEntry]
          /\ nonblock' = [nonblock EXCEPT ![Fd(f)] = TRUE]
    /\ UNCHANGED <<threads, ops, histVars, open, conn, ready, epollVars,
                   waiter, queue, callVars, opens, timerVars>>

\* Mutant of CloseCancel: the events are left alone.
CloseWithoutCancel(f, d) ==
    /\ pc[f] = "out" /\ Free /\ d \in open /\ ~ InHand(d)
    /\ call' = [call EXCEPT ![f].fd = d]
    /\ IF m_fds[d] # NoOne
       THEN Goto(f, "del") /\ UNCHANGED <<waiter, queue, interest, edge, woke>>
       ELSE Goto(f, "sys") /\ UNCHANGED <<waiter, queue, interest, edge, woke>>
    /\ UNCHANGED <<threads, ops, m_fds, raw, kernelVars, reported, calls,
                   canceled, opens, timerVars, result>>

\* close(): cancelAll(), ...
CloseCancel(f, d) ==
    /\ pc[f] = "out" /\ Free /\ d \in open /\ ~ InHand(d)
    /\ call' = [call EXCEPT ![f].fd = d]
    /\ IF m_fds[d] # NoOne
       THEN Goto(f, "del") /\ Trigger(d, Events, "user")
       ELSE Goto(f, "sys") /\ UNCHANGED <<waiter, queue, interest, edge, woke>>
    /\ UNCHANGED <<threads, ops, m_fds, raw, kernelVars, reported, calls,
                   canceled, opens, timerVars, result>>

\* Mutant of CloseDel: the table keeps the entry.
CloseKeepsEntry(f) ==
    /\ pc[f] = "del" /\ Goto(f, "sys")
    /\ UNCHANGED m_fds
    /\ UNCHANGED <<threads, ops, histVars, kernelVars, epollVars, waiter,
                   queue, callVars, opens, timerVars, result>>

\* ... FDMGR.del(), ...
CloseDel(f) ==
    /\ pc[f] = "del" /\ Goto(f, "sys")
    /\ m_fds' = [m_fds EXCEPT ![Fd(f)] = NoOne]
    /\ UNCHANGED <<threads, ops, histVars, kernelVars, epollVars, waiter,
                   queue, callVars, opens, timerVars, result>>

\* The kernel forgets the socket, and epoll the number.
Closed(d) ==
    /\ open' = open \ {d}
    /\ ready' = [ready EXCEPT ![d] = {}]
    /\ interest' = [interest EXCEPT ![d] = {}]
    /\ edge' = {x \in edge : x[1] # d}
    /\ woke' = [f \in Fibers |-> IF InCall(f) /\ Fd(f) = d THEN "user" ELSE woke[f]]

\* ... close_f().
CloseSys(f) ==
    /\ pc[f] = "sys" /\ Goto(f, "out") /\ Closed(Fd(f))
    /\ UNCHANGED <<threads, ops, raw, m_fds, conn, nonblock, reported, waiter,
                   queue, callVars, opens, timerVars, result>>

Op(o) == o \in Ops /\ ops < MaxOps /\ ops' = ops + 1

\* close() of a thread that has not enabled the hooks: close_f() alone.
CloseUnhooked(d) ==
    /\ Op("unhooked") /\ d \in open /\ ~ InHand(d) /\ Closed(d)
    /\ raw' = raw \cup {d}
    /\ UNCHANGED <<threads, m_fds, conn, nonblock, reported, waiter, queue, pc,
                   callVars, opens, timerVars, result>>

\* Socket::cancelRead(), cancelWrite(), cancelAll() of another fiber.
CancelOp(d, evs) ==
    /\ Op("cancel") /\ Free /\ evs # {} /\ Registered(d) \cap evs # {}
    /\ Trigger(d, evs, "user")
    /\ UNCHANGED <<threads, m_fds, raw, kernelVars, reported, pc, callVars,
                   opens, timerVars, result>>

\* setsockopt(SO_RCVTIMEO, SO_SNDTIMEO)
SetTimeout(d, e) ==
    /\ Op("timeout") /\ m_fds[d] # NoOne /\ ~ InHand(d)
    /\ e \notin m_fds[d].timeouts
    /\ m_fds' = [m_fds EXCEPT ![d].timeouts = @ \cup {e}]
    /\ UNCHANGED <<threads, histVars, kernelVars, epollVars, waiter, queue, pc,
                   callVars, opens, timerVars, result>>

\* fcntl(F_SETFL): the user's flag is kept, the kernel's is what init() set.
Fcntl(d, b) ==
    /\ Op("fcntl") /\ m_fds[d] # NoOne /\ ~ InHand(d)
    /\ m_fds[d].m_is_user_nonblock # b \/ ~ nonblock[d]
    /\ m_fds' = [m_fds EXCEPT ![d].m_is_user_nonblock = b]
    /\ nonblock' = [nonblock EXCEPT ![d] = TRUE]
    /\ UNCHANGED <<threads, histVars, open, conn, ready, epollVars, waiter,
                   queue, pc, callVars, opens, timerVars, result>>

\* ioctl(FIONBIO): the user's flag is kept and handed to the kernel too.
Ioctl(d, b) ==
    /\ Op("ioctl") /\ m_fds[d] # NoOne /\ ~ InHand(d)
    /\ m_fds[d].m_is_user_nonblock # b \/ nonblock[d] # b
    /\ m_fds' = [m_fds EXCEPT ![d].m_is_user_nonblock = b]
    /\ nonblock' = [nonblock EXCEPT ![d] = b]
    /\ raw' = raw \cup {d}
    /\ UNCHANGED <<threads, woke, open, conn, ready, epollVars, waiter, queue,
                   pc, callVars, opens, timerVars, result>>

-----------------------------------------------------------------------------
FiberStep(f) ==
    \/ TryIO(f) \/ TryConnect(f) \/ Unblock(f) \/ Arm(f) \/ AddRefused(f) \/ AddAndHold(f)
    \/ Resume(f) \/ Check(f) \/ Create(f) \/ CloseDel(f) \/ CloseSys(f)
    \/ \E d \in Fds : TryAccept(f, d)

SchedulerStep ==
    \/ \E t \in armed : Expire(t)
    \/ \E t \in fired : RunCallback(t)
    \/ \E t \in cancelling : CallbackCancels(t)
    \/ \E d \in Fds, e \in Events : Report(d, e) \/ Handle(d, e)

Environment ==
    \/ \E f \in Fibers : Sleep(f)
    \/ \E f \in Fibers, d \in Fds : Socket(f, d) \/ CloseCancel(f, d)
    \/ \E f \in Fibers, d \in Fds, k \in Kinds \ {"sleep"} : RefuseConnect(f, d) \/ EnterCall(f, k, d)
    \/ \E d \in Fds, e \in EventsUsed : BecomeReady(d, e) \/ SetTimeout(d, e)
    \/ \E d \in Fds, c \in {"up", "refused"} : Connected(d, c)
    \/ \E d \in Fds : CloseUnhooked(d)
    \/ \E d \in Fds, evs \in SUBSET Events : CancelOp(d, evs)
    \/ \E d \in Fds, b \in BOOLEAN : Fcntl(d, b) \/ Ioctl(d, b)

Next == (\E f \in Fibers : FiberStep(f)) \/ SchedulerStep \/ Environment

Spec == Init /\ [][Next]_vars

\* The threads go on, the scheduler resumes what is queued, timers expire.
\* Nobody has to send, to connect or to make a call.
FairSpec ==
    /\ Spec
    /\ \A f \in Fibers : WF_vars(FiberStep(f))
    /\ WF_vars(SchedulerStep)

-----------------------------------------------------------------------------
TypeOK ==
    /\ threads \in ThreadCounts
    /\ m_fds \in [Fds -> {NoOne} \cup [m_is_user_nonblock : BOOLEAN, timeouts : SUBSET Events]]
    /\ open \subseteq Fds
    /\ conn \in [Fds -> {"new", "pending", "up", "refused"}]
    /\ nonblock \in [Fds -> BOOLEAN]
    /\ ready \in [Fds -> SUBSET Events] /\ interest \in [Fds -> SUBSET Events]
    /\ edge \subseteq Fds \X Events /\ reported \subseteq Fds \X Events
    /\ waiter \in [Fds -> [Events -> Fibers \cup {NoOne}]]
    /\ queue \subseteq Fibers
    /\ pc \in [Fibers -> PCs]
    /\ call \in [Fibers -> [kind : Kinds \cup {"read"}, fd : Fds \cup {0}, waits : BOOLEAN, timed : BOOLEAN]]
    /\ canceled \in [Fibers -> BOOLEAN] /\ expired \in [Fibers -> BOOLEAN]
    /\ woke \in [Fibers -> {"nothing", "event", "timer", "user"}] /\ raw \subseteq Fds
    /\ calls \in [Fibers -> 0 .. MaxCalls] /\ opens \in 0 .. MaxOpens
    /\ ops \in 0 .. MaxOps
    /\ armed \subseteq Timers /\ fired \subseteq Timers /\ cancelling \subseteq Timers
    /\ result \in [Fibers -> {"none", "ok", "error", "timedout"}]

\* A fiber is resumed once for each wait: while it is queued it holds, and
\* neither an event nor a running timer can queue it a second time
\* (cancelEvent(), idle() and close() race for it, hook.cpp:134 and 797).
ResumedOnce ==
    /\ TypeOK
    /\ \A f \in queue :
          /\ pc[f] = "held"
          /\ \A d \in Fds, e \in Events : waiter[d][e] # f
          /\ \A t \in armed \cup fired : t.kind = "sleep" => t.fiber # f

\* On one thread close() leaves no fiber waiting on the number: it cancels
\* before it closes, and nobody registers in between (hook.cpp:797).  Only a
\* close() without the hooks does.
CloseEndsWaits ==
    threads = 1 => \A d \in Fds \ (open \cup raw) : Registered(d) = {}

\* As long as a fiber with a timeout waits, something is left that will end
\* the wait: the timer, its callback, or the wake-up (hook.cpp:121).  With two
\* threads the timer can be over before the event is registered.
WaitIsTimed ==
    threads = 1 =>
        \A f \in Fibers :
            pc[f] = "held" /\ call[f].timed /\ Fd(f) \notin raw =>
                \/ f \in queue
                \/ \E t \in armed \cup fired \cup cancelling :
                       t.fiber = f /\ t.call = calls[f]

\* A connect() that an event has woken reports success only when the socket is
\* connected (hook.cpp:683): the event is not left over from a socket that had
\* the number before.  A wait that ends because somebody cancelled it, or
\* closed the socket and opened another with its number, is a success too,
\* SO_ERROR being 0.
ConnectMeansConnected ==
    [][\A f \in Fibers :
          /\ threads = 1 /\ woke[f] = "event" /\ Fd(f) \notin raw
          /\ pc[f] = "check" /\ pc'[f] = "out" /\ result'[f] = "ok"
          => conn[Fd(f)] = "up"]_vars

\* The table agrees with the kernel: what io() takes for a socket that would
\* rather fail than block is in non-blocking mode, so that no hooked call
\* keeps a thread (fd.cpp:97, hook.cpp:809), unless ioctl() or a close()
\* without the hooks came between.  With two threads a call on a number that
\* was closed and opened again can come before init().
NeverBlocks ==
    threads = 1 => \A f \in Fibers : pc[f] = "blocked" => Fd(f) \in raw

Due(f) ==
    /\ threads = 1 /\ pc[f] = "held" /\ call[f].kind # "sleep"
    /\ Fd(f) \in open /\ Ev(f) \in ready[Fd(f)]

\* A fiber that waits for what is there does not wait for ever: readiness that
\* comes between EAGAIN and addEvent() is reported (hook.cpp:140).
ReadyEndsWait == [](raw = {}) => \A f \in Fibers : Due(f) ~> ~ Due(f)

\* A call with a timeout returns, whatever the peer does (hook.cpp:119-138).
TimedCallReturns ==
    [](raw = {}) =>
        \A f \in Fibers :
            (threads = 1 /\ pc[f] = "held" /\ (call[f].timed \/ call[f].kind = "sleep"))
                ~> pc[f] = "out"

Status(f) ==
    CASE pc[f] = "held" /\ f \in queue -> "woken"
      [] pc[f] = "held" /\ f \notin queue -> "parked"
      [] pc[f] \in {"try", "arm", "add", "check", "blocked"} -> "busy"
      [] OTHER -> "out"

Promise == INSTANCE Wait WITH status <- [f \in Fibers |-> Status(f)], timeUp <- expired

\* The hooked calls keep the promise of module Wait, for any number of threads
\* (hook.cpp:93-165): a wait ends once, and a call goes on only when it was woken.
KeepsPromise == Promise!Spec
=============================================================================
