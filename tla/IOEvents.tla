------------------------------- MODULE IOEvents -------------------------------
(***************************************************************************)
(* The events of lon::scheduler::IOScheduler (scheduler/ioscheduler.h,     *)
(* ioscheduler.cpp): fibers register for READ or WRITE on a descriptor and *)
(* are scheduled when epoll reports it, or when another thread cancels.    *)
(*                                                                         *)
(* m_fd_contexts is a vector of pointers to FdContext, guarded by m_mutex; *)
(* each FdContext has a mutex of its own, and the pointer is used after    *)
(* m_mutex was released.  A context is a pair of a descriptor and a number *)
(* that tells the contexts apart that are ever allocated for it.           *)
(*                                                                         *)
(* Looking up a pointer, growing the vector, and what happens under the    *)
(* mutex of a context up to the next change of the atomic counter are      *)
(* steps.  The epoll instance is external: it is modelled by its interest  *)
(* list, and a report is handled some time after epoll_wait returned it.   *)
(* The descriptors reported by one call of epoll_wait are handled one      *)
(* after the other; the model makes each of them a report of its own.      *)
(***************************************************************************)
EXTENDS Integers, Sequences, FiniteSets

CONSTANTS
    Fds,        \* descriptors: indices into m_fd_contexts
    InitSize,   \* 32: the size of the vector in the constructor
    Events,     \* the events fibers register for: READ, WRITE
    Users,      \* fibers that register and cancel
    Pollers,    \* threads that wait in idle()
    Ops,        \* the calls besides addEvent: del, cancel, cancelAll
    CtlMayFail, \* epoll_ctl may fail for reasons of its own
    MaxContexts,\* bound: contexts allocated for one descriptor
    MaxAdds,    \* bound: how often a fiber registers
    NoOne       \* no thread

ASSUME EventAssumption ==
    /\ Fds \subseteq Nat /\ MaxContexts \in Nat \ {0} /\ MaxAdds \in Nat
    \* fd * 1.5 is more than fd for the descriptors beyond it.
    /\ InitSize \in Nat \ {0, 1}
    /\ Events \subseteq {"READ", "WRITE"}
    /\ Users \cap Pollers = {} /\ NoOne \notin Users \cup Pollers
    /\ IsFiniteSet(Users) /\ IsFiniteSet(Pollers) /\ IsFiniteSet(Fds)
    /\ Ops \subseteq {"del", "cancel", "cancelAll"} /\ CtlMayFail \in BOOLEAN

Threads == Users \cup Pollers
Contexts == Fds \X (1 .. MaxContexts)

VARIABLES
    size,           \* m_fd_contexts.size()
    m_fd_contexts,  \* the number of the context at each index, 0: none
    made,           \* how many contexts were allocated for a descriptor
    event,          \* FdContext::event: what is registered
    waiter,         \* the fiber in r_event and w_event
    mutex,          \* FdContext::mutex: its holder while a call triggers events
    m_waitting_events_count,
    interest,       \* epoll: the events and the data.ptr of each descriptor
    pc,             \* where each thread is
    call,           \* the arguments of its call, with the fd_ctx it looked up
    todo,           \* the events it has still to trigger
    adds,           \* how often a fiber has registered
    fault,          \* a LON_ASSERT failed
    since,          \* history: the events of its report that were unregistered since epoll reported them
    late            \* history: the vector was resized for a descriptor that it had room for

tableVars   == <<size, m_fd_contexts, made>>
contextVars == <<event, waiter>>
threadVars  == <<pc, call, todo>>
history     == <<since, late>>
vars == <<tableVars, contextVars, mutex, m_waitting_events_count, interest,
          threadVars, adds, fault, history>>

-----------------------------------------------------------------------------
NoContext == <<0, 0>>
NoCall == [fd |-> 0, ev |-> "READ", ctx |-> NoContext, bits |-> {}, err |-> FALSE]
Unwatched == [bits |-> {}, ctx |-> NoContext]
PCs == {"run", "grow", "register", "parked", "dropped", "del", "cancel", "cancelAll",
        "wait", "handle", "trigger", "count"}

\* The order in which cancelAll() and idle() trigger the events of a context.
InOrder(bits) ==
    IF "READ" \in bits
    THEN IF "WRITE" \in bits THEN <<"READ", "WRITE">> ELSE <<"READ">>
    ELSE IF "WRITE" \in bits THEN <<"WRITE">> ELSE <<>>

\* contextResize(n): new contexts for the indices that have none.  Pointers
\* behind a smaller size are gone.
Resized(n, f) ==
    IF f >= n THEN 0 ELSE IF m_fd_contexts[f] = 0 THEN made[f] + 1 ELSE m_fd_contexts[f]

Init ==
    /\ size = InitSize
    /\ m_fd_contexts = [f \in Fds |-> IF f < InitSize THEN 1 ELSE 0]
    /\ made = m_fd_contexts
    /\ event = [x \in Contexts |-> {}]
    /\ waiter = [x \in Contexts |-> [e \in Events |-> NoOne]]
    /\ mutex = [x \in Contexts |-> NoOne]
    /\ m_waitting_events_count = 0
    /\ interest = [f \in Fds |-> Unwatched]
    /\ pc = [t \in Threads |-> IF t \in Users THEN "run" ELSE "wait"]
    /\ call = [t \in Threads |-> NoCall]
    /\ todo = [t \in Threads |-> <<>>]
    /\ adds = [u \in Users |-> 0]
    /\ fault = FALSE
    /\ since = [t \in Threads |-> {}] /\ late = FALSE

At(t, label) == pc[t] = label /\ ~ fault
Goto(t, label) == pc' = [pc EXCEPT ![t] = label]
Home(t) == IF t \in Users THEN "run" ELSE "wait"
Ctx(t) == call[t].ctx
Locked(t) == mutex[Ctx(t)] # NoOne

\* The pointer that a thread finds at the index fd.
Lookup(t, fd, ev) ==
    call' = [call EXCEPT ![t] = [NoCall EXCEPT !.fd = fd, !.ev = ev, !.ctx = <<fd, m_fd_contexts[fd]>>]]

\* The event e of the context x is unregistered, before the reports of it are handled.
Unregistered(x, e) ==
    since' = [t \in Threads |-> IF pc[t] = "handle" /\ Ctx(t) = x THEN since[t] \cup ({e} \cap call[t].bits) ELSE since[t]]

\* epoll_ctl(): ADD fails for a descriptor that is watched already, MOD and
\* DEL for one that is not; it may fail for other reasons too.
CtlAccepts(f, add) == add <=> interest[f] = Unwatched
CtlFails(f, add) == CtlMayFail \/ ~ CtlAccepts(f, add)
Watch(f, x, bits) ==
    interest' = [interest EXCEPT ![f] = IF bits = {} THEN Unwatched ELSE [bits |-> bits, ctx |-> x]]

-----------------------------------------------------------------------------
(* addEvent().                                                             *)

\* The look at the vector under the read lock: the pointer is taken, or the
\* vector is found to be too small.
AddFind(u, fd, ev) ==
    /\ At(u, "run")
    /\ adds[u] < MaxAdds
    /\ adds' = [adds EXCEPT ![u] = @ + 1]
    /\ IF size > fd
       THEN Lookup(u, fd, ev) /\ Goto(u, "register")
       ELSE /\ call' = [call EXCEPT ![u] = [NoCall EXCEPT !.fd = fd, !.ev = ev]]
            /\ Goto(u, "grow")
    /\ UNCHANGED <<tableVars, contextVars, mutex, m_waitting_events_count, interest, todo, fault, history>>

\* The other branch, under the write lock and without another look at the
\* size: contextResize(fd * 1.5).
AddGrow(u) ==
    /\ At(u, "grow")
    /\ LET fd == call[u].fd
           n  == (fd * 3) \div 2
       IN /\ \A f \in Fds : Resized(n, f) <= MaxContexts
          /\ size' = n
          /\ m_fd_contexts' = [f \in Fds |-> Resized(n, f)]
          /\ made' = [f \in Fds |-> IF Resized(n, f) > made[f] THEN Resized(n, f) ELSE made[f]]
          /\ call' = [call EXCEPT ![u].ctx = <<fd, Resized(n, fd)>>]
    /\ late' = (late \/ size > call[u].fd)
    /\ Goto(u, "register")
    /\ UNCHANGED <<contextVars, mutex, m_waitting_events_count, interest, todo, adds, fault, since>>

\* Mutant of AddRegister: the event may be registered already.
AddRegisterTwice(u) ==
    /\ At(u, "register") /\ ~ Locked(u)
    /\ LET x == Ctx(u)
           e == call[u].ev
       IN /\ CtlAccepts(call[u].fd, event[x] = {})
          /\ Watch(call[u].fd, x, event[x] \cup {e})
          /\ event' = [event EXCEPT ![x] = @ \cup {e}]
          /\ waiter' = [waiter EXCEPT ![x][e] = u]
    /\ m_waitting_events_count' = m_waitting_events_count + 1
    /\ Goto(u, "parked")
    /\ call' = [call EXCEPT ![u] = NoCall]
    /\ UNCHANGED <<tableVars, mutex, todo, adds, fault, history>>

\* The registration, under the mutex of the context; then the fiber yields.
AddRegister(u) ==
    /\ At(u, "register") /\ ~ Locked(u)
    /\ LET x == Ctx(u)
           e == call[u].ev
       IN /\ e \notin event[x]
          /\ CtlAccepts(call[u].fd, event[x] = {})
          /\ Watch(call[u].fd, x, event[x] \cup {e})
          /\ event' = [event EXCEPT ![x] = @ \cup {e}]
          /\ fault' = (waiter[x][e] # NoOne)
          /\ waiter' = [waiter EXCEPT ![x][e] = u]
    /\ m_waitting_events_count' = m_waitting_events_count + 1
    /\ Goto(u, "parked")
    /\ call' = [call EXCEPT ![u] = NoCall]
    /\ UNCHANGED <<tableVars, mutex, todo, adds, history>>

\* The event is registered already, or epoll_ctl fails: -1.
AddRefused(u) ==
    /\ At(u, "register") /\ ~ Locked(u)
    /\ \/ call[u].ev \in event[Ctx(u)]
       \/ CtlFails(call[u].fd, event[Ctx(u)] = {})
    /\ Goto(u, "run")
    /\ call' = [call EXCEPT ![u] = NoCall]
    /\ UNCHANGED <<tableVars, contextVars, mutex, m_waitting_events_count, interest, todo, adds, fault, history>>

-----------------------------------------------------------------------------
(* delEvent(), cancelEvent(), cancelAll().                                 *)

\* They look for the context first; cancelAll() is given no event.
Find(u, op, fd, ev) ==
    /\ At(u, "run") /\ op \in Ops
    /\ op = "cancelAll" => ev = NoCall.ev
    /\ size > fd
    /\ Lookup(u, fd, ev)
    /\ Goto(u, op)
    /\ UNCHANGED <<tableVars, contextVars, mutex, m_waitting_events_count, interest, todo, adds, fault, history>>

\* Mutant of Del: the counter keeps the event.
DelUncounted(u) ==
    /\ At(u, "del") /\ ~ Locked(u)
    /\ LET x == Ctx(u)
           e == call[u].ev
       IN /\ e \in event[x]
          /\ CtlAccepts(call[u].fd, FALSE)
          /\ Watch(call[u].fd, x, event[x] \ {e})
          /\ event' = [event EXCEPT ![x] = @ \ {e}]
          /\ waiter' = [waiter EXCEPT ![x][e] = NoOne]
          /\ Unregistered(x, e)
          /\ pc' = [pc EXCEPT ![u] = "run", ![waiter[x][e]] = "dropped"]
    /\ call' = [call EXCEPT ![u] = NoCall]
    /\ UNCHANGED <<tableVars, mutex, m_waitting_events_count, todo, adds, fault, late>>

\* delEvent(): the event goes without being triggered, and nobody schedules
\* the fiber.
Del(u) ==
    /\ At(u, "del") /\ ~ Locked(u)
    /\ LET x == Ctx(u)
           e == call[u].ev
       IN /\ e \in event[x]
          /\ CtlAccepts(call[u].fd, FALSE)
          /\ Watch(call[u].fd, x, event[x] \ {e})
          /\ event' = [event EXCEPT ![x] = @ \ {e}]
          /\ waiter' = [waiter EXCEPT ![x][e] = NoOne]
          /\ Unregistered(x, e)
          /\ pc' = [pc EXCEPT ![u] = "run", ![waiter[x][e]] = "dropped"]
    /\ m_waitting_events_count' = m_waitting_events_count - 1
    /\ call' = [call EXCEPT ![u] = NoCall]
    /\ UNCHANGED <<tableVars, mutex, todo, adds, fault, late>>

\* cancelEvent() and cancelAll() up to the first triggerEvent().
Cancel(u) ==
    /\ At(u, "cancel") /\ ~ Locked(u)
    /\ LET x == Ctx(u)
           e == call[u].ev
       IN /\ e \in event[x]
          /\ CtlAccepts(call[u].fd, FALSE)
          /\ Watch(call[u].fd, x, event[x] \ {e})
          /\ mutex' = [mutex EXCEPT ![x] = u]
          /\ todo' = [todo EXCEPT ![u] = <<e>>]
    /\ Goto(u, "trigger")
    /\ UNCHANGED <<tableVars, contextVars, m_waitting_events_count, call, adds, fault, history>>

CancelAll(u) ==
    /\ At(u, "cancelAll") /\ ~ Locked(u)
    /\ LET x == Ctx(u)
       IN /\ event[x] # {}
          /\ CtlAccepts(call[u].fd, FALSE)
          /\ Watch(call[u].fd, x, {})
          /\ mutex' = [mutex EXCEPT ![x] = u]
          /\ todo' = [todo EXCEPT ![u] = InOrder(event[x])]
    /\ Goto(u, "trigger")
    /\ UNCHANGED <<tableVars, contextVars, m_waitting_events_count, call, adds, fault, history>>

\* Nothing is registered, or epoll_ctl fails: false.
CancelRefused(u) ==
    /\ At(u, "del") \/ At(u, "cancel") \/ At(u, "cancelAll")
    /\ ~ Locked(u)
    /\ \/ event[Ctx(u)] = {}
       \/ pc[u] # "cancelAll" /\ call[u].ev \notin event[Ctx(u)]
       \/ CtlFails(call[u].fd, FALSE)
    /\ Goto(u, "run")
    /\ call' = [call EXCEPT ![u] = NoCall]
    /\ UNCHANGED <<tableVars, contextVars, mutex, m_waitting_events_count, interest, todo, adds, fault, history>>

-----------------------------------------------------------------------------
(* The part of idle() that handles a report of epoll_wait().               *)

\* epoll_wait() returns: some of the watched events are ready, or the
\* descriptor has an error (EPOLLERR, EPOLLHUP).
Report(p, fd, bits, err) ==
    /\ At(p, "wait")
    /\ interest[fd] # Unwatched
    /\ bits \subseteq interest[fd].bits
    /\ bits # {} \/ err
    /\ call' = [call EXCEPT ![p] =
         [NoCall EXCEPT !.fd = fd, !.ctx = interest[fd].ctx, !.bits = bits, !.err = err]]
    /\ Goto(p, "handle")
    /\ UNCHANGED <<tableVars, contextVars, mutex, m_waitting_events_count, interest, todo, adds, fault, history>>

\* real_event: with an error everything that is registered now.
Real(p) == call[p].bits \cup (IF call[p].err THEN event[Ctx(p)] ELSE {})

\* Mutant of Handle: the descriptor is always removed from epoll.
HandleDeletes(p) ==
    /\ At(p, "handle") /\ ~ Locked(p)
    /\ LET x == Ctx(p)
       IN /\ event[x] \cap Real(p) # {}
          /\ CtlAccepts(call[p].fd, FALSE)
          /\ Watch(call[p].fd, x, {})
          /\ mutex' = [mutex EXCEPT ![x] = p]
          /\ todo' = [todo EXCEPT ![p] = InOrder(Real(p))]
    /\ Goto(p, "trigger")
    /\ UNCHANGED <<tableVars, contextVars, m_waitting_events_count, call, adds, fault, history>>

\* Mutant of Handle: nobody looks whether the events are still registered.
HandleUnchecked(p) ==
    /\ At(p, "handle") /\ ~ Locked(p)
    /\ LET x == Ctx(p)
       IN /\ Real(p) # {}
          /\ Watch(call[p].fd, x, event[x] \ Real(p))
          /\ mutex' = [mutex EXCEPT ![x] = p]
          /\ todo' = [todo EXCEPT ![p] = InOrder(Real(p))]
    /\ Goto(p, "trigger")
    /\ UNCHANGED <<tableVars, contextVars, m_waitting_events_count, call, adds, fault, history>>

\* Under the mutex of the context: epoll goes on watching what is left, and
\* all of real_event will be triggered, registered or not.
Handle(p) ==
    /\ At(p, "handle") /\ ~ Locked(p)
    /\ LET x == Ctx(p)
       IN /\ event[x] \cap Real(p) # {}
          /\ CtlAccepts(call[p].fd, FALSE)
          /\ Watch(call[p].fd, x, event[x] \ Real(p))
          /\ mutex' = [mutex EXCEPT ![x] = p]
          /\ todo' = [todo EXCEPT ![p] = InOrder(Real(p))]
    /\ Goto(p, "trigger")
    /\ UNCHANGED <<tableVars, contextVars, m_waitting_events_count, call, adds, fault, history>>

\* Nothing that was reported is registered any more, or epoll_ctl fails.
Skip(p) ==
    /\ At(p, "handle") /\ ~ Locked(p)
    /\ \/ event[Ctx(p)] \cap Real(p) = {}
       \/ CtlFails(call[p].fd, FALSE)
    /\ Goto(p, "wait")
    /\ call' = [call EXCEPT ![p] = NoCall]
    /\ since' = [since EXCEPT ![p] = {}]
    /\ UNCHANGED <<tableVars, contextVars, mutex, m_waitting_events_count, interest, todo, adds, fault, late>>

-----------------------------------------------------------------------------
(* triggerEvent() and the counter, with the mutex of the context held.     *)

\* The fiber is scheduled ...
Trigger(t) ==
    /\ At(t, "trigger")
    /\ LET x == Ctx(t)
           e == Head(todo[t])
       IN /\ e \in event[x]
          /\ event' = [event EXCEPT ![x] = @ \ {e}]
          /\ waiter' = [waiter EXCEPT ![x][e] = NoOne]
          /\ Unregistered(x, e)
          /\ pc' = [pc EXCEPT ![t] = "count", ![waiter[x][e]] = "run"]
    /\ UNCHANGED <<tableVars, mutex, m_waitting_events_count, interest, call, todo, adds, fault, late>>

\* ... unless the event is not registered: LON_ASSERT(event & this->event).
TriggerFails(t) ==
    /\ At(t, "trigger")
    /\ Head(todo[t]) \notin event[Ctx(t)]
    /\ fault' = TRUE
    /\ UNCHANGED <<tableVars, contextVars, mutex, m_waitting_events_count, interest, threadVars, adds, history>>

\* --m_waitting_events_count, and on to the next event or to the unlock.
Count(t) ==
    /\ At(t, "count")
    /\ m_waitting_events_count' = m_waitting_events_count - 1
    /\ todo' = [todo EXCEPT ![t] = Tail(@)]
    /\ IF Len(todo[t]) > 1
       THEN Goto(t, "trigger") /\ UNCHANGED <<mutex, call, since>>
       ELSE /\ mutex' = [mutex EXCEPT ![Ctx(t)] = NoOne]
            /\ call' = [call EXCEPT ![t] = NoCall]
            /\ since' = [since EXCEPT ![t] = {}]
            /\ Goto(t, Home(t))
    /\ UNCHANGED <<tableVars, contextVars, interest, adds, fault, late>>

-----------------------------------------------------------------------------
UserStep(u) ==
    \/ \E fd \in Fds, ev \in Events : AddFind(u, fd, ev)
    \/ AddGrow(u) \/ AddRegister(u) \/ AddRefused(u)
    \/ \E op \in Ops, fd \in Fds, ev \in Events : Find(u, op, fd, ev)
    \/ Del(u) \/ Cancel(u) \/ CancelAll(u) \/ CancelRefused(u)

PollerStep(p) ==
    \/ \E fd \in Fds, bits \in SUBSET Events, err \in BOOLEAN : Report(p, fd, bits, err)
    \/ Handle(p) \/ Skip(p)

TriggerStep(t) == Trigger(t) \/ TriggerFails(t) \/ Count(t)

Next ==
    \/ \E u \in Users : UserStep(u)
    \/ \E p \in Pollers : PollerStep(p)
    \/ \E t \in Threads : TriggerStep(t)

Spec == Init /\ [][Next]_vars

-----------------------------------------------------------------------------
(* Properties.                                                             *)

TypeOK ==
    /\ size \in Nat /\ made \in [Fds -> 0 .. MaxContexts]
    /\ m_fd_contexts \in [Fds -> 0 .. MaxContexts]
    /\ event \in [Contexts -> SUBSET Events]
    /\ waiter \in [Contexts -> [Events -> Users \cup {NoOne}]]
    /\ mutex \in [Contexts -> Threads \cup {NoOne}]
    /\ m_waitting_events_count \in Nat
    /\ interest \in [Fds -> [bits : SUBSET Events, ctx : Contexts \cup {NoContext}]]
    /\ pc \in [Threads -> PCs] /\ adds \in [Users -> 0 .. MaxAdds]
    /\ call \in [Threads -> [fd : Fds \cup {0}, ev : Events \cup {"READ"}, bits : SUBSET Events,
                             ctx : Contexts \cup {NoContext}, err : BOOLEAN]]
    /\ todo \in [Threads -> {<<>>, <<"READ">>, <<"WRITE">>, <<"READ", "WRITE">>}]
    /\ fault \in BOOLEAN /\ late \in BOOLEAN /\ since \in [Threads -> SUBSET Events]

Registered == {r \in Contexts \X Events : r[2] \in event[r[1]]}

\* The counter that IOScheduler::stopping() waits for is the number of
\* registered events, with the ones that were triggered a moment ago: it never
\* wraps around, and the scheduler never stops while a fiber still waits.
CountExact ==
    /\ TypeOK
    /\ m_waitting_events_count =
          Cardinality(Registered) + Cardinality({t \in Threads : pc[t] = "count"})

\* A fiber that waits is the waiter of exactly one registered event, and every
\* registered event has such a fiber: triggerEvent() schedules a fiber once for
\* each time it has registered, and forgets none.
WaitersHeld ==
    /\ \A u \in Users : pc[u] = "parked" =>
         \E r \in Registered : waiter[r[1]][r[2]] = u /\
           \A q \in Registered : waiter[q[1]][q[2]] = u => q = r
    /\ \A r \in Registered : waiter[r[1]][r[2]] \in Users /\ pc[waiter[r[1]][r[2]]] = "parked"

\* What is registered is watched by epoll under the right context, unless the
\* thread that holds its mutex is about to trigger it: no fiber waits for an
\* event that epoll will never report, also when the vector was cut under it.
\* And the calls that cancel it find it under its descriptor, as long as nobody
\* resized the vector for a descriptor that it already had room for: the look
\* that addEvent() does not repeat under the write lock (ioscheduler.cpp:121).
Watched ==
    \A r \in Registered :
      LET x == r[1]
      IN /\ \/ interest[x[1]].ctx = x /\ r[2] \in interest[x[1]].bits
            \/ mutex[x] # NoOne /\ \E i \in DOMAIN todo[mutex[x]] : todo[mutex[x]][i] = r[2]
         /\ ~ late => m_fd_contexts[x[1]] = x[2]

\* A thread is about to trigger an event that is not registered.
Failing(t) == pc[t] = "trigger" /\ Head(todo[t]) \notin event[Ctx(t)]

\* The assertions of addEvent() and triggerEvent() (ioscheduler.cpp:153, 492) fail
\* in one case only: a poller handles a report of READ and WRITE, or of an error
\* and one of them, after another thread has unregistered the event that it then
\* triggers.  No call that cancels ever fails.
FaultOnlyStale ==
    /\ \A t \in Threads : Failing(t) =>
          /\ t \in Pollers /\ (call[t].bits = Events \/ call[t].err)
          /\ Head(todo[t]) \in call[t].bits \cap since[t]
    /\ fault => \E t \in Threads : Failing(t)
=============================================================================
