------------------------------- MODULE TcpServer -------------------------------
(***************************************************************************)
(* The server of server/tcpserver.cpp: its user binds, starts and stops it *)
(* on a thread of his own, accept loops and the task that stop() queues    *)
(* run on the threads of the accept scheduler, clients on another one.     *)
(*                                                                         *)
(* A call of accept() is the hooked one of module HookIO: it fails, finds  *)
(* a connection, or registers the fiber for the number it was called with  *)
(* and gives the thread away.  Registering is a step of its own, and so is *)
(* each step of the stop task: cancelAll() of the server, and cancelAll(), *)
(* the removal from the table of descriptors and close_f() of the hooked   *)
(* close().  bind() takes one address; a call with several has the effect  *)
(* of several calls.  A call of the user is atomic, and he does not bind   *)
(* while the stop task walks through m_sockets.                            *)
(***************************************************************************)
EXTENDS Socket, Sequences

CONSTANTS
    Pools,       \* the sets of threads that the accept scheduler may have
    MaxStarts,   \* bound: calls of start() that start
    MaxBinds     \* bound: calls of bind()

ASSUME ServerAssumption ==
    /\ {} \notin Pools /\ \A P \in Pools : IsFiniteSet(P)
    /\ MaxStarts \in Nat /\ MaxBinds \in Nat /\ MaxObjects = MaxBinds + MaxPeers

VARIABLES
    pool,        \* the threads of the accept scheduler
    m_is_stop,
    m_sockets,
    queue,       \* the accept scheduler's tasks
    at,          \* what each thread is doing
    waiting,     \* the accept loop registered for READ of each number
    watched,     \* epoll: the numbers that it reports; one that is closed is dropped
    clients,     \* objects whose handleClient() is scheduled
    starts, binds,
    early,       \* history: start() or bind() came while a stop() was under way
    orphaned,    \* history: a failed bind() dropped sockets with a loop
    invalid,     \* history: a call was made with the number -1
    foreign,     \* history: the socket of another object was closed
    missed       \* history: a loop registered after close() had cancelled its number

serverVars == <<m_is_stop, m_sockets, queue, at, waiting, watched, clients, starts, binds>>
histVars == <<early, orphaned, invalid, foreign, missed>>
vars == <<pool, sockVars, serverVars, histVars>>

Threads == UNION Pools
Loop(o, fd) == [kind |-> "loop", obj |-> o, fd |-> fd]
StopTask == [kind |-> "stop", obj |-> 0, fd |-> 0]
Idle == [pc |-> "idle", obj |-> 0, fd |-> 0, left |-> {}]
NoLoop == Loop(0, 0)

Init ==
    /\ SocketInit
    /\ pool \in Pools
    /\ m_is_stop = TRUE /\ m_sockets = {}
    /\ queue = <<>> /\ at = [t \in Threads |-> Idle]
    /\ waiting = [n \in Numbers |-> NoLoop] /\ watched = {}
    /\ clients = {} /\ starts = 0 /\ binds = 0
    /\ early = FALSE /\ orphaned = FALSE /\ invalid = FALSE /\ foreign = FALSE
    /\ missed = FALSE

InQueue == {queue[i] : i \in 1 .. Len(queue)}
Looping(t) == at[t].pc \in {"check", "accept", "try", "pass", "add"}

\* The stop task runs on thread t.  It has cancelled the number of its object
\* for the last time; it has closed it.
Stopper(t) == at[t].pc \in {"stopping", "cancelled", "removing", "removed", "closed"}
Quiet(t, o) == at[t].pc \in {"removing", "removed", "closed"} /\ at[t].obj = o
StopPending == StopTask \in InQueue \/ \E t \in pool : Stopper(t)

\* The objects that accept loops keep alive.
Held == ({k.obj : k \in InQueue} \cup {at[t].obj : t \in {u \in pool : Looping(u)}}
            \cup {waiting[n].obj : n \in Numbers}) \ {0}

Goto(t, pc) == at' = [at EXCEPT ![t].pc = pc]
Tasks(objs) == CHOOSE s \in [1 .. Cardinality(objs) -> {Loop(o, 0) : o \in objs}] :
                  \A o \in objs : \E i \in DOMAIN s : s[i].obj = o

\* ~Socket(): the sockets of objects that nobody refers to any more.
Destroyed(objs) ==
    /\ m_sockfd' = [o \in Objects |-> IF o \in objs THEN -1 ELSE m_sockfd[o]]
    /\ m_is_connected' = [o \in Objects |-> o \notin objs /\ m_is_connected[o]]
    /\ owner' = [n \in Numbers |-> IF n \in {m_sockfd[o] : o \in objs} THEN 0 ELSE owner[n]]
    /\ listening' = listening \ {owner[n] : n \in {m_sockfd[o] : o \in objs} \cap Numbers}
    /\ foreign' = (foreign \/ \E o \in objs : IsValid(o) /\ owner[m_sockfd[o]] # o)
    /\ watched' = watched \ {m_sockfd[o] : o \in objs}
    /\ UNCHANGED <<backlog, objects, peers>>

-----------------------------------------------------------------------------
(* The user.                                                               *)

MayBind == binds < MaxBinds /\ objects < MaxObjects /\ binds' = binds + 1
              /\ \A t \in pool : ~ Stopper(t)

\* stop() was called, and its task or a loop it is to end is not done yet.
StopUnderWay == m_is_stop /\ (StopPending \/ Held # {})

\* bind() and listen() of a new socket succeed.
Bind(n) ==
    /\ MayBind
    /\ early' = (early \/ StopUnderWay)
    /\ LET o == objects + 1 IN
       /\ objects' = o /\ Opened(o, n)
       /\ listening' = listening \cup {o}
       /\ m_sockets' = m_sockets \cup {o}
    /\ UNCHANGED <<pool, m_is_connected, backlog, peers, m_is_stop, queue, at, waiting, watched,
                   clients, starts, orphaned, invalid, foreign, missed>>

\* One of them fails: all sockets of the server are dropped.
BindFails ==
    /\ MayBind
    /\ Destroyed(m_sockets \ Held)
    /\ m_sockets' = {}
    /\ orphaned' = (orphaned \/ m_sockets \cap Held # {})
    /\ early' = (early \/ StopUnderWay)
    /\ UNCHANGED <<pool, m_is_stop, queue, at, waiting, clients, starts, invalid, missed>>

Start ==
    /\ m_is_stop /\ starts < MaxStarts
    /\ m_is_stop' = FALSE /\ starts' = starts + 1
    /\ queue' = queue \o Tasks(m_sockets)
    /\ early' = (early \/ StopUnderWay)
    /\ UNCHANGED <<pool, sockVars, m_sockets, at, waiting, watched, clients, binds, orphaned,
                   invalid, foreign, missed>>

\* Mutant: only the flag is set, no task is queued.
StopFlagOnly ==
    /\ ~ m_is_stop /\ m_is_stop' = TRUE
    /\ UNCHANGED <<pool, sockVars, queue, m_sockets, at, waiting, watched, clients, starts, binds, histVars>>

Stop ==
    /\ ~ m_is_stop
    /\ m_is_stop' = TRUE
    /\ queue' = Append(queue, StopTask)
    /\ UNCHANGED <<pool, sockVars, m_sockets, at, waiting, watched, clients, starts, binds, histVars>>

-----------------------------------------------------------------------------
(* The accept scheduler.                                                   *)

\* A thread takes a task; a loop that waited goes on with its number.
TakeTask(t) ==
    /\ at[t].pc = "idle" /\ queue # <<>>
    /\ LET k == Head(queue) IN
       at' = [at EXCEPT ![t] =
                IF k.kind = "stop"
                THEN [Idle EXCEPT !.pc = "stopping", !.left = m_sockets]
                ELSE [Idle EXCEPT !.pc = IF k.fd = 0 THEN "check" ELSE "try",
                                  !.obj = k.obj, !.fd = k.fd]]
    /\ queue' = Tail(queue)
    /\ UNCHANGED <<pool, sockVars, m_is_stop, m_sockets, waiting, watched, clients, starts, binds,
                   histVars>>

\* while (!isStop()): when the loop ends its socket may lose its last owner.
CheckStop(t) ==
    /\ at[t].pc = "check"
    /\ \/ /\ ~ m_is_stop /\ Goto(t, "accept")
          /\ UNCHANGED <<sockVars, foreign, watched>>
       \/ /\ m_is_stop
          /\ at' = [at EXCEPT ![t] = Idle]
          /\ Destroyed({at[t].obj} \ (m_sockets \cup {k.obj : k \in InQueue}
                            \cup {at[u].obj : u \in {v \in pool \ {t} : Looping(v)}}
                            \cup {waiting[n].obj : n \in Numbers}))
    /\ UNCHANGED <<pool, m_is_stop, m_sockets, queue, waiting, clients, starts, binds, early,
                   orphaned, invalid, missed>>

\* Socket::accept() reads m_sockfd and calls accept(), which passes the call
\* on when the number is not in the table of descriptors any more.
CallAccept(t) ==
    /\ at[t].pc = "accept"
    /\ LET fd == m_sockfd[at[t].obj] IN
       IF fd = -1
       THEN Goto(t, "check") /\ invalid' = TRUE
       ELSE /\ at' = [at EXCEPT ![t].fd = fd, ![t].pc =
                        IF \E u \in pool : at[u].pc = "removed" /\ at[u].fd = fd THEN "pass" ELSE "try"]
            /\ UNCHANGED invalid
    /\ UNCHANGED <<pool, sockVars, m_is_stop, m_sockets, queue, waiting, watched, clients, starts,
                   binds, early, orphaned, foreign, missed>>

Trying(t) == at[t].pc \in {"try", "pass"}

\* A connection: its timeout is set and handleClient() scheduled.
AcceptClient(t, n) ==
    /\ Trying(t) /\ owner[at[t].fd] \in listening
    /\ AcceptInto(objects + 1, n, at[t].fd)
    /\ clients' = clients \cup {objects + 1}
    /\ Goto(t, "check")
    /\ UNCHANGED <<pool, m_is_stop, m_sockets, queue, waiting, watched, starts, binds, histVars>>

\* An error, or no connection for a call that was passed on.
AcceptError(t) ==
    /\ Trying(t)
    /\ AcceptFails(at[t].fd) \/ (at[t].pc = "pass" /\ WouldBlock(at[t].fd))
    /\ Goto(t, "check")
    /\ UNCHANGED <<pool, sockVars, m_is_stop, m_sockets, queue, waiting, watched, clients, starts,
                   binds, histVars>>

\* Mutant: EAGAIN is an error like the others, and the loop turns.
BlocksAsError(t) ==
    /\ at[t].pc = "try" /\ WouldBlock(at[t].fd)
    /\ Goto(t, "check")
    /\ UNCHANGED <<pool, sockVars, m_is_stop, m_sockets, queue, waiting, watched, clients, starts,
                   binds, histVars>>

\* No connection yet: EAGAIN.
AcceptBlocks(t) ==
    /\ at[t].pc = "try" /\ WouldBlock(at[t].fd)
    /\ Goto(t, "add")
    /\ UNCHANGED <<pool, sockVars, m_is_stop, m_sockets, queue, waiting, watched, clients, starts,
                   binds, histVars>>

\* addEvent() fails when the number is closed or another loop waits on it ...
AddFails(t) ==
    /\ at[t].pc = "add" /\ (owner[at[t].fd] = 0 \/ waiting[at[t].fd] # NoLoop)
    /\ Goto(t, "check")
    /\ UNCHANGED <<pool, sockVars, m_is_stop, m_sockets, queue, waiting, watched, clients, starts,
                   binds, histVars>>

\* ... and otherwise the loop waits.
AcceptWaits(t) ==
    /\ at[t].pc = "add" /\ owner[at[t].fd] # 0 /\ waiting[at[t].fd] = NoLoop
    /\ waiting' = [waiting EXCEPT ![at[t].fd] = Loop(at[t].obj, at[t].fd)]
    /\ watched' = watched \cup {at[t].fd}
    /\ missed' = (missed \/ m_sockfd[at[t].obj] # at[t].fd \/ \E u \in pool : Quiet(u, at[t].obj))
    /\ at' = [at EXCEPT ![t] = Idle]
    /\ UNCHANGED <<pool, sockVars, m_is_stop, m_sockets, queue, clients, starts, binds, early,
                   orphaned, invalid, foreign>>

\* The loop that waits on the number is scheduled again, when epoll still
\* watches it: of a number that was closed nobody wakes the loop.
Woken(n) ==
    IF n \in watched
    THEN /\ queue' = Append(queue, waiting[n])
         /\ waiting' = [waiting EXCEPT ![n] = NoLoop]
         /\ watched' = watched \ {n}
    ELSE UNCHANGED <<queue, waiting, watched>>

\* The event that wakes a loop: a connection, or what happens on a number that
\* has become the one of another socket.
Wake(n) ==
    /\ n \in watched /\ (owner[n] \in listening => backlog[owner[n]] > 0)
    /\ Woken(n)
    /\ UNCHANGED <<pool, sockVars, m_is_stop, m_sockets, at, clients, starts, binds, histVars>>

\* The stop task, for each socket: cancelAll() ...
StopCancels(t, o) ==
    /\ at[t].pc = "stopping" /\ o \in at[t].left
    /\ at' = [at EXCEPT ![t].pc = "cancelled", ![t].obj = o]
    /\ IF IsValid(o)
       THEN Woken(m_sockfd[o]) /\ UNCHANGED invalid
       ELSE invalid' = TRUE /\ UNCHANGED <<queue, waiting, watched>>
    /\ UNCHANGED <<pool, sockVars, m_is_stop, m_sockets, clients, starts, binds, early, orphaned,
                   foreign, missed>>

\* ... Socket::close(), which does nothing without a number, and otherwise has
\* the hooked close() cancel everything once more ...
CloseCancels(t) ==
    /\ at[t].pc = "cancelled"
    /\ IF IsValid(at[t].obj)
       THEN /\ Woken(m_sockfd[at[t].obj])
            /\ at' = [at EXCEPT ![t].pc = "removing", ![t].fd = m_sockfd[at[t].obj]]
       ELSE Goto(t, "closed") /\ UNCHANGED <<queue, waiting, watched>>
    /\ UNCHANGED <<pool, sockVars, m_is_stop, m_sockets, clients, starts, binds, histVars>>

\* ... remove the number from the table of descriptors ...
CloseRemoves(t) ==
    /\ at[t].pc = "removing" /\ Goto(t, "removed")
    /\ UNCHANGED <<pool, sockVars, m_is_stop, m_sockets, queue, waiting, watched, clients, starts,
                   binds, histVars>>

\* ... and close it: epoll drops it, whoever waits on it ...
CloseCloses(t) ==
    /\ at[t].pc = "removed" /\ Goto(t, "closed")
    /\ LET n == at[t].fd IN
       /\ owner' = [owner EXCEPT ![n] = 0]
       /\ listening' = listening \ {owner[n]}
       /\ watched' = watched \ {n}
       /\ foreign' = (foreign \/ owner[n] # at[t].obj)
    /\ UNCHANGED <<pool, m_sockfd, m_is_connected, backlog, objects, peers, m_is_stop, m_sockets,
                   queue, waiting, clients, starts, binds, early, orphaned, invalid, missed>>

\* Mutant: the number is kept.
StopKeepsNumber(t) ==
    /\ at[t].pc = "closed"
    /\ at' = [at EXCEPT ![t].pc = "stopping", ![t].left = @ \ {at[t].obj}, ![t].obj = 0, ![t].fd = 0]
    /\ UNCHANGED <<pool, sockVars, m_is_stop, m_sockets, queue, waiting, watched, clients, starts,
                   binds, histVars>>

\* ... and the number is forgotten.
StopForgets(t) ==
    /\ at[t].pc = "closed"
    /\ m_sockfd' = [m_sockfd EXCEPT ![at[t].obj] = -1]
    /\ m_is_connected' = [m_is_connected EXCEPT ![at[t].obj] = FALSE]
    /\ at' = [at EXCEPT ![t].pc = "stopping", ![t].left = @ \ {at[t].obj}, ![t].obj = 0, ![t].fd = 0]
    /\ UNCHANGED <<pool, owner, listening, backlog, objects, peers, m_is_stop, m_sockets, queue,
                   waiting, watched, clients, starts, binds, histVars>>

\* Mutant: the closed sockets stay in m_sockets.
StopClearsNothing(t) ==
    /\ at[t].pc = "stopping" /\ at[t].left = {}
    /\ at' = [at EXCEPT ![t] = Idle]
    /\ UNCHANGED <<pool, sockVars, m_is_stop, m_sockets, queue, waiting, watched, clients, starts,
                   binds, histVars>>

\* m_sockets.clear()
StopClears(t) ==
    /\ at[t].pc = "stopping" /\ at[t].left = {}
    /\ at' = [at EXCEPT ![t] = Idle]
    /\ Destroyed(m_sockets \ Held)
    /\ m_sockets' = {}
    /\ UNCHANGED <<pool, m_is_stop, queue, waiting, clients, starts, binds, early, orphaned,
                   invalid, missed>>

\* handleClient() returns, and nobody refers to the client any more.
HandleClient(o) ==
    /\ o \in clients /\ clients' = clients \ {o}
    /\ Destroyed({o})
    /\ UNCHANGED <<pool, m_is_stop, m_sockets, queue, at, waiting, starts, binds, early, orphaned,
                   invalid, missed>>

-----------------------------------------------------------------------------
ThreadStep(t) ==
    \/ TakeTask(t) \/ CheckStop(t) \/ CallAccept(t)
    \/ AcceptError(t) \/ AcceptBlocks(t) \/ AddFails(t) \/ AcceptWaits(t)
    \/ \E n \in Numbers : AcceptClient(t, n)
    \/ \E o \in Objects : StopCancels(t, o)
    \/ CloseCancels(t) \/ CloseRemoves(t) \/ CloseCloses(t) \/ StopForgets(t) \/ StopClears(t)

User == Start \/ Stop \/ BindFails \/ \E n \in Numbers : Bind(n)

Peer(o) == PeerConnects(o) /\ UNCHANGED <<pool, serverVars, histVars>>

Next ==
    \/ User
    \/ \E t \in pool : ThreadStep(t)
    \/ \E n \in Numbers : Wake(n)
    \/ \E o \in Objects : HandleClient(o) \/ Peer(o)

Spec == Init /\ [][Next]_vars

\* The threads of the schedulers go on, events are reported, handlers return.
FairSpec ==
    /\ Spec
    /\ \A t \in Threads : WF_vars(t \in pool /\ ThreadStep(t))
    /\ \A n \in Numbers : WF_vars(owner[n] \in listening /\ Wake(n))
    /\ \A o \in Objects : WF_vars(HandleClient(o))

-----------------------------------------------------------------------------
TypeOK ==
    /\ SocketTypeOK
    /\ pool \in Pools
    /\ m_is_stop \in BOOLEAN /\ m_sockets \subseteq Objects
    /\ \A k \in InQueue \cup {waiting[n] : n \in Numbers} :
          k \in [kind : {"loop", "stop"}, obj : 0 .. MaxObjects, fd : {0} \cup Numbers]
    /\ \A t \in Threads : at[t] \in [pc : {"idle", "check", "accept", "try", "pass", "add",
                                           "stopping", "cancelled", "removing", "removed", "closed"},
                                     obj : 0 .. MaxObjects, fd : {0} \cup Numbers,
                                     left : SUBSET Objects]
    /\ clients \subseteq Objects /\ watched \subseteq Numbers

\* With one accept thread no loop calls accept() on an object that has lost
\* its number, and no stop task cancels one twice: the number -1 would index
\* the descriptor table (tcpserver.cpp:90, fd.cpp:176).  Two threads, or a
\* start() while a stop() is under way, get there.
NumbersValid == Cardinality(pool) = 1 /\ ~ early => ~ invalid

\* However loops, the stop task, handlers and bind() interleave, a number is
\* closed only for the object it was opened for (socket.cpp:267).  A loop that
\* waits does so on the listening socket of its own object, and epoll watches
\* it, unless the loop registered after the hooked close() had cancelled its
\* number for the last time (hook.cpp:797) and so waits for ever: that takes
\* two accept threads.  A start() or bind() while a stop() is under way breaks it.
NumbersOwned ==
    /\ TypeOK
    /\ ~ early =>
          /\ ~ foreign
          /\ missed => Cardinality(pool) > 1
          /\ ~ missed => \A n \in Numbers : waiting[n] # NoLoop =>
                owner[n] = waiting[n].obj /\ m_sockfd[waiting[n].obj] = n /\ n \in watched

\* After stop() all accept loops come to an end (tcpserver.cpp:118): the ones
\* that wait are woken, the others see the flag.  The one exception is a loop
\* of another thread that registers between the last cancelAll() and close_f().
StopEndsLoops ==
    [](~ early /\ ~ orphaned /\ ~ missed) => (m_is_stop ~> (Held = {} \/ ~ m_is_stop))

\* While the server runs, a connection that a peer asked for is accepted: the
\* loops of other sockets do not keep it from the thread (tcpserver.cpp:118).
\* A loop that finds no free number turns without giving the thread away.
ConnectionsServed ==
    [](~ early /\ ~ orphaned /\ ~ missed) /\ <>[](FreeNumbers # {}) =>
        \A o \in Objects :
            (~ m_is_stop /\ o \in Held /\ backlog[o] > 0) ~> (m_is_stop \/ backlog[o] = 0)
=============================================================================
