----------------------------- MODULE ServerProofs -----------------------------
(***************************************************************************)
(* Proofs about TcpServer, for any number of accept threads, numbers,      *)
(* sockets and connections.                                                *)
(***************************************************************************)
EXTENDS TcpServer, FiniteSetTheorems, TLAPS

TaskTypes == [kind : {"loop", "stop"}, obj : 0 .. MaxObjects, fd : {0} \cup Numbers]
Places == {"idle", "check", "accept", "try", "pass", "add", "stopping", "cancelled", "removing", "removed", "closed"}
Acts == [pc : Places, obj : 0 .. MaxObjects, fd : {0} \cup Numbers, left : SUBSET Objects]

\* The places where a loop uses its number, and the stop task is with an object that
\* it has not closed yet, or no longer cancels.
Using == {"try", "pass", "add"}
Busy == {"cancelled", "removing", "removed"}
Shutting == {"removing", "removed"}

\* The stop task has closed the socket of the object.
Closing(t, o) == at[t].pc = "closed" /\ at[t].obj = o

\* Types; the history variables are flags.
StateInv ==
    /\ SocketTypeOK /\ pool \in Pools
    /\ m_is_stop \in BOOLEAN /\ m_sockets \subseteq Objects /\ clients \subseteq Objects
    /\ early \in BOOLEAN /\ orphaned \in BOOLEAN /\ invalid \in BOOLEAN /\ foreign \in BOOLEAN /\ missed \in BOOLEAN
    /\ \A o \in Objects : backlog[o] <= peers

\* The tasks, the waiting loops and the threads that run one are well formed.
TaskInv ==
    /\ queue \in Seq(TaskTypes) /\ at \in [Threads -> Acts] /\ waiting \in [Numbers -> TaskTypes]
    /\ \A k \in InQueue : k = StopTask \/ (k.kind = "loop" /\ k.obj \in Objects)
    /\ \A n \in Numbers :
          \/ waiting[n] = NoLoop
          \/ waiting[n].kind = "loop" /\ waiting[n].obj \in Objects /\ waiting[n].fd = n
    /\ watched \subseteq Numbers /\ \A n \in watched : waiting[n] # NoLoop
    /\ \A t \in Threads : /\ Looping(t) \/ at[t].pc \in Busy \cup {"closed"} => at[t].obj \in Objects
                          /\ at[t].pc \in Using \cup Shutting => at[t].fd \in Numbers

TypeInv == StateInv /\ TaskInv

\* Objects are made one after the other; a client is not a socket of the server.
BirthInv ==
    /\ m_sockets \cup clients \cup listening \cup Held \subseteq 1 .. objects
    /\ \A n \in Numbers : owner[n] <= objects
    /\ \A o \in Objects : o > objects => ~ IsValid(o)
    /\ clients \cap (m_sockets \cup Held) = {}

\* At most one stop task is under way, and only after stop().
StopInv ==
    /\ StopPending => m_is_stop
    /\ \A i, j \in 1 .. Len(queue) : queue[i] = StopTask /\ queue[j] = StopTask => i = j
    /\ StopTask \in InQueue => \A t \in pool : ~ Stopper(t)
    /\ \A t, u \in pool : Stopper(t) /\ Stopper(u) => t = u

\* Who has a number is the object it was opened for, unless the stop task has
\* just closed it.
OwnInv ==
    /\ \A o \in Objects : IsValid(o) => owner[m_sockfd[o]] = o \/ \E t \in pool : Closing(t, o)
    /\ \A n \in Numbers : owner[n] # 0 => m_sockfd[owner[n]] = n
    /\ \A t \in pool, o \in Objects : Closing(t, o) =>
          /\ o \in m_sockets /\ \A m \in Numbers : owner[m] # o
          /\ IsValid(o) => owner[m_sockfd[o]] \notin listening
    /\ \A t \in pool : Stopper(t) => at[t].left \subseteq m_sockets
    /\ ~ foreign

\* The stop task is with an object that it has still to forget, and with its number.
BusyInv == \A t \in pool : at[t].pc \in Busy =>
    /\ at[t].obj \in at[t].left
    /\ at[t].pc \in Shutting => m_sockfd[at[t].obj] = at[t].fd

\* The number with which a loop calls accept() is the one of its object, or
\* stands for no listening socket until all loops have ended.
Serves(o, n) == (owner[n] = o /\ m_sockfd[o] = n) \/ (m_is_stop /\ owner[n] \notin listening)
LoopInv ==
    /\ \A k \in InQueue : k.fd # 0 => Serves(k.obj, k.fd)
    /\ \A t \in pool : at[t].pc \in Using => Serves(at[t].obj, at[t].fd)
    /\ \A n \in Numbers : waiting[n] # NoLoop => Serves(waiting[n].obj, n)

\* Unless a loop has registered too late, the ones that wait do so on their own number,
\* epoll watches it, and none waits on a number that is about to be closed.
WaitInv == ~ missed =>
    /\ \A n \in Numbers : waiting[n] # NoLoop =>
          owner[n] = waiting[n].obj /\ m_sockfd[waiting[n].obj] = n /\ n \in watched
    /\ \A t \in pool : at[t].pc \in Shutting => waiting[at[t].fd] = NoLoop

\* One thread registers the loop as soon as it has found no connection.
OneInv == Cardinality(pool) = 1 =>
    /\ ~ missed
    /\ \A t \in pool : at[t].pc = "add" => owner[at[t].fd] = at[t].obj /\ m_sockfd[at[t].obj] = at[t].fd

\* Sockets lose their numbers only while the stop task runs.
ValidInv ==
    /\ (\A t \in pool : ~ Stopper(t)) => \A o \in m_sockets : IsValid(o)
    /\ \A t \in pool : Stopper(t) => \A o \in at[t].left : Closing(t, o) \/ IsValid(o)
    /\ ~ m_is_stop => \A o \in Held : IsValid(o)
    /\ Cardinality(pool) = 1 => ~ invalid /\ \A t \in pool : at[t].pc = "accept" => IsValid(at[t].obj)

ServerInv == ~ early => StopInv /\ OwnInv /\ BusyInv /\ LoopInv /\ WaitInv /\ OneInv /\ ValidInv

Once(q) == \A i, j \in 1 .. Len(q) : q[i] = StopTask /\ q[j] = StopTask => i = j
Elements(q) == {q[i] : i \in 1 .. Len(q)}

-----------------------------------------------------------------------------
(* The queue.                                                              *)

\* What a task that is appended does to the queue.
LEMMA QueueAppend ==
    ASSUME NEW S, NEW q \in Seq(S), NEW k \in S
    PROVE  /\ Append(q, k) \in Seq(S) /\ Elements(Append(q, k)) = Elements(q) \cup {k}
           /\ Once(q) /\ (k # StopTask \/ StopTask \notin Elements(q)) => Once(Append(q, k))
<1>1. Append(q, k) \in Seq(S) /\ Len(Append(q, k)) = Len(q) + 1 /\ Len(q) \in Nat
      /\ Append(q, k)[Len(q) + 1] = k /\ \A i \in 1 .. Len(q) : Append(q, k)[i] = q[i]
  OBVIOUS
<1>2. \A i \in 1 .. Len(q) + 1 : i \in 1 .. Len(q) \/ i = Len(q) + 1
  BY <1>1
<1>3. 1 .. Len(q) \subseteq 1 .. Len(q) + 1 /\ Len(q) + 1 \in 1 .. Len(q) + 1
  BY <1>1
<1>4. Elements(Append(q, k)) = Elements(q) \cup {k}
  BY <1>1, <1>2, <1>3 DEF Elements
<1>5. ASSUME Once(q), k # StopTask \/ StopTask \notin Elements(q) PROVE Once(Append(q, k))
  BY <1>1, <1>2, <1>5 DEF Once, Elements
<1> QED
  BY <1>1, <1>4, <1>5

\* What is left when the first task is taken.
LEMMA QueueTail ==
    ASSUME NEW S, NEW q \in Seq(S), q # <<>>
    PROVE  /\ Tail(q) \in Seq(S) /\ Head(q) \in S
           /\ Elements(q) = Elements(Tail(q)) \cup {Head(q)}
           /\ Once(q) => Once(Tail(q)) /\ (Head(q) = StopTask => StopTask \notin Elements(Tail(q)))
<1>1. Tail(q) \in Seq(S) /\ Len(q) \in Nat \ {0} /\ Len(Tail(q)) = Len(q) - 1 /\ Head(q) = q[1]
      /\ \A i \in 1 .. Len(q) - 1 : Tail(q)[i] = q[i + 1]
  OBVIOUS
<1>2. \A i \in 1 .. Len(q) - 1 : i + 1 \in 1 .. Len(q) /\ i + 1 # 1
  BY <1>1
<1>3. \A i \in 1 .. Len(q) : i = 1 \/ (i - 1 \in 1 .. Len(q) - 1 /\ (i - 1) + 1 = i)
  BY <1>1
<1>4. 1 \in 1 .. Len(q) /\ \A i, j \in 1 .. Len(q) - 1 : i + 1 = j + 1 => i = j
  BY <1>1
<1>5. Elements(q) = Elements(Tail(q)) \cup {Head(q)}
  BY <1>1, <1>2, <1>3, <1>4, SMTT(30) DEF Elements
<1>6. ASSUME Once(q)
      PROVE  Once(Tail(q)) /\ (Head(q) = StopTask => StopTask \notin Elements(Tail(q)))
  BY <1>1, <1>2, <1>4, <1>6 DEF Once, Elements
<1>7. Head(q) \in S
  BY <1>1, <1>4
<1> QED
  BY <1>1, <1>5, <1>6, <1>7

\* The tasks of start(): a loop with no number yet, for each of the objects.
LEMMA TasksAreLoops ==
    ASSUME NEW objs \in SUBSET Objects
    PROVE  Tasks(objs) \in Seq({Loop(o, 0) : o \in objs})
<1> DEFINE L == {Loop(o, 0) : o \in objs}
<1>1. IsFiniteSet(Objects)
  BY SocketAssumption, FS_Interval DEF Objects
<1>2. IsFiniteSet(objs)
  BY <1>1, FS_Subset
<1>3. Cardinality(objs) \in Nat
  BY <1>2, FS_CardinalityType
<1>4. PICK f \in [1 .. Cardinality(objs) -> objs] : \A o \in objs : \E i \in 1 .. Cardinality(objs) : f[i] = o
  BY <1>2, <1>3, FS_NatBijection, FS_CountingElements, SMTT(30) DEF Bijection, Surjection, ExistsBijection
<1> DEFINE s == [i \in 1 .. Cardinality(objs) |-> Loop(f[i], 0)]
<1>5. s \in [1 .. Cardinality(objs) -> L] /\ \A o \in objs : \E i \in DOMAIN s : s[i].obj = o
  BY <1>4 DEF Loop
<1>6. Tasks(objs) \in [1 .. Cardinality(objs) -> L]
  BY <1>5 DEF Tasks
<1> QED
  BY <1>3, <1>6

\* What start() adds to the queue.
LEMMA QueueStart ==
    ASSUME NEW S, NEW q \in Seq(S), NEW objs \in SUBSET Objects, \A o \in objs : Loop(o, 0) \in S
    PROVE  /\ q \o Tasks(objs) \in Seq(S)
           /\ \A k \in Elements(q \o Tasks(objs)) : k \in Elements(q) \/ \E o \in objs : k = Loop(o, 0)
           /\ Once(q) => Once(q \o Tasks(objs))
<1> DEFINE s == Tasks(objs)
<1>1. s \in Seq({Loop(o, 0) : o \in objs})
  BY TasksAreLoops
<1>2. s \in Seq(S) /\ Len(s) \in Nat /\ \A i \in 1 .. Len(s) : \E o \in objs : s[i] = Loop(o, 0)
  BY <1>1
<1> HIDE DEF s
<1>3. q \o s \in Seq(S) /\ Len(q) \in Nat /\ Len(q \o s) = Len(q) + Len(s)
  BY <1>2
<1>4. \A i \in 1 .. Len(q \o s) :
         (i \in 1 .. Len(q) /\ (q \o s)[i] = q[i])
            \/ (i - Len(q) \in 1 .. Len(s) /\ (q \o s)[i] = s[i - Len(q)])
  BY <1>2, <1>3
<1>5. \A o : Loop(o, 0) # StopTask
  BY DEF Loop, StopTask
<1>6. \A i \in 1 .. Len(q \o s) :
         (i \in 1 .. Len(q) /\ (q \o s)[i] = q[i]) \/ \E o \in objs : (q \o s)[i] = Loop(o, 0)
  BY <1>2, <1>4
<1>7. \A k \in Elements(q \o s) : k \in Elements(q) \/ \E o \in objs : k = Loop(o, 0)
  BY <1>6 DEF Elements
<1>8. Once(q) => Once(q \o s)
  BY <1>5, <1>6 DEF Once
<1> QED
  BY <1>3, <1>7, <1>8 DEF s

-----------------------------------------------------------------------------
(* What the steps of a thread do to its place.                             *)

Moved(t) == at' \in [Threads -> Acts] /\ \A u \in Threads \ {t} : at'[u] = at[u]

LEMMA LoopIs ==
    ASSUME NEW o \in 0 .. MaxObjects, NEW n \in {0} \cup Numbers
    PROVE  Loop(o, n) \in TaskTypes /\ Loop(o, n).kind = "loop" /\ Loop(o, n).obj = o /\ Loop(o, n).fd = n
BY DEF TaskTypes, Loop

LEMMA Plain ==
    /\ StopTask \in TaskTypes /\ NoLoop \in TaskTypes /\ NoLoop # StopTask
    /\ \A o, n : Loop(o, n) # StopTask
    /\ StopTask.kind = "stop" /\ StopTask.obj = 0 /\ StopTask.fd = 0
    /\ NoLoop.kind = "loop" /\ NoLoop.obj = 0 /\ NoLoop.fd = 0
    /\ Idle \in Acts /\ Idle.pc = "idle" /\ Idle.obj = 0 /\ Idle.left = {}
    /\ 0 \in 0 .. MaxObjects /\ Objects \subseteq 0 .. MaxObjects
    /\ 0 \notin Objects /\ 0 \notin Numbers /\ -1 \notin Numbers
<1>1. 0 \in 0 .. MaxObjects /\ Objects \subseteq 0 .. MaxObjects /\ 0 \notin Objects
      /\ 0 \notin Numbers /\ -1 \notin Numbers
  BY SocketAssumption DEF Objects
<1> QED
  BY <1>1 DEF TaskTypes, Acts, Places, StopTask, NoLoop, Loop, Idle

LEMMA Place ==
    ASSUME at \in [Threads -> Acts], NEW t \in Threads, NEW a \in Acts, at' = [at EXCEPT ![t] = a]
    PROVE  Moved(t) /\ at'[t] = a
BY DEF Moved

LEMMA PoolThreads == ASSUME TypeInv PROVE pool \subseteq Threads
BY DEF TypeInv, StateInv, TaskInv, Threads

LEMMA GotoMoves ==
    ASSUME TypeInv, NEW t \in pool, NEW p \in Places, Goto(t, p)
    PROVE  Moved(t) /\ at'[t].pc = p /\ at'[t].obj = at[t].obj /\ at'[t].fd = at[t].fd /\ at'[t].left = at[t].left
<1>1. t \in Threads
  BY PoolThreads
<1>2. at \in [Threads -> Acts]
  BY DEF TypeInv, StateInv, TaskInv
<1> DEFINE a == [at[t] EXCEPT !.pc = p]
<1>3. a \in Acts /\ a.pc = p /\ a.obj = at[t].obj /\ a.fd = at[t].fd /\ a.left = at[t].left
  BY <1>1, <1>2 DEF Acts, Places
<1>4. at' = [at EXCEPT ![t] = a]
  BY DEF Goto
<1> HIDE DEF a
<1> QED
  BY <1>1, <1>2, <1>3, <1>4, Place

\* An idle thread takes the first task.
LEMMA TakeMoves ==
    ASSUME TypeInv, NEW t \in pool, TakeTask(t)
    PROVE  /\ Moved(t) /\ Head(queue) \in InQueue
           /\ Head(queue) = StopTask =>
                at'[t].pc = "stopping" /\ at'[t].obj = 0 /\ at'[t].left = m_sockets
           /\ Head(queue) # StopTask =>
                /\ Head(queue).kind = "loop" /\ Head(queue).obj \in Objects
                /\ at'[t].obj = Head(queue).obj /\ at'[t].fd = Head(queue).fd /\ at'[t].left = {}
                /\ Head(queue).fd = 0 => at'[t].pc = "check"
                /\ Head(queue).fd # 0 => at'[t].pc = "try"
<1>1. t \in Threads
  BY PoolThreads
<1>2. at \in [Threads -> Acts] /\ m_sockets \in SUBSET Objects
  BY DEF TypeInv, StateInv, TaskInv
<1> DEFINE k == Head(queue)
           a == IF k.kind = "stop" THEN [Idle EXCEPT !.pc = "stopping", !.left = m_sockets]
                ELSE [Idle EXCEPT !.pc = IF k.fd = 0 THEN "check" ELSE "try", !.obj = k.obj, !.fd = k.fd]
<1>3. k \in TaskTypes /\ k \in InQueue
  BY QueueTail DEF TakeTask, TypeInv, StateInv, TaskInv, InQueue, Elements
<1>4. k = StopTask \/ (k # StopTask /\ k.kind = "loop" /\ k.obj \in Objects)
  BY <1>3, Plain DEF TypeInv, StateInv, TaskInv
<1>5. at' = [at EXCEPT ![t] = a]
  BY DEF TakeTask
<1> HIDE DEF k
<1>6. CASE k = StopTask
  <2>1. a = [pc |-> "stopping", obj |-> 0, fd |-> 0, left |-> m_sockets]
    BY <1>6, Plain DEF Idle
  <2>2. a \in Acts /\ a.pc = "stopping" /\ a.obj = 0 /\ a.left = m_sockets
    <3>1. 0 \in 0 .. MaxObjects
      BY Plain
    <3> QED
      BY <2>1, <1>2, <3>1 DEF Acts, Places
  <2> HIDE DEF a
  <2> QED
    BY <1>1, <1>2, <1>3, <1>5, <1>6, <2>2, Place DEF k
<1>7. CASE k # StopTask
  <2>1. a = [pc |-> IF k.fd = 0 THEN "check" ELSE "try", obj |-> k.obj, fd |-> k.fd, left |-> {}]
    BY <1>4, <1>7 DEF Idle
  <2>2. k.obj \in 0 .. MaxObjects /\ k.fd \in {0} \cup Numbers
    BY <1>3 DEF TaskTypes
  <2>3. a \in Acts /\ a.obj = k.obj /\ a.fd = k.fd /\ a.left = {}
        /\ (k.fd = 0 => a.pc = "check") /\ (k.fd # 0 => a.pc = "try")
    BY <2>1, <2>2 DEF Acts, Places
  <2> HIDE DEF a
  <2> QED
    BY <1>1, <1>2, <1>3, <1>4, <1>5, <1>7, <2>3, Place DEF k
<1> QED
  BY <1>6, <1>7

LEMMA IdleMoves ==
    ASSUME TypeInv, NEW t \in pool, at' = [at EXCEPT ![t] = Idle]
    PROVE  Moved(t) /\ at'[t].pc = "idle" /\ at'[t].obj = 0 /\ at'[t].left = {}
BY PoolThreads, Plain, Place DEF TypeInv, StateInv, TaskInv

LEMMA CallMoves ==
    ASSUME TypeInv, NEW t \in pool, CallAccept(t)
    PROVE  /\ Moved(t) /\ at'[t].obj = at[t].obj /\ at[t].obj \in Objects
           /\ \/ m_sockfd[at[t].obj] = -1 /\ at'[t].pc = "check" /\ invalid' = TRUE
              \/ /\ m_sockfd[at[t].obj] \in Numbers /\ at'[t].pc \in {"try", "pass"}
                 /\ at'[t].fd = m_sockfd[at[t].obj] /\ invalid' = invalid
<1>1. t \in Threads /\ at \in [Threads -> Acts]
  BY PoolThreads DEF TypeInv, StateInv, TaskInv
<1>2. at[t].obj \in Objects /\ m_sockfd[at[t].obj] \in Numbers \cup {-1}
  BY <1>1 DEF CallAccept, TypeInv, StateInv, TaskInv, Looping, SocketTypeOK
<1>3. CASE m_sockfd[at[t].obj] = -1
  BY <1>2, <1>3, GotoMoves DEF CallAccept, Places
<1>4. CASE m_sockfd[at[t].obj] # -1
  <2>0. PICK l \in {"try", "pass"} : /\ at' = [at EXCEPT ![t].fd = m_sockfd[at[t].obj], ![t].pc = l]
                                    /\ invalid' = invalid
    BY <1>4 DEF CallAccept
  <2> DEFINE a == [at[t] EXCEPT !.pc = l, !.fd = m_sockfd[at[t].obj]]
  <2>1. a \in Acts /\ a.pc = l /\ a.obj = at[t].obj /\ a.fd = m_sockfd[at[t].obj]
    BY <1>1, <1>2, <1>4 DEF Acts, Places
  <2>2. at' = [at EXCEPT ![t] = a]
    BY <1>1, <2>0
  <2> HIDE DEF a
  <2> QED
    BY <1>1, <1>2, <1>4, <2>0, <2>1, <2>2, Place
<1> QED
  BY <1>3, <1>4

LEMMA CancelMoves ==
    ASSUME TypeInv, NEW t \in pool, NEW o \in Objects, StopCancels(t, o)
    PROVE  Moved(t) /\ at'[t].pc = "cancelled" /\ at'[t].obj = o /\ at'[t].left = at[t].left
<1>1. t \in Threads /\ at \in [Threads -> Acts]
  BY PoolThreads DEF TypeInv, StateInv, TaskInv
<1> DEFINE a == [at[t] EXCEPT !.pc = "cancelled", !.obj = o]
<1>2. a \in Acts /\ a.pc = "cancelled" /\ a.obj = o /\ a.left = at[t].left
  <2>1. o \in 0 .. MaxObjects
    BY Plain
  <2> QED
    BY <1>1, <2>1 DEF Acts, Places
<1>3. at' = [at EXCEPT ![t] = a]
  BY <1>1 DEF StopCancels
<1> HIDE DEF a
<1> QED
  BY <1>1, <1>2, <1>3, Place

LEMMA SecondMoves ==
    ASSUME TypeInv, NEW t \in pool, CloseCancels(t)
    PROVE  /\ Moved(t) /\ at'[t].obj = at[t].obj /\ at'[t].left = at[t].left /\ at[t].obj \in Objects
           /\ IF IsValid(at[t].obj)
              THEN at'[t].pc = "removing" /\ at'[t].fd = m_sockfd[at[t].obj] /\ at'[t].fd \in Numbers
              ELSE at'[t].pc = "closed"
<1>1. t \in Threads /\ at \in [Threads -> Acts]
  BY PoolThreads DEF TypeInv, StateInv, TaskInv
<1>2. at[t].obj \in Objects /\ m_sockfd[at[t].obj] \in Numbers \cup {-1}
  BY <1>1 DEF CloseCancels, TypeInv, StateInv, TaskInv, Busy, SocketTypeOK
<1>3. CASE ~ IsValid(at[t].obj)
  BY <1>2, <1>3, GotoMoves DEF CloseCancels, Places
<1>4. CASE IsValid(at[t].obj)
  <2> DEFINE a == [at[t] EXCEPT !.pc = "removing", !.fd = m_sockfd[at[t].obj]]
  <2>1. a \in Acts /\ a.pc = "removing" /\ a.obj = at[t].obj /\ a.left = at[t].left
        /\ a.fd = m_sockfd[at[t].obj] /\ a.fd \in Numbers
    BY <1>1, <1>2, <1>4 DEF Acts, Places, IsValid
  <2>2. at' = [at EXCEPT ![t] = a]
    BY <1>1, <1>4 DEF CloseCancels
  <2> HIDE DEF a
  <2> QED
    BY <1>1, <1>2, <1>4, <2>1, <2>2, Place
<1> QED
  BY <1>3, <1>4

\* The steps of a thread that only go on to another place.
LEMMA PlainMoves ==
    ASSUME TypeInv, NEW t \in pool
    PROVE  /\ AcceptError(t) \/ AddFails(t) \/ (\E n \in Numbers : AcceptClient(t, n)) =>
                Moved(t) /\ at'[t].pc = "check" /\ at'[t].obj = at[t].obj
           /\ AcceptBlocks(t) => Moved(t) /\ at'[t].pc = "add" /\ at'[t].obj = at[t].obj /\ at'[t].fd = at[t].fd
           /\ CloseRemoves(t) => Moved(t) /\ at'[t].pc = "removed" /\ at'[t].obj = at[t].obj
                                   /\ at'[t].fd = at[t].fd /\ at'[t].left = at[t].left
           /\ CloseCloses(t) => Moved(t) /\ at'[t].pc = "closed" /\ at'[t].obj = at[t].obj /\ at'[t].left = at[t].left
BY GotoMoves DEF AcceptError, AddFails, AcceptClient, AcceptBlocks, CloseRemoves, CloseCloses, Places

LEMMA ForgetMoves ==
    ASSUME TypeInv, NEW t \in pool, StopForgets(t)
    PROVE  Moved(t) /\ at'[t].pc = "stopping" /\ at'[t].obj = 0 /\ at'[t].left = at[t].left \ {at[t].obj}
<1>1. t \in Threads /\ at \in [Threads -> Acts]
  BY PoolThreads DEF TypeInv, StateInv, TaskInv
<1> DEFINE a == [at[t] EXCEPT !.pc = "stopping", !.left = at[t].left \ {at[t].obj}, !.obj = 0, !.fd = 0]
<1>2. a \in Acts /\ a.pc = "stopping" /\ a.obj = 0 /\ a.left = at[t].left \ {at[t].obj}
  <2>1. 0 \in 0 .. MaxObjects
    BY Plain
  <2> QED
    BY <1>1, <2>1 DEF Acts, Places
<1>3. at' = [at EXCEPT ![t] = a]
  BY <1>1 DEF StopForgets
<1> HIDE DEF a
<1> QED
  BY <1>1, <1>2, <1>3, Place

\* Where the tasks of the queue come from.
LEMMA QueueIs == InQueue = Elements(queue) /\ InQueue' = Elements(queue')
BY DEF InQueue, Elements

LEMMA StartQueues ==
    ASSUME TypeInv, Start
    PROVE  /\ queue' \in Seq(TaskTypes) /\ (Once(queue) => Once(queue'))
           /\ \A k \in InQueue' : k \in InQueue \/ \E o \in m_sockets : k = Loop(o, 0)
<1>1. m_sockets \in SUBSET Objects /\ queue \in Seq(TaskTypes)
  BY DEF TypeInv, StateInv, TaskInv
<1>2. \A o \in m_sockets : Loop(o, 0) \in TaskTypes
  BY <1>1, LoopIs, Plain
<1>3. queue' = queue \o Tasks(m_sockets)
  BY DEF Start
<1> QED
  BY <1>1, <1>2, <1>3, QueueStart, QueueIs

LEMMA StopQueues ==
    ASSUME TypeInv, Stop
    PROVE  /\ queue' \in Seq(TaskTypes) /\ InQueue' = InQueue \cup {StopTask}
           /\ Once(queue) /\ StopTask \notin InQueue => Once(queue')
<1>1. queue' = Append(queue, StopTask) /\ queue \in Seq(TaskTypes)
  BY DEF Stop, TypeInv, TaskInv
<1> QED
  BY <1>1, QueueIs, QueueAppend, Plain

LEMMA TakeQueues ==
    ASSUME TypeInv, NEW t \in pool, TakeTask(t)
    PROVE  /\ queue' \in Seq(TaskTypes) /\ InQueue = InQueue' \cup {Head(queue)}
           /\ Once(queue) => Once(queue') /\ (Head(queue) = StopTask => StopTask \notin InQueue')
<1>1. queue' = Tail(queue) /\ queue # <<>> /\ queue \in Seq(TaskTypes)
  BY DEF TakeTask, TypeInv, TaskInv
<1> QED
  BY <1>1, QueueIs, QueueTail

LEMMA WaitingIs == ASSUME TypeInv, NEW n \in Numbers PROVE waiting[n] \in TaskTypes /\ waiting[n] # StopTask
BY Plain DEF TypeInv, TaskInv

\* What a wake-up does to the tasks.
Wakes(n) ==
    /\ queue' \in Seq(TaskTypes) /\ (Once(queue) => Once(queue'))
    /\ \A k \in InQueue' : k \in InQueue \/ (waiting[n] # NoLoop /\ k = waiting[n])
    /\ waiting' \in [Numbers -> TaskTypes] /\ watched' \subseteq watched
    /\ \A m \in Numbers : waiting'[m] = waiting[m] \/ (m = n /\ waiting'[m] = NoLoop)
    /\ \A m \in Numbers : waiting'[m] # NoLoop /\ m \in watched => m \in watched'
    /\ \A m \in watched' : waiting'[m] # NoLoop
    /\ n \in watched => waiting'[n] = NoLoop

LEMMA WokenIs == ASSUME TypeInv, NEW n \in Numbers, Woken(n) PROVE Wakes(n)
<1>1. /\ queue \in Seq(TaskTypes) /\ waiting \in [Numbers -> TaskTypes] /\ watched \subseteq Numbers
      /\ \A m \in watched : waiting[m] # NoLoop
  BY DEF TypeInv, TaskInv
<1>2. CASE n \in watched
  <2>1. queue' = Append(queue, waiting[n]) /\ waiting' = [waiting EXCEPT ![n] = NoLoop] /\ watched' = watched \ {n}
    BY <1>2 DEF Woken
  <2>2. queue' \in Seq(TaskTypes) /\ (Once(queue) => Once(queue')) /\ InQueue' = InQueue \cup {waiting[n]}
    BY <1>1, <2>1, WaitingIs, QueueIs, QueueAppend
  <2> QED
    BY <1>1, <1>2, <2>1, <2>2, Plain DEF Wakes
<1>3. CASE n \notin watched
  <2>1. UNCHANGED <<queue, waiting, watched>>
    BY <1>3 DEF Woken
  <2>2. InQueue' = InQueue
    BY <2>1, QueueIs
  <2> QED
    BY <1>1, <1>3, <2>1, <2>2 DEF Wakes
<1> QED
  BY <1>2, <1>3

\* cancelAll() of the stop task, and the one of close().
LEMMA CancelWakes ==
    ASSUME TypeInv, NEW t \in pool, (\E o \in Objects : StopCancels(t, o)) \/ CloseCancels(t)
    PROVE  UNCHANGED <<queue, waiting, watched>> \/ \E n \in Numbers : Wakes(n)
<1>1. t \in Threads /\ m_sockfd \in [Objects -> Numbers \cup {-1}]
  BY PoolThreads DEF TypeInv, StateInv, SocketTypeOK
<1>2. CloseCancels(t) => at[t].obj \in Objects
  BY <1>1 DEF CloseCancels, TypeInv, TaskInv, Busy
<1>3. UNCHANGED <<queue, waiting, watched>> \/ \E n \in Numbers : Woken(n)
  BY <1>1, <1>2 DEF StopCancels, CloseCancels, IsValid
<1> QED
  BY <1>3, WokenIs

-----------------------------------------------------------------------------
(* Types.                                                                  *)

GoodAct(a) ==
    /\ a.pc \in {"check", "accept", "closed"} \cup Using \cup Busy => a.obj \in Objects
    /\ a.pc \in Using \cup Shutting => a.fd \in Numbers

LEMMA ActsGood == ASSUME TaskInv PROVE \A u \in Threads : GoodAct(at[u])
BY DEF TaskInv, GoodAct, Looping, Using

LEMMA GoodActs ==
    ASSUME \A u \in Threads : GoodAct(at'[u])
    PROVE  \A t \in Threads : /\ Looping(t)' \/ at'[t].pc \in Busy \cup {"closed"} => at'[t].obj \in Objects
                              /\ at'[t].pc \in Using \cup Shutting => at'[t].fd \in Numbers
BY DEF GoodAct, Looping, Using

\* A step of a thread that moves to a good place and leaves the tasks alone.
LEMMA TaskPlace ==
    ASSUME TaskInv, NEW t \in Threads, Moved(t), GoodAct(at'[t]), UNCHANGED <<queue, waiting>>, watched' \subseteq watched
    PROVE  TaskInv'
<1>1. \A u \in Threads : GoodAct(at'[u])
  BY ActsGood DEF Moved
<1>2. InQueue' = InQueue
  BY DEF InQueue
<1> QED
  BY <1>1, <1>2, GoodActs DEF TaskInv, Moved

\* A step that changes the queue or the registered loops.
GoodTasks ==
    /\ queue' \in Seq(TaskTypes) /\ waiting' \in [Numbers -> TaskTypes]
    /\ \A k \in InQueue' : k = StopTask \/ (k.kind = "loop" /\ k.obj \in Objects)
    /\ \A n \in Numbers :
          \/ waiting'[n] = NoLoop
          \/ waiting'[n].kind = "loop" /\ waiting'[n].obj \in Objects /\ waiting'[n].fd = n
    /\ watched' \subseteq Numbers /\ \A n \in watched' : waiting'[n] # NoLoop

LEMMA GoodWakes == ASSUME TaskInv, NEW n \in Numbers, Wakes(n) PROVE GoodTasks
<1>1. \A k \in InQueue' : k = StopTask \/ (k.kind = "loop" /\ k.obj \in Objects)
  BY DEF TaskInv, Wakes
<1> QED
  BY <1>1 DEF TaskInv, Wakes, GoodTasks

LEMMA TaskQueue ==
    ASSUME TaskInv, GoodTasks, at' = at PROVE TaskInv'
BY DEF TaskInv, GoodTasks, Looping

LEMMA TaskBoth ==
    ASSUME TaskInv, GoodTasks, NEW t \in Threads, Moved(t), GoodAct(at'[t]) PROVE TaskInv'
<1>1. \A u \in Threads : GoodAct(at'[u])
  BY ActsGood DEF Moved
<1> QED
  BY <1>1, GoodActs DEF TaskInv, GoodTasks, Moved

LEMMA TaskStep ==
    ASSUME TypeInv, [Next]_vars PROVE TaskInv'
<1> TaskInv /\ StateInv
  BY DEF TypeInv
<1> pool \subseteq Threads
  BY PoolThreads
<1>1. CASE UNCHANGED <<queue, waiting, at>> /\ watched' \subseteq watched
  BY <1>1 DEF TaskInv, InQueue, Looping
<1>2. CASE Start
  <2>1. GoodTasks
    <3>1. \A k \in InQueue' : k \in InQueue \/ \E o \in m_sockets : k = Loop(o, 0)
      BY <1>2, StartQueues
    <3>2. \A o \in m_sockets : Loop(o, 0).kind = "loop" /\ Loop(o, 0).obj \in Objects
      BY DEF StateInv, Loop
    <3>3. queue' \in Seq(TaskTypes) /\ waiting' = waiting /\ watched' = watched
      BY <1>2, StartQueues DEF Start
    <3> QED
      BY <3>1, <3>2, <3>3 DEF GoodTasks, TaskInv
  <2> QED
    BY <2>1, <1>2, TaskQueue DEF Start
<1>3. CASE Stop
  <2>1. GoodTasks
    BY <1>3, StopQueues DEF GoodTasks, TaskInv, Stop
  <2> QED
    BY <2>1, <1>3, TaskQueue DEF Stop
<1>4. ASSUME NEW t \in pool, TakeTask(t) PROVE TaskInv'
  <2>1. GoodTasks
    BY <1>4, TakeQueues DEF GoodTasks, TaskInv, TakeTask
  <2>2. Head(queue) \in TaskTypes
    BY <1>4, QueueTail DEF TakeTask, TaskInv
  <2>3. Head(queue).fd \in {0} \cup Numbers
    BY <2>2 DEF TaskTypes
  <2>4. Moved(t) /\ GoodAct(at'[t])
    BY <1>4, <2>3, TakeMoves DEF GoodAct, Using, Busy, Shutting
  <2> QED
    BY <2>1, <2>4, TaskBoth
<1>5. ASSUME NEW t \in pool, CheckStop(t) PROVE TaskInv'
  <2>1. at[t].obj \in Objects
    BY <1>5 DEF CheckStop, TaskInv, Looping
  <2>2. Moved(t) /\ GoodAct(at'[t])
    BY <1>5, <2>1, GotoMoves, IdleMoves DEF CheckStop, GoodAct, Using, Busy, Shutting, Places
  <2> QED
    BY <1>5, <2>2, TaskPlace DEF CheckStop, Destroyed
<1>6. ASSUME NEW t \in pool, CallAccept(t) PROVE TaskInv'
  <2>1. Moved(t) /\ GoodAct(at'[t])
    BY <1>6, CallMoves DEF GoodAct, Using, Busy, Shutting
  <2> QED
    BY <1>6, <2>1, TaskPlace DEF CallAccept
<1>7. ASSUME NEW t \in pool, AcceptError(t) \/ AddFails(t) \/ AcceptBlocks(t) \/ \E n \in Numbers : AcceptClient(t, n)
      PROVE  TaskInv'
  <2>1. at[t].obj \in Objects /\ (AcceptBlocks(t) => at[t].fd \in Numbers)
    BY <1>7 DEF AcceptError, AddFails, AcceptBlocks, AcceptClient, Trying, TaskInv, Looping, Using
  <2>2. UNCHANGED <<queue, waiting, watched>>
    BY <1>7 DEF AcceptError, AddFails, AcceptBlocks, AcceptClient
  <2>3. Moved(t) /\ GoodAct(at'[t])
    BY <1>7, <2>1, PlainMoves DEF GoodAct, Using, Busy, Shutting
  <2> QED
    BY <2>2, <2>3, TaskPlace
<1>8. ASSUME NEW t \in pool, AcceptWaits(t) PROVE TaskInv'
  <2>1. at[t].obj \in Objects /\ at[t].fd \in Numbers
    BY <1>8 DEF AcceptWaits, TaskInv, Looping, Using
  <2> DEFINE w == Loop(at[t].obj, at[t].fd)
  <2>2. w \in TaskTypes /\ w.kind = "loop" /\ w.obj \in Objects /\ w.fd = at[t].fd
    <3>1. at[t].obj \in 0 .. MaxObjects /\ at[t].fd \in {0} \cup Numbers
      BY <2>1, Plain
    <3> QED
      BY <2>1, <3>1, LoopIs
  <2>3. waiting' = [waiting EXCEPT ![at[t].fd] = w] /\ queue' = queue /\ watched' = watched \cup {at[t].fd}
    BY <1>8 DEF AcceptWaits
  <2> HIDE DEF w
  <2>4. InQueue' = InQueue
    BY <2>3 DEF InQueue
  <2>5. GoodTasks
    <3>1. w # NoLoop
      BY <2>2, Plain
    <3> QED
      BY <2>1, <2>2, <2>3, <2>4, <3>1 DEF GoodTasks, TaskInv
  <2>6. Moved(t) /\ GoodAct(at'[t])
    BY <1>8, IdleMoves DEF AcceptWaits, GoodAct, Using, Busy, Shutting
  <2> QED
    BY <2>5, <2>6, TaskBoth
<1>9. ASSUME NEW n \in Numbers, Wake(n) PROVE TaskInv'
  BY <1>9, WokenIs, GoodWakes, TaskQueue DEF Wake
<1>10. ASSUME NEW t \in pool, (\E o \in Objects : StopCancels(t, o)) \/ CloseCancels(t) PROVE TaskInv'
  <2>1. Moved(t) /\ GoodAct(at'[t])
    BY <1>10, CancelMoves, SecondMoves DEF GoodAct, Using, Busy, Shutting
  <2>2. CASE UNCHANGED <<queue, waiting, watched>>
    BY <2>1, <2>2, TaskPlace
  <2>3. CASE \E n \in Numbers : Wakes(n)
    BY <2>1, <2>3, GoodWakes, TaskBoth
  <2> QED
    BY <1>10, <2>2, <2>3, CancelWakes
<1>11. ASSUME NEW t \in pool, CloseRemoves(t) \/ CloseCloses(t) PROVE TaskInv'
  <2>1. at[t].obj \in Objects /\ at[t].fd \in Numbers
    BY <1>11 DEF CloseRemoves, CloseCloses, TaskInv, Busy, Shutting
  <2>2. Moved(t) /\ GoodAct(at'[t])
    BY <1>11, <2>1, PlainMoves DEF GoodAct, Using, Busy, Shutting
  <2> QED
    BY <1>11, <2>2, TaskPlace DEF CloseRemoves, CloseCloses
<1>12. ASSUME NEW t \in pool, StopForgets(t) \/ StopClears(t) PROVE TaskInv'
  <2>1. Moved(t) /\ GoodAct(at'[t])
    BY <1>12, ForgetMoves, IdleMoves DEF StopClears, GoodAct, Using, Busy, Shutting
  <2> QED
    BY <1>12, <2>1, TaskPlace DEF StopForgets, StopClears, Destroyed
<1>13. ASSUME BindFails \/ (\E n \in Numbers : Bind(n)) \/ (\E o \in Objects : HandleClient(o) \/ Peer(o))
              \/ UNCHANGED vars
       PROVE  TaskInv'
  <2>1. UNCHANGED <<queue, waiting, at>> /\ watched' \subseteq watched
    BY <1>13 DEF BindFails, Bind, HandleClient, Peer, serverVars, vars, Destroyed
  <2> QED
    BY <2>1, <1>1
<1> QED
  BY <1>2, <1>3, <1>4, <1>5, <1>6, <1>7, <1>8, <1>9, <1>10, <1>11, <1>12, <1>13
  DEF Next, User, ThreadStep

\* The kernel's table and the objects stay well formed when objects go.
LEMMA DestroyedTypes ==
    ASSUME StateInv, NEW objs \in SUBSET Objects, Destroyed(objs)
    PROVE  /\ SocketTypeOK' /\ foreign' \in BOOLEAN
           /\ \A o \in Objects : backlog'[o] <= peers'
<1>1. m_sockfd' \in [Objects -> Numbers \cup {-1}]
  BY DEF Destroyed, StateInv, SocketTypeOK
<1>2. m_is_connected' \in [Objects -> BOOLEAN]
  BY DEF Destroyed
<1>3. owner' \in [Numbers -> 0 .. MaxObjects]
  BY Plain DEF Destroyed, StateInv, SocketTypeOK
<1>4. listening' \subseteq Objects
  BY DEF Destroyed, StateInv, SocketTypeOK
<1>5. foreign' \in BOOLEAN
  BY DEF Destroyed
<1> QED
  BY <1>1, <1>2, <1>3, <1>4, <1>5 DEF Destroyed, StateInv, SocketTypeOK

LEMMA OpenedTypes ==
    ASSUME StateInv, NEW n \in Numbers, NEW o \in Objects, Opened(o, n)
    PROVE  /\ m_sockfd' \in [Objects -> Numbers \cup {-1}] /\ owner' \in [Numbers -> 0 .. MaxObjects]
           /\ owner[n] = 0
BY Plain DEF Opened, FreeNumbers, StateInv, SocketTypeOK

LEMMA StateStep ==
    ASSUME TypeInv, [Next]_vars PROVE StateInv'
<1> TaskInv /\ StateInv
  BY DEF TypeInv
<1> pool \subseteq Threads
  BY PoolThreads
<1>1. ASSUME UNCHANGED <<pool, sockVars, m_sockets, clients, early, orphaned, foreign, missed>>,
             m_is_stop' \in BOOLEAN, invalid' \in BOOLEAN
      PROVE  StateInv'
  BY <1>1 DEF StateInv, SocketTypeOK, sockVars
<1>2. CASE Start
  <2>1. early' \in BOOLEAN
    BY <1>2 DEF Start
  <2> QED
    BY <1>2, <2>1 DEF Start, StateInv, SocketTypeOK, sockVars
<1>3. CASE Stop
  BY <1>3, <1>1 DEF Stop, StateInv, histVars
<1>4. ASSUME NEW t \in pool, TakeTask(t) \/ AcceptError(t) \/ AcceptBlocks(t) \/ AddFails(t) \/ CloseRemoves(t) \/ CloseCancels(t)
      PROVE  StateInv'
  BY <1>4, <1>1 DEF TakeTask, AcceptError, AcceptBlocks, AddFails, CloseRemoves, CloseCancels, StateInv, histVars
<1>17. ASSUME NEW t \in pool, AcceptWaits(t) PROVE StateInv'
  <2>1. missed' \in BOOLEAN
    BY <1>17 DEF AcceptWaits
  <2> QED
    BY <1>17, <2>1 DEF AcceptWaits, StateInv, SocketTypeOK, sockVars
<1>18. ASSUME NEW t \in pool, NEW o \in Objects, StopCancels(t, o) PROVE StateInv'
  <2>1. invalid' \in BOOLEAN
    BY <1>18 DEF StopCancels, StateInv
  <2> QED
    BY <1>18, <2>1, <1>1 DEF StopCancels, StateInv
<1>5. ASSUME NEW t \in pool, CheckStop(t) PROVE StateInv'
  <2>1. at[t].obj \in Objects
    BY <1>5 DEF CheckStop, TaskInv, Looping
  <2>2. CASE UNCHANGED <<sockVars, foreign>>
    BY <1>5, <2>2, <1>1 DEF CheckStop, StateInv
  <2>3. CASE ~ UNCHANGED <<sockVars, foreign>>
    <3>1. PICK objs \in SUBSET Objects : Destroyed(objs)
      BY <1>5, <2>1, <2>3 DEF CheckStop
    <3> QED
      BY <1>5, <3>1, DestroyedTypes DEF CheckStop, StateInv
  <2> QED
    BY <2>2, <2>3
<1>6. ASSUME NEW t \in pool, CallAccept(t) PROVE StateInv'
  <2>1. invalid' \in BOOLEAN
    BY <1>6 DEF CallAccept, StateInv
  <2> QED
    BY <1>6, <2>1, <1>1 DEF CallAccept, StateInv
<1>7. ASSUME NEW t \in pool, NEW n \in Numbers, AcceptClient(t, n) PROVE StateInv'
  <2>1. objects + 1 \in Objects /\ AcceptInto(objects + 1, n, at[t].fd)
    BY <1>7 DEF AcceptClient, AcceptInto
  <2>2. m_sockfd' \in [Objects -> Numbers \cup {-1}] /\ owner' \in [Numbers -> 0 .. MaxObjects]
    BY <2>1, OpenedTypes DEF AcceptInto
  <2>3. m_is_connected' \in [Objects -> BOOLEAN]
    BY <2>1 DEF AcceptInto, StateInv, SocketTypeOK
  <2>4. owner[at[t].fd] \in Objects
    BY <1>7 DEF AcceptClient, StateInv, SocketTypeOK
  <2>5. backlog' \in [Objects -> 0 .. MaxPeers] /\ \A o \in Objects : backlog'[o] <= peers
    <3>1. backlog' = [backlog EXCEPT ![owner[at[t].fd]] = @ - 1] /\ backlog[owner[at[t].fd]] > 0
      BY <2>1 DEF AcceptInto
    <3>2. backlog \in [Objects -> 0 .. MaxPeers] /\ peers \in 0 .. MaxPeers /\ MaxPeers \in Nat
          /\ \A o \in Objects : backlog[o] <= peers
      BY SocketAssumption DEF StateInv, SocketTypeOK
    <3> QED
      BY <2>4, <3>1, <3>2
  <2>6. objects' \in 0 .. MaxObjects /\ peers' = peers /\ listening' = listening
    BY <2>1, Plain DEF AcceptInto
  <2>7. clients' \subseteq Objects
    BY <1>7, <2>1 DEF AcceptClient, StateInv
  <2> QED
    BY <1>7, <2>2, <2>3, <2>5, <2>6, <2>7 DEF AcceptClient, StateInv, SocketTypeOK, histVars
<1>8. ASSUME NEW n \in Numbers, Wake(n) PROVE StateInv'
  BY <1>8, <1>1 DEF Wake, StateInv, histVars
<1>9. ASSUME NEW t \in pool, CloseCloses(t) PROVE StateInv'
  <2>1. foreign' \in BOOLEAN
    BY <1>9 DEF CloseCloses, StateInv
  <2>2. owner' \in [Numbers -> 0 .. MaxObjects] /\ listening' \subseteq Objects
    BY <1>9, Plain DEF CloseCloses, StateInv, SocketTypeOK
  <2> QED
    BY <1>9, <2>1, <2>2 DEF CloseCloses, StateInv, SocketTypeOK
<1>10. ASSUME NEW t \in pool, StopForgets(t) PROVE StateInv'
  <2>1. m_sockfd' \in [Objects -> Numbers \cup {-1}]
    BY <1>10 DEF StopForgets, StateInv, SocketTypeOK
  <2>2. m_is_connected' \in [Objects -> BOOLEAN]
    BY <1>10 DEF StopForgets, StateInv, SocketTypeOK
  <2> QED
    BY <1>10, <2>1, <2>2 DEF StopForgets, StateInv, SocketTypeOK, histVars
<1>11. ASSUME NEW t \in pool, StopClears(t) PROVE StateInv'
  <2>1. m_sockets \ Held \in SUBSET Objects
    BY DEF StateInv
  <2> QED
    BY <1>11, <2>1, DestroyedTypes DEF StopClears, StateInv
<1>12. CASE BindFails
  <2>1. m_sockets \ Held \in SUBSET Objects
    BY DEF StateInv
  <2>2. early' \in BOOLEAN /\ orphaned' \in BOOLEAN
    BY <1>12 DEF BindFails
  <2> QED
    BY <1>12, <2>1, <2>2, DestroyedTypes DEF BindFails, StateInv
<1>13. ASSUME NEW n \in Numbers, Bind(n) PROVE StateInv'
  <2>1. objects + 1 \in Objects
    BY <1>13, SocketAssumption DEF Bind, MayBind, StateInv, SocketTypeOK, Objects
  <2>2. m_sockfd' \in [Objects -> Numbers \cup {-1}] /\ owner' \in [Numbers -> 0 .. MaxObjects]
    BY <1>13, <2>1, OpenedTypes DEF Bind
  <2>3. early' \in BOOLEAN
    BY <1>13 DEF Bind
  <2>4. objects' \in 0 .. MaxObjects /\ listening' \subseteq Objects /\ m_sockets' \subseteq Objects
    BY <1>13, <2>1, Plain DEF Bind, StateInv, SocketTypeOK
  <2> QED
    BY <1>13, <2>2, <2>3, <2>4 DEF Bind, StateInv, SocketTypeOK
<1>14. ASSUME NEW o \in Objects, HandleClient(o) PROVE StateInv'
  <2>1. clients' \subseteq Objects /\ {o} \in SUBSET Objects
    BY <1>14 DEF HandleClient, StateInv
  <2> QED
    BY <1>14, <2>1, DestroyedTypes DEF HandleClient, StateInv
<1>15. ASSUME NEW o \in Objects, Peer(o) PROVE StateInv'
  <2>1. /\ backlog \in [Objects -> 0 .. MaxPeers] /\ peers \in 0 .. MaxPeers /\ MaxPeers \in Nat
        /\ \A u \in Objects : backlog[u] <= peers
    BY SocketAssumption DEF StateInv, SocketTypeOK
  <2>2. peers < MaxPeers /\ peers' = peers + 1 /\ backlog' = [backlog EXCEPT ![o] = @ + 1]
    BY <1>15 DEF Peer, PeerConnects
  <2>3. /\ backlog' \in [Objects -> 0 .. MaxPeers] /\ peers' \in 0 .. MaxPeers
        /\ \A u \in Objects : backlog'[u] <= peers'
    BY <2>1, <2>2
  <2> QED
    BY <1>15, <2>3 DEF Peer, PeerConnects, StateInv, SocketTypeOK, serverVars, histVars
<1>16. CASE UNCHANGED vars
  BY <1>16, <1>1 DEF vars, serverVars, histVars, StateInv
<1> QED
  BY <1>2, <1>3, <1>4, <1>5, <1>6, <1>7, <1>8, <1>9, <1>10, <1>11, <1>12, <1>13, <1>14, <1>15, <1>16, <1>17, <1>18
  DEF Next, User, ThreadStep

LEMMA InitType == Init => TypeInv
<1> SUFFICES ASSUME Init PROVE TypeInv
  OBVIOUS
<1>1. StateInv
  <2>1. 0 \in 0 .. MaxObjects /\ 0 \in 0 .. MaxPeers
    BY SocketAssumption
  <2>2. SocketTypeOK /\ \A o \in Objects : backlog[o] <= peers
    BY <2>1 DEF Init, SocketInit, SocketTypeOK
  <2> QED
    BY <2>2 DEF Init, StateInv
<1>2. InQueue = {} /\ queue \in Seq(TaskTypes)
  BY DEF Init, InQueue
<1>3. TaskInv
  <2>1. waiting \in [Numbers -> TaskTypes] /\ at \in [Threads -> Acts] /\ watched = {}
    BY Plain DEF Init
  <2>2. \A n \in Numbers : waiting[n] = NoLoop
    BY DEF Init
  <2>3. \A t \in Threads : at[t].pc = "idle"
    BY Plain DEF Init
  <2> QED
    BY <1>2, <2>1, <2>2, <2>3 DEF TaskInv, Looping, Using, Busy, Shutting
<1> QED
  BY <1>1, <1>3 DEF TypeInv

LEMMA TypeStep == ASSUME TypeInv, [Next]_vars PROVE TypeInv'
BY TaskStep, StateStep DEF TypeInv

-----------------------------------------------------------------------------
(* The objects that loops keep alive.                                      *)

LEMMA HeldHas ==
    /\ \A k \in InQueue : k.obj \in Held \cup {0}
    /\ \A t \in pool : Looping(t) => at[t].obj \in Held \cup {0}
    /\ \A n \in Numbers : waiting[n].obj \in Held \cup {0}
BY DEF Held

LEMMA HeldFrom ==
    ASSUME NEW X, pool' = pool,
           \A k \in InQueue' : k.obj \in X \cup {0},
           \A t \in pool : Looping(t)' => at'[t].obj \in X \cup {0},
           \A n \in Numbers : waiting'[n].obj \in X \cup {0}
    PROVE  Held' \subseteq X
<1>1. Held' = ({k.obj : k \in InQueue'} \cup {at'[t].obj : t \in {u \in pool' : Looping(u)'}}
                 \cup {waiting'[n].obj : n \in Numbers}) \ {0}
  BY DEF Held
<1> QED
  BY <1>1

\* Only start() makes a loop for an object that had none.
LEMMA HeldStep ==
    ASSUME TypeInv, [Next]_vars
    PROVE  /\ ~ Start => Held' \subseteq Held
           /\ Start => Held' \subseteq Held \cup m_sockets
<1> TaskInv /\ StateInv
  BY DEF TypeInv
<1> pool \subseteq Threads
  BY PoolThreads
<1> DEFINE H == Held \cup {0}
<1>1. /\ \A k \in InQueue : k.obj \in H
      /\ \A t \in pool : Looping(t) => at[t].obj \in H
      /\ \A n \in Numbers : waiting[n].obj \in H
  BY HeldHas
<1>2. pool' = pool
  BY DEF Next, User, Start, Stop, BindFails, Bind, ThreadStep, TakeTask, CheckStop, CallAccept,
     AcceptError, AcceptWaits, StopForgets, StopClears, AcceptClient, StopCancels, Wake, HandleClient,
     AcceptBlocks, AddFails, CloseCancels, CloseRemoves, CloseCloses, Peer, vars
<1>3. CASE Start
  <2>1. \A k \in InQueue' : k \in InQueue \/ \E o \in m_sockets : k = Loop(o, 0)
    BY <1>3, StartQueues
  <2>2. \A o \in m_sockets : Loop(o, 0).obj = o
    BY DEF Loop
  <2>3. UNCHANGED <<at, waiting>>
    BY <1>3 DEF Start
  <2>4. \A t \in pool : Looping(t)' <=> Looping(t)
    BY <2>3 DEF Looping
  <2>5. \A k \in InQueue' : k.obj \in (Held \cup m_sockets) \cup {0}
    BY <1>1, <2>1, <2>2
  <2>6. \A t \in pool : Looping(t)' => at'[t].obj \in (Held \cup m_sockets) \cup {0}
    BY <1>1, <2>3, <2>4
  <2>7. \A n \in Numbers : waiting'[n].obj \in (Held \cup m_sockets) \cup {0}
    BY <1>1, <2>3
  <2>8. Held' \subseteq Held \cup m_sockets
    BY <1>2, <2>5, <2>6, <2>7, HeldFrom
  <2> QED
    BY <1>3, <2>8
<1> DEFINE Q == \A k \in InQueue' : k.obj \in H
           T == \A t \in pool : Looping(t)' => at'[t].obj \in H
           W == \A n \in Numbers : waiting'[n].obj \in H
<1>4. ASSUME queue' = queue PROVE Q
  <2>1. InQueue' = InQueue
    BY <1>4 DEF InQueue
  <2> QED
    BY <1>1, <2>1
<1>5. ASSUME at' = at PROVE T
  BY <1>1, <1>5 DEF Looping
<1>6. ASSUME waiting' = waiting PROVE W
  BY <1>1, <1>6
<1>7. ASSUME NEW t \in pool, Moved(t), at'[t].pc \in {"check", "accept"} \cup Using => at'[t].obj \in H PROVE T
  BY <1>1, <1>7 DEF Looping, Moved, Using
<1> HIDE DEF H
<1>8. ASSUME Stop PROVE Q /\ T /\ W
  <2>1. Q
    BY <1>1, <1>8, StopQueues, Plain DEF H
  <2> QED
    BY <1>8, <2>1, <1>5, <1>6 DEF Stop
<1>9. ASSUME NEW t \in pool, TakeTask(t) PROVE Q /\ T /\ W
  <2>1. Q
    BY <1>1, <1>9, TakeQueues
  <2>2. Head(queue) \in InQueue
    BY <1>9, TakeMoves
  <2>3. T
    <3>1. Moved(t) /\ (at'[t].pc = "stopping" \/ at'[t].obj = Head(queue).obj)
      BY <1>9, TakeMoves
    <3> QED
      BY <1>1, <1>7, <2>2, <3>1 DEF Using
  <2> QED
    BY <1>9, <2>1, <2>3, <1>6 DEF TakeTask
<1>10. ASSUME NEW t \in pool, CheckStop(t) PROVE Q /\ T /\ W
  <2>1. at[t].obj \in H
    BY <1>1, <1>10 DEF CheckStop, Looping
  <2>2. Moved(t) /\ (at'[t].pc = "idle" \/ at'[t].obj = at[t].obj)
    BY <1>10, GotoMoves, IdleMoves DEF CheckStop, Places
  <2>3. T
    BY <2>1, <2>2, <1>7 DEF Using
  <2> QED
    BY <1>10, <2>3, <1>4, <1>6 DEF CheckStop
<1>11. ASSUME NEW t \in pool, CallAccept(t) PROVE Q /\ T /\ W
  <2>1. at[t].obj \in H
    BY <1>1, <1>11 DEF CallAccept, Looping
  <2>2. Moved(t) /\ at'[t].obj = at[t].obj
    BY <1>11, CallMoves
  <2>3. T
    BY <2>1, <2>2, <1>7
  <2> QED
    BY <1>11, <2>3, <1>4, <1>6 DEF CallAccept
<1>12. ASSUME NEW t \in pool, AcceptError(t) \/ AddFails(t) \/ AcceptBlocks(t) \/ \E n \in Numbers : AcceptClient(t, n)
       PROVE  Q /\ T /\ W
  <2>1. at[t].obj \in H
    BY <1>1, <1>12 DEF AcceptError, AddFails, AcceptBlocks, AcceptClient, Trying, Looping
  <2>2. Moved(t) /\ at'[t].obj = at[t].obj
    BY <1>12, PlainMoves
  <2>3. T
    BY <2>1, <2>2, <1>7
  <2> QED
    BY <1>12, <2>3, <1>4, <1>6 DEF AcceptError, AddFails, AcceptBlocks, AcceptClient
<1>13. ASSUME NEW t \in pool, AcceptWaits(t) PROVE Q /\ T /\ W
  <2>1. at[t].obj \in H /\ at[t].fd \in Numbers
    BY <1>1, <1>13 DEF AcceptWaits, Looping, TaskInv, Using
  <2>2. Moved(t) /\ at'[t].pc = "idle"
    BY <1>13, IdleMoves DEF AcceptWaits
  <2>3. T
    BY <2>2, <1>7 DEF Using
  <2>4. W
    <3>1. waiting' = [waiting EXCEPT ![at[t].fd] = Loop(at[t].obj, at[t].fd)] /\ waiting \in [Numbers -> TaskTypes]
      BY <1>13 DEF AcceptWaits, TaskInv
    <3>2. Loop(at[t].obj, at[t].fd).obj = at[t].obj
      BY DEF Loop
    <3> QED
      BY <1>1, <2>1, <3>1, <3>2
  <2> QED
    BY <1>13, <2>3, <2>4, <1>4 DEF AcceptWaits
<1>20. ASSUME NEW n \in Numbers, Wakes(n) PROVE Q /\ W
  <2>1. NoLoop.obj \in H
    BY Plain DEF H
  <2> QED
    BY <1>1, <1>20, <2>1 DEF Wakes
<1>14. ASSUME NEW n \in Numbers, Wake(n) PROVE Q /\ T /\ W
  BY <1>5, <1>14, <1>20, WokenIs DEF Wake
<1>15. ASSUME NEW t \in pool, (\E o \in Objects : StopCancels(t, o)) \/ CloseCancels(t) PROVE Q /\ T /\ W
  <2>1. T
    BY <1>15, <1>7, CancelMoves, SecondMoves DEF Using
  <2> QED
    BY <1>4, <1>6, <1>15, <1>20, <2>1, CancelWakes
<1>16. ASSUME NEW t \in pool, CloseRemoves(t) \/ CloseCloses(t) \/ StopForgets(t) PROVE Q /\ T /\ W
  <2>1. T
    BY <1>16, <1>7, PlainMoves, ForgetMoves DEF Using
  <2> QED
    BY <1>16, <2>1, <1>4, <1>6 DEF CloseRemoves, CloseCloses, StopForgets
<1>17. ASSUME NEW t \in pool, StopClears(t) PROVE Q /\ T /\ W
  BY <1>17, IdleMoves, <1>4, <1>6, <1>7 DEF StopClears, Using
<1>18. ASSUME BindFails \/ (\E n \in Numbers : Bind(n)) \/ (\E o \in Objects : HandleClient(o) \/ Peer(o))
              \/ UNCHANGED vars
       PROVE  Q /\ T /\ W
  <2>1. UNCHANGED <<queue, waiting, at>>
    BY <1>18 DEF BindFails, Bind, HandleClient, Peer, serverVars, vars
  <2> QED
    BY <2>1, <1>4, <1>5, <1>6
<1> HIDE DEF Q, T, W
<1>19. CASE ~ Start
  <2>1. Q /\ T /\ W
    BY <1>19, <1>8, <1>9, <1>10, <1>11, <1>12, <1>13, <1>14, <1>15, <1>16, <1>17, <1>18
    DEF Next, User, ThreadStep
  <2>2. Held' \subseteq Held
    BY <1>2, <2>1, HeldFrom DEF Q, T, W, H
  <2> QED
    BY <1>19, <2>2
<1> QED
  BY <1>3, <1>19

-----------------------------------------------------------------------------
(* Objects are made one after the other.                                   *)

LEMMA DestroyedBirth ==
    ASSUME StateInv, BirthInv, NEW objs \in SUBSET Objects, Destroyed(objs)
    PROVE  /\ objects' = objects /\ listening' \subseteq listening
           /\ \A n \in Numbers : owner'[n] <= objects
           /\ \A o \in Objects : o > objects => m_sockfd'[o] = -1
<1>1. \A n \in Numbers : owner'[n] = 0 \/ owner'[n] = owner[n]
  BY DEF Destroyed
<1>2. objects \in Nat
  BY DEF StateInv, SocketTypeOK
<1> QED
  BY <1>1, <1>2 DEF Destroyed, BirthInv, IsValid

LEMMA OpenedBirth ==
    ASSUME StateInv, BirthInv, NEW n \in Numbers, objects + 1 \in Objects, Opened(objects + 1, n),
           objects' = objects + 1
    PROVE  /\ \A m \in Numbers : owner'[m] <= objects'
           /\ \A o \in Objects : o > objects' => m_sockfd'[o] = -1
<1>1. objects \in Nat /\ owner \in [Numbers -> 0 .. MaxObjects] /\ m_sockfd \in [Objects -> Numbers \cup {-1}]
  BY DEF StateInv, SocketTypeOK
<1>2. \A m \in Numbers : owner[m] <= objects /\ owner[m] \in Nat
  BY <1>1 DEF BirthInv
<1>3. \A o \in Objects : o > objects + 1 => o > objects /\ o # objects + 1 /\ m_sockfd[o] = -1
  BY <1>1 DEF BirthInv, IsValid, Objects
<1> QED
  BY <1>1, <1>2, <1>3 DEF Opened

LEMMA InitBirth == Init => BirthInv
<1> SUFFICES ASSUME Init PROVE BirthInv
  OBVIOUS
<1>1. InQueue = {}
  BY DEF Init, InQueue
<1>2. \A t \in Threads : ~ Looping(t)
  BY Plain DEF Init, Looping
<1>3. pool \subseteq Threads
  BY DEF Init, Threads
<1>4. \A n \in Numbers : waiting[n].obj = 0
  BY Plain DEF Init
<1>5. Held = {}
  BY <1>1, <1>2, <1>3, <1>4 DEF Held
<1> QED
  BY <1>5 DEF Init, SocketInit, BirthInv, IsValid

LEMMA BirthStep == ASSUME TypeInv, BirthInv, [Next]_vars PROVE BirthInv'
<1> TaskInv /\ StateInv
  BY DEF TypeInv
<1>0. objects \in Nat /\ 1 .. objects \subseteq 1 .. objects + 1 /\ objects + 1 \in 1 .. objects + 1
      /\ objects + 1 \notin 1 .. objects
  BY DEF StateInv, SocketTypeOK
<1>1. CASE Start
  <2>1. Held' \subseteq Held \cup m_sockets
    BY <1>1, HeldStep
  <2> QED
    BY <1>1, <2>1 DEF Start, sockVars, BirthInv, IsValid
<1>2. CASE ~ Start
  <2>1. Held' \subseteq Held
    BY <1>2, HeldStep
  <2>2. ASSUME NEW n \in Numbers, Bind(n) PROVE BirthInv'
    <3>1. objects + 1 \in Objects
      BY <2>2, SocketAssumption DEF Bind, MayBind, StateInv, SocketTypeOK, Objects
    <3>2. objects' = objects + 1 /\ Opened(objects + 1, n) /\ clients' = clients
          /\ listening' = listening \cup {objects + 1} /\ m_sockets' = m_sockets \cup {objects + 1}
      BY <2>2 DEF Bind
    <3>3. /\ \A m \in Numbers : owner'[m] <= objects'
          /\ \A o \in Objects : o > objects' => m_sockfd'[o] = -1
      BY <3>1, <3>2, OpenedBirth
    <3> QED
      BY <1>0, <2>1, <3>2, <3>3 DEF BirthInv, IsValid
  <2>3. ASSUME NEW t \in pool, NEW n \in Numbers, AcceptClient(t, n) PROVE BirthInv'
    <3>1. objects + 1 \in Objects /\ objects' = objects + 1 /\ Opened(objects + 1, n)
          /\ listening' = listening /\ m_sockets' = m_sockets /\ clients' = clients \cup {objects + 1}
      BY <2>3 DEF AcceptClient, AcceptInto
    <3>2. /\ \A m \in Numbers : owner'[m] <= objects'
          /\ \A o \in Objects : o > objects' => m_sockfd'[o] = -1
      BY <3>1, OpenedBirth
    <3> QED
      BY <1>0, <2>1, <3>1, <3>2 DEF BirthInv, IsValid
  <2>4. ASSUME NEW objs \in SUBSET Objects, Destroyed(objs), m_sockets' \subseteq m_sockets, clients' \subseteq clients
        PROVE  BirthInv'
    BY <2>1, <2>4, DestroyedBirth DEF BirthInv, IsValid
  <2>5. ASSUME UNCHANGED <<m_sockfd, objects, m_sockets, clients>>, listening' \subseteq listening,
               owner' = owner \/ \E n \in Numbers : owner' = [owner EXCEPT ![n] = 0]
        PROVE  BirthInv'
    <3>1. \A n \in Numbers : owner'[n] <= objects
      BY <1>0, <2>5 DEF BirthInv, StateInv, SocketTypeOK
    <3> QED
      BY <2>1, <2>5, <3>1 DEF BirthInv, IsValid
  <2>6. ASSUME NEW t \in pool, CheckStop(t) PROVE BirthInv'
    <3>1. at[t].obj \in Objects
      BY <2>6, PoolThreads DEF CheckStop, TaskInv, Looping
    <3>2. CASE UNCHANGED sockVars
      BY <2>5, <2>6, <3>2 DEF CheckStop, sockVars
    <3>3. CASE ~ UNCHANGED sockVars
      <4>1. PICK objs \in SUBSET Objects : Destroyed(objs)
        BY <2>6, <3>1, <3>3 DEF CheckStop
      <4> QED
        BY <2>4, <2>6, <4>1 DEF CheckStop
    <3> QED
      BY <3>2, <3>3
  <2>7. ASSUME (\E t \in pool : StopClears(t)) \/ BindFails PROVE BirthInv'
    <3>1. m_sockets \ Held \in SUBSET Objects
      BY DEF StateInv
    <3> QED
      BY <2>4, <2>7, <3>1 DEF StopClears, BindFails
  <2>8. ASSUME NEW o \in Objects, HandleClient(o) PROVE BirthInv'
    BY <2>4, <2>8 DEF HandleClient
  <2>9. ASSUME NEW t \in pool, CloseCloses(t) PROVE BirthInv'
    <3>1. at[t].fd \in Numbers
      BY <2>9, PoolThreads DEF CloseCloses, TaskInv, Shutting
    <3> QED
      BY <2>5, <2>9, <3>1 DEF CloseCloses
  <2>10. ASSUME NEW t \in pool, StopForgets(t) PROVE BirthInv'
    <3>1. \A o \in Objects : m_sockfd'[o] = -1 \/ m_sockfd'[o] = m_sockfd[o]
      BY <2>10 DEF StopForgets, StateInv, SocketTypeOK
    <3> QED
      BY <2>1, <2>10, <3>1 DEF StopForgets, BirthInv, IsValid
  <2>11. ASSUME \/ Stop \/ (\E n \in Numbers : Wake(n)) \/ UNCHANGED vars
                \/ \E t \in pool : \/ TakeTask(t) \/ CallAccept(t) \/ AcceptError(t) \/ AcceptBlocks(t) \/ AddFails(t)
                                   \/ AcceptWaits(t) \/ CloseCancels(t) \/ CloseRemoves(t)
                                   \/ \E o \in Objects : StopCancels(t, o)
                \/ \E o \in Objects : Peer(o)
         PROVE  BirthInv'
    <3>1. UNCHANGED <<m_sockfd, objects, m_sockets, clients, listening, owner>>
      BY <2>11 DEF Stop, Wake, vars, TakeTask, CallAccept, AcceptError, AcceptBlocks, AddFails, AcceptWaits, StopCancels,
         CloseCancels, CloseRemoves, Peer, PeerConnects,
         sockVars, serverVars
    <3> QED
      BY <2>5, <3>1
  <2> QED
    BY <1>2, <2>2, <2>3, <2>6, <2>7, <2>8, <2>9, <2>10, <2>11 DEF Next, User, ThreadStep
<1> QED
  BY <1>1, <1>2

-----------------------------------------------------------------------------
(* The stop task, as long as nobody starts or binds too early.             *)

Known == TypeInv /\ BirthInv /\ StopInv /\ OwnInv /\ BusyInv /\ LoopInv /\ WaitInv /\ OneInv /\ ValidInv

LEMMA EarlyStays == ASSUME TypeInv, [Next]_vars, early PROVE early'
BY DEF Next, User, Start, Stop, BindFails, Bind, ThreadStep, TakeTask, CheckStop, CallAccept,
   AcceptError, AcceptBlocks, AddFails, AcceptWaits, AcceptClient, StopCancels, CloseCancels, CloseRemoves,
   CloseCloses, StopForgets, StopClears, Wake, HandleClient, Peer, vars, histVars

\* start() and bind() find the last stop() complete, and no loop left of it.
LEMMA UserWaits ==
    ASSUME Known, ~ early', Start \/ BindFails \/ \E n \in Numbers : Bind(n), m_is_stop
    PROVE  ~ StopPending /\ Held = {}
BY DEF Start, BindFails, Bind, StopUnderWay

LEMMA NoStopper ==
    ASSUME Known
    PROVE  /\ BindFails \/ (\E n \in Numbers : Bind(n)) => \A t \in pool : ~ Stopper(t)
           /\ ~ StopPending => \A t \in pool : ~ Stopper(t)
           /\ \A t \in pool : Stopper(t) => m_is_stop
BY DEF Known, StopInv, BindFails, Bind, MayBind, Stopper, StopPending

LEMMA PoolStays == ASSUME [Next]_vars PROVE pool' = pool
BY DEF Next, User, Start, Stop, BindFails, Bind, ThreadStep, TakeTask, CheckStop, CallAccept,
   AcceptError, AcceptBlocks, AddFails, AcceptWaits, AcceptClient, StopCancels, CloseCancels, CloseRemoves,
   CloseCloses, StopForgets, StopClears, Wake, HandleClient, Peer, vars

\* Where a thread stands decides whether it runs the stop task.
LEMMA StopperMoves ==
    ASSUME TypeInv, NEW t \in pool, Moved(t), Stopper(t)' => Stopper(t)
    PROVE  \A u \in pool : Stopper(u)' => Stopper(u)
BY PoolThreads DEF Stopper, Moved

\* A step that neither calls stop() nor takes its task.
LEMMA StopCalm ==
    ASSUME StopInv, pool' = pool, m_is_stop' = m_is_stop \/ m_is_stop',
           \A u \in pool : Stopper(u)' => Stopper(u),
           Once(queue'), StopTask \in InQueue' => StopTask \in InQueue
    PROVE  StopInv'
<1>1. StopPending' => StopPending
  BY DEF StopPending, Stopper
<1> QED
  BY <1>1 DEF StopInv, Once

LEMMA StopInvStep ==
    ASSUME Known, [Next]_vars, ~ early' PROVE StopInv'
<1> TypeInv /\ StopInv /\ TaskInv /\ StateInv
  BY DEF Known, TypeInv
<1> pool' = pool /\ pool \subseteq Threads
  BY PoolStays, PoolThreads
<1>1. Once(queue)
  BY DEF StopInv, Once
<1>2. ASSUME at' = at PROVE \A u \in pool : Stopper(u)' => Stopper(u)
  BY <1>2 DEF Stopper
<1>3. ASSUME queue' = queue PROVE Once(queue') /\ InQueue' = InQueue
  BY <1>1, <1>3 DEF InQueue
<1>4. CASE Start
  <2>1. ~ StopPending
    BY <1>4, UserWaits DEF Start
  <2>2. Once(queue') /\ \A k \in InQueue' : k \in InQueue \/ \E o \in m_sockets : k = Loop(o, 0)
    BY <1>1, <1>4, StartQueues
  <2>3. StopTask \notin InQueue'
    BY <2>1, <2>2, Plain DEF StopPending
  <2>4. \A u \in pool : ~ Stopper(u)'
    BY <1>2, <1>4, <2>1, NoStopper DEF Start
  <2>5. ~ StopPending'
    BY <2>3, <2>4 DEF StopPending, Stopper
  <2> QED
    BY <2>2, <2>3, <2>4, <2>5 DEF StopInv, Once
<1>5. CASE Stop
  <2>1. ~ StopPending /\ m_is_stop' /\ at' = at
    BY <1>5 DEF Stop, StopInv, StateInv
  <2>2. Once(queue')
    BY <1>1, <1>5, <2>1, StopQueues DEF StopPending
  <2>3. \A u \in pool : ~ Stopper(u)'
    BY <1>2, <2>1, NoStopper
  <2> QED
    BY <2>1, <2>2, <2>3 DEF StopInv, Once
<1>6. ASSUME NEW t \in pool, TakeTask(t) PROVE StopInv'
  <2>1. Moved(t) /\ Head(queue) \in InQueue /\ m_is_stop' = m_is_stop
    BY <1>6, TakeMoves DEF TakeTask
  <2>2. InQueue = InQueue' \cup {Head(queue)} /\ Once(queue')
        /\ (Head(queue) = StopTask => StopTask \notin InQueue')
    BY <1>1, <1>6, TakeQueues
  <2>3. CASE Head(queue) # StopTask
    <3>1. at'[t].pc \in {"check", "try"}
      BY <1>6, <2>3, TakeMoves
    <3> QED
      BY <2>1, <2>2, <3>1, StopperMoves, StopCalm DEF Stopper
  <2>4. CASE Head(queue) = StopTask
    <3>1. StopTask \notin InQueue' /\ StopTask \in InQueue
      BY <2>1, <2>2, <2>4
    <3>2. m_is_stop' /\ \A u \in pool : ~ Stopper(u)
      BY <2>1, <3>1 DEF StopInv, StopPending
    <3>3. \A u \in pool : Stopper(u)' => u = t
      BY <2>1, <3>2 DEF Moved, Stopper
    <3> QED
      BY <2>2, <3>1, <3>2, <3>3 DEF StopInv, Once
  <2> QED
    BY <2>3, <2>4
<1>7. ASSUME NEW t \in pool,
             \/ CheckStop(t) \/ CallAccept(t) \/ AcceptError(t) \/ AcceptBlocks(t) \/ AddFails(t) \/ AcceptWaits(t)
             \/ CloseRemoves(t) \/ CloseCloses(t) \/ StopForgets(t) \/ StopClears(t)
             \/ \E n \in Numbers : AcceptClient(t, n)
      PROVE  StopInv'
  <2>1. Moved(t) /\ (Stopper(t)' => Stopper(t))
    <3>1. CASE CheckStop(t)
      BY <3>1, GotoMoves, IdleMoves DEF CheckStop, Stopper, Places
    <3>2. CASE CallAccept(t)
      BY <3>2, CallMoves DEF Stopper
    <3>3. CASE AcceptError(t) \/ AcceptBlocks(t) \/ AddFails(t) \/ \E n \in Numbers : AcceptClient(t, n)
      BY <3>3, PlainMoves DEF Stopper
    <3>4. CASE AcceptWaits(t) \/ StopClears(t)
      BY <3>4, IdleMoves DEF AcceptWaits, StopClears, Stopper
    <3>5. CASE StopForgets(t) \/ CloseRemoves(t) \/ CloseCloses(t)
      BY <3>5, ForgetMoves, PlainMoves DEF StopForgets, CloseRemoves, CloseCloses, Stopper
    <3> QED
      BY <1>7, <3>1, <3>2, <3>3, <3>4, <3>5
  <2>2. queue' = queue /\ m_is_stop' = m_is_stop
    BY <1>7 DEF CheckStop, CallAccept, AcceptError, AcceptBlocks, AddFails, AcceptWaits, CloseRemoves, CloseCloses,
       StopForgets, StopClears, AcceptClient
  <2> QED
    BY <1>3, <2>1, <2>2, StopperMoves, StopCalm
<1>11. ASSUME NEW n \in Numbers, Wakes(n) PROVE Once(queue') /\ (StopTask \in InQueue' => StopTask \in InQueue)
  BY <1>1, <1>11, WaitingIs DEF Wakes
<1>8. ASSUME NEW t \in pool, (\E o \in Objects : StopCancels(t, o)) \/ CloseCancels(t) PROVE StopInv'
  <2>1. Moved(t) /\ Stopper(t) /\ m_is_stop' = m_is_stop
    BY <1>8, CancelMoves, SecondMoves DEF StopCancels, CloseCancels, Stopper
  <2>2. Once(queue') /\ (StopTask \in InQueue' => StopTask \in InQueue)
    BY <1>3, <1>8, <1>11, CancelWakes
  <2> QED
    BY <2>1, <2>2, StopperMoves, StopCalm
<1>9. ASSUME NEW n \in Numbers, Wake(n) PROVE StopInv'
  BY <1>2, <1>9, <1>11, WokenIs, StopCalm DEF Wake
<1>10. ASSUME BindFails \/ (\E n \in Numbers : Bind(n)) \/ (\E o \in Objects : HandleClient(o) \/ Peer(o))
              \/ UNCHANGED vars
       PROVE  StopInv'
  <2>1. UNCHANGED <<queue, at, m_is_stop>>
    BY <1>10 DEF BindFails, Bind, HandleClient, Peer, serverVars, vars
  <2> QED
    BY <2>1, <1>2, <1>3, StopCalm
<1> QED
  BY <1>4, <1>5, <1>6, <1>7, <1>8, <1>9, <1>10 DEF Next, User, ThreadStep

-----------------------------------------------------------------------------
(* Numbers and the objects they were opened for.                           *)

\* Objects that nobody refers to give back the numbers they own, and no other.
LEMMA Destroying ==
    ASSUME Known, NEW objs \in SUBSET Objects, Destroyed(objs),
           \A o \in objs, t \in pool : ~ Closing(t, o)
    PROVE  /\ ~ foreign'
           /\ \A o \in Objects : m_sockfd'[o] = IF o \in objs THEN -1 ELSE m_sockfd[o]
           /\ \A n \in Numbers : owner'[n] = IF owner[n] \in objs THEN 0 ELSE owner[n]
           /\ listening' \subseteq listening
<1>1. OwnInv /\ StateInv
  BY DEF Known, TypeInv
<1>2. \A o \in objs : IsValid(o) => m_sockfd[o] \in Numbers /\ owner[m_sockfd[o]] = o
  BY <1>1 DEF OwnInv, IsValid, StateInv, SocketTypeOK
<1>3. ~ foreign'
  BY <1>1, <1>2 DEF Destroyed, OwnInv
<1>4. \A n \in Numbers : n \in {m_sockfd[o] : o \in objs} <=> owner[n] \in objs
  <2> SUFFICES ASSUME NEW n \in Numbers PROVE n \in {m_sockfd[o] : o \in objs} <=> owner[n] \in objs
    OBVIOUS
  <2>1. ASSUME NEW o \in objs, n = m_sockfd[o] PROVE owner[n] \in objs
    BY <1>2, <2>1, Plain DEF IsValid
  <2>2. ASSUME owner[n] \in objs PROVE m_sockfd[owner[n]] = n
    BY <1>1, <2>2, Plain DEF OwnInv
  <2> QED
    BY <2>1, <2>2
<1> QED
  BY <1>3, <1>4 DEF Destroyed

SameClosing == \A u \in pool, o \in Objects : Closing(u, o)' <=> Closing(u, o)

LEMMA OwnDestroyed ==
    ASSUME Known, NEW objs \in SUBSET Objects, Destroyed(objs), pool' = pool, SameClosing,
           \A o \in objs, t \in pool : ~ Closing(t, o),
           \A t \in pool, o \in Objects : Closing(t, o) => o \in m_sockets',
           \A t \in pool : Stopper(t)' => at'[t].left \subseteq m_sockets'
    PROVE  OwnInv'
<1>1. OwnInv /\ StateInv
  BY DEF Known, TypeInv
<1>2. /\ ~ foreign'
      /\ \A o \in Objects : m_sockfd'[o] = IF o \in objs THEN -1 ELSE m_sockfd[o]
      /\ \A n \in Numbers : owner'[n] = IF owner[n] \in objs THEN 0 ELSE owner[n]
      /\ listening' \subseteq listening
  BY Destroying
<1>3. /\ owner \in [Numbers -> 0 .. MaxObjects] /\ m_sockfd \in [Objects -> Numbers \cup {-1}]
      /\ listening \subseteq Objects /\ 0 \notin Objects
      /\ \A n \in Numbers : owner[n] = 0 \/ owner[n] \in Objects
  BY <1>1, SocketAssumption DEF StateInv, SocketTypeOK, Objects
<1>4. \A o \in Objects : IsValid(o)' => o \notin objs /\ IsValid(o) /\ m_sockfd'[o] = m_sockfd[o] /\ m_sockfd[o] \in Numbers
  BY <1>2, <1>3 DEF IsValid
<1>5. \A o \in Objects : IsValid(o)' => owner'[m_sockfd'[o]] = o \/ \E t \in pool : Closing(t, o)'
  BY <1>1, <1>2, <1>4 DEF OwnInv, SameClosing
<1>6. \A n \in Numbers : owner'[n] # 0 => m_sockfd'[owner'[n]] = n
  BY <1>1, <1>2, <1>3 DEF OwnInv
<1>7. \A n \in Numbers : owner[n] \notin listening => owner'[n] \notin listening'
  BY <1>2, <1>3
<1>8. \A t \in pool, o \in Objects : Closing(t, o)' =>
          /\ o \in m_sockets' /\ \A m \in Numbers : owner'[m] # o
          /\ IsValid(o)' => owner'[m_sockfd'[o]] \notin listening'
  <2> SUFFICES ASSUME NEW t \in pool, NEW o \in Objects, Closing(t, o)'
               PROVE  /\ o \in m_sockets' /\ \A m \in Numbers : owner'[m] # o
                      /\ IsValid(o)' => owner'[m_sockfd'[o]] \notin listening'
    OBVIOUS
  <2>1. Closing(t, o)
    BY DEF SameClosing
  <2>2. \A m \in Numbers : owner[m] # o
    BY <1>1, <2>1 DEF OwnInv
  <2>3. \A m \in Numbers : owner'[m] # o
    BY <1>2, <1>3, <2>2
  <2>4. IsValid(o) => owner[m_sockfd[o]] \notin listening
    BY <1>1, <2>1 DEF OwnInv
  <2> QED
    BY <1>4, <1>7, <2>1, <2>3, <2>4
<1> QED
  BY <1>2, <1>5, <1>6, <1>8 DEF OwnInv

LEMMA OwnCalm ==
    ASSUME Known, UNCHANGED <<pool, m_sockfd, owner, listening, foreign, m_sockets>>, SameClosing,
           \A t \in pool : Stopper(t)' => at'[t].left \subseteq m_sockets
    PROVE  OwnInv'
BY DEF Known, OwnInv, SameClosing, IsValid

LEMMA ClosingMoves ==
    ASSUME TypeInv, NEW t \in pool, Moved(t), at[t].pc # "closed", at'[t].pc # "closed"
    PROVE  SameClosing
BY PoolThreads DEF SameClosing, Closing, Moved

LEMMA LeftMoves ==
    ASSUME TypeInv, NEW t \in pool, Moved(t), OwnInv, Stopper(t)' => at'[t].left \subseteq m_sockets
    PROVE  \A u \in pool : Stopper(u)' => at'[u].left \subseteq m_sockets
BY PoolThreads DEF Moved, Stopper, OwnInv

\* A new object takes a number that nobody has.
LEMMA OpenedIs ==
    ASSUME Known, NEW n \in Numbers, objects + 1 \in Objects, Opened(objects + 1, n)
    PROVE  /\ owner[n] = 0 /\ owner'[n] = objects + 1 /\ m_sockfd'[objects + 1] = n
           /\ \A m \in Numbers : m # n => owner'[m] = owner[m]
           /\ \A o \in Objects : o # objects + 1 => m_sockfd'[o] = m_sockfd[o]
           /\ \A m \in Numbers : owner[m] # objects + 1
           /\ objects + 1 \notin m_sockets \cup clients \cup listening \cup Held
           /\ objects + 1 # 0
<1>1. StateInv /\ BirthInv
  BY DEF Known, TypeInv
<1>2. objects \in Nat /\ owner \in [Numbers -> 0 .. MaxObjects] /\ m_sockfd \in [Objects -> Numbers \cup {-1}]
  BY <1>1 DEF StateInv, SocketTypeOK
<1>3. owner[n] = 0 /\ owner' = [owner EXCEPT ![n] = objects + 1] /\ m_sockfd' = [m_sockfd EXCEPT ![objects + 1] = n]
  BY DEF Opened, FreeNumbers
<1>4. \A m \in Numbers : owner[m] # objects + 1
  BY <1>1, <1>2 DEF BirthInv
<1>5. objects + 1 \notin 1 .. objects /\ objects + 1 # 0
  BY <1>2
<1>6. objects + 1 \notin m_sockets \cup clients \cup listening \cup Held
  BY <1>1, <1>5 DEF BirthInv
<1> QED
  BY <1>2, <1>3, <1>4, <1>5, <1>6

LEMMA OwnOpened ==
    ASSUME Known, NEW n \in Numbers, objects + 1 \in Objects, Opened(objects + 1, n), pool' = pool,
           SameClosing, m_sockets \subseteq m_sockets', foreign' = foreign,
           listening' \subseteq listening \cup {objects + 1},
           (\E t \in pool, o \in Objects : Closing(t, o)) => listening' = listening,
           \A t \in pool : Stopper(t)' => at'[t].left \subseteq m_sockets
    PROVE  OwnInv'
<1>1. OwnInv /\ StateInv
  BY DEF Known, TypeInv
<1>2. /\ owner[n] = 0 /\ owner'[n] = objects + 1 /\ m_sockfd'[objects + 1] = n
      /\ \A m \in Numbers : m # n => owner'[m] = owner[m]
      /\ \A o \in Objects : o # objects + 1 => m_sockfd'[o] = m_sockfd[o]
      /\ \A m \in Numbers : owner[m] # objects + 1
      /\ objects + 1 \notin m_sockets \cup clients \cup listening \cup Held
      /\ objects + 1 # 0
  BY OpenedIs
<1>3. /\ owner \in [Numbers -> 0 .. MaxObjects] /\ m_sockfd \in [Objects -> Numbers \cup {-1}]
      /\ 0 \notin Objects /\ \A m \in Numbers : owner[m] = 0 \/ owner[m] \in Objects
  BY <1>1, SocketAssumption DEF StateInv, SocketTypeOK, Objects
<1>4. ASSUME NEW o \in Objects, IsValid(o)' PROVE owner'[m_sockfd'[o]] = o \/ \E t \in pool : Closing(t, o)'
  <2>1. CASE o = objects + 1
    BY <1>2, <2>1
  <2>2. CASE o # objects + 1
    <3>1. m_sockfd'[o] = m_sockfd[o] /\ IsValid(o) /\ m_sockfd[o] \in Numbers
      BY <1>2, <1>3, <1>4, <2>2 DEF IsValid
    <3> QED
      BY <1>1, <1>2, <1>3, <3>1 DEF OwnInv, SameClosing
  <2> QED
    BY <2>1, <2>2
<1>5. \A m \in Numbers : owner'[m] # 0 => m_sockfd'[owner'[m]] = m
  BY <1>1, <1>2, <1>3 DEF OwnInv
<1>6. ASSUME NEW t \in pool, NEW o \in Objects, Closing(t, o)'
      PROVE  /\ o \in m_sockets' /\ \A m \in Numbers : owner'[m] # o
             /\ IsValid(o)' => owner'[m_sockfd'[o]] \notin listening'
  <2>1. Closing(t, o) /\ listening' = listening
    BY <1>6 DEF SameClosing
  <2>2. o \in m_sockets /\ (\A m \in Numbers : owner[m] # o)
        /\ (IsValid(o) => owner[m_sockfd[o]] \notin listening)
    BY <1>1, <2>1 DEF OwnInv
  <2>3. o # objects + 1
    BY <1>2, <2>2
  <2>4. m_sockfd'[o] = m_sockfd[o]
    BY <1>2, <2>3
  <2>5. \A m \in Numbers : owner[m] \notin listening => owner'[m] \notin listening
    BY <1>2
  <2>6. m_sockfd[o] \in Numbers \cup {-1}
    BY <1>3
  <2> QED
    BY <1>2, <2>1, <2>2, <2>3, <2>4, <2>5, <2>6 DEF IsValid
<1> QED
  BY <1>1, <1>4, <1>5, <1>6 DEF OwnInv

\* The steps after which some objects have no reference left.
Drops(objs) ==
    /\ Destroyed(objs) /\ SameClosing
    /\ objs \cap (m_sockets' \cup Held') = {}
    /\ \A o \in objs, t \in pool : ~ Closing(t, o)
    /\ \A t \in pool, o \in Objects : Closing(t, o) => o \in m_sockets'
    /\ \A t \in pool : Stopper(t)' => Stopper(t) /\ at'[t].left = at[t].left /\ at'[t].left \subseteq m_sockets'
    /\ m_sockets' = {} \/ (m_sockets' = m_sockets /\ \A t \in pool : Stopper(t) => Stopper(t)')
    /\ queue' = queue /\ waiting' = waiting /\ m_is_stop' = m_is_stop /\ invalid' = invalid /\ missed' = missed
    /\ \A t \in pool : at'[t].pc \in {"accept"} \cup Using \cup Busy => at'[t] = at[t]

LEMMA DropsOn ==
    ASSUME Known, [Next]_vars, ~ early',
           \/ BindFails \/ (\E o \in Objects : HandleClient(o))
           \/ \E t \in pool : StopClears(t) \/ (CheckStop(t) /\ m_is_stop)
    PROVE  \E objs \in SUBSET Objects : Drops(objs)
<1> TypeInv /\ StateInv /\ TaskInv /\ BirthInv /\ StopInv /\ OwnInv
  BY DEF Known, TypeInv
<1> pool' = pool /\ pool \subseteq Threads
  BY PoolStays, PoolThreads
<1>1. Held' \subseteq Held
  <2>1. ~ Start
    BY DEF BindFails, HandleClient, StopClears, CheckStop, Start, StateInv, SocketTypeOK
  <2> QED
    BY <2>1, HeldStep
<1>2. \A t \in pool, o \in Objects : Closing(t, o) => o \in m_sockets /\ Stopper(t)
  BY DEF OwnInv, Closing, Stopper
<1>3. \A t \in pool : Stopper(t) => at[t].left \subseteq m_sockets
  BY DEF OwnInv
<1>4. CASE BindFails
  <2>1. \A t \in pool : ~ Stopper(t)
    BY <1>4, NoStopper
  <2>2. UNCHANGED <<at, queue, waiting, m_is_stop, invalid, missed>> /\ m_sockets' = {} /\ Destroyed(m_sockets \ Held)
    BY <1>4 DEF BindFails
  <2>3. SameClosing /\ \A t \in pool : ~ Stopper(t)'
    BY <2>1, <2>2 DEF SameClosing, Closing, Stopper
  <2>4. m_sockets \ Held \in SUBSET Objects
    BY DEF StateInv
  <2>5. Drops(m_sockets \ Held)
    BY <1>1, <1>2, <2>1, <2>2, <2>3, <2>4 DEF Drops
  <2> QED
    BY <2>4, <2>5
<1>5. ASSUME NEW o \in Objects, HandleClient(o) PROVE \E objs \in SUBSET Objects : Drops(objs)
  <2>1. UNCHANGED <<at, queue, waiting, m_is_stop, invalid, missed, m_sockets>> /\ Destroyed({o}) /\ o \in clients
    BY <1>5 DEF HandleClient
  <2>2. o \notin m_sockets \cup Held
    BY <2>1 DEF BirthInv
  <2>3. SameClosing /\ \A t \in pool : Stopper(t)' <=> Stopper(t)
    BY <2>1 DEF SameClosing, Closing, Stopper
  <2>4. Drops({o})
    BY <1>1, <1>2, <1>3, <2>1, <2>2, <2>3 DEF Drops
  <2> QED
    BY <2>4
<1>6. ASSUME NEW t \in pool, StopClears(t) PROVE \E objs \in SUBSET Objects : Drops(objs)
  <2>1. Moved(t) /\ at'[t].pc = "idle" /\ at[t].pc = "stopping" /\ Stopper(t)
    BY <1>6, IdleMoves DEF StopClears, Stopper
  <2>2. \A u \in pool : Stopper(u) => u = t
    BY <2>1 DEF StopInv
  <2>3. SameClosing
    BY <2>1, ClosingMoves
  <2>4. \A u \in pool : ~ Stopper(u)'
    BY <2>1, <2>2 DEF Stopper, Moved
  <2>5. \A u \in pool, o \in Objects : ~ Closing(u, o)
    BY <1>2, <2>1, <2>2 DEF Closing
  <2>6. UNCHANGED <<queue, waiting, m_is_stop, invalid, missed>> /\ m_sockets' = {} /\ Destroyed(m_sockets \ Held)
    BY <1>6 DEF StopClears
  <2>7. m_sockets \ Held \in SUBSET Objects
    BY DEF StateInv
  <2>8. \A u \in pool : at'[u].pc \in {"accept"} \cup Using \cup Busy => at'[u] = at[u]
    BY <2>1 DEF Moved, Using, Busy
  <2>9. Drops(m_sockets \ Held)
    BY <1>1, <2>3, <2>4, <2>5, <2>6, <2>7, <2>8 DEF Drops
  <2> QED
    BY <2>7, <2>9
<1>7. ASSUME NEW t \in pool, CheckStop(t), m_is_stop PROVE \E objs \in SUBSET Objects : Drops(objs)
  <2> DEFINE Rest == m_sockets \cup {k.obj : k \in InQueue}
                        \cup {at[u].obj : u \in {v \in pool \ {t} : Looping(v)}}
                        \cup {waiting[n].obj : n \in Numbers}
             objs == {at[t].obj} \ Rest
  <2>1. at[t].pc = "check" /\ at' = [at EXCEPT ![t] = Idle] /\ Destroyed(objs)
        /\ UNCHANGED <<queue, waiting, m_is_stop, invalid, missed, m_sockets>>
    BY <1>7 DEF CheckStop
  <2>2. Moved(t) /\ at'[t].pc = "idle"
    BY <2>1, IdleMoves
  <2>3. objs \in SUBSET Objects
    BY <2>1 DEF TaskInv, Looping
  <2>4. InQueue' = InQueue
    BY <2>1 DEF InQueue
  <2>5. objs \cap m_sockets = {}
    OBVIOUS
  <2>6. \A k \in InQueue' : k.obj \in (Held \ objs) \cup {0}
    BY <2>4, HeldHas
  <2>7. \A n \in Numbers : waiting'[n].obj \in (Held \ objs) \cup {0}
    BY <2>1, HeldHas
  <2>8. \A u \in pool : Looping(u)' => u # t /\ Looping(u) /\ at'[u].obj = at[u].obj
    BY <2>2 DEF Looping, Moved
  <2>9. \A u \in pool : Looping(u)' => at'[u].obj \in (Held \ objs) \cup {0}
    BY <2>8, HeldHas
  <2> HIDE DEF objs
  <2>10. Held' \subseteq Held \ objs
    BY <2>6, <2>7, <2>9, HeldFrom
  <2>11. SameClosing
    BY <2>1, <2>2, ClosingMoves
  <2>12. \A u \in pool : (Stopper(u)' <=> Stopper(u)) /\ (Stopper(u) => at'[u] = at[u])
    BY <2>1, <2>2 DEF Stopper, Moved
  <2>13. \A u \in pool : at'[u].pc \in {"accept"} \cup Using \cup Busy => at'[u] = at[u]
    BY <2>2 DEF Moved, Using, Busy
  <2>14. \A u \in pool : Stopper(u)' =>
             Stopper(u) /\ at'[u].left = at[u].left /\ at'[u].left \subseteq m_sockets
    BY <1>3, <2>12
  <2>15. \A o \in objs, u \in pool : ~ Closing(u, o)
    BY <1>2, <2>3, <2>5
  <2>16. Drops(objs)
    BY <1>2, <2>1, <2>5, <2>10, <2>11, <2>12, <2>13, <2>14, <2>15 DEF Drops
  <2> QED
    BY <2>3, <2>16
<1> QED
  BY <1>4, <1>5, <1>6, <1>7

\* The other steps, by what they do to the sockets.
StillSteps(t) ==
    \/ TakeTask(t) \/ CallAccept(t) \/ AcceptError(t) \/ AcceptBlocks(t) \/ AddFails(t) \/ AcceptWaits(t)
    \/ (CheckStop(t) /\ ~ m_is_stop)
CancelSteps(t) == (\E o \in Objects : StopCancels(t, o)) \/ CloseCancels(t) \/ CloseRemoves(t)

LEMMA Cases ==
    ASSUME [Next]_vars
    PROVE  \/ BindFails \/ (\E o \in Objects : HandleClient(o))
              \/ \E t \in pool : StopClears(t) \/ (CheckStop(t) /\ m_is_stop)
           \/ Start \/ Stop \/ UNCHANGED vars
           \/ \E n \in Numbers : Bind(n) \/ Wake(n)
           \/ \E o \in Objects : Peer(o)
           \/ \E t \in pool : \/ StillSteps(t) \/ CancelSteps(t) \/ CloseCloses(t) \/ StopForgets(t)
                              \/ (\E n \in Numbers : AcceptClient(t, n))
BY DEF Next, User, ThreadStep, StillSteps, CancelSteps

LEMMA StillMoves ==
    ASSUME Known, NEW t \in pool, StillSteps(t)
    PROVE  /\ Moved(t) /\ at[t].pc # "closed" /\ at'[t].pc # "closed" /\ ~ Stopper(t)
           /\ UNCHANGED <<sockVars, foreign, m_sockets, m_is_stop, clients>>
           /\ Stopper(t)' => at'[t].left = m_sockets /\ at'[t].pc = "stopping" /\ TakeTask(t) /\ Head(queue) = StopTask
<1> TypeInv
  BY DEF Known
<1>1. CASE TakeTask(t)
  BY <1>1, TakeMoves DEF TakeTask, Stopper, histVars
<1>2. CASE CallAccept(t)
  BY <1>2, CallMoves DEF CallAccept, Stopper
<1>3. CASE AcceptError(t) \/ AcceptBlocks(t) \/ AddFails(t)
  BY <1>3, PlainMoves DEF AcceptError, AcceptBlocks, AddFails, Trying, Stopper, histVars
<1>4. CASE AcceptWaits(t)
  BY <1>4, IdleMoves DEF AcceptWaits, Stopper
<1>5. CASE CheckStop(t) /\ ~ m_is_stop
  BY <1>5, GotoMoves DEF CheckStop, Stopper, Places
<1> QED
  BY <1>1, <1>2, <1>3, <1>4, <1>5 DEF StillSteps

\* An object that the stop task has not closed yet has its number.
LEMMA LeftOwns ==
    ASSUME Known, NEW t \in pool, Stopper(t), at[t].pc # "closed", NEW o \in at[t].left
    PROVE  /\ o \in m_sockets /\ o \in Objects /\ IsValid(o) /\ m_sockfd[o] \in Numbers /\ owner[m_sockfd[o]] = o
           /\ m_is_stop /\ (\A u \in pool, c \in Objects : ~ Closing(u, c))
           /\ \A u \in pool : Stopper(u) => u = t
<1>1. OwnInv /\ StateInv /\ StopInv /\ ValidInv
  BY DEF Known, TypeInv
<1>2. \A u \in pool : Stopper(u) => u = t
  BY <1>1 DEF StopInv
<1>3. \A u \in pool, c \in Objects : ~ Closing(u, c)
  BY <1>2 DEF Closing, Stopper
<1>4. o \in m_sockets /\ o \in Objects
  BY <1>1 DEF OwnInv, StateInv
<1>5. IsValid(o)
  BY <1>1, <1>3, <1>4 DEF ValidInv
<1>6. m_sockfd[o] \in Numbers
  BY <1>1, <1>4, <1>5 DEF StateInv, SocketTypeOK, IsValid
<1>7. owner[m_sockfd[o]] = o
  BY <1>1, <1>3, <1>4, <1>5 DEF OwnInv
<1>8. m_is_stop
  BY NoStopper
<1> QED
  BY <1>2, <1>3, <1>4, <1>5, <1>6, <1>7, <1>8

\* The steps of the stop task before close_f() find the number of their object.
LEMMA CancelStep ==
    ASSUME Known, NEW t \in pool, CancelSteps(t)
    PROVE  /\ Moved(t) /\ Stopper(t) /\ at[t].pc # "closed" /\ at'[t].pc \in Busy
           /\ at'[t].left = at[t].left /\ at'[t].obj \in at[t].left
           /\ at'[t].pc \in Shutting => m_sockfd[at'[t].obj] = at'[t].fd
           /\ UNCHANGED <<sockVars, foreign, m_sockets, m_is_stop, clients, invalid, missed>>
<1> TypeInv /\ BusyInv
  BY DEF Known
<1>1. ASSUME NEW o \in Objects, StopCancels(t, o)
      PROVE  /\ Moved(t) /\ Stopper(t) /\ at[t].pc # "closed" /\ at'[t].pc \in Busy
             /\ at'[t].left = at[t].left /\ at'[t].obj \in at[t].left
             /\ at'[t].pc \in Shutting => m_sockfd[at'[t].obj] = at'[t].fd
             /\ UNCHANGED <<sockVars, foreign, m_sockets, m_is_stop, clients, invalid, missed>>
  <2>1. at[t].pc = "stopping" /\ Stopper(t) /\ o \in at[t].left
    BY <1>1 DEF StopCancels, Stopper
  <2>2. IsValid(o)
    BY <2>1, LeftOwns
  <2> QED
    BY <1>1, <2>1, <2>2, CancelMoves DEF StopCancels, Busy, Shutting
<1>2. CASE CloseCancels(t)
  <2>1. at[t].pc = "cancelled" /\ Stopper(t) /\ at[t].obj \in at[t].left
    BY <1>2 DEF CloseCancels, Stopper, BusyInv, Busy
  <2>2. IsValid(at[t].obj)
    BY <2>1, LeftOwns
  <2> QED
    BY <1>2, <2>1, <2>2, SecondMoves DEF CloseCancels, Busy, Shutting, histVars
<1>3. CASE CloseRemoves(t)
  <2>1. at[t].pc = "removing" /\ Stopper(t) /\ at[t].obj \in at[t].left /\ m_sockfd[at[t].obj] = at[t].fd
    BY <1>3 DEF CloseRemoves, Stopper, BusyInv, Busy, Shutting
  <2> QED
    BY <1>3, <2>1, PlainMoves DEF CloseRemoves, Busy, Shutting, histVars
<1> QED
  BY <1>1, <1>2, <1>3 DEF CancelSteps

\* close_f() closes the number that its object owns.
LEMMA CloseEffect ==
    ASSUME Known, NEW t \in pool, CloseCloses(t)
    PROVE  /\ UNCHANGED <<pool, m_sockfd, m_sockets, m_is_stop, invalid, foreign, missed, objects, clients, queue, waiting>>
           /\ owner' = [owner EXCEPT ![at[t].fd] = 0] /\ listening' = listening \ {at[t].obj}
           /\ watched' = watched \ {at[t].fd}
           /\ at[t].fd \in Numbers /\ owner[at[t].fd] = at[t].obj /\ m_sockfd[at[t].obj] = at[t].fd
           /\ at[t].obj \in m_sockets /\ at[t].obj \in Objects /\ at[t].obj \in at[t].left /\ IsValid(at[t].obj)
           /\ m_is_stop /\ Stopper(t) /\ (\A u \in pool, c \in Objects : ~ Closing(u, c))
           /\ \A u \in pool : Stopper(u) => u = t
           /\ Moved(t) /\ at'[t].pc = "closed" /\ at'[t].obj = at[t].obj /\ at'[t].left = at[t].left
<1>1. TypeInv /\ StateInv /\ BusyInv /\ OwnInv
  BY DEF Known, TypeInv
<1>2. at[t].pc = "removed" /\ Stopper(t) /\ at[t].obj \in at[t].left /\ m_sockfd[at[t].obj] = at[t].fd
  BY <1>1 DEF CloseCloses, Stopper, BusyInv, Busy, Shutting
<1>3. /\ at[t].obj \in m_sockets /\ at[t].obj \in Objects /\ IsValid(at[t].obj) /\ at[t].fd \in Numbers
      /\ owner[at[t].fd] = at[t].obj /\ m_is_stop /\ (\A u \in pool, c \in Objects : ~ Closing(u, c))
      /\ \A u \in pool : Stopper(u) => u = t
  BY <1>2, LeftOwns
<1>4. foreign' = foreign
  BY <1>1, <1>3 DEF CloseCloses, StateInv
<1>5. Moved(t) /\ at'[t].pc = "closed" /\ at'[t].obj = at[t].obj /\ at'[t].left = at[t].left
  BY <1>1, PlainMoves
<1> QED
  BY <1>2, <1>3, <1>4, <1>5 DEF CloseCloses

LEMMA OwnCloses ==
    ASSUME Known, NEW t \in pool, CloseCloses(t) PROVE OwnInv'
<1>1. OwnInv /\ StateInv /\ TypeInv
  BY DEF Known, TypeInv
<1>0. PICK o \in Objects, n \in Numbers : o = at[t].obj /\ n = at[t].fd
  BY CloseEffect
<1>2. o \in m_sockets /\ IsValid(o) /\ m_sockfd[o] = n /\ owner[n] = o
      /\ (\A u \in pool, c \in Objects : ~ Closing(u, c)) /\ \A u \in pool : Stopper(u) => u = t
  BY <1>0, CloseEffect
<1>3. UNCHANGED <<pool, m_sockfd, m_sockets, foreign>>
      /\ owner' = [owner EXCEPT ![n] = 0] /\ listening' = listening \ {o}
  BY <1>0, CloseEffect
<1>4. Moved(t) /\ at'[t].pc = "closed" /\ at'[t].obj = o /\ at'[t].left = at[t].left /\ Stopper(t)
  BY <1>0, CloseEffect
<1>5. \A u \in pool, c \in Objects : Closing(u, c)' <=> u = t /\ c = o
  BY <1>1, <1>2, <1>4, PoolThreads DEF Closing, Moved
<1>6. \A u \in pool : Stopper(u)' => at'[u].left \subseteq m_sockets
  BY <1>1, <1>4, LeftMoves DEF OwnInv
<1>7. owner \in [Numbers -> 0 .. MaxObjects] /\ m_sockfd \in [Objects -> Numbers \cup {-1}]
      /\ 0 \notin Objects /\ listening \subseteq Objects /\ \A m \in Numbers : owner[m] = 0 \/ owner[m] \in Objects
  BY <1>1, SocketAssumption DEF StateInv, SocketTypeOK, Objects
<1>8. owner'[n] = 0 /\ \A m \in Numbers : m # n => owner'[m] = owner[m]
  BY <1>3, <1>7
<1>9. ASSUME NEW c \in Objects, IsValid(c)' PROVE owner'[m_sockfd'[c]] = c \/ \E u \in pool : Closing(u, c)'
  <2>1. IsValid(c) /\ m_sockfd'[c] = m_sockfd[c] /\ m_sockfd[c] \in Numbers
    BY <1>3, <1>7, <1>9 DEF IsValid
  <2>2. owner[m_sockfd[c]] = c
    BY <1>1, <1>2, <2>1 DEF OwnInv
  <2> QED
    BY <1>2, <1>5, <1>8, <2>1, <2>2
<1>10. \A m \in Numbers : owner'[m] # 0 => m_sockfd'[owner'[m]] = m
  BY <1>1, <1>3, <1>8 DEF OwnInv
<1>11. \A m \in Numbers : owner'[m] # o
  BY <1>1, <1>2, <1>7, <1>8 DEF OwnInv
<1>12. owner'[m_sockfd'[o]] \notin listening'
  BY <1>2, <1>3, <1>7, <1>8
<1>13. ~ foreign'
  BY <1>1, <1>3 DEF OwnInv
<1> QED
  BY <1>2, <1>3, <1>5, <1>6, <1>9, <1>10, <1>11, <1>12, <1>13 DEF OwnInv

LEMMA ForgetEffect ==
    ASSUME Known, NEW t \in pool, StopForgets(t)
    PROVE  /\ at[t].obj \in m_sockets /\ Closing(t, at[t].obj) /\ Stopper(t) /\ m_is_stop
           /\ \A u \in pool : Stopper(u) => u = t
           /\ \A n \in Numbers : owner[n] # at[t].obj
           /\ m_sockfd'[at[t].obj] = -1
           /\ \A c \in Objects : c # at[t].obj => m_sockfd'[c] = m_sockfd[c]
<1>1. OwnInv /\ StateInv /\ StopInv /\ TypeInv /\ TaskInv
  BY DEF Known, TypeInv
<1>2. at[t].pc = "closed" /\ Stopper(t) /\ at[t].obj \in Objects
  BY <1>1, PoolThreads DEF StopForgets, Stopper, TaskInv
<1>3. Closing(t, at[t].obj)
  BY <1>2 DEF Closing
<1>4. \A u \in pool : Stopper(u) => u = t
  BY <1>1, <1>2 DEF StopInv
<1>5. at[t].obj \in m_sockets /\ \A n \in Numbers : owner[n] # at[t].obj
  BY <1>1, <1>2, <1>3 DEF OwnInv
<1>6. m_sockfd'[at[t].obj] = -1 /\ \A c \in Objects : c # at[t].obj => m_sockfd'[c] = m_sockfd[c]
  BY <1>1, <1>2 DEF StopForgets, StateInv, SocketTypeOK
<1>7. m_is_stop
  BY <1>2, NoStopper
<1> QED
  BY <1>2, <1>3, <1>4, <1>5, <1>6, <1>7

LEMMA OwnForgets ==
    ASSUME Known, NEW t \in pool, StopForgets(t) PROVE OwnInv'
<1>1. OwnInv /\ StateInv /\ TypeInv
  BY DEF Known, TypeInv
<1> DEFINE o == at[t].obj
<1>2. o \in m_sockets /\ (\A u \in pool : Stopper(u) => u = t) /\ (\A n \in Numbers : owner[n] # o)
      /\ m_sockfd'[o] = -1 /\ (\A c \in Objects : c # o => m_sockfd'[c] = m_sockfd[c]) /\ Stopper(t)
  BY ForgetEffect
<1>3. UNCHANGED <<pool, owner, listening, m_sockets, foreign>>
  BY DEF StopForgets, histVars
<1>4. Moved(t) /\ at'[t].pc = "stopping" /\ at'[t].left = at[t].left \ {at[t].obj}
  BY <1>1, ForgetMoves
<1>5. \A u \in pool : Stopper(u)' => at'[u].left \subseteq m_sockets
  BY <1>1, <1>2, <1>4, LeftMoves DEF OwnInv
<1>6. \A u \in pool, c \in Objects : ~ Closing(u, c)'
  BY <1>1, <1>2, <1>4, PoolThreads DEF Closing, Moved, Stopper
<1>7. \A u \in pool, c \in Objects : Closing(u, c) => c = o
  BY <1>2 DEF Closing, Stopper
<1>8. owner \in [Numbers -> 0 .. MaxObjects] /\ \A m \in Numbers : owner[m] = 0 \/ owner[m] \in Objects
  BY <1>1, SocketAssumption DEF StateInv, SocketTypeOK, Objects
<1> HIDE DEF o
<1>9. \A c \in Objects : IsValid(c)' => owner'[m_sockfd'[c]] = c
  BY <1>1, <1>2, <1>3, <1>7 DEF OwnInv, IsValid
<1>10. \A m \in Numbers : owner'[m] # 0 => m_sockfd'[owner'[m]] = m
  BY <1>1, <1>2, <1>3, <1>8 DEF OwnInv
<1>11. ~ foreign'
  BY <1>1, <1>3 DEF OwnInv
<1> QED
  BY <1>3, <1>5, <1>6, <1>9, <1>10, <1>11 DEF OwnInv

LEMMA OwnInvStep ==
    ASSUME Known, [Next]_vars, ~ early' PROVE OwnInv'
<1> TypeInv /\ StateInv /\ OwnInv
  BY DEF Known, TypeInv
<1> pool' = pool /\ pool \subseteq Threads
  BY PoolStays, PoolThreads
<1>1. CASE \/ BindFails \/ (\E o \in Objects : HandleClient(o))
           \/ \E t \in pool : StopClears(t) \/ (CheckStop(t) /\ m_is_stop)
  <2>1. PICK objs \in SUBSET Objects : Drops(objs)
    BY <1>1, DropsOn
  <2> QED
    BY <2>1, OwnDestroyed DEF Drops
<1>2. CASE Start \/ Stop \/ (\E n \in Numbers : Wake(n)) \/ (\E o \in Objects : Peer(o)) \/ UNCHANGED vars
  <2>1. UNCHANGED <<pool, m_sockfd, owner, listening, foreign, m_sockets, at>>
    BY <1>2 DEF Start, Stop, Wake, Peer, PeerConnects, sockVars, serverVars, histVars, vars
  <2>2. SameClosing /\ \A t \in pool : Stopper(t)' => at'[t].left \subseteq m_sockets
    BY <2>1 DEF SameClosing, Closing, Stopper, OwnInv
  <2> QED
    BY <2>1, <2>2, OwnCalm
<1>3. ASSUME NEW t \in pool, StillSteps(t) PROVE OwnInv'
  <2>1. /\ Moved(t) /\ at[t].pc # "closed" /\ at'[t].pc # "closed"
        /\ UNCHANGED <<sockVars, foreign, m_sockets>>
        /\ Stopper(t)' => at'[t].left = m_sockets
    BY <1>3, StillMoves
  <2>2. SameClosing /\ \A u \in pool : Stopper(u)' => at'[u].left \subseteq m_sockets
    BY <2>1, ClosingMoves, LeftMoves
  <2> QED
    BY <2>1, <2>2, OwnCalm DEF sockVars
<1>6. ASSUME NEW t \in pool, CancelSteps(t) PROVE OwnInv'
  <2>1. /\ Moved(t) /\ at[t].pc # "closed" /\ at'[t].pc # "closed" /\ Stopper(t) /\ at'[t].left = at[t].left
        /\ UNCHANGED <<sockVars, foreign, m_sockets>>
    BY <1>6, CancelStep DEF Busy
  <2>2. at'[t].left \subseteq m_sockets
    BY <2>1 DEF OwnInv
  <2>3. SameClosing /\ \A u \in pool : Stopper(u)' => at'[u].left \subseteq m_sockets
    BY <2>1, <2>2, ClosingMoves, LeftMoves
  <2> QED
    BY <2>1, <2>3, OwnCalm DEF sockVars
<1>4. ASSUME NEW n \in Numbers, Bind(n) PROVE OwnInv'
  <2>1. objects + 1 \in Objects
    BY <1>4, SocketAssumption DEF Bind, MayBind, StateInv, SocketTypeOK, Objects
  <2>2. \A t \in pool : ~ Stopper(t)
    BY <1>4, NoStopper
  <2>3. at' = at /\ Opened(objects + 1, n) /\ foreign' = foreign
        /\ listening' = listening \cup {objects + 1} /\ m_sockets' = m_sockets \cup {objects + 1}
    BY <1>4 DEF Bind
  <2>4. SameClosing /\ (\A t \in pool : ~ Stopper(t)') /\ \A t \in pool, o \in Objects : ~ Closing(t, o)
    BY <2>2, <2>3 DEF SameClosing, Closing, Stopper
  <2> QED
    BY <2>1, <2>3, <2>4, OwnOpened
<1>5. ASSUME NEW t \in pool, NEW n \in Numbers, AcceptClient(t, n) PROVE OwnInv'
  <2>1. objects + 1 \in Objects /\ Opened(objects + 1, n) /\ foreign' = foreign /\ Goto(t, "check")
        /\ listening' = listening /\ m_sockets' = m_sockets /\ Trying(t)
    BY <1>5 DEF AcceptClient, AcceptInto, histVars
  <2>2. Moved(t) /\ at'[t].pc = "check"
    BY <2>1, GotoMoves DEF Places
  <2>3. SameClosing /\ \A u \in pool : Stopper(u)' => at'[u].left \subseteq m_sockets
    BY <2>1, <2>2, ClosingMoves, LeftMoves DEF Stopper, Trying
  <2> QED
    BY <2>1, <2>3, OwnOpened
<1> QED
  BY <1>1, <1>2, <1>3, <1>4, <1>5, <1>6, OwnCloses, OwnForgets, Cases

\* The stop task keeps its object and its number.
LEMMA BusyInvStep ==
    ASSUME Known, [Next]_vars, ~ early' PROVE BusyInv'
<1> TypeInv /\ StateInv /\ BusyInv /\ OwnInv
  BY DEF Known, TypeInv
<1> pool' = pool /\ pool \subseteq Threads
  BY PoolStays, PoolThreads
<1>1. ASSUME NEW u \in pool, at'[u] = at[u],
             \A o \in Objects : o \in at[u].left /\ Stopper(u) => m_sockfd'[o] = m_sockfd[o], at'[u].pc \in Busy
      PROVE  at'[u].obj \in at'[u].left /\ (at'[u].pc \in Shutting => m_sockfd'[at'[u].obj] = at'[u].fd)
  <2>1. Stopper(u) /\ at[u].obj \in at[u].left /\ at[u].left \subseteq Objects
    BY <1>1 DEF Stopper, Busy, BusyInv, OwnInv, StateInv
  <2> QED
    BY <1>1, <2>1 DEF BusyInv
<1>2. ASSUME NEW t \in pool, Moved(t), at'[t].pc \notin Busy,
             \A u \in pool \ {t} : \A o \in Objects : o \in at[u].left /\ Stopper(u) => m_sockfd'[o] = m_sockfd[o]
      PROVE  BusyInv'
  <2>1. \A u \in pool : u = t \/ at'[u] = at[u]
    BY <1>2 DEF Moved
  <2> QED
    BY <1>1, <1>2, <2>1 DEF BusyInv
<1>3. ASSUME UNCHANGED <<at, m_sockfd>> PROVE BusyInv'
  BY <1>3 DEF BusyInv
<1>4. CASE \/ BindFails \/ (\E o \in Objects : HandleClient(o))
           \/ \E t \in pool : StopClears(t) \/ (CheckStop(t) /\ m_is_stop)
  <2>1. PICK objs \in SUBSET Objects : Drops(objs)
    BY <1>4, DropsOn
  <2>2. \A c \in Objects : m_sockfd'[c] = IF c \in objs THEN -1 ELSE m_sockfd[c]
    BY <2>1, Destroying DEF Drops
  <2>3. ASSUME NEW u \in pool, at'[u].pc \in Busy
        PROVE  at'[u].obj \in at'[u].left /\ (at'[u].pc \in Shutting => m_sockfd'[at'[u].obj] = at'[u].fd)
    <3>1. at'[u] = at[u] /\ Stopper(u)'
      BY <2>1, <2>3 DEF Drops, Stopper, Busy
    <3>2. at[u].left \subseteq m_sockets' /\ objs \cap m_sockets' = {}
      BY <2>1, <3>1 DEF Drops
    <3> QED
      BY <1>1, <2>2, <2>3, <3>1, <3>2
  <2> QED
    BY <2>3 DEF BusyInv
<1>5. CASE Start \/ Stop \/ (\E n \in Numbers : Wake(n)) \/ (\E o \in Objects : Peer(o)) \/ UNCHANGED vars
  <2>1. UNCHANGED <<at, m_sockfd>>
    BY <1>5 DEF Start, Stop, Wake, Peer, PeerConnects, sockVars, serverVars, vars
  <2> QED
    BY <1>3, <2>1
<1>6. ASSUME NEW t \in pool, StillSteps(t) PROVE BusyInv'
  <2>1. Moved(t) /\ UNCHANGED m_sockfd /\ (Stopper(t)' => at'[t].pc = "stopping")
    BY <1>6, StillMoves DEF sockVars
  <2>2. at'[t].pc \notin Busy
    BY <2>1 DEF Stopper, Busy
  <2> QED
    BY <1>2, <2>1, <2>2
<1>7. ASSUME NEW t \in pool, CancelSteps(t) PROVE BusyInv'
  <2>1. /\ Moved(t) /\ at'[t].left = at[t].left /\ at'[t].obj \in at[t].left /\ UNCHANGED m_sockfd
        /\ at'[t].pc \in Shutting => m_sockfd[at'[t].obj] = at'[t].fd
    BY <1>7, CancelStep DEF sockVars
  <2>2. \A u \in pool : u = t \/ at'[u] = at[u]
    BY <2>1 DEF Moved
  <2> QED
    BY <1>1, <2>1, <2>2 DEF BusyInv
<1>8. ASSUME NEW t \in pool, CloseCloses(t) PROVE BusyInv'
  BY <1>2, <1>8, CloseEffect DEF Busy
<1>9. ASSUME NEW t \in pool, StopForgets(t) PROVE BusyInv'
  <2>1. \A u \in pool : Stopper(u) => u = t
    BY <1>9, ForgetEffect
  <2>2. Moved(t) /\ at'[t].pc \notin Busy
    BY <1>9, ForgetMoves DEF Busy
  <2> QED
    BY <1>2, <2>1, <2>2
<1>10. ASSUME NEW n \in Numbers, objects + 1 \in Objects, Opened(objects + 1, n)
       PROVE  \A u \in pool : \A o \in Objects : o \in at[u].left /\ Stopper(u) => m_sockfd'[o] = m_sockfd[o]
  BY <1>10, OpenedIs DEF OwnInv
<1>11. ASSUME NEW n \in Numbers, Bind(n) PROVE BusyInv'
  <2>1. objects + 1 \in Objects /\ Opened(objects + 1, n) /\ at' = at
    BY <1>11, SocketAssumption DEF Bind, MayBind, StateInv, SocketTypeOK, Objects
  <2> QED
    BY <1>1, <1>10, <2>1 DEF BusyInv
<1>12. ASSUME NEW t \in pool, NEW n \in Numbers, AcceptClient(t, n) PROVE BusyInv'
  <2>1. objects + 1 \in Objects /\ Opened(objects + 1, n) /\ Moved(t) /\ at'[t].pc = "check"
    BY <1>12, PlainMoves DEF AcceptClient, AcceptInto
  <2> QED
    BY <1>2, <1>10, <2>1 DEF Busy
<1> QED
  BY <1>4, <1>5, <1>6, <1>7, <1>8, <1>9, <1>11, <1>12, Cases

-----------------------------------------------------------------------------
(* The numbers that loops call accept() with.                              *)

Owns(o, n) == owner[n] = o /\ m_sockfd[o] = n

LEMMA HeldNext ==
    /\ \A k \in InQueue' : k.obj # 0 => k.obj \in Held'
    /\ \A t \in pool' : Looping(t)' /\ at'[t].obj # 0 => at'[t].obj \in Held'
    /\ \A n \in Numbers : waiting'[n].obj # 0 => waiting'[n].obj \in Held'
BY DEF Held

\* A number goes on to serve its loop, whatever is opened and closed meanwhile;
\* only close() of the stop task takes it from the object.
LEMMA ServesKept ==
    ASSUME Known, [Next]_vars, ~ early', NEW o \in Held, o \in Held', o \in Objects, NEW n \in Numbers
    PROVE  /\ Serves(o, n) => Serves(o, n)'
           /\ Owns(o, n) => Owns(o, n)' \/ \E t \in pool : CloseCloses(t) /\ at[t].fd = n
<1> TypeInv /\ StateInv /\ OwnInv /\ BirthInv
  BY DEF Known, TypeInv
<1>0. owner \in [Numbers -> 0 .. MaxObjects] /\ m_sockfd \in [Objects -> Numbers \cup {-1}]
      /\ 0 \notin Objects /\ listening \subseteq Objects
  BY SocketAssumption DEF StateInv, SocketTypeOK, Objects
<1>1. CASE \/ BindFails \/ (\E c \in Objects : HandleClient(c))
           \/ \E t \in pool : StopClears(t) \/ (CheckStop(t) /\ m_is_stop)
  <2>1. PICK objs \in SUBSET Objects : Drops(objs)
    BY <1>1, DropsOn
  <2>2. /\ \A c \in Objects : m_sockfd'[c] = IF c \in objs THEN -1 ELSE m_sockfd[c]
        /\ owner'[n] = IF owner[n] \in objs THEN 0 ELSE owner[n]
        /\ listening' \subseteq listening
    BY <2>1, Destroying DEF Drops
  <2>3. o \notin objs /\ m_is_stop' = m_is_stop
    BY <2>1 DEF Drops
  <2> QED
    BY <1>0, <2>2, <2>3 DEF Serves, Owns
<1>2. CASE Stop \/ (\E m \in Numbers : Wake(m)) \/ (\E c \in Objects : Peer(c)) \/ UNCHANGED vars
  <2>1. UNCHANGED <<m_sockfd, owner, listening>> /\ (m_is_stop => m_is_stop')
    BY <1>2 DEF Stop, Wake, Peer, PeerConnects, sockVars, serverVars, vars
  <2> QED
    BY <2>1 DEF Serves, Owns
<1>3. CASE Start
  <2>1. Held = {}
    BY <1>3, UserWaits DEF Start
  <2> QED
    BY <2>1
<1>4. ASSUME NEW t \in pool, StillSteps(t) PROVE (Serves(o, n) => Serves(o, n)') /\ (Owns(o, n) => Owns(o, n)')
  <2>1. UNCHANGED <<m_sockfd, owner, listening, m_is_stop>>
    BY <1>4, StillMoves DEF sockVars
  <2> QED
    BY <2>1 DEF Serves, Owns
<1>5. ASSUME NEW m \in Numbers, Bind(m) PROVE (Serves(o, n) => Serves(o, n)') /\ (Owns(o, n) => Owns(o, n)')
  <2>1. objects + 1 \in Objects
    BY <1>5, SocketAssumption DEF Bind, MayBind, StateInv, SocketTypeOK, Objects
  <2>2. Opened(objects + 1, m)
    BY <1>5 DEF Bind
  <2>3. /\ owner[m] = 0 /\ \A i \in Numbers : i # m => owner'[i] = owner[i]
        /\ \A c \in Objects : c # objects + 1 => m_sockfd'[c] = m_sockfd[c]
        /\ objects + 1 \notin Held
    BY <2>1, <2>2, OpenedIs
  <2>4. Owns(o, n) => Owns(o, n)'
    BY <1>0, <2>3 DEF Owns
  <2>5. ~ m_is_stop
    BY <1>5, UserWaits
  <2> QED
    BY <2>4, <2>5 DEF Serves, Owns
<1>6. ASSUME NEW t \in pool, NEW m \in Numbers, AcceptClient(t, m)
      PROVE (Serves(o, n) => Serves(o, n)') /\ (Owns(o, n) => Owns(o, n)')
  <2>1. objects + 1 \in Objects /\ Opened(objects + 1, m) /\ listening' = listening /\ m_is_stop' = m_is_stop
    BY <1>6 DEF AcceptClient, AcceptInto
  <2>2. /\ owner[m] = 0 /\ owner'[m] = objects + 1 /\ \A i \in Numbers : i # m => owner'[i] = owner[i]
        /\ \A c \in Objects : c # objects + 1 => m_sockfd'[c] = m_sockfd[c]
        /\ objects + 1 \notin Held /\ objects + 1 \notin listening
    BY <2>1, OpenedIs
  <2>3. Owns(o, n) => Owns(o, n)'
    BY <1>0, <2>2 DEF Owns
  <2>4. owner[n] \notin listening => owner'[n] \notin listening'
    BY <2>1, <2>2
  <2> QED
    BY <2>1, <2>3, <2>4 DEF Serves, Owns
<1>9. ASSUME NEW t \in pool, CancelSteps(t) PROVE (Serves(o, n) => Serves(o, n)') /\ (Owns(o, n) => Owns(o, n)')
  <2>1. UNCHANGED <<m_sockfd, owner, listening, m_is_stop>>
    BY <1>9, CancelStep DEF sockVars
  <2> QED
    BY <2>1 DEF Serves, Owns
<1>7. ASSUME NEW t \in pool, CloseCloses(t)
      PROVE (Serves(o, n) => Serves(o, n)') /\ (Owns(o, n) => Owns(o, n)' \/ at[t].fd = n)
  <2>1. PICK m \in Numbers, c \in Objects : m = at[t].fd /\ c = at[t].obj
    BY <1>7, CloseEffect
  <2>2. UNCHANGED <<m_sockfd, m_is_stop>> /\ owner' = [owner EXCEPT ![m] = 0] /\ listening' = listening \ {c} /\ m_is_stop
    BY <1>7, <2>1, CloseEffect
  <2>3. owner[n] \notin listening => owner'[n] \notin listening'
    BY <1>0, <2>2
  <2>4. owner'[m] \notin listening'
    BY <1>0, <2>2
  <2>5. n # m => owner'[n] = owner[n]
    BY <1>0, <2>2
  <2> QED
    BY <2>1, <2>2, <2>3, <2>4, <2>5 DEF Serves, Owns
<1>8. ASSUME NEW t \in pool, StopForgets(t) PROVE (Serves(o, n) => Serves(o, n)') /\ (Owns(o, n) => Owns(o, n)')
  <2>1. (\A i \in Numbers : owner[i] # at[t].obj) /\ \A c \in Objects : c # at[t].obj => m_sockfd'[c] = m_sockfd[c]
    BY <1>8, ForgetEffect
  <2>2. UNCHANGED <<owner, listening, m_is_stop>>
    BY <1>8 DEF StopForgets
  <2> QED
    BY <2>1, <2>2 DEF Serves, Owns
<1> QED
  BY <1>1, <1>2, <1>3, <1>4, <1>5, <1>6, <1>7, <1>8, <1>9, Cases

\* What a task that is queued, a loop that is taken up and one that waits
\* come from.
LEMMA QueuedFrom ==
    ASSUME Known, [Next]_vars, NEW k \in InQueue', k.fd # 0
    PROVE  k \in InQueue \/ \E n \in Numbers : waiting[n] # NoLoop /\ k = waiting[n]
<1> TypeInv
  BY DEF Known
<1>1. ASSUME queue' = queue PROVE InQueue' = InQueue
  BY <1>1 DEF InQueue
<1>2. CASE Start
  <2>1. k \in InQueue \/ \E o \in m_sockets : k = Loop(o, 0)
    BY <1>2, StartQueues
  <2>2. \A o : Loop(o, 0).fd = 0
    BY DEF Loop
  <2> QED
    BY <2>1, <2>2
<1>3. CASE Stop
  BY <1>3, StopQueues, Plain
<1>4. ASSUME NEW t \in pool, TakeTask(t) PROVE k \in InQueue
  BY <1>4, TakeQueues
<1>5. ASSUME NEW n \in Numbers, Wake(n) PROVE k \in InQueue \/ (waiting[n] # NoLoop /\ k = waiting[n])
  BY <1>5, WokenIs DEF Wake, Wakes
<1>6. ASSUME NEW t \in pool, (\E o \in Objects : StopCancels(t, o)) \/ CloseCancels(t)
      PROVE  k \in InQueue \/ \E n \in Numbers : waiting[n] # NoLoop /\ k = waiting[n]
  BY <1>1, <1>6, CancelWakes DEF Wakes
<1>7. CASE queue' = queue
  BY <1>1, <1>7
<1>8. \/ Start \/ Stop \/ (\E t \in pool : TakeTask(t)) \/ (\E n \in Numbers : Wake(n))
      \/ (\E t \in pool : (\E o \in Objects : StopCancels(t, o)) \/ CloseCancels(t)) \/ queue' = queue
  BY DEF Next, User, ThreadStep, BindFails, Bind, CheckStop, CallAccept, AcceptError, AcceptBlocks, AddFails,
     AcceptWaits, CloseRemoves, CloseCloses, StopForgets, StopClears, AcceptClient, HandleClient, Peer, vars, serverVars
<1> QED
  BY <1>2, <1>3, <1>4, <1>5, <1>6, <1>7, <1>8

\* Every step of a thread moves this thread, and no other.
LEMMA ThreadMoves ==
    ASSUME TypeInv, NEW t \in pool, ThreadStep(t) PROVE Moved(t)
<1>1. CASE TakeTask(t)
  BY <1>1, TakeMoves
<1>2. CASE CheckStop(t)
  BY <1>2, GotoMoves, IdleMoves DEF CheckStop, Places
<1>3. CASE CallAccept(t)
  BY <1>3, CallMoves
<1>4. CASE \/ AcceptError(t) \/ AcceptBlocks(t) \/ AddFails(t) \/ CloseRemoves(t) \/ CloseCloses(t)
           \/ \E n \in Numbers : AcceptClient(t, n)
  BY <1>4, PlainMoves
<1>5. CASE AcceptWaits(t) \/ StopClears(t)
  BY <1>5, IdleMoves DEF AcceptWaits, StopClears
<1>6. CASE StopForgets(t)
  BY <1>6, ForgetMoves
<1>7. CASE (\E o \in Objects : StopCancels(t, o)) \/ CloseCancels(t)
  BY <1>7, CancelMoves, SecondMoves
<1> QED
  BY <1>1, <1>2, <1>3, <1>4, <1>5, <1>6, <1>7 DEF ThreadStep

LEMMA Others ==
    ASSUME Known, [Next]_vars, NEW t \in pool, ~ ThreadStep(t) PROVE at'[t] = at[t]
<1> TypeInv
  BY DEF Known
<1>1. at' = at \/ \E u \in pool : ThreadStep(u)
  BY DEF Next, User, Start, Stop, BindFails, Bind, Wake, HandleClient, Peer, vars, serverVars
<1>2. ASSUME NEW u \in pool, ThreadStep(u) PROVE at'[t] = at[t]
  BY <1>2, ThreadMoves, PoolThreads DEF Moved
<1> QED
  BY <1>1, <1>2

LEMMA TriesFrom ==
    ASSUME Known, [Next]_vars, NEW t \in pool, at'[t].pc \in Using
    PROVE  \/ at[t].pc \in Using /\ at'[t].obj = at[t].obj /\ at'[t].fd = at[t].fd
           \/ Head(queue) \in InQueue /\ Head(queue).fd # 0 /\ at'[t].obj = Head(queue).obj /\ at'[t].fd = Head(queue).fd
           \/ CallAccept(t) /\ at'[t].obj = at[t].obj /\ at'[t].fd = m_sockfd[at[t].obj] /\ at'[t].fd \in Numbers
<1> TypeInv
  BY DEF Known
<1>1. CASE TakeTask(t)
  BY <1>1, TakeMoves DEF Using
<1>2. CASE CheckStop(t)
  BY <1>2, GotoMoves, IdleMoves DEF CheckStop, Using, Places
<1>3. CASE CallAccept(t)
  BY <1>3, CallMoves DEF Using
<1>4. CASE AcceptError(t) \/ AddFails(t) \/ CloseRemoves(t) \/ CloseCloses(t) \/ \E n \in Numbers : AcceptClient(t, n)
  BY <1>4, PlainMoves DEF Using
<1>5. CASE AcceptWaits(t) \/ StopClears(t)
  BY <1>5, IdleMoves DEF AcceptWaits, StopClears, Using
<1>6. CASE StopForgets(t)
  BY <1>6, ForgetMoves DEF Using
<1>7. CASE (\E o \in Objects : StopCancels(t, o)) \/ CloseCancels(t)
  BY <1>7, CancelMoves, SecondMoves DEF Using
<1>8. CASE AcceptBlocks(t)
  BY <1>8, PlainMoves DEF AcceptBlocks, Using
<1>9. CASE ~ ThreadStep(t)
  BY <1>9, Others
<1> QED
  BY <1>1, <1>2, <1>3, <1>4, <1>5, <1>6, <1>7, <1>8, <1>9 DEF ThreadStep

LEMMA WaitFrom ==
    ASSUME Known, [Next]_vars, NEW n \in Numbers, waiting'[n] # NoLoop
    PROVE  \/ waiting'[n] = waiting[n]
           \/ \E t \in pool : AcceptWaits(t) /\ n = at[t].fd /\ waiting'[n] = Loop(at[t].obj, n)
<1> StateInv /\ TaskInv /\ TypeInv
  BY DEF Known, TypeInv
<1> waiting \in [Numbers -> TaskTypes] /\ pool \subseteq Threads
  BY PoolThreads DEF TaskInv
<1>1. ASSUME NEW t \in pool, (\E o \in Objects : StopCancels(t, o)) \/ CloseCancels(t) PROVE waiting'[n] = waiting[n]
  BY <1>1, CancelWakes DEF Wakes
<1>2. ASSUME NEW m \in Numbers, Wake(m) PROVE waiting'[n] = waiting[n]
  BY <1>2, WokenIs DEF Wake, Wakes
<1>3. ASSUME NEW t \in pool, AcceptWaits(t) PROVE waiting'[n] = waiting[n] \/ (n = at[t].fd /\ waiting'[n] = Loop(at[t].obj, n))
  <2>1. at[t].fd \in Numbers /\ waiting' = [waiting EXCEPT ![at[t].fd] = Loop(at[t].obj, at[t].fd)]
    BY <1>3 DEF AcceptWaits, TaskInv, Using
  <2> QED
    BY <2>1
<1>4. \/ (\E t \in pool : (\E o \in Objects : StopCancels(t, o)) \/ CloseCancels(t)) \/ (\E m \in Numbers : Wake(m))
      \/ (\E t \in pool : AcceptWaits(t)) \/ waiting' = waiting
  BY DEF Next, User, ThreadStep, Start, Stop, BindFails, Bind, TakeTask, CheckStop, CallAccept, AcceptError, AcceptBlocks,
     AddFails, CloseRemoves, CloseCloses, StopForgets, StopClears, AcceptClient, HandleClient, Peer, vars, serverVars
<1> QED
  BY <1>1, <1>2, <1>3, <1>4

LEMMA WaitingHeld ==
    ASSUME TypeInv, NEW n \in Numbers, waiting[n] # NoLoop
    PROVE  waiting[n].obj \in Objects /\ waiting[n].obj \in Held /\ waiting[n].fd = n
<1>1. waiting[n].obj \in Objects /\ waiting[n].fd = n
  BY DEF TypeInv, TaskInv
<1> QED
  BY <1>1, Plain, HeldHas

LEMMA LoopInvStep ==
    ASSUME Known, [Next]_vars, ~ early' PROVE LoopInv'
<1> TypeInv /\ StateInv /\ TaskInv /\ LoopInv /\ OwnInv /\ BirthInv
  BY DEF Known, TypeInv
<1> TypeInv'
  BY TypeStep
<1> pool' = pool /\ pool \subseteq Threads
  BY PoolStays, PoolThreads
<1>0. Objects \subseteq 0 .. MaxObjects /\ 0 \notin Objects /\ 0 \notin Numbers
  BY Plain
<1>1. \A k \in InQueue : k.fd # 0 => k.obj \in Objects /\ k.obj \in Held /\ k.fd \in Numbers /\ Serves(k.obj, k.fd)
  <2>1. \A k \in InQueue : k \in TaskTypes
    BY DEF TaskInv, InQueue
  <2>2. \A k \in InQueue : k.fd # 0 => k.fd \in Numbers
    BY <2>1 DEF TaskTypes
  <2>3. \A k \in InQueue : k.fd # 0 => k.obj \in Objects
    BY Plain DEF TaskInv
  <2>4. \A k \in InQueue : k.fd # 0 => k.obj \in Held
    BY <1>0, <2>3, HeldHas
  <2> QED
    BY <2>2, <2>3, <2>4 DEF LoopInv
<1>3. \A t \in pool : Looping(t) => at[t].obj \in Objects /\ at[t].obj \in Held
  BY <1>0, HeldHas DEF TaskInv
<1>4. ASSUME NEW k \in InQueue', k.fd # 0 PROVE Serves(k.obj, k.fd)'
  <2>1. k.obj \in Objects /\ k.obj \in Held /\ k.fd \in Numbers /\ Serves(k.obj, k.fd)
    <3>1. CASE k \in InQueue
      BY <1>1, <1>4, <3>1
    <3>2. CASE k \notin InQueue
      <4>1. PICK n \in Numbers : waiting[n] # NoLoop /\ k = waiting[n]
        BY <1>4, <3>2, QueuedFrom
      <4> QED
        BY <4>1, WaitingHeld DEF LoopInv
    <3> QED
      BY <3>1, <3>2
  <2>2. k.obj \in Held'
    BY <1>0, <2>1, HeldNext
  <2> QED
    BY <2>1, <2>2, ServesKept
<1>5. ASSUME NEW t \in pool, at'[t].pc \in Using
      PROVE  \/ owner'[at'[t].fd] = at'[t].obj /\ m_sockfd'[at'[t].obj] = at'[t].fd
             \/ m_is_stop' /\ owner'[at'[t].fd] \notin listening'
  <2>1. at'[t].obj \in Objects /\ at'[t].obj \in Held /\ at'[t].fd \in Numbers /\ Serves(at'[t].obj, at'[t].fd)
    <3>1. CASE at[t].pc \in Using /\ at'[t].obj = at[t].obj /\ at'[t].fd = at[t].fd
      <4>1. Looping(t)
        BY <3>1 DEF Looping, Using
      <4> QED
        BY <1>3, <3>1, <4>1 DEF TaskInv, LoopInv
    <3>2. CASE Head(queue) \in InQueue /\ Head(queue).fd # 0 /\ at'[t].obj = Head(queue).obj /\ at'[t].fd = Head(queue).fd
      BY <1>1, <3>2
    <3>3. CASE CallAccept(t) /\ at'[t].obj = at[t].obj /\ at'[t].fd = m_sockfd[at[t].obj] /\ at'[t].fd \in Numbers
      <4>1. at[t].obj \in Objects /\ at[t].obj \in Held
        BY <1>3, <3>3 DEF CallAccept, Looping
      <4>2. IsValid(at[t].obj)
        BY <3>3, Plain DEF IsValid
      <4>3. CASE owner[m_sockfd[at[t].obj]] = at[t].obj
        BY <3>3, <4>1, <4>3 DEF Serves
      <4>4. CASE \E u \in pool : Closing(u, at[t].obj)
        <5>1. PICK u \in pool : Closing(u, at[t].obj)
          BY <4>4
        <5>2. owner[m_sockfd[at[t].obj]] \notin listening
          BY <4>1, <4>2, <5>1 DEF OwnInv
        <5>3. m_is_stop
          BY <5>1, NoStopper DEF Closing, Stopper
        <5> QED
          BY <3>3, <4>1, <5>2, <5>3 DEF Serves
      <4> QED
        BY <4>1, <4>2, <4>3, <4>4 DEF OwnInv
    <3> QED
      BY <1>5, <3>1, <3>2, <3>3, TriesFrom
  <2>2. at'[t].obj \in Held'
    BY <1>0, <1>5, <2>1, HeldNext DEF Looping, Using
  <2>3. \A o, n : o = at'[t].obj /\ n = at'[t].fd => Serves(o, n)'
    BY <2>1, <2>2, ServesKept
  <2> QED
    BY <2>3 DEF Serves
<1>6. ASSUME NEW n \in Numbers, waiting'[n] # NoLoop
      PROVE  \/ owner'[n] = waiting'[n].obj /\ m_sockfd'[waiting'[n].obj] = n
             \/ m_is_stop' /\ owner'[n] \notin listening'
  <2>1. waiting'[n].obj \in Objects /\ waiting'[n].obj \in Held /\ Serves(waiting'[n].obj, n)
    <3>1. CASE waiting'[n] = waiting[n]
      BY <1>6, <3>1, WaitingHeld DEF LoopInv
    <3>2. ASSUME NEW t \in pool, AcceptWaits(t), n = at[t].fd, waiting'[n] = Loop(at[t].obj, n)
          PROVE  waiting'[n].obj \in Objects /\ waiting'[n].obj \in Held /\ Serves(waiting'[n].obj, n)
      <4>1. at[t].pc = "add" /\ waiting'[n].obj = at[t].obj
        BY <3>2 DEF AcceptWaits, Loop
      <4> QED
        BY <1>3, <3>2, <4>1 DEF LoopInv, Looping, Using
    <3> QED
      BY <1>6, <3>1, <3>2, WaitFrom
  <2>2. waiting'[n].obj \in Held'
    BY <1>0, <2>1, HeldNext
  <2>3. \A o : o = waiting'[n].obj => Serves(o, n)'
    BY <2>1, <2>2, ServesKept
  <2> QED
    BY <2>3 DEF Serves
<1>7. \A k \in InQueue' : k.fd # 0 => Serves(k.obj, k.fd)'
  BY <1>4
<1>8. \A t \in pool : at'[t].pc \in Using =>
         \/ owner'[at'[t].fd] = at'[t].obj /\ m_sockfd'[at'[t].obj] = at'[t].fd
         \/ m_is_stop' /\ owner'[at'[t].fd] \notin listening'
  BY <1>5
<1>9. \A n \in Numbers : waiting'[n] # NoLoop =>
         \/ owner'[n] = waiting'[n].obj /\ m_sockfd'[waiting'[n].obj] = n
         \/ m_is_stop' /\ owner'[n] \notin listening'
  BY <1>6
<1> QED
  BY <1>7, <1>8, <1>9 DEF LoopInv, Serves

-----------------------------------------------------------------------------
(* The loops that wait.                                                    *)

LEMMA MissedStays == ASSUME TypeInv, [Next]_vars, ~ missed' PROVE ~ missed
BY DEF Next, User, Start, Stop, BindFails, Bind, ThreadStep, TakeTask, CheckStop, CallAccept,
   AcceptError, AcceptBlocks, AddFails, AcceptWaits, AcceptClient, StopCancels, CloseCancels, CloseRemoves,
   CloseCloses, StopForgets, StopClears, Wake, HandleClient, Peer, vars, histVars

\* A loop that registers in time does so on the number that its object owns.
LEMMA InTime ==
    ASSUME Known, NEW t \in pool, AcceptWaits(t), ~ missed'
    PROVE  /\ at[t].obj \in Objects /\ at[t].fd \in Numbers /\ Owns(at[t].obj, at[t].fd)
           /\ UNCHANGED <<owner, m_sockfd>> /\ watched' = watched \cup {at[t].fd}
           /\ \A u \in pool : at[u].pc \in Shutting => at[u].obj # at[t].obj
<1>1. OwnInv /\ TaskInv /\ t \in Threads
  BY PoolThreads DEF Known, TypeInv
<1>2. at[t].obj \in Objects /\ at[t].fd \in Numbers
  BY <1>1 DEF AcceptWaits, TaskInv, Looping, Using
<1>3. m_sockfd[at[t].obj] = at[t].fd /\ \A u \in pool : ~ Quiet(u, at[t].obj)
  BY DEF AcceptWaits
<1>4. IsValid(at[t].obj) /\ \A u \in pool : ~ Closing(u, at[t].obj)
  BY <1>2, <1>3, Plain DEF IsValid, Closing, Quiet
<1>5. owner[at[t].fd] = at[t].obj
  BY <1>1, <1>2, <1>3, <1>4 DEF OwnInv
<1> QED
  BY <1>2, <1>3, <1>5 DEF AcceptWaits, sockVars, Owns, Quiet, Shutting

\* A thread that is about to close a number is the one that cancelled it.
LEMMA ShuttingFrom ==
    ASSUME Known, [Next]_vars, NEW t \in pool, at'[t].pc \in Shutting
    PROVE  (at[t].pc \in Shutting /\ at'[t].fd = at[t].fd) \/ CloseCancels(t)
<1> TypeInv
  BY DEF Known
<1>1. CASE TakeTask(t)
  BY <1>1, TakeMoves DEF Shutting
<1>2. CASE CheckStop(t)
  BY <1>2, GotoMoves, IdleMoves DEF CheckStop, Shutting, Places
<1>3. CASE CallAccept(t)
  BY <1>3, CallMoves DEF Shutting
<1>4. CASE AcceptError(t) \/ AddFails(t) \/ AcceptBlocks(t) \/ CloseCloses(t) \/ \E n \in Numbers : AcceptClient(t, n)
  BY <1>4, PlainMoves DEF Shutting
<1>5. CASE AcceptWaits(t) \/ StopClears(t)
  BY <1>5, IdleMoves DEF AcceptWaits, StopClears, Shutting
<1>6. CASE StopForgets(t)
  BY <1>6, ForgetMoves DEF Shutting
<1>7. CASE \E o \in Objects : StopCancels(t, o)
  BY <1>7, CancelMoves DEF Shutting
<1>8. CASE CloseRemoves(t)
  BY <1>8, PlainMoves DEF CloseRemoves, Shutting
<1>9. CASE ~ ThreadStep(t)
  BY <1>9, Others
<1> QED
  BY <1>1, <1>2, <1>3, <1>4, <1>5, <1>6, <1>7, <1>8, <1>9 DEF ThreadStep

\* epoll goes on watching a number on which a loop waits, unless it is closed.
LEMMA WatchedKept ==
    ASSUME Known, [Next]_vars, NEW n \in watched, n \in Numbers, waiting'[n] # NoLoop, owner'[n] # 0
    PROVE  n \in watched'
<1> TypeInv /\ StateInv /\ TaskInv
  BY DEF Known, TypeInv
<1>1. ASSUME NEW m \in Numbers, Wakes(m) PROVE n \in watched'
  BY <1>1 DEF Wakes
<1>2. ASSUME NEW m \in Numbers, Wake(m) PROVE n \in watched'
  BY <1>1, <1>2, WokenIs DEF Wake
<1>3. ASSUME NEW t \in pool, (\E o \in Objects : StopCancels(t, o)) \/ CloseCancels(t) PROVE n \in watched'
  BY <1>1, <1>3, CancelWakes
<1>4. ASSUME NEW objs, Destroyed(objs) PROVE n \in watched'
  BY <1>4 DEF Destroyed
<1>5. ASSUME NEW t \in pool, CloseCloses(t) PROVE n \in watched'
  <2>1. at[t].fd \in Numbers /\ owner' = [owner EXCEPT ![at[t].fd] = 0] /\ watched' = watched \ {at[t].fd}
    BY <1>5, CloseEffect
  <2> QED
    BY <2>1 DEF StateInv, SocketTypeOK
<1>6. CASE watched \subseteq watched'
  BY <1>6
<1>7. \/ (\E m \in Numbers : Wake(m)) \/ (\E objs : Destroyed(objs)) \/ watched \subseteq watched'
      \/ \E t \in pool : (\E o \in Objects : StopCancels(t, o)) \/ CloseCancels(t) \/ CloseCloses(t)
  BY DEF Next, User, ThreadStep, Start, Stop, BindFails, Bind, TakeTask, CheckStop, CallAccept, AcceptError, AcceptBlocks,
     AddFails, AcceptWaits, CloseRemoves, StopForgets, StopClears, AcceptClient, HandleClient, Peer, vars, serverVars
<1> QED
  BY <1>2, <1>3, <1>4, <1>5, <1>6, <1>7

LEMMA WaitInvStep ==
    ASSUME Known, [Next]_vars, ~ early' PROVE WaitInv'
<1> TypeInv /\ StateInv /\ TaskInv /\ BusyInv
  BY DEF Known, TypeInv
<1> pool' = pool /\ pool \subseteq Threads
  BY PoolStays, PoolThreads
<1> SUFFICES ASSUME ~ missed'
             PROVE  /\ \A n \in Numbers : waiting'[n] # NoLoop =>
                          owner'[n] = waiting'[n].obj /\ m_sockfd'[waiting'[n].obj] = n /\ n \in watched'
                    /\ \A t \in pool : at'[t].pc \in Shutting => waiting'[at'[t].fd] = NoLoop
  BY DEF WaitInv
<1>1. /\ \A n \in Numbers : waiting[n] # NoLoop => Owns(waiting[n].obj, n) /\ n \in watched
      /\ \A t \in pool : at[t].pc \in Shutting => waiting[at[t].fd] = NoLoop
  BY MissedStays DEF Known, WaitInv, Owns
<1>2. ASSUME NEW n \in Numbers, waiting'[n] # NoLoop
      PROVE  owner'[n] = waiting'[n].obj /\ m_sockfd'[waiting'[n].obj] = n /\ n \in watched'
  <2>1. CASE waiting'[n] = waiting[n]
    <3>1. waiting[n].obj \in Objects /\ waiting[n].obj \in Held /\ Owns(waiting[n].obj, n) /\ n \in watched
      BY <1>1, <1>2, <2>1, WaitingHeld
    <3>2. waiting[n].obj \in Held'
      BY <2>1, <3>1, HeldNext, Plain
    <3>3. \A t \in pool : CloseCloses(t) => at[t].fd # n
      BY <1>1, <1>2, <2>1 DEF CloseCloses, Shutting
    <3>4. \A o : o = waiting[n].obj => Owns(o, n)'
      BY <3>1, <3>2, <3>3, ServesKept
    <3>5. owner'[n] = waiting[n].obj /\ m_sockfd'[waiting[n].obj] = n
      BY <3>4 DEF Owns
    <3>6. n \in watched'
      BY <1>2, <3>1, <3>5, WatchedKept, Plain
    <3> QED
      BY <2>1, <3>5, <3>6
  <2>2. ASSUME NEW t \in pool, AcceptWaits(t), n = at[t].fd, waiting'[n] = Loop(at[t].obj, n)
        PROVE  owner'[n] = waiting'[n].obj /\ m_sockfd'[waiting'[n].obj] = n /\ n \in watched'
    <3>1. waiting'[n].obj = at[t].obj
      BY <2>2 DEF Loop
    <3> QED
      BY <2>2, <3>1, InTime DEF Owns
  <2> QED
    BY <1>2, <2>1, <2>2, WaitFrom
<1>3. ASSUME NEW t \in pool, at'[t].pc \in Shutting PROVE waiting'[at'[t].fd] = NoLoop
  <2>1. CASE CloseCancels(t)
    <3>1. at[t].pc = "cancelled" /\ Stopper(t) /\ at[t].obj \in at[t].left
      BY <2>1 DEF CloseCancels, Stopper, BusyInv, Busy
    <3>2. IsValid(at[t].obj) /\ m_sockfd[at[t].obj] \in Numbers
      BY <3>1, LeftOwns
    <3>3. PICK n \in Numbers : n = m_sockfd[at[t].obj]
      BY <3>2
    <3>4. Woken(n) /\ at'[t].fd = n
      BY <2>1, <3>2, <3>3, SecondMoves DEF CloseCancels
    <3>5. Wakes(n)
      BY <3>4, WokenIs
    <3> QED
      BY <1>1, <3>4, <3>5 DEF Wakes
  <2>2. CASE at[t].pc \in Shutting /\ at'[t].fd = at[t].fd
    <3>1. at[t].pc # "closed" /\ Stopper(t) /\ at[t].obj \in at[t].left /\ m_sockfd[at[t].obj] = at[t].fd
      BY <2>2 DEF Stopper, BusyInv, Busy, Shutting
    <3>2. at[t].fd \in Numbers /\ owner[at[t].fd] = at[t].obj
      BY <3>1, LeftOwns
    <3>3. waiting[at[t].fd] = NoLoop
      BY <1>1, <2>2
    <3>4. SUFFICES ASSUME waiting'[at[t].fd] # NoLoop PROVE FALSE
      BY <2>2
    <3>5. PICK u \in pool : AcceptWaits(u) /\ at[t].fd = at[u].fd
      BY <3>2, <3>3, <3>4, WaitFrom
    <3>6. owner[at[u].fd] = at[u].obj /\ at[t].obj # at[u].obj
      BY <2>2, <3>5, InTime DEF Owns
    <3> QED
      BY <3>2, <3>5, <3>6
  <2> QED
    BY <1>3, <2>1, <2>2, ShuttingFrom
<1> QED
  BY <1>2, <1>3

\* One thread has no stop task beside the loop that it runs.
LEMMA OneInvStep ==
    ASSUME Known, [Next]_vars, ~ early' PROVE OneInv'
<1> TypeInv /\ StateInv /\ TaskInv /\ LoopInv
  BY DEF Known, TypeInv
<1> pool' = pool /\ pool \subseteq Threads
  BY PoolStays, PoolThreads
<1> SUFFICES ASSUME Cardinality(pool) = 1
             PROVE  /\ ~ missed'
                    /\ \A t \in pool : at'[t].pc = "add" => owner'[at'[t].fd] = at'[t].obj /\ m_sockfd'[at'[t].obj] = at'[t].fd
  BY DEF OneInv
<1>1. \A t, u \in pool : t = u
  <2>1. IsFiniteSet(pool)
    BY ServerAssumption DEF StateInv
  <2>2. \E x : pool = {x}
    BY <2>1, FS_Singleton
  <2> QED
    BY <2>2
<1>2. ~ missed /\ \A t \in pool : at[t].pc = "add" => Owns(at[t].obj, at[t].fd)
  BY DEF Known, OneInv, Owns
<1>3. ~ missed'
  <2>1. ASSUME NEW t \in pool, AcceptWaits(t) PROVE ~ missed'
    <3>1. at[t].pc = "add" /\ m_sockfd[at[t].obj] = at[t].fd
      BY <1>2, <2>1 DEF AcceptWaits, Owns
    <3>2. \A u \in pool : ~ Quiet(u, at[t].obj)
      BY <1>1, <3>1 DEF Quiet
    <3> QED
      BY <1>2, <2>1, <3>1, <3>2 DEF AcceptWaits
  <2>2. missed' = missed \/ \E t \in pool : AcceptWaits(t)
    BY DEF Next, User, Start, Stop, BindFails, Bind, ThreadStep, TakeTask, CheckStop, CallAccept,
       AcceptError, AcceptBlocks, AddFails, AcceptClient, StopCancels, CloseCancels, CloseRemoves,
       CloseCloses, StopForgets, StopClears, Wake, HandleClient, Peer, vars, histVars
  <2> QED
    BY <1>2, <2>1, <2>2
<1>4. ASSUME NEW t \in pool, at'[t].pc = "add"
      PROVE  owner'[at'[t].fd] = at'[t].obj /\ m_sockfd'[at'[t].obj] = at'[t].fd
  <2>1. CASE AcceptBlocks(t)
    <3>1. at[t].pc = "try" /\ owner[at[t].fd] \in listening /\ UNCHANGED <<owner, m_sockfd>>
      BY <2>1 DEF AcceptBlocks, WouldBlock, sockVars
    <3>2. owner[at[t].fd] = at[t].obj /\ m_sockfd[at[t].obj] = at[t].fd
      BY <3>1 DEF LoopInv, Serves, Using
    <3> QED
      BY <2>1, <3>1, <3>2, PlainMoves
  <2>2. CASE at'[t] = at[t]
    <3>1. at[t].obj \in Objects /\ at[t].fd \in Numbers /\ Looping(t) /\ Owns(at[t].obj, at[t].fd)
      BY <1>2, <1>4, <2>2 DEF TaskInv, Looping, Using
    <3>2. at[t].obj \in Held /\ at[t].obj \in Held'
      BY <1>4, <2>2, <3>1, HeldHas, HeldNext, Plain DEF Looping
    <3>3. \A u \in pool : ~ CloseCloses(u)
      BY <1>1, <1>4, <2>2 DEF CloseCloses
    <3>4. \A o, n : o = at[t].obj /\ n = at[t].fd => Owns(o, n)'
      BY <3>1, <3>2, <3>3, ServesKept
    <3> QED
      BY <2>2, <3>4 DEF Owns
  <2>3. AcceptBlocks(t) \/ at'[t] = at[t]
    <3>1. CASE TakeTask(t)
      BY <1>4, <3>1, TakeMoves
    <3>2. CASE CheckStop(t)
      BY <1>4, <3>2, GotoMoves, IdleMoves DEF CheckStop, Places
    <3>3. CASE CallAccept(t)
      BY <1>4, <3>3, CallMoves
    <3>4. CASE AcceptError(t) \/ AddFails(t) \/ CloseRemoves(t) \/ CloseCloses(t) \/ \E n \in Numbers : AcceptClient(t, n)
      BY <1>4, <3>4, PlainMoves
    <3>5. CASE AcceptWaits(t) \/ StopClears(t)
      BY <1>4, <3>5, IdleMoves DEF AcceptWaits, StopClears
    <3>6. CASE StopForgets(t)
      BY <1>4, <3>6, ForgetMoves
    <3>7. CASE (\E o \in Objects : StopCancels(t, o)) \/ CloseCancels(t)
      BY <1>4, <3>7, CancelMoves, SecondMoves
    <3>8. CASE ~ ThreadStep(t)
      BY <3>8, Others
    <3> QED
      BY <3>1, <3>2, <3>3, <3>4, <3>5, <3>6, <3>7, <3>8 DEF ThreadStep
  <2> QED
    BY <2>1, <2>2, <2>3
<1> QED
  BY <1>3, <1>4
-----------------------------------------------------------------------------
(* Sockets lose their numbers only while the stop task runs.               *)

\* A step that takes no number from an object and stops nobody.
LEMMA ValidCalm ==
    ASSUME Known, pool' = pool, Held' \subseteq Held, m_sockets' = m_sockets, m_is_stop' = m_is_stop \/ m_is_stop',
           \A o \in Objects : IsValid(o) => IsValid(o)', SameClosing,
           \A t \in pool : (Stopper(t)' <=> Stopper(t)) /\ (Stopper(t) => at'[t].left = at[t].left),
           Cardinality(pool) = 1 =>
               ~ invalid' /\ \A t \in pool : at'[t].pc = "accept" => at'[t].obj \in Objects /\ IsValid(at'[t].obj)
    PROVE  ValidInv'
<1> ValidInv /\ StateInv /\ BirthInv /\ TypeInv
  BY DEF Known, TypeInv
<1>1. m_sockets \subseteq Objects /\ Held \subseteq Objects
  <2>1. 1 .. objects \subseteq Objects
    BY SocketAssumption DEF StateInv, SocketTypeOK, Objects
  <2> QED
    BY <2>1 DEF BirthInv
<1>2. (\A t \in pool : ~ Stopper(t)') => \A o \in m_sockets : IsValid(o)'
  BY <1>1 DEF ValidInv
<1>3. ASSUME NEW t \in pool, Stopper(t)', NEW o \in at'[t].left PROVE Closing(t, o)' \/ IsValid(o)'
  <2>1. Stopper(t) /\ o \in at[t].left
    BY <1>3
  <2>2. o \in Objects
    BY <1>1, <2>1 DEF Known, OwnInv
  <2> QED
    BY <2>1, <2>2 DEF ValidInv, SameClosing
<1>4. ~ m_is_stop' => \A o \in Held' : IsValid(o)'
  BY <1>1 DEF ValidInv
<1>5. Cardinality(pool) = 1 => ~ invalid' /\ \A t \in pool : at'[t].pc = "accept" => m_sockfd'[at'[t].obj] # -1
  BY DEF IsValid
<1> QED
  BY <1>2, <1>3, <1>4, <1>5 DEF ValidInv, IsValid

LEMMA ValidInvStep ==
    ASSUME Known, [Next]_vars, ~ early' PROVE ValidInv'
<1> TypeInv /\ StateInv /\ TaskInv /\ BirthInv /\ StopInv /\ OwnInv /\ ValidInv
  BY DEF Known, TypeInv
<1> pool' = pool /\ pool \subseteq Threads
  BY PoolStays, PoolThreads
<1>1. m_sockets \subseteq Objects /\ Held \subseteq Objects /\ 0 \notin Objects
  <2>1. 1 .. objects \subseteq Objects /\ 0 \notin Objects
    BY SocketAssumption DEF StateInv, SocketTypeOK, Objects
  <2> QED
    BY <2>1 DEF BirthInv
<1>2. \A t \in pool : at[t].pc = "accept" => at[t].obj \in Objects /\ at[t].obj \in Held
  BY <1>1, HeldHas DEF TaskInv, Looping
<1>3. Cardinality(pool) = 1 => ~ invalid /\ \A t \in pool : at[t].pc = "accept" => IsValid(at[t].obj)
  BY DEF ValidInv
<1>4. ~ Start => Held' \subseteq Held
  BY HeldStep
<1>5. CASE \/ BindFails \/ (\E o \in Objects : HandleClient(o))
           \/ \E t \in pool : StopClears(t) \/ (CheckStop(t) /\ m_is_stop)
  <2>1. PICK objs \in SUBSET Objects : Drops(objs)
    BY <1>5, DropsOn
  <2>2. \A o \in Objects : m_sockfd'[o] = IF o \in objs THEN -1 ELSE m_sockfd[o]
    BY <2>1, Destroying DEF Drops
  <2>3. \A o \in Objects : o \notin objs => (IsValid(o) => IsValid(o)')
    BY <2>2 DEF IsValid
  <2>4. objs \cap (m_sockets' \cup Held') = {} /\ SameClosing
    BY <2>1 DEF Drops
  <2>5. ~ Start
    BY <1>5 DEF BindFails, HandleClient, StopClears, CheckStop, Start, StateInv, SocketTypeOK
  <2>6. (\A t \in pool : ~ Stopper(t)') => \A o \in m_sockets' : IsValid(o)'
    <3>1. CASE m_sockets' = {}
      BY <3>1
    <3>2. CASE m_sockets' = m_sockets /\ \A t \in pool : Stopper(t) => Stopper(t)'
      BY <1>1, <2>3, <2>4, <3>2 DEF ValidInv
    <3> QED
      BY <2>1, <3>1, <3>2 DEF Drops
  <2>7. ASSUME NEW t \in pool, Stopper(t)', NEW o \in at'[t].left PROVE Closing(t, o)' \/ IsValid(o)'
    <3>1. Stopper(t) /\ o \in at[t].left /\ o \in m_sockets'
      BY <2>1, <2>7 DEF Drops
    <3>2. o \in Objects
      BY <1>1, <3>1 DEF OwnInv
    <3> QED
      BY <2>3, <2>4, <3>1, <3>2 DEF ValidInv, SameClosing
  <2>8. ~ m_is_stop' => \A o \in Held' : IsValid(o)'
    <3>1. m_is_stop' = m_is_stop /\ Held' \subseteq Held
      BY <1>4, <2>1, <2>5 DEF Drops
    <3> QED
      BY <1>1, <2>3, <2>4, <3>1 DEF ValidInv
  <2>9. Cardinality(pool) = 1 => ~ invalid' /\ \A t \in pool : at'[t].pc = "accept" => m_sockfd'[at'[t].obj] # -1
    <3>1. invalid' = invalid /\ \A t \in pool : at'[t].pc = "accept" => at'[t] = at[t]
      BY <2>1 DEF Drops
    <3>2. \A t \in pool : at'[t].pc = "accept" => at[t].obj \in Objects /\ at[t].obj \in Held'
      BY <1>1, <1>2, <3>1, HeldNext DEF Looping
    <3> QED
      BY <1>3, <2>2, <2>4, <3>1, <3>2 DEF IsValid
  <2> QED
    BY <2>6, <2>7, <2>8, <2>9 DEF ValidInv, IsValid
<1>6. CASE Stop \/ (\E n \in Numbers : Wake(n)) \/ (\E o \in Objects : Peer(o)) \/ UNCHANGED vars
  <2>1. UNCHANGED <<m_sockfd, m_sockets, at, invalid>> /\ (m_is_stop' = m_is_stop \/ m_is_stop') /\ ~ Start
    BY <1>6 DEF Stop, Wake, Peer, PeerConnects, sockVars, serverVars, histVars, vars, Start, StateInv
  <2>2. SameClosing /\ (\A o \in Objects : IsValid(o) => IsValid(o)') /\ \A t \in pool : Stopper(t)' <=> Stopper(t)
    BY <2>1 DEF SameClosing, Closing, IsValid, Stopper
  <2> QED
    BY <1>2, <1>3, <1>4, <2>1, <2>2, ValidCalm
<1>7. CASE Start
  <2>1. ~ StopPending /\ Held = {} /\ UNCHANGED <<m_sockfd, m_sockets, at, invalid>>
    BY <1>7, UserWaits DEF Start, sockVars
  <2>2. \A t \in pool : ~ Stopper(t)
    BY <2>1, NoStopper
  <2>3. \A o \in m_sockets : IsValid(o)
    BY <2>2 DEF ValidInv
  <2>4. Held' \subseteq m_sockets
    BY <1>7, <2>1, HeldStep
  <2>5. \A t \in pool : ~ Stopper(t)'
    BY <2>1, <2>2 DEF Stopper
  <2> QED
    BY <1>3, <2>1, <2>3, <2>4, <2>5 DEF ValidInv, IsValid
<1>8. ASSUME NEW n \in Numbers, objects + 1 \in Objects, Opened(objects + 1, n)
      PROVE  \A o \in Objects : IsValid(o) => IsValid(o)'
  <2>1. m_sockfd'[objects + 1] = n /\ \A o \in Objects : o # objects + 1 => m_sockfd'[o] = m_sockfd[o]
    BY <1>8, OpenedIs
  <2> QED
    BY <2>1, Plain DEF IsValid
<1>9. ASSUME NEW n \in Numbers, Bind(n) PROVE ValidInv'
  <2>1. objects + 1 \in Objects
    BY <1>9, SocketAssumption DEF Bind, MayBind, StateInv, SocketTypeOK, Objects
  <2>2. Opened(objects + 1, n) /\ UNCHANGED <<at, invalid, m_is_stop>> /\ m_sockets' = m_sockets \cup {objects + 1}
        /\ ~ Start
    BY <1>9 DEF Bind, Start, StateInv
  <2>3. \A o \in Objects : IsValid(o) => IsValid(o)'
    BY <1>8, <2>1, <2>2
  <2>4. \A o \in m_sockets' : IsValid(o)'
    <3>1. m_sockfd'[objects + 1] = n /\ n # -1
      BY <2>1, <2>2, OpenedIs, Plain
    <3>2. \A o \in m_sockets : IsValid(o)
      BY <1>9, NoStopper DEF ValidInv
    <3> QED
      BY <1>1, <2>2, <2>3, <3>1, <3>2 DEF IsValid
  <2>5. \A t \in pool : ~ Stopper(t) /\ ~ Stopper(t)'
    BY <1>9, <2>2, NoStopper DEF Stopper
  <2> QED
    BY <1>1, <1>2, <1>3, <1>4, <2>2, <2>3, <2>4, <2>5 DEF ValidInv, IsValid
<1>10. ASSUME NEW t \in pool, NEW n \in Numbers, AcceptClient(t, n) PROVE ValidInv'
  <2>1. objects + 1 \in Objects /\ Opened(objects + 1, n) /\ Goto(t, "check") /\ Trying(t)
        /\ UNCHANGED <<m_sockets, invalid, m_is_stop>> /\ ~ Start
    BY <1>10 DEF AcceptClient, AcceptInto, histVars, Start, StateInv
  <2>2. Moved(t) /\ at'[t].pc = "check"
    BY <2>1, GotoMoves DEF Places
  <2>3. SameClosing
    BY <2>1, <2>2, ClosingMoves DEF Trying
  <2>4. \A u \in pool : (Stopper(u)' <=> Stopper(u)) /\ (Stopper(u) => at'[u].left = at[u].left)
                        /\ (at'[u].pc = "accept" => at'[u] = at[u])
    BY <2>1, <2>2 DEF Stopper, Moved, Trying
  <2> QED
    BY <1>2, <1>3, <1>4, <1>8, <2>1, <2>3, <2>4, ValidCalm
<1>14. ASSUME NEW t \in pool, CancelSteps(t) PROVE ValidInv'
  <2>1. /\ Moved(t) /\ Stopper(t) /\ at[t].pc # "closed" /\ at'[t].pc \in Busy /\ at'[t].left = at[t].left
        /\ UNCHANGED <<m_sockfd, m_sockets, m_is_stop, invalid>>
    BY <1>14, CancelStep DEF sockVars
  <2>2. SameClosing /\ ~ Start
    BY <1>14, <2>1, ClosingMoves, NoStopper DEF Busy, Start
  <2>3. \A u \in pool : (Stopper(u)' <=> Stopper(u)) /\ (Stopper(u) => at'[u].left = at[u].left)
                        /\ (at'[u].pc = "accept" => at'[u] = at[u])
    BY <2>1 DEF Stopper, Moved, Busy
  <2>4. \A o \in Objects : IsValid(o) => IsValid(o)'
    BY <2>1 DEF IsValid
  <2> QED
    BY <1>2, <1>3, <1>4, <2>1, <2>2, <2>3, <2>4, ValidCalm
<1>11. ASSUME NEW t \in pool, CloseCloses(t) PROVE ValidInv'
  <2>1. UNCHANGED <<m_sockfd, m_sockets, m_is_stop, invalid>> /\ m_is_stop
    BY <1>11, CloseEffect
  <2>2. Moved(t) /\ at'[t].pc = "closed" /\ at'[t].left = at[t].left
    BY <1>11, CloseEffect
  <2>3. (\A u \in pool, c \in Objects : ~ Closing(u, c)) /\ Stopper(t) /\ \A u \in pool : Stopper(u) => u = t
    BY <1>11, CloseEffect
  <2>4. \A c \in at[t].left : IsValid(c)
    BY <1>1, <2>3 DEF ValidInv, OwnInv
  <2>5. \A u \in pool : (Stopper(u)' <=> u = t) /\ (at'[u].pc = "accept" => at'[u] = at[u])
    BY <2>2, <2>3 DEF Stopper, Moved
  <2> QED
    BY <1>3, <2>1, <2>2, <2>3, <2>4, <2>5 DEF ValidInv, IsValid
<1>12. ASSUME NEW t \in pool, StopForgets(t) PROVE ValidInv'
  <2>1. /\ Closing(t, at[t].obj) /\ Stopper(t) /\ m_is_stop /\ at[t].obj \in m_sockets
        /\ \A u \in pool : Stopper(u) => u = t
        /\ \A c \in Objects : c # at[t].obj => m_sockfd'[c] = m_sockfd[c]
    BY <1>12, ForgetEffect
  <2>2. Moved(t) /\ at'[t].pc = "stopping" /\ at'[t].left = at[t].left \ {at[t].obj}
    BY <1>12, ForgetMoves
  <2>3. m_is_stop' = m_is_stop /\ invalid' = invalid /\ m_sockets' = m_sockets
    BY <1>12 DEF StopForgets, histVars
  <2>4. \A u \in pool : Stopper(u)' <=> u = t
    BY <2>1, <2>2 DEF Stopper, Moved
  <2>5. \A c \in at'[t].left : c \in Objects /\ IsValid(c)'
    <3>1. \A c \in at[t].left : c \in Objects /\ (Closing(t, c) \/ IsValid(c))
      BY <1>1, <2>1 DEF ValidInv, OwnInv
    <3> QED
      BY <2>1, <2>2, <3>1 DEF Closing, IsValid
  <2>6. Cardinality(pool) = 1 => \A u \in pool : at'[u].pc # "accept"
    <3>1. IsFiniteSet(pool)
      BY ServerAssumption DEF StateInv
    <3>2. Cardinality(pool) = 1 => \E x : pool = {x}
      BY <3>1, FS_Singleton
    <3> QED
      BY <2>2, <3>2
  <2> QED
    BY <1>3, <2>1, <2>3, <2>4, <2>5, <2>6 DEF ValidInv
<1>13. ASSUME NEW t \in pool, StillSteps(t) PROVE ValidInv'
  <2>1. /\ Moved(t) /\ at[t].pc # "closed" /\ at'[t].pc # "closed" /\ SameClosing
        /\ UNCHANGED <<m_sockfd, m_sockets, m_is_stop>>
        /\ Stopper(t)' => at'[t].left = m_sockets /\ TakeTask(t) /\ Head(queue) = StopTask
    BY <1>13, StillMoves, ClosingMoves DEF sockVars
  <2>2. ~ Stopper(t)
    BY <1>13, StillMoves
  <2>3. ~ Start
    BY <1>13, <2>1 DEF Start, StillSteps, StateInv
  <2>4. \A o \in Objects : IsValid(o) => IsValid(o)'
    BY <2>1 DEF IsValid
  <2>5. at'[t].pc = "accept" => at'[t].obj = at[t].obj /\ CheckStop(t) /\ ~ m_is_stop
    <3>1. CASE TakeTask(t)
      BY <3>1, TakeMoves
    <3>2. CASE CallAccept(t)
      BY <3>2, CallMoves
    <3>3. CASE AcceptError(t) \/ AcceptBlocks(t) \/ AddFails(t)
      BY <3>3, PlainMoves
    <3>4. CASE AcceptWaits(t)
      BY <3>4, IdleMoves DEF AcceptWaits
    <3>5. CASE CheckStop(t) /\ ~ m_is_stop
      BY <3>5, GotoMoves DEF CheckStop, Places
    <3> QED
      BY <1>13, <3>1, <3>2, <3>3, <3>4, <3>5 DEF StillSteps
  <2>6. Cardinality(pool) = 1 => ~ invalid'
    <3>1. CASE CallAccept(t)
      BY <1>3, <3>1, CallMoves DEF CallAccept, IsValid
    <3>2. CASE ~ CallAccept(t)
      BY <1>3, <1>13, <3>2 DEF StillSteps, TakeTask, AcceptError, AcceptBlocks, AddFails, AcceptWaits, CheckStop, histVars
    <3> QED
      BY <3>1, <3>2
  <2>7. Cardinality(pool) = 1 => \A u \in pool : at'[u].pc = "accept" => at'[u].obj \in Objects /\ IsValid(at'[u].obj)
    <3>1. at'[t].pc = "accept" => at[t].obj \in Objects /\ IsValid(at[t].obj)
      <4>1. CheckStop(t) => at[t].obj \in Objects /\ at[t].obj \in Held
        BY <1>1, HeldHas DEF CheckStop, TaskInv, Looping
      <4> QED
        BY <2>5, <4>1 DEF ValidInv
    <3>2. \A u \in pool : u = t \/ at'[u] = at[u]
      BY <2>1 DEF Moved
    <3> QED
      BY <1>2, <1>3, <2>5, <3>1, <3>2
  <2>8. CASE ~ Stopper(t)'
    <3>1. \A u \in pool : (Stopper(u)' <=> Stopper(u)) /\ (Stopper(u) => at'[u].left = at[u].left)
      BY <2>1, <2>2, <2>8 DEF Moved, Stopper
    <3> QED
      BY <1>4, <2>1, <2>3, <2>4, <2>6, <2>7, <3>1, ValidCalm
  <2>9. CASE Stopper(t)'
    <3>1. StopTask \in InQueue /\ at'[t].left = m_sockets
      BY <2>1, <2>9, TakeMoves
    <3>2. \A u \in pool : ~ Stopper(u)
      BY <3>1 DEF StopInv
    <3>3. \A o \in m_sockets : IsValid(o)
      BY <3>2 DEF ValidInv
    <3>4. \A u \in pool : Stopper(u)' => u = t
      BY <2>1, <3>2 DEF Moved, Stopper
    <3>5. m_is_stop
      BY <3>1 DEF StopInv, StopPending
    <3> QED
      BY <2>1, <2>6, <2>7, <2>9, <3>1, <3>3, <3>4, <3>5 DEF ValidInv, IsValid
  <2> QED
    BY <2>8, <2>9
<1> QED
  BY <1>5, <1>6, <1>7, <1>9, <1>10, <1>11, <1>12, <1>13, <1>14, Cases

-----------------------------------------------------------------------------
(* The theorems.                                                           *)

LEMMA InitServer == Init => ServerInv
<1> SUFFICES ASSUME Init PROVE ServerInv
  OBVIOUS
<1>1. InQueue = {} /\ Len(queue) = 0
  BY DEF Init, InQueue
<1>2. pool \subseteq Threads /\ \A t \in Threads : at[t].pc = "idle"
  BY Plain DEF Init, Threads
<1>3. (\A t \in pool : ~ Stopper(t)) /\ \A t \in pool, o \in Objects : ~ Closing(t, o)
  BY <1>2 DEF Stopper, Closing
<1>4. StopInv
  BY <1>1, <1>3 DEF StopInv, Stopper, Init
<1>5. OwnInv
  BY <1>3 DEF OwnInv, Init, SocketInit, IsValid
<1>6. LoopInv
  BY <1>1, <1>2 DEF LoopInv, Init, Using
<1>8. BusyInv /\ WaitInv /\ OneInv
  BY <1>2 DEF BusyInv, WaitInv, OneInv, Init, Busy, Shutting
<1>7. ValidInv
  BY <1>2, <1>3 DEF ValidInv, Init
<1> QED
  BY <1>4, <1>5, <1>6, <1>7, <1>8 DEF ServerInv

LEMMA ServerStep ==
    ASSUME TypeInv, BirthInv, ServerInv, [Next]_vars PROVE ServerInv'
<1> SUFFICES ASSUME ~ early' PROVE StopInv' /\ OwnInv' /\ BusyInv' /\ LoopInv' /\ WaitInv' /\ OneInv' /\ ValidInv'
  BY DEF ServerInv
<1>1. ~ early
  BY EarlyStays
<1>2. Known
  BY <1>1 DEF Known, ServerInv
<1> QED
  BY <1>2, StopInvStep, OwnInvStep, BusyInvStep, LoopInvStep, WaitInvStep, OneInvStep, ValidInvStep

\* For any number of accept threads, sockets and descriptor numbers: as long as
\* nobody starts or binds while a stop() is under way, a number is closed only
\* for the object it was opened for; a waiting loop waits on its own socket, and
\* epoll watches it, unless one of two threads registered a loop after the stop
\* task on the other had cancelled its number for the last time (hook.cpp:797).
THEOREM NumbersStayOwned == Spec => []NumbersOwned
<1>1. Init => TypeInv /\ BirthInv /\ ServerInv
  BY InitType, InitBirth, InitServer
<1>2. TypeInv /\ BirthInv /\ ServerInv /\ [Next]_vars => (TypeInv /\ BirthInv /\ ServerInv)'
  BY TypeStep, BirthStep, ServerStep
<1>3. TypeInv /\ BirthInv /\ ServerInv => NumbersOwned
  <2> SUFFICES ASSUME TypeInv, ServerInv PROVE NumbersOwned
    OBVIOUS
  <2>1. \A k \in InQueue \cup {waiting[n] : n \in Numbers} : k \in TaskTypes
    BY DEF TypeInv, TaskInv, InQueue
  <2>2. TypeOK
    BY <2>1 DEF TypeOK, TypeInv, StateInv, TaskInv, TaskTypes, Acts, Places
  <2>3. Cardinality(pool) \in Nat /\ Cardinality(pool) # 0
    <3>1. IsFiniteSet(pool) /\ pool # {}
      BY ServerAssumption DEF TypeInv, StateInv
    <3> QED
      BY <3>1, FS_CardinalityType, FS_EmptySet
  <2>4. Cardinality(pool) = 1 \/ Cardinality(pool) > 1
    BY <2>3
  <2> QED
    BY <2>2, <2>4 DEF NumbersOwned, ServerInv, OwnInv, WaitInv, OneInv
<1> QED
  BY <1>1, <1>2, <1>3, PTL DEF Spec

\* With one accept thread, no accept() and no cancelAll() is called with -1.
THEOREM NumbersStayValid == Spec => []NumbersValid
<1>1. Init => TypeInv /\ BirthInv /\ ServerInv
  BY InitType, InitBirth, InitServer
<1>2. TypeInv /\ BirthInv /\ ServerInv /\ [Next]_vars => (TypeInv /\ BirthInv /\ ServerInv)'
  BY TypeStep, BirthStep, ServerStep
<1>3. TypeInv /\ BirthInv /\ ServerInv => NumbersValid
  BY DEF NumbersValid, ServerInv, ValidInv
<1> QED
  BY <1>1, <1>2, <1>3, PTL DEF Spec
=============================================================================
