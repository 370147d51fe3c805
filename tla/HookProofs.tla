------------------------------ MODULE HookProofs ------------------------------
(***************************************************************************)
(* Proofs about HookIO, for any number of fibers, descriptors, calls and   *)
(* threads.                                                                *)
(***************************************************************************)
EXTENDS HookIO, FiniteSetTheorems, TLAPS

\* The points of a call at which its fiber runs.
Working == {"try", "arm", "add", "check", "blocked"}

CallTypes == [kind : Kinds \cup {"read"}, fd : Fds \cup {0}, waits : BOOLEAN, timed : BOOLEAN]
Entries == [m_is_user_nonblock : BOOLEAN, timeouts : SUBSET Events]

\* What a fiber has in hand: a call that may wait for an event has a descriptor.
CallInv ==
    /\ IsFiniteSet(cancelling) /\ IsFiniteSet(reported)
    /\ \A f \in Fibers :
        /\ pc[f] \in Working => Fd(f) \in Fds /\ call[f].kind \in Kinds \ {"sleep"} /\ calls[f] \in 1 .. MaxCalls
        /\ pc[f] = "held" =>
             /\ calls[f] \in 1 .. MaxCalls /\ call[f].kind \in Kinds
             /\ IF call[f].kind = "sleep" THEN Fd(f) = 0 /\ ~ call[f].timed ELSE Fd(f) \in Fds
        /\ pc[f] \in {"create", "del", "sys"} => Fd(f) \in Fds
        /\ pc[f] = "check" => call[f].kind = "connect"
    /\ \A t \in armed \cup fired \cup cancelling : IF t.kind = "sleep" THEN t \notin cancelling ELSE t.fd \in Fds

TypeInv == TypeOK /\ CallInv

LEMMA EventOfType == \A k : EventOf(k) \in Events
BY DEF EventOf, Events

\* A fiber that makes another call stays within the bound.
LEMMA CallsBound ==
    ASSUME calls \in [Fibers -> 0 .. MaxCalls], CallsMade < MaxCalls, NEW f \in Fibers
    PROVE  calls[f] + 1 \in 1 .. MaxCalls
<1> USE HookAssumption
<1> DEFINE S == {c \in Fibers \X (1 .. MaxCalls) : c[2] <= calls[c[1]]}
           I == 1 .. MaxCalls
           T == {f} \X I
<1>1. CallsMade = Cardinality(S)
  BY DEF CallsMade
<1>2. IsFiniteSet(I) /\ Cardinality(I) = MaxCalls
  BY FS_Interval
<1>3. IsFiniteSet(S)
  BY <1>2, FS_Product, FS_Subset
<1>4. Cardinality(T) = MaxCalls
  <2> DEFINE g == [n \in I |-> <<f, n>>]
  <2>1. g \in Bijection(I, T)
    <3>1. g \in [I -> T] /\ \A a, b \in I : g[a] = g[b] => a = b
      OBVIOUS
    <3>2. \A t \in T : \E n \in I : g[n] = t
      <4> SUFFICES ASSUME NEW t \in T PROVE g[t[2]] = t /\ t[2] \in I
        OBVIOUS
      <4> QED
        OBVIOUS
    <3> HIDE DEF g
    <3> QED
      BY <3>1, <3>2 DEF Bijection, Injection, Surjection, IsInjective
  <2> QED
    BY <1>2, <2>1, FS_Bijection DEF ExistsBijection
<1>5. SUFFICES ASSUME calls[f] >= MaxCalls PROVE FALSE
  OBVIOUS
<1>6. T \subseteq S
  BY <1>5
<1> QED
  BY <1>1, <1>3, <1>4, <1>6, FS_Subset, FS_CardinalityType

\* Who waits on a descriptor and what epoll is told about it.
LEMMA TriggerType ==
    ASSUME TypeInv, NEW d \in Fds, NEW evs \in SUBSET Events, NEW who \in {"event", "timer", "user"}, Trigger(d, evs, who)
    PROVE  /\ waiter' \in [Fds -> [Events -> Fibers \cup {NoOne}]] /\ queue' \subseteq Fibers
           /\ woke' \in [Fibers -> {"nothing", "event", "timer", "user"}]
           /\ interest' \in [Fds -> SUBSET Events] /\ edge' \subseteq Fds \X Events
<1> DEFINE hit == IF interest[d] = {} THEN {} ELSE evs \cap Registered(d)
<1>1. hit \subseteq Events /\ Registered(d) \subseteq Events /\ \A e \in hit : waiter[d][e] # NoOne
  BY DEF Registered
<1>2. /\ woke' = [f \in Fibers |-> IF \E e \in hit : waiter[d][e] = f THEN who ELSE woke[f]]
      /\ waiter' = [waiter EXCEPT ![d] = [e \in Events |-> IF e \in hit THEN NoOne ELSE @[e]]]
      /\ queue' = queue \cup {waiter[d][e] : e \in hit}
      /\ IF hit = {} THEN UNCHANGED <<interest, edge>> ELSE WatchFor(d, Registered(d) \ hit)
  BY DEF Trigger
<1> HIDE DEF hit
<1>3. /\ waiter \in [Fds -> [Events -> Fibers \cup {NoOne}]] /\ queue \subseteq Fibers
      /\ woke \in [Fibers -> {"nothing", "event", "timer", "user"}]
      /\ interest \in [Fds -> SUBSET Events] /\ edge \subseteq Fds \X Events /\ ready \in [Fds -> SUBSET Events]
  BY DEF TypeInv, TypeOK
<1>4. waiter' \in [Fds -> [Events -> Fibers \cup {NoOne}]]
  BY <1>1, <1>2, <1>3
<1>5. queue' \subseteq Fibers
  BY <1>1, <1>2, <1>3
<1>6. woke' \in [Fibers -> {"nothing", "event", "timer", "user"}]
  BY <1>2, <1>3
<1>7. interest' \in [Fds -> SUBSET Events] /\ edge' \subseteq Fds \X Events
  BY <1>1, <1>2, <1>3 DEF WatchFor
<1> QED
  BY <1>4, <1>5, <1>6, <1>7

\* Steps that change neither the calls nor the timers.
Elsewhere == UNCHANGED <<pc, callVars, timerVars, result, threads>>

LEMMA TypeElsewhere ==
    ASSUME TypeInv, Elsewhere,
           m_fds' \in [Fds -> {NoOne} \cup Entries], open' \subseteq Fds,
           conn' \in [Fds -> {"new", "pending", "up", "refused"}], nonblock' \in [Fds -> BOOLEAN],
           ready' \in [Fds -> SUBSET Events], interest' \in [Fds -> SUBSET Events],
           edge' \subseteq Fds \X Events, reported' \subseteq Fds \X Events, IsFiniteSet(reported'),
           waiter' \in [Fds -> [Events -> Fibers \cup {NoOne}]], queue' \subseteq Fibers,
           woke' \in [Fibers -> {"nothing", "event", "timer", "user"}], raw' \subseteq Fds,
           opens' = opens, ops' \in 0 .. MaxOps
    PROVE  TypeInv'
<1>1. TypeOK'
  BY DEF TypeInv, TypeOK, Elsewhere, callVars, timerVars, Entries
<1>2. CallInv'
  BY DEF TypeInv, CallInv, Elsewhere, callVars, timerVars, Fd
<1> QED
  BY <1>1, <1>2 DEF TypeInv

LEMMA EnvironmentType ==
    ASSUME TypeInv, NEW d \in Fds
    PROVE  /\ \A e \in Events : BecomeReady(d, e) \/ SetTimeout(d, e) \/ Report(d, e) \/ Handle(d, e) => TypeInv'
           /\ \A c \in {"up", "refused"} : Connected(d, c) => TypeInv'
           /\ CloseUnhooked(d) => TypeInv'
           /\ \A evs \in SUBSET Events : CancelOp(d, evs) => TypeInv'
           /\ \A b \in BOOLEAN : Fcntl(d, b) \/ Ioctl(d, b) => TypeInv'
<1> USE DEF kernelVars, epollVars, histVars
<1>0. /\ m_fds \in [Fds -> {NoOne} \cup Entries] /\ open \subseteq Fds
      /\ conn \in [Fds -> {"new", "pending", "up", "refused"}] /\ nonblock \in [Fds -> BOOLEAN]
      /\ ready \in [Fds -> SUBSET Events] /\ interest \in [Fds -> SUBSET Events]
      /\ edge \subseteq Fds \X Events /\ reported \subseteq Fds \X Events /\ IsFiniteSet(reported)
      /\ waiter \in [Fds -> [Events -> Fibers \cup {NoOne}]] /\ queue \subseteq Fibers
      /\ woke \in [Fibers -> {"nothing", "event", "timer", "user"}] /\ raw \subseteq Fds
      /\ ops \in 0 .. MaxOps
  BY DEF TypeInv, TypeOK, CallInv, Entries
<1>01. ASSUME NEW o, Op(o) PROVE ops' \in 0 .. MaxOps
  BY <1>0, <1>01, HookAssumption DEF Op
<1>1. ASSUME NEW e \in Events, BecomeReady(d, e) PROVE TypeInv'
  <2>1. ready' \in [Fds -> SUBSET Events] /\ edge' \subseteq Fds \X Events
    BY <1>0, <1>1 DEF BecomeReady
  <2> QED
    BY <1>0, <1>1, <2>1, TypeElsewhere DEF BecomeReady, Elsewhere
<1>2. ASSUME NEW e \in Events, SetTimeout(d, e) PROVE TypeInv'
  <2>1. m_fds' \in [Fds -> {NoOne} \cup Entries]
    BY <1>0, <1>2 DEF SetTimeout, Entries
  <2>2. ops' \in 0 .. MaxOps
    BY <1>01, <1>2 DEF SetTimeout
  <2> QED
    BY <1>0, <1>2, <2>1, <2>2, TypeElsewhere DEF SetTimeout, Elsewhere
<1>3. ASSUME NEW e \in Events, Report(d, e) PROVE TypeInv'
  <2>1. edge' \subseteq Fds \X Events /\ reported' \subseteq Fds \X Events /\ reported' = reported \cup {<<d, e>>}
    BY <1>0, <1>3 DEF Report
  <2>2. IsFiniteSet(reported')
    BY <1>0, <2>1, FS_AddElement
  <2> QED
    BY <1>0, <1>3, <2>1, <2>2, TypeElsewhere DEF Report, Elsewhere
<1>4. ASSUME NEW e \in Events, Handle(d, e) PROVE TypeInv'
  <2>1. reported' \subseteq Fds \X Events /\ IsFiniteSet(reported') /\ {e} \in SUBSET Events
    BY <1>0, <1>4, FS_RemoveElement DEF Handle
  <2>2. Trigger(d, {e}, "event")
    BY <1>4 DEF Handle
  <2>3. /\ waiter' \in [Fds -> [Events -> Fibers \cup {NoOne}]] /\ queue' \subseteq Fibers
        /\ woke' \in [Fibers -> {"nothing", "event", "timer", "user"}]
        /\ interest' \in [Fds -> SUBSET Events] /\ edge' \subseteq Fds \X Events
    BY <2>1, <2>2, TriggerType
  <2> QED
    BY <1>0, <1>4, <2>1, <2>3, TypeElsewhere DEF Handle, Elsewhere
<1>5. ASSUME NEW c \in {"up", "refused"}, Connected(d, c) PROVE TypeInv'
  <2>1. ready' \in [Fds -> SUBSET Events] /\ edge' \subseteq Fds \X Events /\ conn' \in [Fds -> {"new", "pending", "up", "refused"}]
    BY <1>0, <1>5 DEF Connected, Settle, Events
  <2> QED
    BY <1>0, <1>5, <2>1, TypeElsewhere DEF Connected, Settle, Elsewhere
<1>6. CASE CloseUnhooked(d)
  <2>1. /\ open' \subseteq Fds /\ ready' \in [Fds -> SUBSET Events] /\ interest' \in [Fds -> SUBSET Events]
        /\ edge' \subseteq Fds \X Events /\ raw' \subseteq Fds
        /\ woke' \in [Fibers -> {"nothing", "event", "timer", "user"}]
    BY <1>0, <1>6 DEF CloseUnhooked, Closed
  <2>2. ops' \in 0 .. MaxOps
    BY <1>01, <1>6 DEF CloseUnhooked
  <2> QED
    BY <1>0, <1>6, <2>1, <2>2, TypeElsewhere DEF CloseUnhooked, Elsewhere
<1>7. ASSUME NEW evs \in SUBSET Events, CancelOp(d, evs) PROVE TypeInv'
  <2>1. ops' \in 0 .. MaxOps /\ Trigger(d, evs, "user")
    BY <1>01, <1>7 DEF CancelOp
  <2>3. /\ waiter' \in [Fds -> [Events -> Fibers \cup {NoOne}]] /\ queue' \subseteq Fibers
        /\ woke' \in [Fibers -> {"nothing", "event", "timer", "user"}]
        /\ interest' \in [Fds -> SUBSET Events] /\ edge' \subseteq Fds \X Events
    BY <2>1, TriggerType
  <2> QED
    BY <1>0, <1>7, <2>1, <2>3, TypeElsewhere DEF CancelOp, Elsewhere
<1>8. ASSUME NEW b \in BOOLEAN, Fcntl(d, b) \/ Ioctl(d, b) PROVE TypeInv'
  <2>1. m_fds' \in [Fds -> {NoOne} \cup Entries] /\ nonblock' \in [Fds -> BOOLEAN] /\ raw' \subseteq Fds
    <3>1. m_fds[d] \in Entries /\ m_fds' = [m_fds EXCEPT ![d].m_is_user_nonblock = b]
      BY <1>0, <1>8 DEF Fcntl, Ioctl
    <3>2. [m_fds[d] EXCEPT !.m_is_user_nonblock = b] \in Entries
      BY <3>1 DEF Entries
    <3>3. m_fds' \in [Fds -> {NoOne} \cup Entries]
      BY <1>0, <3>1, <3>2
    <3>4. nonblock' \in [Fds -> BOOLEAN]
      BY <1>0, <1>8 DEF Fcntl, Ioctl
    <3> QED
      BY <1>0, <1>8, <3>3, <3>4 DEF Fcntl, Ioctl
  <2>2. ops' \in 0 .. MaxOps
    BY <1>01, <1>8 DEF Fcntl, Ioctl
  <2> QED
    BY <1>0, <1>8, <2>1, <2>2, TypeElsewhere DEF Fcntl, Ioctl, Elsewhere
<1> QED
  BY <1>1, <1>2, <1>3, <1>4, <1>5, <1>6, <1>7, <1>8

\* The steps of a fiber and of the timers change the descriptors and the events little.
LEMMA TypeFiber ==
    ASSUME TypeInv,
           m_fds' \in [Fds -> {NoOne} \cup Entries], open' \subseteq Fds,
           conn' \in [Fds -> {"new", "pending", "up", "refused"}], nonblock' \in [Fds -> BOOLEAN],
           ready' \in [Fds -> SUBSET Events], interest' \in [Fds -> SUBSET Events],
           edge' \subseteq Fds \X Events, reported' = reported,
           waiter' \in [Fds -> [Events -> Fibers \cup {NoOne}]], queue' \subseteq Fibers,
           woke' \in [Fibers -> {"nothing", "event", "timer", "user"}], raw' = raw,
           opens' \in 0 .. MaxOpens, ops' = ops, threads' = threads,
           pc' \in [Fibers -> PCs], call' \in [Fibers -> CallTypes], calls' \in [Fibers -> 0 .. MaxCalls],
           canceled' \in [Fibers -> BOOLEAN], expired' \in [Fibers -> BOOLEAN],
           armed' \subseteq Timers, fired' \subseteq Timers, cancelling' \subseteq Timers,
           result' \in [Fibers -> {"none", "ok", "error", "timedout"}],
           CallInv'
    PROVE  TypeInv'
BY DEF TypeInv, TypeOK, Entries, CallTypes

\* The types by name.
Types ==
    /\ m_fds \in [Fds -> {NoOne} \cup Entries] /\ open \subseteq Fds
    /\ conn \in [Fds -> {"new", "pending", "up", "refused"}] /\ nonblock \in [Fds -> BOOLEAN]
    /\ ready \in [Fds -> SUBSET Events] /\ interest \in [Fds -> SUBSET Events]
    /\ edge \subseteq Fds \X Events /\ reported \subseteq Fds \X Events
    /\ waiter \in [Fds -> [Events -> Fibers \cup {NoOne}]] /\ queue \subseteq Fibers
    /\ woke \in [Fibers -> {"nothing", "event", "timer", "user"}] /\ raw \subseteq Fds
    /\ opens \in 0 .. MaxOpens /\ ops \in 0 .. MaxOps
    /\ pc \in [Fibers -> PCs] /\ call \in [Fibers -> CallTypes] /\ calls \in [Fibers -> 0 .. MaxCalls]
    /\ canceled \in [Fibers -> BOOLEAN] /\ expired \in [Fibers -> BOOLEAN]
    /\ armed \subseteq Timers /\ fired \subseteq Timers /\ cancelling \subseteq Timers
    /\ result \in [Fibers -> {"none", "ok", "error", "timedout"}]

LEMMA NamedTypes == TypeInv => Types
BY DEF TypeInv, TypeOK, Types, Entries, CallTypes

\* Steps of one fiber that leave its timers, its arguments and the events alone.
LEMMA LocalType ==
    ASSUME TypeInv, NEW f \in Fibers,
           UNCHANGED <<threads, ops, raw, reported, queue, waiter, calls, canceled, timerVars>>,
           m_fds' \in [Fds -> {NoOne} \cup Entries], open' \subseteq Fds,
           conn' \in [Fds -> {"new", "pending", "up", "refused"}], nonblock' \in [Fds -> BOOLEAN],
           ready' \in [Fds -> SUBSET Events], interest' \in [Fds -> SUBSET Events],
           edge' \subseteq Fds \X Events, woke' \in [Fibers -> {"nothing", "event", "timer", "user"}],
           opens' \in 0 .. MaxOpens,
           NEW h \in PCs, pc' = [pc EXCEPT ![f] = h],
           \/ call' = call
           \/ \E d \in Fds : call' = [call EXCEPT ![f].fd = d],
           h \in Working => pc[f] \in Working /\ h # "check" /\ call' = call,
           h # "held",
           h \in {"create", "del", "sys"} => Fd(f)' \in Fds,
           result' \in [Fibers -> {"none", "ok", "error", "timedout"}]
    PROVE  TypeInv'
<1>0. Types
  BY NamedTypes
<1>1. pc' \in [Fibers -> PCs]
  BY <1>0 DEF Types
<1>2. call' \in [Fibers -> CallTypes] /\ \A g \in Fibers : g # f => call'[g] = call[g]
  <2>1. CASE call' = call
    BY <1>0, <2>1 DEF Types
  <2>2. ASSUME NEW d \in Fds, call' = [call EXCEPT ![f].fd = d]
        PROVE  call' \in [Fibers -> CallTypes] /\ \A g \in Fibers : g # f => call'[g] = call[g]
    <3> DEFINE c == [call[f] EXCEPT !.fd = d]
    <3>1. c \in CallTypes
      <4>1. call[f] \in CallTypes
        BY <1>0 DEF Types
      <4> QED
        BY <4>1 DEF CallTypes
    <3>2. call' = [call EXCEPT ![f] = c]
      BY <2>2
    <3> HIDE DEF c
    <3> QED
      BY <1>0, <3>1, <3>2 DEF Types
  <2> QED
    BY <2>1, <2>2
<1>3. CallInv'
  <2>1. \A g \in Fibers :
        /\ pc'[g] \in Working => Fd(g)' \in Fds /\ call'[g].kind \in Kinds \ {"sleep"} /\ calls[g] \in 1 .. MaxCalls
        /\ pc'[g] = "held" =>
             /\ calls[g] \in 1 .. MaxCalls /\ call'[g].kind \in Kinds
             /\ IF call'[g].kind = "sleep" THEN Fd(g)' = 0 /\ ~ call'[g].timed ELSE Fd(g)' \in Fds
        /\ pc'[g] \in {"create", "del", "sys"} => Fd(g)' \in Fds
        /\ pc'[g] = "check" => call'[g].kind = "connect"
    <3> SUFFICES ASSUME NEW g \in Fibers
                 PROVE  /\ pc'[g] \in Working => Fd(g)' \in Fds /\ call'[g].kind \in Kinds \ {"sleep"} /\ calls[g] \in 1 .. MaxCalls
                        /\ pc'[g] = "held" =>
                             /\ calls[g] \in 1 .. MaxCalls /\ call'[g].kind \in Kinds
                             /\ IF call'[g].kind = "sleep" THEN Fd(g)' = 0 /\ ~ call'[g].timed ELSE Fd(g)' \in Fds
                        /\ pc'[g] \in {"create", "del", "sys"} => Fd(g)' \in Fds
                        /\ pc'[g] = "check" => call'[g].kind = "connect"
      OBVIOUS
    <3>1. CASE g # f
      <4>1. pc'[g] = pc[g] /\ call'[g] = call[g]
        BY <1>0, <1>2, <3>1 DEF Types
      <4> QED
        BY <4>1 DEF TypeInv, CallInv, Fd
    <3>2. CASE g = f
      <4>1. pc'[g] = h
        BY <1>0, <3>2 DEF Types
      <4> QED
        BY <3>2, <4>1 DEF TypeInv, CallInv, Fd, Working
    <3> QED
      BY <3>1, <3>2
  <2> QED
    BY <2>1 DEF TypeInv, CallInv, timerVars
<1> QED
  BY <1>0, <1>1, <1>2, <1>3, TypeFiber DEF Types, timerVars

\* What the original function makes of a call.
LEMMA TryMoves ==
    ASSUME NEW f \in Fibers, TryIO(f) \/ TryConnect(f)
    PROVE  \/ \E r \in {"ok", "error"} : pc' = [pc EXCEPT ![f] = "out"] /\ result' = [result EXCEPT ![f] = r]
           \/ \E h \in {"arm", "blocked"} :
                 /\ pc' = [pc EXCEPT ![f] = h] /\ result' = result
                 /\ h = "blocked" => ~ nonblock[Fd(f)] /\ Fd(f) \in open
<1>1. ASSUME WouldBlock(f), Fd(f) \in open
      PROVE  \/ pc' = [pc EXCEPT ![f] = "out"] /\ result' = [result EXCEPT ![f] = "error"]
             \/ \E h \in {"arm", "blocked"} :
                   /\ pc' = [pc EXCEPT ![f] = h] /\ result' = result
                   /\ h = "blocked" => ~ nonblock[Fd(f)] /\ Fd(f) \in open
  BY <1>1 DEF WouldBlock, Goto, Returns
<1>2. CASE TryIO(f)
  <2>1. \/ \E r \in {"ok", "error"} : Returns(f, r)
        \/ WouldBlock(f) /\ Fd(f) \in open
    BY <1>2 DEF TryIO
  <2> QED
    BY <1>1, <2>1 DEF Goto, Returns
<1>3. CASE TryConnect(f)
  <2>1. \/ \E r \in {"ok", "error"} : Returns(f, r)
        \/ WouldBlock(f) /\ Fd(f) \in open
    BY <1>3 DEF TryConnect
  <2> QED
    BY <1>1, <2>1 DEF Goto, Returns
<1> QED
  BY <1>2, <1>3

\* A call in blocking mode returns, or takes what is there now.
LEMMA UnblockMoves ==
    ASSUME NEW f \in Fibers, Unblock(f)
    PROVE  \/ \E r \in {"ok", "error"} : pc' = [pc EXCEPT ![f] = "out"] /\ result' = [result EXCEPT ![f] = r]
           \/ pc' = [pc EXCEPT ![f] = "try"] /\ result' = result
BY DEF Unblock, Goto, Returns

LEMMA LocalSteps ==
    ASSUME TypeInv, NEW f \in Fibers
    PROVE  /\ TryIO(f) \/ TryConnect(f) \/ Unblock(f) \/ Check(f) \/ Create(f) \/ CloseDel(f) \/ CloseSys(f) => TypeInv'
           /\ \A d \in Fds : TryAccept(f, d) \/ Socket(f, d) => TypeInv'
<1> USE DEF kernelVars, epollVars, histVars, callVars, Goto, Returns
<1>0. Types
  BY NamedTypes
<1>1. CASE TryIO(f)
  <2>1. PICK h \in {"out", "arm", "blocked"} : pc' = [pc EXCEPT ![f] = h]
    BY <1>1, TryMoves
  <2>2. call' = call /\ pc[f] = "try"
    BY <1>1 DEF TryIO
  <2>3. ready' \in [Fds -> SUBSET Events]
    BY <1>0, <1>1 DEF TryIO, Types
  <2>4. result' \in [Fibers -> {"none", "ok", "error", "timedout"}]
    BY <1>0, <1>1, TryMoves DEF Types
  <2>5. h \in PCs /\ h # "held" /\ h # "check" /\ h \notin {"create", "del", "sys"} /\ pc[f] \in Working
    BY <2>1, <2>2 DEF PCs, Running, Working
  <2>6. UNCHANGED <<threads, ops, raw, reported, queue, waiter, calls, canceled, timerVars, m_fds, open, conn, nonblock,
                    interest, edge, woke, opens>>
    BY <1>1 DEF TryIO
  <2> QED
    BY <1>0, <2>1, <2>2, <2>3, <2>4, <2>5, <2>6, LocalType DEF Types
<1>2. CASE TryConnect(f)
  <2>1. PICK h \in {"out", "arm", "blocked"} : pc' = [pc EXCEPT ![f] = h]
    BY <1>2, TryMoves
  <2>2. call' = call /\ pc[f] = "try"
    BY <1>2 DEF TryConnect
  <2>3. /\ conn' \in [Fds -> {"new", "pending", "up", "refused"}] /\ ready' \in [Fds -> SUBSET Events]
        /\ edge' \subseteq Fds \X Events
    <3>1. CASE Settle(Fd(f), "up") /\ Fd(f) \in open
      BY <1>0, <3>1 DEF Settle, Types, Events
    <3>2. CASE conn' = [conn EXCEPT ![Fd(f)] = "pending"] /\ UNCHANGED <<ready, edge>>
      BY <1>0, <3>2 DEF Types
    <3>3. CASE UNCHANGED <<conn, ready, edge>>
      BY <1>0, <3>3 DEF Types
    <3> QED
      BY <1>2, <3>1, <3>2, <3>3 DEF TryConnect
  <2>4. result' \in [Fibers -> {"none", "ok", "error", "timedout"}]
    BY <1>0, <1>2, TryMoves DEF Types
  <2>5. h \in PCs /\ h # "held" /\ h # "check" /\ h \notin {"create", "del", "sys"} /\ pc[f] \in Working
    BY <2>1, <2>2 DEF PCs, Running, Working
  <2>6. UNCHANGED <<threads, ops, raw, reported, queue, waiter, calls, canceled, timerVars, m_fds, open, nonblock,
                    interest, woke, opens>>
    BY <1>2 DEF TryConnect
  <2> QED
    BY <1>0, <2>1, <2>2, <2>3, <2>4, <2>5, <2>6, LocalType DEF Types
<1>3. CASE Unblock(f) \/ Check(f)
  <2>1. PICK h \in {"out", "try"} : pc' = [pc EXCEPT ![f] = h] /\ (h = "try" => pc[f] = "blocked")
    BY <1>3, UnblockMoves DEF Unblock, Check
  <2>2. call' = call
    BY <1>3 DEF Unblock, Check
  <2>4. result' \in [Fibers -> {"none", "ok", "error", "timedout"}]
    <3>1. CASE Unblock(f)
      BY <1>0, <3>1, UnblockMoves DEF Types
    <3>2. CASE Check(f)
      BY <1>0, <3>2 DEF Check, Types
    <3> QED
      BY <1>3, <3>1, <3>2
  <2>5. h \in PCs /\ h # "held" /\ h # "check" /\ h \notin {"create", "del", "sys"} /\ (h \in Working => pc[f] \in Working)
    BY <2>1 DEF PCs, Running, Working
  <2>6. UNCHANGED <<threads, ops, raw, reported, queue, waiter, calls, canceled, timerVars, m_fds, open, ready, nonblock,
                    conn, interest, edge, woke, opens>>
    BY <1>3 DEF Unblock, Check
  <2> QED
    BY <1>0, <2>1, <2>2, <2>4, <2>5, <2>6, LocalType DEF Types
<1>4. CASE Create(f)
  <2>1. pc' = [pc EXCEPT ![f] = "out"] /\ call' = call /\ pc[f] = "create"
    BY <1>4 DEF Create
  <2>2. m_fds' \in [Fds -> {NoOne} \cup Entries]
    <3>1. NewEntry \in Entries
      BY DEF NewEntry, Entries
    <3> QED
      BY <1>0, <1>4, <3>1, ZenonT(60) DEF Create, Types
  <2>3. nonblock' \in [Fds -> BOOLEAN]
    BY <1>0, <1>4 DEF Create, Types
  <2>4. result' \in [Fibers -> {"none", "ok", "error", "timedout"}]
    BY <1>0, <1>4 DEF Create, Types
  <2>5. "out" \in PCs /\ "out" \notin Working
    BY DEF PCs, Running, Working
  <2>6. UNCHANGED <<threads, ops, raw, reported, queue, waiter, calls, canceled, timerVars, open, ready,
                    conn, interest, edge, woke, opens>>
    BY <1>4 DEF Create
  <2> QED
    BY <1>0, <2>1, <2>2, <2>3, <2>4, <2>5, <2>6, LocalType DEF Types
<1>5. CASE CloseDel(f)
  <2>1. pc' = [pc EXCEPT ![f] = "sys"] /\ call' = call /\ pc[f] = "del"
    BY <1>5 DEF CloseDel
  <2>2. m_fds' \in [Fds -> {NoOne} \cup Entries]
    BY <1>0, <1>5 DEF CloseDel, Types
  <2>5. "sys" \in PCs /\ "sys" \notin Working /\ Fd(f)' \in Fds
    BY <2>1 DEF PCs, Running, Working, TypeInv, CallInv, Fd
  <2>6. UNCHANGED <<threads, ops, raw, reported, queue, waiter, calls, canceled, timerVars, open, ready, nonblock,
                    conn, interest, edge, woke, opens, result>>
    BY <1>5 DEF CloseDel
  <2> QED
    BY <1>0, <2>1, <2>2, <2>5, <2>6, LocalType DEF Types
<1>6. CASE CloseSys(f)
  <2>1. pc' = [pc EXCEPT ![f] = "out"] /\ call' = call /\ pc[f] = "sys"
    BY <1>6 DEF CloseSys
  <2>2. /\ open' \subseteq Fds /\ ready' \in [Fds -> SUBSET Events] /\ interest' \in [Fds -> SUBSET Events]
        /\ edge' \subseteq Fds \X Events /\ woke' \in [Fibers -> {"nothing", "event", "timer", "user"}]
    BY <1>0, <1>6 DEF CloseSys, Closed, Types
  <2>5. "out" \in PCs /\ "out" \notin Working
    BY DEF PCs, Running, Working
  <2>6. UNCHANGED <<threads, ops, raw, reported, queue, waiter, calls, canceled, timerVars, nonblock,
                    conn, m_fds, opens, result>>
    BY <1>6 DEF CloseSys
  <2> QED
    BY <1>0, <2>1, <2>2, <2>5, <2>6, LocalType DEF Types
<1>7. ASSUME NEW d \in Fds, TryAccept(f, d) \/ Socket(f, d) PROVE TypeInv'
  <2>1. pc' = [pc EXCEPT ![f] = "create"] /\ call' = [call EXCEPT ![f].fd = d]
    BY <1>7 DEF TryAccept, Socket
  <2>2. open' \subseteq Fds /\ opens' \in 0 .. MaxOpens
    BY <1>0, <1>7, HookAssumption DEF TryAccept, Socket, NewSocket, Types
  <2>3. conn' \in [Fds -> {"new", "pending", "up", "refused"}]
    BY <1>0, <1>7 DEF TryAccept, Socket, NewSocket, Types
  <2>4. nonblock' \in [Fds -> BOOLEAN]
    BY <1>0, <1>7 DEF TryAccept, Socket, NewSocket, Types
  <2>7. ready' \in [Fds -> SUBSET Events]
    <3>1. CASE Socket(f, d)
      BY <1>0, <3>1 DEF Socket, Types
    <3>2. CASE TryAccept(f, d)
      <4>1. Fd(f) \in Fds /\ ready' = [ready EXCEPT ![Fd(f)] = @ \ {"READ"}, ![d] = {}]
        BY <3>2 DEF TryAccept, TypeInv, CallInv, Working
      <4> QED
        BY <1>0, <4>1 DEF Types
    <3> QED
      BY <1>7, <3>1, <3>2
  <2>8. result' \in [Fibers -> {"none", "ok", "error", "timedout"}]
    BY <1>0, <1>7 DEF TryAccept, Socket, Types
  <2>5. "create" \in PCs /\ "create" \notin Working /\ Fd(f)' \in Fds
    BY <1>0, <2>1 DEF PCs, Running, Working, Fd, Types, CallTypes
  <2>6. UNCHANGED <<threads, ops, raw, reported, queue, waiter, calls, canceled, timerVars, m_fds, interest, edge, woke>>
    BY <1>7 DEF TryAccept, Socket
  <2> QED
    BY <1>0, <2>1, <2>2, <2>3, <2>4, <2>5, <2>6, <2>7, <2>8, LocalType DEF Types
<1> QED
  BY <1>1, <1>2, <1>3, <1>4, <1>5, <1>6, <1>7

\* The steps that start a call, its timer or its wait, and the ones that end them.
LEMMA CallSteps ==
    ASSUME TypeInv, NEW f \in Fibers
    PROVE  /\ Arm(f) \/ AddRefused(f) \/ AddAndHold(f) \/ Sleep(f) \/ Resume(f) => TypeInv'
           /\ \A d \in Fds : CloseCancel(f, d) => TypeInv'
           /\ \A d \in Fds, k \in Kinds \ {"sleep"} : RefuseConnect(f, d) \/ EnterCall(f, k, d) => TypeInv'
<1> USE DEF kernelVars, epollVars, histVars, callVars, Goto, Returns
<1>0. Types
  BY NamedTypes
<1>00. CallInv
  BY DEF TypeInv
<1>1. CASE Arm(f)
  <2>1. /\ pc[f] = "arm" /\ pc' = [pc EXCEPT ![f] = "add"]
        /\ armed' \subseteq Timers /\ \A t \in armed' : t \in armed \/ (t.kind = call[f].kind /\ t.fd = Fd(f))
    BY <1>0, <1>1 DEF Arm, Types
  <2>2. UNCHANGED <<threads, ops, histVars, m_fds, kernelVars, epollVars, waiter, queue, callVars, opens, fired,
                    cancelling, expired, result>>
    BY <1>1 DEF Arm
  <2>3. pc' \in [Fibers -> PCs]
    BY <1>0, <2>1 DEF Types, PCs, Running
  <2>4. Fd(f) \in Fds /\ call[f].kind # "sleep"
    BY <1>00, <2>1 DEF CallInv, Working
  <2>5. CallInv'
    <3>1. \A t \in armed' \cup fired \cup cancelling : IF t.kind = "sleep" THEN t \notin cancelling ELSE t.fd \in Fds
      BY <1>00, <2>1, <2>4 DEF CallInv
    <3> QED
      BY <1>0, <1>00, <2>1, <2>2, <3>1 DEF CallInv, Types, Working, Fd
  <2> QED
    BY <1>0, <2>1, <2>2, <2>3, <2>5, TypeFiber DEF Types
<1>2. CASE AddRefused(f)
  <2>1. /\ pc[f] = "add" /\ pc' = [pc EXCEPT ![f] = "out"] /\ armed' \subseteq armed
        /\ result' = [result EXCEPT ![f] = "error"]
    BY <1>2 DEF AddRefused
  <2>2. UNCHANGED <<threads, ops, histVars, m_fds, kernelVars, epollVars, waiter, queue, callVars, opens, fired, cancelling, expired>>
    BY <1>2 DEF AddRefused
  <2>3. pc' \in [Fibers -> PCs] /\ result' \in [Fibers -> {"none", "ok", "error", "timedout"}]
    BY <1>0, <2>1 DEF Types, PCs, Running
  <2>5. CallInv'
    BY <1>0, <1>00, <2>1, <2>2 DEF CallInv, Types, Working, Fd
  <2> QED
    BY <1>0, <2>1, <2>2, <2>3, <2>5, TypeFiber DEF Types
<1>3. CASE AddAndHold(f)
  <2>1. pc[f] = "add" /\ pc' = [pc EXCEPT ![f] = "held"] /\ Fd(f) \in Fds /\ Ev(f) \in Events
    BY <1>3, <1>00, EventOfType DEF AddAndHold, Ev, CallInv, Working
  <2>2. UNCHANGED <<threads, ops, histVars, m_fds, kernelVars, reported, queue, callVars, opens, timerVars, result>>
    BY <1>3 DEF AddAndHold
  <2>3. pc' \in [Fibers -> PCs]
    BY <1>0, <2>1 DEF Types, PCs, Running
  <2>4. waiter' \in [Fds -> [Events -> Fibers \cup {NoOne}]]
    BY <1>0, <1>3, <2>1 DEF AddAndHold, Types
  <2>6. interest' \in [Fds -> SUBSET Events] /\ edge' \subseteq Fds \X Events
    BY <1>0, <1>3, <2>1 DEF AddAndHold, Types, WatchFor, Registered
  <2>5. CallInv'
    <3>1. \A g \in Fibers : g # f => pc'[g] = pc[g]
      BY <1>0, <2>1 DEF Types
    <3>2. pc'[f] = "held" /\ pc[f] \in Working
      BY <1>0, <2>1 DEF Types, Working
    <3> QED
      BY <1>00, <2>2, <3>1, <3>2 DEF CallInv, Working, Fd, timerVars
  <2> QED
    BY <1>0, <2>1, <2>2, <2>3, <2>4, <2>5, <2>6, TypeFiber DEF Types, timerVars
<1>4. CASE Sleep(f)
  <2> DEFINE c == [NoCall EXCEPT !.kind = "sleep"]
             t == [fiber |-> f, call |-> calls[f] + 1, kind |-> "sleep", fd |-> 0]
  <2>1. /\ pc[f] = "out" /\ "sleep" \in Kinds /\ pc' = [pc EXCEPT ![f] = "held"]
        /\ calls' = [calls EXCEPT ![f] = @ + 1] /\ call' = [call EXCEPT ![f] = c]
        /\ canceled' = [canceled EXCEPT ![f] = FALSE] /\ expired' = [expired EXCEPT ![f] = FALSE]
        /\ armed' = armed \cup {t} /\ CallsMade < MaxCalls
    BY <1>4 DEF Sleep, MayCall
  <2>2. UNCHANGED <<threads, ops, histVars, m_fds, kernelVars, epollVars, waiter, queue, opens, fired, cancelling, result>>
    BY <1>4 DEF Sleep
  <2>3. calls[f] + 1 \in 1 .. MaxCalls
    BY <1>0, <2>1, CallsBound DEF Types
  <2>4. c \in CallTypes /\ c.kind = "sleep" /\ c.fd = 0 /\ c.timed = FALSE
    BY <2>1 DEF CallTypes, NoCall
  <2>6. t \in Timers /\ t.kind = "sleep"
    BY <2>1, <2>3 DEF Timers
  <2> HIDE DEF c, t
  <2>7. pc' \in [Fibers -> PCs] /\ call' \in [Fibers -> CallTypes]
    BY <1>0, <2>1, <2>4 DEF Types, PCs, Running
  <2>8. canceled' \in [Fibers -> BOOLEAN] /\ expired' \in [Fibers -> BOOLEAN]
    BY <1>0, <2>1 DEF Types
  <2>9. calls' \in [Fibers -> 0 .. MaxCalls] /\ armed' \subseteq Timers
    BY <1>0, <2>1, <2>3, <2>6 DEF Types
  <2>10. CallInv'
    <3>1. \A g \in Fibers : g # f => pc'[g] = pc[g] /\ call'[g] = call[g] /\ calls'[g] = calls[g]
      BY <1>0, <2>1 DEF Types
    <3>2. pc'[f] = "held" /\ call'[f] = c /\ calls'[f] = calls[f] + 1
      BY <1>0, <2>1 DEF Types
    <3>3. t \notin cancelling
      BY <1>00, <2>6 DEF CallInv
    <3>4. \A s \in armed' \cup fired \cup cancelling : IF s.kind = "sleep" THEN s \notin cancelling ELSE s.fd \in Fds
      BY <1>00, <2>1, <2>6, <3>3 DEF CallInv
    <3> QED
      BY <1>00, <2>1, <2>2, <2>3, <2>4, <3>1, <3>2, <3>4 DEF CallInv, Working, Fd
  <2> QED
    BY <1>0, <2>2, <2>7, <2>8, <2>9, <2>10, TypeFiber DEF Types
<1>5. CASE Resume(f)
  <2>1. /\ pc[f] = "held" /\ queue' \subseteq queue /\ armed' \subseteq armed
        /\ UNCHANGED <<threads, ops, histVars, m_fds, kernelVars, epollVars, waiter, callVars, opens, fired, cancelling, expired>>
    BY <1>5 DEF Resume
  <2>2. PICK h \in {"out", "check", "try"} :
           /\ pc' = [pc EXCEPT ![f] = h]
           /\ h # "out" => call[f].kind # "sleep"
           /\ h = "check" => call[f].kind = "connect"
    BY <1>5 DEF Resume
  <2>3. result' \in [Fibers -> {"none", "ok", "error", "timedout"}]
    BY <1>0, <1>5 DEF Resume, Types
  <2>4. pc' \in [Fibers -> PCs]
    BY <1>0, <2>2 DEF Types, PCs, Running
  <2>5. CallInv'
    <3>1. \A g \in Fibers : g # f => pc'[g] = pc[g]
      BY <1>0, <2>2 DEF Types
    <3>2. pc'[f] = h
      BY <1>0, <2>2 DEF Types
    <3> QED
      BY <1>00, <2>1, <2>2, <3>1, <3>2 DEF CallInv, Working, Fd
  <2> QED
    BY <1>0, <2>1, <2>3, <2>4, <2>5, TypeFiber DEF Types
<1>6. ASSUME NEW d \in Fds, CloseCancel(f, d) PROVE TypeInv'
  <2>1. PICK h \in {"del", "sys"} : pc' = [pc EXCEPT ![f] = h]
    BY <1>6 DEF CloseCancel
  <2> DEFINE c == [call[f] EXCEPT !.fd = d]
  <2>2. c \in CallTypes /\ c.fd = d
    <3>1. call[f] \in CallTypes
      BY <1>0 DEF Types
    <3> QED
      BY <3>1 DEF CallTypes
  <2>3. call' = [call EXCEPT ![f] = c]
    BY <1>6 DEF CloseCancel
  <2> HIDE DEF c
  <2>4. /\ waiter' \in [Fds -> [Events -> Fibers \cup {NoOne}]] /\ queue' \subseteq Fibers
        /\ woke' \in [Fibers -> {"nothing", "event", "timer", "user"}]
        /\ interest' \in [Fds -> SUBSET Events] /\ edge' \subseteq Fds \X Events
    <3>1. Trigger(d, Events, "user") \/ UNCHANGED <<waiter, queue, interest, edge, woke>>
      BY <1>6 DEF CloseCancel
    <3> QED
      BY <1>0, <3>1, TriggerType DEF Types
  <2>5. UNCHANGED <<threads, ops, m_fds, raw, kernelVars, reported, calls, canceled, opens, timerVars, result>>
    BY <1>6 DEF CloseCancel
  <2>6. pc' \in [Fibers -> PCs] /\ call' \in [Fibers -> CallTypes]
    BY <1>0, <2>1, <2>2, <2>3 DEF Types, PCs, Running
  <2>7. CallInv'
    <3>1. \A g \in Fibers : g # f => pc'[g] = pc[g] /\ call'[g] = call[g]
      BY <1>0, <2>1, <2>3 DEF Types
    <3>2. pc'[f] = h /\ call'[f].fd = d
      BY <1>0, <2>1, <2>2, <2>3 DEF Types
    <3> QED
      BY <1>00, <2>5, <3>1, <3>2 DEF CallInv, Working, Fd, timerVars
  <2> QED
    BY <1>0, <2>4, <2>5, <2>6, <2>7, TypeFiber DEF Types, timerVars
<1>7. ASSUME NEW d \in Fds, NEW k \in Kinds \ {"sleep"}, RefuseConnect(f, d) PROVE TypeInv'
  <2>1. /\ calls' = [calls EXCEPT ![f] = @ + 1] /\ pc' = [pc EXCEPT ![f] = "out"] /\ CallsMade < MaxCalls /\ pc[f] = "out"
        /\ UNCHANGED <<threads, ops, histVars, m_fds, kernelVars, epollVars, waiter, queue, call, canceled, opens, timerVars>>
    BY <1>7 DEF RefuseConnect, MayCall
  <2>2. result' \in [Fibers -> {"none", "ok", "error", "timedout"}]
    BY <1>0, <1>7 DEF RefuseConnect, Types
  <2>3. calls[f] + 1 \in 1 .. MaxCalls
    BY <1>0, <2>1, CallsBound DEF Types
  <2>4. calls' \in [Fibers -> 0 .. MaxCalls] /\ pc' = pc
    BY <1>0, <2>1, <2>3 DEF Types
  <2>5. CallInv'
    BY <1>0, <1>00, <2>1, <2>3, <2>4 DEF CallInv, Working, Fd, timerVars, Types
  <2> QED
    BY <1>0, <2>1, <2>2, <2>4, <2>5, TypeFiber DEF Types, timerVars
<1>8. ASSUME NEW d \in Fds, NEW k \in Kinds \ {"sleep"}, EnterCall(f, k, d) PROVE TypeInv'
  <2> DEFINE c == [kind |-> k, fd |-> d, waits |-> Waits(d),
                   timed |-> Waits(d) /\ (k = "connect" \/ EventOf(k) \in m_fds[d].timeouts)]
  <2>1. /\ pc[f] = "out" /\ pc' = [pc EXCEPT ![f] = "try"]
        /\ calls' = [calls EXCEPT ![f] = @ + 1] /\ call' = [call EXCEPT ![f] = c]
        /\ canceled' = [canceled EXCEPT ![f] = FALSE] /\ expired' = [expired EXCEPT ![f] = FALSE]
        /\ CallsMade < MaxCalls
    BY <1>8 DEF EnterCall, MayCall
  <2>2. UNCHANGED <<threads, ops, histVars, m_fds, kernelVars, epollVars, waiter, queue, opens, armed, fired, cancelling, result>>
    BY <1>8 DEF EnterCall
  <2>3. calls[f] + 1 \in 1 .. MaxCalls
    BY <1>0, <2>1, CallsBound DEF Types
  <2>4. c \in CallTypes /\ c.kind = k /\ c.fd = d
    BY DEF CallTypes, Waits
  <2> HIDE DEF c
  <2>7. pc' \in [Fibers -> PCs] /\ call' \in [Fibers -> CallTypes]
    BY <1>0, <2>1, <2>4 DEF Types, PCs, Running
  <2>8. canceled' \in [Fibers -> BOOLEAN] /\ expired' \in [Fibers -> BOOLEAN]
    BY <1>0, <2>1 DEF Types
  <2>9. calls' \in [Fibers -> 0 .. MaxCalls]
    BY <1>0, <2>1, <2>3 DEF Types
  <2>10. CallInv'
    <3>1. \A g \in Fibers : g # f => pc'[g] = pc[g] /\ call'[g] = call[g] /\ calls'[g] = calls[g]
      BY <1>0, <2>1 DEF Types
    <3>2. pc'[f] = "try" /\ call'[f] = c /\ calls'[f] = calls[f] + 1
      BY <1>0, <2>1 DEF Types
    <3> QED
      BY <1>00, <2>2, <2>3, <2>4, <3>1, <3>2 DEF CallInv, Working, Fd
  <2> QED
    BY <1>0, <2>2, <2>7, <2>8, <2>9, <2>10, TypeFiber DEF Types
<1> QED
  BY <1>1, <1>2, <1>3, <1>4, <1>5, <1>6, <1>7, <1>8

LEMMA TimerSteps ==
    ASSUME TypeInv
    PROVE  /\ \A t \in armed : Expire(t) => TypeInv'
           /\ \A t \in fired : RunCallback(t) => TypeInv'
           /\ \A t \in cancelling : CallbackCancels(t) => TypeInv'
<1> USE DEF kernelVars, epollVars, histVars, callVars, Goto, Returns
<1>0. Types
  BY NamedTypes
<1>00. CallInv
  BY DEF TypeInv
<1>1. ASSUME NEW t \in armed, Expire(t) PROVE TypeInv'
  <2>1. /\ armed' = armed \ {t} /\ fired' = fired \cup {t}
        /\ UNCHANGED <<threads, ops, histVars, m_fds, kernelVars, epollVars, waiter, queue, pc, callVars, opens, cancelling, result>>
    BY <1>1 DEF Expire
  <2>2. expired' \in [Fibers -> BOOLEAN]
    BY <1>0, <1>1 DEF Expire, Types
  <2>3. CallInv'
    BY <1>00, <2>1 DEF CallInv, Fd
  <2> QED
    BY <1>0, <2>1, <2>2, <2>3, TypeFiber DEF Types
<1>2. ASSUME NEW t \in fired, RunCallback(t) PROVE TypeInv'
  <2>1. /\ fired' = fired \ {t}
        /\ UNCHANGED <<threads, ops, histVars, m_fds, kernelVars, epollVars, waiter, pc, call, calls, opens, armed, expired, result>>
    BY <1>2 DEF RunCallback
  <2>2. t \in Timers /\ t.fiber \in Fibers
    BY <1>0 DEF Types, Timers
  <2>3. queue' \subseteq Fibers
    BY <1>0, <1>2, <2>2 DEF RunCallback, Types
  <2>4. canceled' \in [Fibers -> BOOLEAN]
    BY <1>0, <1>2 DEF RunCallback, Types
  <2>5. cancelling' = cancelling \/ (cancelling' = cancelling \cup {t} /\ t.kind # "sleep")
    BY <1>2 DEF RunCallback
  <2>6. cancelling' \subseteq Timers /\ IsFiniteSet(cancelling')
    <3>1. IsFiniteSet(cancelling \cup {t}) /\ IsFiniteSet(cancelling)
      BY <1>00, FS_AddElement DEF CallInv
    <3> QED
      BY <1>0, <2>2, <2>5, <3>1 DEF Types
  <2>7. CallInv'
    BY <1>00, <2>1, <2>5, <2>6 DEF CallInv, Fd
  <2> QED
    BY <1>0, <2>1, <2>3, <2>4, <2>6, <2>7, TypeFiber DEF Types
<1>3. ASSUME NEW t \in cancelling, CallbackCancels(t) PROVE TypeInv'
  <2>1. /\ cancelling' = cancelling \ {t} /\ Trigger(t.fd, {EventOf(t.kind)}, "timer")
        /\ UNCHANGED <<threads, ops, m_fds, raw, kernelVars, reported, pc, callVars, opens, armed, fired, expired, result>>
    BY <1>3 DEF CallbackCancels
  <2>2. t.fd \in Fds /\ {EventOf(t.kind)} \in SUBSET Events
    BY <1>00, EventOfType DEF CallInv
  <2>3. /\ waiter' \in [Fds -> [Events -> Fibers \cup {NoOne}]] /\ queue' \subseteq Fibers
        /\ woke' \in [Fibers -> {"nothing", "event", "timer", "user"}]
        /\ interest' \in [Fds -> SUBSET Events] /\ edge' \subseteq Fds \X Events
    BY <2>1, <2>2, TriggerType
  <2>4. IsFiniteSet(cancelling')
    BY <1>00, <2>1, FS_RemoveElement DEF CallInv
  <2>5. CallInv'
    BY <1>00, <2>1, <2>4 DEF CallInv, Fd
  <2> QED
    BY <1>0, <2>1, <2>3, <2>5, TypeFiber DEF Types
<1> QED
  BY <1>1, <1>2, <1>3

\* The state keeps its types.
LEMMA NextType == TypeInv /\ [Next]_vars => TypeInv'
<1> SUFFICES ASSUME TypeInv, [Next]_vars PROVE TypeInv'
  OBVIOUS
<1>1. CASE UNCHANGED vars
  BY <1>1 DEF vars, kernelVars, epollVars, callVars, timerVars, TypeInv, TypeOK, CallInv, Fd
<1>2. EventsUsed \subseteq Events
  BY EventOfType DEF EventsUsed
<1>3. CASE \E f \in Fibers : FiberStep(f)
  BY <1>3, LocalSteps, CallSteps DEF FiberStep
<1>4. CASE SchedulerStep
  BY <1>4, TimerSteps, EnvironmentType DEF SchedulerStep
<1>5. CASE Environment
  BY <1>2, <1>5, LocalSteps, CallSteps, EnvironmentType DEF Environment
<1> QED
  BY <1>1, <1>3, <1>4, <1>5 DEF Next

LEMMA InitType == Init => TypeInv
<1> SUFFICES ASSUME Init PROVE TypeInv
  OBVIOUS
<1>1. IsFiniteSet({})
  BY FS_EmptySet
<1>2. /\ pc = [f \in Fibers |-> "out"] /\ call = [f \in Fibers |-> NoCall] /\ armed = {} /\ fired = {} /\ cancelling = {}
      /\ reported = {}
  BY DEF Init
<1>3. CallInv
  BY <1>1, <1>2 DEF CallInv, Working
<1>4. m_fds \in [Fds -> {NoOne} \cup [m_is_user_nonblock : BOOLEAN, timeouts : SUBSET Events]]
  BY DEF Init, NewEntry
<1>5. /\ nonblock \in [Fds -> BOOLEAN] /\ canceled \in [Fibers -> BOOLEAN] /\ expired \in [Fibers -> BOOLEAN]
  BY DEF Init
<1>6. NoCall \in [kind : Kinds \cup {"read"}, fd : Fds \cup {0}, waits : BOOLEAN, timed : BOOLEAN]
  BY DEF NoCall
<1>7. call \in [Fibers -> [kind : Kinds \cup {"read"}, fd : Fds \cup {0}, waits : BOOLEAN, timed : BOOLEAN]]
  BY <1>2, <1>6
<1>8. /\ threads \in ThreadCounts /\ open \subseteq Fds /\ conn \in [Fds -> {"new", "pending", "up", "refused"}]
      /\ ready \in [Fds -> SUBSET Events] /\ interest \in [Fds -> SUBSET Events]
      /\ edge \subseteq Fds \X Events /\ waiter \in [Fds -> [Events -> Fibers \cup {NoOne}]] /\ queue \subseteq Fibers
      /\ pc \in [Fibers -> PCs] /\ woke \in [Fibers -> {"nothing", "event", "timer", "user"}] /\ raw \subseteq Fds
      /\ result \in [Fibers -> {"none", "ok", "error", "timedout"}]
  BY DEF Init, PCs
<1>9. calls \in [Fibers -> 0 .. MaxCalls] /\ opens \in 0 .. MaxOpens /\ ops \in 0 .. MaxOps
  BY HookAssumption DEF Init
<1>10. TypeOK
  BY <1>2, <1>4, <1>5, <1>7, <1>8, <1>9 DEF TypeOK
<1> QED
  BY <1>3, <1>10 DEF TypeInv

-----------------------------------------------------------------------------
(* A wait and what can end it.                                             *)

\* A fiber that an event can wake holds, in the call that registered it.
WaiterInv ==
    \A d \in Fds, e \in Events, f \in Fibers : waiter[d][e] = f =>
        pc[f] = "held" /\ call[f].kind # "sleep" /\ f \notin queue /\ Fd(f) = d /\ Ev(f) = e
\* A timer that runs belongs to the call in progress.
ArmedInv ==
    \A t \in armed :
        /\ pc[t.fiber] \in {"add", "held"} /\ t.call = calls[t.fiber]
        /\ t.kind = call[t.fiber].kind /\ t.fd = Fd(t.fiber)
        /\ t.kind = "sleep" => t.fiber \notin queue
\* One that has run out may be old; if it is not, the time of the call is up.
FiredInv ==
    \A t \in fired \cup cancelling :
        /\ t.call <= calls[t.fiber]
        /\ TinfoAlive(t) => expired[t.fiber] /\ t.kind = call[t.fiber].kind /\ t.fd = Fd(t.fiber)
\* The timer of a sleep that has run out is the only one of its fiber.
SleepInv ==
    \A t \in fired : t.kind = "sleep" =>
        /\ pc[t.fiber] = "held" /\ t.call = calls[t.fiber] /\ call[t.fiber].kind = "sleep" /\ t.fd = 0
        /\ t.fiber \notin queue /\ t \notin armed
\* Only a timer marks a call as timed out.
CanceledInv == \A f \in Fibers : InCall(f) /\ canceled[f] => expired[f]

WaitInv ==
    /\ \A f \in queue : pc[f] = "held"
    /\ WaiterInv /\ ArmedInv /\ FiredInv /\ SleepInv /\ CanceledInv

\* Some fibers that wait for events are queued, and wait no more.
Woken(F) ==
    /\ F \subseteq Fibers /\ queue' = queue \cup F
    /\ \A f \in F : pc[f] = "held" /\ call[f].kind # "sleep" /\ f \notin queue
    /\ \A d \in Fds, e \in Events : waiter'[d][e] # NoOne =>
          waiter'[d][e] = waiter[d][e] /\ waiter[d][e] \notin F

LEMMA TriggerWakes ==
    ASSUME TypeInv, WaitInv, NEW d \in Fds, NEW evs \in SUBSET Events, NEW who, Trigger(d, evs, who)
    PROVE  \E F \in SUBSET Fibers : Woken(F)
<1> DEFINE hit == IF interest[d] = {} THEN {} ELSE evs \cap Registered(d)
           F == {waiter[d][e] : e \in hit}
<1>0. Types
  BY NamedTypes
<1>1. hit \subseteq Events /\ \A e \in hit : waiter[d][e] # NoOne
  BY DEF Registered
<1>2. /\ waiter' = [waiter EXCEPT ![d] = [e \in Events |-> IF e \in hit THEN NoOne ELSE @[e]]]
      /\ queue' = queue \cup F
  BY DEF Trigger
<1> HIDE DEF hit
<1>3. \A b \in Fds, e \in Events : waiter[b][e] \in Fibers \cup {NoOne}
  BY <1>0 DEF Types
<1>4. F \subseteq Fibers /\ \A f \in F : pc[f] = "held" /\ call[f].kind # "sleep" /\ f \notin queue /\ Fd(f) = d /\ Ev(f) \in hit
  BY <1>1, <1>3 DEF WaitInv, WaiterInv
<1>5. \A b \in Fds, e \in Events : waiter'[b][e] = IF b = d /\ e \in hit THEN NoOne ELSE waiter[b][e]
  BY <1>0, <1>2 DEF Types
<1> HIDE DEF F
<1>6. \A b \in Fds, e \in Events : waiter'[b][e] # NoOne => waiter'[b][e] = waiter[b][e] /\ waiter[b][e] \notin F
  BY <1>3, <1>4, <1>5 DEF WaitInv, WaiterInv
<1>7. Woken(F)
  BY <1>2, <1>4, <1>6 DEF Woken
<1> QED
  BY <1>4, <1>7

\* A fiber moves outside of its waits, or not at all.
Strolls(g) ==
    \/ pc'[g] = pc[g] /\ call'[g] = call[g]
    \/ /\ pc[g] \notin {"held", "add"} /\ pc'[g] \notin {"held", "add"}
       /\ pc'[g] \in Working => pc[g] \in Working /\ call'[g] = call[g]

LEMMA CalmWait ==
    ASSUME TypeInv, WaitInv, NEW F, Woken(F), \A g \in Fibers : Strolls(g),
           UNCHANGED <<calls, canceled, armed, fired, expired>>, cancelling' \subseteq cancelling
    PROVE  WaitInv'
<1>0. Types
  BY NamedTypes
<1>1. \A g \in Fibers : /\ pc[g] = "held" => pc'[g] = "held" /\ call'[g] = call[g]
                        /\ pc[g] = "add" => pc'[g] = "add" /\ call'[g] = call[g]
                        /\ InCall(g)' => InCall(g) /\ call'[g] = call[g]
  BY DEF Strolls, InCall, Working
<1>2. \A t \in armed \cup fired \cup cancelling : t.fiber \in Fibers
  BY <1>0 DEF Types, Timers
<1>3. \A d \in Fds, e \in Events : waiter[d][e] \in Fibers \cup {NoOne}
  BY <1>0 DEF Types
<1>4. \A f \in queue' : pc'[f] = "held"
  BY <1>0, <1>1 DEF Woken, WaitInv, Types
<1>5. WaiterInv'
  <2>1. \A d \in Fds, e \in Events, f \in Fibers : waiter'[d][e] = f => waiter[d][e] = f /\ f \notin F
    BY HookAssumption DEF Woken
  <2> QED
    BY <1>1, <2>1 DEF Woken, WaitInv, WaiterInv, Fd, Ev
<1>6. ArmedInv'
  BY <1>1, <1>2 DEF WaitInv, ArmedInv, Woken, Fd
<1>7. FiredInv'
  BY <1>1, <1>2 DEF WaitInv, FiredInv, TinfoAlive, Fd
<1>8. SleepInv'
  BY <1>1, <1>2 DEF WaitInv, SleepInv, Woken
<1>9. CanceledInv'
  BY <1>1 DEF WaitInv, CanceledInv
<1> QED
  BY <1>4, <1>5, <1>6, <1>7, <1>8, <1>9 DEF WaitInv

\* Most steps leave the waits and their timers alone, or end some waits.
Calm ==
    /\ \E F \in SUBSET Fibers : Woken(F)
    /\ \A g \in Fibers : Strolls(g)
    /\ UNCHANGED <<calls, canceled, armed, fired, expired>> /\ cancelling' \subseteq cancelling

LEMMA NobodyWoken == ASSUME TypeInv, UNCHANGED <<queue, waiter>> PROVE \E F \in SUBSET Fibers : Woken(F)
<1>1. Woken({})
  BY DEF Woken
<1> QED
  BY <1>1

LEMMA CalmMove ==
    ASSUME TypeInv, NEW f \in Fibers, NEW h \in PCs, pc' = [pc EXCEPT ![f] = h],
           pc[f] \notin {"held", "add"}, h \notin {"held", "add"},
           h \in Working => pc[f] \in Working /\ call' = call,
           \A g \in Fibers : g # f => call'[g] = call[g]
    PROVE  \A g \in Fibers : Strolls(g)
<1>1. pc \in [Fibers -> PCs]
  BY NamedTypes DEF Types
<1> QED
  BY <1>1 DEF Strolls

LEMMA CalmSteps ==
    ASSUME TypeInv, WaitInv
    PROVE  /\ \A f \in Fibers : TryIO(f) \/ TryConnect(f) \/ Unblock(f) \/ Check(f) \/ Create(f) \/ CloseDel(f) \/ CloseSys(f) => Calm
           /\ \A f \in Fibers, d \in Fds : TryAccept(f, d) \/ Socket(f, d) \/ CloseCancel(f, d) => Calm
           /\ \A d \in Fds, e \in Events : BecomeReady(d, e) \/ SetTimeout(d, e) \/ Report(d, e) \/ Handle(d, e) => Calm
           /\ \A d \in Fds, c \in {"up", "refused"} : Connected(d, c) => Calm
           /\ \A d \in Fds : CloseUnhooked(d) => Calm
           /\ \A d \in Fds, evs \in SUBSET Events : CancelOp(d, evs) => Calm
           /\ \A d \in Fds, b \in BOOLEAN : Fcntl(d, b) \/ Ioctl(d, b) => Calm
           /\ \A t \in cancelling : CallbackCancels(t) => Calm
<1> USE DEF kernelVars, epollVars, histVars, callVars, timerVars, Goto, Returns
<1>0. Types
  BY NamedTypes
<1>1. ASSUME NEW f \in Fibers, TryIO(f) \/ TryConnect(f) \/ Unblock(f) \/ Check(f) \/ Create(f) \/ CloseDel(f) \/ CloseSys(f) PROVE Calm
  <2>1. PICK h \in {"out", "try", "arm", "blocked", "sys"} :
            pc' = [pc EXCEPT ![f] = h] /\ (h \in {"try", "arm", "blocked"} => pc[f] \in Working)
    <3>1. CASE TryIO(f) \/ TryConnect(f)
      <4>1. pc[f] \in Working
        BY <3>1 DEF TryIO, TryConnect, Working
      <4> QED
        BY <3>1, <4>1, TryMoves
    <3>2. CASE Unblock(f)
      <4>1. pc[f] \in Working
        BY <3>2 DEF Unblock, Working
      <4> QED
        BY <3>2, <4>1, UnblockMoves
    <3>3. CASE Check(f) \/ Create(f) \/ CloseDel(f) \/ CloseSys(f)
      BY <3>3 DEF Check, Create, CloseDel, CloseSys
    <3> QED
      BY <1>1, <3>1, <3>2, <3>3
  <2>2. pc[f] \notin {"held", "add"} /\ call' = call
    BY <1>1 DEF TryIO, TryConnect, Unblock, Check, Create, CloseDel, CloseSys
  <2>3. \A g \in Fibers : Strolls(g)
    <3>1. h \in PCs
      BY DEF PCs, Running
    <3>2. h \in Working => pc[f] \in Working
      BY <2>1 DEF Working
    <3> QED
      BY <2>1, <2>2, <3>1, <3>2, CalmMove
  <2>4. UNCHANGED <<queue, waiter, calls, canceled, armed, fired, expired, cancelling>>
    BY <1>1 DEF TryIO, TryConnect, Unblock, Check, Create, CloseDel, CloseSys
  <2> QED
    BY <2>3, <2>4, NobodyWoken DEF Calm
<1>2. ASSUME NEW f \in Fibers, NEW d \in Fds, TryAccept(f, d) \/ Socket(f, d) \/ CloseCancel(f, d) PROVE Calm
  <2>1. PICK h \in {"create", "del", "sys"} : pc' = [pc EXCEPT ![f] = h]
    BY <1>2 DEF TryAccept, Socket, CloseCancel
  <2>2. pc[f] \notin {"held", "add"} /\ call' = [call EXCEPT ![f].fd = d]
    BY <1>2 DEF TryAccept, Socket, CloseCancel
  <2>3. \A g \in Fibers : Strolls(g)
    <3>1. h \in PCs /\ h \notin Working
      BY DEF PCs, Running, Working
    <3>2. \A g \in Fibers : g # f => call'[g] = call[g]
      BY <1>0, <2>2 DEF Types
    <3> QED
      BY <2>1, <2>2, <3>1, <3>2, CalmMove
  <2>4. UNCHANGED <<calls, canceled, armed, fired, expired, cancelling>>
    BY <1>2 DEF TryAccept, Socket, CloseCancel
  <2>5. UNCHANGED <<queue, waiter>> \/ Trigger(d, Events, "user")
    BY <1>2 DEF TryAccept, Socket, CloseCancel
  <2> QED
    BY <2>3, <2>4, <2>5, NobodyWoken, TriggerWakes DEF Calm
<1>3. ASSUME UNCHANGED <<pc, call, calls, canceled, armed, fired, expired>>, cancelling' \subseteq cancelling,
             \/ UNCHANGED <<queue, waiter>>
             \/ \E d \in Fds, evs \in SUBSET Events, who \in {"event", "timer", "user"} : Trigger(d, evs, who)
      PROVE  Calm
  <2>1. \A g \in Fibers : Strolls(g)
    BY <1>3 DEF Strolls
  <2> QED
    BY <1>3, <2>1, NobodyWoken, TriggerWakes DEF Calm
<1>4. ASSUME NEW d \in Fds, NEW e \in Events, BecomeReady(d, e) \/ SetTimeout(d, e) \/ Report(d, e) PROVE Calm
  BY <1>3, <1>4 DEF BecomeReady, SetTimeout, Report
<1>5. ASSUME NEW d \in Fds, NEW e \in Events, Handle(d, e) PROVE Calm
  <2>1. {e} \in SUBSET Events
    OBVIOUS
  <2> QED
    BY <1>3, <1>5, <2>1 DEF Handle
<1>6. ASSUME NEW d \in Fds, NEW c \in {"up", "refused"}, Connected(d, c) PROVE Calm
  BY <1>3, <1>6 DEF Connected
<1>7. ASSUME NEW d \in Fds, CloseUnhooked(d) PROVE Calm
  BY <1>3, <1>7 DEF CloseUnhooked
<1>8. ASSUME NEW d \in Fds, NEW evs \in SUBSET Events, CancelOp(d, evs) PROVE Calm
  BY <1>3, <1>8 DEF CancelOp
<1>9. ASSUME NEW d \in Fds, NEW b \in BOOLEAN, Fcntl(d, b) \/ Ioctl(d, b) PROVE Calm
  BY <1>3, <1>9 DEF Fcntl, Ioctl
<1>10. ASSUME NEW t \in cancelling, CallbackCancels(t) PROVE Calm
  <2>1. t.fd \in Fds /\ {EventOf(t.kind)} \in SUBSET Events
    BY EventOfType DEF TypeInv, CallInv
  <2> QED
    BY <1>3, <1>10, <2>1 DEF CallbackCancels
<1> QED
  BY <1>1, <1>2, <1>4, <1>5, <1>6, <1>7, <1>8, <1>9, <1>10

\* A call begins: the timers of the calls before it no longer speak for it.
LEMMA BeginWait ==
    ASSUME TypeInv, WaitInv, NEW f \in Fibers, pc[f] = "out",
           \/ \E d \in Fds, k \in Kinds \ {"sleep"} : RefuseConnect(f, d) \/ EnterCall(f, k, d)
           \/ Sleep(f)
    PROVE  WaitInv'
<1> USE DEF kernelVars, epollVars, histVars, callVars, timerVars, Goto, Returns
<1>0. Types
  BY NamedTypes
<1>1. \A g \in Fibers : g # f => pc'[g] = pc[g] /\ call'[g] = call[g] /\ calls'[g] = calls[g] /\ canceled'[g] = canceled[g] /\ expired'[g] = expired[g]
  BY <1>0 DEF RefuseConnect, EnterCall, Sleep, Types
<1>2. \A t \in armed \cup fired \cup cancelling : t.fiber \in Fibers /\ t.call \in Nat
  BY <1>0 DEF Types, Timers
<1>3. UNCHANGED <<queue, waiter, fired, cancelling>>
  BY DEF RefuseConnect, EnterCall, Sleep
<1>4. calls'[f] = calls[f] + 1 /\ calls[f] \in Nat /\ (InCall(f)' => ~ canceled'[f])
  BY <1>0 DEF RefuseConnect, EnterCall, Sleep, Types, InCall
<1>5. f \notin queue /\ (\A d \in Fds, e \in Events : waiter[d][e] # f) /\ \A t \in armed : t.fiber # f
  BY <1>2 DEF WaitInv, WaiterInv, ArmedInv
<1>6. \A t \in fired : t.kind = "sleep" => t.fiber # f
  BY DEF WaitInv, SleepInv
<1>7. (\A g \in queue' : pc'[g] = "held") /\ WaiterInv'
  BY <1>0, <1>1, <1>3, <1>5 DEF WaitInv, WaiterInv, Fd, Ev, Types
<1>8. ArmedInv' /\ \A t \in armed' : t \in armed \/ t.fiber = f
  <2>1. CASE armed' = armed
    BY <1>1, <1>2, <1>3, <1>5, <2>1 DEF WaitInv, ArmedInv, Fd
  <2>2. CASE Sleep(f)
    <3> DEFINE t == [fiber |-> f, call |-> calls[f] + 1, kind |-> "sleep", fd |-> 0]
    <3>1. armed' = armed \cup {t} /\ t.fiber = f /\ t.call = calls[f] + 1 /\ t.kind = "sleep" /\ t.fd = 0
      BY <2>2 DEF Sleep
    <3> HIDE DEF t
    <3>2. pc'[f] = "held" /\ call'[f].kind = "sleep" /\ call'[f].fd = 0
      BY <1>0, <2>2 DEF Sleep, Types, NoCall
    <3>3. \A u \in armed : /\ pc'[u.fiber] \in {"add", "held"} /\ u.call = calls'[u.fiber]
                           /\ u.kind = call'[u.fiber].kind /\ u.fd = call'[u.fiber].fd
                           /\ (u.kind = "sleep" => u.fiber \notin queue)
      BY <1>1, <1>2, <1>5 DEF WaitInv, ArmedInv, Fd
    <3> QED
      BY <1>3, <1>4, <1>5, <3>1, <3>2, <3>3 DEF ArmedInv, Fd
  <2> QED
    BY <2>1, <2>2 DEF RefuseConnect, EnterCall
<1>9. FiredInv'
  <2> SUFFICES ASSUME NEW t \in fired \cup cancelling
               PROVE  /\ t.call <= calls'[t.fiber]
                      /\ TinfoAlive(t)' => expired'[t.fiber] /\ t.kind = call'[t.fiber].kind /\ t.fd = call'[t.fiber].fd
    BY <1>3 DEF FiredInv, Fd
  <2>1. t.call <= calls[t.fiber] /\ (TinfoAlive(t) => expired[t.fiber] /\ t.kind = call[t.fiber].kind /\ t.fd = call[t.fiber].fd)
    BY DEF WaitInv, FiredInv, Fd
  <2>2. CASE t.fiber = f
    BY <1>2, <1>4, <2>1, <2>2 DEF TinfoAlive
  <2>3. CASE t.fiber # f
    BY <1>1, <1>2, <2>1, <2>3 DEF TinfoAlive, InCall
  <2> QED
    BY <2>2, <2>3
<1>10. SleepInv'
  BY <1>1, <1>2, <1>3, <1>6, <1>8 DEF WaitInv, SleepInv
<1>11. CanceledInv'
  BY <1>1, <1>4 DEF WaitInv, CanceledInv, InCall
<1> QED
  BY <1>7, <1>8, <1>9, <1>10, <1>11 DEF WaitInv

\* A fiber starts its timer, registers and holds, and is resumed.
LEMMA HoldWait ==
    ASSUME TypeInv, WaitInv, NEW f \in Fibers, Arm(f) \/ AddRefused(f) \/ AddAndHold(f) \/ Resume(f)
    PROVE  WaitInv'
<1> USE DEF kernelVars, epollVars, histVars, callVars, timerVars, Goto, Returns
<1>0. Types
  BY NamedTypes
<1>1. UNCHANGED <<call, calls, canceled, expired, fired, cancelling>>
  BY DEF Arm, AddRefused, AddAndHold, Resume
<1>2. PICK h : pc' = [pc EXCEPT ![f] = h] /\ h \in {"add", "out", "held", "check", "try"}
  BY DEF Arm, AddRefused, AddAndHold, Resume
<1>3. pc'[f] = h /\ \A g \in Fibers : g # f => pc'[g] = pc[g]
  BY <1>0, <1>2 DEF Types
<1>4. \A t \in armed \cup fired \cup cancelling : t.fiber \in Fibers
  BY <1>0 DEF Types, Timers
<1>5. InCall(f) /\ \A g \in Fibers : InCall(g)' => InCall(g)
  BY <1>3 DEF Arm, AddRefused, AddAndHold, Resume, InCall
<1>6. FiredInv'
  BY <1>1, <1>4, <1>5 DEF WaitInv, FiredInv, TinfoAlive, Fd
<1>7. CanceledInv'
  BY <1>1, <1>5 DEF WaitInv, CanceledInv
<1>8. \A t \in fired : t.kind = "sleep" => t.fiber # f
  BY DEF WaitInv, SleepInv, Arm, AddRefused, AddAndHold, Resume
<1>9. CASE Arm(f)
  <2>1. pc[f] = "arm" /\ h = "add" /\ UNCHANGED <<queue, waiter>> /\ call[f].kind # "sleep"
    BY <1>0, <1>2, <1>9 DEF Arm, TypeInv, CallInv, Working, Types
  <2>2. \A t \in armed' : t \in armed \/ (t.fiber = f /\ t.call = calls[f] /\ t.kind = call[f].kind /\ t.fd = Fd(f))
    BY <1>9 DEF Arm
  <2>3. (\A g \in queue' : pc'[g] = "held") /\ WaiterInv'
    BY <1>0, <1>1, <1>3, <2>1 DEF WaitInv, WaiterInv, Fd, Ev, Types
  <2>4. ArmedInv'
    BY <1>1, <1>3, <1>4, <2>1, <2>2 DEF WaitInv, ArmedInv, Fd
  <2>5. SleepInv'
    BY <1>1, <1>3, <1>4, <1>8, <2>1, <2>2 DEF WaitInv, SleepInv
  <2> QED
    BY <1>6, <1>7, <2>3, <2>4, <2>5 DEF WaitInv
<1>10. CASE AddRefused(f)
  <2>1. pc[f] = "add" /\ UNCHANGED <<queue, waiter>> /\ armed' = {t \in armed : t.fiber # f}
    BY <1>10 DEF AddRefused, Own
  <2>3. (\A g \in queue' : pc'[g] = "held") /\ WaiterInv'
    BY <1>0, <1>1, <1>3, <2>1 DEF WaitInv, WaiterInv, Fd, Ev, Types
  <2>4. ArmedInv'
    BY <1>1, <1>3, <1>4, <2>1 DEF WaitInv, ArmedInv, Fd
  <2>5. SleepInv'
    BY <1>1, <1>3, <1>4, <1>8, <2>1 DEF WaitInv, SleepInv
  <2> QED
    BY <1>6, <1>7, <2>3, <2>4, <2>5 DEF WaitInv
<1>11. CASE AddAndHold(f)
  <2>1. pc[f] = "add" /\ h = "held" /\ UNCHANGED <<queue, armed>> /\ call[f].kind # "sleep" /\ Fd(f) \in Fds /\ Ev(f) \in Events
    BY <1>0, <1>2, <1>11, EventOfType DEF AddAndHold, TypeInv, CallInv, Working, Types, Ev
  <2>2. \A d \in Fds, e \in Events : waiter'[d][e] = IF d = Fd(f) /\ e = Ev(f) THEN f ELSE waiter[d][e]
    BY <1>0, <1>11, <2>1 DEF AddAndHold, Types
  <2>3. f \notin queue /\ \A d \in Fds, e \in Events : waiter[d][e] # f
    BY <2>1 DEF WaitInv, WaiterInv
  <2>4. (\A g \in queue' : pc'[g] = "held") /\ WaiterInv'
    <3>1. \A g \in queue' : pc'[g] = "held"
      BY <1>0, <1>3, <2>1 DEF WaitInv, Types
    <3>2. WaiterInv'
      BY <1>1, <1>3, <2>1, <2>2, <2>3 DEF WaitInv, WaiterInv, Fd, Ev
    <3> QED
      BY <3>1, <3>2
  <2>5. ArmedInv'
    BY <1>1, <1>3, <1>4, <2>1 DEF WaitInv, ArmedInv, Fd
  <2>6. SleepInv'
    BY <1>1, <1>3, <1>4, <1>8, <2>1 DEF WaitInv, SleepInv
  <2> QED
    BY <1>6, <1>7, <2>4, <2>5, <2>6 DEF WaitInv
<1>12. CASE Resume(f)
  <2>1. f \in queue /\ queue' = queue \ {f} /\ UNCHANGED waiter /\ armed' = {t \in armed : t.fiber # f}
    BY <1>12 DEF Resume, Own
  <2>3. (\A g \in queue' : pc'[g] = "held") /\ WaiterInv'
    BY <1>0, <1>1, <1>3, <2>1 DEF WaitInv, WaiterInv, Fd, Ev, Types
  <2>4. ArmedInv'
    BY <1>1, <1>3, <1>4, <2>1 DEF WaitInv, ArmedInv, Fd
  <2>5. SleepInv'
    BY <1>1, <1>3, <1>4, <1>8, <2>1 DEF WaitInv, SleepInv
  <2> QED
    BY <1>6, <1>7, <2>3, <2>4, <2>5 DEF WaitInv
<1> QED
  BY <1>9, <1>10, <1>11, <1>12

\* A timer runs out and its callback runs.
LEMMA TimerWait ==
    ASSUME TypeInv, WaitInv, NEW t \in armed \cup fired,
           (t \in armed /\ Expire(t)) \/ (t \in fired /\ RunCallback(t))
    PROVE  WaitInv'
<1> USE DEF kernelVars, epollVars, histVars, callVars, timerVars, Goto, Returns
<1>0. Types
  BY NamedTypes
<1>1. \A u \in armed \cup fired \cup cancelling : u \in Timers /\ u.fiber \in Fibers
  BY <1>0 DEF Types, Timers
<1>2. UNCHANGED <<waiter, pc, call, calls>>
  BY DEF Expire, RunCallback
<1>3. CASE t \in armed /\ Expire(t)
  <2>1. armed' = armed \ {t} /\ fired' = fired \cup {t} /\ UNCHANGED <<queue, canceled, cancelling>>
    BY <1>3 DEF Expire
  <2>2. expired'[t.fiber] /\ \A g \in Fibers : expired[g] => expired'[g]
    BY <1>0, <1>1, <1>3 DEF Expire, Types
  <2>3. /\ pc[t.fiber] \in {"add", "held"} /\ t.call = calls[t.fiber]
        /\ t.kind = call[t.fiber].kind /\ t.fd = Fd(t.fiber) /\ (t.kind = "sleep" => t.fiber \notin queue)
    BY <1>3 DEF WaitInv, ArmedInv
  <2>4. t.kind = "sleep" => pc[t.fiber] = "held" /\ t.fd = 0
    BY <1>1, <2>3 DEF TypeInv, CallInv, Working
  <2>5. calls[t.fiber] \in Nat
    BY <1>0, <1>1 DEF Types
  <2>6. (\A g \in queue' : pc'[g] = "held") /\ WaiterInv'
    BY <1>2, <2>1 DEF WaitInv, WaiterInv, Fd, Ev
  <2>7. ArmedInv'
    BY <1>2, <2>1 DEF WaitInv, ArmedInv, Fd
  <2>8. FiredInv'
    BY <1>1, <1>2, <2>1, <2>2, <2>3, <2>5 DEF WaitInv, FiredInv, TinfoAlive, InCall, Fd
  <2>9. SleepInv'
    BY <1>2, <2>1, <2>3, <2>4 DEF WaitInv, SleepInv
  <2>10. CanceledInv'
    BY <1>2, <2>1, <2>2 DEF WaitInv, CanceledInv, InCall
  <2> QED
    BY <2>6, <2>7, <2>8, <2>9, <2>10 DEF WaitInv
<1>4. CASE t \in fired /\ RunCallback(t)
  <2>1. fired' = fired \ {t} /\ UNCHANGED <<armed, expired>>
    BY <1>4 DEF RunCallback
  <2>2. /\ t.call <= calls[t.fiber]
        /\ TinfoAlive(t) => expired[t.fiber] /\ t.kind = call[t.fiber].kind /\ t.fd = Fd(t.fiber)
    BY <1>4 DEF WaitInv, FiredInv
  <2>3. CASE t.kind = "sleep"
    <3>1. queue' = queue \cup {t.fiber} /\ UNCHANGED <<canceled, cancelling>>
      BY <1>4, <2>3 DEF RunCallback
    <3>2. /\ pc[t.fiber] = "held" /\ t.call = calls[t.fiber] /\ call[t.fiber].kind = "sleep" /\ t.fd = 0
          /\ t.fiber \notin queue /\ t \notin armed
      BY <1>4, <2>3 DEF WaitInv, SleepInv
    <3>3. \A u \in armed \cup fired : u.kind = "sleep" /\ u.fiber = t.fiber => u = t
      <4> SUFFICES ASSUME NEW u \in armed \cup fired, u.kind = "sleep", u.fiber = t.fiber PROVE u = t
        OBVIOUS
      <4>1. u.call = calls[t.fiber] /\ u.fd = 0
        <5>1. CASE u \in armed
          BY <1>1, <3>2, <5>1 DEF WaitInv, ArmedInv, TypeInv, CallInv
        <5>2. CASE u \in fired
          BY <5>2 DEF WaitInv, SleepInv
        <5> QED
          BY <5>1, <5>2
      <4> QED
        BY <1>1, <2>3, <3>2, <4>1 DEF Timers
    <3>4. (\A g \in queue' : pc'[g] = "held") /\ WaiterInv'
      BY <1>1, <1>2, <3>1, <3>2 DEF WaitInv, WaiterInv, Fd, Ev
    <3>5. ArmedInv'
      BY <1>1, <1>2, <2>1, <3>1, <3>2, <3>3 DEF WaitInv, ArmedInv, Fd
    <3>6. FiredInv'
      BY <1>2, <2>1, <3>1 DEF WaitInv, FiredInv, TinfoAlive, InCall, Fd
    <3>7. SleepInv'
      BY <1>2, <2>1, <3>1, <3>3 DEF WaitInv, SleepInv
    <3>8. CanceledInv'
      BY <1>2, <2>1, <3>1 DEF WaitInv, CanceledInv, InCall
    <3> QED
      BY <3>4, <3>5, <3>6, <3>7, <3>8 DEF WaitInv
  <2>4. CASE t.kind # "sleep"
    <3>1. UNCHANGED queue /\ (cancelling' = cancelling \/ cancelling' = cancelling \cup {t})
      BY <1>4, <2>4 DEF RunCallback
    <3>2. \A g \in Fibers : canceled'[g] => canceled[g] \/ (g = t.fiber /\ TinfoAlive(t))
      BY <1>0, <1>4, <2>4 DEF RunCallback, Types
    <3>4. (\A g \in queue' : pc'[g] = "held") /\ WaiterInv'
      BY <1>2, <3>1 DEF WaitInv, WaiterInv, Fd, Ev
    <3>5. ArmedInv'
      BY <1>2, <2>1, <3>1 DEF WaitInv, ArmedInv, Fd
    <3>6. FiredInv'
      BY <1>2, <1>4, <2>1, <3>1 DEF WaitInv, FiredInv, TinfoAlive, InCall, Fd
    <3>7. SleepInv'
      BY <1>2, <2>1, <3>1 DEF WaitInv, SleepInv
    <3>8. CanceledInv'
      BY <1>2, <2>1, <2>2, <3>2 DEF WaitInv, CanceledInv, InCall
    <3> QED
      BY <3>4, <3>5, <3>6, <3>7, <3>8 DEF WaitInv
  <2> QED
    BY <2>3, <2>4
<1> QED
  BY <1>3, <1>4

LEMMA NextWait == TypeInv /\ WaitInv /\ [Next]_vars => WaitInv'
<1> SUFFICES ASSUME TypeInv, WaitInv, [Next]_vars PROVE WaitInv'
  OBVIOUS
<1>1. CASE UNCHANGED vars
  BY <1>1 DEF vars, kernelVars, epollVars, callVars, timerVars, WaitInv, WaiterInv, ArmedInv, FiredInv, SleepInv, CanceledInv,
     TinfoAlive, InCall, Fd, Ev
<1>2. EventsUsed \subseteq Events
  BY EventOfType DEF EventsUsed
<1>3. Calm => WaitInv'
  BY CalmWait DEF Calm
<1>4. CASE \E f \in Fibers : FiberStep(f)
  BY <1>3, <1>4, CalmSteps, HoldWait DEF FiberStep
<1>5. CASE SchedulerStep
  BY <1>3, <1>5, CalmSteps, TimerWait DEF SchedulerStep
<1>6. CASE Environment
  <2>1. ASSUME NEW f \in Fibers, Sleep(f) PROVE WaitInv'
    BY <2>1, BeginWait DEF Sleep, MayCall
  <2>2. ASSUME NEW f \in Fibers, NEW d \in Fds, NEW k \in Kinds \ {"sleep"}, RefuseConnect(f, d) \/ EnterCall(f, k, d) PROVE WaitInv'
    <3>1. pc[f] = "out"
      BY <2>2 DEF RefuseConnect, EnterCall, MayCall
    <3> QED
      BY <2>2, <3>1, BeginWait
  <2> QED
    BY <1>2, <1>3, <1>6, <2>1, <2>2, CalmSteps DEF Environment
<1> QED
  BY <1>1, <1>4, <1>5, <1>6 DEF Next

LEMMA InitWait == Init => WaitInv
BY HookAssumption DEF Init, WaitInv, WaiterInv, ArmedInv, FiredInv, SleepInv, CanceledInv

LEMMA WaitsKept == Spec => [](TypeInv /\ WaitInv)
<1>1. Init => TypeInv /\ WaitInv
  BY InitType, InitWait
<1>2. TypeInv /\ WaitInv /\ [Next]_vars => (TypeInv /\ WaitInv)'
  BY NextType, NextWait
<1> QED
  BY <1>1, <1>2, PTL DEF Spec

\* A wait is ended once, for any number of threads: cancelEvent(), idle() and
\* close() race for the fiber and one of them gets it (hook.cpp:134 and 797).
THEOREM OneResume == Spec => []ResumedOnce
<1>1. TypeInv /\ WaitInv => ResumedOnce
  <2> SUFFICES ASSUME TypeInv, WaitInv PROVE ResumedOnce
    OBVIOUS
  <2>0. Types
    BY NamedTypes
  <2>1. \A t \in armed \cup fired : t.fiber \in Fibers
    BY <2>0 DEF Types, Timers
  <2>2. \A f \in queue : f \in Fibers /\ pc[f] = "held"
    BY <2>0 DEF WaitInv, Types
  <2>3. \A f \in queue, d \in Fds, e \in Events : waiter[d][e] # f
    BY <2>2 DEF WaitInv, WaiterInv
  <2>4. \A f \in queue, t \in armed \cup fired : t.kind = "sleep" => t.fiber # f
    BY DEF WaitInv, ArmedInv, SleepInv
  <2> QED
    BY <2>2, <2>3, <2>4 DEF ResumedOnce, TypeInv
<1> QED
  BY <1>1, WaitsKept, PTL

-----------------------------------------------------------------------------
(* The promise of module Wait.                                             *)

LEMMA StatusMoves ==
    ASSUME NEW f \in Fibers, NEW to, Status(f)' = to, \A g \in Fibers : g # f => Status(g)' = Status(g)
    PROVE  [g \in Fibers |-> Status(g)]' = [[g \in Fibers |-> Status(g)] EXCEPT ![f] = to]
OBVIOUS

\* One fiber moves, and the others do not notice.
LEMMA PromiseMove ==
    ASSUME NEW f \in Fibers, \A g \in Fibers : g # f => Status(g)' = Status(g)
    PROVE  /\ /\ Status(f) = "out" /\ Status(f)' \in {"busy", "parked"}
              /\ expired' = [expired EXCEPT ![f] = FALSE] /\ result' = result
              => Promise!Next
           /\ Status(f) = "busy" /\ Status(f)' = "parked" /\ UNCHANGED <<expired, result>> => Promise!Next
           /\ Status(f) = "woken" /\ Status(f)' = "busy" /\ UNCHANGED <<expired, result>> => Promise!Next
           /\ \A r \in {"none", "ok", "error", "timedout"} :
                 /\ Status(f) \in {"busy", "woken"} /\ Status(f)' = "out"
                 /\ r = "timedout" => expired[f]
                 /\ result' = [result EXCEPT ![f] = r] /\ expired' = expired
                 => Promise!Next
           /\ \A r \in {"none", "ok", "error"} :
                 /\ Status(f) = "out" /\ Status(f)' = "out"
                 /\ result' = [result EXCEPT ![f] = r] /\ expired' = expired
                 => Promise!Next
           /\ /\ Status(f) # "out" /\ Status(f)' = Status(f)
              /\ expired' = [expired EXCEPT ![f] = TRUE] /\ result' = result
              => Promise!Next
<1> DEFINE s == [g \in Fibers |-> Status(g)]
<1>0. s[f] = Status(f)
  OBVIOUS
<1>00. s' = [s EXCEPT ![f] = Status(f)']
  BY StatusMoves
<1>1. ASSUME Status(f) = "out", Status(f)' \in {"busy", "parked"},
             expired' = [expired EXCEPT ![f] = FALSE], result' = result
      PROVE  Promise!Next
  <2>1. Promise!Begin(f) \/ Promise!Doze(f)
    BY <1>0, <1>00, <1>1 DEF Promise!Begin, Promise!Doze, Promise!Moves
  <2> QED
    BY <2>1 DEF Promise!Next
<1>2. ASSUME Status(f) = "busy", Status(f)' = "parked", UNCHANGED <<expired, result>>
      PROVE  Promise!Next
  <2>1. Promise!Park(f)
    BY <1>0, <1>00, <1>2 DEF Promise!Park, Promise!Moves
  <2> QED
    BY <2>1 DEF Promise!Next
<1>3. ASSUME Status(f) = "woken", Status(f)' = "busy", UNCHANGED <<expired, result>>
      PROVE  Promise!Next
  <2>1. Promise!GoOn(f)
    BY <1>0, <1>00, <1>3 DEF Promise!GoOn, Promise!Moves
  <2> QED
    BY <2>1 DEF Promise!Next
<1>4. ASSUME NEW r \in {"none", "ok", "error", "timedout"}, Status(f) \in {"busy", "woken"}, Status(f)' = "out",
             r = "timedout" => expired[f], result' = [result EXCEPT ![f] = r], expired' = expired
      PROVE  Promise!Next
  <2>1. Promise!End(f, r)
    BY <1>0, <1>00, <1>4 DEF Promise!End, Promise!Moves
  <2> QED
    BY <2>1 DEF Promise!Next, Promise!Results
<1>5. ASSUME NEW r \in {"none", "ok", "error"}, Status(f) = "out", Status(f)' = "out",
             result' = [result EXCEPT ![f] = r], expired' = expired
      PROVE  Promise!Next
  <2>0. s' = s
    BY <1>5
  <2>1. Promise!Pass(f, r)
    BY <1>0, <1>5, <2>0 DEF Promise!Pass
  <2> QED
    BY <2>1 DEF Promise!Next, Promise!Results
<1>6. ASSUME Status(f) # "out", Status(f)' = Status(f), expired' = [expired EXCEPT ![f] = TRUE], result' = result
      PROVE  Promise!Next
  <2>0. s' = s
    BY <1>6
  <2>1. Promise!RunOut(f)
    BY <1>0, <1>6, <2>0 DEF Promise!RunOut
  <2> QED
    BY <2>1 DEF Promise!Next
<1> QED
  BY <1>1, <1>2, <1>3, <1>4, <1>5, <1>6

\* Several fibers are woken, or none.
LEMMA PromiseWake ==
    ASSUME NEW F \in SUBSET Fibers, \A g \in Fibers : Status(g)' = IF g \in F THEN "woken" ELSE Status(g),
           \A g \in F : Status(g) = "parked", UNCHANGED <<expired, result>>
    PROVE  Promise!Next \/ UNCHANGED Promise!vars
<1> DEFINE s == [g \in Fibers |-> Status(g)]
<1>1. s' = [g \in Fibers |-> IF g \in F THEN "woken" ELSE s[g]]
  OBVIOUS
<1>2. CASE F = {}
  BY <1>1, <1>2 DEF Promise!vars
<1>3. CASE F # {}
  <2>1. Promise!Wake(F)
    BY <1>1, <1>3 DEF Promise!Wake
  <2> QED
    BY <2>1 DEF Promise!Next
<1> QED
  BY <1>2, <1>3

\* The points at which a fiber is not in a call that may wait.
Outside == {"out", "create", "del", "sys"}

LEMMA StatusOf ==
    ASSUME NEW f \in Fibers
    PROVE  /\ pc[f] = "held" => Status(f) = IF f \in queue THEN "woken" ELSE "parked"
           /\ pc[f] \in Working => Status(f) = "busy"
           /\ pc[f] \in Outside => Status(f) = "out"
           /\ pc'[f] = "held" => Status(f)' = IF f \in queue' THEN "woken" ELSE "parked"
           /\ pc'[f] \in Working => Status(f)' = "busy"
           /\ pc'[f] \in Outside => Status(f)' = "out"
           /\ pc'[f] = pc[f] /\ (f \in queue' <=> f \in queue) => Status(f)' = Status(f)
BY DEF Status, Working, Outside

\* Steps that move no fiber into or out of a call.
LEMMA PromiseCalm ==
    ASSUME TypeInv, Calm, UNCHANGED result,
           \A g \in Fibers : pc'[g] = pc[g] \/ (pc[g] \in Outside /\ pc'[g] \in Outside)
    PROVE  Promise!Next \/ UNCHANGED Promise!vars
<1>1. PICK F \in SUBSET Fibers : Woken(F)
  BY DEF Calm
<1>2. pc \in [Fibers -> PCs] /\ queue \subseteq Fibers
  BY NamedTypes DEF Types
<1>3. \A g \in F : Status(g) = "parked"
  BY <1>1, StatusOf DEF Woken
<1>4. ASSUME NEW g \in Fibers PROVE Status(g)' = IF g \in F THEN "woken" ELSE Status(g)
  <2>1. CASE g \in F
    <3>1. pc[g] = "held" /\ g \in queue' /\ pc'[g] = "held"
      BY <1>1, <2>1 DEF Woken, Outside
    <3> QED
      BY <2>1, <3>1, StatusOf
  <2>2. CASE g \notin F /\ pc'[g] = pc[g]
    <3>1. g \in queue' <=> g \in queue
      BY <1>1, <2>2 DEF Woken
    <3> QED
      BY <2>2, <3>1, StatusOf
  <2>3. CASE g \notin F /\ pc[g] \in Outside /\ pc'[g] \in Outside
    BY <2>3, StatusOf
  <2> QED
    BY <2>1, <2>2, <2>3
<1> QED
  BY <1>3, <1>4, PromiseWake DEF Calm

\* The steps of a call keep the promise.
LEMMA PromiseFiber ==
    ASSUME TypeInv, WaitInv, NEW f \in Fibers,
           \/ FiberStep(f) \/ Sleep(f)
           \/ \E d \in Fds : Socket(f, d) \/ CloseCancel(f, d)
           \/ \E d \in Fds, k \in Kinds \ {"sleep"} : RefuseConnect(f, d) \/ EnterCall(f, k, d)
    PROVE  Promise!Next \/ UNCHANGED Promise!vars
<1> USE DEF kernelVars, epollVars, histVars, callVars, timerVars, Goto, Returns
<1>0. Types
  BY NamedTypes
<1>1. ASSUME NEW h, pc' = [pc EXCEPT ![f] = h]
      PROVE  pc'[f] = h /\ \A g \in Fibers : g # f => pc'[g] = pc[g]
  BY <1>0, <1>1 DEF Types
<1>2. ASSUME NEW h, pc' = [pc EXCEPT ![f] = h], queue' = queue \/ queue' = queue \ {f}
      PROVE  \A g \in Fibers : g # f => Status(g)' = Status(g)
  BY <1>1, <1>2, StatusOf
<1>3. f \in queue => pc[f] = "held"
  BY DEF WaitInv
\* A step from the call out of it, with its result.
<1>4. ASSUME NEW h \in Outside, pc' = [pc EXCEPT ![f] = h], NEW r \in {"ok", "error"}, result' = [result EXCEPT ![f] = r],
             UNCHANGED expired, queue' = queue \/ queue' = queue \ {f},
             pc[f] \in Working \/ (pc[f] = "held" /\ f \in queue) \/ pc[f] \in Outside
      PROVE  Promise!Next
  <2>1. \A g \in Fibers : g # f => Status(g)' = Status(g)
    BY <1>2, <1>4
  <2>2. Status(f) \in {"busy", "woken", "out"} /\ Status(f)' = "out"
    BY <1>1, <1>4, StatusOf
  <2> QED
    BY <1>4, <2>1, <2>2, PromiseMove
\* A step within the call.
<1>5. ASSUME NEW h \in Working, pc' = [pc EXCEPT ![f] = h], pc[f] \in Working, UNCHANGED <<queue, expired, result>>
      PROVE  UNCHANGED Promise!vars
  <2>1. \A g \in Fibers : Status(g)' = Status(g)
    <3>1. Status(f) = "busy" /\ Status(f)' = "busy"
      BY <1>1, <1>5, StatusOf
    <3> QED
      BY <1>2, <1>5, <3>1
  <2> QED
    BY <1>5, <2>1 DEF Promise!vars
<1>6. CASE TryIO(f) \/ TryConnect(f)
  <2>1. pc[f] \in Working /\ UNCHANGED <<queue, expired>>
    BY <1>6 DEF TryIO, TryConnect, Working
  <2>2. \/ \E r \in {"ok", "error"} : pc' = [pc EXCEPT ![f] = "out"] /\ result' = [result EXCEPT ![f] = r]
        \/ \E h \in {"arm", "blocked"} : pc' = [pc EXCEPT ![f] = h] /\ result' = result
    BY <1>6, TryMoves
  <2> QED
    BY <1>4, <1>5, <2>1, <2>2 DEF Working, Outside
<1>7. ASSUME NEW d \in Fds, TryAccept(f, d) PROVE Promise!Next
  <2>1. pc[f] = "try" /\ pc' = [pc EXCEPT ![f] = "create"] /\ result' = [result EXCEPT ![f] = "ok"] /\ UNCHANGED <<queue, expired>>
    BY <1>7 DEF TryAccept
  <2> QED
    BY <1>4, <2>1 DEF Working, Outside
<1>80. CASE Unblock(f)
  <2>1. pc[f] \in Working /\ UNCHANGED <<queue, expired>>
    BY <1>80 DEF Unblock, Working
  <2> QED
    BY <1>4, <1>5, <1>80, <2>1, UnblockMoves DEF Working, Outside
<1>8. CASE Check(f) \/ AddRefused(f) \/ Create(f)
  <2>1. pc[f] \in Working \cup Outside /\ pc' = [pc EXCEPT ![f] = "out"] /\ UNCHANGED <<queue, expired>>
    BY <1>8 DEF Check, AddRefused, Create, Working, Outside
  <2>2. \E r \in {"ok", "error"} : result' = [result EXCEPT ![f] = r]
    BY <1>8 DEF Check, AddRefused, Create
  <2> QED
    BY <1>4, <2>1, <2>2 DEF Outside
<1>9. CASE Arm(f)
  BY <1>5, <1>9 DEF Arm, Working
<1>10. CASE AddAndHold(f)
  <2>1. pc[f] = "add" /\ pc' = [pc EXCEPT ![f] = "held"] /\ UNCHANGED <<queue, expired, result>>
    BY <1>10 DEF AddAndHold
  <2>2. Status(f) = "busy" /\ Status(f)' = "parked"
    BY <1>1, <1>3, <2>1, StatusOf DEF Working
  <2> QED
    BY <1>2, <2>1, <2>2, PromiseMove
<1>11. CASE Resume(f)
  <2>1. pc[f] = "held" /\ f \in queue /\ queue' = queue \ {f} /\ UNCHANGED expired
    BY <1>11 DEF Resume
  <2>2. Status(f) = "woken"
    BY <2>1, StatusOf
  <2>3. \/ pc' = [pc EXCEPT ![f] = "out"] /\ result' = [result EXCEPT ![f] = "ok"]
        \/ pc' = [pc EXCEPT ![f] = "out"] /\ result' = [result EXCEPT ![f] = "timedout"] /\ canceled[f]
        \/ \E h \in {"check", "try"} : pc' = [pc EXCEPT ![f] = h] /\ result' = result
    BY <1>11 DEF Resume
  <2>4. CASE pc' = [pc EXCEPT ![f] = "out"] /\ result' = [result EXCEPT ![f] = "ok"]
    BY <1>4, <2>1, <2>4 DEF Outside
  <2>5. CASE pc' = [pc EXCEPT ![f] = "out"] /\ result' = [result EXCEPT ![f] = "timedout"] /\ canceled[f]
    <3>1. expired[f]
      BY <2>1, <2>5 DEF WaitInv, CanceledInv, InCall
    <3>2. Status(f)' = "out"
      BY <1>1, <2>5, StatusOf DEF Outside
    <3> QED
      BY <1>2, <2>1, <2>2, <2>5, <3>1, <3>2, PromiseMove
  <2>6. ASSUME NEW h \in {"check", "try"}, pc' = [pc EXCEPT ![f] = h], result' = result PROVE Promise!Next
    <3>2. Status(f)' = "busy"
      BY <1>1, <2>6, StatusOf DEF Working
    <3> QED
      BY <1>2, <2>1, <2>2, <2>6, <3>2, PromiseMove
  <2> QED
    BY <2>3, <2>4, <2>5, <2>6
<1>12. CASE CloseDel(f) \/ CloseSys(f) \/ \E d \in Fds : Socket(f, d) \/ CloseCancel(f, d)
  <2>1. Calm
    BY <1>12, CalmSteps
  <2>2. UNCHANGED result
    BY <1>12 DEF CloseDel, CloseSys, Socket, CloseCancel
  <2>3. pc[f] \in Outside /\ \E h \in Outside : pc' = [pc EXCEPT ![f] = h]
    BY <1>12 DEF CloseDel, CloseSys, Socket, CloseCancel, Outside
  <2> QED
    BY <1>1, <2>1, <2>2, <2>3, PromiseCalm
<1>13. CASE Sleep(f) \/ \E d \in Fds, k \in Kinds \ {"sleep"} : EnterCall(f, k, d)
  <2>1. /\ pc[f] = "out" /\ UNCHANGED <<queue, result>> /\ expired' = [expired EXCEPT ![f] = FALSE]
        /\ \E h \in {"held", "try"} : pc' = [pc EXCEPT ![f] = h]
    BY <1>13 DEF Sleep, EnterCall, MayCall
  <2>2. Status(f) = "out" /\ Status(f)' \in {"busy", "parked"}
    BY <1>1, <1>3, <2>1, StatusOf DEF Working, Outside
  <2> QED
    BY <1>2, <2>1, <2>2, PromiseMove
<1>14. ASSUME NEW d \in Fds, NEW k \in Kinds \ {"sleep"}, RefuseConnect(f, d) PROVE Promise!Next
  <2>1. pc[f] = "out" /\ UNCHANGED <<queue, expired>> /\ pc' = [pc EXCEPT ![f] = "out"]
    BY <1>14 DEF RefuseConnect, MayCall
  <2>2. \E r \in {"ok", "error"} : result' = [result EXCEPT ![f] = r]
    BY <1>14 DEF RefuseConnect
  <2> QED
    BY <1>4, <2>1, <2>2 DEF Outside
<1> QED
  BY <1>6, <1>7, <1>8, <1>80, <1>9, <1>10, <1>11, <1>12, <1>13, <1>14 DEF FiberStep

LEMMA PromiseElsewhere ==
    ASSUME TypeInv, WaitInv,
           \/ SchedulerStep
           \/ \E d \in Fds, e \in EventsUsed : BecomeReady(d, e) \/ SetTimeout(d, e)
           \/ \E d \in Fds, c \in {"up", "refused"} : Connected(d, c)
           \/ \E d \in Fds : CloseUnhooked(d)
           \/ \E d \in Fds, evs \in SUBSET Events : CancelOp(d, evs)
           \/ \E d \in Fds, b \in BOOLEAN : Fcntl(d, b) \/ Ioctl(d, b)
    PROVE  Promise!Next \/ UNCHANGED Promise!vars
<1> USE DEF kernelVars, epollVars, histVars, callVars, timerVars
<1>0. Types
  BY NamedTypes
<1>1. EventsUsed \subseteq Events
  BY EventOfType DEF EventsUsed
<1>2. ASSUME Calm, UNCHANGED <<pc, result>> PROVE Promise!Next \/ UNCHANGED Promise!vars
  BY <1>2, PromiseCalm
<1>3. \A t \in armed \cup fired : t.fiber \in Fibers
  BY <1>0 DEF Types, Timers
<1>4. ASSUME NEW t \in armed, Expire(t) PROVE Promise!Next
  <2>1. UNCHANGED <<pc, queue, result>> /\ expired' = [expired EXCEPT ![t.fiber] = TRUE]
    BY <1>4 DEF Expire
  <2>2. pc[t.fiber] \in {"add", "held"}
    BY DEF WaitInv, ArmedInv
  <2>3. Status(t.fiber) # "out"
    BY <1>3, <2>2, StatusOf DEF Working
  <2>4. \A g \in Fibers : Status(g)' = Status(g)
    BY <2>1, StatusOf
  <2> QED
    BY <1>3, <2>1, <2>3, <2>4, PromiseMove
<1>5. ASSUME NEW t \in fired, RunCallback(t) PROVE Promise!Next \/ UNCHANGED Promise!vars
  <2>1. UNCHANGED <<pc, expired, result>>
    BY <1>5 DEF RunCallback
  <2>2. CASE t.kind = "sleep"
    <3>1. queue' = queue \cup {t.fiber}
      BY <1>5, <2>2 DEF RunCallback
    <3>2. pc[t.fiber] = "held" /\ t.fiber \notin queue
      BY <2>2 DEF WaitInv, SleepInv
    <3>3. Status(t.fiber) = "parked" /\ Status(t.fiber)' = "woken"
      BY <1>3, <2>1, <3>1, <3>2, StatusOf
    <3>4. \A g \in Fibers : g # t.fiber => Status(g)' = Status(g)
      BY <2>1, <3>1, StatusOf
    <3> DEFINE F == {t.fiber}
    <3>5. F \in SUBSET Fibers /\ (\A g \in F : Status(g) = "parked") /\ \A g \in Fibers : Status(g)' = IF g \in F THEN "woken" ELSE Status(g)
      BY <1>3, <3>3, <3>4
    <3> HIDE DEF F
    <3> QED
      BY <2>1, <3>5, PromiseWake
  <2>3. CASE t.kind # "sleep"
    <3>1. queue' = queue
      BY <1>5, <2>3 DEF RunCallback
    <3>2. \A g \in Fibers : Status(g)' = Status(g)
      BY <2>1, <3>1, StatusOf
    <3> QED
      BY <2>1, <3>2 DEF Promise!vars
  <2> QED
    BY <2>2, <2>3
<1>6. ASSUME NEW t \in cancelling, CallbackCancels(t) PROVE Promise!Next \/ UNCHANGED Promise!vars
  <2>1. UNCHANGED <<pc, result>>
    BY <1>6 DEF CallbackCancels
  <2> QED
    BY <1>2, <1>6, <2>1, CalmSteps
<1>7. ASSUME NEW d \in Fds, NEW e \in Events, BecomeReady(d, e) \/ SetTimeout(d, e) \/ Report(d, e) \/ Handle(d, e)
      PROVE  Promise!Next \/ UNCHANGED Promise!vars
  <2>1. UNCHANGED <<pc, result>>
    BY <1>7 DEF BecomeReady, SetTimeout, Report, Handle
  <2> QED
    BY <1>2, <1>7, <2>1, CalmSteps
<1>8. ASSUME NEW d \in Fds,
             \/ \E c \in {"up", "refused"} : Connected(d, c)
             \/ CloseUnhooked(d)
             \/ \E evs \in SUBSET Events : CancelOp(d, evs)
             \/ \E b \in BOOLEAN : Fcntl(d, b) \/ Ioctl(d, b)
      PROVE  Promise!Next \/ UNCHANGED Promise!vars
  <2>1. UNCHANGED <<pc, result>>
    BY <1>8 DEF Connected, CloseUnhooked, CancelOp, Fcntl, Ioctl
  <2>2. Calm
    BY <1>8, CalmSteps
  <2> QED
    BY <1>2, <2>1, <2>2
<1> QED
  BY <1>1, <1>4, <1>5, <1>6, <1>7, <1>8 DEF SchedulerStep

\* The hooked calls implement module Wait, for any number of threads: a wait
\* ends once, a call goes on only when it was woken, and it reports a timeout
\* only when its own time was up (hook.cpp:93-165).
THEOREM PromiseKept == Spec => KeepsPromise
<1>1. Init => Promise!Init
  <2> SUFFICES ASSUME Init PROVE Promise!Init
    OBVIOUS
  <2>1. \A f \in Fibers : Status(f) = "out"
    <3>1. \A f \in Fibers : pc[f] = "out"
      BY DEF Init
    <3> QED
      BY <3>1, StatusOf DEF Outside
  <2>2. [f \in Fibers |-> Status(f)] = [f \in Fibers |-> "out"]
    BY <2>1
  <2> QED
    BY <2>2 DEF Init, Promise!Init
<1>2. TypeInv /\ WaitInv /\ [Next]_vars => Promise!Next \/ UNCHANGED Promise!vars
  <2> SUFFICES ASSUME TypeInv, WaitInv, [Next]_vars PROVE Promise!Next \/ UNCHANGED Promise!vars
    OBVIOUS
  <2>1. CASE UNCHANGED vars
    <3>1. UNCHANGED <<pc, queue, expired, result>>
      BY <2>1 DEF vars, timerVars
    <3>2. \A g \in Fibers : Status(g)' = Status(g)
      BY <3>1, StatusOf
    <3> QED
      BY <3>1, <3>2 DEF Promise!vars
  <2>2. CASE \E f \in Fibers : FiberStep(f)
    BY <2>2, PromiseFiber
  <2>3. CASE SchedulerStep
    BY <2>3, PromiseElsewhere
  <2>4. CASE Environment
    BY <2>4, PromiseFiber, PromiseElsewhere DEF Environment
  <2> QED
    BY <2>1, <2>2, <2>3, <2>4 DEF Next
<1>3. Spec => Promise!Init /\ [][Promise!Next]_(Promise!vars)
  BY <1>1, <1>2, WaitsKept, PTL DEF Spec
<1> QED
  BY <1>3 DEF KeepsPromise, Promise!Spec

-----------------------------------------------------------------------------
(* One thread: between two yields nobody else runs.                        *)

\* A connection attempt is over.
Settled(d) == d \in open /\ conn[d] \in {"up", "refused"}

\* A fiber that waits for an event is registered for it, and only a socket
\* whose connection is settled is ready: for any number of threads.
HeldInv ==
    \A f \in Fibers : pc[f] = "held" /\ call[f].kind # "sleep" /\ f \notin queue => waiter[Fd(f)][Ev(f)] = f
ReadyInv ==
    /\ \A d \in Fds : ready[d] # {} => Settled(d)
    /\ \A d \in Fds, e \in Events : <<d, e>> \in edge => Settled(d)

\* Whoever runs, runs alone.
Alone ==
    /\ \A f, g \in Fibers : pc[f] \in Running /\ pc[g] \in Running => f = g
    /\ \A f \in Fibers : pc[f] \in Running => cancelling = {} /\ reported = {}
\* The table and the kernel agree about a number that nobody changed behind
\* the table.
TableInv ==
    /\ \A d \in Fds \ raw :
          /\ d \in open => nonblock[d] \/ \E f \in Fibers : pc[f] = "create" /\ Fd(f) = d
          /\ d \in open => m_fds[d] # NoOne \/ \E f \in Fibers : pc[f] \in {"create", "sys"} /\ Fd(f) = d
          /\ d \notin open => m_fds[d] = NoOne
    /\ \A f \in Fibers : Fd(f) \notin raw =>
          /\ pc[f] # "blocked"
          /\ pc[f] \in {"create", "sys"} => m_fds[Fd(f)] = NoOne
          /\ pc[f] = "create" => Fd(f) \in open
\* epoll watches what somebody waits for, and nobody waits on a closed number.
WatchInv ==
    /\ \A d \in Fds \ raw : interest[d] = Registered(d) /\ (d \notin open => Registered(d) = {})
    /\ \A f \in Fibers : pc[f] \in {"create", "del", "sys"} /\ Fd(f) \notin raw => Registered(Fd(f)) = {}
\* A wait with a timeout has a timer that will end it.
Speaks(t, f) == t.fiber = f /\ t.call = calls[f]
TimedInv ==
    \A f \in Fibers :
        /\ pc[f] = "add" /\ call[f].timed => \E t \in armed : Speaks(t, f)
        /\ InCall(f) /\ canceled[f] =>
              pc[f] = "held" /\ (Fd(f) \notin raw => f \in queue \/ \E t \in cancelling : Speaks(t, f))
        /\ pc[f] = "held" /\ call[f].timed /\ Fd(f) \notin raw =>
              f \in queue \/ \E t \in armed \cup fired \cup cancelling : Speaks(t, f)
\* A report of epoll is about the socket that has the number.
EventInv ==
    /\ \A d \in Fds, e \in Events : <<d, e>> \in reported => Settled(d) \/ d \in raw
    /\ \A f \in Fibers :
          /\ call[f].kind = "connect" /\ woke[f] = "event" /\ Fd(f) \notin raw
          /\ f \in queue \/ pc[f] = "check"
          => Settled(Fd(f))
SoloInv == threads = 1 => Alone /\ TableInv /\ WatchInv /\ TimedInv /\ EventInv

LEMMA FreeMeans ==
    ASSUME TypeInv, threads = 1, Free
    PROVE  (\A f \in Fibers : pc[f] \notin Running) /\ cancelling = {} /\ reported = {}
<1> DEFINE A == {f \in Fibers : pc[f] \in Running}
<1>1. IsFiniteSet(A) /\ IsFiniteSet(cancelling) /\ IsFiniteSet(reported)
  BY HookAssumption, FS_Subset DEF TypeInv, CallInv
<1>2. Cardinality(A) + Cardinality(cancelling) + Cardinality(reported) < 1
  BY DEF Free, Busy
<1> HIDE DEF A
<1>3. Cardinality(A) \in Nat /\ Cardinality(cancelling) \in Nat /\ Cardinality(reported) \in Nat
  BY <1>1, FS_CardinalityType
<1>4. Cardinality(A) = 0 /\ Cardinality(cancelling) = 0 /\ Cardinality(reported) = 0
  BY <1>2, <1>3
<1>5. A = {} /\ cancelling = {} /\ reported = {}
  BY <1>1, <1>4, FS_EmptySet
<1> QED
  BY <1>5 DEF A

\* What a step of the fiber leaves alone.
Others(f) ==
    /\ \A g \in Fibers : g # f => pc'[g] = pc[g] /\ call'[g] = call[g] /\ calls'[g] = calls[g] /\ canceled'[g] = canceled[g]
    /\ UNCHANGED <<cancelling, reported>>

MoveOf(f) ==
    \/ FiberStep(f) \/ Sleep(f)
    \/ \E d \in Fds : Socket(f, d) \/ CloseCancel(f, d)
    \/ \E d \in Fds, k \in Kinds \ {"sleep"} : RefuseConnect(f, d) \/ EnterCall(f, k, d)

LEMMA OthersRest == ASSUME TypeInv, NEW f \in Fibers, MoveOf(f) PROVE Others(f)
<1> USE DEF kernelVars, epollVars, histVars, callVars, timerVars, Goto, Returns
<1>0. Types
  BY NamedTypes
<1>1. CASE TryIO(f) \/ TryConnect(f) \/ Unblock(f) \/ Check(f) \/ Create(f) \/ CloseDel(f) \/ CloseSys(f)
           \/ Arm(f) \/ AddRefused(f) \/ AddAndHold(f) \/ Resume(f)
  <2>1. \E h : pc' = [pc EXCEPT ![f] = h]
    BY <1>1, TryMoves, UnblockMoves DEF Check, Create, CloseDel, CloseSys, Arm, AddRefused, AddAndHold, Resume
  <2>2. UNCHANGED <<call, calls, canceled, cancelling, reported>>
    BY <1>1 DEF TryIO, TryConnect, Unblock, Check, Create, CloseDel, CloseSys, Arm, AddRefused, AddAndHold, Resume
  <2> QED
    BY <1>0, <2>1, <2>2 DEF Types, Others
<1>2. ASSUME NEW d \in Fds, TryAccept(f, d) \/ Socket(f, d) \/ CloseCancel(f, d) PROVE Others(f)
  <2>1. \E h : pc' = [pc EXCEPT ![f] = h]
    BY <1>2 DEF TryAccept, Socket, CloseCancel
  <2>2. call' = [call EXCEPT ![f].fd = d] /\ UNCHANGED <<calls, canceled, cancelling, reported>>
    BY <1>2 DEF TryAccept, Socket, CloseCancel
  <2> QED
    BY <1>0, <2>1, <2>2 DEF Types, Others
<1>3. CASE Sleep(f) \/ \E d \in Fds, k \in Kinds \ {"sleep"} : RefuseConnect(f, d) \/ EnterCall(f, k, d)
  BY <1>0, <1>3 DEF Sleep, RefuseConnect, EnterCall, Types, Others
<1> QED
  BY <1>1, <1>2, <1>3 DEF MoveOf, FiberStep

\* It is the turn of the fiber: it runs, or everybody waits.
LEMMA Turn ==
    ASSUME TypeInv, threads = 1, Alone, NEW f \in Fibers, MoveOf(f)
    PROVE  (\A g \in Fibers : g # f => pc[g] \notin Running) /\ cancelling = {} /\ reported = {}
<1>1. CASE Free
  BY <1>1, FreeMeans
<1>2. CASE pc[f] \in Running
  BY <1>2 DEF Alone
<1> QED
  BY <1>1, <1>2 DEF MoveOf, FiberStep, TryIO, TryConnect, Unblock, Check, Create, CloseDel, CloseSys, Arm, AddRefused,
     AddAndHold, Resume, TryAccept, Socket, CloseCancel, Sleep, RefuseConnect, EnterCall, MayCall, Running

LEMMA NextAlone == ASSUME TypeInv, threads = 1, Alone, [Next]_vars PROVE Alone'
<1> USE DEF kernelVars, epollVars, histVars, callVars, timerVars
<1>1. ASSUME NEW f \in Fibers, MoveOf(f) PROVE Alone'
  BY <1>1, Turn, OthersRest DEF Others, Alone
<1>2. ASSUME UNCHANGED pc, Free \/ (cancelling' \subseteq cancelling /\ reported' \subseteq reported) PROVE Alone'
  BY <1>2, FreeMeans DEF Alone
<1>3. CASE UNCHANGED vars
  BY <1>2, <1>3 DEF vars
<1>4. CASE \E f \in Fibers : FiberStep(f)
  BY <1>1, <1>4 DEF MoveOf
<1>5. CASE SchedulerStep
  BY <1>2, <1>5 DEF SchedulerStep, Expire, RunCallback, CallbackCancels, Report, Handle
<1>6. CASE Environment
  <2>1. CASE \E f \in Fibers : MoveOf(f)
    BY <1>1, <2>1
  <2>2. CASE ~ \E f \in Fibers : MoveOf(f)
    <3>1. UNCHANGED <<pc, cancelling, reported>>
      BY <1>6, <2>2 DEF Environment, MoveOf, BecomeReady, SetTimeout, Connected, CloseUnhooked, CancelOp, Fcntl, Ioctl
    <3> QED
      BY <1>2, <3>1
  <2> QED
    BY <2>1, <2>2
<1> QED
  BY <1>3, <1>4, <1>5, <1>6 DEF Next

\* The events that cancelEvent(), cancelAll() and idle() find somebody for.
Hit(d, evs) == IF interest[d] = {} THEN {} ELSE evs \cap Registered(d)

LEMMA TriggerFacts ==
    ASSUME TypeInv, NEW d \in Fds, NEW evs \in SUBSET Events, NEW who, Trigger(d, evs, who)
    PROVE  /\ Hit(d, evs) \subseteq Events
           /\ \A b \in Fds, e \in Events : waiter'[b][e] = IF b = d /\ e \in Hit(d, evs) THEN NoOne ELSE waiter[b][e]
           /\ queue' = queue \cup {waiter[d][e] : e \in Hit(d, evs)}
           /\ \A b \in Fds : interest'[b] = IF b = d /\ Hit(d, evs) # {} THEN Registered(d) \ Hit(d, evs) ELSE interest[b]
           /\ \A b \in Fds : Registered(b)' = IF b = d THEN Registered(d) \ Hit(d, evs) ELSE Registered(b)
           /\ \A b \in Fds, e \in Events : <<b, e>> \in edge' => <<b, e>> \in edge \/ ready[b] # {}
<1> DEFINE hit == Hit(d, evs)
<1>0. Types
  BY NamedTypes
<1>1. hit \subseteq Events
  BY DEF Hit, Registered
<1>2. /\ woke' = [f \in Fibers |-> IF \E e \in hit : waiter[d][e] = f THEN who ELSE woke[f]]
      /\ waiter' = [waiter EXCEPT ![d] = [e \in Events |-> IF e \in hit THEN NoOne ELSE @[e]]]
      /\ queue' = queue \cup {waiter[d][e] : e \in hit}
      /\ IF hit = {} THEN UNCHANGED <<interest, edge>> ELSE WatchFor(d, Registered(d) \ hit)
  BY DEF Trigger, Hit
<1> HIDE DEF hit
<1>3. \A b \in Fds, e \in Events : waiter'[b][e] = IF b = d /\ e \in hit THEN NoOne ELSE waiter[b][e]
  BY <1>0, <1>2 DEF Types
<1>4. \A b \in Fds : Registered(b)' = IF b = d THEN Registered(d) \ hit ELSE Registered(b)
  BY <1>3 DEF Registered
<1>5. \A b \in Fds : interest'[b] = IF b = d /\ hit # {} THEN Registered(d) \ hit ELSE interest[b]
  BY <1>0, <1>2 DEF Types, WatchFor
<1>6. \A b \in Fds, e \in Events : <<b, e>> \in edge' => <<b, e>> \in edge \/ ready[b] # {}
  BY <1>2 DEF WatchFor
<1> QED
  BY <1>1, <1>2, <1>3, <1>4, <1>5, <1>6 DEF hit

\* A registration ends only when its fiber is queued.
Kept == queue \subseteq queue' /\ \A d \in Fds, e \in Events, f \in Fibers : waiter[d][e] = f => waiter'[d][e] = f \/ f \in queue'

LEMMA TriggerKeeps ==
    ASSUME TypeInv, NEW d \in Fds, NEW evs \in SUBSET Events, NEW who, Trigger(d, evs, who) PROVE Kept
<1>1. Hit(d, evs) \subseteq Events
  BY TriggerFacts
<1>2. \A b \in Fds, e \in Events : waiter'[b][e] = IF b = d /\ e \in Hit(d, evs) THEN NoOne ELSE waiter[b][e]
  BY TriggerFacts
<1>3. queue' = queue \cup {waiter[d][e] : e \in Hit(d, evs)}
  BY TriggerFacts
<1> QED
  BY <1>1, <1>2, <1>3 DEF Kept

LEMMA HeldCalm ==
    ASSUME TypeInv, HeldInv, Kept, \A g \in Fibers : pc'[g] = "held" => pc[g] = "held" /\ call'[g] = call[g]
    PROVE  HeldInv'
<1>1. \A g \in Fibers : pc[g] = "held" /\ call[g].kind # "sleep" => Fd(g) \in Fds /\ Ev(g) \in Events
  BY EventOfType DEF TypeInv, CallInv, Ev
<1> QED
  BY <1>1 DEF HeldInv, Kept, Fd, Ev

LEMMA NextHeld == TypeInv /\ WaitInv /\ HeldInv /\ [Next]_vars => HeldInv'
<1> SUFFICES ASSUME TypeInv, WaitInv, HeldInv, [Next]_vars PROVE HeldInv'
  OBVIOUS
<1> USE DEF kernelVars, epollVars, histVars, callVars, timerVars, Goto, Returns
<1>0. Types
  BY NamedTypes
<1>1. ASSUME UNCHANGED <<queue, waiter>> PROVE Kept
  BY <1>1 DEF Kept
<1>2. ASSUME NEW d \in Fds, NEW evs \in SUBSET Events, NEW who, Trigger(d, evs, who), UNCHANGED <<pc, call>> PROVE HeldInv'
  BY <1>2, TriggerKeeps, HeldCalm
<1>3. ASSUME UNCHANGED <<queue, waiter, pc, call>> PROVE HeldInv'
  BY <1>1, <1>3, HeldCalm
<1>4. ASSUME NEW f \in Fibers, MoveOf(f) PROVE HeldInv'
  <2>1. \A g \in Fibers : g # f => pc'[g] = pc[g] /\ call'[g] = call[g]
    BY <1>4, OthersRest DEF Others
  <2>2. CASE Kept /\ pc'[f] # "held"
    BY <2>1, <2>2, HeldCalm
  <2>3. CASE TryIO(f) \/ TryConnect(f) \/ Unblock(f) \/ Check(f) \/ Create(f) \/ CloseDel(f) \/ CloseSys(f)
             \/ Arm(f) \/ AddRefused(f)
    <3>1. UNCHANGED <<queue, waiter>>
      BY <2>3 DEF TryIO, TryConnect, Unblock, Check, Create, CloseDel, CloseSys, Arm, AddRefused
    <3>2. pc'[f] # "held"
      BY <1>0, <2>3, TryMoves, UnblockMoves DEF Check, Create, CloseDel, CloseSys, Arm, AddRefused, Types
    <3> QED
      BY <1>1, <2>2, <3>1, <3>2
  <2>4. ASSUME NEW d \in Fds, TryAccept(f, d) \/ Socket(f, d) \/ CloseCancel(f, d) PROVE HeldInv'
    <3>1. pc'[f] # "held"
      BY <1>0, <2>4 DEF TryAccept, Socket, CloseCancel, Types
    <3>2. UNCHANGED <<queue, waiter>> \/ Trigger(d, Events, "user")
      BY <2>4 DEF TryAccept, Socket, CloseCancel
    <3> QED
      BY <1>1, <2>2, <3>1, <3>2, TriggerKeeps
  <2>5. CASE \E d \in Fds, k \in Kinds \ {"sleep"} : RefuseConnect(f, d) \/ EnterCall(f, k, d)
    <3>1. pc'[f] # "held" /\ UNCHANGED <<queue, waiter>>
      BY <1>0, <2>5 DEF RefuseConnect, EnterCall, Types
    <3> QED
      BY <1>1, <2>2, <3>1
  <2>6. CASE Sleep(f)
    <3>1. call'[f].kind = "sleep" /\ UNCHANGED <<queue, waiter>>
      BY <1>0, <2>6 DEF Sleep, Types, NoCall
    <3> QED
      BY <2>1, <3>1 DEF HeldInv, Fd, Ev
  <2>7. CASE AddAndHold(f)
    <3>1. Fd(f) \in Fds /\ Ev(f) \in Events /\ UNCHANGED <<queue, call>> /\ pc[f] = "add"
      BY <2>7, EventOfType DEF AddAndHold, TypeInv, CallInv, Working, Ev
    <3>2. \A d \in Fds, e \in Events : waiter'[d][e] = IF d = Fd(f) /\ e = Ev(f) THEN f ELSE waiter[d][e]
      BY <1>0, <2>7, <3>1 DEF AddAndHold, Types
    <3>3. waiter[Fd(f)][Ev(f)] = NoOne
      BY <2>7, <3>1 DEF AddAndHold, Registered
    <3>4. \A g \in Fibers : pc[g] = "held" /\ call[g].kind # "sleep" => Fd(g) \in Fds /\ Ev(g) \in Events
      BY EventOfType DEF TypeInv, CallInv, Ev
    <3> QED
      BY <2>1, <3>1, <3>2, <3>3, <3>4, HookAssumption DEF HeldInv, Fd, Ev
  <2>8. CASE Resume(f)
    <3>1. pc'[f] # "held" /\ queue' = queue \ {f} /\ UNCHANGED waiter
      BY <1>0, <2>8 DEF Resume, Types
    <3> QED
      BY <2>1, <3>1 DEF HeldInv, Fd, Ev
  <2> QED
    BY <1>4, <2>3, <2>4, <2>5, <2>6, <2>7, <2>8 DEF MoveOf, FiberStep
<1>5. CASE UNCHANGED vars
  BY <1>3, <1>5 DEF vars
<1>6. CASE \E f \in Fibers : FiberStep(f)
  BY <1>4, <1>6 DEF MoveOf
<1>7. CASE SchedulerStep
  <2>1. ASSUME NEW t \in armed, Expire(t) PROVE HeldInv'
    BY <1>3, <2>1 DEF Expire
  <2>2. ASSUME NEW t \in fired, RunCallback(t) PROVE HeldInv'
    <3>1. UNCHANGED <<pc, call, waiter>> /\ queue \subseteq queue'
      BY <2>2 DEF RunCallback
    <3> QED
      BY <3>1, HeldCalm DEF Kept
  <2>3. ASSUME NEW t \in cancelling, CallbackCancels(t) PROVE HeldInv'
    <3>1. t.fd \in Fds /\ {EventOf(t.kind)} \in SUBSET Events
      BY EventOfType DEF TypeInv, CallInv
    <3> QED
      BY <1>2, <2>3, <3>1 DEF CallbackCancels
  <2>4. ASSUME NEW d \in Fds, NEW e \in Events, Report(d, e) PROVE HeldInv'
    BY <1>3, <2>4 DEF Report
  <2>5. ASSUME NEW d \in Fds, NEW e \in Events, Handle(d, e) PROVE HeldInv'
    <3>1. {e} \in SUBSET Events
      OBVIOUS
    <3> QED
      BY <1>2, <2>5, <3>1 DEF Handle
  <2> QED
    BY <1>7, <2>1, <2>2, <2>3, <2>4, <2>5 DEF SchedulerStep
<1>8. CASE Environment
  <2>1. CASE \E f \in Fibers : MoveOf(f)
    BY <1>4, <2>1
  <2>2. ASSUME NEW d \in Fds, NEW evs \in SUBSET Events, CancelOp(d, evs) PROVE HeldInv'
    BY <1>2, <2>2 DEF CancelOp
  <2>3. CASE \/ \E d \in Fds, e \in EventsUsed : BecomeReady(d, e) \/ SetTimeout(d, e)
             \/ \E d \in Fds, c \in {"up", "refused"} : Connected(d, c)
             \/ \E d \in Fds : CloseUnhooked(d)
             \/ \E d \in Fds, b \in BOOLEAN : Fcntl(d, b) \/ Ioctl(d, b)
    BY <1>3, <2>3 DEF BecomeReady, SetTimeout, Connected, CloseUnhooked, Fcntl, Ioctl
  <2> QED
    BY <1>8, <2>1, <2>2, <2>3 DEF Environment, MoveOf
<1> QED
  BY <1>5, <1>6, <1>7, <1>8 DEF Next

\* A socket is settled until it is closed.
LEMMA StaysSettled ==
    ASSUME TypeInv, [Next]_vars, NEW d \in Fds, Settled(d)
    PROVE  Settled(d)' \/ (\E f \in Fibers : CloseSys(f) /\ Fd(f) = d) \/ CloseUnhooked(d)
<1> USE DEF kernelVars, epollVars, histVars, callVars, timerVars
<1>0. Types
  BY NamedTypes
<1>1. ASSUME UNCHANGED <<open, conn>> PROVE Settled(d)'
  BY <1>1 DEF Settled
<1>2. ASSUME NEW b \in Fds, NEW c, NewSocket(b, c) PROVE Settled(d)'
  BY <1>0, <1>2 DEF NewSocket, Settled, Types
<1>3. ASSUME NEW b \in Fds, Closed(b), UNCHANGED conn PROVE Settled(d)' \/ b = d
  BY <1>3 DEF Closed, Settled
<1>4. ASSUME NEW f \in Fibers, TryConnect(f) PROVE Settled(d)'
  BY <1>0, <1>4 DEF TryConnect, Settle, Settled, Types
<1>5. ASSUME NEW b \in Fds, NEW c \in {"up", "refused"}, Connected(b, c) PROVE Settled(d)'
  BY <1>0, <1>5 DEF Connected, Settle, Settled, Types
<1>6. ASSUME NEW f \in Fibers, FiberStep(f) PROVE Settled(d)' \/ (CloseSys(f) /\ Fd(f) = d)
  <2>1. ASSUME NEW b \in Fds, TryAccept(f, b) PROVE Settled(d)'
    BY <1>2, <2>1 DEF TryAccept
  <2>2. CASE CloseSys(f)
    <3>1. Fd(f) \in Fds /\ Closed(Fd(f)) /\ UNCHANGED conn
      BY <2>2 DEF CloseSys, TypeInv, CallInv
    <3> QED
      BY <1>3, <2>2, <3>1
  <2>3. CASE TryIO(f) \/ Unblock(f) \/ Arm(f) \/ AddRefused(f) \/ AddAndHold(f) \/ Resume(f) \/ Check(f) \/ Create(f) \/ CloseDel(f)
    <3>1. UNCHANGED <<open, conn>>
      BY <2>3 DEF TryIO, Unblock, Arm, AddRefused, AddAndHold, Resume, Check, Create, CloseDel
    <3> QED
      BY <1>1, <3>1
  <2> QED
    BY <1>4, <1>6, <2>1, <2>2, <2>3 DEF FiberStep
<1>7. CASE UNCHANGED vars
  BY <1>1, <1>7 DEF vars
<1>8. CASE SchedulerStep
  BY <1>1, <1>8 DEF SchedulerStep, Expire, RunCallback, CallbackCancels, Report, Handle
<1>9. CASE Environment
  <2>1. ASSUME NEW f \in Fibers, NEW b \in Fds, Socket(f, b) PROVE Settled(d)'
    BY <1>2, <2>1 DEF Socket
  <2>2. ASSUME NEW b \in Fds, CloseUnhooked(b) PROVE Settled(d)' \/ CloseUnhooked(d)
    <3>1. Closed(b) /\ UNCHANGED conn
      BY <2>2 DEF CloseUnhooked
    <3> QED
      BY <1>3, <2>2, <3>1
  <2>3. CASE \/ \E f \in Fibers : Sleep(f)
             \/ \E f \in Fibers, b \in Fds : CloseCancel(f, b)
             \/ \E f \in Fibers, b \in Fds, k \in Kinds \ {"sleep"} : RefuseConnect(f, b) \/ EnterCall(f, k, b)
             \/ \E b \in Fds, e \in EventsUsed : BecomeReady(b, e) \/ SetTimeout(b, e)
             \/ \E b \in Fds, evs \in SUBSET Events : CancelOp(b, evs)
             \/ \E b \in Fds, x \in BOOLEAN : Fcntl(b, x) \/ Ioctl(b, x)
    <3>1. UNCHANGED <<open, conn>>
      BY <2>3 DEF Sleep, CloseCancel, RefuseConnect, EnterCall, BecomeReady, SetTimeout, CancelOp, Fcntl, Ioctl
    <3> QED
      BY <1>1, <3>1
  <2> QED
    BY <1>5, <1>9, <2>1, <2>2, <2>3 DEF Environment
<1> QED
  BY <1>6, <1>7, <1>8, <1>9 DEF Next

LEMMA NextReady == TypeInv /\ ReadyInv /\ [Next]_vars => ReadyInv'
<1> SUFFICES ASSUME TypeInv, ReadyInv, [Next]_vars PROVE ReadyInv'
  OBVIOUS
<1> USE DEF kernelVars, epollVars, histVars, callVars, timerVars
<1>0. Types
  BY NamedTypes
\* What is ready or to be reported was so before, or the socket is settled.
<1>1. ASSUME \A d \in Fds : ready'[d] # {} => ready[d] # {} \/ Settled(d)',
             \A d \in Fds, e \in Events : <<d, e>> \in edge' => <<d, e>> \in edge \/ ready[d] # {} \/ Settled(d)',
             \A d \in Fds : Settled(d) => Settled(d)'
      PROVE  ReadyInv'
  BY <1>1 DEF ReadyInv
<1>2. ASSUME ~ \E f \in Fibers : CloseSys(f), ~ \E d \in Fds : CloseUnhooked(d)
      PROVE  \A d \in Fds : Settled(d) => Settled(d)'
  BY <1>2, StaysSettled
<1>3. ASSUME NEW d \in Fds, Closed(d), UNCHANGED conn PROVE ReadyInv'
  <2>1. \A b \in Fds : b # d => ready'[b] = ready[b] /\ (Settled(b) => Settled(b)')
    BY <1>0, <1>3 DEF Closed, Settled, Types
  <2>2. ready'[d] = {} /\ \A b \in Fds, e \in Events : <<b, e>> \in edge' => <<b, e>> \in edge /\ b # d
    BY <1>0, <1>3 DEF Closed, Types
  <2> QED
    BY <2>1, <2>2 DEF ReadyInv
<1>4. ASSUME NEW f \in Fibers, CloseSys(f) PROVE ReadyInv'
  BY <1>3, <1>4 DEF CloseSys, TypeInv, CallInv
<1>5. ASSUME NEW d \in Fds, CloseUnhooked(d) PROVE ReadyInv'
  BY <1>3, <1>5 DEF CloseUnhooked
<1>6. SUFFICES ASSUME \A d \in Fds : Settled(d) => Settled(d)', ~ \E f \in Fibers : CloseSys(f), ~ \E d \in Fds : CloseUnhooked(d)
               PROVE ReadyInv'
  BY <1>2, <1>4, <1>5
<1>7. ASSUME UNCHANGED ready, edge' \subseteq edge PROVE ReadyInv'
  BY <1>1, <1>6, <1>7
<1>8. ASSUME NEW d \in Fds, NEW evs \in SUBSET Events, NEW who, Trigger(d, evs, who), UNCHANGED ready PROVE ReadyInv'
  BY <1>1, <1>6, <1>8, TriggerFacts
<1>9. ASSUME NEW f \in Fibers, TryIO(f) PROVE ReadyInv'
  <2>1. UNCHANGED edge /\ \A d \in Fds : ready'[d] \subseteq ready[d]
    BY <1>0, <1>9 DEF TryIO, Types
  <2> QED
    BY <1>1, <1>6, <2>1
<1>10. ASSUME NEW f \in Fibers, NEW d \in Fds, TryAccept(f, d) \/ Socket(f, d) PROVE ReadyInv'
  <2>1. UNCHANGED edge /\ \A b \in Fds : ready'[b] \subseteq ready[b]
    <3>1. CASE TryAccept(f, d)
      <4>1. Fd(f) \in Fds
        BY <3>1 DEF TryAccept, TypeInv, CallInv, Working
      <4>2. UNCHANGED edge /\ ready' = [[ready EXCEPT ![Fd(f)] = @ \ {"READ"}] EXCEPT ![d] = {}]
        BY <3>1 DEF TryAccept
      <4> QED
        BY <1>0, <4>1, <4>2 DEF Types
    <3>2. CASE Socket(f, d)
      BY <1>0, <3>2 DEF Socket, Types
    <3> QED
      BY <1>10, <3>1, <3>2
  <2> QED
    BY <1>1, <1>6, <2>1
<1>11. ASSUME NEW f \in Fibers, AddAndHold(f) PROVE ReadyInv'
  <2>1. UNCHANGED ready /\ \A b \in Fds, e \in Events : <<b, e>> \in edge' => <<b, e>> \in edge \/ ready[b] # {}
    BY <1>11 DEF AddAndHold, WatchFor
  <2> QED
    BY <1>1, <1>6, <2>1
<1>12. ASSUME NEW f \in Fibers, Unblock(f) \/ Arm(f) \/ AddRefused(f) \/ Resume(f) \/ Check(f) \/ Create(f) \/ CloseDel(f)
       PROVE ReadyInv'
  BY <1>7, <1>12 DEF Unblock, Arm, AddRefused, Resume, Check, Create, CloseDel
<1>13. ASSUME NEW d \in Fds, NEW e \in Events, BecomeReady(d, e) PROVE ReadyInv'
  <2>1. Settled(d)'
    BY <1>6, <1>13 DEF BecomeReady, Settled
  <2>2. \A b \in Fds : ready'[b] # ready[b] => b = d
    BY <1>0, <1>13 DEF BecomeReady, Types
  <2>3. \A b \in Fds, x \in Events : <<b, x>> \in edge' => <<b, x>> \in edge \/ b = d
    BY <1>13 DEF BecomeReady
  <2> QED
    BY <1>1, <1>6, <2>1, <2>2, <2>3
<1>140. ASSUME NEW d \in open, NEW c \in {"up", "refused"}, Settle(d, c), UNCHANGED open PROVE ReadyInv'
  <2>0. d \in Fds
    BY <1>0 DEF Types
  <2>1. Settled(d)'
    BY <1>0, <1>140, <2>0 DEF Settle, Settled, Types
  <2>2. \A b \in Fds : ready'[b] # ready[b] => b = d
    BY <1>0, <1>140, <2>0 DEF Settle, Types
  <2>3. \A b \in Fds, x \in Events : <<b, x>> \in edge' => <<b, x>> \in edge \/ b = d
    BY <1>140 DEF Settle
  <2> QED
    BY <1>1, <1>6, <2>1, <2>2, <2>3
<1>14. ASSUME NEW d \in Fds, NEW c \in {"up", "refused"}, Connected(d, c) PROVE ReadyInv'
  BY <1>14, <1>140 DEF Connected
<1>141. ASSUME NEW f \in Fibers, TryConnect(f) PROVE ReadyInv'
  <2>1. \/ Fd(f) \in open /\ Settle(Fd(f), "up")
        \/ UNCHANGED <<ready, edge>>
    BY <1>141 DEF TryConnect
  <2>2. UNCHANGED open
    BY <1>141 DEF TryConnect
  <2> QED
    BY <1>7, <1>140, <2>1, <2>2
<1>15. CASE UNCHANGED vars
  BY <1>7, <1>15 DEF vars
<1>16. CASE \E f \in Fibers : FiberStep(f)
  BY <1>4, <1>9, <1>10, <1>11, <1>12, <1>141, <1>16 DEF FiberStep
<1>17. CASE SchedulerStep
  <2>1. ASSUME NEW t \in cancelling, CallbackCancels(t) PROVE ReadyInv'
    <3>1. t.fd \in Fds /\ {EventOf(t.kind)} \in SUBSET Events
      BY EventOfType DEF TypeInv, CallInv
    <3> QED
      BY <1>8, <2>1, <3>1 DEF CallbackCancels
  <2>2. ASSUME NEW d \in Fds, NEW e \in Events, Handle(d, e) PROVE ReadyInv'
    <3>1. {e} \in SUBSET Events
      OBVIOUS
    <3> QED
      BY <1>8, <2>2, <3>1 DEF Handle
  <2>3. CASE (\E t \in armed : Expire(t)) \/ (\E t \in fired : RunCallback(t)) \/ \E d \in Fds, e \in Events : Report(d, e)
    BY <1>7, <2>3 DEF Expire, RunCallback, Report
  <2> QED
    BY <1>17, <2>1, <2>2, <2>3 DEF SchedulerStep
<1>18. CASE Environment
  <2>1. ASSUME NEW f \in Fibers, NEW d \in Fds, CloseCancel(f, d) PROVE ReadyInv'
    <3>1. UNCHANGED ready /\ (Trigger(d, Events, "user") \/ UNCHANGED edge)
      BY <2>1 DEF CloseCancel
    <3> QED
      BY <1>7, <1>8, <3>1
  <2>2. ASSUME NEW d \in Fds, NEW evs \in SUBSET Events, CancelOp(d, evs) PROVE ReadyInv'
    BY <1>8, <2>2 DEF CancelOp
  <2>3. CASE \/ \E f \in Fibers : Sleep(f)
             \/ \E f \in Fibers, b \in Fds, k \in Kinds \ {"sleep"} : RefuseConnect(f, b) \/ EnterCall(f, k, b)
             \/ \E b \in Fds, e \in EventsUsed : SetTimeout(b, e)
             \/ \E b \in Fds, x \in BOOLEAN : Fcntl(b, x) \/ Ioctl(b, x)
    <3>1. UNCHANGED <<ready, edge>>
      BY <2>3 DEF Sleep, RefuseConnect, EnterCall, SetTimeout, Fcntl, Ioctl
    <3> QED
      BY <1>7, <3>1
  <2>4. EventsUsed \subseteq Events
    BY EventOfType DEF EventsUsed
  <2> QED
    BY <1>5, <1>10, <1>13, <1>14, <1>18, <2>1, <2>2, <2>3, <2>4 DEF Environment
<1> QED
  BY <1>15, <1>16, <1>17, <1>18 DEF Next

LEMMA TableRest ==
    ASSUME TypeInv, TableInv, UNCHANGED <<open, nonblock, m_fds>>, raw \subseteq raw',
           \A g \in Fibers :
              /\ pc[g] \in {"create", "sys"} \/ pc'[g] \in {"create", "sys"} => pc'[g] = pc[g] /\ call'[g] = call[g]
              /\ pc'[g] = "blocked" => (pc[g] = "blocked" /\ call'[g] = call[g]) \/ Fd(g)' \in raw
    PROVE  TableInv'
BY DEF TableInv, Fd

LEMMA NextTable == ASSUME TypeInv, threads = 1, Alone, TableInv, [Next]_vars PROVE TableInv'
<1> USE DEF kernelVars, epollVars, histVars, callVars, timerVars, Goto, Returns
<1>0. Types
  BY NamedTypes
<1>01. NewEntry # NoOne
  <2>1. NewEntry \in [m_is_user_nonblock : BOOLEAN, timeouts : SUBSET {"READ", "WRITE"}]
    BY DEF NewEntry
  <2> QED
    BY <2>1, HookAssumption
<1>1. ASSUME UNCHANGED <<open, nonblock, m_fds, raw, pc, call>> PROVE TableInv'
  BY <1>1, TableRest
<1>2. ASSUME NEW f \in Fibers, MoveOf(f) PROVE TableInv'
  <2>1. \A g \in Fibers : g # f => pc'[g] = pc[g] /\ call'[g] = call[g]
    BY <1>2, OthersRest DEF Others
  <2>2. \A g \in Fibers : g # f => pc[g] \notin {"create", "sys"}
    BY <1>2, Turn DEF Running
  <2>3. CASE TryIO(f) \/ TryConnect(f)
    <3>1. Fd(f) \in Fds /\ pc[f] = "try" /\ UNCHANGED <<open, nonblock, m_fds, raw>> /\ Fd(f)' = Fd(f)
      BY <2>3 DEF TryIO, TryConnect, TypeInv, CallInv, Working, Fd
    <3>2. pc'[f] \in {"out", "arm"} \/ (pc'[f] = "blocked" /\ ~ nonblock[Fd(f)] /\ Fd(f) \in open)
      BY <1>0, <2>3, TryMoves DEF Types
    <3>3. pc'[f] = "blocked" => Fd(f) \in raw
      BY <2>2, <3>1, <3>2 DEF TableInv
    <3> QED
      BY <2>1, <3>1, <3>2, <3>3, TableRest
  <2>4. CASE Unblock(f) \/ Arm(f) \/ AddRefused(f) \/ AddAndHold(f) \/ Resume(f) \/ Check(f) \/ Sleep(f)
             \/ \E d \in Fds, k \in Kinds \ {"sleep"} : RefuseConnect(f, d) \/ EnterCall(f, k, d)
    <3>1. UNCHANGED <<open, nonblock, m_fds, raw>> /\ pc[f] \notin {"create", "sys"}
      BY <2>4 DEF Unblock, Arm, AddRefused, AddAndHold, Resume, Check, Sleep, RefuseConnect, EnterCall, MayCall
    <3>2. pc'[f] \notin {"create", "sys", "blocked"}
      BY <1>0, <2>4, UnblockMoves DEF Arm, AddRefused, AddAndHold, Resume, Check, Sleep, RefuseConnect, EnterCall, Types
    <3> QED
      BY <2>1, <3>1, <3>2, TableRest
  <2>5. ASSUME NEW d \in Fds, TryAccept(f, d) \/ Socket(f, d) PROVE TableInv'
    <3>1. d \notin open /\ open' = open \cup {d} /\ UNCHANGED <<m_fds, raw>>
      BY <2>5 DEF TryAccept, Socket, NewSocket
    <3>2. \A b \in Fds : b # d => nonblock'[b] = nonblock[b]
      BY <1>0, <2>5 DEF TryAccept, Socket, NewSocket, Types
    <3>3. pc[f] \notin {"create", "sys"} /\ pc'[f] = "create" /\ call'[f].fd = d
      BY <1>0, <2>5 DEF TryAccept, Socket, Types, CallTypes
    <3> QED
      BY <2>1, <2>2, <3>1, <3>2, <3>3 DEF TableInv, Fd
  <2>6. CASE Create(f)
    <3>1. /\ pc[f] = "create" /\ pc'[f] = "out" /\ Fd(f) \in Fds /\ UNCHANGED <<open, raw, call>>
      BY <1>0, <2>6 DEF Create, Types, TypeInv, CallInv
    <3>2. \A b \in Fds : b # Fd(f) => m_fds'[b] = m_fds[b] /\ nonblock'[b] = nonblock[b]
      BY <1>0, <2>6, <3>1 DEF Create, Types
    <3>3. m_fds[Fd(f)] # NoOne \/ (m_fds'[Fd(f)] # NoOne /\ nonblock'[Fd(f)])
      BY <1>0, <1>01, <2>6, <3>1 DEF Create, Types
    <3>4. m_fds[Fd(f)] # NoOne => Fd(f) \in raw
      BY <3>1 DEF TableInv
    <3>5. \A d \in Fds \ raw : d \in open => nonblock'[d] /\ m_fds'[d] # NoOne
      BY <2>2, <3>1, <3>2, <3>3, <3>4 DEF TableInv
    <3>6. \A d \in Fds \ raw : d \notin open /\ d # Fd(f) => m_fds'[d] = NoOne
      BY <3>2 DEF TableInv
    <3>7. Fd(f) \in raw \/ Fd(f) \in open
      BY <3>1 DEF TableInv
    <3> QED
      BY <2>1, <2>2, <3>1, <3>5, <3>6, <3>7 DEF TableInv, Fd
  <2>7. CASE CloseDel(f)
    <3>1. /\ pc[f] = "del" /\ pc'[f] = "sys" /\ Fd(f) \in Fds /\ UNCHANGED <<open, raw, call, nonblock>>
      BY <1>0, <2>7 DEF CloseDel, Types, TypeInv, CallInv
    <3>2. m_fds'[Fd(f)] = NoOne /\ \A b \in Fds : b # Fd(f) => m_fds'[b] = m_fds[b]
      BY <1>0, <2>7, <3>1 DEF CloseDel, Types
    <3> QED
      BY <2>1, <2>2, <3>1, <3>2 DEF TableInv, Fd
  <2>8. CASE CloseSys(f)
    <3>1. /\ pc[f] = "sys" /\ pc'[f] = "out" /\ Fd(f) \in Fds /\ open' = open \ {Fd(f)} /\ UNCHANGED <<m_fds, raw, call, nonblock>>
      BY <1>0, <2>8 DEF CloseSys, Closed, Types, TypeInv, CallInv
    <3> QED
      BY <2>1, <2>2, <3>1 DEF TableInv, Fd
  <2>9. ASSUME NEW d \in Fds, CloseCancel(f, d) PROVE TableInv'
    <3>1. pc[f] = "out" /\ UNCHANGED <<open, nonblock, m_fds, raw>>
      BY <2>9 DEF CloseCancel
    <3>2. call'[f].fd = d /\ (pc'[f] = "del" \/ (pc'[f] = "sys" /\ m_fds[d] = NoOne))
      BY <1>0, <2>9 DEF CloseCancel, Types, CallTypes
    <3> QED
      BY <2>1, <2>2, <3>1, <3>2 DEF TableInv, Fd
  <2> QED
    BY <1>2, <2>3, <2>4, <2>5, <2>6, <2>7, <2>8, <2>9 DEF MoveOf, FiberStep
<1>3. CASE UNCHANGED vars
  BY <1>1, <1>3 DEF vars
<1>4. CASE \E f \in Fibers : FiberStep(f)
  BY <1>2, <1>4 DEF MoveOf
<1>5. CASE SchedulerStep
  BY <1>1, <1>5 DEF SchedulerStep, Expire, RunCallback, CallbackCancels, Report, Handle
<1>6. CASE Environment
  <2>1. CASE \E f \in Fibers : MoveOf(f)
    BY <1>2, <2>1
  <2>2. CASE \/ \E d \in Fds, e \in EventsUsed : BecomeReady(d, e)
             \/ \E d \in Fds, c \in {"up", "refused"} : Connected(d, c)
             \/ \E d \in Fds, evs \in SUBSET Events : CancelOp(d, evs)
    BY <1>1, <2>2 DEF BecomeReady, Connected, CancelOp
  <2>3. ASSUME NEW d \in Fds, CloseUnhooked(d) PROVE TableInv'
    <3>1. open' = open \ {d} /\ raw' = raw \cup {d} /\ UNCHANGED <<m_fds, nonblock, pc, call>>
      BY <2>3 DEF CloseUnhooked, Closed
    <3> QED
      BY <3>1 DEF TableInv, Fd
  <2>4. ASSUME NEW d \in Fds,
               \/ \E e \in EventsUsed : SetTimeout(d, e)
               \/ \E b \in BOOLEAN : Fcntl(d, b) \/ Ioctl(d, b)
        PROVE  TableInv'
    <3>1. UNCHANGED <<open, pc, call>> /\ raw \subseteq raw'
      BY <2>4 DEF SetTimeout, Fcntl, Ioctl
    <3>2. \A b \in Fds : nonblock[b] => nonblock'[b] \/ b \in raw'
      BY <1>0, <2>4, ZenonT(60) DEF SetTimeout, Fcntl, Ioctl, Types
    <3>3. \A b \in Fds : m_fds'[b] = NoOne <=> m_fds[b] = NoOne
      <4>1. m_fds[d] # NoOne
        BY <2>4 DEF SetTimeout, Fcntl, Ioctl
      <4>2. \A b \in Fds : b # d => m_fds'[b] = m_fds[b]
        BY <1>0, <2>4 DEF SetTimeout, Fcntl, Ioctl, Types
      <4>3. m_fds'[d] \in Entries
        <5>1. m_fds[d] \in Entries
          BY <1>0, <4>1 DEF Types
        <5>2. EventsUsed \subseteq Events
          BY EventOfType DEF EventsUsed
        <5>3. ASSUME NEW e \in EventsUsed, SetTimeout(d, e) PROVE m_fds'[d] \in Entries
          BY <1>0, <5>1, <5>2, <5>3 DEF SetTimeout, Types, Entries
        <5>4. ASSUME NEW b \in BOOLEAN, Fcntl(d, b) \/ Ioctl(d, b) PROVE m_fds'[d] \in Entries
          <6>1. [m_fds[d] EXCEPT !.m_is_user_nonblock = b] \in Entries
            BY <5>1 DEF Entries
          <6>2. m_fds' = [m_fds EXCEPT ![d].m_is_user_nonblock = b]
            BY <5>4 DEF Fcntl, Ioctl
          <6> QED
            BY <1>0, <6>1, <6>2 DEF Types
        <5> QED
          BY <2>4, <5>3, <5>4
      <4>4. NoOne \notin Entries
        BY HookAssumption DEF Entries, Events
      <4> QED
        BY <4>1, <4>2, <4>3, <4>4
    <3>4. \A f \in Fibers : pc[f] \in {"create", "sys"} => Fd(f) \in Fds
      BY DEF TypeInv, CallInv
    <3> QED
      BY <3>1, <3>2, <3>3, <3>4 DEF TableInv, Fd
  <2> QED
    BY <1>6, <2>1, <2>2, <2>3, <2>4 DEF Environment, MoveOf
<1> QED
  BY <1>3, <1>4, <1>5, <1>6 DEF Next

LEMMA WatchRest ==
    ASSUME TypeInv, WatchInv, UNCHANGED <<waiter, interest>>, open \subseteq open', raw \subseteq raw',
           \A g \in Fibers : pc'[g] \in {"create", "del", "sys"} =>
              (pc[g] \in {"create", "del", "sys"} /\ call'[g] = call[g]) \/ Fd(g)' \in Fds \ open
    PROVE  WatchInv'
<1>1. \A d \in Fds : Registered(d)' = Registered(d)
  BY DEF Registered
<1>2. \A g \in Fibers : pc[g] \in {"create", "del", "sys"} => Fd(g) \in Fds
  BY DEF TypeInv, CallInv
<1> QED
  BY <1>1, <1>2 DEF WatchInv, Fd

\* A cancellation stops watching for the events whose fibers it queues.
LEMMA TriggerWatch ==
    ASSUME TypeInv, WatchInv, NEW d \in Fds, NEW evs \in SUBSET Events, NEW who, Trigger(d, evs, who), UNCHANGED raw
    PROVE  \A b \in Fds \ raw : /\ interest'[b] = Registered(b)' /\ Registered(b)' \subseteq Registered(b)
                                /\ b = d /\ evs = Events => Registered(b)' = {}
<1>1. \A b \in Fds : interest'[b] = IF b = d /\ Hit(d, evs) # {} THEN Registered(d) \ Hit(d, evs) ELSE interest[b]
  BY TriggerFacts
<1>2. \A b \in Fds : Registered(b)' = IF b = d THEN Registered(d) \ Hit(d, evs) ELSE Registered(b)
  BY TriggerFacts
<1>3. \A b \in Fds \ raw : interest[b] = Registered(b)
  BY DEF WatchInv
<1>4. Hit(d, evs) = IF interest[d] = {} THEN {} ELSE evs \cap Registered(d)
  BY DEF Hit
<1>5. Registered(d) \subseteq Events
  BY DEF Registered
<1> QED
  BY <1>1, <1>2, <1>3, <1>4, <1>5

LEMMA NextWatch == ASSUME TypeInv, threads = 1, Alone, TableInv, WatchInv, [Next]_vars PROVE WatchInv'
<1> USE DEF kernelVars, epollVars, histVars, callVars, timerVars, Goto, Returns
<1>0. Types
  BY NamedTypes
<1>01. \A g \in Fibers : pc[g] \in {"create", "del", "sys"} => Fd(g) \in Fds
  BY DEF TypeInv, CallInv
<1>1. ASSUME UNCHANGED <<waiter, interest, open, pc, call>>, raw \subseteq raw' PROVE WatchInv'
  BY <1>1, WatchRest
<1>2. ASSUME NEW d \in Fds, NEW evs \in SUBSET Events, NEW who, Trigger(d, evs, who), UNCHANGED <<open, raw, pc, call>>
      PROVE  WatchInv'
  <2>1. \A b \in Fds \ raw : interest'[b] = Registered(b)' /\ Registered(b)' \subseteq Registered(b)
    BY <1>2, TriggerWatch
  <2> QED
    BY <1>01, <1>2, <2>1 DEF WatchInv, Fd
<1>3. ASSUME NEW f \in Fibers, MoveOf(f) PROVE WatchInv'
  <2>1. \A g \in Fibers : g # f => pc'[g] = pc[g] /\ call'[g] = call[g]
    BY <1>3, OthersRest DEF Others
  <2>2. \A g \in Fibers : g # f => pc[g] \notin {"create", "del", "sys"}
    BY <1>3, Turn DEF Running
  <2>3. CASE TryIO(f) \/ TryConnect(f) \/ Unblock(f) \/ Arm(f) \/ AddRefused(f) \/ Resume(f) \/ Check(f) \/ Create(f) \/ CloseDel(f)
    <3>1. UNCHANGED <<waiter, interest, open, raw, call>>
      BY <2>3 DEF TryIO, TryConnect, Unblock, Arm, AddRefused, Resume, Check, Create, CloseDel
    <3>2. pc'[f] \in {"create", "del", "sys"} => pc[f] \in {"create", "del", "sys"}
      BY <1>0, <2>3, TryMoves, UnblockMoves DEF Arm, AddRefused, Resume, Check, Create, CloseDel, Types
    <3> QED
      BY <2>1, <3>1, <3>2, WatchRest
  <2>4. CASE Sleep(f) \/ \E d \in Fds, k \in Kinds \ {"sleep"} : RefuseConnect(f, d) \/ EnterCall(f, k, d)
    <3>1. UNCHANGED <<waiter, interest, open, raw>> /\ pc'[f] \notin {"create", "del", "sys"}
      BY <1>0, <2>4 DEF Sleep, RefuseConnect, EnterCall, Types
    <3> QED
      BY <2>1, <3>1, WatchRest
  <2>5. ASSUME NEW d \in Fds, TryAccept(f, d) \/ Socket(f, d) PROVE WatchInv'
    <3>1. UNCHANGED <<waiter, interest, raw>> /\ d \notin open /\ open \subseteq open'
      BY <2>5 DEF TryAccept, Socket, NewSocket
    <3>2. call'[f].fd = d
      BY <1>0, <2>5 DEF TryAccept, Socket, Types, CallTypes
    <3> QED
      BY <2>1, <3>1, <3>2, WatchRest DEF Fd
  <2>6. CASE AddAndHold(f)
    <3>1. Fd(f) \in Fds /\ Ev(f) \in Events /\ UNCHANGED <<open, raw, call>> /\ pc[f] = "add" /\ Fd(f) \in open
      BY <2>6, EventOfType DEF AddAndHold, AddAccepted, TypeInv, CallInv, Working, Ev
    <3>2. \A d \in Fds, e \in Events : waiter'[d][e] = IF d = Fd(f) /\ e = Ev(f) THEN f ELSE waiter[d][e]
      BY <1>0, <2>6, <3>1 DEF AddAndHold, Types
    <3>3. \A d \in Fds : Registered(d)' = IF d = Fd(f) THEN Registered(d) \cup {Ev(f)} ELSE Registered(d)
      BY <3>1, <3>2, HookAssumption DEF Registered
    <3>4. \A d \in Fds : interest'[d] = IF d = Fd(f) THEN Registered(d) \cup {Ev(f)} ELSE interest[d]
      BY <1>0, <2>6, <3>1 DEF AddAndHold, WatchFor, Types
    <3>5. pc'[f] = "held"
      BY <1>0, <2>6 DEF AddAndHold, Types
    <3> QED
      BY <2>1, <2>2, <3>1, <3>3, <3>4, <3>5 DEF WatchInv
  <2>7. CASE CloseSys(f)
    <3>1. /\ pc[f] = "sys" /\ pc'[f] = "out" /\ Fd(f) \in Fds /\ UNCHANGED <<raw, call, waiter>>
          /\ open' = open \ {Fd(f)} /\ interest' = [interest EXCEPT ![Fd(f)] = {}]
      BY <1>0, <2>7 DEF CloseSys, Closed, Types, TypeInv, CallInv
    <3>2. \A d \in Fds : Registered(d)' = Registered(d)
      BY <3>1 DEF Registered
    <3>3. \A d \in Fds : interest'[d] = IF d = Fd(f) THEN {} ELSE interest[d]
      BY <1>0, <3>1 DEF Types
    <3> QED
      BY <2>1, <2>2, <3>1, <3>2, <3>3 DEF WatchInv
  <2>8. ASSUME NEW d \in Fds, CloseCancel(f, d) PROVE WatchInv'
    <3>1. pc[f] = "out" /\ UNCHANGED <<open, raw>> /\ d \in open /\ ~ InHand(d)
      BY <2>8 DEF CloseCancel
    <3>2. call'[f].fd = d
      BY <1>0, <2>8 DEF CloseCancel, Types, CallTypes
    <3>3. CASE d \in raw
      <4>1. UNCHANGED <<waiter, interest>> \/ Trigger(d, Events, "user")
        BY <2>8 DEF CloseCancel
      <4>2. \A b \in Fds \ raw : interest'[b] = Registered(b)' /\ Registered(b)' \subseteq Registered(b)
        <5>1. CASE UNCHANGED <<waiter, interest>>
          BY <5>1 DEF WatchInv, Registered
        <5>2. CASE Trigger(d, Events, "user")
          BY <3>1, <5>2, TriggerWatch
        <5> QED
          BY <4>1, <5>1, <5>2
      <4> QED
        BY <2>1, <2>2, <3>1, <3>2, <3>3, <4>2 DEF WatchInv, Fd
    <3>4. CASE d \notin raw
      <4>1. m_fds[d] # NoOne
        BY <3>1, <3>4 DEF TableInv, InHand
      <4>2. Trigger(d, Events, "user")
        BY <2>8, <4>1 DEF CloseCancel
      <4>3. \A b \in Fds \ raw : /\ interest'[b] = Registered(b)' /\ Registered(b)' \subseteq Registered(b)
                                 /\ b = d => Registered(b)' = {}
        BY <3>1, <4>2, TriggerWatch
      <4> QED
        BY <2>1, <2>2, <3>1, <3>2, <4>3 DEF WatchInv, Fd
    <3> QED
      BY <3>3, <3>4
  <2> QED
    BY <1>3, <2>3, <2>4, <2>5, <2>6, <2>7, <2>8 DEF MoveOf, FiberStep
<1>4. CASE UNCHANGED vars
  BY <1>1, <1>4 DEF vars
<1>5. CASE \E f \in Fibers : FiberStep(f)
  BY <1>3, <1>5 DEF MoveOf
<1>6. CASE SchedulerStep
  <2>1. CASE (\E t \in armed : Expire(t)) \/ (\E t \in fired : RunCallback(t)) \/ \E d \in Fds, e \in Events : Report(d, e)
    BY <1>1, <2>1 DEF Expire, RunCallback, Report
  <2>2. ASSUME NEW t \in cancelling, CallbackCancels(t) PROVE WatchInv'
    <3>1. t.fd \in Fds /\ {EventOf(t.kind)} \in SUBSET Events
      BY EventOfType DEF TypeInv, CallInv
    <3> QED
      BY <1>2, <2>2, <3>1 DEF CallbackCancels
  <2>3. ASSUME NEW d \in Fds, NEW e \in Events, Handle(d, e) PROVE WatchInv'
    <3>1. {e} \in SUBSET Events
      OBVIOUS
    <3> QED
      BY <1>2, <2>3, <3>1 DEF Handle
  <2> QED
    BY <1>6, <2>1, <2>2, <2>3 DEF SchedulerStep
<1>7. CASE Environment
  <2>1. CASE \E f \in Fibers : MoveOf(f)
    BY <1>3, <2>1
  <2>2. CASE \/ \E d \in Fds, e \in EventsUsed : BecomeReady(d, e) \/ SetTimeout(d, e)
             \/ \E d \in Fds, c \in {"up", "refused"} : Connected(d, c)
             \/ \E d \in Fds, b \in BOOLEAN : Fcntl(d, b) \/ Ioctl(d, b)
    <3>1. UNCHANGED <<waiter, interest, open, pc, call>> /\ raw \subseteq raw'
      BY <2>2 DEF BecomeReady, SetTimeout, Connected, Fcntl, Ioctl
    <3> QED
      BY <1>1, <3>1
  <2>3. ASSUME NEW d \in Fds, NEW evs \in SUBSET Events, CancelOp(d, evs) PROVE WatchInv'
    BY <1>2, <2>3 DEF CancelOp
  <2>4. ASSUME NEW d \in Fds, CloseUnhooked(d) PROVE WatchInv'
    <3>1. open' = open \ {d} /\ raw' = raw \cup {d} /\ UNCHANGED <<pc, call, waiter>> /\ interest' = [interest EXCEPT ![d] = {}]
      BY <2>4 DEF CloseUnhooked, Closed
    <3>2. \A b \in Fds : Registered(b)' = Registered(b) /\ (b # d => interest'[b] = interest[b])
      BY <1>0, <3>1 DEF Registered, Types
    <3> QED
      BY <1>01, <3>1, <3>2 DEF WatchInv, Fd
  <2> QED
    BY <1>7, <2>1, <2>2, <2>3, <2>4 DEF Environment, MoveOf
<1> QED
  BY <1>4, <1>5, <1>6, <1>7 DEF Next

LEMMA TimedCalm ==
    ASSUME TypeInv, TimedInv, queue \subseteq queue', \A g \in Fibers : Strolls(g),
           UNCHANGED <<calls, canceled, armed, fired, cancelling>>, raw \subseteq raw'
    PROVE  TimedInv'
<1>1. \A g \in Fibers : /\ pc'[g] = "held" => pc[g] = "held" /\ call'[g] = call[g]
                        /\ pc'[g] = "add" => pc[g] = "add" /\ call'[g] = call[g]
                        /\ InCall(g)' => InCall(g) /\ call'[g] = call[g] /\ (pc[g] = "held" => pc'[g] = "held")
  BY DEF Strolls, InCall, Working
<1>2. \A t : \A g \in Fibers : Speaks(t, g)' <=> Speaks(t, g)
  BY DEF Speaks
<1> QED
  BY <1>1, <1>2 DEF TimedInv, Fd

\* The callback of a timer ends the wait it speaks for.
LEMMA CallbackEnds ==
    ASSUME TypeInv, WaitInv, HeldInv, WatchInv, NEW t \in cancelling, CallbackCancels(t),
           NEW f \in Fibers, Speaks(t, f), pc[f] = "held", Fd(f) \notin raw
    PROVE  f \in queue'
<1> DEFINE e == EventOf(t.kind)
<1>0. Types
  BY NamedTypes
<1>1. t.fd \in Fds /\ e \in Events /\ {e} \in SUBSET Events
  BY EventOfType DEF TypeInv, CallInv
<1>2. t.kind = call[f].kind /\ t.fd = Fd(f) /\ t.kind # "sleep"
  BY DEF Speaks, WaitInv, FiredInv, TinfoAlive, InCall, TypeInv, CallInv
<1>3. Trigger(t.fd, {e}, "timer")
  BY DEF CallbackCancels
<1>4. CASE f \notin queue
  <2>1. waiter[t.fd][e] = f
    BY <1>2, <1>4 DEF HeldInv, Ev
  <2>2. e \in Registered(t.fd) /\ interest[t.fd] = Registered(t.fd)
    BY <1>1, <1>2, <2>1, HookAssumption DEF Registered, WatchInv
  <2>3. e \in Hit(t.fd, {e})
    BY <2>2 DEF Hit
  <2>4. queue' = queue \cup {waiter[t.fd][x] : x \in Hit(t.fd, {e})}
    BY <1>1, <1>3, TriggerFacts
  <2> QED
    BY <2>1, <2>3, <2>4
<1>5. CASE f \in queue
  <2>1. queue \subseteq queue'
    BY <1>1, <1>3, TriggerKeeps DEF Kept
  <2> QED
    BY <1>5, <2>1
<1> QED
  BY <1>4, <1>5

LEMMA NextTimed ==
    ASSUME TypeInv, WaitInv, HeldInv, threads = 1, Alone, WatchInv, TimedInv, [Next]_vars PROVE TimedInv'
<1> USE DEF kernelVars, epollVars, histVars, callVars, timerVars, Goto, Returns
<1>0. Types
  BY NamedTypes
<1>01. \A t : \A g \in Fibers : Speaks(t, g) <=> t.fiber = g /\ t.call = calls[g]
  BY DEF Speaks
<1>02. \A t : \A g \in Fibers : Speaks(t, g)' <=> t.fiber = g /\ t.call = calls'[g]
  BY DEF Speaks
<1>1. ASSUME Calm, UNCHANGED cancelling, raw \subseteq raw' PROVE TimedInv'
  <2>1. queue \subseteq queue'
    BY <1>1 DEF Calm, Woken
  <2> QED
    BY <1>1, <2>1, TimedCalm DEF Calm
<1>2. ASSUME NEW f \in Fibers, MoveOf(f) PROVE TimedInv'
  <2>1. \A g \in Fibers : g # f => pc'[g] = pc[g] /\ call'[g] = call[g] /\ calls'[g] = calls[g] /\ canceled'[g] = canceled[g]
    BY <1>2, OthersRest DEF Others
  <2>2. CASE TryIO(f) \/ TryConnect(f) \/ Unblock(f) \/ Check(f) \/ Create(f) \/ CloseDel(f) \/ CloseSys(f)
             \/ \E d \in Fds : TryAccept(f, d) \/ Socket(f, d) \/ CloseCancel(f, d)
    <3>1. Calm
      BY <2>2, CalmSteps
    <3>2. UNCHANGED <<cancelling, raw>>
      BY <2>2 DEF TryIO, TryConnect, Unblock, Check, Create, CloseDel, CloseSys, TryAccept, Socket, CloseCancel
    <3> QED
      BY <1>1, <3>1, <3>2
\* The other fibers keep their timers.
  <2>3. ASSUME UNCHANGED <<fired, cancelling, raw>>, \A t \in armed : t.fiber # f => t \in armed', \A g \in queue : g # f => g \in queue',
               /\ pc'[f] = "add" /\ call'[f].timed => \E t \in armed' : Speaks(t, f)'
               /\ InCall(f)' => ~ canceled'[f]
               /\ pc'[f] = "held" /\ call'[f].timed => \E t \in armed' : Speaks(t, f)'
        PROVE  TimedInv'
    <3> SUFFICES ASSUME NEW g \in Fibers
                 PROVE  /\ pc'[g] = "add" /\ call'[g].timed => \E t \in armed' : Speaks(t, g)'
                        /\ InCall(g)' /\ canceled'[g] =>
                              pc'[g] = "held" /\ (Fd(g)' \notin raw' => g \in queue' \/ \E t \in cancelling' : Speaks(t, g)')
                        /\ pc'[g] = "held" /\ call'[g].timed /\ Fd(g)' \notin raw' =>
                              g \in queue' \/ \E t \in armed' \cup fired' \cup cancelling' : Speaks(t, g)'
      BY DEF TimedInv
    <3>1. CASE g = f
      BY <2>3, <3>1
    <3>2. CASE g # f
      <4>1. pc'[g] = pc[g] /\ call'[g] = call[g] /\ canceled'[g] = canceled[g] /\ Fd(g)' = Fd(g) /\ (InCall(g)' <=> InCall(g))
        BY <2>1, <3>2 DEF Fd, InCall
      <4>2. \A t : Speaks(t, g)' <=> Speaks(t, g)
        BY <1>01, <1>02, <2>1, <3>2
      <4>3. \A t \in armed : Speaks(t, g) => t \in armed'
        BY <1>01, <2>3, <3>2
      <4>4. g \in queue => g \in queue'
        BY <2>3, <3>2
      <4> QED
        BY <2>3, <4>1, <4>2, <4>3, <4>4 DEF TimedInv
    <3> QED
      BY <3>1, <3>2
  <2>4. CASE \E d \in Fds, k \in Kinds \ {"sleep"} : RefuseConnect(f, d) \/ EnterCall(f, k, d)
    <3>1. UNCHANGED <<armed, fired, cancelling, raw, queue>>
      BY <2>4 DEF RefuseConnect, EnterCall
    <3>2. pc'[f] = "out" \/ (pc'[f] = "try" /\ ~ canceled'[f])
      BY <1>0, <2>4 DEF RefuseConnect, EnterCall, Types
    <3> QED
      BY <2>3, <3>1, <3>2 DEF InCall
  <2>5. CASE Sleep(f)
    <3>1. UNCHANGED <<fired, cancelling, raw, queue>> /\ armed \subseteq armed'
      BY <2>5 DEF Sleep
    <3>2. pc'[f] = "held" /\ ~ canceled'[f] /\ ~ call'[f].timed
      BY <1>0, <2>5 DEF Sleep, Types, NoCall
    <3> QED
      BY <2>3, <3>1, <3>2
  <2>6. pc[f] \in Working => ~ canceled[f]
    BY DEF TimedInv, InCall, Working
  <2>7. CASE Arm(f)
    <3>1. UNCHANGED <<fired, cancelling, raw, queue, call, calls, canceled>> /\ armed \subseteq armed' /\ pc[f] = "arm"
      BY <2>7 DEF Arm
    <3>2. pc'[f] = "add"
      BY <1>0, <2>7 DEF Arm, Types
    <3>3. call[f].timed => \E t \in armed' : Speaks(t, f)'
      <4> SUFFICES ASSUME call[f].timed PROVE \E t \in armed' : Speaks(t, f)'
        OBVIOUS
      <4> DEFINE t == [fiber |-> f, call |-> calls[f], kind |-> call[f].kind, fd |-> Fd(f)]
      <4>1. calls[f] \in 1 .. MaxCalls /\ call[f].kind \in Kinds /\ Fd(f) \in Fds \cup {0}
        BY <3>1 DEF TypeInv, CallInv, Working
      <4>2. t \in Timers /\ t.fiber = f /\ t.call = calls[f] /\ t.kind = call[f].kind /\ t.fd = Fd(f)
        BY <4>1 DEF Timers
      <4> HIDE DEF t
      <4>3. t \in armed'
        BY <2>7, <4>2 DEF Arm
      <4> QED
        BY <1>02, <3>1, <4>2, <4>3
    <3>4. ~ canceled'[f]
      BY <2>6, <3>1 DEF Working
    <3> QED
      BY <2>3, <3>1, <3>2, <3>3, <3>4
  <2>8. CASE AddRefused(f)
    <3>1. UNCHANGED <<fired, cancelling, raw, queue>> /\ armed' = {t \in armed : t.fiber # f}
      BY <2>8 DEF AddRefused, Own
    <3>2. pc'[f] = "out"
      BY <1>0, <2>8 DEF AddRefused, Types
    <3> QED
      BY <2>3, <3>1, <3>2 DEF InCall
  <2>9. CASE AddAndHold(f)
    <3>1. UNCHANGED <<fired, cancelling, raw, queue, call, calls, canceled, armed>> /\ pc[f] = "add"
      BY <2>9 DEF AddAndHold
    <3>2. pc'[f] = "held"
      BY <1>0, <2>9 DEF AddAndHold, Types
    <3>3. call[f].timed => \E t \in armed : Speaks(t, f)
      BY <3>1 DEF TimedInv
    <3>4. ~ canceled'[f]
      BY <2>6, <3>1 DEF Working
    <3> QED
      BY <1>01, <1>02, <2>3, <3>1, <3>2, <3>3, <3>4
  <2>10. CASE Resume(f)
    <3>1. UNCHANGED <<fired, cancelling, raw, canceled>> /\ armed' = {t \in armed : t.fiber # f} /\ queue' = queue \ {f}
      BY <2>10 DEF Resume, Own
    <3>2. pc'[f] = "out" \/ (pc'[f] \in {"check", "try"} /\ ~ canceled[f])
      BY <1>0, <2>10 DEF Resume, Types
    <3> QED
      BY <2>3, <3>1, <3>2 DEF InCall
  <2> QED
    BY <1>2, <2>2, <2>4, <2>5, <2>7, <2>8, <2>9, <2>10 DEF MoveOf, FiberStep
<1>3. ASSUME NEW t \in armed, Expire(t) PROVE TimedInv'
  <2>1. \A g \in Fibers : pc[g] # "add"
    BY <1>3, FreeMeans DEF Expire, Running
  <2>2. armed' = armed \ {t} /\ fired' = fired \cup {t} /\ UNCHANGED <<pc, call, calls, canceled, cancelling, queue, raw>>
    BY <1>3 DEF Expire
  <2> QED
    BY <1>01, <1>02, <2>1, <2>2 DEF TimedInv, InCall, Fd
<1>4. ASSUME NEW t \in fired, RunCallback(t) PROVE TimedInv'
  <2>1. \A g \in Fibers : pc[g] \notin Running
    BY <1>4, FreeMeans DEF RunCallback
  <2>2. fired' = fired \ {t} /\ queue \subseteq queue' /\ cancelling \subseteq cancelling' /\ UNCHANGED <<pc, call, calls, armed, raw>>
    BY <1>4 DEF RunCallback
  <2>3. \A u \in Timers : u.fiber \in Fibers
    BY DEF Timers
  <2>4. \A g \in Fibers : canceled'[g] = canceled[g] \/ (g = t.fiber /\ TinfoAlive(t) /\ t \in cancelling')
    BY <1>0, <1>4 DEF RunCallback, Types
  <2>5. \A g \in Fibers : InCall(g) => pc[g] = "held"
    BY <2>1 DEF InCall, Running
  <2>6. \A g \in Fibers : Speaks(t, g) /\ pc[g] = "held" /\ call[g].timed => canceled[g] \/ t \in cancelling'
    <3> SUFFICES ASSUME NEW g \in Fibers, Speaks(t, g), pc[g] = "held", call[g].timed PROVE canceled[g] \/ t \in cancelling'
      OBVIOUS
    <3>1. TinfoAlive(t) /\ t.fiber = g
      BY DEF Speaks, TinfoAlive, InCall
    <3>2. t.kind = call[g].kind /\ t.kind # "sleep"
      BY <3>1 DEF WaitInv, FiredInv, TypeInv, CallInv
    <3> QED
      BY <1>4, <3>1, <3>2 DEF RunCallback
  <2>7. ASSUME NEW g \in Fibers
        PROVE  /\ pc[g] # "add"
               /\ InCall(g) /\ canceled'[g] =>
                     pc[g] = "held" /\ (Fd(g) \notin raw => g \in queue' \/ \E u \in cancelling' : Speaks(u, g))
               /\ pc[g] = "held" /\ call[g].timed /\ Fd(g) \notin raw =>
                     g \in queue' \/ \E u \in armed \cup fired' \cup cancelling' : Speaks(u, g)
    <3>1. pc[g] # "add"
      BY <2>1 DEF Running
    <3>2. InCall(g) /\ canceled[g] /\ Fd(g) \notin raw => g \in queue' \/ \E u \in cancelling' : Speaks(u, g)
      BY <2>2 DEF TimedInv
    <3>3. ASSUME InCall(g), canceled'[g], Fd(g) \notin raw PROVE g \in queue' \/ \E u \in cancelling' : Speaks(u, g)
      <4>1. CASE canceled[g]
        BY <3>2, <3>3, <4>1
      <4>2. CASE ~ canceled[g]
        <5>1. g = t.fiber /\ TinfoAlive(t) /\ t \in cancelling'
          BY <2>4, <3>3, <4>2
        <5>2. Speaks(t, g)
          BY <5>1 DEF Speaks, TinfoAlive
        <5> QED
          BY <5>1, <5>2
      <4> QED
        BY <4>1, <4>2
    <3>4. ASSUME pc[g] = "held", call[g].timed, Fd(g) \notin raw
          PROVE  g \in queue' \/ \E u \in armed \cup fired' \cup cancelling' : Speaks(u, g)
      <4>1. g \in queue \/ \E u \in armed \cup fired \cup cancelling : Speaks(u, g)
        BY <3>4 DEF TimedInv
      <4>2. CASE Speaks(t, g)
        <5>1. canceled[g] \/ t \in cancelling'
          BY <2>6, <3>4, <4>2
        <5> QED
          BY <3>2, <3>4, <4>2, <5>1 DEF InCall
      <4>3. CASE ~ Speaks(t, g)
        BY <2>2, <4>1, <4>3
      <4> QED
        BY <4>2, <4>3
    <3> QED
      BY <2>5, <3>1, <3>3, <3>4
  <2> QED
    BY <1>01, <1>02, <2>2, <2>7 DEF TimedInv, InCall, Fd
<1>5. ASSUME NEW t \in cancelling, CallbackCancels(t) PROVE TimedInv'
  <2>1. cancelling' = cancelling \ {t} /\ UNCHANGED <<pc, call, calls, canceled, armed, fired, raw>>
    BY <1>5 DEF CallbackCancels
  <2>2. queue \subseteq queue'
    <3>1. t.fd \in Fds /\ {EventOf(t.kind)} \in SUBSET Events /\ Trigger(t.fd, {EventOf(t.kind)}, "timer")
      BY <1>5, EventOfType DEF TypeInv, CallInv, CallbackCancels
    <3> QED
      BY <3>1, TriggerKeeps DEF Kept
  <2>3. \A g \in Fibers : Speaks(t, g) /\ pc[g] = "held" /\ Fd(g) \notin raw => g \in queue'
    BY <1>5, CallbackEnds
  <2> QED
    BY <1>01, <1>02, <2>1, <2>2, <2>3 DEF TimedInv, InCall, Fd
<1>6. CASE UNCHANGED vars
  <2>1. \A g \in Fibers : Strolls(g)
    BY <1>6 DEF vars, Strolls
  <2> QED
    BY <1>6, <2>1, TimedCalm DEF vars
<1>7. CASE \E f \in Fibers : FiberStep(f)
  BY <1>2, <1>7 DEF MoveOf
<1>8. CASE SchedulerStep
  <2>1. ASSUME NEW d \in Fds, NEW e \in Events, Report(d, e) \/ Handle(d, e) PROVE TimedInv'
    <3>1. Calm
      BY <2>1, CalmSteps
    <3>2. UNCHANGED <<cancelling, raw>>
      BY <2>1 DEF Report, Handle
    <3> QED
      BY <1>1, <3>1, <3>2
  <2> QED
    BY <1>3, <1>4, <1>5, <1>8, <2>1 DEF SchedulerStep
<1>9. CASE Environment
  <2>1. CASE \E f \in Fibers : MoveOf(f)
    BY <1>2, <2>1
  <2>2. CASE \/ \E d \in Fds, e \in EventsUsed : BecomeReady(d, e) \/ SetTimeout(d, e)
             \/ \E d \in Fds, c \in {"up", "refused"} : Connected(d, c)
             \/ \E d \in Fds : CloseUnhooked(d)
             \/ \E d \in Fds, evs \in SUBSET Events : CancelOp(d, evs)
             \/ \E d \in Fds, b \in BOOLEAN : Fcntl(d, b) \/ Ioctl(d, b)
    <3>1. EventsUsed \subseteq Events
      BY EventOfType DEF EventsUsed
    <3>2. Calm
      BY <2>2, <3>1, CalmSteps
    <3>3. UNCHANGED cancelling /\ raw \subseteq raw'
      BY <2>2 DEF BecomeReady, SetTimeout, Connected, CloseUnhooked, CancelOp, Fcntl, Ioctl
    <3> QED
      BY <1>1, <3>2, <3>3
  <2> QED
    BY <1>9, <2>1, <2>2 DEF Environment, MoveOf
<1> QED
  BY <1>6, <1>7, <1>8, <1>9 DEF Next

\* Those who had been woken before keep what woke them.
LEMMA TriggerWoke ==
    ASSUME TypeInv, WaitInv, NEW d \in Fds, NEW evs \in SUBSET Events, NEW who, Trigger(d, evs, who), NEW g \in Fibers
    PROVE  /\ g \in queue \/ pc[g] # "held" => woke'[g] = woke[g]
           /\ g \in queue' /\ g \notin queue => woke'[g] = who /\ Fd(g) = d
<1>1. Hit(d, evs) \subseteq Events /\ queue' = queue \cup {waiter[d][e] : e \in Hit(d, evs)}
  BY TriggerFacts
<1>2. woke'[g] = IF \E e \in Hit(d, evs) : waiter[d][e] = g THEN who ELSE woke[g]
  BY DEF Trigger, Hit
<1>3. \A e \in Hit(d, evs) : waiter[d][e] = g => pc[g] = "held" /\ g \notin queue /\ Fd(g) = d
  BY <1>1 DEF WaitInv, WaiterInv
<1> QED
  BY <1>1, <1>2, <1>3

LEMMA NextEvent ==
    ASSUME TypeInv, WaitInv, ReadyInv, threads = 1, Alone, EventInv, [Next]_vars PROVE EventInv'
<1> USE DEF kernelVars, epollVars, histVars, callVars, timerVars, Goto, Returns
<1> DEFINE Due1(g) == /\ call[g].kind = "connect" /\ woke[g] = "event" /\ Fd(g) \notin raw
                      /\ g \in queue \/ pc[g] = "check"
<1>0. Types
  BY NamedTypes
<1>01. TypeInv' /\ WaitInv'
  BY NextType, NextWait
<1>02. \A g \in Fibers : g \in queue \/ pc[g] = "check" => InCall(g)
  BY DEF WaitInv, InCall
<1>03. \A g \in Fibers : Due1(g) => Settled(Fd(g))
  BY DEF EventInv
<1>04. \A g \in Fibers : call[g].kind = "connect" /\ InCall(g) => Fd(g) \in Fds
  BY DEF TypeInv, CallInv, InCall, Working
<1>05. raw \subseteq raw'
  BY ZenonT(60) DEF Next, FiberStep, SchedulerStep, Environment, TryIO, TryConnect, Unblock, Check, Create, CloseDel, CloseSys, Arm,
     AddRefused, AddAndHold, Resume, TryAccept, Socket, CloseCancel, Sleep, RefuseConnect, EnterCall, BecomeReady, SetTimeout,
     Connected, CloseUnhooked, CancelOp, Fcntl, Ioctl, Expire, RunCallback, CallbackCancels, Report, Handle, vars
\* A fiber that an event had woken before the step, or that the step wakes.
<1>1. ASSUME \A d \in Fds, e \in Events : <<d, e>> \in reported' => Settled(d)' \/ d \in raw',
             \A g \in Fibers : Due1(g)' => (Due1(g) /\ call'[g] = call[g]) \/ Settled(Fd(g))'
      PROVE  EventInv'
  <2>1. ASSUME NEW g \in Fibers, Due1(g)' PROVE Settled(Fd(g))'
    <3>1. CASE Settled(Fd(g))'
      BY <3>1
    <3>2. CASE Due1(g) /\ call'[g] = call[g]
      <4>1. Settled(Fd(g)) /\ Fd(g) \in Fds /\ InCall(g) /\ Fd(g)' = Fd(g)
        BY <1>02, <1>03, <1>04, <3>2 DEF Fd
      <4>2. ASSUME Closed(Fd(g)) PROVE FALSE
        BY <2>1, <4>1, <4>2 DEF Closed
      <4>3. Settled(Fd(g)) => Settled(Fd(g))' \/ (\E f \in Fibers : CloseSys(f) /\ Fd(f) = Fd(g)) \/ CloseUnhooked(Fd(g))
        <5> DEFINE d == Fd(g)
        <5>1. d \in Fds
          BY <4>1
        <5>3. ASSUME NEW b \in Fds, Settled(b) PROVE (b \in open' /\ conn'[b] \in {"up", "refused"}) \/ (\E f \in Fibers : CloseSys(f) /\ Fd(f) = b) \/ CloseUnhooked(b)
          BY <5>3, StaysSettled DEF Settled
        <5>4. (d \in open' /\ conn'[d] \in {"up", "refused"}) <=> Settled(Fd(g))'
          BY <4>1 DEF Settled
        <5> HIDE DEF d
        <5>5. d = Fd(g)
          BY DEF d
        <5> QED
          BY <4>1, <5>1, <5>3, <5>4, <5>5
      <4> QED
        BY <4>1, <4>2, <4>3 DEF CloseSys, CloseUnhooked
    <3> QED
      BY <1>1, <2>1, <3>1, <3>2
  <2> QED
    BY <1>1, <2>1 DEF EventInv
<1>2. \A d \in Fds, e \in Events : <<d, e>> \in reported => Settled(d) \/ d \in raw
  BY DEF EventInv
<1>3. ASSUME reported' \subseteq reported, NEW d \in Fds, NEW e \in Events, <<d, e>> \in reported' PROVE Settled(d)' \/ d \in raw'
  <2>1. CASE d \in raw
    BY <1>05, <2>1
  <2>2. CASE Settled(d)
    <3>1. CASE \E f \in Fibers : CloseSys(f)
      <4>1. reported = {}
        BY <3>1, Turn DEF MoveOf, FiberStep
      <4> QED
        BY <1>3, <4>1
    <3>2. CASE CloseUnhooked(d)
      BY <3>2 DEF CloseUnhooked
    <3> QED
      BY <2>2, <3>1, <3>2, StaysSettled
  <2> QED
    BY <1>2, <1>3, <2>1, <2>2
<1>4. ASSUME NEW f \in Fibers, MoveOf(f) PROVE EventInv'
  <2>1. (\A g \in Fibers : g # f => pc'[g] = pc[g] /\ call'[g] = call[g]) /\ reported' = reported
    BY <1>4, OthersRest DEF Others
  <2>2. \A g \in Fibers : g # f /\ g \in queue' => g \in queue \/ woke'[g] = "user"
    <3>1. ASSUME NEW d \in Fds, CloseCancel(f, d), NEW g \in Fibers, g \in queue', g \notin queue PROVE woke'[g] = "user"
      <4>1. Trigger(d, Events, "user") \/ UNCHANGED queue
        BY <3>1 DEF CloseCancel
      <4> QED
        BY <3>1, <4>1, TriggerWoke
    <3>2. CASE ~ \E d \in Fds : CloseCancel(f, d)
      <4>1. queue' \subseteq queue
        BY <1>4, <3>2 DEF MoveOf, FiberStep, TryIO, TryConnect, Unblock, Check, Create, CloseDel, CloseSys, Arm,
           AddRefused, AddAndHold, Resume, TryAccept, Socket, Sleep, RefuseConnect, EnterCall
      <4> QED
        BY <4>1
    <3> QED
      BY <3>1, <3>2
  <2>3. \A g \in Fibers : woke'[g] = "event" /\ (g \in queue \/ pc[g] # "held") => woke[g] = "event"
    <3>1. ASSUME NEW d \in Fds, CloseCancel(f, d), NEW g \in Fibers, g \in queue \/ pc[g] # "held" PROVE woke'[g] = woke[g]
      <4>1. Trigger(d, Events, "user") \/ UNCHANGED woke
        BY <3>1 DEF CloseCancel
      <4> QED
        BY <3>1, <4>1, TriggerWoke
    <3>2. CASE CloseSys(f)
      BY <3>2 DEF CloseSys, Closed
    <3>3. CASE ~ CloseSys(f) /\ ~ \E d \in Fds : CloseCancel(f, d)
      <4>1. woke' = woke
        BY <1>4, <3>3 DEF MoveOf, FiberStep, TryIO, TryConnect, Unblock, Check, Create, CloseDel, Arm,
           AddRefused, AddAndHold, Resume, TryAccept, Socket, Sleep, RefuseConnect, EnterCall
      <4> QED
        BY <4>1
    <3> QED
      BY <3>1, <3>2, <3>3
  <2>4. ASSUME f \in queue' \/ pc'[f] = "check" PROVE f \in queue /\ call'[f] = call[f]
    <3>1. pc'[f] \in {"held", "check"}
      BY <1>01, <2>4 DEF WaitInv
    <3>2. CASE Resume(f)
      BY <3>2 DEF Resume
    <3>3. CASE AddAndHold(f) \/ Sleep(f)
      <4>1. UNCHANGED queue /\ pc[f] # "held"
        BY <3>3 DEF AddAndHold, Sleep, MayCall
      <4>2. pc'[f] = "held"
        BY <1>0, <3>3 DEF AddAndHold, Sleep, Types
      <4> QED
        BY <2>4, <4>1, <4>2 DEF WaitInv
    <3>4. CASE ~ Resume(f) /\ ~ AddAndHold(f) /\ ~ Sleep(f)
      <4>1. \E h \in {"out", "try", "arm", "add", "blocked", "create", "del", "sys"} : pc' = [pc EXCEPT ![f] = h]
        BY <1>4, <3>4, TryMoves, UnblockMoves DEF MoveOf, FiberStep, Check, Create, CloseDel, CloseSys, Arm,
           AddRefused, TryAccept, Socket, CloseCancel, RefuseConnect, EnterCall
      <4> QED
        BY <1>0, <3>1, <4>1 DEF Types
    <3> QED
      BY <3>2, <3>3, <3>4
  <2>5. raw' = raw
    BY <1>4 DEF MoveOf, FiberStep, TryIO, TryConnect, Unblock, Check, Create, CloseDel, CloseSys, Arm,
       AddRefused, AddAndHold, Resume, TryAccept, Socket, CloseCancel, Sleep, RefuseConnect, EnterCall
  <2>6. ASSUME NEW g \in Fibers, Due1(g)' PROVE Due1(g) /\ call'[g] = call[g]
    <3>1. CASE g = f
      BY <2>3, <2>4, <2>5, <2>6, <3>1 DEF Fd
    <3>2. CASE g # f
      BY <2>1, <2>2, <2>3, <2>5, <2>6, <3>2 DEF Fd
    <3> QED
      BY <3>1, <3>2
  <2> QED
    BY <1>1, <1>3, <2>1, <2>6
<1>5. ASSUME UNCHANGED <<pc, call, queue>>, reported' \subseteq reported, \A g \in Fibers : woke'[g] = "event" => woke[g] = "event"
      PROVE  EventInv'
  <2>1. ASSUME NEW g \in Fibers, Due1(g)' PROVE Due1(g) /\ call'[g] = call[g]
    BY <1>05, <1>5, <2>1 DEF Fd
  <2> QED
    BY <1>1, <1>3, <1>5, <2>1
<1>6. ASSUME NEW d \in Fds, NEW evs \in SUBSET Events, NEW who, Trigger(d, evs, who), UNCHANGED <<pc, call, raw>>, reported' \subseteq reported,
             who # "event" \/ (Settled(d)' \/ d \in raw)
      PROVE  EventInv'
  <2>1. ASSUME NEW g \in Fibers, Due1(g)' PROVE (Due1(g) /\ call'[g] = call[g]) \/ Settled(Fd(g))'
    <3>1. g \in queue \/ pc[g] # "held" => woke'[g] = woke[g]
      BY <1>6, TriggerWoke
    <3>2. g \in queue' /\ g \notin queue => woke'[g] = who /\ Fd(g) = d
      BY <1>6, TriggerWoke
    <3>3. Fd(g)' = Fd(g)
      BY <1>6 DEF Fd
    <3>4. CASE g \in queue \/ pc[g] = "check"
      BY <1>6, <2>1, <3>1, <3>3, <3>4
    <3>5. CASE g \in queue' /\ g \notin queue
      <4>1. who = "event" /\ Fd(g) = d /\ d \notin raw
        BY <1>6, <2>1, <3>2, <3>3, <3>5
      <4>2. Settled(d)'
        BY <1>6, <4>1
      <4> QED
        BY <3>3, <4>1, <4>2 DEF Settled
    <3> QED
      BY <1>6, <2>1, <3>4, <3>5
  <2> QED
    BY <1>1, <1>3, <1>6, <2>1
<1>7. CASE UNCHANGED vars
  BY <1>5, <1>7 DEF vars
<1>8. CASE \E f \in Fibers : FiberStep(f)
  BY <1>4, <1>8 DEF MoveOf
<1>9. CASE SchedulerStep
  <2>1. ASSUME NEW t \in armed, Expire(t) PROVE EventInv'
    BY <1>5, <2>1 DEF Expire
  <2>2. ASSUME NEW t \in fired, RunCallback(t) PROVE EventInv'
    <3>1. UNCHANGED <<pc, call, reported, woke, raw>>
      BY <2>2 DEF RunCallback
    <3>2. queue' = queue \/ (queue' = queue \cup {t.fiber} /\ t.kind = "sleep")
      BY <2>2 DEF RunCallback
    <3>3. t.kind = "sleep" => call[t.fiber].kind = "sleep"
      BY DEF WaitInv, SleepInv
    <3>4. ASSUME NEW g \in Fibers, Due1(g)' PROVE Due1(g) /\ call'[g] = call[g]
      BY <3>1, <3>2, <3>3, <3>4 DEF Fd
    <3> QED
      BY <1>1, <1>3, <3>1, <3>4
  <2>3. ASSUME NEW t \in cancelling, CallbackCancels(t) PROVE EventInv'
    <3>1. t.fd \in Fds /\ {EventOf(t.kind)} \in SUBSET Events
      BY EventOfType DEF TypeInv, CallInv
    <3>2. Trigger(t.fd, {EventOf(t.kind)}, "timer") /\ UNCHANGED <<pc, call, raw, reported>>
      BY <2>3 DEF CallbackCancels
    <3> QED
      BY <1>6, <3>1, <3>2
  <2>4. ASSUME NEW d \in Fds, NEW e \in Events, Report(d, e) PROVE EventInv'
    <3>1. /\ UNCHANGED <<pc, call, queue, woke, raw, open, conn>> /\ reported' = reported \cup {<<d, e>>} /\ <<d, e>> \in edge
      BY <2>4 DEF Report
    <3>2. Settled(d)
      BY <3>1 DEF ReadyInv
    <3>3. \A b \in Fds : Settled(b)' <=> Settled(b)
      BY <3>1 DEF Settled
    <3>4. \A b \in Fds, x \in Events : <<b, x>> \in reported' => Settled(b)' \/ b \in raw'
      BY <1>2, <3>1, <3>2, <3>3
    <3>5. ASSUME NEW g \in Fibers, Due1(g)' PROVE Due1(g) /\ call'[g] = call[g]
      BY <3>1, <3>5 DEF Fd
    <3> QED
      BY <1>1, <3>4, <3>5
  <2>5. ASSUME NEW d \in Fds, NEW e \in Events, Handle(d, e) PROVE EventInv'
    <3>1. /\ UNCHANGED <<pc, call, raw, open, conn>> /\ reported' = reported \ {<<d, e>>} /\ <<d, e>> \in reported
          /\ Trigger(d, {e}, "event") /\ {e} \in SUBSET Events
      BY <2>5 DEF Handle
    <3>2. Settled(d)' \/ d \in raw
      BY <1>2, <3>1 DEF Settled
    <3> QED
      BY <1>6, <3>1, <3>2
  <2> QED
    BY <1>9, <2>1, <2>2, <2>3, <2>4, <2>5 DEF SchedulerStep
<1>10. CASE Environment
  <2>1. CASE \E f \in Fibers : MoveOf(f)
    BY <1>4, <2>1
  <2>2. CASE \/ \E d \in Fds, e \in EventsUsed : BecomeReady(d, e) \/ SetTimeout(d, e)
             \/ \E d \in Fds, c \in {"up", "refused"} : Connected(d, c)
             \/ \E d \in Fds : CloseUnhooked(d)
             \/ \E d \in Fds, b \in BOOLEAN : Fcntl(d, b) \/ Ioctl(d, b)
    <3>1. UNCHANGED <<pc, call, queue, reported>>
      BY <2>2 DEF BecomeReady, SetTimeout, Connected, CloseUnhooked, Fcntl, Ioctl
    <3>2. \A g \in Fibers : woke'[g] = "event" => woke[g] = "event"
      BY <2>2 DEF BecomeReady, SetTimeout, Connected, CloseUnhooked, Closed, Fcntl, Ioctl
    <3> QED
      BY <1>5, <3>1, <3>2
  <2>3. ASSUME NEW d \in Fds, NEW evs \in SUBSET Events, CancelOp(d, evs) PROVE EventInv'
    BY <1>6, <2>3 DEF CancelOp
  <2> QED
    BY <1>10, <2>1, <2>2, <2>3 DEF Environment, MoveOf
<1> QED
  BY <1>7, <1>8, <1>9, <1>10 DEF Next

-----------------------------------------------------------------------------
LEMMA NextSolo == TypeInv /\ WaitInv /\ HeldInv /\ ReadyInv /\ SoloInv /\ [Next]_vars => SoloInv'
<1> SUFFICES ASSUME TypeInv, WaitInv, HeldInv, ReadyInv, SoloInv, [Next]_vars, threads' = 1
             PROVE  (Alone /\ TableInv /\ WatchInv /\ TimedInv /\ EventInv)'
  BY DEF SoloInv
<1>1. threads' = threads
  BY ZenonT(60) DEF Next, FiberStep, SchedulerStep, Environment, TryIO, TryConnect, Unblock, Check, Create, CloseDel, CloseSys, Arm,
     AddRefused, AddAndHold, Resume, TryAccept, Socket, CloseCancel, Sleep, RefuseConnect, EnterCall, BecomeReady, SetTimeout,
     Connected, CloseUnhooked, CancelOp, Fcntl, Ioctl, Expire, RunCallback, CallbackCancels, Report, Handle, vars
<1>2. Alone /\ TableInv /\ WatchInv /\ TimedInv /\ EventInv /\ threads = 1
  BY <1>1 DEF SoloInv
<1> QED
  BY <1>2, NextAlone, NextTable, NextWatch, NextTimed, NextEvent

LEMMA InitSolo == Init => HeldInv /\ ReadyInv /\ SoloInv
<1> SUFFICES ASSUME Init PROVE HeldInv /\ ReadyInv /\ SoloInv
  OBVIOUS
<1>1. \A f \in Fibers : pc[f] = "out"
  BY DEF Init
<1>2. HeldInv /\ ReadyInv
  BY <1>1 DEF Init, HeldInv, ReadyInv
<1>3. Alone /\ TimedInv /\ EventInv
  BY <1>1 DEF Init, Alone, Running, TimedInv, InCall, EventInv
<1>4. NewEntry # NoOne
  <2>1. NewEntry \in [m_is_user_nonblock : BOOLEAN, timeouts : SUBSET {"READ", "WRITE"}]
    BY DEF NewEntry
  <2> QED
    BY <2>1, HookAssumption
<1>5. TableInv
  BY <1>1, <1>4 DEF Init, TableInv
<1>6. \A d \in Fds : Registered(d) = {} /\ interest[d] = {}
  BY DEF Init, Registered
<1>7. WatchInv
  BY <1>1, <1>6 DEF WatchInv
<1> QED
  BY <1>2, <1>3, <1>5, <1>7 DEF SoloInv

LEMMA SoloKept == Spec => [](TypeInv /\ WaitInv /\ HeldInv /\ ReadyInv /\ SoloInv)
<1> DEFINE Inv == TypeInv /\ WaitInv /\ HeldInv /\ ReadyInv /\ SoloInv
<1>1. Init => Inv
  BY InitType, InitWait, InitSolo
<1>2. Inv /\ [Next]_vars => Inv'
  BY NextType, NextWait, NextHeld, NextReady, NextSolo
<1> QED
  BY <1>1, <1>2, PTL DEF Spec

\* On one thread close() leaves nobody waiting on the number (hook.cpp:797).
THEOREM CloseLeavesNobody == Spec => []CloseEndsWaits
<1>1. SoloInv => CloseEndsWaits
  BY DEF SoloInv, WatchInv, CloseEndsWaits
<1> QED
  BY <1>1, SoloKept, PTL

\* On one thread a wait with a timeout has a timer, a callback or a wake-up
\* that ends it (hook.cpp:121).
THEOREM WaitsTimed == Spec => []WaitIsTimed
<1>1. SoloInv => WaitIsTimed
  BY DEF SoloInv, TimedInv, WaitIsTimed, Speaks
<1> QED
  BY <1>1, SoloKept, PTL

\* On one thread no hooked call keeps the thread (fd.cpp:97, hook.cpp:809).
THEOREM ThreadsKept == Spec => []NeverBlocks
<1>1. SoloInv => NeverBlocks
  BY DEF SoloInv, TableInv, NeverBlocks
<1> QED
  BY <1>1, SoloKept, PTL

\* On one thread a connect() that an event has woken and that reports success
\* is connected (hook.cpp:683).
THEOREM ConnectsTruly == Spec => ConnectMeansConnected
<1> DEFINE True(f) == /\ threads = 1 /\ woke[f] = "event" /\ Fd(f) \notin raw
                      /\ pc[f] = "check" /\ pc'[f] = "out" /\ result'[f] = "ok"
                      => conn[Fd(f)] = "up"
<1>1. TypeInv /\ SoloInv /\ [Next]_vars => \A f \in Fibers : True(f)
  <2> SUFFICES ASSUME TypeInv, SoloInv, [Next]_vars, NEW f \in Fibers, threads = 1, woke[f] = "event", Fd(f) \notin raw,
                      pc[f] = "check", pc'[f] = "out", result'[f] = "ok"
               PROVE  conn[Fd(f)] = "up"
    OBVIOUS
  <2> USE DEF kernelVars, epollVars, histVars, callVars, timerVars, Goto, Returns
  <2>0. Types
    BY NamedTypes
  <2>1. Settled(Fd(f))
    BY DEF SoloInv, EventInv, TypeInv, CallInv
  <2>2. CASE Check(f)
    <3>1. result'[f] = IF Fd(f) \notin open \/ conn[Fd(f)] = "refused" THEN "error" ELSE "ok"
      BY <2>0, <2>2 DEF Check, Types
    <3> QED
      BY <2>1, <3>1 DEF Settled
  <2>3. ~ UNCHANGED pc
    OBVIOUS
  <2>4. \E g \in Fibers : MoveOf(g)
    BY <2>3 DEF Next, SchedulerStep, Environment, MoveOf, BecomeReady, SetTimeout, Connected, CloseUnhooked, CancelOp, Fcntl, Ioctl,
       Expire, RunCallback, CallbackCancels, Report, Handle, vars
  <2>5. MoveOf(f)
    BY <2>4, OthersRest DEF Others
  <2>6. Check(f)
    BY <2>5 DEF MoveOf, FiberStep, TryIO, TryConnect, Unblock, Create, CloseDel, CloseSys, Arm, AddRefused, AddAndHold, Resume,
       TryAccept, Socket, CloseCancel, Sleep, RefuseConnect, EnterCall, MayCall
  <2> QED
    BY <2>2, <2>6
<1>2. TypeInv /\ SoloInv /\ [Next]_vars => [\A f \in Fibers : True(f)]_vars
  BY <1>1
<1>3. Spec => [][\A f \in Fibers : True(f)]_vars
  BY <1>2, SoloKept, PTL DEF Spec
<1> QED
  BY <1>3 DEF ConnectMeansConnected

=============================================================================
