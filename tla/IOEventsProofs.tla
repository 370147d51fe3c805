---------------------------- MODULE IOEventsProofs ----------------------------
(***************************************************************************)
(* Proofs about IOEvents, for any number of fibers, pollers, descriptors   *)
(* and contexts.                                                           *)
(***************************************************************************)
EXTENDS IOEvents, FiniteSetTheorems, TLAPS

\* The points at which a thread uses the context that it has looked up.
CtxPCs == {"register", "del", "cancel", "cancelAll", "handle", "trigger", "count"}
\* The points at which it holds the mutex of the context.
HoldPCs == {"trigger", "count"}

Calls == [fd : Fds \cup {0}, ev : Events \cup {"READ"}, bits : SUBSET Events,
          ctx : Contexts \cup {NoContext}, err : BOOLEAN]
Watches == [bits : SUBSET Events, ctx : Contexts \cup {NoContext}]
Kinds == {"READ", "WRITE"}
Todos == {<<>>, <<"READ">>, <<"WRITE">>, <<"READ", "WRITE">>}

\* Without the counter, whose type depends on what it counts.
Types ==
    /\ size \in Nat /\ made \in [Fds -> 0 .. MaxContexts]
    /\ m_fd_contexts \in [Fds -> 0 .. MaxContexts]
    /\ event \in [Contexts -> SUBSET Events]
    /\ waiter \in [Contexts -> [Events -> Users \cup {NoOne}]]
    /\ mutex \in [Contexts -> Threads \cup {NoOne}]
    /\ m_waitting_events_count \in Int
    /\ interest \in [Fds -> Watches]
    /\ pc \in [Threads -> PCs] /\ adds \in [Users -> 0 .. MaxAdds]
    /\ call \in [Threads -> Calls]
    /\ todo \in [Threads -> Todos]
    /\ fault \in BOOLEAN

\* Whoever uses a context has one, and the one of his descriptor; who is about to
\* grow the vector will make room for his descriptor.
CallInv ==
    \A t \in Threads :
        /\ pc[t] \in CtxPCs => call[t].fd \in Fds /\ call[t].ctx \in {call[t].fd} \X (1 .. MaxContexts)
        /\ pc[t] = "grow" => call[t].fd \in Fds /\ call[t].fd >= 2
        /\ pc[t] \in {"grow", "register", "del", "cancel"} => call[t].ev \in Events
        /\ pc[t] \in {"grow", "register", "parked", "dropped", "run", "del", "cancel", "cancelAll"} => t \in Users
        /\ pc[t] \in {"wait", "handle"} => t \in Pollers
        /\ pc[t] \in HoldPCs => todo[t] # <<>>

\* Every index of the vector has a context.
TableInv ==
    /\ size >= 2
    /\ \A f \in Fds : size > f => m_fd_contexts[f] # 0

\* What epoll watches is a context of the descriptor.
InterestInv ==
    \A f \in Fds : interest[f] # Unwatched => interest[f].ctx \in {f} \X (1 .. MaxContexts)

TypeInv == Types /\ CallInv /\ TableInv /\ InterestInv

\* An event is registered exactly when a fiber is stored for it; the fiber is parked
\* and stored nowhere else; and a parked fiber is stored somewhere.
StoredInv ==
    /\ \A x \in Contexts, e \in Events : e \in event[x] <=> waiter[x][e] # NoOne
    /\ \A x \in Contexts, e \in Events : waiter[x][e] # NoOne => pc[waiter[x][e]] = "parked"
    /\ \A x, y \in Contexts, d, e \in Events :
          waiter[x][d] # NoOne /\ waiter[x][d] = waiter[y][e] => x = y /\ d = e
    /\ \A u \in Users : pc[u] = "parked" => \E x \in Contexts, e \in Events : waiter[x][e] = u

\* Threads between the triggerEvent() and the decrement of the counter.
Counting == {t \in Threads : pc[t] = "count"}
CountInv ==
    /\ IsFiniteSet(Registered) /\ IsFiniteSet(Counting)
    /\ m_waitting_events_count = Cardinality(Registered) + Cardinality(Counting)

\* The events that a thread has still to trigger.
Pending(t) ==
    {e \in Kinds : \E i \in DOMAIN todo[t] :
        /\ todo[t][i] = e
        /\ pc[t] = "trigger" \/ (pc[t] = "count" /\ i = 2)}

\* Who triggers events holds the mutex of the context.
MutexInv == \A t \in Threads : pc[t] \in HoldPCs => mutex[Ctx(t)] = t

\* A report of both events, or of an error.
Broad(t) == t \in Pollers /\ (call[t].bits = Events \/ call[t].err)
\* What such a poller was told and somebody else has unregistered since.
Excused(t) == IF Broad(t) THEN call[t].bits \cap since[t] ELSE {}
\* Everything else that is triggered is registered.
PendingInv ==
    /\ \A t \in Threads : pc[t] \in HoldPCs => Pending(t) \subseteq event[Ctx(t)] \cup Excused(t)
    /\ fault => \E t \in Threads : Failing(t)

\* epoll watches what is registered and nobody is about to trigger.
LiveInv ==
    \A f \in Fds, e \in Events : e \in interest[f].bits =>
        /\ e \in event[interest[f].ctx]
        /\ \A t \in Threads : pc[t] \in HoldPCs /\ Ctx(t) = interest[f].ctx => e \notin Pending(t)
\* A report tells of what is registered, or was when epoll returned it.
StaleInv == \A t \in Threads : pc[t] = "handle" => call[t].bits \subseteq event[Ctx(t)] \cup since[t]

HistoryInv == late \in BOOLEAN /\ since \in [Threads -> SUBSET Events]

\* What is registered is watched, or about to be triggered.
WatchedInv ==
    \A x \in Contexts : \A e \in event[x] :
        \/ interest[x[1]].ctx = x /\ e \in interest[x[1]].bits
        \/ \E t \in Threads : pc[t] \in HoldPCs /\ Ctx(t) = x /\ e \in Pending(t)

\* While the vector is only resized for descriptors that it has no room for, every
\* context in use is the one of its index.
InTable(x) == m_fd_contexts[x[1]] = x[2]
IndexInv ==
    ~ late =>
        /\ \A f \in Fds : m_fd_contexts[f] # 0 => f < size
        /\ \A t \in Threads : pc[t] \in CtxPCs => InTable(Ctx(t))
        /\ \A f \in Fds : interest[f] # Unwatched => InTable(interest[f].ctx)
        /\ \A x \in Contexts : event[x] # {} => InTable(x)

\* The events in the order in which they are triggered: each once.
LEMMA InOrderFacts ==
    ASSUME NEW bits, bits \subseteq Events
    PROVE  /\ InOrder(bits) \in Todos
           /\ bits # {} => InOrder(bits) # <<>>
           /\ \A e \in Kinds : (\E i \in DOMAIN InOrder(bits) : InOrder(bits)[i] = e) <=> e \in bits
           /\ bits # Events => Len(InOrder(bits)) <= 1
<1> USE DEF Todos, Kinds
<1>1. bits \subseteq {"READ", "WRITE"}
  BY EventAssumption
<1>2. CASE "READ" \in bits /\ "WRITE" \in bits
  <2>1. InOrder(bits) = <<"READ", "WRITE">>
    BY <1>2 DEF InOrder
  <2>2. /\ DOMAIN InOrder(bits) = {1, 2} /\ InOrder(bits) # <<>>
        /\ InOrder(bits)[1] = "READ" /\ InOrder(bits)[2] = "WRITE"
    BY <2>1
  <2>3. bits = Events
    BY <1>1, <1>2, EventAssumption
  <2>4. \A e \in Kinds : (\E i \in DOMAIN InOrder(bits) : InOrder(bits)[i] = e) <=> e \in bits
    BY <1>2, <2>2
  <2> QED
    BY <2>1, <2>2, <2>3, <2>4
<1>3. CASE "READ" \in bits /\ "WRITE" \notin bits
  <2>1. InOrder(bits) = <<"READ">>
    BY <1>3 DEF InOrder
  <2> QED
    BY <1>1, <1>3, <2>1, EventAssumption
<1>4. CASE "READ" \notin bits /\ "WRITE" \in bits
  <2>1. InOrder(bits) = <<"WRITE">>
    BY <1>4 DEF InOrder
  <2> QED
    BY <1>1, <1>4, <2>1, EventAssumption
<1>5. CASE "READ" \notin bits /\ "WRITE" \notin bits
  <2>1. InOrder(bits) = <<>>
    BY <1>5 DEF InOrder
  <2>2. DOMAIN InOrder(bits) = {} /\ Len(InOrder(bits)) = 0 /\ bits = {}
    BY <1>1, <1>5, <2>1
  <2> QED
    BY <2>1, <2>2
<1> QED
  BY <1>2, <1>3, <1>4, <1>5

\* What is left to trigger after the first event.
LEMMA TailFacts ==
    ASSUME NEW s \in Todos, s # <<>>
    PROVE  /\ Tail(s) \in Todos /\ (Len(s) > 1 <=> Tail(s) # <<>>)
           /\ Head(s) = s[1] /\ Head(s) \in Kinds /\ Len(s) \in {1, 2} /\ DOMAIN s = 1 .. Len(s)
           /\ Len(s) = 2 => /\ Head(s) = "READ" /\ Head(Tail(s)) = "WRITE" /\ s[2] = "WRITE"
                            /\ Tail(s) = <<"WRITE">>
<1>1. CASE s = <<"READ">>
  <2>1. Tail(s) = <<>> /\ Len(s) = 1
    BY <1>1
  <2> QED
    BY <1>1, <2>1 DEF Todos, Kinds
<1>2. CASE s = <<"WRITE">>
  <2>1. Tail(s) = <<>> /\ Len(s) = 1
    BY <1>2
  <2> QED
    BY <1>2, <2>1 DEF Todos, Kinds
<1>3. CASE s = <<"READ", "WRITE">>
  <2>1. Tail(s) = <<"WRITE">> /\ Len(s) = 2
    BY <1>3
  <2> QED
    BY <1>3, <2>1 DEF Todos, Kinds
<1> QED
  BY <1>1, <1>2, <1>3 DEF Todos, Kinds

\* The constructor establishes the types.
LEMMA InitType == Init => TypeInv
<1> SUFFICES ASSUME Init PROVE TypeInv
  OBVIOUS
<1> USE EventAssumption
<1>1. Types
  <2>6. m_fd_contexts = [f \in Fds |-> IF f < InitSize THEN 1 ELSE 0]
    BY DEF Init
  <2>7. m_fd_contexts \in [Fds -> 0 .. MaxContexts]
    BY <2>6
  <2>1. /\ size \in Nat /\ made \in [Fds -> 0 .. MaxContexts] /\ m_fd_contexts \in [Fds -> 0 .. MaxContexts]
        /\ adds \in [Users -> 0 .. MaxAdds] /\ m_waitting_events_count \in Int /\ fault \in BOOLEAN
    <3>1. /\ made = m_fd_contexts /\ size = InitSize /\ m_waitting_events_count = 0 /\ fault = FALSE
          /\ adds = [u \in Users |-> 0]
      BY DEF Init
    <3>2. adds \in [Users -> 0 .. MaxAdds]
      BY <3>1
    <3>3. fault \in BOOLEAN
      BY <3>1
    <3>4. size \in Nat /\ m_waitting_events_count \in Int /\ made \in [Fds -> 0 .. MaxContexts]
      BY <2>7, <3>1
    <3> QED
      BY <2>7, <3>2, <3>3, <3>4
  <2>2. /\ event \in [Contexts -> SUBSET Events]
        /\ waiter \in [Contexts -> [Events -> Users \cup {NoOne}]]
        /\ mutex \in [Contexts -> Threads \cup {NoOne}]
    BY DEF Init
  <2>3. interest \in [Fds -> Watches] /\ pc \in [Threads -> PCs]
    BY DEF Init, Unwatched, PCs, Watches
  <2>4. call \in [Threads -> Calls]
    BY DEF Init, NoCall, Calls
  <2>5. todo \in [Threads -> Todos]
    BY DEF Init, Todos
  <2> QED
    BY <2>1, <2>2, <2>3, <2>4, <2>5 DEF Types
<1>2. CallInv /\ TableInv /\ InterestInv
  BY DEF Init, CallInv, TableInv, InterestInv, CtxPCs, HoldPCs, Threads
<1> QED
  BY <1>1, <1>2 DEF TypeInv

\* What a thread in CtxPCs knows of its context.
LEMMA CtxFacts ==
    ASSUME TypeInv, NEW t \in Threads, pc[t] \in CtxPCs
    PROVE  /\ call[t].fd \in Fds /\ Ctx(t) \in Contexts
           /\ Ctx(t) \in {call[t].fd} \X (1 .. MaxContexts)
           /\ Ctx(t)[1] = call[t].fd
           /\ event[Ctx(t)] \subseteq Events /\ call[t].bits \subseteq Events
BY DEF TypeInv, Types, CallInv, Ctx, Contexts, Calls

\* epoll goes on watching a context of the descriptor, or nothing.
LEMMA WatchFacts ==
    ASSUME TypeInv, NEW f \in Fds, NEW x \in {f} \X (1 .. MaxContexts), NEW bits \in SUBSET Events,
           Watch(f, x, bits)
    PROVE  /\ interest' \in [Fds -> Watches] /\ InterestInv'
           /\ interest'[f] = IF bits = {} THEN Unwatched ELSE [bits |-> bits, ctx |-> x]
           /\ \A g \in Fds : g # f => interest'[g] = interest[g]
<1>1. x \in Contexts
  BY DEF Contexts
<1>2. Unwatched \in Watches /\ [bits |-> bits, ctx |-> x] \in Watches
  BY <1>1 DEF Watches, Unwatched
<1>3. interest \in [Fds -> Watches]
  BY DEF TypeInv, Types
<1>4. interest' = [interest EXCEPT ![f] = IF bits = {} THEN Unwatched ELSE [bits |-> bits, ctx |-> x]]
  BY DEF Watch
<1>5. InterestInv'
  BY <1>3, <1>4 DEF InterestInv, TypeInv
<1> QED
  BY <1>2, <1>3, <1>4, <1>5

\* A thread without a call.
LEMMA CallFacts == NoCall \in Calls
BY DEF NoCall, Calls

\* Every step of the scheduler keeps the types.
LEMMA NextType == TypeInv /\ [Next]_vars => TypeInv'
<1> SUFFICES ASSUME TypeInv, [Next]_vars PROVE TypeInv'
  OBVIOUS
<1> USE EventAssumption DEF TypeInv, At, Goto, tableVars, contextVars, threadVars
<1>1. ASSUME NEW u \in Users, NEW fd \in Fds, NEW ev \in Events, AddFind(u, fd, ev) PROVE TypeInv'
  <2>1. CASE size > fd
    <3>1. <<fd, m_fd_contexts[fd]>> \in Contexts
      BY <2>1 DEF Types, TableInv, Contexts
    <3> DEFINE c == [NoCall EXCEPT !.fd = fd, !.ev = ev, !.ctx = <<fd, m_fd_contexts[fd]>>]
    <3>2. c \in Calls /\ c.fd = fd /\ c.ev = ev /\ c.ctx = <<fd, m_fd_contexts[fd]>>
      BY <3>1 DEF NoCall, Calls
    <3>3. call' = [call EXCEPT ![u] = c] /\ pc' = [pc EXCEPT ![u] = "register"]
      BY <1>1, <2>1 DEF AddFind, Lookup
    <3> HIDE DEF c
    <3>4. Types'
      BY <1>1, <3>2, <3>3 DEF AddFind, Types, PCs, Threads
    <3>5. CallInv'
      <4>1. c.ctx \in {fd} \X (1 .. MaxContexts) /\ todo' = todo /\ u \in Threads
        BY <1>1, <3>1, <3>2 DEF AddFind, Contexts, Threads
      <4> QED
        BY <3>2, <3>3, <4>1, ZenonT(60) DEF Types, CallInv, CtxPCs, HoldPCs
    <3> QED
      BY <1>1, <3>4, <3>5 DEF AddFind, TableInv, InterestInv
  <2>2. CASE ~ (size > fd)
    <3> DEFINE c == [NoCall EXCEPT !.fd = fd, !.ev = ev]
    <3>1. c \in Calls /\ c.fd = fd /\ c.ev = ev
      BY DEF NoCall, Calls
    <3>2. c \in Calls /\ c.fd = fd /\ c.ev = ev /\ fd >= 2
      BY <2>2, <3>1 DEF TableInv, Types
    <3>3. call' = [call EXCEPT ![u] = c] /\ pc' = [pc EXCEPT ![u] = "grow"]
      BY <1>1, <2>2 DEF AddFind
    <3> HIDE DEF c
    <3>4. Types'
      BY <1>1, <3>2, <3>3 DEF AddFind, Types, PCs, Threads
    <3>5. CallInv'
      BY <1>1, <3>2, <3>3 DEF AddFind, Types, CallInv, CtxPCs, HoldPCs, Threads
    <3> QED
      BY <1>1, <3>4, <3>5 DEF AddFind, TableInv, InterestInv
  <2> QED
    BY <2>1, <2>2
<1>2. ASSUME NEW u \in Users, AddGrow(u) PROVE TypeInv'
  <2> DEFINE fd == call[u].fd
             n  == (fd * 3) \div 2
  <2>1. fd \in Fds /\ fd \in Nat /\ n \in Nat /\ n > fd /\ n >= 2
    BY <1>2 DEF AddGrow, CallInv, Threads
  <2>2. \A f \in Fds : Resized(n, f) \in 0 .. MaxContexts /\ (n > f => Resized(n, f) # 0)
    BY <1>2, <2>1 DEF AddGrow, Resized, Types
  <2>3. <<fd, Resized(n, fd)>> \in Contexts /\ <<fd, Resized(n, fd)>> \in {fd} \X (1 .. MaxContexts)
    BY <2>1, <2>2 DEF Contexts
  <2>4. /\ size' = n
        /\ m_fd_contexts' = [f \in Fds |-> Resized(n, f)]
        /\ made' = [f \in Fds |-> IF Resized(n, f) > made[f] THEN Resized(n, f) ELSE made[f]]
        /\ call' = [call EXCEPT ![u].ctx = <<fd, Resized(n, fd)>>]
        /\ pc' = [pc EXCEPT ![u] = "register"]
        /\ UNCHANGED <<contextVars, mutex, m_waitting_events_count, interest, todo, adds, fault>>
    BY <1>2 DEF AddGrow
  <2> DEFINE r == <<fd, Resized(n, fd)>>
             c == [call[u] EXCEPT !.ctx = r]
  <2> HIDE DEF n
  <2>10. call' = [call EXCEPT ![u] = c] /\ call \in [Threads -> Calls] /\ u \in Threads
    BY <2>4 DEF Types, Threads
  <2>11. r \in Contexts
    BY <2>3
  <2> HIDE DEF r
  <2>12. c \in Calls /\ c.fd = call[u].fd /\ c.ev = call[u].ev /\ c.ctx = r
    BY <2>10, <2>11 DEF Calls
  <2>5. call' \in [Threads -> Calls] /\ call'[u] \in Calls /\ call'[u].fd = fd /\ call'[u].ev = call[u].ev
        /\ call'[u].ctx = <<fd, Resized(n, fd)>>
    <3> HIDE DEF c
    <3>1. call'[u] = c /\ call' \in [Threads -> Calls]
      BY <2>10, <2>12
    <3> QED
      BY <2>12, <3>1 DEF r
  <2>6. size' \in Nat /\ m_fd_contexts' \in [Fds -> 0 .. MaxContexts] /\ made' \in [Fds -> 0 .. MaxContexts]
    BY <2>1, <2>2, <2>4 DEF Types
  <2>7. Types'
    BY <2>4, <2>5, <2>6 DEF Types, PCs
  <2>8. CallInv'
    BY <1>2, <2>1, <2>3, <2>4, <2>5, SMTT(30) DEF Types, CallInv, CtxPCs, HoldPCs, AddGrow
  <2>9. TableInv' /\ InterestInv'
    BY <2>1, <2>2, <2>4 DEF TableInv, InterestInv
  <2> QED
    BY <2>7, <2>8, <2>9
<1>3. ASSUME NEW u \in Users, AddRegister(u) PROVE TypeInv'
  <2> DEFINE x == Ctx(u)
             e == call[u].ev
  <2>1. u \in Threads /\ pc[u] = "register" /\ pc[u] \in CtxPCs /\ e \in Events
    BY <1>3 DEF AddRegister, Threads, CtxPCs, CallInv
  <2>2. call[u].fd \in Fds /\ x \in Contexts /\ x \in {call[u].fd} \X (1 .. MaxContexts) /\ event[x] \cup {e} \in SUBSET Events
    BY <2>1, CtxFacts
  <2>3. interest' \in [Fds -> Watches] /\ InterestInv'
    BY <1>3, <2>2, WatchFacts DEF AddRegister
  <2>4. /\ event' = [event EXCEPT ![x] = @ \cup {e}] /\ waiter' = [waiter EXCEPT ![x][e] = u]
        /\ fault' \in BOOLEAN /\ m_waitting_events_count' = m_waitting_events_count + 1
        /\ pc' = [pc EXCEPT ![u] = "parked"] /\ call' = [call EXCEPT ![u] = NoCall]
        /\ UNCHANGED <<tableVars, mutex, todo, adds>>
    BY <1>3 DEF AddRegister
  <2> HIDE DEF x, e
  <2>5. event' \in [Contexts -> SUBSET Events] /\ waiter' \in [Contexts -> [Events -> Users \cup {NoOne}]]
    BY <2>1, <2>2, <2>4 DEF Types
  <2>6. Types'
    <3>1. fault' \in BOOLEAN
      BY <2>4
    <3>2. call' \in [Threads -> Calls] /\ pc' \in [Threads -> PCs]
      BY <2>4, CallFacts DEF Types, PCs
    <3>3. m_waitting_events_count' \in Int
      BY <2>4 DEF Types
    <3> QED
      BY <2>3, <2>4, <2>5, <3>1, <3>2, <3>3 DEF Types
  <2>7. CallInv'
    BY <2>1, <2>4, <2>5 DEF Types, CallInv, CtxPCs, HoldPCs
  <2> QED
    BY <2>3, <2>4, <2>6, <2>7 DEF TableInv
<1>4. ASSUME NEW u \in Users, AddRefused(u) PROVE TypeInv'
  <2>1. Types'
    BY <1>4, CallFacts DEF AddRefused, Types, PCs, Threads
  <2> QED
    BY <1>4, <2>1 DEF AddRefused, Types, CallInv, CtxPCs, HoldPCs, Threads, TableInv, InterestInv
<1>5. ASSUME NEW u \in Users, NEW op \in Ops, NEW fd \in Fds, NEW ev \in Events, Find(u, op, fd, ev)
      PROVE TypeInv'
  <2>1. <<fd, m_fd_contexts[fd]>> \in Contexts
    BY <1>5 DEF Types, TableInv, Contexts, Find
  <2> DEFINE c == [NoCall EXCEPT !.fd = fd, !.ev = ev, !.ctx = <<fd, m_fd_contexts[fd]>>]
  <2>2. c \in Calls /\ c.fd = fd /\ c.ev = ev /\ c.ctx = <<fd, m_fd_contexts[fd]>>
    BY <2>1 DEF NoCall, Calls
  <2>3. call' = [call EXCEPT ![u] = c] /\ pc' = [pc EXCEPT ![u] = op]
    BY <1>5 DEF Find, Lookup
  <2> HIDE DEF c
  <2>4. Types'
    BY <1>5, <2>2, <2>3 DEF Find, Types, PCs, Threads
  <2>5. CallInv'
    <3>1. c.ctx \in {fd} \X (1 .. MaxContexts) /\ todo' = todo /\ u \in Threads
      BY <1>5, <2>1, <2>2 DEF Find, Contexts, Threads
    <3> QED
      BY <2>2, <2>3, <3>1, ZenonT(60) DEF Types, CallInv, CtxPCs, HoldPCs
  <2> QED
    BY <1>5, <2>4, <2>5 DEF Find, TableInv, InterestInv
<1>6. ASSUME NEW u \in Users, Del(u) PROVE TypeInv'
  <2> DEFINE x == Ctx(u)
             e == call[u].ev
             w == waiter[x][e]
  <2>1. u \in Threads /\ pc[u] = "del" /\ pc[u] \in CtxPCs /\ e \in Events
    BY <1>6 DEF Del, Threads, CtxPCs, CallInv
  <2>2. call[u].fd \in Fds /\ x \in Contexts /\ x \in {call[u].fd} \X (1 .. MaxContexts) /\ event[x] \ {e} \in SUBSET Events
    BY <2>1, CtxFacts
  <2>3. interest' \in [Fds -> Watches] /\ InterestInv'
    BY <1>6, <2>2, WatchFacts DEF Del
  <2>4. /\ event' = [event EXCEPT ![x] = @ \ {e}] /\ waiter' = [waiter EXCEPT ![x][e] = NoOne]
        /\ m_waitting_events_count' = m_waitting_events_count - 1
        /\ pc' = [pc EXCEPT ![u] = "run", ![w] = "dropped"] /\ call' = [call EXCEPT ![u] = NoCall]
        /\ UNCHANGED <<tableVars, mutex, todo, adds, fault>>
    BY <1>6 DEF Del
  <2>8. w \in Users \cup {NoOne}
    <3> HIDE DEF x, e
    <3>1. waiter[x] \in [Events -> Users \cup {NoOne}]
      BY <2>2 DEF Types
    <3> QED
      BY <2>1, <2>2, <3>1
  <2> HIDE DEF x, e, w
  <2>5. event' \in [Contexts -> SUBSET Events] /\ waiter' \in [Contexts -> [Events -> Users \cup {NoOne}]]
    BY <2>1, <2>2, <2>4 DEF Types
  <2>6. Types'
    <3>1. fault' \in BOOLEAN
      BY <2>4 DEF Types
    <3>2. call' \in [Threads -> Calls] /\ pc' \in [Threads -> PCs]
      BY <2>4, CallFacts DEF Types, PCs
    <3>3. m_waitting_events_count' \in Int
      BY <2>4 DEF Types
    <3> QED
      BY <2>3, <2>4, <2>5, <3>1, <3>2, <3>3 DEF Types
  <2>7. CallInv'
    BY <2>1, <2>4, <2>8 DEF Types, CallInv, CtxPCs, HoldPCs, Threads
  <2> QED
    BY <2>3, <2>4, <2>6, <2>7 DEF TableInv
<1>7. ASSUME NEW u \in Users, Cancel(u) PROVE TypeInv'
  <2> DEFINE x == Ctx(u)
             e == call[u].ev
  <2>1. u \in Threads /\ pc[u] = "cancel" /\ pc[u] \in CtxPCs /\ e \in Events
    BY <1>7 DEF Cancel, Threads, CtxPCs, CallInv
  <2>2. call[u].fd \in Fds /\ x \in Contexts /\ x \in {call[u].fd} \X (1 .. MaxContexts) /\ event[x] \ {e} \in SUBSET Events
    BY <2>1, CtxFacts
  <2>3. interest' \in [Fds -> Watches] /\ InterestInv'
    BY <1>7, <2>2, WatchFacts DEF Cancel
  <2>4. /\ mutex' = [mutex EXCEPT ![x] = u] /\ todo' = [todo EXCEPT ![u] = <<e>>]
        /\ pc' = [pc EXCEPT ![u] = "trigger"]
        /\ UNCHANGED <<tableVars, contextVars, m_waitting_events_count, call, adds, fault>>
    BY <1>7 DEF Cancel
  <2>5. <<e>> \in Todos /\ <<e>> # <<>>
    BY <2>1 DEF Todos
  <2> HIDE DEF x, e
  <2>6. Types'
    BY <2>1, <2>2, <2>3, <2>4, <2>5 DEF Types, PCs
  <2>7. CallInv'
    BY <2>1, <2>4, <2>5 DEF Types, CallInv, CtxPCs, HoldPCs
  <2> QED
    BY <2>3, <2>4, <2>6, <2>7 DEF TableInv
<1>8. ASSUME NEW u \in Users, CancelAll(u) PROVE TypeInv'
  <2> DEFINE x == Ctx(u)
  <2>1. u \in Threads /\ pc[u] = "cancelAll" /\ pc[u] \in CtxPCs
    BY <1>8 DEF CancelAll, Threads, CtxPCs
  <2>2. call[u].fd \in Fds /\ x \in Contexts /\ x \in {call[u].fd} \X (1 .. MaxContexts) /\ event[x] \subseteq Events
    BY <2>1, CtxFacts
  <2>3. interest' \in [Fds -> Watches] /\ InterestInv'
    BY <1>8, <2>2, WatchFacts DEF CancelAll
  <2>4. /\ mutex' = [mutex EXCEPT ![x] = u] /\ todo' = [todo EXCEPT ![u] = InOrder(event[x])]
        /\ pc' = [pc EXCEPT ![u] = "trigger"]
        /\ UNCHANGED <<tableVars, contextVars, m_waitting_events_count, call, adds, fault>>
    BY <1>8 DEF CancelAll
  <2>5. InOrder(event[x]) \in Todos /\ InOrder(event[x]) # <<>>
    BY <1>8, <2>2, InOrderFacts DEF CancelAll
  <2> HIDE DEF x
  <2>6. Types'
    BY <2>1, <2>2, <2>3, <2>4, <2>5 DEF Types, PCs
  <2>7. CallInv'
    BY <2>1, <2>4, <2>5 DEF Types, CallInv, CtxPCs, HoldPCs
  <2> QED
    BY <2>3, <2>4, <2>6, <2>7 DEF TableInv
<1>9. ASSUME NEW u \in Users, CancelRefused(u) PROVE TypeInv'
  <2>1. Types'
    BY <1>9, CallFacts DEF CancelRefused, Types, PCs, Threads
  <2> QED
    BY <1>9, <2>1 DEF CancelRefused, Types, CallInv, CtxPCs, HoldPCs, Threads, TableInv, InterestInv
<1>10. ASSUME NEW p \in Pollers, NEW fd \in Fds, NEW bits \in SUBSET Events, NEW err \in BOOLEAN,
              Report(p, fd, bits, err)
       PROVE TypeInv'
  <2> DEFINE x == interest[fd].ctx
             c == [NoCall EXCEPT !.fd = fd, !.ctx = x, !.bits = bits, !.err = err]
  <2>1. x \in {fd} \X (1 .. MaxContexts) /\ x \in Contexts
    BY <1>10 DEF Report, InterestInv, Contexts
  <2>2. c \in Calls /\ c.fd = fd /\ c.ctx = x
    BY <2>1 DEF NoCall, Calls
  <2>3. call' = [call EXCEPT ![p] = c] /\ pc' = [pc EXCEPT ![p] = "handle"]
    BY <1>10 DEF Report
  <2> HIDE DEF c, x
  <2>4. Types'
    BY <1>10, <2>2, <2>3 DEF Report, Types, PCs, Threads
  <2>5. CallInv'
    BY <1>10, <2>1, <2>2, <2>3, ZenonT(60) DEF Report, Types, CallInv, CtxPCs, HoldPCs, Threads
  <2> QED
    BY <1>10, <2>4, <2>5 DEF Report, TableInv, InterestInv
<1>11. ASSUME NEW p \in Pollers, Handle(p) PROVE TypeInv'
  <2> DEFINE x == Ctx(p)
  <2>1. p \in Threads /\ pc[p] = "handle" /\ pc[p] \in CtxPCs
    BY <1>11 DEF Handle, Threads, CtxPCs
  <2>2. /\ call[p].fd \in Fds /\ x \in Contexts /\ x \in {call[p].fd} \X (1 .. MaxContexts)
        /\ event[x] \subseteq Events /\ Real(p) \subseteq Events
    BY <2>1, CtxFacts DEF Real
  <2>8. event[x] \ Real(p) \in SUBSET Events
    BY <2>2
  <2>3. interest' \in [Fds -> Watches] /\ InterestInv'
    BY <1>11, <2>2, <2>8, WatchFacts DEF Handle
  <2>4. /\ mutex' = [mutex EXCEPT ![x] = p] /\ todo' = [todo EXCEPT ![p] = InOrder(Real(p))]
        /\ pc' = [pc EXCEPT ![p] = "trigger"]
        /\ UNCHANGED <<tableVars, contextVars, m_waitting_events_count, call, adds, fault>>
    BY <1>11 DEF Handle
  <2>5. InOrder(Real(p)) \in Todos /\ InOrder(Real(p)) # <<>>
    BY <1>11, <2>2, InOrderFacts DEF Handle
  <2> HIDE DEF x
  <2>6. Types'
    BY <2>1, <2>2, <2>3, <2>4, <2>5 DEF Types, PCs
  <2>7. CallInv'
    BY <2>1, <2>4, <2>5 DEF Types, CallInv, CtxPCs, HoldPCs
  <2> QED
    BY <2>3, <2>4, <2>6, <2>7 DEF TableInv
<1>12. ASSUME NEW p \in Pollers, Skip(p) PROVE TypeInv'
  <2>1. Types'
    BY <1>12, CallFacts DEF Skip, Types, PCs, Threads
  <2> QED
    BY <1>12, <2>1 DEF Skip, Types, CallInv, CtxPCs, HoldPCs, Threads, TableInv, InterestInv
<1>13. ASSUME NEW t \in Threads, Trigger(t) PROVE TypeInv'
  <2> DEFINE x == Ctx(t)
             e == Head(todo[t])
             w == waiter[x][e]
  <2>1. pc[t] = "trigger" /\ pc[t] \in CtxPCs
    BY <1>13 DEF Trigger, CtxPCs
  <2>2. x \in Contexts /\ event[x] \subseteq Events /\ e \in Events
    BY <1>13, <2>1, CtxFacts DEF Trigger
  <2>4. /\ event' = [event EXCEPT ![x] = @ \ {e}] /\ waiter' = [waiter EXCEPT ![x][e] = NoOne]
        /\ pc' = [pc EXCEPT ![t] = "count", ![w] = "run"]
        /\ UNCHANGED <<tableVars, mutex, m_waitting_events_count, interest, call, todo, adds, fault>>
    BY <1>13 DEF Trigger
  <2>8. w \in Users \cup {NoOne}
    <3> HIDE DEF x, e
    <3>1. waiter[x] \in [Events -> Users \cup {NoOne}]
      BY <2>2 DEF Types
    <3> QED
      BY <2>1, <2>2, <3>1
  <2> HIDE DEF x, e, w
  <2>5. event' \in [Contexts -> SUBSET Events] /\ waiter' \in [Contexts -> [Events -> Users \cup {NoOne}]]
    BY <2>2, <2>4 DEF Types
  <2>6. Types'
    BY <2>4, <2>5 DEF Types, PCs
  <2>7. CallInv'
    BY <2>1, <2>4, <2>8 DEF Types, CallInv, CtxPCs, HoldPCs, Threads
  <2> QED
    BY <2>4, <2>6, <2>7 DEF TableInv, InterestInv
<1>14. ASSUME NEW t \in Threads, TriggerFails(t) PROVE TypeInv'
  BY <1>14 DEF TriggerFails, Types, CallInv, TableInv, InterestInv
<1>15. ASSUME NEW t \in Threads, Count(t) PROVE TypeInv'
  <2>1. pc[t] = "count" /\ pc[t] \in CtxPCs /\ Ctx(t) \in Contexts
    BY <1>15, CtxFacts DEF Count, CtxPCs
  <2>2. todo[t] \in Todos /\ todo[t] # <<>> /\ Tail(todo[t]) \in Todos /\ (Len(todo[t]) > 1 => Tail(todo[t]) # <<>>)
    BY <2>1, TailFacts DEF Types, CallInv, HoldPCs
  <2>3. m_waitting_events_count' = m_waitting_events_count - 1 /\ todo' = [todo EXCEPT ![t] = Tail(@)]
    BY <1>15 DEF Count
  <2>4. m_waitting_events_count' \in Int /\ todo' \in [Threads -> Todos] /\ todo'[t] = Tail(todo[t])
    BY <2>2, <2>3 DEF Types
  <2>5. CASE Len(todo[t]) > 1
    <3>1. pc' = [pc EXCEPT ![t] = "trigger"] /\ UNCHANGED <<tableVars, contextVars, interest, adds, fault, mutex, call>>
      BY <1>15, <2>5 DEF Count
    <3>2. Types'
      BY <2>4, <3>1 DEF Types, PCs
    <3>3. CallInv'
      BY <2>1, <2>2, <2>3, <2>4, <2>5, <3>1 DEF Types, CallInv, CtxPCs, HoldPCs
    <3> QED
      BY <3>1, <3>2, <3>3 DEF TableInv, InterestInv
  <2>6. CASE ~ (Len(todo[t]) > 1)
    <3>1. /\ pc' = [pc EXCEPT ![t] = Home(t)] /\ UNCHANGED <<tableVars, contextVars, interest, adds, fault>>
          /\ mutex' = [mutex EXCEPT ![Ctx(t)] = NoOne] /\ call' = [call EXCEPT ![t] = NoCall]
      BY <1>15, <2>6 DEF Count
    <3>2. Types'
      BY <2>1, <2>4, <3>1, CallFacts DEF Types, PCs, Home
    <3>3. CallInv'
      BY <2>1, <2>3, <3>1 DEF Types, CallInv, CtxPCs, HoldPCs, Home, Threads
    <3> QED
      BY <3>1, <3>2, <3>3 DEF TableInv, InterestInv
  <2> QED
    BY <2>5, <2>6
<1>20. CASE UNCHANGED vars
  BY <1>20 DEF vars, Types, CallInv, TableInv, InterestInv
<1> QED
  BY <1>1, <1>2, <1>3, <1>4, <1>5, <1>6, <1>7, <1>8, <1>9, <1>10, <1>11, <1>12, <1>13, <1>14, <1>15, <1>20
  DEF Next, UserStep, PollerStep, TriggerStep

-----------------------------------------------------------------------------
(* Registered events and their fibers.                                     *)

\* Steps that neither register nor trigger anything.
Quiet ==
    /\ UNCHANGED <<event, waiter, m_waitting_events_count>>
    /\ \A t \in Threads : pc[t] \in {"parked", "count"} \/ pc'[t] \in {"parked", "count"} => pc'[t] = pc[t]

LEMMA Steps ==
    ASSUME TypeInv, [Next]_vars
    PROVE  \/ Quiet
           \/ \E u \in Users : AddRegister(u) \/ Del(u)
           \/ \E t \in Threads : Trigger(t) \/ Count(t)
<1> USE DEF TypeInv, At, Goto, tableVars, contextVars, threadVars
<1>0. pc \in [Threads -> PCs] /\ Users \subseteq Threads /\ Pollers \subseteq Threads
  BY DEF Types, Threads
<1>1. ASSUME NEW u \in Users, NEW fd \in Fds, NEW ev \in Events, AddFind(u, fd, ev) PROVE Quiet
  <2>1. pc[u] = "run" /\ (pc' = [pc EXCEPT ![u] = "register"] \/ pc' = [pc EXCEPT ![u] = "grow"])
    BY <1>1 DEF AddFind
  <2> QED
    BY <1>0, <1>1, <2>1 DEF AddFind, Quiet
<1>2. ASSUME NEW u \in Users, AddGrow(u) PROVE Quiet
  BY <1>0, <1>2 DEF AddGrow, Quiet
<1>3. ASSUME NEW u \in Users, AddRefused(u) PROVE Quiet
  BY <1>0, <1>3 DEF AddRefused, Quiet
<1>4. ASSUME NEW u \in Users, NEW op \in Ops, NEW fd \in Fds, NEW ev \in Events, Find(u, op, fd, ev) PROVE Quiet
  BY <1>0, <1>4, EventAssumption DEF Find, Quiet
<1>5. ASSUME NEW u \in Users, Cancel(u) \/ CancelAll(u) PROVE Quiet
  BY <1>0, <1>5 DEF Cancel, CancelAll, Quiet
<1>6. ASSUME NEW u \in Users, CancelRefused(u) PROVE Quiet
  BY <1>0, <1>6 DEF CancelRefused, Quiet
<1>7. ASSUME NEW p \in Pollers, NEW fd \in Fds, NEW bits \in SUBSET Events, NEW err \in BOOLEAN,
             Report(p, fd, bits, err)
      PROVE Quiet
  BY <1>0, <1>7 DEF Report, Quiet
<1>8. ASSUME NEW p \in Pollers, Handle(p) \/ Skip(p) PROVE Quiet
  BY <1>0, <1>8 DEF Handle, Skip, Quiet
<1>9. ASSUME NEW t \in Threads, TriggerFails(t) PROVE Quiet
  BY <1>0, <1>9 DEF TriggerFails, Quiet
<1>10. CASE UNCHANGED vars
  BY <1>10 DEF vars, Quiet
<1> QED
  BY <1>1, <1>2, <1>3, <1>4, <1>5, <1>6, <1>7, <1>8, <1>9, <1>10 DEF Next, UserStep, PollerStep, TriggerStep

\* What AddRegister() does to the events.
LEMMA RegisterFacts ==
    ASSUME TypeInv, NEW u \in Users, AddRegister(u)
    PROVE  \E x \in Contexts, e \in Events :
             /\ x = Ctx(u) /\ e = call[u].ev /\ e \notin event[x]
             /\ event' = [event EXCEPT ![x] = @ \cup {e}] /\ waiter' = [waiter EXCEPT ![x][e] = u]
             /\ pc' = [pc EXCEPT ![u] = "parked"] /\ pc[u] = "register"
             /\ m_waitting_events_count' = m_waitting_events_count + 1
             /\ fault' = (waiter[x][e] # NoOne)
<1>1. u \in Threads /\ pc[u] = "register" /\ pc[u] \in CtxPCs /\ call[u].ev \in Events
  BY DEF AddRegister, Threads, CtxPCs, TypeInv, CallInv, At
<1>2. Ctx(u) \in Contexts
  BY <1>1, CtxFacts
<1> QED
  BY <1>1, <1>2 DEF AddRegister, Goto

\* Del() and Trigger() take one event from a context; its fiber goes on or is lost.
Taken(t, x, e, home, away) ==
    /\ e \in event[x]
    /\ event' = [event EXCEPT ![x] = @ \ {e}] /\ waiter' = [waiter EXCEPT ![x][e] = NoOne]
    /\ pc' = [pc EXCEPT ![t] = home, ![waiter[x][e]] = away]

LEMMA DelFacts ==
    ASSUME TypeInv, NEW u \in Users, Del(u)
    PROVE  \E x \in Contexts, e \in Events :
             /\ x = Ctx(u) /\ Taken(u, x, e, "run", "dropped") /\ pc[u] = "del"
             /\ m_waitting_events_count' = m_waitting_events_count - 1
<1>1. u \in Threads /\ pc[u] = "del" /\ pc[u] \in CtxPCs /\ call[u].ev \in Events
  BY DEF Del, Threads, CtxPCs, TypeInv, CallInv, At
<1>2. Ctx(u) \in Contexts
  BY <1>1, CtxFacts
<1> QED
  BY <1>1, <1>2 DEF Del, Taken

LEMMA TriggerFacts ==
    ASSUME TypeInv, NEW t \in Threads, Trigger(t)
    PROVE  \E x \in Contexts, e \in Events :
             /\ x = Ctx(t) /\ e = Head(todo[t]) /\ Taken(t, x, e, "count", "run") /\ pc[t] = "trigger"
             /\ m_waitting_events_count' = m_waitting_events_count
<1>1. pc[t] = "trigger" /\ pc[t] \in CtxPCs
  BY DEF Trigger, CtxPCs, At
<1>2. Ctx(t) \in Contexts /\ event[Ctx(t)] \subseteq Events
  BY <1>1, CtxFacts
<1> QED
  BY <1>1, <1>2 DEF Trigger, Taken

\* Taking an event keeps the invariant, whatever becomes of the fiber.
LEMMA TakenStored ==
    ASSUME TypeInv, StoredInv, NEW t \in Threads, NEW x \in Contexts, NEW e \in Events,
           NEW home, NEW away, home # "parked", away # "parked", pc[t] # "parked",
           Taken(t, x, e, home, away)
    PROVE  /\ StoredInv' /\ waiter[x][e] \in Users /\ pc[waiter[x][e]] = "parked" /\ waiter[x][e] # t
<1> DEFINE w == waiter[x][e]
<1>0. /\ pc \in [Threads -> PCs] /\ waiter \in [Contexts -> [Events -> Users \cup {NoOne}]]
      /\ event \in [Contexts -> SUBSET Events] /\ Users \subseteq Threads /\ NoOne \notin Users
  BY EventAssumption DEF TypeInv, Types, Threads
<1>1. w \in Users /\ pc[w] = "parked" /\ w # t
  BY <1>0 DEF StoredInv, Taken
<1>2. event' = [event EXCEPT ![x] = @ \ {e}] /\ waiter' = [waiter EXCEPT ![x][e] = NoOne]
  BY DEF Taken
<1>3. pc' = [pc EXCEPT ![t] = home, ![w] = away]
  BY DEF Taken
<1>4. \A s \in Threads : pc'[s] = "parked" <=> pc[s] = "parked" /\ s # w
  BY <1>0, <1>1, <1>3
<1>5. \A y \in Contexts, d \in Events : waiter'[y][d] = IF y = x /\ d = e THEN NoOne ELSE waiter[y][d]
  BY <1>0, <1>2
<1>6. \A y \in Contexts, d \in Events : d \in event'[y] <=> d \in event[y] /\ ~ (y = x /\ d = e)
  BY <1>0, <1>2
<1>7. \A y \in Contexts, d \in Events : waiter[y][d] = w => y = x /\ d = e
  BY <1>0, <1>1 DEF StoredInv
<1>8. \A y \in Contexts, d \in Events : waiter[y][d] \in Users \cup {NoOne}
  BY <1>0
<1> HIDE DEF w
<1>9. \A y \in Contexts, d \in Events : d \in event'[y] <=> waiter'[y][d] # NoOne
  BY <1>5, <1>6 DEF StoredInv
<1>10. \A y \in Contexts, d \in Events : waiter'[y][d] # NoOne => pc'[waiter'[y][d]] = "parked"
  BY <1>0, <1>4, <1>5, <1>7, <1>8 DEF StoredInv
<1>11. \A y, z \in Contexts, c, d \in Events :
          waiter'[y][c] # NoOne /\ waiter'[y][c] = waiter'[z][d] => y = z /\ c = d
  BY <1>5 DEF StoredInv
<1>12. \A u \in Users : pc'[u] = "parked" => \E y \in Contexts, d \in Events : waiter'[y][d] = u
  BY <1>0, <1>4, <1>5, <1>7, SMTT(30) DEF StoredInv, w
<1>13. StoredInv'
  BY <1>9, <1>10, <1>11, <1>12 DEF StoredInv
<1> QED
  BY <1>1, <1>13 DEF w

LEMMA NextStored == TypeInv /\ StoredInv /\ [Next]_vars => StoredInv'
<1> SUFFICES ASSUME TypeInv, StoredInv, [Next]_vars PROVE StoredInv'
  OBVIOUS
<1>0. /\ pc \in [Threads -> PCs] /\ waiter \in [Contexts -> [Events -> Users \cup {NoOne}]]
      /\ event \in [Contexts -> SUBSET Events] /\ Users \subseteq Threads /\ NoOne \notin Users
  BY EventAssumption DEF TypeInv, Types, Threads
<1>1. CASE Quiet
  <2>1. \A t \in Threads : pc'[t] = "parked" <=> pc[t] = "parked"
    BY <1>1 DEF Quiet
  <2>2. event' = event /\ waiter' = waiter
    BY <1>1 DEF Quiet
  <2>3. \A y \in Contexts, d \in Events : waiter[y][d] \in Users \cup {NoOne}
    BY <1>0
  <2> QED
    BY <1>0, <2>1, <2>2, <2>3 DEF StoredInv
<1>2. ASSUME NEW u \in Users, AddRegister(u) PROVE StoredInv'
  <2>1. PICK x \in Contexts, e \in Events :
             /\ e \notin event[x]
             /\ event' = [event EXCEPT ![x] = @ \cup {e}] /\ waiter' = [waiter EXCEPT ![x][e] = u]
             /\ pc' = [pc EXCEPT ![u] = "parked"] /\ pc[u] = "register"
    BY <1>2, RegisterFacts
  <2>2. \A s \in Threads : pc'[s] = "parked" <=> pc[s] = "parked" \/ s = u
    BY <1>0, <2>1
  <2>3. \A y \in Contexts, d \in Events : waiter'[y][d] = IF y = x /\ d = e THEN u ELSE waiter[y][d]
    BY <1>0, <2>1
  <2>4. \A y \in Contexts, d \in Events : d \in event'[y] <=> d \in event[y] \/ (y = x /\ d = e)
    BY <1>0, <2>1
  <2>5. \A y \in Contexts, d \in Events : waiter[y][d] \in Users \cup {NoOne} /\ waiter[y][d] # u
    BY <1>0, <2>1 DEF StoredInv
  <2>6. waiter[x][e] = NoOne
    BY <2>1 DEF StoredInv
  <2>7. \A y \in Contexts, d \in Events : d \in event'[y] <=> waiter'[y][d] # NoOne
    BY <1>0, <2>3, <2>4 DEF StoredInv
  <2>8. \A y \in Contexts, d \in Events : waiter'[y][d] # NoOne => pc'[waiter'[y][d]] = "parked"
    BY <1>0, <2>2, <2>3, <2>5 DEF StoredInv
  <2>9. \A y, z \in Contexts, c, d \in Events :
          waiter'[y][c] # NoOne /\ waiter'[y][c] = waiter'[z][d] => y = z /\ c = d
    BY <2>3, <2>5 DEF StoredInv
  <2>10. \A v \in Users : pc'[v] = "parked" => \E y \in Contexts, d \in Events : waiter'[y][d] = v
    <3>1. waiter'[x][e] = u
      BY <2>3
    <3>2. ASSUME NEW v \in Users, v # u, pc'[v] = "parked"
          PROVE  \E y \in Contexts, d \in Events : waiter'[y][d] = v
      <4>1. PICK y \in Contexts, d \in Events : waiter[y][d] = v
        BY <1>0, <2>2, <3>2 DEF StoredInv
      <4>2. ~ (y = x /\ d = e)
        BY <1>0, <2>6, <4>1
      <4> QED
        BY <2>3, <4>1, <4>2
    <3> QED
      BY <3>1, <3>2
  <2> QED
    BY <2>7, <2>8, <2>9, <2>10 DEF StoredInv
<1>3. ASSUME NEW u \in Users, Del(u) PROVE StoredInv'
  <2>1. PICK x \in Contexts, e \in Events : Taken(u, x, e, "run", "dropped") /\ pc[u] = "del"
    BY <1>3, DelFacts
  <2> QED
    BY <1>0, <2>1, TakenStored
<1>4. ASSUME NEW t \in Threads, Trigger(t) PROVE StoredInv'
  <2>1. PICK x \in Contexts, e \in Events : Taken(t, x, e, "count", "run") /\ pc[t] = "trigger"
    BY <1>4, TriggerFacts
  <2> QED
    BY <2>1, TakenStored
<1>5. ASSUME NEW t \in Threads, Count(t) PROVE StoredInv'
  <2>1. pc[t] = "count" /\ \E h \in {"trigger", "run", "wait"} : pc' = [pc EXCEPT ![t] = h]
    BY <1>5 DEF Count, At, Goto, Home
  <2>2. event' = event /\ waiter' = waiter
    BY <1>5 DEF Count, contextVars
  <2>3. \A y \in Contexts, d \in Events : waiter[y][d] \in Users \cup {NoOne}
    BY <1>0
  <2>4. \A s \in Threads : pc'[s] = "parked" <=> pc[s] = "parked"
    BY <1>0, <2>1
  <2> QED
    BY <1>0, <2>2, <2>3, <2>4 DEF StoredInv
<1> QED
  BY <1>1, <1>2, <1>3, <1>4, <1>5, Steps

\* The counter follows the events that are registered.
LEMMA NextCount == TypeInv /\ StoredInv /\ CountInv /\ [Next]_vars => CountInv'
<1> SUFFICES ASSUME TypeInv, StoredInv, CountInv, [Next]_vars PROVE CountInv'
  OBVIOUS
<1>0. /\ pc \in [Threads -> PCs] /\ waiter \in [Contexts -> [Events -> Users \cup {NoOne}]]
      /\ event \in [Contexts -> SUBSET Events] /\ Users \subseteq Threads /\ NoOne \notin Users
  BY EventAssumption DEF TypeInv, Types, Threads
<1> DEFINE R == Registered
           C == Counting
<1>1. IsFiniteSet(R) /\ IsFiniteSet(C) /\ m_waitting_events_count = Cardinality(R) + Cardinality(C)
  BY DEF CountInv
<1>2. Cardinality(R) \in Nat /\ Cardinality(C) \in Nat
  BY <1>1, FS_CardinalityType
<1>3. SUFFICES /\ IsFiniteSet(R') /\ IsFiniteSet(C')
               /\ m_waitting_events_count' = Cardinality(R') + Cardinality(C')
  BY DEF CountInv
<1>4. CASE Quiet
  <2>1. R' = R
    BY <1>4 DEF Quiet, Registered
  <2>2. C' = C
    BY <1>4 DEF Quiet, Counting
  <2>3. m_waitting_events_count' = m_waitting_events_count
    BY <1>4 DEF Quiet
  <2> QED
    BY <1>1, <2>1, <2>2, <2>3
<1>5. ASSUME NEW x \in Contexts, NEW e \in Events, e \in event[x], event' = [event EXCEPT ![x] = @ \ {e}]
      PROVE  IsFiniteSet(R') /\ Cardinality(R') = Cardinality(R) - 1
  <2>1. R' = R \ {<<x, e>>}
    <3>1. \A y \in Contexts, d \in Events : d \in event'[y] <=> d \in event[y] /\ ~ (y = x /\ d = e)
      BY <1>0, <1>5
    <3>2. \A r \in Contexts \X Events : r[1] \in Contexts /\ r[2] \in Events /\ r = <<r[1], r[2]>>
      OBVIOUS
    <3> QED
      BY <3>1, <3>2 DEF Registered
  <2>2. <<x, e>> \in R
    BY <1>5 DEF Registered
  <2> QED
    BY <1>1, <2>1, <2>2, FS_RemoveElement
<1>6. ASSUME NEW u \in Users, AddRegister(u)
      PROVE  IsFiniteSet(R') /\ IsFiniteSet(C') /\ m_waitting_events_count' = Cardinality(R') + Cardinality(C')
  <2>1. PICK x \in Contexts, e \in Events :
             /\ e \notin event[x] /\ event' = [event EXCEPT ![x] = @ \cup {e}]
             /\ pc' = [pc EXCEPT ![u] = "parked"] /\ pc[u] = "register"
             /\ m_waitting_events_count' = m_waitting_events_count + 1
    BY <1>6, RegisterFacts
  <2>2. R' = R \cup {<<x, e>>}
    <3>1. \A y \in Contexts, d \in Events : d \in event'[y] <=> d \in event[y] \/ (y = x /\ d = e)
      BY <1>0, <2>1
    <3>2. \A r \in Contexts \X Events : r[1] \in Contexts /\ r[2] \in Events /\ r = <<r[1], r[2]>>
      OBVIOUS
    <3>3. <<x, e>> \in Contexts \X Events
      OBVIOUS
    <3> QED
      BY <3>1, <3>2, <3>3 DEF Registered
  <2>3. <<x, e>> \notin R
    BY <2>1 DEF Registered
  <2>4. C' = C
    BY <1>0, <2>1 DEF Counting
  <2>5. IsFiniteSet(R') /\ Cardinality(R') = Cardinality(R) + 1
    BY <1>1, <2>2, <2>3, FS_AddElement
  <2> HIDE DEF R, C
  <2> QED
    BY <1>1, <1>2, <2>1, <2>4, <2>5
<1>7. ASSUME NEW u \in Users, Del(u)
      PROVE  IsFiniteSet(R') /\ IsFiniteSet(C') /\ m_waitting_events_count' = Cardinality(R') + Cardinality(C')
  <2>1. PICK x \in Contexts, e \in Events :
             /\ Taken(u, x, e, "run", "dropped") /\ pc[u] = "del"
             /\ m_waitting_events_count' = m_waitting_events_count - 1
    BY <1>7, DelFacts
  <2>2. waiter[x][e] \in Users /\ pc[waiter[x][e]] = "parked" /\ waiter[x][e] # u
    BY <1>0, <2>1, TakenStored
  <2>3. pc' = [pc EXCEPT ![u] = "run", ![waiter[x][e]] = "dropped"]
    BY <2>1 DEF Taken
  <2>4. C' = C
    BY <1>0, <2>1, <2>2, <2>3 DEF Counting
  <2>5. IsFiniteSet(R') /\ Cardinality(R') = Cardinality(R) - 1
    BY <2>1, <1>5 DEF Taken
  <2> HIDE DEF R, C
  <2> QED
    BY <1>1, <1>2, <2>1, <2>4, <2>5
<1>8. ASSUME NEW t \in Threads, Trigger(t)
      PROVE  IsFiniteSet(R') /\ IsFiniteSet(C') /\ m_waitting_events_count' = Cardinality(R') + Cardinality(C')
  <2>1. PICK x \in Contexts, e \in Events :
             /\ Taken(t, x, e, "count", "run") /\ pc[t] = "trigger"
             /\ m_waitting_events_count' = m_waitting_events_count
    BY <1>8, TriggerFacts
  <2>2. waiter[x][e] \in Users /\ pc[waiter[x][e]] = "parked" /\ waiter[x][e] # t
    BY <2>1, TakenStored
  <2>3. pc' = [pc EXCEPT ![t] = "count", ![waiter[x][e]] = "run"]
    BY <2>1 DEF Taken
  <2>4. C' = C \cup {t} /\ t \notin C
    BY <1>0, <2>1, <2>2, <2>3 DEF Counting
  <2>5. IsFiniteSet(R') /\ Cardinality(R') = Cardinality(R) - 1
    BY <2>1, <1>5 DEF Taken
  <2>6. IsFiniteSet(C') /\ Cardinality(C') = Cardinality(C) + 1
    BY <1>1, <2>4, FS_AddElement
  <2> HIDE DEF R, C
  <2> QED
    BY <1>1, <1>2, <2>1, <2>5, <2>6
<1>9. ASSUME NEW t \in Threads, Count(t)
      PROVE  IsFiniteSet(R') /\ IsFiniteSet(C') /\ m_waitting_events_count' = Cardinality(R') + Cardinality(C')
  <2>1. pc[t] = "count" /\ \E h \in {"trigger", "run", "wait"} : pc' = [pc EXCEPT ![t] = h]
    BY <1>9 DEF Count, At, Goto, Home
  <2>2. event' = event /\ m_waitting_events_count' = m_waitting_events_count - 1
    BY <1>9 DEF Count, contextVars
  <2>3. C' = C \ {t} /\ t \in C
    BY <1>0, <2>1 DEF Counting
  <2>4. R' = R
    BY <2>2 DEF Registered
  <2>5. IsFiniteSet(C') /\ Cardinality(C') = Cardinality(C) - 1
    BY <1>1, <2>3, FS_RemoveElement
  <2> HIDE DEF R, C
  <2> QED
    BY <1>1, <1>2, <2>2, <2>4, <2>5
<1> QED
  BY <1>4, <1>6, <1>7, <1>8, <1>9, Steps

\* The constructor: nothing is registered and nobody waits.
LEMMA InitStored == Init => StoredInv /\ CountInv
<1> SUFFICES ASSUME Init PROVE StoredInv /\ CountInv
  OBVIOUS
<1>1. StoredInv
  BY EventAssumption DEF Init, StoredInv, Threads
<1>2. Registered = {} /\ Counting = {}
  BY DEF Init, Registered, Counting
<1>3. m_waitting_events_count = 0
  BY DEF Init
<1>4. IsFiniteSet({}) /\ Cardinality({}) = 0
  BY FS_EmptySet
<1>5. CountInv
  BY <1>2, <1>3, <1>4 DEF CountInv
<1> QED
  BY <1>1, <1>5

\* The events are counted exactly and the fibers that wait are the stored ones, in
\* every behaviour.
LEMMA EventInv == Spec => [](TypeInv /\ StoredInv /\ CountInv)
<1>1. Init => TypeInv /\ StoredInv /\ CountInv
  BY InitType, InitStored
<1>2. TypeInv /\ StoredInv /\ CountInv /\ [Next]_vars => (TypeInv /\ StoredInv /\ CountInv)'
  BY NextType, NextStored, NextCount
<1> QED
  BY <1>1, <1>2, PTL DEF Spec

\* What becomes of the history: it grows until the report is handled.
LEMMA SinceSteps ==
    ASSUME TypeInv, HistoryInv, [Next]_vars
    PROVE  HistoryInv' /\ \A s \in Threads : since[s] \subseteq since'[s] \/ pc'[s] \in {"run", "wait"}
<1>0. pc \in [Threads -> PCs] /\ Users \subseteq Threads /\ Pollers \subseteq Threads
  BY DEF TypeInv, Types, Threads
<1>1. CASE UNCHANGED since
  <2>1. late' = late \/ \E u \in Users : late' = (late \/ size > call[u].fd)
    BY DEF Next, UserStep, PollerStep, TriggerStep, AddFind, AddGrow, AddRegister, AddRefused, Find, Del, Cancel, CancelAll,
           CancelRefused, Report, Handle, Skip, Trigger, TriggerFails, Count, history, vars
  <2>2. late' \in BOOLEAN
    BY <2>1 DEF HistoryInv
  <2> QED
    BY <1>1, <2>2 DEF HistoryInv
<1>2. ASSUME NEW x \in Contexts, NEW e \in Events, Unregistered(x, e), late' = late
      PROVE  HistoryInv' /\ \A s \in Threads : since[s] \subseteq since'[s]
  BY <1>2 DEF Unregistered, HistoryInv
<1>3. ASSUME NEW t \in Threads, since' = [since EXCEPT ![t] = {}], late' = late, pc'[t] \in {"run", "wait"}
      PROVE  HistoryInv' /\ \A s \in Threads : since[s] \subseteq since'[s] \/ pc'[s] \in {"run", "wait"}
  BY <1>3 DEF HistoryInv
<1>4. ASSUME NEW u \in Users, Del(u) PROVE \E x \in Contexts, e \in Events : Unregistered(x, e) /\ late' = late
  <2>1. u \in Threads /\ pc[u] \in CtxPCs /\ call[u].ev \in Events
    BY <1>0, <1>4 DEF Del, At, CtxPCs, TypeInv, CallInv
  <2>2. Ctx(u) \in Contexts
    BY <2>1, CtxFacts
  <2> QED
    BY <1>4, <2>1, <2>2 DEF Del
<1>5. ASSUME NEW t \in Threads, Trigger(t) PROVE \E x \in Contexts, e \in Events : Unregistered(x, e) /\ late' = late
  <2>1. pc[t] \in CtxPCs
    BY <1>5 DEF Trigger, At, CtxPCs
  <2>2. Ctx(t) \in Contexts /\ event[Ctx(t)] \subseteq Events
    BY <2>1, CtxFacts
  <2> QED
    BY <1>5, <2>2 DEF Trigger
<1>6. ASSUME NEW t \in Threads, Count(t)
      PROVE  UNCHANGED since \/ (since' = [since EXCEPT ![t] = {}] /\ late' = late /\ pc'[t] \in {"run", "wait"})
  BY <1>0, <1>6 DEF Count, Goto, Home
<1>7. ASSUME NEW p \in Pollers, Skip(p)
      PROVE  since' = [since EXCEPT ![p] = {}] /\ late' = late /\ pc'[p] \in {"run", "wait"}
  BY <1>0, <1>7 DEF Skip, Goto
<1>8. \/ UNCHANGED since
      \/ \E u \in Users : Del(u)
      \/ \E t \in Threads : Trigger(t) \/ Count(t)
      \/ \E p \in Pollers : Skip(p)
  <2>1. ASSUME NEW u \in Users, UserStep(u) PROVE UNCHANGED since \/ Del(u)
    BY <2>1 DEF UserStep, AddFind, AddGrow, AddRegister, AddRefused, Find, Cancel, CancelAll, CancelRefused, history
  <2>2. ASSUME NEW p \in Pollers, PollerStep(p) PROVE UNCHANGED since \/ Skip(p)
    BY <2>2 DEF PollerStep, Report, Handle, history
  <2>3. ASSUME NEW t \in Threads, TriggerStep(t) PROVE UNCHANGED since \/ Trigger(t) \/ Count(t)
    BY <2>3 DEF TriggerStep, TriggerFails, history
  <2>4. CASE UNCHANGED vars
    BY <2>4 DEF vars, history
  <2> QED
    BY <2>1, <2>2, <2>3, <2>4 DEF Next
<1> QED
  BY <1>0, <1>1, <1>2, <1>3, <1>4, <1>5, <1>6, <1>7, <1>8

LEMMA HistoryKept == Spec => []HistoryInv
<1>1. Init => TypeInv /\ HistoryInv
  BY InitType DEF Init, HistoryInv
<1>2. TypeInv /\ HistoryInv /\ [Next]_vars => TypeInv' /\ HistoryInv'
  BY NextType, SinceSteps
<1> QED
  BY <1>1, <1>2, PTL DEF Spec

\* m_waitting_events_count, which stopping() compares with 0, is the number of events
\* that are registered plus the ones whose decrement is still to come: it never wraps
\* around, for any number of fibers, pollers and descriptors.
THEOREM CounterExact == Spec => []CountExact
<1>1. TypeInv /\ CountInv /\ HistoryInv => CountExact
  <2> SUFFICES ASSUME TypeInv, CountInv, HistoryInv PROVE CountExact
    OBVIOUS
  <2>1. Cardinality(Registered) \in Nat /\ Cardinality(Counting) \in Nat
    BY FS_CardinalityType DEF CountInv
  <2>2. m_waitting_events_count \in Nat
    BY <2>1 DEF CountInv
  <2>3. TypeOK
    BY <2>2 DEF TypeInv, Types, TypeOK, Calls, Watches, Todos, HistoryInv
  <2> QED
    BY <2>3 DEF CountInv, CountExact, Counting
<1> QED
  BY <1>1, EventInv, HistoryKept, PTL

\* A fiber that waits is stored for exactly one event, and every registered event has
\* its fiber: triggerEvent() schedules a fiber once for each time it has registered.
THEOREM FibersHeld == Spec => []WaitersHeld
<1>1. TypeInv /\ StoredInv => WaitersHeld
  <2> SUFFICES ASSUME TypeInv, StoredInv PROVE WaitersHeld
    OBVIOUS
  <2>0. /\ NoOne \notin Users
        /\ \A y \in Contexts, d \in Events : waiter[y][d] \in Users \cup {NoOne}
        /\ \A r \in Contexts \X Events : r[1] \in Contexts /\ r[2] \in Events /\ r = <<r[1], r[2]>>
    BY EventAssumption DEF TypeInv, Types
  <2>1. ASSUME NEW u \in Users, pc[u] = "parked"
        PROVE  \E r \in Registered : waiter[r[1]][r[2]] = u /\
                 \A q \in Registered : waiter[q[1]][q[2]] = u => q = r
    <3>1. PICK x \in Contexts, e \in Events : waiter[x][e] = u
      BY <2>1 DEF StoredInv
    <3>2. <<x, e>> \in Registered
      BY <2>0, <3>1 DEF StoredInv, Registered
    <3>3. ASSUME NEW q \in Registered, waiter[q[1]][q[2]] = u PROVE q = <<x, e>>
      BY <2>0, <3>1, <3>3 DEF StoredInv, Registered
    <3> QED
      BY <3>1, <3>2, <3>3
  <2>2. ASSUME NEW r \in Registered
        PROVE  waiter[r[1]][r[2]] \in Users /\ pc[waiter[r[1]][r[2]]] = "parked"
    BY <2>0 DEF StoredInv, Registered
  <2> QED
    BY <2>1, <2>2 DEF WaitersHeld
<1> QED
  BY <1>1, EventInv, PTL

-----------------------------------------------------------------------------
(* The mutex of a context, and what its holder triggers.                   *)

\* A thread that holds the mutex of a context goes on as it was, or held none and
\* holds none.
Same(s) ==
    \/ pc'[s] = pc[s] /\ call'[s] = call[s] /\ todo'[s] = todo[s]
    \/ pc[s] \notin HoldPCs /\ pc'[s] \notin HoldPCs

\* Steps that leave the mutexes alone, and the events of the contexts that are locked.
Unlocked ==
    /\ mutex' = mutex
    /\ \A s \in Threads : Same(s)
    /\ \A x \in Contexts : mutex[x] # NoOne => event'[x] = event[x]

\* What a poller with a broad report may trigger though it is not registered.
Told(t) == IF pc[t] = "handle" /\ Broad(t) THEN call[t].bits ELSE {}

\* Cancel(), CancelAll() and Handle(): a thread locks a context and sets out to trigger
\* the events S, which epoll will no longer watch.
Grab(t, S) ==
    /\ Ctx(t) \in Contexts /\ mutex[Ctx(t)] = NoOne /\ mutex' = [mutex EXCEPT ![Ctx(t)] = t]
    /\ event' = event /\ call' = call /\ tableVars' = tableVars
    /\ pc[t] \in CtxPCs \ HoldPCs /\ pc' = [pc EXCEPT ![t] = "trigger"]
    /\ \A s \in Threads : s # t => Same(s)
    /\ call[t].fd \in Fds /\ S \subseteq Events
    /\ event[Ctx(t)] # {} /\ S \subseteq event[Ctx(t)] \cup Told(t)
    /\ Watch(call[t].fd, Ctx(t), event[Ctx(t)] \ S)
    /\ Pending(t)' = S

\* The next event that a thread triggers is one of them.
LEMMA HeadPending ==
    ASSUME TypeInv, NEW t \in Threads, pc[t] = "trigger"
    PROVE  Head(todo[t]) \in Pending(t)
<1>2. todo[t] \in Todos /\ todo[t] # <<>>
  BY DEF TypeInv, Types, CallInv, HoldPCs
<1>3. Head(todo[t]) = todo[t][1] /\ 1 \in DOMAIN todo[t] /\ Head(todo[t]) \in Kinds
  BY <1>2, TailFacts
<1> QED
  BY <1>3 DEF Pending, Kinds

LEMMA SamePending ==
    ASSUME NEW s \in Threads, Same(s)
    PROVE  /\ pc'[s] \in HoldPCs <=> pc[s] \in HoldPCs
           /\ Pending(s)' = Pending(s)
           /\ pc[s] \in HoldPCs => Ctx(s)' = Ctx(s) /\ (Broad(s)' <=> Broad(s)) /\ pc'[s] = pc[s]
<1>1. CASE pc'[s] = pc[s] /\ call'[s] = call[s] /\ todo'[s] = todo[s]
  BY <1>1 DEF Pending, Ctx, Broad
<1>2. CASE pc[s] \notin HoldPCs /\ pc'[s] \notin HoldPCs
  BY <1>2 DEF Pending, HoldPCs
<1> QED
  BY <1>1, <1>2 DEF Same

\* The step of a thread that holds no mutex, before and after, and changes only its own
\* pc, call and todo.
LEMMA IdleStep ==
    ASSUME TypeInv, NEW u \in Threads, pc[u] \notin HoldPCs,
           NEW h, h \notin HoldPCs, pc' = [pc EXCEPT ![u] = h],
           \A s \in Threads : s # u => call'[s] = call[s], todo' = todo, mutex' = mutex,
           \A x \in Contexts : mutex[x] # NoOne => event'[x] = event[x]
    PROVE  Unlocked
BY DEF Unlocked, Same, TypeInv, Types

LEMMA GrabFacts ==
    ASSUME TypeInv, NEW t \in Threads, pc[t] \in CtxPCs, pc[t] \notin HoldPCs, mutex[Ctx(t)] = NoOne,
           mutex' = [mutex EXCEPT ![Ctx(t)] = t], UNCHANGED <<tableVars, event, call>>,
           pc' = [pc EXCEPT ![t] = "trigger"],
           NEW S \in SUBSET Events, event[Ctx(t)] # {}, S \subseteq event[Ctx(t)] \cup Told(t),
           NEW q \in Todos, todo' = [todo EXCEPT ![t] = q],
           \A e \in Kinds : (\E i \in DOMAIN q : q[i] = e) <=> e \in S,
           Watch(call[t].fd, Ctx(t), event[Ctx(t)] \ S)
    PROVE  Grab(t, S)
<1>1. call[t].fd \in Fds /\ Ctx(t) \in Contexts
  BY CtxFacts
<1>2. pc'[t] = "trigger" /\ todo'[t] = q
  BY DEF TypeInv, Types
<1>3. Pending(t)' = S
  BY <1>2, EventAssumption DEF Pending, Kinds
<1>4. \A s \in Threads : s # t => Same(s)
  BY DEF Same, TypeInv, Types
<1> QED
  BY <1>1, <1>3, <1>4 DEF Grab, tableVars

LEMMA CancelGrab ==
    ASSUME TypeInv, NEW u \in Users, Cancel(u) \/ CancelAll(u)
    PROVE  \E S : Grab(u, S)
<1>1. u \in Threads /\ pc[u] \in CtxPCs /\ pc[u] \notin HoldPCs /\ mutex[Ctx(u)] = NoOne
  BY DEF Threads, Cancel, CancelAll, At, Locked, CtxPCs, HoldPCs
<1>2. event[Ctx(u)] \subseteq Events /\ mutex' = [mutex EXCEPT ![Ctx(u)] = u] /\ UNCHANGED <<tableVars, event, call>>
      /\ pc' = [pc EXCEPT ![u] = "trigger"]
  BY <1>1, CtxFacts DEF Cancel, CancelAll, Goto, contextVars
<1>3. CASE Cancel(u)
  <2> DEFINE e == call[u].ev
             q == <<e>>
  <2>1. /\ e \in event[Ctx(u)] /\ todo' = [todo EXCEPT ![u] = q]
        /\ Watch(call[u].fd, Ctx(u), event[Ctx(u)] \ {e})
    BY <1>3 DEF Cancel
  <2>2. e \in Events /\ q \in Todos /\ \A d \in Kinds : (\E i \in DOMAIN q : q[i] = d) <=> d \in {e}
    <3>1. e \in Events
      BY <1>2, <2>1
    <3>2. q \in Todos
      BY <3>1, EventAssumption DEF Todos
    <3>3. DOMAIN q = {1} /\ q[1] = e
      OBVIOUS
    <3> HIDE DEF q
    <3> QED
      BY <3>1, <3>2, <3>3
  <2> DEFINE S == {e}
  <2>4. S \in SUBSET Events /\ S \subseteq event[Ctx(u)] \cup Told(u) /\ event[Ctx(u)] # {}
    BY <2>1, <2>2
  <2>5. Watch(call[u].fd, Ctx(u), event[Ctx(u)] \ S) /\ \A d \in Kinds : (\E i \in DOMAIN q : q[i] = d) <=> d \in S
    BY <2>1, <2>2
  <2> HIDE DEF e, q, S
  <2>3. Grab(u, S)
    BY <1>1, <1>2, <2>1, <2>2, <2>4, <2>5, GrabFacts
  <2> QED
    BY <2>3
<1>4. CASE CancelAll(u)
  <2> DEFINE S == event[Ctx(u)]
             q == InOrder(S)
  <2>1. todo' = [todo EXCEPT ![u] = q] /\ Watch(call[u].fd, Ctx(u), {}) /\ S # {}
    BY <1>4 DEF CancelAll
  <2>2. q \in Todos /\ \A d \in Kinds : (\E i \in DOMAIN q : q[i] = d) <=> d \in S
    BY <1>2, InOrderFacts
  <2>3. Watch(call[u].fd, Ctx(u), S \ S)
    <3>1. S \ S = {}
      OBVIOUS
    <3> QED
      BY <2>1, <3>1
  <2> HIDE DEF q
  <2>4. Grab(u, S)
    BY <1>1, <1>2, <2>1, <2>2, <2>3, GrabFacts
  <2> QED
    BY <2>4
<1> QED
  BY <1>3, <1>4

LEMMA HandleGrab ==
    ASSUME TypeInv, NEW p \in Pollers, Handle(p)
    PROVE  \E S : Grab(p, S)
<1>1. p \in Threads /\ pc[p] \in CtxPCs /\ pc[p] \notin HoldPCs /\ mutex[Ctx(p)] = NoOne
  BY DEF Threads, Handle, At, Locked, CtxPCs, HoldPCs
<1>2. /\ event[Ctx(p)] \subseteq Events /\ mutex' = [mutex EXCEPT ![Ctx(p)] = p] /\ UNCHANGED <<tableVars, event, call>>
      /\ pc' = [pc EXCEPT ![p] = "trigger"] /\ call[p].bits \subseteq Events
  BY <1>1, CtxFacts DEF Handle, Goto, contextVars
<1> DEFINE S == Real(p)
           q == InOrder(S)
<1>3. /\ todo' = [todo EXCEPT ![p] = q] /\ Watch(call[p].fd, Ctx(p), event[Ctx(p)] \ S)
      /\ event[Ctx(p)] \cap S # {}
  BY DEF Handle
<1>4. S \subseteq Events
  BY <1>2 DEF Real
<1>5. q \in Todos /\ \A d \in Kinds : (\E i \in DOMAIN q : q[i] = d) <=> d \in S
  BY <1>4, InOrderFacts
<1>6. event[Ctx(p)] # {} /\ S \subseteq event[Ctx(p)] \cup Told(p)
  <2>1. CASE ~ Broad(p)
    <3>1. S = call[p].bits /\ S # Events
      BY <2>1 DEF Broad, Real
    <3>2. \A d, e \in S : d = e
      BY <1>4, <3>1, EventAssumption
    <3> QED
      BY <1>3, <3>2
  <2>2. CASE Broad(p)
    <3>1. pc[p] = "handle"
      BY DEF Handle, At
    <3>2. S \subseteq event[Ctx(p)] \cup call[p].bits
      BY DEF Real
    <3> QED
      BY <1>3, <2>2, <3>1, <3>2 DEF Told
  <2> QED
    BY <2>1, <2>2
<1> HIDE DEF q, S
<1>7. Grab(p, S)
  BY <1>1, <1>2, <1>3, <1>4, <1>5, <1>6, GrabFacts
<1> QED
  BY <1>7

\* Del() and AddRegister() change a context that nobody has locked.
LEMMA RegisterUnlocked ==
    ASSUME TypeInv, NEW u \in Users, AddRegister(u)
    PROVE  Unlocked
<1>1. PICK x \in Contexts, e \in Events :
             /\ x = Ctx(u) /\ event' = [event EXCEPT ![x] = @ \cup {e}]
             /\ pc' = [pc EXCEPT ![u] = "parked"] /\ pc[u] = "register"
  BY RegisterFacts
<1>2. mutex[x] = NoOne /\ mutex' = mutex /\ todo' = todo /\ u \in Threads
  BY <1>1 DEF AddRegister, Locked, Threads
<1>3. \A y \in Contexts : mutex[y] # NoOne => event'[y] = event[y]
  BY <1>1, <1>2 DEF TypeInv, Types
<1>4. \A s \in Threads : s # u => call'[s] = call[s]
  BY DEF AddRegister, TypeInv, Types
<1> QED
  BY <1>1, <1>2, <1>3, <1>4 DEF Unlocked, Same, TypeInv, Types, HoldPCs

LEMMA DelUnlocked ==
    ASSUME TypeInv, StoredInv, NEW u \in Users, Del(u)
    PROVE  Unlocked
<1>1. PICK x \in Contexts, e \in Events :
             x = Ctx(u) /\ Taken(u, x, e, "run", "dropped") /\ pc[u] = "del"
  BY DelFacts
<1>2. mutex[x] = NoOne /\ mutex' = mutex /\ todo' = todo /\ u \in Threads
  BY <1>1 DEF Del, Locked, Threads
<1>3. waiter[x][e] \in Users /\ pc[waiter[x][e]] = "parked" /\ waiter[x][e] # u
  BY <1>1, <1>2, TakenStored
<1>4. \A y \in Contexts : mutex[y] # NoOne => event'[y] = event[y]
  BY <1>1, <1>2 DEF TypeInv, Types, Taken
<1>5. \A s \in Threads : s # u => call'[s] = call[s]
  BY DEF Del, TypeInv, Types
<1>6. \A s \in Threads : Same(s)
  <2>1. pc' = [pc EXCEPT ![u] = "run", ![waiter[x][e]] = "dropped"]
    BY <1>1 DEF Taken
  <2> QED
    BY <1>1, <1>2, <1>3, <1>5, <2>1 DEF Same, TypeInv, Types, HoldPCs, Threads
<1> QED
  BY <1>2, <1>4, <1>6 DEF Unlocked

\* What a step is to the mutexes.
LEMMA LockSteps ==
    ASSUME TypeInv, StoredInv, [Next]_vars
    PROVE  \/ Unlocked /\ UNCHANGED <<event, interest>>
           \/ Unlocked /\ \E u \in Users : AddRegister(u) \/ Del(u)
           \/ \E t \in Threads, S \in SUBSET Events : Grab(t, S)
           \/ \E t \in Threads : Trigger(t) \/ Count(t)
<1> USE DEF At, Goto, contextVars, threadVars, HoldPCs
<1>0. Users \subseteq Threads /\ Pollers \subseteq Threads
  BY DEF Threads
<1>1. ASSUME NEW u \in Users, NEW fd \in Fds, NEW ev \in Events, AddFind(u, fd, ev) PROVE Unlocked /\ UNCHANGED <<event, interest>>
  <2>1. PICK h \in {"register", "grow"} : pc' = [pc EXCEPT ![u] = h]
    BY <1>1 DEF AddFind
  <2>2. \A s \in Threads : s # u => call'[s] = call[s]
    BY <1>1 DEF AddFind, TypeInv, Types, Lookup
  <2> QED
    BY <1>0, <1>1, <2>1, <2>2, IdleStep DEF AddFind
<1>2. ASSUME NEW u \in Users, AddGrow(u) PROVE Unlocked /\ UNCHANGED <<event, interest>>
  <2>2. \A s \in Threads : s # u => call'[s] = call[s]
    BY <1>2 DEF AddGrow, TypeInv, Types
  <2> QED
    BY <1>0, <1>2, <2>2, IdleStep DEF AddGrow
<1>3. ASSUME NEW u \in Users, AddRefused(u) PROVE Unlocked /\ UNCHANGED <<event, interest>>
  <2>2. \A s \in Threads : s # u => call'[s] = call[s]
    BY <1>3 DEF AddRefused, TypeInv, Types
  <2> QED
    BY <1>0, <1>3, <2>2, IdleStep DEF AddRefused
<1>4. ASSUME NEW u \in Users, NEW op \in Ops, NEW fd \in Fds, NEW ev \in Events, Find(u, op, fd, ev) PROVE Unlocked /\ UNCHANGED <<event, interest>>
  <2>1. op \notin HoldPCs
    BY EventAssumption
  <2>2. \A s \in Threads : s # u => call'[s] = call[s]
    BY <1>4 DEF Find, TypeInv, Types, Lookup
  <2> QED
    BY <1>0, <1>4, <2>1, <2>2, IdleStep DEF Find
<1>6. ASSUME NEW u \in Users, CancelRefused(u) PROVE Unlocked /\ UNCHANGED <<event, interest>>
  <2>2. \A s \in Threads : s # u => call'[s] = call[s]
    BY <1>6 DEF CancelRefused, TypeInv, Types
  <2> QED
    BY <1>0, <1>6, <2>2, IdleStep DEF CancelRefused
<1>7. ASSUME NEW p \in Pollers, NEW fd \in Fds, NEW bits \in SUBSET Events, NEW err \in BOOLEAN,
             Report(p, fd, bits, err)
      PROVE Unlocked /\ UNCHANGED <<event, interest>>
  <2>2. \A s \in Threads : s # p => call'[s] = call[s]
    BY <1>7 DEF Report, TypeInv, Types
  <2> QED
    BY <1>0, <1>7, <2>2, IdleStep DEF Report
<1>8. ASSUME NEW p \in Pollers, Skip(p) PROVE Unlocked /\ UNCHANGED <<event, interest>>
  <2>2. \A s \in Threads : s # p => call'[s] = call[s]
    BY <1>8 DEF Skip, TypeInv, Types
  <2> QED
    BY <1>0, <1>8, <2>2, IdleStep DEF Skip
<1>9. ASSUME NEW t \in Threads, TriggerFails(t) PROVE Unlocked /\ UNCHANGED <<event, interest>>
  BY <1>9 DEF TriggerFails, Unlocked, Same
<1>10. CASE UNCHANGED vars
  BY <1>10 DEF vars, Unlocked, Same
<1>11. ASSUME NEW t \in Threads, \E S : Grab(t, S) PROVE \E S \in SUBSET Events : Grab(t, S)
  BY <1>11 DEF Grab
<1> QED
  BY <1>0, <1>1, <1>2, <1>3, <1>4, <1>6, <1>7, <1>8, <1>9, <1>10, <1>11, RegisterUnlocked, DelUnlocked, CancelGrab, HandleGrab
  DEF Next, UserStep, PollerStep, TriggerStep

\* Trigger() and Count() seen from the mutex: what is left to trigger.
LEMMA TriggerLock ==
    ASSUME TypeInv, StoredInv, NEW t \in Threads, Trigger(t)
    PROVE  /\ pc[t] = "trigger" /\ pc'[t] = "count" /\ mutex' = mutex /\ Ctx(t) \in Contexts
           /\ event' = [event EXCEPT ![Ctx(t)] = @ \ {Head(todo[t])}] /\ Head(todo[t]) \in Events
           /\ Ctx(t)' = Ctx(t) /\ (Broad(t)' <=> Broad(t))
           /\ Pending(t)' = Pending(t) \ {Head(todo[t])}
           /\ \A s \in Threads : s # t => Same(s)
<1>1. PICK x \in Contexts, e \in Events :
             x = Ctx(t) /\ e = Head(todo[t]) /\ Taken(t, x, e, "count", "run") /\ pc[t] = "trigger"
  BY TriggerFacts
<1>2. waiter[x][e] \in Users /\ pc[waiter[x][e]] = "parked" /\ waiter[x][e] # t
  BY <1>1, TakenStored
<1>3. mutex' = mutex /\ call' = call /\ todo' = todo
  BY DEF Trigger
<1>4. pc' = [pc EXCEPT ![t] = "count", ![waiter[x][e]] = "run"] /\ event' = [event EXCEPT ![x] = @ \ {e}]
  BY <1>1 DEF Taken
<1>5. pc'[t] = "count" /\ \A s \in Threads : s # t => Same(s)
  BY <1>2, <1>3, <1>4 DEF Same, TypeInv, Types, HoldPCs
<1>6. todo[t] \in Todos /\ todo[t] # <<>>
  BY <1>1 DEF TypeInv, Types, CallInv, HoldPCs
<1>7. /\ todo[t][1] = e /\ Len(todo[t]) \in {1, 2} /\ DOMAIN todo[t] = 1 .. Len(todo[t])
      /\ Len(todo[t]) = 2 => todo[t][2] = "WRITE" /\ e = "READ"
  BY <1>1, <1>6, TailFacts
<1>8. Pending(t)' = Pending(t) \ {e}
  BY <1>1, <1>3, <1>5, <1>7 DEF Pending, Kinds
<1> QED
  BY <1>1, <1>3, <1>4, <1>5, <1>8 DEF Ctx, Broad

LEMMA CountLock ==
    ASSUME TypeInv, NEW t \in Threads, Count(t)
    PROVE  /\ pc[t] = "count" /\ event' = event /\ Ctx(t) \in Contexts
           /\ Pending(t)' = Pending(t)
           /\ \A s \in Threads : s # t => Same(s)
           /\ \/ pc'[t] = "trigger" /\ mutex' = mutex /\ call' = call
              \/ /\ pc'[t] \notin HoldPCs /\ mutex' = [mutex EXCEPT ![Ctx(t)] = NoOne] /\ Pending(t) = {}
<1>1. pc[t] = "count" /\ event' = event /\ todo' = [todo EXCEPT ![t] = Tail(@)]
  BY DEF Count, At, contextVars
<1>2. Ctx(t) \in Contexts
  BY <1>1, CtxFacts DEF CtxPCs
<1>3. todo[t] \in Todos /\ todo[t] # <<>>
  BY <1>1 DEF TypeInv, Types, CallInv, HoldPCs
<1>4. /\ Len(todo[t]) \in {1, 2} /\ DOMAIN todo[t] = 1 .. Len(todo[t])
      /\ Len(todo[t]) = 2 => todo[t][2] = "WRITE" /\ Tail(todo[t]) = <<"WRITE">>
  BY <1>3, TailFacts
<1>5. CASE Len(todo[t]) > 1
  <2>1. mutex' = mutex /\ call' = call /\ pc' = [pc EXCEPT ![t] = "trigger"]
    BY <1>5 DEF Count, Goto
  <2>2. pc'[t] = "trigger" /\ todo'[t] = <<"WRITE">> /\ \A s \in Threads : s # t => Same(s)
    BY <1>1, <1>4, <1>5, <2>1 DEF Same, TypeInv, Types
  <2>3. DOMAIN todo'[t] = {1} /\ todo'[t][1] = "WRITE"
    BY <2>2
  <2>4. Pending(t)' = Pending(t)
    BY <1>1, <1>4, <1>5, <2>2, <2>3 DEF Pending, Kinds
  <2> QED
    BY <1>1, <1>2, <2>1, <2>2, <2>4
<1>6. CASE ~ (Len(todo[t]) > 1)
  <2>1. /\ mutex' = [mutex EXCEPT ![Ctx(t)] = NoOne] /\ call' = [call EXCEPT ![t] = NoCall]
        /\ pc' = [pc EXCEPT ![t] = Home(t)]
    BY <1>6 DEF Count, Goto
  <2>2. pc'[t] \notin HoldPCs /\ \A s \in Threads : s # t => Same(s)
    BY <1>1, <2>1 DEF Same, TypeInv, Types, HoldPCs, Home
  <2>3. Pending(t)' = {} /\ Pending(t) = {}
    BY <1>1, <1>4, <1>6, <2>2 DEF Pending, HoldPCs
  <2> QED
    BY <1>1, <1>2, <2>1, <2>2, <2>3
<1> QED
  BY <1>5, <1>6

\* The mutex is held by the thread that triggers, and by no other.
LEMMA NextMutex == TypeInv /\ StoredInv /\ MutexInv /\ [Next]_vars => MutexInv'
<1> SUFFICES ASSUME TypeInv, StoredInv, MutexInv, [Next]_vars, NEW s \in Threads, pc'[s] \in HoldPCs
             PROVE  mutex'[Ctx(s)'] = s
  BY DEF MutexInv
<1>0. mutex \in [Contexts -> Threads \cup {NoOne}] /\ NoOne \notin Threads
  BY EventAssumption DEF TypeInv, Types, Threads
<1>1. CASE Unlocked
  <2>1. Same(s) /\ mutex' = mutex
    BY <1>1 DEF Unlocked
  <2> QED
    BY <2>1, SamePending DEF MutexInv
<1>2. ASSUME NEW t \in Threads, NEW S \in SUBSET Events, Grab(t, S) PROVE mutex'[Ctx(s)'] = s
  <2>1. CASE s = t
    BY <1>0, <1>2, <2>1 DEF Grab, Ctx
  <2>2. CASE s # t
    <3>1. pc[s] \in HoldPCs /\ Ctx(s)' = Ctx(s) /\ mutex[Ctx(s)] = s
      BY <1>2, <2>2, SamePending DEF Grab, MutexInv
    <3> QED
      BY <1>0, <1>2, <3>1 DEF Grab
  <2> QED
    BY <2>1, <2>2
<1>3. ASSUME NEW t \in Threads, Trigger(t) PROVE mutex'[Ctx(s)'] = s
  <2>1. CASE s = t
    BY <1>3, <2>1, TriggerLock DEF MutexInv, HoldPCs
  <2>2. CASE s # t
    BY <1>3, <2>2, TriggerLock, SamePending DEF MutexInv
  <2> QED
    BY <2>1, <2>2
<1>4. ASSUME NEW t \in Threads, Count(t) PROVE mutex'[Ctx(s)'] = s
  <2>1. CASE s = t
    <3>1. pc[t] \in HoldPCs /\ mutex' = mutex /\ call' = call
      BY <1>4, <2>1, CountLock DEF HoldPCs
    <3> QED
      BY <2>1, <3>1 DEF MutexInv, Ctx
  <2>2. CASE s # t
    <3>1. pc[s] \in HoldPCs /\ Ctx(s)' = Ctx(s) /\ mutex[Ctx(s)] = s
      BY <1>4, <2>2, CountLock, SamePending DEF MutexInv
    <3>2. mutex[Ctx(t)] = t
      BY <1>4, CountLock DEF MutexInv, HoldPCs
    <3>3. mutex' = mutex \/ mutex' = [mutex EXCEPT ![Ctx(t)] = NoOne]
      BY <1>4, CountLock
    <3>4. Ctx(s) # Ctx(t) /\ Ctx(s) \in Contexts
      BY <2>2, <3>1, <3>2, CtxFacts DEF HoldPCs, CtxPCs
    <3>5. mutex'[Ctx(s)] = mutex[Ctx(s)]
      BY <1>0, <3>3, <3>4
    <3> QED
      BY <3>1, <3>5
  <2> QED
    BY <2>1, <2>2
<1> QED
  BY <1>1, <1>2, <1>3, <1>4, LockSteps

\* After the first fault nothing happens.
LEMMA FaultSteps ==
    ASSUME TypeInv, StoredInv, [Next]_vars
    PROVE  \/ fault' = FALSE
           \/ UNCHANGED vars
           \/ \E t \in Threads : TriggerFails(t)
<1> USE DEF At
<1>1. ASSUME NEW u \in Users, AddRegister(u) PROVE fault' = FALSE
  <2>1. PICK x \in Contexts, e \in Events : e \notin event[x] /\ fault' = (waiter[x][e] # NoOne)
    BY <1>1, RegisterFacts
  <2>2. ~ (waiter[x][e] # NoOne)
    BY <2>1 DEF StoredInv
  <2> QED
    BY <2>1, <2>2
<1>2. ASSUME NEW u \in Users, UserStep(u), ~ AddRegister(u) PROVE fault' = FALSE
  <2>1. fault' = fault /\ ~ fault
    BY <1>2 DEF UserStep, AddFind, AddGrow, AddRefused, Find, Del, Cancel, CancelAll, CancelRefused
  <2>2. fault \in BOOLEAN
    BY DEF TypeInv, Types
  <2> QED
    BY <2>1, <2>2
<1>3. ASSUME NEW p \in Pollers, PollerStep(p) PROVE fault' = FALSE
  <2>1. fault' = fault /\ ~ fault
    BY <1>3 DEF PollerStep, Report, Handle, Skip
  <2>2. fault \in BOOLEAN
    BY DEF TypeInv, Types
  <2> QED
    BY <2>1, <2>2
<1>4. ASSUME NEW t \in Threads, Trigger(t) \/ Count(t) PROVE fault' = FALSE
  <2>1. fault' = fault /\ ~ fault
    BY <1>4 DEF Trigger, Count
  <2>2. fault \in BOOLEAN
    BY DEF TypeInv, Types
  <2> QED
    BY <2>1, <2>2
<1> QED
  BY <1>1, <1>2, <1>3, <1>4 DEF Next, TriggerStep

\* What changes the events that are registered.
LEMMA EventSteps ==
    ASSUME TypeInv, [Next]_vars
    PROVE  \/ \A x \in Contexts : event[x] \subseteq event'[x]
           \/ \E x \in Contexts, e \in Events : event' = [event EXCEPT ![x] = @ \ {e}] /\ Unregistered(x, e)
<1>0. event \in [Contexts -> SUBSET Events]
  BY DEF TypeInv, Types
<1>1. CASE Quiet
  BY <1>1 DEF Quiet
<1>2. ASSUME NEW u \in Users, AddRegister(u) PROVE \A x \in Contexts : event[x] \subseteq event'[x]
  BY <1>0, <1>2, RegisterFacts
<1>3. ASSUME NEW u \in Users, Del(u)
      PROVE  \E x \in Contexts, e \in Events : event' = [event EXCEPT ![x] = @ \ {e}] /\ Unregistered(x, e)
  <2>1. u \in Threads /\ pc[u] \in CtxPCs /\ call[u].ev \in Events
    BY <1>3 DEF Del, At, CtxPCs, TypeInv, CallInv, Threads
  <2>2. Ctx(u) \in Contexts
    BY <2>1, CtxFacts
  <2> QED
    BY <1>3, <2>1, <2>2 DEF Del
<1>4. ASSUME NEW t \in Threads, Trigger(t)
      PROVE  \E x \in Contexts, e \in Events : event' = [event EXCEPT ![x] = @ \ {e}] /\ Unregistered(x, e)
  <2>1. pc[t] \in CtxPCs
    BY <1>4 DEF Trigger, At, CtxPCs
  <2>2. Ctx(t) \in Contexts /\ event[Ctx(t)] \subseteq Events
    BY <2>1, CtxFacts
  <2> QED
    BY <1>4, <2>2 DEF Trigger
<1>5. ASSUME NEW t \in Threads, Count(t) PROVE event' = event
  BY <1>5 DEF Count, contextVars
<1> QED
  BY <1>1, <1>2, <1>3, <1>4, <1>5, Steps

\* Who handles a report goes on, or epoll has just returned it.
LEMMA HandleSteps ==
    ASSUME TypeInv, StoredInv, [Next]_vars, NEW s \in Threads, pc'[s] = "handle"
    PROVE  \/ pc[s] = "handle" /\ call'[s] = call[s]
           \/ \E fd \in Fds, bits \in SUBSET Events, err \in BOOLEAN : s \in Pollers /\ Report(s, fd, bits, err)
<1> USE DEF At, Goto, threadVars
<1>0. /\ pc \in [Threads -> PCs] /\ call \in [Threads -> Calls] /\ Users \subseteq Threads /\ Pollers \subseteq Threads
  BY DEF TypeInv, Types, Threads
<1>1. ASSUME NEW t \in Threads, NEW h, h # "handle", pc' = [pc EXCEPT ![t] = h],
             \A r \in Threads : r # t => call'[r] = call[r]
      PROVE  pc[s] = "handle" /\ call'[s] = call[s]
  BY <1>0, <1>1
<1>2. ASSUME NEW u \in Users, UserStep(u), ~ Del(u) PROVE pc[s] = "handle" /\ call'[s] = call[s]
  <2>1. \A r \in Threads : r # u => call'[r] = call[r]
    BY <1>0, <1>2 DEF UserStep, AddFind, AddGrow, AddRegister, AddRefused, Find, Cancel, CancelAll, CancelRefused, Lookup
  <2>2. \E h : h # "handle" /\ pc' = [pc EXCEPT ![u] = h]
    BY <1>2, EventAssumption DEF UserStep, AddFind, AddGrow, AddRegister, AddRefused, Find, Cancel, CancelAll, CancelRefused
  <2> QED
    BY <1>0, <1>1, <2>1, <2>2
<1>3. ASSUME NEW u \in Users, Del(u) PROVE pc[s] = "handle" /\ call'[s] = call[s]
  <2>1. PICK x \in Contexts, e \in Events : Taken(u, x, e, "run", "dropped")
    BY <1>3, DelFacts
  <2>2. pc' = [pc EXCEPT ![u] = "run", ![waiter[x][e]] = "dropped"] /\ \A r \in Threads : r # u => call'[r] = call[r]
    BY <1>0, <1>3, <2>1 DEF Taken, Del
  <2> QED
    BY <1>0, <2>2
<1>4. ASSUME NEW t \in Threads, Trigger(t) PROVE pc[s] = "handle" /\ call'[s] = call[s]
  <2>1. PICK x \in Contexts, e \in Events : Taken(t, x, e, "count", "run")
    BY <1>4, TriggerFacts
  <2>2. pc' = [pc EXCEPT ![t] = "count", ![waiter[x][e]] = "run"] /\ call' = call
    BY <1>4, <2>1 DEF Taken, Trigger
  <2> QED
    BY <1>0, <2>2
<1>5. ASSUME NEW t \in Threads, Count(t) \/ TriggerFails(t) PROVE pc[s] = "handle" /\ call'[s] = call[s]
  <2>1. CASE Count(t)
    <3>1. \A r \in Threads : r # t => call'[r] = call[r]
      BY <1>0, <2>1 DEF Count
    <3>2. \E h : h # "handle" /\ pc' = [pc EXCEPT ![t] = h]
      BY <2>1 DEF Count, Home
    <3> QED
      BY <1>1, <3>1, <3>2
  <2>2. CASE TriggerFails(t)
    BY <2>2 DEF TriggerFails
  <2> QED
    BY <1>5, <2>1, <2>2
<1>6. ASSUME NEW p \in Pollers, Handle(p) \/ Skip(p) PROVE pc[s] = "handle" /\ call'[s] = call[s]
  <2>1. \A r \in Threads : r # p => call'[r] = call[r]
    BY <1>0, <1>6 DEF Handle, Skip
  <2>2. \E h : h # "handle" /\ pc' = [pc EXCEPT ![p] = h]
    BY <1>6 DEF Handle, Skip
  <2> QED
    BY <1>0, <1>1, <2>1, <2>2
<1>7. ASSUME NEW p \in Pollers, NEW fd \in Fds, NEW bits \in SUBSET Events, NEW err \in BOOLEAN, Report(p, fd, bits, err)
      PROVE  s = p \/ (pc[s] = "handle" /\ call'[s] = call[s])
  BY <1>0, <1>7 DEF Report
<1>8. CASE UNCHANGED vars
  BY <1>8 DEF vars
<1> QED
  BY <1>2, <1>3, <1>4, <1>5, <1>6, <1>7, <1>8 DEF Next, PollerStep, TriggerStep

\* epoll watches the context of a thread anew.
LEMMA WatchLive ==
    ASSUME TypeInv, MutexInv, LiveInv, NEW t \in Threads, pc[t] \in CtxPCs, NEW bits \in SUBSET Events,
           Watch(call[t].fd, Ctx(t), bits), bits \subseteq event'[Ctx(t)], mutex[Ctx(t)] = NoOne,
           \A y \in Contexts : y # Ctx(t) => event'[y] = event[y],
           \A s \in Threads : s # t => Same(s),
           pc'[t] \in HoldPCs => Ctx(t)' = Ctx(t) /\ Pending(t)' \cap bits = {}
    PROVE  LiveInv'
<1> DEFINE x == Ctx(t)
           f == call[t].fd
<1>0. NoOne \notin Threads
  BY EventAssumption DEF Threads
<1>1. f \in Fds /\ x \in {f} \X (1 .. MaxContexts) /\ x \in Contexts /\ x[1] = f
  BY CtxFacts
<1>2. /\ interest'[f] = IF bits = {} THEN Unwatched ELSE [bits |-> bits, ctx |-> x]
      /\ \A g \in Fds : g # f => interest'[g] = interest[g]
  BY <1>1, WatchFacts
<1> SUFFICES ASSUME NEW g \in Fds, NEW e \in Events, e \in interest'[g].bits
             PROVE  /\ e \in event'[interest'[g].ctx]
                    /\ \A s \in Threads : pc'[s] \in HoldPCs /\ Ctx(s)' = interest'[g].ctx => e \notin Pending(s)'
  BY DEF LiveInv
<1>3. ASSUME NEW s \in Threads, s # t, pc'[s] \in HoldPCs
      PROVE  pc[s] \in HoldPCs /\ Ctx(s)' = Ctx(s) /\ Pending(s)' = Pending(s) /\ Ctx(s) # x
  <2>1. pc[s] \in HoldPCs /\ Ctx(s)' = Ctx(s) /\ Pending(s)' = Pending(s)
    BY <1>3, SamePending
  <2> QED
    BY <1>0, <2>1 DEF MutexInv
<1>4. CASE g = f
  <2>1. interest'[g].ctx = x /\ e \in bits
    BY <1>2, <1>4 DEF Unwatched
  <2> QED
    BY <1>3, <2>1
<1>5. CASE g # f
  <2>1. interest'[g] = interest[g] /\ interest[g] # Unwatched
    BY <1>2, <1>5 DEF Unwatched
  <2>2. interest[g].ctx \in {g} \X (1 .. MaxContexts)
    BY <2>1 DEF TypeInv, InterestInv
  <2>3. interest[g].ctx # x /\ interest[g].ctx \in Contexts
    BY <1>1, <1>5, <2>2 DEF Contexts
  <2>4. e \in event[interest[g].ctx]
        /\ \A s \in Threads : pc[s] \in HoldPCs /\ Ctx(s) = interest[g].ctx => e \notin Pending(s)
    BY <2>1 DEF LiveInv
  <2> HIDE DEF x, f
  <2>5. ASSUME NEW s \in Threads, pc'[s] \in HoldPCs, Ctx(s)' = interest'[g].ctx PROVE e \notin Pending(s)'
    <3>1. CASE s = t
      BY <2>1, <2>3, <2>5, <3>1 DEF x
    <3>2. CASE s # t
      BY <1>3, <2>1, <2>4, <2>5, <3>2
    <3> QED
      BY <3>1, <3>2
  <2> QED
    BY <2>1, <2>3, <2>4, <2>5 DEF x
<1> QED
  BY <1>4, <1>5

LEMMA NextLive == TypeInv /\ StoredInv /\ MutexInv /\ LiveInv /\ [Next]_vars => LiveInv'
<1> SUFFICES ASSUME TypeInv, StoredInv, MutexInv, LiveInv, [Next]_vars PROVE LiveInv'
  OBVIOUS
<1>0. event \in [Contexts -> SUBSET Events] /\ Users \subseteq Threads
  BY DEF TypeInv, Types, Threads
<1>1. CASE Unlocked /\ UNCHANGED <<event, interest>>
  <2>1. \A s \in Threads : Same(s)
    BY <1>1 DEF Unlocked
  <2> QED
    BY <1>1, <2>1, SamePending DEF LiveInv
<1>2. ASSUME NEW u \in Users, AddRegister(u), Unlocked PROVE LiveInv'
  <2>1. PICK x \in Contexts, e \in Events :
             x = Ctx(u) /\ e = call[u].ev /\ event' = [event EXCEPT ![x] = @ \cup {e}] /\ pc[u] = "register"
             /\ pc' = [pc EXCEPT ![u] = "parked"]
    BY <1>2, RegisterFacts
  <2> DEFINE bits == event[x] \cup {e}
  <2>2. /\ Watch(call[u].fd, Ctx(u), bits) /\ bits \in SUBSET Events /\ mutex[Ctx(u)] = NoOne
        /\ \A y \in Contexts : y # Ctx(u) => event'[y] = event[y]
        /\ event'[Ctx(u)] = bits
    BY <1>0, <1>2, <2>1 DEF AddRegister, Locked
  <2>3. pc[u] \in CtxPCs /\ pc'[u] \notin HoldPCs /\ u \in Threads /\ \A s \in Threads : Same(s)
    BY <1>0, <1>2, <2>1 DEF CtxPCs, HoldPCs, Unlocked, TypeInv, Types
  <2> HIDE DEF bits
  <2> QED
    BY <2>2, <2>3, WatchLive
<1>3. ASSUME NEW u \in Users, Del(u), Unlocked PROVE LiveInv'
  <2> DEFINE bits == event[Ctx(u)] \ {call[u].ev}
  <2>1. pc[u] = "del" /\ mutex[Ctx(u)] = NoOne /\ Watch(call[u].fd, Ctx(u), bits) /\ event' = [event EXCEPT ![Ctx(u)] = bits]
    BY <1>3 DEF Del, At, Locked
  <2>2. pc[u] \in CtxPCs /\ pc[u] \notin HoldPCs /\ u \in Threads /\ \A s \in Threads : Same(s)
    BY <1>0, <1>3, <2>1 DEF CtxPCs, HoldPCs, Unlocked
  <2>3. Ctx(u) \in Contexts /\ bits \in SUBSET Events
    BY <2>2, CtxFacts
  <2>4. pc'[u] \notin HoldPCs
    BY <2>2, SamePending
  <2> HIDE DEF bits
  <2>5. event'[Ctx(u)] = bits /\ \A y \in Contexts : y # Ctx(u) => event'[y] = event[y]
    BY <1>0, <2>1, <2>3
  <2> QED
    BY <2>1, <2>2, <2>3, <2>4, <2>5, WatchLive
<1>4. ASSUME NEW t \in Threads, NEW S \in SUBSET Events, Grab(t, S) PROVE LiveInv'
  <2> DEFINE bits == event[Ctx(t)] \ S
  <2>1. /\ Watch(call[t].fd, Ctx(t), bits) /\ pc[t] \in CtxPCs /\ mutex[Ctx(t)] = NoOne
        /\ event' = event /\ call' = call /\ Pending(t)' = S
        /\ \A s \in Threads : s # t => Same(s)
    BY <1>4 DEF Grab
  <2>2. bits \in SUBSET Events /\ Ctx(t)' = Ctx(t) /\ bits \subseteq event'[Ctx(t)]
    BY <2>1, CtxFacts DEF Ctx
  <2>3. Pending(t)' \cap bits = {}
    BY <2>1
  <2> HIDE DEF bits
  <2> QED
    BY <2>1, <2>2, <2>3, WatchLive
<1>5. ASSUME NEW t \in Threads, Trigger(t) PROVE LiveInv'
  <2> DEFINE x == Ctx(t)
             h == Head(todo[t])
  <2>1. /\ pc[t] = "trigger" /\ x \in Contexts /\ event' = [event EXCEPT ![x] = @ \ {h}]
        /\ Ctx(t)' = x /\ Pending(t)' = Pending(t) \ {h} /\ \A s \in Threads : s # t => Same(s)
    BY <1>5, TriggerLock
  <2>2. interest' = interest
    BY <1>5 DEF Trigger
  <2>3. h \in Pending(t)
    BY <2>1, HeadPending
  <2> HIDE DEF x, h
  <2> SUFFICES ASSUME NEW f \in Fds, NEW e \in Events, e \in interest[f].bits
               PROVE  /\ e \in event'[interest[f].ctx]
                      /\ \A s \in Threads : pc'[s] \in HoldPCs /\ Ctx(s)' = interest[f].ctx => e \notin Pending(s)'
    BY <2>2 DEF LiveInv
  <2>4. e \in event[interest[f].ctx]
        /\ \A s \in Threads : pc[s] \in HoldPCs /\ Ctx(s) = interest[f].ctx => e \notin Pending(s)
    BY DEF LiveInv
  <2>5. interest[f].ctx = x => e # h
    BY <2>1, <2>3, <2>4 DEF HoldPCs, x
  <2>6. e \in event'[interest[f].ctx]
    <3>1. interest[f] # Unwatched
      BY DEF Unwatched
    <3>2. interest[f].ctx \in Contexts
      BY <3>1 DEF TypeInv, InterestInv, Contexts
    <3> QED
      BY <1>0, <2>1, <2>4, <2>5, <3>2
  <2>7. ASSUME NEW s \in Threads, pc'[s] \in HoldPCs, Ctx(s)' = interest[f].ctx PROVE e \notin Pending(s)'
    <3>1. CASE s = t
      BY <2>1, <2>4, <2>7, <3>1 DEF HoldPCs, x
    <3>2. CASE s # t
      BY <2>1, <2>4, <2>7, <3>2, SamePending
    <3> QED
      BY <3>1, <3>2
  <2> QED
    BY <2>6, <2>7
<1>6. ASSUME NEW t \in Threads, Count(t) PROVE LiveInv'
  <2>1. /\ pc[t] = "count" /\ event' = event /\ Pending(t)' = Pending(t) /\ \A s \in Threads : s # t => Same(s)
        /\ pc'[t] \in HoldPCs => call' = call
    BY <1>6, CountLock
  <2>2. interest' = interest
    BY <1>6 DEF Count
  <2>3. \A s \in Threads : pc'[s] \in HoldPCs => pc[s] \in HoldPCs /\ Ctx(s)' = Ctx(s) /\ Pending(s)' = Pending(s)
    <3> SUFFICES ASSUME NEW s \in Threads, pc'[s] \in HoldPCs
                 PROVE  pc[s] \in HoldPCs /\ Ctx(s)' = Ctx(s) /\ Pending(s)' = Pending(s)
      OBVIOUS
    <3>1. CASE s = t
      BY <2>1, <3>1 DEF HoldPCs, Ctx
    <3>2. CASE s # t
      BY <2>1, <3>2, SamePending
    <3> QED
      BY <3>1, <3>2
  <2> QED
    BY <2>1, <2>2, <2>3 DEF LiveInv
<1> QED
  BY <1>1, <1>2, <1>3, <1>4, <1>5, <1>6, LockSteps

LEMMA NextStale == TypeInv /\ HistoryInv /\ StoredInv /\ LiveInv /\ StaleInv /\ [Next]_vars => StaleInv'
<1> SUFFICES ASSUME TypeInv, HistoryInv, StoredInv, LiveInv, StaleInv, [Next]_vars, NEW s \in Threads, pc'[s] = "handle"
             PROVE  call'[s].bits \subseteq event'[Ctx(s)'] \cup since'[s]
  BY DEF StaleInv
<1>0. event \in [Contexts -> SUBSET Events] /\ call \in [Threads -> Calls]
  BY DEF TypeInv, Types
<1>1. CASE pc[s] = "handle" /\ call'[s] = call[s]
  <2>1. Ctx(s)' = Ctx(s) /\ Ctx(s) \in Contexts /\ call[s].bits \subseteq Events
    BY <1>1, CtxFacts DEF Ctx, CtxPCs
  <2>2. call[s].bits \subseteq event[Ctx(s)] \cup since[s] /\ since[s] \subseteq since'[s]
    BY <1>1, SinceSteps DEF StaleInv
  <2>3. CASE \A x \in Contexts : event[x] \subseteq event'[x]
    BY <1>1, <2>1, <2>2, <2>3
  <2>4. ASSUME NEW x \in Contexts, NEW e \in Events, event' = [event EXCEPT ![x] = @ \ {e}], Unregistered(x, e)
        PROVE  call[s].bits \subseteq event'[Ctx(s)] \cup since'[s]
    <3>1. Ctx(s) = x => since'[s] = since[s] \cup ({e} \cap call[s].bits)
      BY <1>1, <2>4 DEF Unregistered
    <3>2. Ctx(s) # x => event'[Ctx(s)] = event[Ctx(s)]
      BY <1>0, <2>1, <2>4
    <3>3. event'[x] = event[x] \ {e}
      BY <1>0, <2>4
    <3> QED
      BY <2>2, <3>1, <3>2, <3>3
  <2> QED
    BY <1>1, <2>1, <2>3, <2>4, EventSteps
<1>2. ASSUME NEW fd \in Fds, NEW bits \in SUBSET Events, NEW err \in BOOLEAN, Report(s, fd, bits, err)
      PROVE  call'[s].bits \subseteq event'[Ctx(s)']
  <2> DEFINE c == [NoCall EXCEPT !.fd = fd, !.ctx = interest[fd].ctx, !.bits = bits, !.err = err]
  <2>1. call' = [call EXCEPT ![s] = c] /\ event' = event /\ bits \subseteq interest[fd].bits
    BY <1>2 DEF Report, contextVars
  <2>2. c.bits = bits /\ c.ctx = interest[fd].ctx
    BY DEF NoCall
  <2> HIDE DEF c
  <2>3. call'[s] = c
    BY <1>0, <2>1
  <2>4. bits \subseteq event[interest[fd].ctx]
    BY <2>1 DEF LiveInv
  <2> QED
    BY <2>1, <2>2, <2>3, <2>4 DEF Ctx
<1> QED
  BY <1>1, <1>2, HandleSteps

\* Only a broad report makes a thread trigger what is not registered, and only what
\* was registered when epoll reported it.
LEMMA NextPending ==
    TypeInv /\ HistoryInv /\ StoredInv /\ MutexInv /\ StaleInv /\ PendingInv /\ [Next]_vars => PendingInv'
<1> SUFFICES ASSUME TypeInv, HistoryInv, StoredInv, MutexInv, StaleInv, PendingInv, [Next]_vars PROVE PendingInv'
  OBVIOUS
<1>0. /\ mutex \in [Contexts -> Threads \cup {NoOne}] /\ NoOne \notin Threads
      /\ event \in [Contexts -> SUBSET Events]
  BY EventAssumption DEF TypeInv, Types, Threads
<1>1. ASSUME NEW s \in Threads, pc'[s] \in HoldPCs
      PROVE  Pending(s)' \subseteq event'[Ctx(s)'] \cup Excused(s)'
  <2>9. since[s] \subseteq since'[s]
    BY <1>1, SinceSteps DEF HoldPCs
  <2>8. ASSUME call'[s] = call[s] PROVE Excused(s) \subseteq Excused(s)' /\ Ctx(s)' = Ctx(s)
    BY <2>8, <2>9 DEF Excused, Broad, Ctx
  <2>0. ASSUME Same(s)
        PROVE  /\ pc[s] \in HoldPCs /\ Ctx(s)' = Ctx(s) /\ mutex[Ctx(s)] = s /\ Ctx(s) \in Contexts
               /\ Pending(s)' \subseteq event[Ctx(s)] \cup Excused(s)'
    <3>1. pc[s] \in HoldPCs /\ call'[s] = call[s] /\ Pending(s)' = Pending(s)
      BY <1>1, <2>0, SamePending DEF Same
    <3>2. Ctx(s) \in Contexts
      BY <3>1, CtxFacts DEF HoldPCs, CtxPCs
    <3> QED
      BY <2>8, <3>1, <3>2 DEF MutexInv, PendingInv
  <2>1. CASE Unlocked
    BY <1>0, <2>0, <2>1 DEF Unlocked
  <2>2. ASSUME NEW t \in Threads, NEW S \in SUBSET Events, Grab(t, S)
        PROVE  Pending(s)' \subseteq event'[Ctx(s)'] \cup Excused(s)'
    <3>1. CASE s = t
      <4>1. Pending(t)' = S /\ S \subseteq event[Ctx(t)] \cup Told(t) /\ event' = event /\ call' = call
        BY <2>2 DEF Grab
      <4>2. Told(t) \subseteq event[Ctx(t)] \cup Excused(t)
        BY DEF Told, Excused, StaleInv
      <4> QED
        BY <2>8, <3>1, <4>1, <4>2
    <3>2. CASE s # t
      BY <2>0, <2>2, <3>2 DEF Grab
    <3> QED
      BY <3>1, <3>2
  <2>3. ASSUME NEW t \in Threads, Trigger(t) PROVE Pending(s)' \subseteq event'[Ctx(s)'] \cup Excused(s)'
    <3>1. CASE s = t
      <4>1. Pending(t) \subseteq event[Ctx(t)] \cup Excused(t)
        BY <2>3, TriggerLock DEF PendingInv, HoldPCs
      <4>2. call' = call
        BY <2>3 DEF Trigger
      <4> QED
        BY <1>0, <2>3, <2>8, <3>1, <4>1, <4>2, TriggerLock
    <3>2. CASE s # t
      <4>1. mutex[Ctx(t)] = t
        BY <2>3, TriggerLock DEF MutexInv, HoldPCs
      <4>2. Same(s)
        BY <2>3, <3>2, TriggerLock
      <4>3. Ctx(s) # Ctx(t)
        BY <2>0, <3>2, <4>1, <4>2
      <4>4. event'[Ctx(s)] = event[Ctx(s)]
        BY <1>0, <2>0, <2>3, <4>2, <4>3, TriggerLock
      <4> QED
        BY <2>0, <4>2, <4>4
    <3> QED
      BY <3>1, <3>2
  <2>4. ASSUME NEW t \in Threads, Count(t) PROVE Pending(s)' \subseteq event'[Ctx(s)'] \cup Excused(s)'
    <3>1. CASE s = t
      <4>1. pc[t] \in HoldPCs /\ call' = call /\ event' = event /\ Pending(t)' = Pending(t)
        BY <1>1, <2>4, <3>1, CountLock DEF HoldPCs
      <4> QED
        BY <2>8, <3>1, <4>1 DEF PendingInv
    <3>2. CASE s # t
      BY <2>0, <2>4, <3>2, CountLock
    <3> QED
      BY <3>1, <3>2
  <2> QED
    BY <2>1, <2>2, <2>3, <2>4, LockSteps
<1>2. fault' => \E t \in Threads : Failing(t)'
  <2>1. CASE UNCHANGED vars
    BY <2>1 DEF vars, threadVars, contextVars, PendingInv, Failing, Ctx
  <2>2. ASSUME NEW t \in Threads, TriggerFails(t) PROVE Failing(t)'
    BY <2>2 DEF TriggerFails, At, threadVars, contextVars, Failing, Ctx
  <2> QED
    BY <2>1, <2>2, FaultSteps
<1> QED
  BY <1>1, <1>2 DEF PendingInv

LockAll == TypeInv /\ HistoryInv /\ StoredInv /\ MutexInv /\ LiveInv /\ StaleInv /\ PendingInv

LEMMA LockInv == Spec => []LockAll
<1>1. Init => HistoryInv /\ MutexInv /\ LiveInv /\ StaleInv /\ PendingInv
  <2>1. Init => fault = FALSE /\ \A t \in Threads : pc[t] \notin HoldPCs /\ pc[t] # "handle"
    BY DEF Init, HoldPCs
  <2>2. Init => \A f \in Fds : interest[f].bits = {}
    BY DEF Init, Unwatched
  <2>3. Init => HistoryInv
    BY DEF Init, HistoryInv
  <2> QED
    BY <2>1, <2>2, <2>3 DEF MutexInv, PendingInv, LiveInv, StaleInv
<1>2. Init => LockAll
  BY <1>1, InitType, InitStored DEF LockAll
<1>3. LockAll /\ [Next]_vars => LockAll'
  BY NextType, SinceSteps, NextStored, NextMutex, NextLive, NextStale, NextPending DEF LockAll
<1> QED
  BY <1>2, <1>3, PTL DEF Spec

\* The assertion of addEvent() never fails, and the one of triggerEvent() only in a
\* poller that handles a report of both events or of an error, for an event that was
\* reported to it and that another thread has unregistered since: the threads that
\* cancel, and the pollers with one reported event, trigger what is registered.
THEOREM AssertsHold == Spec => []FaultOnlyStale
<1>1. LockAll => FaultOnlyStale
  <2> SUFFICES ASSUME TypeInv, PendingInv PROVE FaultOnlyStale
    BY DEF LockAll
  <2>1. ASSUME NEW t \in Threads, Failing(t)
        PROVE  Broad(t) /\ Head(todo[t]) \in call[t].bits \cap since[t]
    <3>1. Head(todo[t]) \in Pending(t) /\ pc[t] \in HoldPCs /\ Head(todo[t]) \notin event[Ctx(t)]
      BY <2>1, HeadPending DEF Failing, HoldPCs
    <3>2. Head(todo[t]) \in Excused(t)
      BY <3>1 DEF PendingInv
    <3> QED
      BY <3>2 DEF Excused
  <2> QED
    BY <2>1 DEF PendingInv, FaultOnlyStale, Broad
<1> QED
  BY <1>1, LockInv, PTL

-----------------------------------------------------------------------------
(* What epoll watches.                                                     *)

LEMMA TableSteps ==
    ASSUME [Next]_vars
    PROVE  (tableVars' = tableVars /\ late' = late) \/ \E u \in Users : AddGrow(u)
BY ZenonT(60) DEF Next, vars, history, tableVars, UserStep, PollerStep, TriggerStep, AddFind, AddRegister, AddRefused, Find, Del, Cancel,
       CancelAll, CancelRefused, Report, Handle, Skip, Trigger, TriggerFails, Count

\* The mutex of a context that a thread may use is free: what is registered in it is
\* watched, so epoll watches no other context of the descriptor.
LEMMA FreeWatched ==
    ASSUME TypeInv, MutexInv, WatchedInv, NEW x \in Contexts, mutex[x] = NoOne, event[x] # {}
    PROVE  interest[x[1]].ctx = x
<1>1. PICK e \in event[x] : TRUE
  OBVIOUS
<1>2. \A t \in Threads : pc[t] \in HoldPCs => Ctx(t) # x
  BY EventAssumption DEF MutexInv, Threads
<1> QED
  BY <1>1, <1>2 DEF WatchedInv

\* What is registered stays watched, or is about to be triggered.
LEMMA NextWatched ==
    ASSUME TypeInv, StoredInv, MutexInv, WatchedInv, [Next]_vars
    PROVE  WatchedInv'
<1>0. /\ mutex \in [Contexts -> Threads \cup {NoOne}] /\ NoOne \notin Threads /\ Users \subseteq Threads
      /\ event \in [Contexts -> SUBSET Events]
      /\ \A y \in Contexts : y[1] \in Fds /\ y[2] \in 1 .. MaxContexts /\ y = <<y[1], y[2]>>
  BY EventAssumption DEF TypeInv, Types, Threads, Contexts
<1>2. ASSUME NEW s \in Threads, Same(s), NEW y \in Contexts, NEW e, pc[s] \in HoldPCs /\ Ctx(s) = y /\ e \in Pending(s)
      PROVE  pc'[s] \in HoldPCs /\ Ctx(s)' = y /\ e \in Pending(s)'
  BY <1>2, SamePending
<1>3. CASE Unlocked /\ UNCHANGED <<event, interest>>
  <2>1. \A s \in Threads : Same(s)
    BY <1>3 DEF Unlocked
  <2> SUFFICES ASSUME NEW y \in Contexts, NEW e \in event[y]
               PROVE  \/ interest[y[1]].ctx = y /\ e \in interest[y[1]].bits
                      \/ \E t \in Threads : pc'[t] \in HoldPCs /\ Ctx(t)' = y /\ e \in Pending(t)'
    BY <1>3 DEF WatchedInv
  <2> QED
    BY <1>2, <2>1 DEF WatchedInv
\* The context of a thread t is watched anew, for the events in "bits"; the others of
\* its context are pending.
<1>4. ASSUME NEW t \in Threads, pc[t] \in CtxPCs, NEW bits \in SUBSET Events, Watch(call[t].fd, Ctx(t), bits),
             interest[call[t].fd] = Unwatched \/ interest[call[t].fd].ctx = Ctx(t),
             \A y \in Contexts : y # Ctx(t) => event'[y] = event[y],
             \A s \in Threads : s # t => Same(s),
             pc[t] \notin HoldPCs,
             \A e \in event'[Ctx(t)] : e \in bits \/ (pc'[t] \in HoldPCs /\ Ctx(t)' = Ctx(t) /\ e \in Pending(t)')
      PROVE  WatchedInv'
  <2> DEFINE x == Ctx(t)
             f == call[t].fd
  <2>1. f \in Fds /\ x \in {f} \X (1 .. MaxContexts) /\ x \in Contexts /\ x[1] = f
    BY <1>4, CtxFacts
  <2>3. /\ interest'[f] = IF bits = {} THEN Unwatched ELSE [bits |-> bits, ctx |-> x]
        /\ \A g \in Fds : g # f => interest'[g] = interest[g]
    BY <1>4, <2>1, WatchFacts
  <2> SUFFICES ASSUME NEW y \in Contexts, NEW e \in event'[y]
               PROVE  \/ interest'[y[1]].ctx = y /\ e \in interest'[y[1]].bits
                      \/ \E s \in Threads : pc'[s] \in HoldPCs /\ Ctx(s)' = y /\ e \in Pending(s)'
    BY DEF WatchedInv
  <2>4. CASE y = x
    <3>2. CASE e \in bits
      BY <2>1, <2>3, <2>4, <3>2
    <3>3. CASE e \notin bits
      BY <1>4, <2>4, <3>3
    <3> QED
      BY <3>2, <3>3
  <2>5. CASE y # x
    <3> HIDE DEF x
    <3>1. e \in event[y]
      BY <1>4, <2>5 DEF x
    <3>5. ASSUME interest[y[1]].ctx = y /\ e \in interest[y[1]].bits
          PROVE  interest'[y[1]].ctx = y /\ e \in interest'[y[1]].bits
      <4>1. y[1] # f
        BY <1>4, <2>5, <3>5 DEF Unwatched, x
      <4> QED
        BY <1>0, <2>3, <3>5, <4>1
    <3>6. ASSUME NEW s \in Threads, pc[s] \in HoldPCs /\ Ctx(s) = y /\ e \in Pending(s)
          PROVE  pc'[s] \in HoldPCs /\ Ctx(s)' = y /\ e \in Pending(s)'
      <4>1. s # t
        BY <1>4, <3>6
      <4>2. Same(s)
        BY <1>4, <4>1
      <4> QED
        BY <1>2, <3>6, <4>2
    <3> QED
      BY <3>1, <3>5, <3>6 DEF WatchedInv
  <2> QED
    BY <2>4, <2>5
<1>5. ASSUME NEW u \in Users, AddRegister(u) PROVE WatchedInv'
  <2>1. PICK x \in Contexts, e \in Events :
             x = Ctx(u) /\ e = call[u].ev /\ event' = [event EXCEPT ![x] = @ \cup {e}] /\ pc[u] = "register"
    BY <1>5, RegisterFacts
  <2> DEFINE bits == event[x] \cup {e}
  <2>2. /\ Watch(call[u].fd, Ctx(u), bits) /\ bits \in SUBSET Events /\ mutex[Ctx(u)] = NoOne
        /\ \A y \in Contexts : y # Ctx(u) => event'[y] = event[y]
        /\ event'[Ctx(u)] = bits
    BY <1>0, <1>5, <2>1 DEF AddRegister, Locked
  <2>3. pc[u] \in CtxPCs /\ pc[u] \notin HoldPCs /\ u \in Threads /\ \A s \in Threads : Same(s)
    BY <1>0, <1>5, <2>1, RegisterUnlocked DEF CtxPCs, HoldPCs, Unlocked
  <2>4. interest[call[u].fd] = Unwatched \/ interest[call[u].fd].ctx = Ctx(u)
    <3>1. CASE event[x] = {}
      BY <1>5, <2>1, <3>1 DEF AddRegister, CtlAccepts
    <3>2. CASE event[x] # {}
      BY <2>1, <2>2, <2>3, <3>2, CtxFacts, FreeWatched
    <3> QED
      BY <3>1, <3>2
  <2> HIDE DEF bits
  <2> QED
    BY <1>4, <2>2, <2>3, <2>4
<1>6. ASSUME NEW u \in Users, Del(u) PROVE WatchedInv'
  <2> DEFINE bits == event[Ctx(u)] \ {call[u].ev}
  <2>1. pc[u] = "del" /\ mutex[Ctx(u)] = NoOne /\ Watch(call[u].fd, Ctx(u), bits) /\ event' = [event EXCEPT ![Ctx(u)] = bits]
        /\ event[Ctx(u)] # {}
    BY <1>6 DEF Del, At, Locked
  <2>2. pc[u] \in CtxPCs /\ pc[u] \notin HoldPCs /\ u \in Threads /\ \A s \in Threads : Same(s)
    BY <1>0, <1>6, <2>1, DelUnlocked DEF CtxPCs, HoldPCs, Unlocked
  <2>3. Ctx(u) \in Contexts /\ bits \in SUBSET Events /\ Ctx(u)[1] = call[u].fd
    BY <2>2, CtxFacts
  <2> HIDE DEF bits
  <2>4. event'[Ctx(u)] = bits /\ \A y \in Contexts : y # Ctx(u) => event'[y] = event[y]
    BY <1>0, <2>1, <2>3
  <2>5. interest[call[u].fd].ctx = Ctx(u)
    BY <2>1, <2>3, FreeWatched
  <2> QED
    BY <1>4, <2>1, <2>2, <2>3, <2>4, <2>5
<1>7. ASSUME NEW t \in Threads, NEW S \in SUBSET Events, Grab(t, S) PROVE WatchedInv'
  <2> DEFINE bits == event[Ctx(t)] \ S
  <2>1. /\ Watch(call[t].fd, Ctx(t), bits) /\ pc[t] \in CtxPCs /\ pc[t] \notin HoldPCs /\ mutex[Ctx(t)] = NoOne
        /\ event' = event /\ call' = call /\ pc' = [pc EXCEPT ![t] = "trigger"] /\ Pending(t)' = S
        /\ event[Ctx(t)] # {} /\ \A s \in Threads : s # t => Same(s)
    BY <1>7 DEF Grab
  <2>2. bits \in SUBSET Events /\ pc'[t] \in HoldPCs /\ Ctx(t)' = Ctx(t)
    BY <2>1, CtxFacts DEF HoldPCs, Ctx, TypeInv, Types
  <2>3. \A e \in event'[Ctx(t)] : e \in bits \/ e \in Pending(t)'
    BY <2>1
  <2>4. interest[call[t].fd].ctx = Ctx(t)
    BY <2>1, CtxFacts, FreeWatched
  <2> HIDE DEF bits
  <2> QED
    BY <1>4, <2>1, <2>2, <2>3, <2>4
<1>8. ASSUME NEW t \in Threads, Trigger(t) PROVE WatchedInv'
  <2> DEFINE x == Ctx(t)
             h == Head(todo[t])
  <2>1. /\ pc[t] = "trigger" /\ pc'[t] = "count" /\ x \in Contexts /\ event' = [event EXCEPT ![x] = @ \ {h}]
        /\ Ctx(t)' = x /\ Pending(t)' = Pending(t) \ {h} /\ \A s \in Threads : s # t => Same(s)
    BY <1>8, TriggerLock
  <2>2. interest' = interest
    BY <1>8 DEF Trigger
  <2> SUFFICES ASSUME NEW y \in Contexts, NEW e \in event'[y]
               PROVE  \/ interest[y[1]].ctx = y /\ e \in interest[y[1]].bits
                      \/ \E s \in Threads : pc'[s] \in HoldPCs /\ Ctx(s)' = y /\ e \in Pending(s)'
    BY <2>2 DEF WatchedInv
  <2> HIDE DEF x, h
  <2>3. e \in event[y] /\ (y = x => e # h)
    BY <1>0, <2>1
  <2>4. ASSUME NEW s \in Threads, pc[s] \in HoldPCs /\ Ctx(s) = y /\ e \in Pending(s)
        PROVE  pc'[s] \in HoldPCs /\ Ctx(s)' = y /\ e \in Pending(s)'
    <3>1. CASE s = t
      BY <2>1, <2>3, <2>4, <3>1 DEF x, HoldPCs
    <3>2. CASE s # t
      BY <1>2, <2>1, <2>4, <3>2
    <3> QED
      BY <3>1, <3>2
  <2> QED
    BY <2>3, <2>4 DEF WatchedInv
<1>9. ASSUME NEW t \in Threads, Count(t) PROVE WatchedInv'
  <2>1. /\ pc[t] = "count" /\ event' = event /\ Pending(t)' = Pending(t) /\ \A s \in Threads : s # t => Same(s)
        /\ \/ pc'[t] = "trigger" /\ call' = call
           \/ Pending(t) = {}
    BY <1>9, CountLock
  <2>2. interest' = interest
    BY <1>9 DEF Count
  <2> SUFFICES ASSUME NEW y \in Contexts, NEW e \in event[y]
               PROVE  \/ interest[y[1]].ctx = y /\ e \in interest[y[1]].bits
                      \/ \E s \in Threads : pc'[s] \in HoldPCs /\ Ctx(s)' = y /\ e \in Pending(s)'
    BY <2>1, <2>2 DEF WatchedInv
  <2>4. ASSUME NEW s \in Threads, pc[s] \in HoldPCs /\ Ctx(s) = y /\ e \in Pending(s)
        PROVE  pc'[s] \in HoldPCs /\ Ctx(s)' = y /\ e \in Pending(s)'
    <3>1. CASE s = t
      <4>1. pc'[t] = "trigger" /\ call' = call
        BY <2>1, <2>4, <3>1
      <4> QED
        BY <2>1, <2>4, <3>1, <4>1 DEF HoldPCs, Ctx
    <3>2. CASE s # t
      BY <1>2, <2>1, <2>4, <3>2
    <3> QED
      BY <3>1, <3>2
  <2> QED
    BY <2>4 DEF WatchedInv
<1> QED
  BY <1>3, <1>5, <1>6, <1>7, <1>8, <1>9, LockSteps

-----------------------------------------------------------------------------
(* The index of a context.                                                 *)

\* Resizing the vector for a descriptor that it has no room for loses no context.
LEMMA GrowKeeps ==
    ASSUME TypeInv, NEW u \in Users, AddGrow(u), ~ late', late \in BOOLEAN,
           \A f \in Fds : m_fd_contexts[f] # 0 => f < size
    PROVE  /\ ~ late
           /\ \A f \in Fds : m_fd_contexts[f] # 0 => m_fd_contexts'[f] = m_fd_contexts[f]
           /\ \A f \in Fds : m_fd_contexts'[f] # 0 => f < size'
           /\ InTable(Ctx(u))'
<1> DEFINE fd == call[u].fd
           n  == (fd * 3) \div 2
<1>1. u \in Threads /\ fd \in Fds /\ fd >= 2 /\ fd \in Nat /\ size \in Nat
  BY EventAssumption DEF AddGrow, At, Threads, TypeInv, CallInv, Types
<1>2. ~ late /\ ~ (size > fd)
  BY DEF AddGrow
<1>3. n \in Nat /\ fd < n /\ size <= n /\ Fds \subseteq Nat
  BY <1>1, <1>2, EventAssumption
<1>4. /\ m_fd_contexts' = [f \in Fds |-> Resized(n, f)] /\ size' = n
      /\ call' = [call EXCEPT ![u].ctx = <<fd, Resized(n, fd)>>]
  BY DEF AddGrow
<1> HIDE DEF n
<1>5. \A f \in Fds : m_fd_contexts[f] # 0 => Resized(n, f) = m_fd_contexts[f]
  BY <1>1, <1>3 DEF Resized
<1>6. \A f \in Fds : Resized(n, f) # 0 => f < n
  BY <1>3 DEF Resized
<1>7. Ctx(u)' = <<fd, Resized(n, fd)>>
  BY <1>1, <1>4 DEF Ctx, TypeInv, Types, Calls
<1> QED
  BY <1>1, <1>2, <1>4, <1>5, <1>6, <1>7 DEF InTable

\* Where the context of a thread comes from.
LEMMA ContextSteps ==
    ASSUME TypeInv, StoredInv, [Next]_vars, NEW s \in Threads, pc'[s] \in CtxPCs
    PROVE  \/ pc[s] \in CtxPCs /\ Ctx(s)' = Ctx(s)
           \/ s \in Users /\ AddGrow(s)
           \/ /\ tableVars' = tableVars /\ late' = late
              /\ \/ \E fd \in Fds : Ctx(s)' = <<fd, m_fd_contexts[fd]>>
                 \/ \E f \in Fds : interest[f] # Unwatched /\ Ctx(s)' = interest[f].ctx
<1> USE DEF At, Goto, threadVars
<1>0. /\ pc \in [Threads -> PCs] /\ call \in [Threads -> Calls] /\ Users \subseteq Threads /\ Pollers \subseteq Threads
  BY DEF TypeInv, Types, Threads
<1>1. ASSUME NEW u \in Threads, s # u, \A r \in Threads : r # u => call'[r] = call[r],
             pc'[s] = pc[s] \/ pc'[s] \notin CtxPCs
      PROVE  pc[s] \in CtxPCs /\ Ctx(s)' = Ctx(s)
  BY <1>1 DEF Ctx
<1>2. ASSUME NEW u \in Users, NEW fd \in Fds, NEW ev \in Events,
             AddFind(u, fd, ev) \/ \E op \in Ops : Find(u, op, fd, ev)
      PROVE  \/ pc[s] \in CtxPCs /\ Ctx(s)' = Ctx(s)
             \/ tableVars' = tableVars /\ late' = late /\ Ctx(s)' = <<fd, m_fd_contexts[fd]>>
  <2>1. \A r \in Threads : r # u => call'[r] = call[r] /\ pc'[r] = pc[r]
    BY <1>0, <1>2 DEF AddFind, Find, Lookup
  <2>2. CASE s = u
    <3>1. Lookup(u, fd, ev) /\ tableVars' = tableVars /\ late' = late
      BY <1>0, <1>2, <2>2 DEF AddFind, Find, CtxPCs, history
    <3> QED
      BY <1>0, <2>2, <3>1 DEF Lookup, NoCall, Ctx
  <2> QED
    BY <1>0, <1>1, <2>1, <2>2
<1>3. ASSUME NEW u \in Users, AddGrow(u) PROVE (s \in Users /\ AddGrow(s)) \/ (pc[s] \in CtxPCs /\ Ctx(s)' = Ctx(s))
  <2>1. \A r \in Threads : r # u => call'[r] = call[r] /\ pc'[r] = pc[r]
    BY <1>0, <1>3 DEF AddGrow
  <2> QED
    BY <1>0, <1>1, <1>3, <2>1
<1>4. ASSUME NEW u \in Threads, AddRegister(u) \/ AddRefused(u) \/ CancelRefused(u) \/ Skip(u)
      PROVE  pc[s] \in CtxPCs /\ Ctx(s)' = Ctx(s)
  <2>1. /\ call' = [call EXCEPT ![u] = NoCall]
        /\ \E h \in {"parked", "run", "wait"} : pc' = [pc EXCEPT ![u] = h]
    BY <1>4 DEF AddRegister, AddRefused, CancelRefused, Skip
  <2> QED
    BY <1>0, <2>1 DEF CtxPCs, Ctx
<1>5. ASSUME NEW u \in Users, Del(u) PROVE pc[s] \in CtxPCs /\ Ctx(s)' = Ctx(s)
  <2>1. PICK x \in Contexts, e \in Events : Taken(u, x, e, "run", "dropped")
    BY <1>5, DelFacts
  <2>2. pc' = [pc EXCEPT ![u] = "run", ![waiter[x][e]] = "dropped"] /\ \A r \in Threads : r # u => call'[r] = call[r]
    BY <1>0, <1>5, <2>1 DEF Taken, Del
  <2> QED
    BY <1>0, <2>2 DEF CtxPCs, Ctx
<1>6. ASSUME NEW t \in Threads, \E S : Grab(t, S) PROVE pc[s] \in CtxPCs /\ Ctx(s)' = Ctx(s)
  BY <1>0, <1>6 DEF Grab, Ctx
<1>7. ASSUME NEW t \in Threads, Trigger(t) PROVE pc[s] \in CtxPCs /\ Ctx(s)' = Ctx(s)
  <2>1. PICK x \in Contexts, e \in Events : Taken(t, x, e, "count", "run") /\ pc[t] = "trigger"
    BY <1>7, TriggerFacts
  <2>2. pc' = [pc EXCEPT ![t] = "count", ![waiter[x][e]] = "run"] /\ call' = call
    BY <1>7, <2>1 DEF Taken, Trigger
  <2> QED
    BY <1>0, <2>1, <2>2 DEF CtxPCs, Ctx
<1>8. ASSUME NEW t \in Threads, Count(t) \/ TriggerFails(t) PROVE pc[s] \in CtxPCs /\ Ctx(s)' = Ctx(s)
  <2>1. CASE Count(t)
    <3>1. /\ pc[t] = "count"
          /\ \/ call' = call /\ pc' = [pc EXCEPT ![t] = "trigger"]
             \/ call' = [call EXCEPT ![t] = NoCall] /\ \E h \in {"run", "wait"} : pc' = [pc EXCEPT ![t] = h]
      BY <2>1 DEF Count, Home
    <3> QED
      BY <1>0, <3>1 DEF CtxPCs, Ctx
  <2>2. CASE TriggerFails(t)
    BY <2>2 DEF TriggerFails, Ctx
  <2> QED
    BY <1>8, <2>1, <2>2
<1>9. ASSUME NEW p \in Pollers, NEW fd \in Fds, NEW bits \in SUBSET Events, NEW err \in BOOLEAN, Report(p, fd, bits, err)
      PROVE  \/ pc[s] \in CtxPCs /\ Ctx(s)' = Ctx(s)
             \/ tableVars' = tableVars /\ late' = late /\ interest[fd] # Unwatched /\ Ctx(s)' = interest[fd].ctx
  <2>1. \A r \in Threads : r # p => call'[r] = call[r] /\ pc'[r] = pc[r]
    BY <1>0, <1>9 DEF Report
  <2>2. CASE s = p
    <3>1. tableVars' = tableVars /\ late' = late /\ interest[fd] # Unwatched
      BY <1>9 DEF Report, history
    <3> QED
      BY <1>0, <1>9, <2>2, <3>1 DEF Report, NoCall, Ctx
  <2> QED
    BY <1>0, <1>1, <2>1, <2>2
<1>10. CASE UNCHANGED vars
  BY <1>10 DEF vars, Ctx
<1> QED
  BY <1>0, <1>2, <1>3, <1>4, <1>5, <1>6, <1>7, <1>8, <1>9, <1>10, CancelGrab, HandleGrab
  DEF Next, UserStep, PollerStep, TriggerStep

\* What epoll watches and what is registered belong to a thread or were there before.
LEMMA UseSteps ==
    ASSUME TypeInv, StoredInv, [Next]_vars
    PROVE  /\ \A f \in Fds : \/ interest'[f] = Unwatched \/ interest'[f] = interest[f]
                             \/ \E t \in Threads : pc[t] \in CtxPCs /\ interest'[f].ctx = Ctx(t)
           /\ \A x \in Contexts : event'[x] # {} => event[x] # {} \/ \E t \in Threads : pc[t] \in CtxPCs /\ x = Ctx(t)
<1>0. event \in [Contexts -> SUBSET Events] /\ Users \subseteq Threads
  BY DEF TypeInv, Types, Threads
<1>1. ASSUME NEW t \in Threads, pc[t] \in CtxPCs, NEW bits \in SUBSET Events, Watch(call[t].fd, Ctx(t), bits), NEW f \in Fds
      PROVE  interest'[f] = Unwatched \/ interest'[f] = interest[f] \/ interest'[f].ctx = Ctx(t)
  <2>1. call[t].fd \in Fds /\ Ctx(t) \in {call[t].fd} \X (1 .. MaxContexts)
    BY <1>1, CtxFacts
  <2>2. interest' = [interest EXCEPT ![call[t].fd] = IF bits = {} THEN Unwatched ELSE [bits |-> bits, ctx |-> Ctx(t)]]
        /\ interest \in [Fds -> Watches]
    BY <1>1 DEF Watch, TypeInv, Types
  <2>3. CASE f # call[t].fd
    BY <2>1, <2>2, <2>3
  <2>4. CASE f = call[t].fd /\ bits = {}
    BY <2>1, <2>2, <2>4
  <2>5. CASE f = call[t].fd /\ bits # {}
    <3>1. interest'[f] = [bits |-> bits, ctx |-> Ctx(t)]
      BY <2>1, <2>2, <2>5
    <3> QED
      BY <3>1
  <2> QED
    BY <2>3, <2>4, <2>5
<1>2. ASSUME NEW u \in Users, AddRegister(u)
      PROVE  /\ u \in Threads /\ pc[u] \in CtxPCs /\ \E bits \in SUBSET Events : Watch(call[u].fd, Ctx(u), bits)
             /\ \A x \in Contexts : x # Ctx(u) => event'[x] = event[x]
  <2>1. PICK x \in Contexts, e \in Events :
             x = Ctx(u) /\ e = call[u].ev /\ event' = [event EXCEPT ![x] = @ \cup {e}] /\ pc[u] = "register"
    BY <1>2, RegisterFacts
  <2>2. event[x] \cup {e} \in SUBSET Events /\ Watch(call[u].fd, Ctx(u), event[x] \cup {e})
    BY <1>0, <1>2, <2>1 DEF AddRegister
  <2> QED
    BY <1>0, <2>1, <2>2 DEF CtxPCs
<1>3. ASSUME NEW u \in Users, Del(u)
      PROVE  /\ u \in Threads /\ pc[u] \in CtxPCs /\ \E bits \in SUBSET Events : Watch(call[u].fd, Ctx(u), bits)
             /\ \A x \in Contexts : x # Ctx(u) => event'[x] = event[x]
  <2>1. pc[u] = "del" /\ Watch(call[u].fd, Ctx(u), event[Ctx(u)] \ {call[u].ev})
        /\ event' = [event EXCEPT ![Ctx(u)] = event[Ctx(u)] \ {call[u].ev}]
    BY <1>3 DEF Del, At
  <2>2. u \in Threads /\ pc[u] \in CtxPCs
    BY <1>0, <2>1 DEF CtxPCs
  <2>3. event[Ctx(u)] \ {call[u].ev} \in SUBSET Events /\ Ctx(u) \in Contexts
    BY <2>2, CtxFacts
  <2> QED
    BY <1>0, <2>1, <2>2, <2>3
<1>4. ASSUME NEW t \in Threads, NEW S \in SUBSET Events, Grab(t, S)
      PROVE  pc[t] \in CtxPCs /\ event' = event /\ \E bits \in SUBSET Events : Watch(call[t].fd, Ctx(t), bits)
  <2>1. pc[t] \in CtxPCs /\ event' = event /\ Watch(call[t].fd, Ctx(t), event[Ctx(t)] \ S)
    BY <1>4 DEF Grab
  <2>2. event[Ctx(t)] \ S \in SUBSET Events
    BY <2>1, CtxFacts
  <2> QED
    BY <2>1, <2>2
<1>5. ASSUME NEW t \in Threads, Trigger(t) PROVE interest' = interest /\ \A x \in Contexts : event'[x] \subseteq event[x]
  BY <1>0, <1>5, TriggerLock DEF Trigger
<1>6. ASSUME NEW t \in Threads, Count(t) PROVE interest' = interest /\ event' = event
  BY <1>6 DEF Count, contextVars
<1> QED
  BY <1>0, <1>1, <1>2, <1>3, <1>4, <1>5, <1>6, LockSteps

LEMMA NextIndex == ASSUME TypeInv, HistoryInv, StoredInv, IndexInv, [Next]_vars PROVE IndexInv'
<1> SUFFICES ASSUME ~ late'
             PROVE  /\ \A f \in Fds : m_fd_contexts'[f] # 0 => f < size'
                    /\ \A t \in Threads : pc'[t] \in CtxPCs => InTable(Ctx(t))'
                    /\ \A f \in Fds : interest'[f] # Unwatched => InTable(interest[f].ctx)'
                    /\ \A x \in Contexts : event'[x] # {} => InTable(x)'
  BY DEF IndexInv
<1>1. ~ late
  <2>1. late' = late \/ \E u \in Users : late' = (late \/ size > call[u].fd)
    BY TableSteps DEF AddGrow
  <2> QED
    BY <2>1 DEF HistoryInv
<1>2. /\ \A f \in Fds : m_fd_contexts[f] # 0 => f < size
      /\ \A t \in Threads : pc[t] \in CtxPCs => InTable(Ctx(t))
      /\ \A f \in Fds : interest[f] # Unwatched => InTable(interest[f].ctx)
      /\ \A x \in Contexts : event[x] # {} => InTable(x)
  BY <1>1 DEF IndexInv
<1>3. /\ \A f \in Fds : m_fd_contexts[f] # 0 => m_fd_contexts'[f] = m_fd_contexts[f]
      /\ \A f \in Fds : m_fd_contexts'[f] # 0 => f < size'
  <2>1. CASE tableVars' = tableVars
    BY <1>2, <2>1 DEF tableVars
  <2>2. ASSUME NEW u \in Users, AddGrow(u)
        PROVE  /\ \A f \in Fds : m_fd_contexts[f] # 0 => m_fd_contexts'[f] = m_fd_contexts[f]
               /\ \A f \in Fds : m_fd_contexts'[f] # 0 => f < size'
    BY <1>2, <2>2, GrowKeeps DEF HistoryInv
  <2> QED
    BY <2>1, <2>2, TableSteps
\* A context that is in the vector stays in it.
<1>4. ASSUME NEW x \in Contexts, InTable(x) PROVE m_fd_contexts'[x[1]] = x[2]
  BY <1>3, <1>4 DEF InTable, Contexts
<1>5. ASSUME NEW t \in Threads, pc[t] \in CtxPCs PROVE Ctx(t) \in Contexts /\ m_fd_contexts'[Ctx(t)[1]] = Ctx(t)[2]
  BY <1>2, <1>4, <1>5, CtxFacts
<1>6. ASSUME NEW f \in Fds, interest[f] # Unwatched PROVE m_fd_contexts'[interest[f].ctx[1]] = interest[f].ctx[2]
  <2>1. interest[f].ctx \in Contexts
    BY <1>6 DEF TypeInv, InterestInv, Contexts
  <2> QED
    BY <1>2, <1>4, <1>6, <2>1
<1>7. ASSUME NEW t \in Threads, pc'[t] \in CtxPCs PROVE InTable(Ctx(t))'
  <2>1. CASE pc[t] \in CtxPCs /\ Ctx(t)' = Ctx(t)
    BY <1>5, <2>1 DEF InTable
  <2>2. CASE t \in Users /\ AddGrow(t)
    BY <1>2, <2>2, GrowKeeps DEF HistoryInv
  <2>3. ASSUME NEW fd \in Fds, tableVars' = tableVars, Ctx(t)' = <<fd, m_fd_contexts[fd]>> PROVE InTable(Ctx(t))'
    BY <2>3 DEF InTable, tableVars
  <2>4. ASSUME NEW f \in Fds, interest[f] # Unwatched, Ctx(t)' = interest[f].ctx PROVE InTable(Ctx(t))'
    BY <1>6, <2>4 DEF InTable
  <2> QED
    BY <1>7, <2>1, <2>2, <2>3, <2>4, ContextSteps
<1>8. ASSUME NEW f \in Fds, interest'[f] # Unwatched PROVE InTable(interest[f].ctx)'
  BY <1>5, <1>6, <1>8, UseSteps DEF InTable
<1>9. ASSUME NEW x \in Contexts, event'[x] # {} PROVE InTable(x)'
  BY <1>2, <1>4, <1>5, <1>9, UseSteps DEF InTable
<1> QED
  BY <1>3, <1>7, <1>8, <1>9

\* No fiber waits for an event that epoll will never report, for any descriptors and
\* any growth of m_fd_contexts: what is registered is watched, or its mutex is held by
\* the thread that is about to trigger it.  And it is found under its descriptor until
\* the vector is resized for a descriptor that it already has room for.
THEOREM EventsWatched == Spec => []Watched
<1>1. Init => WatchedInv /\ IndexInv
  <2> SUFFICES ASSUME Init PROVE WatchedInv /\ IndexInv
    OBVIOUS
  <2>1. m_fd_contexts = [f \in Fds |-> IF f < InitSize THEN 1 ELSE 0] /\ size = InitSize
    BY DEF Init
  <2>2. \A t \in Threads : pc[t] \notin CtxPCs
    BY DEF Init, CtxPCs
  <2>3. (\A f \in Fds : interest[f] = Unwatched) /\ \A x \in Contexts : event[x] = {}
    BY DEF Init
  <2> QED
    BY <2>1, <2>2, <2>3 DEF WatchedInv, IndexInv
<1>2. LockAll /\ WatchedInv /\ IndexInv /\ [Next]_vars => WatchedInv' /\ IndexInv'
  BY NextIndex, NextWatched DEF LockAll
<1>3. LockAll /\ WatchedInv /\ IndexInv => Watched
  <2> SUFFICES ASSUME TypeInv, MutexInv, WatchedInv, IndexInv, NEW r \in Registered
               PROVE  /\ \/ interest[r[1][1]].ctx = r[1] /\ r[2] \in interest[r[1][1]].bits
                         \/ mutex[r[1]] # NoOne /\ \E i \in DOMAIN todo[mutex[r[1]]] : todo[mutex[r[1]]][i] = r[2]
                      /\ ~ late => m_fd_contexts[r[1][1]] = r[1][2]
    BY DEF Watched, LockAll
  <2>1. r[1] \in Contexts /\ r[2] \in event[r[1]]
    BY DEF Registered
  <2>2. NoOne \notin Threads
    BY EventAssumption DEF Threads
  <2>3. ASSUME NEW t \in Threads, pc[t] \in HoldPCs /\ Ctx(t) = r[1] /\ r[2] \in Pending(t)
        PROVE  mutex[r[1]] # NoOne /\ \E i \in DOMAIN todo[mutex[r[1]]] : todo[mutex[r[1]]][i] = r[2]
    BY <2>2, <2>3 DEF MutexInv, Pending
  <2>4. ~ late => m_fd_contexts[r[1][1]] = r[1][2]
    BY <2>1 DEF IndexInv, InTable
  <2> QED
    BY <2>1, <2>3, <2>4 DEF WatchedInv
<1> QED
  BY <1>1, <1>2, <1>3, LockInv, PTL DEF Spec

=============================================================================
