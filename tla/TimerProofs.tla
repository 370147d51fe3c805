----------------------------- MODULE TimerProofs -----------------------------
(***************************************************************************)
(* Proofs about TimerManager, for any number of timers, clients, pollers   *)
(* and any periods.                                                        *)
(***************************************************************************)
EXTENDS TimerManager, TLAPS

\* What TypeOK lacks to be inductive: a call in progress names a timer, and a
\* timer is never due before it was armed, so that the m_next - m_ms of
\* reset() does not wrap around.
TypeInv ==
    /\ TypeOK
    /\ \A c \in Clients : client[c].op # "none" => client[c].timer \in Timers
    /\ \A t \in Timers : m_ms[t] <= m_next[t]

\* A client that is in no call holds no timer.
LEMMA ReturnedFacts ==
    /\ Returned \in Calls /\ Returned.op = "none" /\ Returned.timer = None
  BY DEF Returned, Call, Calls, CallOps

\* What a call in progress records.
LEMMA CallFacts ==
    ASSUME NEW op \in CallOps, NEW t \in Timers, NEW ms \in Periods \cup {0}
    PROVE  /\ Call(op, t, ms) \in Calls
           /\ Call(op, t, ms).op = op
           /\ Call(op, t, ms).timer = t
           /\ Call(op, t, ms).ms = ms
  BY DEF Call, Calls, CallOps

\* A call that names a timer may take the place of the one a client is in.
LEMMA NewCall ==
    ASSUME TypeInv, NEW c \in Clients, NEW new \in Calls, new.op # "none" => new.timer \in Timers,
           client' = [client EXCEPT ![c] = new]
    PROVE  /\ client' \in [Clients -> Calls]
           /\ \A d \in Clients : client'[d].op # "none" => client'[d].timer \in Timers
           /\ client'[c] = new /\ \A d \in Clients : d # c => client'[d] = client[d]
  BY DEF TypeInv, TypeOK

\* addTimer(timer, lock) keeps the types.
LEMMA AddTimerType ==
    ASSUME TypeInv, NEW c \in Clients, NEW t \in Timers, NEW k \in [next : Nat, timer : Timers],
           NEW others, others \subseteq m_timers, AddTimer(c, t, k, others)
    PROVE  /\ m_timers' \subseteq [next : Nat, timer : Timers] /\ handles' \subseteq Timers
           /\ m_notified' \in BOOLEAN /\ client' \in [Clients -> Calls]
           /\ \A d \in Clients : client'[d].op # "none" => client'[d].timer \in Timers
<1>1. PICK first \in Firsts(others \cup {k}) :
         LET is_front == first = k /\ ~ m_notified
         IN /\ m_notified' = (m_notified \/ is_front)
            /\ client' = [client EXCEPT ![c] =
                 IF is_front THEN Call("notify", t, 0) ELSE Returned]
            /\ handles' = IF is_front THEN handles ELSE handles \cup {t}
  BY DEF AddTimer
<1>2. m_timers' = others \cup {k}
  BY DEF AddTimer
<1> DEFINE is_front == first = k /\ ~ m_notified
           new == IF is_front THEN Call("notify", t, 0) ELSE Returned
<1>3. Call("notify", t, 0) \in Calls /\ Call("notify", t, 0).timer = t
  BY CallFacts DEF CallOps
<1>4. new \in Calls /\ (new.op # "none" => new.timer \in Timers)
  BY <1>3, ReturnedFacts
<1>5. client' = [client EXCEPT ![c] = new]
  BY <1>1
<1>6. m_notified' \in BOOLEAN
  BY <1>1 DEF TypeInv, TypeOK
<1> HIDE DEF new
<1>7. /\ client' \in [Clients -> Calls]
      /\ \A d \in Clients : client'[d].op # "none" => client'[d].timer \in Timers
  BY <1>4, <1>5, NewCall
<1>8. QED
  BY <1>1, <1>2, <1>6, <1>7 DEF TypeInv, TypeOK

\* The initial state.
LEMMA InitType == Init => TypeInv
<1> SUFFICES ASSUME Init PROVE TypeInv
  OBVIOUS
<1>1. client \in [Clients -> Calls] /\ \A c \in Clients : client[c].op = "none"
  <2>1. Returned \in Calls /\ Returned.op = "none"
    BY ReturnedFacts
  <2>2. QED
    BY <2>1 DEF Init
<1>2. pc \in [Pollers -> PCs] /\ m_ms \in [Timers -> Nat] /\ m_next \in [Timers -> Nat]
  BY DEF Init, PCs
<1>3. m_notified \in BOOLEAN /\ edge \in BOOLEAN /\ modified \in BOOLEAN /\ fault \in BOOLEAN
  BY DEF Init
<1>4. /\ clock \in Nat /\ jumps \in Nat /\ m_previous_time \in Nat
      /\ \A t \in Timers : m_ms[t] <= m_next[t]
      /\ born \in [Timers -> Nat] /\ fires \in [Timers -> Nat]
      /\ target \in [Pollers -> Nat] /\ now_ms \in [Pollers -> Nat]
  BY ClockAssumption DEF Init
<1>5. /\ m_timers \subseteq [next : Nat, timer : Timers] /\ drains \subseteq Pollers
      /\ m_cb \subseteq Timers /\ handles \subseteq Timers /\ cancelled \subseteq Timers
  BY DEF Init
<1>6. QED
  BY <1>1, <1>2, <1>3, <1>4, <1>5 DEF TypeInv, TypeOK

\* The critical section of reset(), with the start time it works from.
ResetWaitingEffect(c, start) ==
    LET t  == client[c].timer
        ms == client[c].ms
    IN /\ client[c].op \in {"reset", "restart"}
       /\ t \in Timers /\ ms \in Nat /\ t \in m_cb /\ Key(t) \in m_timers
       /\ start = clock \/ start = m_next[t] - m_ms[t]
       /\ m_ms' = [m_ms EXCEPT ![t] = ms]
       /\ m_next' = [m_next EXCEPT ![t] = start + ms]
       /\ born' = [born EXCEPT ![t] = start] /\ fires' = [fires EXCEPT ![t] = 0]
       /\ AddTimer(c, t, [next |-> start + ms, timer |-> t], m_timers \ {Key(t)})

\* That start time is a natural number: nothing wraps around.
LEMMA ResetWaitingFacts ==
    ASSUME TypeInv, NEW c \in Clients, ResetWaiting(c)
    PROVE  \E start \in Nat : ResetWaitingEffect(c, start)
<1> DEFINE t     == client[c].timer
           ms    == client[c].ms
           start == IF client[c].op = "restart" THEN clock ELSE m_next[t] - m_ms[t]
<1>1. t \in Timers
  BY DEF ResetWaiting, InReset, TypeInv
<1>2. ms \in Nat
  <2>1. \A n \in Periods \cup {0} : n \in Nat
    BY TimerAssumption
  <2>2. ms \in Periods \cup {0}
    BY DEF TypeInv, TypeOK, Calls
  <2> HIDE DEF ms
  <2>3. QED
    BY <2>1, <2>2
<1>3. start \in Nat
  <2>1. m_ms[t] \in Nat /\ m_next[t] \in Nat /\ m_ms[t] <= m_next[t] /\ clock \in Nat
    BY <1>1 DEF TypeInv, TypeOK
  <2> HIDE DEF t
  <2>2. m_next[t] - m_ms[t] \in Nat
    BY <2>1
  <2>3. QED
    BY <2>1, <2>2
<1>4. start = clock \/ start = m_next[t] - m_ms[t]
  OBVIOUS
<1>5. /\ client[c].op \in {"reset", "restart"} /\ t \in m_cb /\ Key(t) \in m_timers
      /\ m_ms' = [m_ms EXCEPT ![t] = ms] /\ m_next' = [m_next EXCEPT ![t] = start + ms]
      /\ born' = [born EXCEPT ![t] = start] /\ fires' = [fires EXCEPT ![t] = 0]
      /\ AddTimer(c, t, [next |-> start + ms, timer |-> t], m_timers \ {Key(t)})
  BY DEF ResetWaiting, InReset
<1> HIDE DEF start
<1>6. ResetWaitingEffect(c, start)
  BY <1>1, <1>2, <1>4, <1>5 DEF ResetWaitingEffect
<1>7. QED
  BY <1>3, <1>6

\* Every step preserves the types.
LEMMA NextType == TypeInv /\ [Next]_vars => TypeInv'
<1> SUFFICES ASSUME TypeInv, [Next]_vars PROVE TypeInv'
  OBVIOUS
<1> USE TimerAssumption, ClockAssumption
<1> USE DEF TypeInv, TypeOK, PCs, timerVars, clockVars, flagVars,
            clientVars, pollerVars, histVars
<1>1. CASE Tick
  BY <1>1 DEF Tick
<1>2. CASE Jump
  BY <1>2 DEF Jump
<1>3. ASSUME NEW c \in Clients, ClientStep(c) PROVE TypeInv'
  <2>1. ASSUME NEW t \in Timers, NEW ms \in Periods, Construct(c, t, ms) PROVE TypeInv'
    <3>1. Call("insert", t, 0) \in Calls /\ Call("insert", t, 0).timer = t
      BY CallFacts DEF CallOps
    <3>2. client' = [client EXCEPT ![c] = Call("insert", t, 0)]
      BY <2>1 DEF Construct
    <3>3. /\ client' \in [Clients -> Calls]
          /\ \A d \in Clients : client'[d].op # "none" => client'[d].timer \in Timers
      BY <3>1, <3>2, NewCall
    <3>4. QED
      BY <2>1, <3>3 DEF Construct, Idle
  <2>2. CASE Insert(c)
    <3>1. client[c].timer \in Timers
      BY <2>2 DEF Insert, In
    <3>2. AddTimer(c, client[c].timer, Key(client[c].timer), m_timers)
      BY <2>2 DEF Insert
    <3>3. Key(client[c].timer) \in [next : Nat, timer : Timers]
      BY <3>1 DEF Key
    <3>4. /\ m_timers' \subseteq [next : Nat, timer : Timers] /\ handles' \subseteq Timers
          /\ m_notified' \in BOOLEAN /\ client' \in [Clients -> Calls]
          /\ \A d \in Clients : client'[d].op # "none" => client'[d].timer \in Timers
      BY <3>1, <3>2, <3>3, AddTimerType
    <3>5. QED
      BY <2>2, <3>4 DEF Insert, In
  <2>3. CASE Notify(c)
    <3>1. client' = [client EXCEPT ![c] = Returned]
      BY <2>3 DEF Notify
    <3>2. /\ client' \in [Clients -> Calls]
          /\ \A d \in Clients : client'[d].op # "none" => client'[d].timer \in Timers
      BY <3>1, ReturnedFacts, NewCall
    <3>3. QED
      BY <2>3, <3>2 DEF Notify, In
  <2>4. ASSUME NEW t \in Timers, Cancel(c, t) PROVE TypeInv'
    BY <2>4 DEF Cancel, Idle, Key
  <2>5. ASSUME NEW t \in Timers, Refresh(c, t) PROVE TypeInv'
    BY <2>5 DEF Refresh, Idle, Key
  <2>6. ASSUME NEW t \in Timers, NEW ms \in Periods, NEW op \in {"reset", "restart"},
               Reset(c, t, ms, op) PROVE TypeInv'
    <3>1. Call(op, t, ms) \in Calls /\ Call(op, t, ms).timer = t
      BY CallFacts DEF CallOps
    <3>2. client' = [client EXCEPT ![c] = Call(op, t, ms)]
      BY <2>6 DEF Reset
    <3>3. /\ client' \in [Clients -> Calls]
          /\ \A d \in Clients : client'[d].op # "none" => client'[d].timer \in Timers
      BY <3>1, <3>2, NewCall
    <3>4. QED
      BY <2>6, <3>3 DEF Reset, Idle
  <2>7. CASE ResetWaiting(c)
    <3> DEFINE t  == client[c].timer
               ms == client[c].ms
    <3>1. PICK start \in Nat : ResetWaitingEffect(c, start)
      BY <2>7, ResetWaitingFacts
    <3>2. t \in Timers /\ ms \in Nat
      BY <3>1 DEF ResetWaitingEffect
    <3>3. /\ m_ms' = [m_ms EXCEPT ![t] = ms] /\ m_next' = [m_next EXCEPT ![t] = start + ms]
          /\ born' = [born EXCEPT ![t] = start] /\ fires' = [fires EXCEPT ![t] = 0]
      BY <3>1 DEF ResetWaitingEffect
    <3>4. /\ AddTimer(c, t, [next |-> start + ms, timer |-> t], m_timers \ {Key(t)})
          /\ [next |-> start + ms, timer |-> t] \in [next : Nat, timer : Timers]
      BY <3>1, <3>2 DEF ResetWaitingEffect
    <3> HIDE DEF ms, t
    <3>5. /\ m_timers' \subseteq [next : Nat, timer : Timers] /\ handles' \subseteq Timers
          /\ m_notified' \in BOOLEAN /\ client' \in [Clients -> Calls]
          /\ \A d \in Clients : client'[d].op # "none" => client'[d].timer \in Timers
      BY <3>2, <3>4, AddTimerType
    <3>6. QED
      BY <2>7, <3>2, <3>3, <3>5 DEF ResetWaiting, InReset
  <2>8. CASE ResetGone(c)
    <3>1. client' = [client EXCEPT ![c] = Returned]
      BY <2>8 DEF ResetGone
    <3>2. /\ client' \in [Clients -> Calls]
          /\ \A d \in Clients : client'[d].op # "none" => client'[d].timer \in Timers
      BY <3>1, ReturnedFacts, NewCall
    <3>3. QED
      BY <2>8, <3>2 DEF ResetGone, InReset
  <2> HIDE DEF TypeInv, TypeOK
  <2>9. QED
    BY <1>3, <2>1, <2>2, <2>3, <2>4, <2>5, <2>6, <2>7, <2>8 DEF ClientStep
<1>4. ASSUME NEW p \in Pollers, PollerStep(p) PROVE TypeInv'
  <2>1. CASE EnterIdle(p)
    BY <2>1 DEF EnterIdle, At, Goto
  <2>2. CASE GetNextTimerTimeMs(p)
    <3>1. PICK due \in {k.next : k \in Firsts(m_timers)} \cup {clock + MaxTimeout} :
            target' = [target EXCEPT ![p] = due]
      BY <2>2 DEF GetNextTimerTimeMs
    <3>2. due \in Nat
      BY DEF Firsts
    <3>3. QED
      BY <2>2, <3>1, <3>2 DEF GetNextTimerTimeMs, At, Goto
  <2>3. CASE Timeout(p)
    BY <2>3 DEF Timeout, At, Goto
  <2>4. CASE Wakeup(p)
    BY <2>4 DEF Wakeup, At, Goto
  <2>5. CASE ReadClock(p)
    BY <2>5 DEF ReadClock, At, Goto
  <2>6. CASE CheckEmpty(p)
    BY <2>6 DEF CheckEmpty, At, Goto
  <2>7. CASE Collect(p)
    BY <2>7 DEF Collect, At, Goto, Expired, Counted, TimeModified
  <2>8. CASE CollectNothing(p)
    BY <2>8 DEF CollectNothing, At, Goto
  <2>9. CASE Drain(p)
    BY <2>9 DEF Drain, At, Goto
  <2>10. QED
    BY <1>4, <2>1, <2>2, <2>3, <2>4, <2>5, <2>6, <2>7, <2>8, <2>9 DEF PollerStep
<1>5. CASE UNCHANGED vars
  BY <1>5 DEF vars
<1>6. QED
  BY <1>1, <1>2, <1>3, <1>4, <1>5 DEF Next

\* The fields, sets and counters keep their types, and what reset() computes
\* from them stays a natural number.
THEOREM TypeCorrect == Spec => []TypeOK
<1>1. TypeInv => TypeOK
  BY DEF TypeInv
<1>2. QED
  BY <1>1, InitType, NextType, PTL DEF Spec

-----------------------------------------------------------------------------
(* Cancelling is safe: the set agrees with the timers.                     *)

\* Who holds which timer: a timer is known only to the client that adds it
\* until addTimer() has returned, and one that was never constructed has no
\* callback and has not fired.
CallInv ==
    /\ \A c \in Clients : client[c].op = "none" => client[c].timer = None
    /\ \A c \in Clients : client[c].op = "insert" =>
          /\ client[c].timer \in m_cb /\ client[c].timer \notin handles
          /\ \A d \in Clients : d # c => client[d].timer # client[c].timer
    /\ \A c \in Clients : client[c].op \in {"reset", "restart"} => client[c].timer \in handles
    /\ \A t \in cancelled : t \in handles /\ t \notin m_cb
    /\ \A t \in Timers : (t \notin handles /\ \A c \in Clients : client[c].timer # t) =>
          t \notin m_cb /\ fires[t] = 0

\* SetAgrees, element by element.
Adding(t) == \E c \in Clients : client[c].op = "insert" /\ client[c].timer = t
SetInv ==
    /\ ~ fault
    /\ \A k \in m_timers : /\ k.timer \in m_cb /\ ~ Adding(k.timer)
                            /\ k = Key(k.timer)
    /\ \A t \in m_cb : Adding(t) \/ Key(t) \in m_timers

\* What addTimer(timer, lock) leaves: a client that is about to notify, or
\* one that has no need to.
Announced(c, t, k, others) ==
    /\ m_timers' = others \cup {k}
    /\ \A d \in Clients : d # c => client'[d] = client[d]
    /\ \/ client'[c].op = "notify" /\ client'[c].timer = t /\ handles' = handles
       \/ /\ client'[c].op = "none" /\ client'[c].timer = None
          /\ handles' = handles \cup {t}
          /\ m_notified' = m_notified
          /\ m_notified \/ \E other \in others : other.next <= k.next

\* It does so.
LEMMA AddTimerFacts ==
    ASSUME TypeInv, NEW c \in Clients, NEW t \in Timers, NEW k \in [next : Nat, timer : Timers],
           NEW others, others \subseteq m_timers, AddTimer(c, t, k, others)
    PROVE  Announced(c, t, k, others)
<1>1. PICK first \in Firsts(others \cup {k}) :
         LET is_front == first = k /\ ~ m_notified
         IN /\ m_notified' = (m_notified \/ is_front)
            /\ client' = [client EXCEPT ![c] =
                 IF is_front THEN Call("notify", t, 0) ELSE Returned]
            /\ handles' = IF is_front THEN handles ELSE handles \cup {t}
  BY DEF AddTimer
<1>2. m_timers' = others \cup {k}
  BY DEF AddTimer
<1>3. client \in [Clients -> Calls] /\ m_notified \in BOOLEAN
  BY DEF TypeInv, TypeOK
<1>4. CASE first = k /\ ~ m_notified
  <2>1. client' = [client EXCEPT ![c] = Call("notify", t, 0)] /\ handles' = handles
    BY <1>1, <1>4
  <2>2. client'[c] = Call("notify", t, 0) /\ \A d \in Clients : d # c => client'[d] = client[d]
    BY <2>1, <1>3
  <2>3. Call("notify", t, 0).op = "notify" /\ Call("notify", t, 0).timer = t
    BY DEF Call
  <2>4. QED
    BY <1>2, <2>1, <2>2, <2>3 DEF Announced
<1>5. CASE ~ (first = k /\ ~ m_notified)
  <2>1. client' = [client EXCEPT ![c] = Returned] /\ handles' = handles \cup {t}
    BY <1>1, <1>5
  <2>2. client'[c] = Returned /\ \A d \in Clients : d # c => client'[d] = client[d]
    BY <2>1, <1>3
  <2>3. m_notified' = m_notified
    BY <1>1, <1>5, <1>3
  <2>4. m_notified \/ \E other \in others : other.next <= k.next
    BY <1>1, <1>5 DEF Firsts
  <2>5. QED
    BY <1>2, <2>1, <2>2, <2>3, <2>4, ReturnedFacts DEF Announced
<1>6. QED
  BY <1>4, <1>5

\* addTimer() inserts a timer under the key it was constructed with.
LEMMA InsertFacts ==
    ASSUME TypeInv, NEW c \in Clients, Insert(c)
    PROVE  Announced(c, client[c].timer, Key(client[c].timer), m_timers)
<1>1. client[c].timer \in Timers
  BY DEF Insert, In, TypeInv
<1>2. Key(client[c].timer) \in [next : Nat, timer : Timers]
  BY <1>1 DEF Key, TypeInv, TypeOK
<1>3. AddTimer(c, client[c].timer, Key(client[c].timer), m_timers)
  BY DEF Insert
<1>4. QED
  BY <1>1, <1>2, <1>3, AddTimerFacts

\* reset() inserts it under a new key.
LEMMA ResetAddFacts ==
    ASSUME TypeInv, NEW c \in Clients, NEW start \in Nat, ResetWaitingEffect(c, start)
    PROVE  Announced(c, client[c].timer, [next |-> start + client[c].ms, timer |-> client[c].timer],
                     m_timers \ {Key(client[c].timer)})
<1> DEFINE k == [next |-> start + client[c].ms, timer |-> client[c].timer]
           others == m_timers \ {Key(client[c].timer)}
<1>1. client[c].timer \in Timers /\ k \in [next : Nat, timer : Timers] /\ others \subseteq m_timers
  BY DEF ResetWaitingEffect
<1>2. AddTimer(c, client[c].timer, k, others)
  BY DEF ResetWaitingEffect
<1> HIDE DEF k, others
<1>3. Announced(c, client[c].timer, k, others)
  BY <1>1, <1>2, AddTimerFacts
<1>4. QED
  BY <1>3 DEF k, others

\* No timer exists before the first call.
LEMMA InitCall == Init => CallInv /\ SetInv
<1>1. Init => CallInv
  BY ReturnedFacts DEF Init, CallInv
<1>2. Init => SetInv
  BY DEF Init, SetInv
<1>3. QED
  BY <1>1, <1>2

\* Every step keeps the timers with the clients that may hold them.
LEMMA NextCall == TypeInv /\ CallInv /\ SetInv /\ [Next]_vars => CallInv'
<1> SUFFICES ASSUME TypeInv, CallInv, SetInv, [Next]_vars PROVE CallInv'
  OBVIOUS
<1> USE DEF CallInv, timerVars, clockVars, flagVars, clientVars, pollerVars, histVars
<1>0. /\ client \in [Clients -> Calls] /\ fires \in [Timers -> Nat]
      /\ \A c \in Clients : client[c].op # "none" => client[c].timer \in Timers
      /\ None \notin Timers
  BY TimerAssumption DEF TypeInv, TypeOK
<1>1. CASE Tick
  BY <1>1 DEF Tick
<1>2. CASE Jump
  BY <1>2 DEF Jump
<1>3. ASSUME NEW c \in Clients, ClientStep(c) PROVE CallInv'
  <2>1. ASSUME NEW t \in Timers, NEW ms \in Periods, Construct(c, t, ms) PROVE CallInv'
    <3>1. /\ client'[c].op = "insert" /\ client'[c].timer = t
          /\ \A d \in Clients : d # c => client'[d] = client[d]
      BY <1>0, <2>1 DEF Construct, Call
    <3>2. QED
      BY <1>0, <2>1, <3>1 DEF Construct, Idle
  <2>2. CASE Insert(c)
    <3> DEFINE t == client[c].timer
    <3>1. t \in Timers /\ client[c].op = "insert"
      BY <1>0, <2>2 DEF Insert, In
    <3>2. /\ \A d \in Clients : d # c => client'[d] = client[d]
          /\ \/ client'[c].op = "notify" /\ client'[c].timer = t /\ handles' = handles
             \/ client'[c].op = "none" /\ client'[c].timer = None /\ handles' = handles \cup {t}
      BY <3>1, <2>2, InsertFacts DEF Announced
    <3>3. UNCHANGED <<m_cb, fires, cancelled>>
      BY <2>2 DEF Insert
    <3>4. QED
      BY <1>0, <3>1, <3>2, <3>3
  <2>3. CASE Notify(c)
    <3>1. /\ client'[c].op = "none" /\ client'[c].timer = None
          /\ \A d \in Clients : d # c => client'[d] = client[d]
      BY <1>0, <2>3, ReturnedFacts DEF Notify
    <3>2. QED
      BY <1>0, <2>3, <3>1 DEF Notify, In
  <2>4. ASSUME NEW t \in Timers, Cancel(c, t) PROVE CallInv'
    BY <1>0, <2>4 DEF Cancel, Idle
  <2>5. ASSUME NEW t \in Timers, Refresh(c, t) PROVE CallInv'
    BY <1>0, <2>5 DEF Refresh, Idle
  <2>6. ASSUME NEW t \in Timers, NEW ms \in Periods, NEW op \in {"reset", "restart"},
               Reset(c, t, ms, op) PROVE CallInv'
    <3>1. /\ client'[c].op = op /\ client'[c].timer = t
          /\ \A d \in Clients : d # c => client'[d] = client[d]
      BY <1>0, <2>6 DEF Reset, Call
    <3>2. QED
      BY <1>0, <2>6, <3>1 DEF Reset, Idle
  <2>7. CASE ResetWaiting(c)
    <3> DEFINE t == client[c].timer
    <3>1. PICK start \in Nat : ResetWaitingEffect(c, start)
      BY <2>7, ResetWaitingFacts
    <3>2. /\ t \in Timers /\ client[c].op \in {"reset", "restart"}
          /\ fires' = [fires EXCEPT ![t] = 0]
      BY <3>1 DEF ResetWaitingEffect
    <3>3. /\ \A d \in Clients : d # c => client'[d] = client[d]
          /\ \/ client'[c].op = "notify" /\ client'[c].timer = t /\ handles' = handles
             \/ client'[c].op = "none" /\ client'[c].timer = None /\ handles' = handles \cup {t}
      BY <3>1, ResetAddFacts DEF Announced
    <3>4. UNCHANGED <<m_cb, cancelled>>
      BY <2>7 DEF ResetWaiting
    <3>5. QED
      BY <1>0, <3>2, <3>3, <3>4
  <2>8. CASE ResetGone(c)
    <3>1. /\ client'[c].op = "none" /\ client'[c].timer = None
          /\ \A d \in Clients : d # c => client'[d] = client[d]
      BY <1>0, <2>8, ReturnedFacts DEF ResetGone
    <3>2. QED
      BY <1>0, <2>8, <3>1 DEF ResetGone, InReset
  <2> HIDE DEF CallInv
  <2>9. QED
    BY <1>3, <2>1, <2>2, <2>3, <2>4, <2>5, <2>6, <2>7, <2>8 DEF ClientStep
<1>4. ASSUME NEW p \in Pollers, PollerStep(p) PROVE CallInv'
  <2>1. CASE Collect(p)
    <3>1. \A k \in Expired(now_ms[p]) : k.timer \in m_cb
      BY DEF SetInv, Expired
    <3>2. /\ m_cb' \subseteq m_cb /\ UNCHANGED <<client, handles, cancelled>>
          /\ \A t \in Timers : t \notin m_cb => fires'[t] = fires[t]
      BY <1>0, <2>1, <3>1 DEF Collect, Counted
    <3>3. \A t \in Timers : Adding(t) => t \in m_cb'
      BY <2>1 DEF Collect, Expired, SetInv, Adding
    <3>4. QED
      BY <1>0, <3>2, <3>3 DEF Adding
  <2>2. CASE ~ Collect(p)
    BY <1>4, <2>2 DEF PollerStep, EnterIdle, GetNextTimerTimeMs, Timeout, Wakeup, ReadClock,
                      CheckEmpty, CollectNothing, Drain
  <2>3. QED
    BY <2>1, <2>2
<1>5. CASE UNCHANGED vars
  BY <1>5 DEF vars
<1>6. QED
  BY <1>1, <1>2, <1>3, <1>4, <1>5 DEF Next

\* Every step keeps the set in agreement with the timers.
LEMMA NextSet == TypeInv /\ CallInv /\ SetInv /\ [Next]_vars => SetInv'
<1> SUFFICES ASSUME TypeInv, CallInv, SetInv, [Next]_vars PROVE SetInv'
  OBVIOUS
<1> USE DEF SetInv, timerVars, clockVars, flagVars, clientVars, pollerVars, histVars
<1>0. /\ client \in [Clients -> Calls] /\ m_next \in [Timers -> Nat] /\ m_cb \subseteq Timers
      /\ m_ms \in [Timers -> Nat] /\ m_timers \subseteq [next : Nat, timer : Timers]
      /\ clock \in Nat /\ now_ms \in [Pollers -> Nat]
      /\ \A c \in Clients : client[c].op # "none" => client[c].timer \in Timers
  BY DEF TypeInv, TypeOK
<1>1. CASE Tick
  BY <1>1 DEF Tick, Adding, Key
<1>2. CASE Jump
  BY <1>2 DEF Jump, Adding, Key
<1>3. ASSUME NEW c \in Clients, ClientStep(c) PROVE SetInv'
  <2>1. ASSUME NEW t \in Timers, NEW ms \in Periods, Construct(c, t, ms) PROVE SetInv'
    <3>1. /\ client'[c].op = "insert" /\ client'[c].timer = t /\ client[c].op = "none"
          /\ \A d \in Clients : d # c => client'[d] = client[d]
      BY <1>0, <2>1 DEF Construct, Call, Idle
    <3>2. \A u \in Timers : Adding(u)' <=> (Adding(u) \/ u = t)
      BY <3>1 DEF Adding
    <3>3. t \notin m_cb
      BY <2>1 DEF Construct, CallInv
    <3>4. \A u \in m_cb : Key(u)' = Key(u)
      BY <1>0, <2>1, <3>3 DEF Construct, Key
    <3>5. m_cb' = m_cb \cup {t} /\ m_timers' = m_timers /\ fault' = fault
      BY <2>1 DEF Construct
    <3>6. QED
      BY <1>0, <3>2, <3>3, <3>4, <3>5
  <2>2. CASE Insert(c)
    <3> DEFINE t == client[c].timer
    <3>1. t \in Timers /\ client[c].op = "insert"
      BY <1>0, <2>2 DEF Insert, In
    <3>2. /\ \A d \in Clients : d # c => client'[d] = client[d]
          /\ client'[c].op # "insert"
          /\ m_timers' = m_timers \cup {Key(t)}
      BY <2>2, InsertFacts DEF Announced
    <3>3. UNCHANGED <<m_cb, m_next, fault>>
      BY <2>2 DEF Insert
    <3>4. \A u \in Timers : Adding(u)' <=> (Adding(u) /\ u # t)
      BY <3>1, <3>2 DEF Adding, CallInv
    <3>5. t \in m_cb /\ \A u \in Timers : Key(u)' = Key(u) /\ Key(u).timer = u
      BY <3>1, <3>3 DEF CallInv, Key
    <3>6. QED
      BY <1>0, <3>1, <3>2, <3>3, <3>4, <3>5
  <2>3. CASE Notify(c)
    <3>1. \A d \in Clients : d # c => client'[d] = client[d]
      BY <1>0, <2>3 DEF Notify
    <3>2. client[c].op = "notify" /\ client'[c].op = "none"
      BY <1>0, <2>3, ReturnedFacts DEF Notify, In
    <3>3. \A u : Adding(u)' <=> Adding(u)
      BY <3>1, <3>2 DEF Adding
    <3>4. QED
      BY <2>3, <3>3 DEF Notify, Key
  <2>4. ASSUME NEW t \in Timers, Cancel(c, t) PROVE SetInv'
    <3>1. t \in m_cb /\ ~ Adding(t)
      BY <2>4 DEF Cancel, Adding, CallInv
    <3>2. \A u : (Adding(u)' <=> Adding(u)) /\ Key(u)' = Key(u)
      BY <2>4 DEF Cancel, Adding, Key
    <3>3. /\ m_cb' = m_cb \ {t} /\ m_timers' = m_timers \ {Key(t)}
          /\ fault' = (Key(t) \notin m_timers)
      BY <2>4 DEF Cancel
    <3>4. Key(t) \in m_timers /\ \A u \in Timers : Key(u).timer = u
      BY <3>1 DEF Key
    <3>5. QED
      BY <1>0, <3>1, <3>2, <3>3, <3>4
  <2>5. ASSUME NEW t \in Timers, Refresh(c, t) PROVE SetInv'
    <3> DEFINE k == [next |-> clock + m_ms[t], timer |-> t]
    <3>1. t \in m_cb /\ ~ Adding(t)
      BY <2>5 DEF Refresh, Adding, CallInv
    <3>2. \A u : Adding(u)' <=> Adding(u)
      BY <2>5 DEF Refresh, Adding
    <3>3. UNCHANGED <<m_cb, fault>> /\ m_timers' = (m_timers \ {Key(t)}) \cup {k}
      BY <2>5 DEF Refresh
    <3>4. Key(t)' = k /\ \A u \in Timers : u # t => Key(u)' = Key(u)
      BY <1>0, <2>5 DEF Refresh, Key
    <3>5. k.timer = t /\ \A u \in Timers : Key(u).timer = u
      BY DEF Key
    <3> HIDE DEF k
    <3>6. QED
      BY <1>0, <3>1, <3>2, <3>3, <3>4, <3>5
  <2>6. ASSUME NEW t \in Timers, NEW ms \in Periods, NEW op \in {"reset", "restart"},
               Reset(c, t, ms, op) PROVE SetInv'
    <3>1. \A d \in Clients : d # c => client'[d] = client[d]
      BY <1>0, <2>6 DEF Reset
    <3>2. client[c].op = "none" /\ client'[c].op = op
      BY <1>0, <2>6 DEF Reset, Idle, Call
    <3>3. \A u : Adding(u)' <=> Adding(u)
      BY <3>1, <3>2 DEF Adding
    <3>4. QED
      BY <2>6, <3>3 DEF Reset, Key
  <2>7. CASE ResetWaiting(c)
    <3>1. PICK start \in Nat : ResetWaitingEffect(c, start)
      BY <2>7, ResetWaitingFacts
    <3>0. PICK t \in Timers : t = client[c].timer
      BY <3>1 DEF ResetWaitingEffect
    <3>10. PICK next \in Nat : next = start + client[c].ms
      BY <3>1 DEF ResetWaitingEffect
    <3> DEFINE k == [next |-> next, timer |-> t]
    <3>2. /\ t \in Timers /\ client[c].op \in {"reset", "restart"} /\ t \in m_cb
          /\ m_next' = [m_next EXCEPT ![t] = next]
      BY <3>0, <3>1, <3>10 DEF ResetWaitingEffect
    <3>3. /\ \A d \in Clients : d # c => client'[d] = client[d]
          /\ client'[c].op # "insert"
          /\ m_timers' = (m_timers \ {Key(t)}) \cup {k}
      BY <3>0, <3>1, <3>10, ResetAddFacts DEF Announced
    <3>4. UNCHANGED <<m_cb, fault>>
      BY <2>7 DEF ResetWaiting
    <3>5. \A u : Adding(u)' <=> Adding(u)
      BY <3>2, <3>3 DEF Adding
    <3>6. ~ Adding(t)
      BY <3>0, <3>2 DEF Adding, CallInv
    <3>7. Key(t)' = k /\ \A u \in Timers : u # t => Key(u)' = Key(u)
      BY <1>0, <3>2 DEF Key
    <3>8. k.timer = t /\ \A u \in Timers : Key(u).timer = u
      BY DEF Key
    <3> HIDE DEF k
    <3>9. QED
      BY <1>0, <3>2, <3>3, <3>4, <3>5, <3>6, <3>7, <3>8
  <2>8. CASE ResetGone(c)
    <3>1. \A d \in Clients : d # c => client'[d] = client[d]
      BY <1>0, <2>8 DEF ResetGone
    <3>2. client[c].op # "insert" /\ client'[c].op = "none"
      BY <1>0, <2>8, ReturnedFacts DEF ResetGone, InReset
    <3>3. \A u : Adding(u)' <=> Adding(u)
      BY <3>1, <3>2 DEF Adding
    <3>4. QED
      BY <2>8, <3>3 DEF ResetGone, Key
  <2> HIDE DEF SetInv
  <2>9. QED
    BY <1>3, <2>1, <2>2, <2>3, <2>4, <2>5, <2>6, <2>7, <2>8 DEF ClientStep
<1>4. ASSUME NEW p \in Pollers, PollerStep(p) PROVE SetInv'
  <2>1. CASE Collect(p)
    <3> DEFINE now     == now_ms[p]
               expired == {k.timer : k \in Expired(now)}
               again   == expired \cap LoopTimers
    <3>1. /\ m_next' = [t \in Timers |-> IF t \in again THEN now + m_ms[t] ELSE m_next[t]]
          /\ m_timers' = (m_timers \ Expired(now))
                           \cup {[next |-> now + m_ms[t], timer |-> t] : t \in again}
          /\ m_cb' = m_cb \ (expired \ LoopTimers)
          /\ UNCHANGED <<client, fault>>
      BY <2>1 DEF Collect
    <3>2. \A u : Adding(u)' <=> Adding(u)
      BY <3>1 DEF Adding
    <3>3. \A u \in expired : u \in m_cb /\ ~ Adding(u)
      BY DEF Expired
    <3>4. \A k \in m_timers : k \in Expired(now) <=> k.timer \in expired
      <4>1. \A k, l \in m_timers : k.timer = l.timer => k = l
        OBVIOUS
      <4>2. QED
        BY <4>1 DEF Expired
    <3>5. \A u \in Timers : Key(u).timer = u
      BY DEF Key
    <3>6. \A u \in again : Key(u)' = [next |-> now + m_ms[u], timer |-> u] /\ u \in Timers
      BY <1>0, <3>1, <3>3 DEF Key
    <3>7. \A u \in Timers : u \notin again => Key(u)' = Key(u)
      BY <1>0, <3>1 DEF Key
    <3> HIDE DEF expired, now
    <3>8. \A k \in m_timers' : k.timer \in m_cb' /\ ~ Adding(k.timer)' /\ k = Key(k.timer)'
      <4>1. ASSUME NEW k \in m_timers, k \notin Expired(now)
            PROVE  k.timer \in m_cb' /\ ~ Adding(k.timer)' /\ k = Key(k.timer)'
        BY <1>0, <4>1, <3>1, <3>2, <3>4, <3>7
      <4>2. ASSUME NEW u \in again
            PROVE  LET k == [next |-> now + m_ms[u], timer |-> u]
                   IN k.timer \in m_cb' /\ ~ Adding(k.timer)' /\ k = Key(k.timer)'
        BY <3>1, <3>2, <3>3, <3>6
      <4>3. QED
        BY <4>1, <4>2, <3>1
    <3>9. \A u \in m_cb' : Adding(u)' \/ Key(u)' \in m_timers'
      <4>1. ASSUME NEW u \in m_cb', ~ Adding(u) PROVE Key(u)' \in m_timers'
        <5>1. u \in Timers /\ u \in m_cb /\ Key(u) \in m_timers
          BY <1>0, <4>1, <3>1
        <5>2. CASE u \in again
          BY <5>2, <3>1, <3>6
        <5>3. CASE u \notin again
          <6>1. u \notin expired
            BY <5>3, <3>1, <4>1
          <6>2. Key(u) \notin Expired(now)
            BY <5>1, <6>1, <3>4, <3>5
          <6>3. QED
            BY <5>1, <5>3, <6>2, <3>1, <3>7
        <5>4. QED
          BY <5>2, <5>3
      <4>2. QED
        BY <4>1, <3>2
    <3>10. QED
      BY <3>1, <3>8, <3>9
  <2>2. CASE ~ Collect(p)
    <3>1. UNCHANGED <<m_timers, m_cb, m_next, client, fault>>
      BY <1>4, <2>2 DEF PollerStep, EnterIdle, GetNextTimerTimeMs, Timeout, Wakeup, ReadClock,
                        CheckEmpty, CollectNothing, Drain
    <3>2. QED
      BY <3>1 DEF Adding, Key
  <2>3. QED
    BY <2>1, <2>2
<1>5. CASE UNCHANGED vars
  BY <1>5 DEF vars, Adding, Key
<1>6. QED
  BY <1>1, <1>2, <1>3, <1>4, <1>5 DEF Next

\* The three parts together are inductive.
LEMMA CoreInvariant == Spec => [](TypeInv /\ CallInv /\ SetInv)
  BY InitType, InitCall, NextType, NextCall, NextSet, PTL DEF Spec

\* cancel() never erases the end() of the set: exactly the timers with a
\* callback are in it, each once and under its present m_next.
THEOREM SetStaysInAgreement == Spec => []SetAgrees
<1>1. TypeInv /\ SetInv => SetAgrees
  <2> SUFFICES ASSUME TypeInv, SetInv PROVE SetAgrees
    OBVIOUS
  <2>1. \A t \in Timers : t \in BeingAdded <=> Adding(t)
    BY DEF BeingAdded, Adding
  <2>2. m_cb \subseteq Timers /\ \A k \in m_timers : k.timer \in Timers
    BY DEF TypeInv, TypeOK
  <2>3. QED
    BY <2>1, <2>2 DEF SetInv, SetAgrees
<1>2. QED
  BY <1>1, CoreInvariant, PTL

\* After a successful cancel() no poller collects the timer again.
THEOREM CancelStaysFinal == Spec => CancelIsFinal
<1>1. TypeInv /\ CallInv /\ SetInv /\ CallInv' /\ [Next]_vars =>
        [\A t \in cancelled : fires'[t] = fires[t] /\ t \notin m_cb']_vars
  <2> SUFFICES ASSUME TypeInv, CallInv, SetInv, CallInv', Next, NEW t \in cancelled
               PROVE  fires'[t] = fires[t] /\ t \notin m_cb'
    BY DEF vars, timerVars, histVars, CallInv
  <2>0. t \in Timers /\ t \in handles /\ t \notin m_cb /\ fires \in [Timers -> Nat]
    BY DEF TypeInv, TypeOK, CallInv
  <2>1. cancelled \subseteq cancelled'
    BY DEF Next, ClientStep, PollerStep, Tick, Jump, Construct, Insert, Notify, Cancel, Refresh,
           Reset, ResetWaiting, ResetGone, EnterIdle, GetNextTimerTimeMs, Timeout, Wakeup,
           ReadClock, CheckEmpty, Collect, CollectNothing, Drain, histVars
  <2>2. t \notin m_cb'
    BY <2>1 DEF CallInv
  <2>3. fires'[t] = fires[t]
    <3>1. ASSUME NEW c \in Clients, ResetWaiting(c) PROVE fires'[t] = fires[t]
      <4>1. PICK start \in Nat : ResetWaitingEffect(c, start)
        BY <3>1, ResetWaitingFacts
      <4>2. QED
        BY <2>0, <4>1 DEF ResetWaitingEffect
    <3>2. ASSUME NEW p \in Pollers, Collect(p) PROVE fires'[t] = fires[t]
      <4>1. \A k \in Expired(now_ms[p]) : k.timer \in m_cb
        BY DEF SetInv, Expired
      <4>2. QED
        BY <2>0, <3>2, <4>1 DEF Collect, Counted
    <3>3. ASSUME NEW c \in Clients, NEW u \in Timers, Refresh(c, u) PROVE fires'[t] = fires[t]
      BY <2>0, <3>3 DEF Refresh
    <3>4. QED
      BY <3>1, <3>2, <3>3 DEF Next, ClientStep, PollerStep, Tick, Jump, Construct, Insert, Notify,
           Cancel, Reset, ResetGone, EnterIdle, GetNextTimerTimeMs, Timeout, Wakeup,
           ReadClock, CheckEmpty, CollectNothing, Drain, histVars
  <2>4. QED
    BY <2>2, <2>3
<1>2. QED
  BY <1>1, CoreInvariant, PTL DEF Spec, CancelIsFinal

-----------------------------------------------------------------------------
(* How often a timer fires.                                                *)

\* A one-shot timer that can still fire has not fired, and one that was
\* cancelled never has.
OneShotInv ==
    \A t \in Timers \ LoopTimers :
      /\ t \in m_cb \cup cancelled => fires[t] = 0
      /\ fires[t] <= 1

\* Every step preserves it.
LEMMA NextOneShot == TypeInv /\ CallInv /\ SetInv /\ OneShotInv /\ [Next]_vars => OneShotInv'
<1> SUFFICES ASSUME TypeInv, CallInv, SetInv, OneShotInv, [Next]_vars PROVE OneShotInv'
  OBVIOUS
<1> USE DEF OneShotInv, timerVars, clockVars, flagVars, clientVars, pollerVars, histVars
<1>0. fires \in [Timers -> Nat]
  BY DEF TypeInv, TypeOK
<1>1. ASSUME NEW c \in Clients, ClientStep(c) PROVE OneShotInv'
  <2>1. ASSUME NEW t \in Timers, NEW ms \in Periods, Construct(c, t, ms) PROVE OneShotInv'
    <3>1. fires[t] = 0
      BY <2>1 DEF Construct, CallInv
    <3>2. QED
      BY <1>0, <2>1, <3>1 DEF Construct
  <2>2. CASE Insert(c)
    BY <2>2 DEF Insert
  <2>3. CASE Notify(c)
    BY <2>3 DEF Notify
  <2>4. ASSUME NEW t \in Timers, Cancel(c, t) PROVE OneShotInv'
    BY <1>0, <2>4 DEF Cancel
  <2>5. ASSUME NEW t \in Timers, Refresh(c, t) PROVE OneShotInv'
    BY <1>0, <2>5 DEF Refresh
  <2>6. ASSUME NEW t \in Timers, NEW ms \in Periods, NEW op \in {"reset", "restart"},
               Reset(c, t, ms, op) PROVE OneShotInv'
    BY <2>6 DEF Reset
  <2>7. CASE ResetWaiting(c)
    <3>1. PICK start \in Nat : ResetWaitingEffect(c, start)
      BY <2>7, ResetWaitingFacts
    <3>2. client[c].timer \in Timers /\ fires' = [fires EXCEPT ![client[c].timer] = 0]
      BY <3>1 DEF ResetWaitingEffect
    <3>3. UNCHANGED <<m_cb, cancelled>>
      BY <2>7 DEF ResetWaiting
    <3>4. QED
      BY <1>0, <3>2, <3>3
  <2>8. CASE ResetGone(c)
    BY <2>8 DEF ResetGone
  <2> HIDE DEF OneShotInv
  <2>9. QED
    BY <1>1, <2>1, <2>2, <2>3, <2>4, <2>5, <2>6, <2>7, <2>8 DEF ClientStep
<1>2. ASSUME NEW p \in Pollers, PollerStep(p) PROVE OneShotInv'
  <2>1. CASE Collect(p)
    <3> DEFINE expired == {k.timer : k \in Expired(now_ms[p])}
    <3>1. /\ m_cb' = m_cb \ (expired \ LoopTimers) /\ cancelled' = cancelled
          /\ \A t \in Timers : \/ fires'[t] = fires[t]
                               \/ t \in expired /\ fires'[t] = fires[t] + 1
      BY <1>0, <2>1 DEF Collect, Counted
    <3>2. \A u \in expired : u \in m_cb /\ u \notin cancelled
      BY DEF Expired, SetInv, CallInv
    <3> HIDE DEF expired
    <3>3. QED
      BY <1>0, <3>1, <3>2
  <2>2. CASE ~ Collect(p)
    BY <1>2, <2>2 DEF PollerStep, EnterIdle, GetNextTimerTimeMs, Timeout, Wakeup, ReadClock,
                      CheckEmpty, CollectNothing, Drain
  <2>3. QED
    BY <2>1, <2>2
<1>3. CASE Tick \/ Jump \/ UNCHANGED vars
  BY <1>3 DEF Tick, Jump, vars
<1>4. QED
  BY <1>1, <1>2, <1>3 DEF Next

\* A one-shot timer is collected at most once, and never when cancel() has
\* returned true, whatever happens to the clock.
THEOREM OneShotFiresOnce == Spec => []OneShotExact
<1>1. Init => OneShotInv
  BY DEF Init, OneShotInv
<1>2. TypeInv /\ OneShotInv => OneShotExact
  BY DEF TypeInv, TypeOK, OneShotInv, OneShotExact
<1>3. QED
  BY <1>1, <1>2, NextOneShot, CoreInvariant, PTL DEF Spec

\* While nobody has set the clock: what the pollers and the manager remember of
\* it is past, and no timer is due later than one period from now.
SteadyInv ==
    jumps = 0 =>
      /\ Start <= clock /\ m_previous_time <= clock
      /\ \A p \in Pollers : pc[p] \in {"check", "collect"} => Start <= now_ms[p] /\ now_ms[p] <= clock
      /\ \A t \in m_cb : m_next[t] <= clock + m_ms[t]

\* A poller that looks only at its own part of the state.
LocalStep(p) ==
    EnterIdle(p) \/ GetNextTimerTimeMs(p) \/ Timeout(p) \/ Wakeup(p) \/ CheckEmpty(p)
    \/ CollectNothing(p) \/ Drain(p)

\* Every step preserves it.
LEMMA NextSteady == TypeInv /\ CallInv /\ SetInv /\ SteadyInv /\ [Next]_vars => SteadyInv'
<1> SUFFICES ASSUME TypeInv, CallInv, SetInv, SteadyInv, [Next]_vars PROVE SteadyInv'
  OBVIOUS
<1> USE DEF SteadyInv, timerVars, clockVars, flagVars, clientVars, pollerVars, histVars
<1>0. /\ m_next \in [Timers -> Nat] /\ m_ms \in [Timers -> Nat] /\ m_cb \subseteq Timers
      /\ clock \in Nat /\ Start \in Nat /\ m_previous_time \in Nat /\ jumps \in Nat
      /\ now_ms \in [Pollers -> Nat] /\ pc \in [Pollers -> PCs]
      /\ \A ms \in Periods : ms \in Nat
  BY TimerAssumption, ClockAssumption DEF TypeInv, TypeOK
<1>1. ASSUME NEW c \in Clients, ClientStep(c) PROVE SteadyInv'
  <2>1. ASSUME NEW t \in Timers, NEW ms \in Periods, Construct(c, t, ms) PROVE SteadyInv'
    BY <1>0, <2>1 DEF Construct
  <2>2. CASE Insert(c)
    BY <2>2 DEF Insert
  <2>3. CASE Notify(c)
    BY <2>3 DEF Notify
  <2>4. ASSUME NEW t \in Timers, Cancel(c, t) PROVE SteadyInv'
    BY <1>0, <2>4 DEF Cancel
  <2>5. ASSUME NEW t \in Timers, Refresh(c, t) PROVE SteadyInv'
    BY <1>0, <2>5 DEF Refresh
  <2>6. ASSUME NEW t \in Timers, NEW ms \in Periods, NEW op \in {"reset", "restart"},
               Reset(c, t, ms, op) PROVE SteadyInv'
    BY <2>6 DEF Reset
  <2>7. CASE ResetWaiting(c)
    <3>1. PICK start \in Nat : ResetWaitingEffect(c, start)
      BY <2>7, ResetWaitingFacts
    <3>2. PICK t \in Timers, ms \in Nat : t = client[c].timer /\ ms = client[c].ms
      BY <3>1 DEF ResetWaitingEffect
    <3>3. /\ m_next' = [m_next EXCEPT ![t] = start + ms] /\ m_ms' = [m_ms EXCEPT ![t] = ms]
          /\ start = clock \/ start = m_next[t] - m_ms[t]
          /\ t \in m_cb
      BY <3>1, <3>2 DEF ResetWaitingEffect
    <3>4. UNCHANGED <<m_cb, clock, jumps, m_previous_time, pc, now_ms>>
      BY <2>7 DEF ResetWaiting
    <3>5. QED
      BY <1>0, <3>3, <3>4
  <2>8. CASE ResetGone(c)
    BY <2>8 DEF ResetGone
  <2> HIDE DEF SteadyInv
  <2>9. QED
    BY <1>1, <2>1, <2>2, <2>3, <2>4, <2>5, <2>6, <2>7, <2>8 DEF ClientStep
<1>2. ASSUME NEW p \in Pollers, PollerStep(p) PROVE SteadyInv'
  <2>1. CASE Collect(p)
    <3> DEFINE again == {k.timer : k \in Expired(now_ms[p])} \cap LoopTimers
    <3>1. /\ m_next' = [t \in Timers |-> IF t \in again THEN now_ms[p] + m_ms[t] ELSE m_next[t]]
          /\ m_cb' \subseteq m_cb /\ m_previous_time' = now_ms[p] /\ pc[p] = "collect"
          /\ pc' = [pc EXCEPT ![p] = "drain"] /\ UNCHANGED <<m_ms, clock, jumps, now_ms>>
      BY <2>1 DEF Collect, At, Goto
    <3> HIDE DEF again
    <3>2. QED
      BY <1>0, <3>1
  <2>2. CASE ReadClock(p)
    BY <1>0, <2>2 DEF ReadClock, Goto
  <2>3. CASE LocalStep(p)
    <3>1. UNCHANGED <<m_next, m_ms, m_cb, clock, jumps, m_previous_time>>
      BY <2>3 DEF LocalStep, EnterIdle, GetNextTimerTimeMs, Timeout, Wakeup, CheckEmpty,
                  CollectNothing, Drain
    <3>2. \A q \in Pollers : pc'[q] \in {"check", "collect"} =>
             pc[q] \in {"check", "collect"} /\ now_ms'[q] = now_ms[q]
      BY <1>0, <2>3 DEF LocalStep, EnterIdle, GetNextTimerTimeMs, Timeout, Wakeup, CheckEmpty,
                  CollectNothing, Drain, At, Goto
    <3>3. QED
      BY <3>1, <3>2
  <2> HIDE DEF SteadyInv
  <2>4. QED
    BY <1>2, <2>1, <2>2, <2>3 DEF PollerStep, LocalStep
<1>3. CASE Tick
  BY <1>0, <1>3 DEF Tick
<1>4. CASE Jump
  BY <1>0, <1>4 DEF Jump
<1>5. CASE UNCHANGED vars
  BY <1>5 DEF vars
<1>6. QED
  BY <1>1, <1>2, <1>3, <1>4, <1>5 DEF Next

\* Nobody has set it at the start.
LEMMA InitSteady == Init => SteadyInv
  BY ClockAssumption DEF Init, SteadyInv

\* While the clock was not set and did not look as if it was, a timer has fired at
\* most once per period since it was armed, and is due one period later.
Calm == jumps = 0 /\ ~ modified
RateInv ==
    Calm => \A t \in Timers :
      /\ born[t] <= clock /\ fires[t] * m_ms[t] <= clock - born[t]
      /\ t \in m_cb => born[t] + fires[t] * m_ms[t] + m_ms[t] <= m_next[t]

\* One more firing takes one more period.
LEMMA OneMore == \A f, ms \in Nat : (f + 1) * ms = f * ms + ms /\ f * ms \in Nat /\ 0 * ms = 0
  OBVIOUS

\* Every step preserves it.
LEMMA NextRate ==
    TypeInv /\ CallInv /\ SetInv /\ SteadyInv /\ RateInv /\ [Next]_vars => RateInv'
<1> SUFFICES ASSUME TypeInv, CallInv, SetInv, SteadyInv, RateInv, [Next]_vars, Calm' PROVE RateInv'
  BY DEF RateInv
<1> USE DEF timerVars, clockVars, flagVars, clientVars, pollerVars, histVars
<1>0. /\ m_next \in [Timers -> Nat] /\ m_ms \in [Timers -> Nat] /\ m_cb \subseteq Timers
      /\ clock \in Nat /\ Start \in Nat /\ m_previous_time \in Nat /\ jumps \in Nat /\ Hour \in Nat
      /\ now_ms \in [Pollers -> Nat] /\ born \in [Timers -> Nat] /\ fires \in [Timers -> Nat]
      /\ \A ms \in Periods : ms \in Nat
  BY TimerAssumption, ClockAssumption DEF TypeInv, TypeOK
<1> DEFINE Good(t) == /\ born[t] <= clock /\ fires[t] * m_ms[t] <= clock - born[t]
                      /\ t \in m_cb => born[t] + fires[t] * m_ms[t] + m_ms[t] <= m_next[t]
<1>a. Calm => \A t \in Timers : Good(t)
  BY DEF RateInv
<1>b. SUFFICES \A t \in Timers : Good(t)'
  BY DEF RateInv
<1>c. \A t \in Timers : fires[t] * m_ms[t] \in Nat
  BY <1>0, OneMore
<1>1. ASSUME NEW c \in Clients, ClientStep(c) PROVE \A t \in Timers : Good(t)'
  <2>0. Calm /\ clock' = clock
    BY <1>1 DEF Calm, ClientStep, Construct, Insert, Notify, Cancel, Refresh, Reset,
                ResetWaiting, ResetGone
  <2>a. \A t \in Timers : Good(t)
    BY <1>a, <2>0
  <2>1. ASSUME NEW t \in Timers, NEW ms \in Periods, Construct(c, t, ms)
        PROVE  \A u \in Timers : Good(u)'
    <3>1. fires[t] = 0
      BY <2>1 DEF Construct, CallInv
    <3>2. fires'[t] * m_ms'[t] = 0
      BY <1>0, <2>1, <3>1, OneMore DEF Construct
    <3>3. Good(t)'
      BY <1>0, <2>1, <3>2 DEF Construct
    <3>4. \A u \in Timers : u # t => Good(u)'
      BY <1>0, <2>a, <2>1 DEF Construct
    <3>5. QED
      BY <3>3, <3>4
  <2>2. CASE Insert(c)
    BY <2>2, <2>a DEF Insert
  <2>3. CASE Notify(c)
    BY <2>3, <2>a DEF Notify
  <2>4. ASSUME NEW t \in Timers, Cancel(c, t) PROVE \A u \in Timers : Good(u)'
    BY <2>4, <2>a DEF Cancel
  <2>5. ASSUME NEW t \in Timers, Refresh(c, t) PROVE \A u \in Timers : Good(u)'
    <3>1. fires'[t] * m_ms'[t] = 0
      BY <1>0, <2>5, OneMore DEF Refresh
    <3>2. Good(t)'
      BY <1>0, <2>5, <3>1 DEF Refresh
    <3>3. \A u \in Timers : u # t => Good(u)'
      BY <1>0, <2>a, <2>5 DEF Refresh
    <3>4. QED
      BY <3>2, <3>3
  <2>6. ASSUME NEW t \in Timers, NEW ms \in Periods, NEW op \in {"reset", "restart"},
               Reset(c, t, ms, op) PROVE \A u \in Timers : Good(u)'
    BY <2>6, <2>a DEF Reset
  <2>7. CASE ResetWaiting(c)
    <3>1. PICK start \in Nat : ResetWaitingEffect(c, start)
      BY <2>7, ResetWaitingFacts
    <3>2. PICK t \in Timers, ms \in Nat : t = client[c].timer /\ ms = client[c].ms
      BY <3>1 DEF ResetWaitingEffect
    <3>3. /\ m_next' = [m_next EXCEPT ![t] = start + ms] /\ m_ms' = [m_ms EXCEPT ![t] = ms]
          /\ start = clock \/ start = m_next[t] - m_ms[t]
          /\ born' = [born EXCEPT ![t] = start] /\ fires' = [fires EXCEPT ![t] = 0]
          /\ t \in m_cb
      BY <3>1, <3>2 DEF ResetWaitingEffect
    <3>4. UNCHANGED <<m_cb, clock>>
      BY <2>7 DEF ResetWaiting
    <3>5. start <= clock
      BY <1>0, <2>0, <3>3 DEF SteadyInv, Calm
    <3>6. fires'[t] * m_ms'[t] = 0
      BY <1>0, <3>3, OneMore
    <3>7. Good(t)'
      BY <1>0, <3>3, <3>4, <3>5, <3>6
    <3>8. \A u \in Timers : u # t => Good(u)'
      BY <1>0, <2>a, <3>3, <3>4
    <3>9. QED
      BY <3>7, <3>8
  <2>8. CASE ResetGone(c)
    BY <2>8, <2>a DEF ResetGone
  <2> HIDE DEF Good
  <2>9. QED
    BY <1>1, <2>1, <2>2, <2>3, <2>4, <2>5, <2>6, <2>7, <2>8 DEF ClientStep
<1>2. ASSUME NEW p \in Pollers, PollerStep(p) PROVE \A t \in Timers : Good(t)'
  <2>0. Calm /\ clock' = clock
    <3>1. jumps' = jumps /\ clock' = clock /\ (modified => modified')
      <4>1. CASE Collect(p)
        BY <4>1, Zenon DEF Collect
      <4>2. CASE ~ Collect(p)
        BY <1>2, <4>2 DEF PollerStep, EnterIdle, GetNextTimerTimeMs, Timeout, Wakeup, ReadClock,
                          CheckEmpty, CollectNothing, Drain
      <4>3. QED
        BY <4>1, <4>2
    <3>2. QED
      BY <3>1 DEF Calm
  <2>a. \A t \in Timers : Good(t)
    BY <1>a, <2>0
  <2>1. CASE Collect(p)
    <3> DEFINE now     == now_ms[p]
               expired == {k.timer : k \in Expired(now)}
    <3>1. /\ m_next' = [t \in Timers |-> IF t \in expired \cap LoopTimers THEN now + m_ms[t] ELSE m_next[t]]
          /\ m_cb' = m_cb \ (expired \ LoopTimers) /\ UNCHANGED <<m_ms, born>>
          /\ fires' = Counted(expired) /\ modified' = (modified \/ TimeModified(now))
          /\ pc[p] = "collect"
      BY <2>1 DEF Collect, At
    <3>2. now \in Nat /\ Start <= now /\ now <= clock /\ m_previous_time <= clock
      BY <1>0, <2>0, <3>1 DEF SteadyInv, Calm
    <3>3. ~ TimeModified(now)
      BY <3>1 DEF Calm
    <3>4. \A u \in expired : u \in m_cb /\ m_next[u] <= now
      BY <3>3 DEF Expired, SetInv, Key
    <3> HIDE DEF expired, now
    <3>5. ASSUME NEW t \in Timers, t \in expired PROVE Good(t)'
      <4>1. fires'[t] = fires[t] + 1 \/ fires'[t] = fires[t]
        BY <1>0, <3>1, <3>5 DEF Counted
      <4>2. /\ fires'[t] * m_ms'[t] = fires[t] * m_ms[t] + m_ms[t]
               \/ fires'[t] * m_ms'[t] = fires[t] * m_ms[t]
            /\ m_ms'[t] = m_ms[t]
        BY <1>0, <3>1, <4>1, OneMore
      <4>3. QED
        BY <1>0, <1>c, <2>0, <2>a, <3>1, <3>2, <3>4, <3>5, <4>2
    <3>6. ASSUME NEW t \in Timers, t \notin expired PROVE Good(t)'
      <4>1. fires'[t] = fires[t]
        BY <1>0, <3>1, <3>6 DEF Counted
      <4>2. QED
        BY <2>0, <2>a, <3>1, <3>6, <4>1
    <3>7. QED
      BY <3>5, <3>6
  <2>2. CASE ~ Collect(p)
    <3>1. UNCHANGED <<m_next, m_ms, m_cb, born, fires, clock>>
      BY <1>2, <2>2 DEF PollerStep, EnterIdle, GetNextTimerTimeMs, Timeout, Wakeup, ReadClock,
                        CheckEmpty, CollectNothing, Drain
    <3>2. QED
      BY <2>a, <3>1
  <2>3. QED
    BY <2>1, <2>2
<1>3. CASE Tick
  <2>1. Calm /\ clock' = clock + 1 /\ UNCHANGED <<m_next, m_ms, m_cb, born, fires>>
    BY <1>0, <1>3 DEF Tick, Calm
  <2>2. QED
    BY <1>0, <1>a, <1>c, <2>1
<1>4. CASE Jump
  BY <1>0, <1>4 DEF Jump, Calm
<1>5. CASE UNCHANGED vars
  BY <1>5, <1>a DEF vars, Calm
<1> HIDE DEF Good
<1>6. QED
  BY <1>1, <1>2, <1>3, <1>4, <1>5 DEF Next

\* A timer never fires more often than its period allows, although the time
\* that getExpiredCbsList() compares with is read before the lock.
THEOREM RateStaysBounded == Spec => []RateBounded
<1>1. Init => RateInv
  BY ClockAssumption DEF Init, RateInv, Calm
<1>2. RateInv => RateBounded
  BY DEF RateInv, RateBounded, Calm
<1>3. QED
  BY <1>1, <1>2, NextRate, NextSteady, InitSteady, CoreInvariant, PTL DEF Spec

-----------------------------------------------------------------------------
(* Nobody oversleeps.                                                      *)

\* Somebody is on the way to look at the timers, or to wake somebody up.
Watchful ==
    \/ edge
    \/ \E c \in Clients : client[c].op = "notify"
    \/ \E p \in Pollers : pc[p] # "wait"

\* Otherwise the next timer at the front will be announced, and some poller
\* sleeps no longer than until the present one is due.
WakeInv ==
    (jumps = 0 /\ Pollers # {}) =>
      \/ Watchful
      \/ /\ ~ m_notified
         /\ m_timers # {} => \E p \in Pollers : \A k \in m_timers : target[p] <= k.next

\* Inserting a timer keeps the sleepers covered: it is announced, or it is not
\* the first.
LEMMA AnnouncedCovers ==
    ASSUME NEW c \in Clients, NEW t, NEW k, NEW others, others \subseteq m_timers,
           k.next \in Nat, m_timers \subseteq [next : Nat, timer : Timers],
           target \in [Pollers -> Nat], target' = target, ~ m_notified,
           m_timers # {} => \E p \in Pollers : \A l \in m_timers : target[p] <= l.next,
           Announced(c, t, k, others)
    PROVE  \/ Watchful'
           \/ ~ m_notified' /\ \E p \in Pollers : \A l \in m_timers' : target'[p] <= l.next
<1>1. CASE client'[c].op = "notify"
  BY <1>1 DEF Watchful
<1>2. CASE client'[c].op # "notify"
  <2>1. PICK other \in others : other.next <= k.next
    BY <1>2 DEF Announced
  <2>2. PICK p \in Pollers : \A l \in m_timers : target[p] <= l.next
    BY <2>1
  <2>3. target[p] <= k.next
    <3>1. target[p] \in Nat /\ other.next \in Nat /\ target[p] <= other.next
      BY <2>1, <2>2
    <3>2. QED
      BY <2>1, <3>1
  <2>4. m_timers' = others \cup {k} /\ m_notified' = m_notified
    BY <1>2 DEF Announced
  <2>5. QED
    BY <2>2, <2>3, <2>4
<1>3. QED
  BY <1>1, <1>2

\* Every step preserves it.
LEMMA NextWake == TypeInv /\ CallInv /\ SetInv /\ SteadyInv /\ WakeInv /\ [Next]_vars => WakeInv'
<1> SUFFICES ASSUME TypeInv, CallInv, SetInv, SteadyInv, WakeInv, [Next]_vars,
                    jumps' = 0, Pollers # {}
             PROVE  WakeInv'
  BY DEF WakeInv
<1> USE DEF timerVars, clockVars, flagVars, clientVars, pollerVars, histVars
<1>0. /\ client \in [Clients -> Calls] /\ pc \in [Pollers -> PCs] /\ jumps \in Nat
      /\ target \in [Pollers -> Nat] /\ m_timers \subseteq [next : Nat, timer : Timers]
      /\ m_next \in [Timers -> Nat] /\ m_ms \in [Timers -> Nat] /\ clock \in Nat
  BY DEF TypeInv, TypeOK
<1>1. jumps = 0
  <2>1. CASE Jump
    BY <1>0, <2>1 DEF Jump
  <2>2. ASSUME NEW c \in Clients, ClientStep(c) PROVE jumps' = jumps
    BY <2>2 DEF ClientStep, Construct, Insert, Notify, Cancel, Refresh, Reset, ResetWaiting, ResetGone
  <2>3. ASSUME NEW p \in Pollers, PollerStep(p) PROVE jumps' = jumps
    BY <2>3 DEF PollerStep, EnterIdle, GetNextTimerTimeMs, Timeout, Wakeup, ReadClock, CheckEmpty,
                Collect, CollectNothing, Drain
  <2>4. CASE Tick \/ UNCHANGED vars
    BY <2>4 DEF Tick, vars
  <2>5. QED
    BY <2>1, <2>2, <2>3, <2>4 DEF Next
<1>2. Watchful \/ /\ ~ m_notified
                  /\ m_timers # {} => \E p \in Pollers : \A k \in m_timers : target[p] <= k.next
  BY <1>1 DEF WakeInv
<1>3. ASSUME NEW c \in Clients, ClientStep(c) PROVE WakeInv'
  <2>1. ASSUME UNCHANGED <<edge, pc>>, client[c].op # "notify",
               \A d \in Clients : d # c => client'[d] = client[d]
        PROVE  Watchful => Watchful'
    BY <2>1 DEF Watchful
  <2>2. ASSUME NEW t \in Timers, NEW ms \in Periods, Construct(c, t, ms) PROVE WakeInv'
    <3>1. Watchful => Watchful'
      BY <1>0, <2>1, <2>2 DEF Construct, Idle
    <3>2. QED
      BY <1>2, <2>2, <3>1 DEF Construct, WakeInv
  <2>3. CASE Insert(c)
    <3>1. Announced(c, client[c].timer, Key(client[c].timer), m_timers)
      BY <2>3, InsertFacts
    <3>2. Watchful => Watchful'
      BY <2>1, <2>3, <3>1 DEF Insert, In, Announced
    <3>3. Key(client[c].timer).next \in Nat
      <4>1. client[c].timer \in Timers
        BY <2>3 DEF Insert, In, TypeInv
      <4>2. QED
        BY <1>0, <4>1 DEF Key
    <3>4. target' = target
      BY <2>3 DEF Insert
    <3>5. CASE ~ Watchful
      <4>1. \/ Watchful'
            \/ ~ m_notified' /\ \E p \in Pollers : \A l \in m_timers' : target'[p] <= l.next
        BY <1>0, <1>2, <3>1, <3>3, <3>4, <3>5, AnnouncedCovers
      <4>2. QED
        BY <4>1 DEF WakeInv
    <3>6. QED
      BY <3>2, <3>5 DEF WakeInv
  <2>4. CASE Notify(c)
    <3>1. Watchful'
      BY <2>4 DEF Notify, Watchful
    <3>2. QED
      BY <3>1 DEF WakeInv
  <2>5. ASSUME NEW t \in Timers, Cancel(c, t) PROVE WakeInv'
    <3>1. Watchful => Watchful'
      BY <2>5 DEF Cancel, Watchful
    <3>2. m_timers' \subseteq m_timers /\ UNCHANGED <<m_notified, target>>
      BY <2>5 DEF Cancel
    <3>3. QED
      BY <1>2, <3>1, <3>2 DEF WakeInv
  <2>6. ASSUME NEW t \in Timers, Refresh(c, t) PROVE WakeInv'
    <3> DEFINE new == [next |-> clock + m_ms[t], timer |-> t]
    <3>1. Watchful => Watchful'
      BY <2>6 DEF Refresh, Watchful
    <3>2. /\ m_timers' = (m_timers \ {Key(t)}) \cup {new} /\ Key(t) \in m_timers /\ t \in m_cb
          /\ UNCHANGED <<m_notified, target>>
      BY <2>6 DEF Refresh
    <3>3. new.next \in Nat /\ Key(t).next \in Nat /\ Key(t).next <= new.next
      BY <1>0, <1>1, <3>2 DEF SteadyInv, Key
    <3> HIDE DEF new
    <3>4. \A p \in Pollers : (\A k \in m_timers : target[p] <= k.next) =>
                              (\A k \in m_timers' : target'[p] <= k.next)
      BY <1>0, <3>2, <3>3
    <3>5. QED
      BY <1>2, <3>1, <3>2, <3>4 DEF WakeInv
  <2>7. ASSUME NEW t \in Timers, NEW ms \in Periods, NEW op \in {"reset", "restart"},
               Reset(c, t, ms, op) PROVE WakeInv'
    <3>1. Watchful => Watchful'
      BY <1>0, <2>1, <2>7 DEF Reset, Idle
    <3>2. QED
      BY <1>2, <2>7, <3>1 DEF Reset, WakeInv
  <2>8. CASE ResetWaiting(c)
    <3>1. PICK start \in Nat : ResetWaitingEffect(c, start)
      BY <2>8, ResetWaitingFacts
    <3>2. Announced(c, client[c].timer, [next |-> start + client[c].ms, timer |-> client[c].timer],
                    m_timers \ {Key(client[c].timer)})
      BY <3>1, ResetAddFacts
    <3>3. Watchful => Watchful'
      BY <2>1, <2>8, <3>2 DEF ResetWaiting, InReset, Announced
    <3>4. client[c].ms \in Nat
      BY <3>1 DEF ResetWaitingEffect
    <3>5. QED
      BY <1>0, <1>2, <2>8, <3>2, <3>3, <3>4, AnnouncedCovers DEF ResetWaiting, WakeInv
  <2>9. CASE ResetGone(c)
    <3>1. Watchful => Watchful'
      BY <1>0, <2>1, <2>9 DEF ResetGone, InReset
    <3>2. QED
      BY <1>2, <2>9, <3>1 DEF ResetGone, WakeInv
  <2>10. QED
    BY <1>3, <2>2, <2>3, <2>4, <2>5, <2>6, <2>7, <2>8, <2>9 DEF ClientStep
<1>4. ASSUME NEW p \in Pollers, PollerStep(p) PROVE WakeInv'
  <2>1. CASE GetNextTimerTimeMs(p)
    <3>1. ~ m_notified' /\ m_timers' = m_timers
      BY <2>1 DEF GetNextTimerTimeMs
    <3>2. \A k \in m_timers : target'[p] <= k.next
      BY <1>0, <2>1 DEF GetNextTimerTimeMs
    <3>3. QED
      BY <3>1, <3>2 DEF WakeInv
  <2>2. CASE ~ GetNextTimerTimeMs(p)
    <3>1. pc'[p] # "wait"
      BY <1>0, <1>4, <2>2 DEF PollerStep, EnterIdle, Timeout, Wakeup, ReadClock, CheckEmpty,
                        Collect, CollectNothing, Drain, Goto
    <3>2. QED
      BY <3>1 DEF WakeInv, Watchful
  <2>3. QED
    BY <2>1, <2>2
<1>5. CASE Tick
  BY <1>2, <1>5 DEF Tick, WakeInv, Watchful
<1>6. CASE Jump
  BY <1>0, <1>6 DEF Jump
<1>7. CASE UNCHANGED vars
  BY <1>2, <1>7 DEF vars, WakeInv, Watchful
<1>8. QED
  BY <1>3, <1>4, <1>5, <1>6, <1>7 DEF Next

\* The first timer is never overslept: m_notified only saves notifications
\* that somebody has already been sent.
THEOREM NobodyOversleeps == Spec => []WakeupCovered
<1>1. Init => WakeInv
  BY DEF Init, WakeInv, Watchful
<1>2. WakeInv => WakeupCovered
  BY DEF WakeInv, Watchful, WakeupCovered
<1>3. QED
  BY <1>1, <1>2, NextWake, NextSteady, InitSteady, CoreInvariant, PTL DEF Spec
=============================================================================
