----------------------------- MODULE ConfigProofs -----------------------------
(***************************************************************************)
(* Proofs about ConfigData, for any number of threads, loggers and items.  *)
(***************************************************************************)
EXTENDS ConfigData, TLAPS

LoggerType == [name : LoggerNames, level : Levels, appenders : Seq(Appenders \cup {Stdout})]
LogType == [heap : Seq(LoggerType), map : [LoggerNames -> Nat]]

\* The map leads every name to a logger of that name.
LogOK(l) ==
    /\ l \in LogType
    /\ \A n \in LoggerNames : l.map[n] \in 0 .. Len(l.heap)
    /\ \A n \in LoggerNames : l.map[n] # 0 => l.heap[l.map[n]].name = n

Places == {"idle", "compare", "store", "next", "clear", "add", "install"}
Rebuilding(t) == pc[t] \in {"clear", "add", "install"}

\* Types, and that a logger which is rebuilt is the one of its name.
TypeInv ==
    /\ LogOK(log)
    /\ data \in Values /\ cbs \subseteq {0} /\ rd \subseteq Threads /\ dead \in BOOLEAN
    /\ alone \in BOOLEAN /\ synced \in BOOLEAN
    /\ pc \in [Threads -> Places] /\ arg \in [Threads -> Values]
    /\ at \in [Threads -> 0 .. Len(LoggerOrder) + 1] /\ obj \in [Threads -> Nat]
    /\ \A t \in Threads : Notifying(t) => t \in rd /\ at[t] # 0
    /\ \A t \in Threads : Rebuilding(t) =>
          /\ at[t] \in 1 .. Len(LoggerOrder) /\ Name(t) \in DOMAIN arg[t]
          /\ obj[t] \in 1 .. Len(log.heap) /\ log.heap[obj[t]].name = Name(t)

\* The logger of a name is as the value says.
Follows(l, name, v) == l.map[name] # 0 /\ l.heap[l.map[name]].appenders = <<v[name].appender>>

\* One thread sets at a time.
Alone == \A t, u \in Threads : Setting(t) /\ Setting(u) => t = u
\* While no thread sets, the loggers are those of the value.
Settled == (\A t \in Threads : ~ Setting(t)) => \A name \in DOMAIN data : Follows(log, name, data)
\* While one does, the loggers in front of its place are those of the new value.
Halfway(t) ==
    Setting(t) =>
        /\ \A j \in 1 .. at[t] - 1 : LoggerOrder[j] \in DOMAIN arg[t] => Follows(log, LoggerOrder[j], arg[t])
        /\ pc[t] = "add" => log.heap[obj[t]].appenders = <<>>
        /\ pc[t] = "install" => log.heap[obj[t]].appenders = <<arg[t][Name(t)].appender>>
        /\ pc[t] = "store" => at[t] = Len(LoggerOrder) + 1

Quiet == ~ dead /\ alone
AloneInv == Quiet => (Alone /\ \A t \in Threads : Halfway(t))
SettledInv == ~ dead /\ synced => Settled
FollowInv == AloneInv /\ SettledInv

-----------------------------------------------------------------------------
(* The operations on loggers.                                              *)

Grows(l, k) ==
    /\ Len(l.heap) <= Len(k.heap)
    /\ \A o \in 1 .. Len(l.heap) : k.heap[o] = l.heap[o]

LEMMA MadeIs ==
    ASSUME NEW l, LogOK(l), NEW name \in LoggerNames, NEW level \in Levels
    PROVE  LET k == Made(l, name, level) IN
           /\ LogOK(k) /\ Grows(l, k) /\ k.map = l.map /\ Last(k) = Len(l.heap) + 1
           /\ Len(k.heap) = Len(l.heap) + 1
           /\ k.heap[Last(k)] = Logger(name, level, <<>>)
<1> DEFINE k == Made(l, name, level)
           new == Logger(name, level, <<>>)
<1>1. l \in LogType /\ new \in LoggerType
  BY DEF LogOK, Logger, LoggerType
<1>2. k.heap = Append(l.heap, new) /\ k.map = l.map /\ k = [heap |-> Append(l.heap, new), map |-> l.map]
  BY <1>1, SMTT(30) DEF Made, LogType
<1> HIDE DEF k, new
<1>3. k.heap \in Seq(LoggerType) /\ Len(k.heap) = Len(l.heap) + 1 /\ k.heap[Len(l.heap) + 1] = new
      /\ (\A o \in 1 .. Len(l.heap) : k.heap[o] = l.heap[o]) /\ Len(l.heap) \in Nat
  BY <1>1, <1>2 DEF LogType
<1>4. k \in LogType
  BY <1>1, <1>2, <1>3 DEF LogType
<1>5. LogOK(k)
  BY <1>2, <1>3, <1>4 DEF LogOK
<1> QED
  BY <1>2, <1>3, <1>5 DEF Grows, Last, k, new

\* How the updates of the two fields read as records.
LEMMA MapSet ==
    ASSUME NEW H, NEW M, NEW N, NEW l \in [heap : H, map : [N -> M]], NEW n \in N, NEW o \in M
    PROVE  [l EXCEPT !.map[n] = o] = [heap |-> l.heap, map |-> [l.map EXCEPT ![n] = o]]
OBVIOUS

LEMMA HeapSet ==
    ASSUME NEW N, NEW L, NEW A, NEW M, NEW l \in [heap : Seq([name : N, level : L, appenders : A]), map : M],
           NEW o \in 1 .. Len(l.heap), NEW a \in A
    PROVE  [l EXCEPT !.heap[o].appenders = a]
             = [heap |-> [l.heap EXCEPT ![o] = [l.heap[o] EXCEPT !.appenders = a]], map |-> l.map]
<1> DEFINE h == [l.heap EXCEPT ![o] = [l.heap[o] EXCEPT !.appenders = a]]
<1>1. [l EXCEPT !.heap[o].appenders = a] = [l EXCEPT !.heap = h]
  OBVIOUS
<1> HIDE DEF h
<1>2. [l EXCEPT !.heap = h] = [heap |-> h, map |-> l.map]
  OBVIOUS
<1> QED
  BY <1>1, <1>2 DEF h

LEMMA SetIs ==
    ASSUME NEW l, LogOK(l), NEW name \in LoggerNames, NEW o \in 1 .. Len(l.heap), l.heap[o].name = name
    PROVE  LET k == setLogger(l, name, o) IN
           /\ LogOK(k) /\ k.heap = l.heap /\ k.map[name] = o
           /\ \A n \in LoggerNames : n # name => k.map[n] = l.map[n]
<1> DEFINE k == setLogger(l, name, o)
<1>1. l \in LogType
  BY DEF LogOK
<1>2. o \in Nat
  BY <1>1 DEF LogType
<1>3. k = [heap |-> l.heap, map |-> [l.map EXCEPT ![name] = o]]
  BY <1>1, <1>2, MapSet DEF setLogger, LogType
<1>4. k \in LogType /\ k.heap = l.heap /\ k.map[name] = o /\ \A n \in LoggerNames : n # name => k.map[n] = l.map[n]
  BY <1>1, <1>2, <1>3 DEF LogType
<1> HIDE DEF k
<1>5. LogOK(k)
  BY <1>4 DEF LogOK
<1> QED
  BY <1>4, <1>5 DEF k

\* clearAppenders() and addAppender() change the appenders of one logger.
Touches(l, k, o, apps) ==
    /\ LogOK(k) /\ k.map = l.map /\ Len(k.heap) = Len(l.heap)
    /\ k.heap[o].appenders = apps /\ k.heap[o].name = l.heap[o].name
    /\ \A p \in 1 .. Len(l.heap) : p # o => k.heap[p] = l.heap[p]

LEMMA TouchIs ==
    ASSUME NEW l, LogOK(l), NEW o \in 1 .. Len(l.heap), NEW apps \in Seq(Appenders \cup {Stdout}), NEW k,
           k = [l EXCEPT !.heap[o].appenders = apps]
    PROVE  Touches(l, k, o, apps)
<1> DEFINE new == [l.heap[o] EXCEPT !.appenders = apps]
<1>1. l \in LogType
  BY DEF LogOK
<1>2. l.heap \in Seq(LoggerType) /\ l.heap[o] \in LoggerType
  BY <1>1 DEF LogType
<1>3. new \in LoggerType /\ new.appenders = apps /\ new.name = l.heap[o].name
  BY <1>2 DEF LoggerType
<1>4. k = [heap |-> [l.heap EXCEPT ![o] = new], map |-> l.map]
  BY <1>1, HeapSet DEF LogType, LoggerType
<1> HIDE DEF new
<1>5. k.heap \in Seq(LoggerType) /\ Len(k.heap) = Len(l.heap) /\ k.heap[o] = new /\ k.map = l.map
      /\ \A p \in 1 .. Len(l.heap) : p # o => k.heap[p] = l.heap[p]
  BY <1>2, <1>3, <1>4
<1>6. k \in LogType
  BY <1>1, <1>4, <1>5 DEF LogType
<1>7. \A p \in 1 .. Len(l.heap) : k.heap[p].name = l.heap[p].name
  BY <1>3, <1>5
<1>8. LogOK(k)
  <2>1. \A n \in LoggerNames : l.map[n] # 0 => l.map[n] \in 1 .. Len(l.heap)
    BY DEF LogOK
  <2> QED
    BY <1>5, <1>6, <1>7, <2>1 DEF LogOK
<1> QED
  BY <1>3, <1>5, <1>8 DEF Touches

LEMMA ClearIs ==
    ASSUME NEW l, LogOK(l), NEW o \in 1 .. Len(l.heap)
    PROVE  Touches(l, clearAppenders(l, o), o, <<>>)
<1>1. <<>> \in Seq(Appenders \cup {Stdout})
  OBVIOUS
<1>2. clearAppenders(l, o) = [l EXCEPT !.heap[o].appenders = <<>>]
  BY DEF clearAppenders
<1> QED
  BY <1>1, <1>2, TouchIs

LEMMA AddIs ==
    ASSUME NEW l, LogOK(l), NEW o \in 1 .. Len(l.heap), NEW a \in Appenders \cup {Stdout}
    PROVE  Touches(l, addAppender(l, o, a), o, Append(l.heap[o].appenders, a))
<1>1. l.heap \in Seq(LoggerType)
  BY DEF LogOK, LogType
<1>2. l.heap[o] \in LoggerType
  BY <1>1
<1>3. l.heap[o].appenders \in Seq(Appenders \cup {Stdout})
  BY <1>2 DEF LoggerType
<1>4. Append(l.heap[o].appenders, a) \in Seq(Appenders \cup {Stdout})
  BY <1>3
<1>5. addAppender(l, o, a) = [l EXCEPT !.heap[o].appenders = Append(l.heap[o].appenders, a)]
  BY DEF addAppender
<1> QED
  BY <1>4, <1>5, TouchIs

\* getLogger() leaves the loggers that exist, and makes the one it is asked for.
LEMMA GetIs ==
    ASSUME NEW l, LogOK(l), NEW name \in LoggerNames
    PROVE  LET k == getLogger(l, name) IN
           /\ LogOK(k) /\ Grows(l, k) /\ k.map[name] # 0
           /\ \A n \in LoggerNames : l.map[n] # 0 => k.map[n] = l.map[n]
<1>1. CASE l.map[name] # 0
  BY <1>1 DEF getLogger, Grows, LogOK, LogType
<1>2. CASE l.map[name] = 0
  <2> DEFINE m == Made(l, name, DEBUG)
             a == addAppender(m, Last(m), Stdout)
             k == setLogger(a, name, Last(m))
  <2>1. LogOK(m) /\ Grows(l, m) /\ m.map = l.map /\ Last(m) = Len(l.heap) + 1 /\ Len(m.heap) = Len(l.heap) + 1
        /\ m.heap[Last(m)] = Logger(name, DEBUG, <<>>)
    BY LoggerAssumption, MadeIs
  <2>2. Len(l.heap) \in Nat
    BY DEF LogOK, LogType
  <2>3. Last(m) \in 1 .. Len(m.heap) /\ m.heap[Last(m)].name = name
    BY <2>1, <2>2 DEF Logger
  <2> HIDE DEF m
  <2>4. PICK apps : Touches(m, a, Last(m), apps)
    BY <2>1, <2>3, AddIs
  <2> HIDE DEF a
  <2>5. LogOK(a) /\ a.map = m.map /\ Len(a.heap) = Len(m.heap) /\ a.heap[Last(m)].name = name
        /\ \A p \in 1 .. Len(m.heap) : p # Last(m) => a.heap[p] = m.heap[p]
    BY <2>3, <2>4 DEF Touches
  <2>6. LogOK(k) /\ k.heap = a.heap /\ k.map[name] = Last(m) /\ \A n \in LoggerNames : n # name => k.map[n] = a.map[n]
    BY <2>3, <2>5, SetIs
  <2> HIDE DEF k
  <2>7. Grows(l, k)
    BY <2>1, <2>2, <2>5, <2>6 DEF Grows
  <2>8. k.map[name] # 0
    BY <2>1, <2>2, <2>6
  <2>9. \A n \in LoggerNames : l.map[n] # 0 => k.map[n] = l.map[n]
    BY <1>2, <2>1, <2>5, <2>6
  <2>10. getLogger(l, name) = k
    BY <1>2 DEF getLogger, k, a, m
  <2> QED
    BY <2>6, <2>7, <2>8, <2>9, <2>10
<1> QED
  BY <1>1, <1>2

-----------------------------------------------------------------------------
(* Types.                                                                  *)

KeepsNames(l, k) ==
    /\ Len(l.heap) <= Len(k.heap)
    /\ \A o \in 1 .. Len(l.heap) : k.heap[o].name = l.heap[o].name

LEMMA ValueIs ==
    ASSUME NEW v \in Values
    PROVE  /\ DOMAIN v \subseteq LoggerNames
           /\ \A n \in DOMAIN v : v[n].level \in Levels /\ v[n].appender \in Appenders
<1>1. PICK names \in SUBSET LoggerNames : v \in [names -> [level : Levels, appender : Appenders]]
  BY DEF Values
<1> QED
  BY <1>1

LEMMA NoDataIs == NoData \in Values /\ DOMAIN NoData = {}
<1>1. NoData \in [{} -> [level : Levels, appender : Appenders]] /\ DOMAIN NoData = {}
  BY DEF NoData
<1> QED
  BY <1>1 DEF Values

LEMMA OrderIs ==
    /\ Len(LoggerOrder) \in Nat
    /\ \A i \in 1 .. Len(LoggerOrder) : LoggerOrder[i] \in LoggerNames
    /\ \A n \in LoggerNames : \E i \in 1 .. Len(LoggerOrder) : LoggerOrder[i] = n
    /\ \A i, j \in 1 .. Len(LoggerOrder) : LoggerOrder[i] = LoggerOrder[j] => i = j
BY LoggerAssumption DEF LoggerNames

\* What TypeInv says of one thread.
ThreadInv(t) ==
    /\ Notifying(t) => (t \in rd /\ at[t] # 0)
    /\ Rebuilding(t) =>
          /\ at[t] \in 1 .. Len(LoggerOrder) /\ Name(t) \in DOMAIN arg[t]
          /\ obj[t] \in 1 .. Len(log.heap) /\ log.heap[obj[t]].name = Name(t)

LEMMA OthersKeep ==
    ASSUME TypeInv, LogOK(log'), KeepsNames(log, log'), NEW u \in Threads, u \in rd => u \in rd',
           pc'[u] = pc[u], at'[u] = at[u], arg'[u] = arg[u], obj'[u] = obj[u]
    PROVE  ThreadInv(u)'
<1>1. ThreadInv(u)
  BY DEF TypeInv, ThreadInv
<1>2. Len(log.heap) \in Nat /\ Len(log'.heap) \in Nat
  BY DEF TypeInv, LogOK, LogType
<1> QED
  BY <1>1, <1>2 DEF ThreadInv, Notifying, Rebuilding, Name, KeepsNames

LEMMA InitType == Init => TypeInv
<1> SUFFICES ASSUME Init PROVE TypeInv
  OBVIOUS
<1>1. LogOK(log)
  <2> DEFINE r == Logger("root", DEBUG, <<Stdout>>)
  <2>1. r \in LoggerType /\ r.name = "root"
    BY LoggerAssumption DEF Logger, LoggerType
  <2>2. log.heap = <<r>> /\ log.map = [name \in LoggerNames |-> IF name = "root" THEN 1 ELSE 0]
        /\ log = [heap |-> log.heap, map |-> log.map]
    BY DEF Init, LoggerInit
  <2> HIDE DEF r
  <2>3. log.heap \in Seq(LoggerType) /\ Len(log.heap) = 1 /\ log.heap[1] = r
    BY <2>1, <2>2
  <2>4. log.map \in [LoggerNames -> Nat]
    BY <2>2
  <2>5. log \in LogType
    BY <2>2, <2>3, <2>4 DEF LogType
  <2> QED
    BY <2>1, <2>2, <2>3, <2>5 DEF LogOK
<1>2. data \in Values /\ cbs \subseteq {0} /\ rd \subseteq Threads /\ dead \in BOOLEAN
      /\ alone \in BOOLEAN /\ synced \in BOOLEAN
  BY NoDataIs DEF Init
<1>3. pc \in [Threads -> Places] /\ arg \in [Threads -> Values]
      /\ at \in [Threads -> 0 .. Len(LoggerOrder) + 1] /\ obj \in [Threads -> Nat]
  BY NoDataIs, OrderIs DEF Init, Places
<1>4. \A t \in Threads : pc[t] = "idle"
  BY DEF Init
<1> QED
  BY <1>1, <1>2, <1>3, <1>4 DEF TypeInv, Notifying, Rebuilding

\* A step keeps TypeInv if it keeps the types and what TypeInv says of its thread.
LEMMA TypeFrom ==
    ASSUME TypeInv, LogOK(log'), KeepsNames(log, log'),
           data' \in Values, cbs' \subseteq {0}, rd' \subseteq Threads, dead' \in BOOLEAN,
           alone' \in BOOLEAN, synced' \in BOOLEAN,
           pc' \in [Threads -> Places], arg' \in [Threads -> Values],
           at' \in [Threads -> 0 .. Len(LoggerOrder) + 1], obj' \in [Threads -> Nat],
           \A u \in Threads :
              \/ ThreadInv(u)'
              \/ /\ u \in rd => u \in rd'
                 /\ pc'[u] = pc[u] /\ at'[u] = at[u] /\ arg'[u] = arg[u] /\ obj'[u] = obj[u]
    PROVE  TypeInv'
<1>1. ASSUME NEW u \in Threads PROVE ThreadInv(u)'
  BY <1>1, OthersKeep
<1> QED
  BY <1>1 DEF TypeInv, ThreadInv

LEMMA SameNames == \A l : LogOK(l) => KeepsNames(l, l)
BY DEF KeepsNames, LogOK, LogType

LEMMA GrowNames == \A l, k : Grows(l, k) => KeepsNames(l, k)
BY DEF Grows, KeepsNames

LEMMA TouchNames ==
    ASSUME NEW l, LogOK(l), NEW k, NEW o \in 1 .. Len(l.heap), NEW apps, Touches(l, k, o, apps)
    PROVE  KeepsNames(l, k)
BY DEF Touches, KeepsNames, LogOK, LogType

\* The logger that the callback is at, when the new value has it.
LEMMA AtIs ==
    ASSUME TypeInv, NEW t \in Threads, AtLogger(t), New(t) # <<>>
    PROVE  /\ at[t] \in 1 .. Len(LoggerOrder) /\ t \in rd /\ Name(t) \in LoggerNames
           /\ Name(t) \in DOMAIN arg[t] /\ arg[t][Name(t)].level \in Levels
<1>1. at[t] \in 1 .. Len(LoggerOrder) /\ t \in rd /\ Name(t) \in LoggerNames
  BY OrderIs DEF AtLogger, TypeInv, Notifying, Name
<1>2. Name(t) \in DOMAIN arg[t]
  BY DEF New
<1>3. arg[t] \in Values
  BY DEF TypeInv
<1> QED
  BY <1>1, <1>2, <1>3, ValueIs

\* The logger that is rebuilt.
LEMMA BuiltIs ==
    ASSUME TypeInv, NEW t \in Threads, Rebuilding(t)
    PROVE  /\ at[t] \in 1 .. Len(LoggerOrder) /\ t \in rd /\ Name(t) \in LoggerNames
           /\ Name(t) \in DOMAIN arg[t] /\ arg[t][Name(t)].appender \in Appenders
           /\ obj[t] \in 1 .. Len(log.heap) /\ log.heap[obj[t]].name = Name(t)
<1>1. at[t] \in 1 .. Len(LoggerOrder) /\ Name(t) \in DOMAIN arg[t]
      /\ obj[t] \in 1 .. Len(log.heap) /\ log.heap[obj[t]].name = Name(t)
  BY DEF TypeInv
<1>2. t \in rd
  BY DEF TypeInv, Rebuilding, Notifying
<1>3. Name(t) \in LoggerNames
  BY <1>1, OrderIs DEF Name
<1>4. arg[t] \in Values
  BY DEF TypeInv
<1> QED
  BY <1>1, <1>2, <1>3, <1>4, ValueIs

LEMMA TypeStep == ASSUME TypeInv, [Next]_vars PROVE TypeInv'
<1> USE OrderIs
<1>0. LogOK(log) /\ KeepsNames(log, log)
  BY SameNames DEF TypeInv
<1>1. CASE UNCHANGED <<log, item>>
  BY <1>1 DEF item, history, TypeInv, Notifying, Rebuilding, Name
<1>2. CASE UseLogger /\ UNCHANGED item
  <2>1. PICK name \in LoggerNames : log' = getLogger(log, name)
    BY <1>2 DEF UseLogger
  <2>2. LogOK(log') /\ KeepsNames(log, log')
    BY <1>0, <2>1, GetIs, GrowNames
  <2> QED
    BY <1>2, <2>2, TypeFrom DEF item, history, TypeInv
<1>3. CASE AddCB \/ DelCB \/ GetCB \/ ClearCB
  <2>1. UNCHANGED <<log, data, rd, pc, arg, at, obj, history>> /\ cbs' \subseteq {0} /\ dead' \in BOOLEAN
    <3>1. CASE AddCB
      BY <3>1 DEF AddCB, TypeInv
    <3>2. CASE DelCB
      BY <3>2 DEF DelCB, TypeInv
    <3>3. CASE GetCB
      <4>1. PICK key \in Keys : dead' \in {FALSE, key \notin cbs}
        BY <3>3 DEF GetCB
      <4>2. dead' \in BOOLEAN
        BY <4>1
      <4> QED
        BY <3>3, <4>2 DEF GetCB, TypeInv
    <3>4. CASE ClearCB
      BY <3>4 DEF ClearCB, TypeInv
    <3> QED
      BY <1>3, <3>1, <3>2, <3>3, <3>4
  <2> QED
    BY <1>0, <2>1, TypeFrom DEF history, TypeInv
<1>4. ASSUME NEW t \in Threads, Parse(t) \/ Step(t) PROVE TypeInv'
  <2> DEFINE Kept == /\ data' \in Values /\ cbs' \subseteq {0} /\ rd' \subseteq Threads /\ dead' \in BOOLEAN
                     /\ alone' \in BOOLEAN /\ synced' \in BOOLEAN
             Typed == /\ pc' \in [Threads -> Places] /\ arg' \in [Threads -> Values]
                      /\ at' \in [Threads -> 0 .. Len(LoggerOrder) + 1] /\ obj' \in [Threads -> Nat]
             Apart == \A u \in Threads \ {t} :
                         /\ u \in rd => u \in rd'
                         /\ pc'[u] = pc[u] /\ at'[u] = at[u] /\ arg'[u] = arg[u] /\ obj'[u] = obj[u]
  <2>0. ASSUME LogOK(log'), KeepsNames(log, log'), Kept, Typed, Apart, ThreadInv(t)' PROVE TypeInv'
    BY <2>0, TypeFrom
  <2>1. CASE \E v \in Inputs : SetCall(t, v)
    <3>1. PICK v \in Values : SetCall(t, v)
      BY <2>1, ConfigDataAssumption
    <3>2. Kept /\ Typed /\ Apart
      BY <3>1 DEF SetCall, Goto, TypeInv, Places, history
    <3>3. ThreadInv(t)'
      BY <3>1 DEF SetCall, Goto, TypeInv, ThreadInv, Notifying, Rebuilding
    <3>4. log' = log
      BY <3>1 DEF SetCall
    <3> QED
      BY <1>0, <2>0, <3>2, <3>3, <3>4
  <2>2. CASE dead' = TRUE /\ UNCHANGED <<log, data, cbs, rd, pc, arg, at, obj, history>>
    <3>1. Kept /\ Typed /\ Apart
      BY <2>2 DEF TypeInv, history
    <3>2. ThreadInv(t)'
      BY <2>2 DEF TypeInv, ThreadInv, Notifying, Rebuilding, Name
    <3> QED
      BY <1>0, <2>0, <2>2, <3>1, <3>2
  <2>3. CASE Compare(t)
    <3>1. Kept
      BY <2>3, ZenonT(60) DEF Compare, TypeInv
    <3>2. Typed /\ Apart
      <4>1. CASE data = arg[t]
        <5>1. Return(t) /\ rd' = rd
          BY <2>3, <4>1 DEF Compare
        <5> QED
          BY <5>1, NoDataIs DEF Return, Goto, TypeInv, Places
      <4>2. CASE data # arg[t]
        <5>1. PICK place \in {"store", "next"} : Forward(t, place)
          BY <2>3, <4>2 DEF Compare
        <5>2. rd \subseteq rd'
          BY <2>3, <4>2 DEF Compare
        <5>3. 1 \in 0 .. Len(LoggerOrder) + 1 /\ place \in Places
          BY DEF Places
        <5> QED
          BY <5>1, <5>2, <5>3 DEF Forward, Goto, TypeInv
      <4> QED
        BY <4>1, <4>2
    <3>3. ThreadInv(t)'
      <4>1. CASE Return(t)
        BY <4>1 DEF Return, Goto, TypeInv, ThreadInv, Notifying, Rebuilding
      <4>2. CASE Forward(t, "store")
        BY <4>2 DEF Forward, Goto, TypeInv, ThreadInv, Notifying, Rebuilding
      <4>3. CASE Forward(t, "next") /\ t \in rd'
        BY <4>3 DEF Forward, Goto, TypeInv, ThreadInv, Notifying, Rebuilding
      <4> QED
        BY <2>3, <4>1, <4>2, <4>3 DEF Compare
    <3>4. log' = log
      BY <2>3 DEF Compare
    <3> QED
      BY <1>0, <2>0, <3>1, <3>2, <3>3, <3>4
  <2>4. CASE Store(t)
    <3>1. Kept /\ Typed /\ Apart
      BY <2>4, NoDataIs DEF Store, Return, Goto, TypeInv, Places, history
    <3>2. ThreadInv(t)'
      BY <2>4 DEF Store, Return, Goto, TypeInv, ThreadInv, Notifying, Rebuilding
    <3>3. log' = log
      BY <2>4 DEF Store
    <3> QED
      BY <1>0, <2>0, <3>1, <3>2, <3>3
  <2>5. CASE NotInNew(t)
    <3>1. Kept /\ Typed /\ Apart
      BY <2>5 DEF NotInNew, AtLogger, TypeInv, history
    <3>2. ThreadInv(t)'
      BY <2>5 DEF NotInNew, AtLogger, TypeInv, ThreadInv, Notifying, Rebuilding
    <3>3. log' = log
      BY <2>5 DEF NotInNew
    <3> QED
      BY <1>0, <2>0, <3>1, <3>2, <3>3
  <2>6. CASE Added(t)
    <3>1. at[t] \in 1 .. Len(LoggerOrder) /\ t \in rd /\ Name(t) \in LoggerNames
          /\ Name(t) \in DOMAIN arg[t] /\ arg[t][Name(t)].level \in Levels
      BY <2>6, AtIs DEF Added
    <3>2. LogOK(log') /\ Grows(log, log') /\ Last(log') = Len(log.heap) + 1 /\ Len(log'.heap) = Len(log.heap) + 1
          /\ log'.heap[Last(log')] = Logger(Name(t), arg[t][Name(t)].level, <<>>)
      BY <1>0, <2>6, <3>1, MadeIs DEF Added
    <3>3. Len(log.heap) \in Nat
      BY <1>0 DEF LogOK, LogType
    <3>4. Last(log') \in 1 .. Len(log'.heap) /\ log'.heap[Last(log')].name = Name(t) /\ Last(log') \in Nat
      BY <3>2, <3>3 DEF Logger
    <3>5. Kept /\ Typed /\ Apart
      BY <2>6, <3>4 DEF Added, Goto, TypeInv, Places, history
    <3>6. ThreadInv(t)'
      <4>1. UNCHANGED <<at, arg, rd>> /\ obj'[t] = Last(log')
        BY <2>6 DEF Added, TypeInv
      <4> QED
        BY <3>1, <3>4, <4>1 DEF ThreadInv, Name
    <3> QED
      BY <2>0, <3>2, <3>5, <3>6, GrowNames
  <2>7. CASE Modified(t)
    <3>1. at[t] \in 1 .. Len(LoggerOrder) /\ t \in rd /\ Name(t) \in LoggerNames /\ Name(t) \in DOMAIN arg[t]
      BY <2>7, AtIs DEF Modified
    <3>2. LogOK(log') /\ Grows(log, log') /\ log'.map[Name(t)] # 0
      BY <1>0, <2>7, <3>1, GetIs DEF Modified
    <3>3. log'.map[Name(t)] \in 1 .. Len(log'.heap) /\ log'.heap[log'.map[Name(t)]].name = Name(t)
          /\ log'.map[Name(t)] \in Nat
      BY <3>1, <3>2 DEF LogOK, LogType
    <3>4. Kept /\ Typed /\ Apart
      BY <2>7, <3>3 DEF Modified, Goto, TypeInv, Places, history
    <3>5. ThreadInv(t)'
      <4>1. UNCHANGED <<at, arg, rd>> /\ obj'[t] = log'.map[Name(t)]
        BY <2>7 DEF Modified, TypeInv
      <4> QED
        BY <3>1, <3>3, <4>1 DEF ThreadInv, Name
    <3> QED
      BY <2>0, <3>2, <3>4, <3>5, GrowNames
  <2>8. CASE Clear(t) \/ Add(t)
    <3>1. Rebuilding(t)
      BY <2>8 DEF Clear, Add, Rebuilding
    <3>2. at[t] \in 1 .. Len(LoggerOrder) /\ t \in rd /\ Name(t) \in LoggerNames
          /\ Name(t) \in DOMAIN arg[t] /\ arg[t][Name(t)].appender \in Appenders
          /\ obj[t] \in 1 .. Len(log.heap) /\ log.heap[obj[t]].name = Name(t)
      BY <3>1, BuiltIs
    <3>3. PICK apps : Touches(log, log', obj[t], apps)
      BY <1>0, <2>8, <3>2, ClearIs, AddIs DEF Clear, Add
    <3>4. LogOK(log') /\ KeepsNames(log, log')
      <4>1. KeepsNames(log, log')
        BY <1>0, <3>2, <3>3, TouchNames
      <4> QED
        BY <3>3, <4>1 DEF Touches
    <3>5. Kept /\ Typed /\ Apart
      BY <2>8 DEF Clear, Add, Goto, TypeInv, Places, history
    <3>6. pc'[t] \in {"add", "install"} /\ UNCHANGED <<at, arg, obj, rd>>
      BY <2>8 DEF Clear, Add, Goto, TypeInv
    <3>7. obj[t] \in 1 .. Len(log'.heap) /\ log'.heap[obj[t]].name = Name(t)
      BY <3>2, <3>3 DEF Touches
    <3>8. ThreadInv(t)'
      BY <3>2, <3>6, <3>7 DEF ThreadInv, Notifying, Rebuilding, Name
    <3> QED
      BY <2>0, <3>4, <3>5, <3>8
  <2>9. CASE Install(t)
    <3>1. Rebuilding(t)
      BY <2>9 DEF Install, Rebuilding
    <3>2. at[t] \in 1 .. Len(LoggerOrder) /\ t \in rd /\ Name(t) \in LoggerNames
          /\ obj[t] \in 1 .. Len(log.heap) /\ log.heap[obj[t]].name = Name(t)
      BY <3>1, BuiltIs
    <3>3. LogOK(log') /\ log'.heap = log.heap
      BY <1>0, <2>9, <3>2, SetIs DEF Install
    <3>4. KeepsNames(log, log')
      BY <1>0, <3>3 DEF KeepsNames
    <3>5. Kept /\ Typed /\ Apart
      BY <2>9, <3>2 DEF Install, Goto, TypeInv, Places, history
    <3>6. ThreadInv(t)'
      BY <2>9, <3>2 DEF Install, Goto, TypeInv, ThreadInv, Notifying, Rebuilding
    <3> QED
      BY <2>0, <3>3, <3>4, <3>5, <3>6
  <2>10. CASE Removed(t)
    <3>1. dead' \in BOOLEAN
      BY <2>10 DEF Removed
    <3>2. Kept /\ Typed /\ Apart
      BY <2>10, <3>1 DEF Removed, Goto, TypeInv, Places, history
    <3>3. ThreadInv(t)'
      BY <2>10 DEF Removed, Goto, TypeInv, ThreadInv, Notifying, Rebuilding
    <3>4. log' = log
      BY <2>10 DEF Removed
    <3> QED
      BY <1>0, <2>0, <3>2, <3>3, <3>4
  <2>11. CASE Same(t)
    BY <2>2, <2>11 DEF Same
  <2>12. CASE Parse(t)
    BY <2>1, <2>2, <2>12 DEF Parse
  <2> QED
    BY <1>4, <2>3, <2>4, <2>5, <2>6, <2>7, <2>8, <2>9, <2>10, <2>11, <2>12 DEF Step
<1> QED
  BY <1>1, <1>2, <1>3, <1>4 DEF Next, vars

-----------------------------------------------------------------------------
(* The loggers follow the configuration.                                   *)

LEMMA FollowGrow ==
    ASSUME NEW l, LogOK(l), NEW k, Grows(l, k), NEW n \in LoggerNames, l.map[n] # 0 => k.map[n] = l.map[n],
           NEW v, Follows(l, n, v)
    PROVE  Follows(k, n, v)
<1>1. l.map[n] \in 1 .. Len(l.heap)
  BY DEF LogOK, LogType, Follows
<1> QED
  BY <1>1 DEF Grows, Follows

LEMMA FollowTouch ==
    ASSUME NEW l, LogOK(l), NEW k, NEW o \in 1 .. Len(l.heap), NEW apps, Touches(l, k, o, apps),
           NEW n \in LoggerNames, l.heap[o].name # n, NEW v, Follows(l, n, v)
    PROVE  Follows(k, n, v)
<1>1. l.map[n] \in 1 .. Len(l.heap) /\ l.heap[l.map[n]].name = n
  BY DEF LogOK, LogType, Follows
<1> QED
  BY <1>1 DEF Touches, Follows

LEMMA FollowSet ==
    ASSUME NEW l, LogOK(l), NEW name \in LoggerNames, NEW o \in 1 .. Len(l.heap), l.heap[o].name = name,
           NEW n \in LoggerNames, NEW v,
           IF n = name THEN l.heap[o].appenders = <<v[n].appender>> ELSE Follows(l, n, v)
    PROVE  Follows(setLogger(l, name, o), n, v)
<1> DEFINE k == setLogger(l, name, o)
<1>1. k.heap = l.heap /\ k.map[name] = o /\ \A m \in LoggerNames : m # name => k.map[m] = l.map[m]
  BY SetIs
<1> HIDE DEF k
<1>2. o # 0
  OBVIOUS
<1> QED
  BY <1>1, <1>2 DEF Follows, k

LEMMA InitFollow == Init => FollowInv
BY NoDataIs DEF Init, FollowInv, AloneInv, SettledInv, Alone, Settled, Halfway, Setting, Notifying

\* Nothing but a call of setData() changes what AloneInv and SettledInv read.
LEMMA GetKeeps ==
    ASSUME TypeInv, UseLogger, UNCHANGED item
    PROVE  (Alone => Alone') /\ (Settled => Settled') /\ (\A t \in Threads : Halfway(t) => Halfway(t)')
<1> USE OrderIs
<1>0. LogOK(log)
  BY DEF TypeInv
<1>1. PICK name \in LoggerNames : log' = getLogger(log, name)
  BY DEF UseLogger
<1>2. Grows(log, log') /\ \A n \in LoggerNames : log.map[n] # 0 => log'.map[n] = log.map[n]
  BY <1>0, <1>1, GetIs
<1>3. UNCHANGED <<data, pc, arg, at, obj>>
  BY DEF item
<1>4. \A n \in LoggerNames : \A v : Follows(log, n, v) => Follows(log', n, v)
  BY <1>0, <1>2, FollowGrow
<1>5. Alone => Alone'
  BY <1>3 DEF Alone, Setting, Notifying
<1>6. Settled => Settled'
  <2>1. data \in Values
    BY DEF TypeInv
  <2>2. DOMAIN data \subseteq LoggerNames
    BY <2>1, ValueIs
  <2> QED
    BY <1>3, <1>4, <2>2 DEF Settled, Setting, Notifying
<1>7. ASSUME NEW t \in Threads, Halfway(t) PROVE Halfway(t)'
  <2>1. at[t] \in 0 .. Len(LoggerOrder) + 1
    BY DEF TypeInv
  <2>2. \A j \in 1 .. at[t] - 1 : LoggerOrder[j] \in LoggerNames
    BY <2>1
  <2>3. Rebuilding(t) => log'.heap[obj[t]] = log.heap[obj[t]]
    BY <1>2 DEF TypeInv, Grows
  <2> QED
    BY <1>3, <1>4, <1>7, <2>2, <2>3 DEF Halfway, Rebuilding, Name, Setting, Notifying
<1> QED
  BY <1>5, <1>6, <1>7

LEMMA AloneStep == ASSUME TypeInv, AloneInv, [Next]_vars PROVE AloneInv'
<1> SUFFICES ASSUME Quiet' PROVE (Alone /\ \A t \in Threads : Halfway(t))'
  BY DEF AloneInv
<1> USE OrderIs
<1>0. LogOK(log) /\ LogOK(log') /\ TypeInv'
  BY TypeStep DEF TypeInv
<1>1. CASE UNCHANGED <<log, item>>
  BY <1>1 DEF item, history, AloneInv, Quiet, Alone, Halfway, Name, Setting, Notifying
<1>2. CASE UseLogger /\ UNCHANGED item
  BY <1>2, GetKeeps DEF item, history, AloneInv, Quiet
<1>3. CASE AddCB \/ DelCB \/ GetCB \/ ClearCB
  <2>1. UNCHANGED <<log, data, pc, arg, at, obj, alone>> /\ ~ dead
    BY <1>3 DEF AddCB, DelCB, GetCB, ClearCB, history
  <2>2. Quiet
    BY <2>1 DEF Quiet
  <2> QED
    BY <2>1, <2>2 DEF AloneInv, Alone, Halfway, Name, Setting, Notifying
<1>4. ASSUME NEW t \in Threads, Compare(t) PROVE (Alone /\ \A u \in Threads : Halfway(u))'
  <2>1. pc[t] = "compare" /\ UNCHANGED <<log, data, dead>> /\ ~ dead
    BY <1>4 DEF Compare
  <2>2. pc \in [Threads -> Places] /\ at \in [Threads -> 0 .. Len(LoggerOrder) + 1]
        /\ arg \in [Threads -> Values] /\ obj \in [Threads -> Nat]
    BY DEF TypeInv
  <2>3. CASE data = arg[t]
    <3>1. pc' = [pc EXCEPT ![t] = "idle"] /\ alone' = alone
      BY <1>4, <2>3 DEF Compare, Return, Goto
    <3>2. \A u \in Threads : /\ Setting(u)' => u # t /\ Setting(u)
                             /\ u # t => pc'[u] = pc[u] /\ at'[u] = at[u] /\ arg'[u] = arg[u] /\ obj'[u] = obj[u]
      BY <1>4, <2>2, <2>3, <3>1 DEF Compare, Return, Setting, Notifying
    <3>3. Alone /\ \A u \in Threads : Halfway(u)
      BY <2>1, <3>1 DEF AloneInv, Quiet
    <3> QED
      BY <2>1, <3>2, <3>3 DEF Alone, Halfway, Name
  <2>4. CASE data # arg[t]
    <3>1. Forward(t, "next") /\ \A u \in Threads : ~ Setting(u)
      BY <1>4, <2>4 DEF Compare, Quiet
    <3>2. pc' = [pc EXCEPT ![t] = "next"] /\ at'[t] = 1 /\ pc'[t] = "next"
      BY <2>2, <3>1 DEF Forward, Goto
    <3>3. \A u \in Threads : u # t => ~ Setting(u)'
      BY <2>2, <3>1, <3>2 DEF Setting, Notifying
    <3> QED
      BY <3>2, <3>3 DEF Alone, Halfway
  <2> QED
    BY <2>3, <2>4
<1>5. ASSUME NEW t \in Threads, Parse(t) \/ Step(t), ~ Compare(t)
      PROVE  (Alone /\ \A u \in Threads : Halfway(u))'
  <2>0. Quiet
    <3>1. ~ dead
      BY <1>5 DEF Parse, SetCall, Step, Compare, Store, NotInNew, Added, Modified, Same, Clear, Add, Install, Removed,
         AtLogger
    <3>2. alone' = alone
      BY <1>5 DEF Parse, SetCall, Step, Store, NotInNew, Added, Modified, Same, Clear, Add, Install, Removed, history
    <3> QED
      BY <3>1, <3>2 DEF Quiet
  <2>1. Alone /\ \A u \in Threads : Halfway(u)
    BY <2>0 DEF AloneInv
  <2>2. pc \in [Threads -> Places] /\ at \in [Threads -> 0 .. Len(LoggerOrder) + 1]
        /\ arg \in [Threads -> Values] /\ obj \in [Threads -> Nat]
    BY DEF TypeInv
  \* Only what is in front of the place of t has to be shown of a step of the callback.
  <2>3. ASSUME NEW place \in {"next", "clear", "add", "install", "store"}, Setting(t),
               pc' = [pc EXCEPT ![t] = place], Halfway(t)'
        PROVE  (Alone /\ \A u \in Threads : Halfway(u))'
    <3>1. \A u \in Threads : u # t => ~ Setting(u) /\ ~ Setting(u)'
      BY <2>1, <2>2, <2>3 DEF Alone, Setting, Notifying
    <3> QED
      BY <2>3, <3>1 DEF Alone, Halfway
  <2>4. CASE \E v \in Inputs : SetCall(t, v)
    <3>1. UNCHANGED <<log, at, obj>> /\ pc' = [pc EXCEPT ![t] = "compare"] /\ pc[t] = "idle"
          /\ \A u \in Threads : u # t => arg'[u] = arg[u]
      BY <2>2, <2>4 DEF SetCall, Goto
    <3>2. \A u \in Threads : Setting(u)' => u # t /\ Setting(u) /\ pc'[u] = pc[u]
      BY <2>2, <3>1 DEF Setting, Notifying
    <3> QED
      BY <2>1, <3>1, <3>2 DEF Alone, Halfway, Name
  <2>6. CASE Store(t)
    <3>1. log' = log /\ pc[t] = "store" /\ pc' = [pc EXCEPT ![t] = "idle"]
      BY <2>6 DEF Store, Return, Goto
    <3>2. \A u \in Threads : ~ Setting(u)'
      BY <2>1, <2>2, <3>1 DEF Alone, Setting, Notifying
    <3> QED
      BY <3>2 DEF Alone, Halfway
  <2>7. CASE NotInNew(t)
    <3>1. pc[t] = "next" /\ pc' = pc /\ at'[t] = at[t] + 1 /\ UNCHANGED <<log, arg>> /\ Name(t) \notin DOMAIN arg[t]
      BY <2>2, <2>7 DEF NotInNew, AtLogger, New
    <3>2. Halfway(t)
      BY <2>1
    <3>3. Halfway(t)'
      BY <2>2, <3>1, <3>2 DEF Halfway, Setting, Notifying, Name
    <3>4. pc' = [pc EXCEPT ![t] = "next"]
      BY <2>2, <3>1
    <3> QED
      BY <2>3, <3>1, <3>3, <3>4 DEF Setting, Notifying
  \* The loggers in front of the place of t, which have other names, stay.
  <2>8. ASSUME NEW l, \A n \in LoggerNames : n # Name(t) /\ Follows(log, n, arg[t]) => Follows(l, n, arg[t]),
               pc[t] \in {"next", "clear", "add", "install"}, at[t] \in 1 .. Len(LoggerOrder)
        PROVE  \A j \in 1 .. at[t] - 1 : LoggerOrder[j] \in DOMAIN arg[t] => Follows(l, LoggerOrder[j], arg[t])
    <3>1. \A j \in 1 .. at[t] - 1 : LoggerOrder[j] \in LoggerNames /\ LoggerOrder[j] # Name(t)
      BY <2>8 DEF Name
    <3>2. Halfway(t)
      BY <2>1
    <3>3. \A j \in 1 .. at[t] - 1 : LoggerOrder[j] \in DOMAIN arg[t] => Follows(log, LoggerOrder[j], arg[t])
      BY <2>8, <3>2 DEF Halfway, Setting, Notifying
    <3> QED
      BY <2>8, <3>1, <3>3
  <2>9. CASE Added(t) \/ Modified(t)
    <3>1. pc[t] = "next" /\ pc' = [pc EXCEPT ![t] = "clear"] /\ UNCHANGED <<at, arg>>
      BY <2>9 DEF Added, Modified, AtLogger, Goto
    <3>2. at[t] \in 1 .. Len(LoggerOrder) /\ Name(t) \in LoggerNames /\ arg[t][Name(t)].level \in Levels
      BY <2>9, AtIs DEF Added, Modified
    <3>3. Grows(log, log') /\ \A n \in LoggerNames : log.map[n] # 0 => log'.map[n] = log.map[n]
      <4>1. CASE Added(t)
        BY <1>0, <3>2, <4>1, MadeIs DEF Added
      <4>2. CASE Modified(t)
        BY <1>0, <3>2, <4>2, GetIs DEF Modified
      <4> QED
        BY <2>9, <4>1, <4>2
    <3>4. \A n \in LoggerNames : Follows(log, n, arg[t]) => Follows(log', n, arg[t])
      BY <1>0, <3>3, FollowGrow
    <3>5. \A j \in 1 .. at[t] - 1 : LoggerOrder[j] \in DOMAIN arg[t] => Follows(log', LoggerOrder[j], arg[t])
      BY <2>8, <3>1, <3>2, <3>4
    <3>6. Halfway(t)'
      BY <2>2, <3>1, <3>5 DEF Halfway, Setting, Notifying
    <3> QED
      BY <2>3, <3>1, <3>6 DEF Setting, Notifying
  <2>10. CASE Clear(t) \/ Add(t)
    <3>1. Rebuilding(t) /\ UNCHANGED <<at, arg, obj>>
      BY <2>10 DEF Clear, Add, Rebuilding
    <3>2. at[t] \in 1 .. Len(LoggerOrder) /\ Name(t) \in LoggerNames /\ arg[t][Name(t)].appender \in Appenders
          /\ obj[t] \in 1 .. Len(log.heap) /\ log.heap[obj[t]].name = Name(t)
      BY <3>1, BuiltIs
    <3>3. ASSUME NEW apps, Touches(log, log', obj[t], apps)
          PROVE  \A j \in 1 .. at[t] - 1 : LoggerOrder[j] \in DOMAIN arg[t] => Follows(log', LoggerOrder[j], arg[t])
      <4>1. \A n \in LoggerNames : n # Name(t) /\ Follows(log, n, arg[t]) => Follows(log', n, arg[t])
        BY <1>0, <3>2, <3>3, FollowTouch
      <4> QED
        BY <2>8, <3>1, <3>2, <4>1 DEF Rebuilding
    <3>4. CASE Clear(t)
      <4>1. Touches(log, log', obj[t], <<>>)
        BY <1>0, <3>2, <3>4, ClearIs DEF Clear
      <4>2. log'.heap[obj[t]].appenders = <<>>
        BY <4>1 DEF Touches
      <4>3. pc[t] = "clear" /\ pc' = [pc EXCEPT ![t] = "add"] /\ pc'[t] = "add"
        BY <2>2, <3>4 DEF Clear, Goto
      <4>4. Halfway(t)'
        BY <3>1, <3>3, <4>1, <4>2, <4>3 DEF Halfway, Setting, Notifying
      <4> QED
        BY <2>3, <4>3, <4>4 DEF Setting, Notifying
    <3>5. CASE Add(t)
      <4>1. pc[t] = "add" /\ pc' = [pc EXCEPT ![t] = "install"] /\ pc'[t] = "install"
        BY <2>2, <3>5 DEF Add, Goto
      <4>2. log.heap[obj[t]].appenders = <<>>
        <5>1. Halfway(t)
          BY <2>1
        <5> QED
          BY <4>1, <5>1 DEF Halfway, Setting, Notifying
      <4>3. Touches(log, log', obj[t], Append(<<>>, arg[t][Name(t)].appender))
        <5>1. log' = addAppender(log, obj[t], arg[t][Name(t)].appender)
          BY <3>5 DEF Add
        <5>2. arg[t][Name(t)].appender \in Appenders \cup {Stdout}
          BY <3>2
        <5>3. Touches(log, log', obj[t], Append(log.heap[obj[t]].appenders, arg[t][Name(t)].appender))
          BY <1>0, <3>2, <5>1, <5>2, AddIs
        <5> QED
          BY <4>2, <5>3
      <4>4. log'.heap[obj[t]].appenders = <<arg[t][Name(t)].appender>>
        BY <4>3 DEF Touches
      <4>5. Halfway(t)'
        BY <3>1, <3>3, <4>1, <4>3, <4>4 DEF Halfway, Setting, Notifying, Name
      <4> QED
        BY <2>3, <4>1, <4>5 DEF Setting, Notifying
    <3> QED
      BY <2>10, <3>4, <3>5
  <2>11. CASE Install(t)
    <3>1. Rebuilding(t) /\ UNCHANGED arg /\ at'[t] = at[t] + 1 /\ pc[t] = "install"
          /\ pc' = [pc EXCEPT ![t] = "next"] /\ pc'[t] = "next" /\ log' = setLogger(log, Name(t), obj[t])
      BY <2>2, <2>11 DEF Install, Rebuilding, Goto
    <3>2. at[t] \in 1 .. Len(LoggerOrder) /\ Name(t) \in LoggerNames
          /\ obj[t] \in 1 .. Len(log.heap) /\ log.heap[obj[t]].name = Name(t)
      BY <3>1, BuiltIs
    <3>3. log.heap[obj[t]].appenders = <<arg[t][Name(t)].appender>>
      <4>1. Halfway(t)
        BY <2>1
      <4> QED
        BY <3>1, <4>1 DEF Halfway, Setting, Notifying
    <3>4. Follows(log', Name(t), arg[t])
      BY <1>0, <3>1, <3>2, <3>3, FollowSet
    <3>5. \A n \in LoggerNames : n # Name(t) /\ Follows(log, n, arg[t]) => Follows(log', n, arg[t])
      BY <1>0, <3>1, <3>2, FollowSet
    <3>6. \A j \in 1 .. at[t] - 1 : LoggerOrder[j] \in DOMAIN arg[t] => Follows(log', LoggerOrder[j], arg[t])
      BY <2>8, <3>1, <3>2, <3>5
    <3>7. \A j \in 1 .. at[t] : LoggerOrder[j] \in DOMAIN arg[t] => Follows(log', LoggerOrder[j], arg[t])
      BY <3>2, <3>4, <3>6 DEF Name
    <3>8. Halfway(t)'
      BY <3>1, <3>2, <3>7 DEF Halfway, Setting, Notifying
    <3> QED
      BY <2>3, <3>1, <3>8 DEF Setting, Notifying
  <2>12. CASE Removed(t)
    <3>1. UNCHANGED <<log, arg, at, obj>> /\ pc[t] = "next" /\ at[t] > Len(LoggerOrder)
          /\ pc' = [pc EXCEPT ![t] = "store"] /\ pc'[t] = "store"
      BY <2>2, <2>12 DEF Removed, Goto
    <3>2. at[t] = Len(LoggerOrder) + 1
      BY <2>2, <3>1
    <3>3. Halfway(t)
      BY <2>1
    <3>4. Halfway(t)'
      BY <3>1, <3>2, <3>3 DEF Halfway, Setting, Notifying
    <3> QED
      BY <2>3, <3>1, <3>4 DEF Setting, Notifying
  <2>13. ~ Same(t) /\ (Parse(t) => \E v \in Inputs : SetCall(t, v))
    BY DEF Same, Parse, Quiet
  <2> QED
    BY <1>5, <2>4, <2>6, <2>7, <2>9, <2>10, <2>11, <2>12, <2>13 DEF Step
<1> QED
  BY <1>1, <1>2, <1>3, <1>4, <1>5 DEF Next, vars, Step

LEMMA SettledStep == ASSUME TypeInv, AloneInv, SettledInv, [Next]_vars PROVE SettledInv'
<1> SUFFICES ASSUME ~ dead', synced' PROVE Settled'
  BY DEF SettledInv
<1> USE OrderIs
<1>1. CASE UNCHANGED <<log, item>>
  BY <1>1 DEF item, history, SettledInv, Settled, Setting, Notifying
<1>2. CASE UseLogger /\ UNCHANGED item
  BY <1>2, GetKeeps DEF item, history, SettledInv
<1>3. CASE AddCB \/ DelCB \/ GetCB \/ ClearCB
  <2>1. UNCHANGED <<log, data, pc, synced>> /\ ~ dead
    BY <1>3 DEF AddCB, DelCB, GetCB, ClearCB, history
  <2> QED
    BY <2>1 DEF SettledInv, Settled, Setting, Notifying
<1>4. ASSUME NEW t \in Threads, Parse(t) \/ Step(t) PROVE Settled'
  <2>1. pc \in [Threads -> Places]
    BY DEF TypeInv
  <2>2. CASE Store(t)
    <3>1. data' = arg[t] /\ log' = log /\ pc[t] = "store" /\ alone /\ ~ dead
      BY <2>2 DEF Store
    <3>2. Halfway(t)
      BY <3>1 DEF AloneInv, Quiet
    <3>3. at[t] = Len(LoggerOrder) + 1
          /\ \A j \in 1 .. at[t] - 1 : LoggerOrder[j] \in DOMAIN arg[t] => Follows(log, LoggerOrder[j], arg[t])
      BY <3>1, <3>2 DEF Halfway, Setting
    <3>4. arg[t] \in Values
      BY DEF TypeInv
    <3>5. DOMAIN arg[t] \subseteq LoggerNames
      BY <3>4, ValueIs
    <3>6. ASSUME NEW name \in DOMAIN arg[t] PROVE Follows(log, name, arg[t])
      <4>1. PICK j \in 1 .. Len(LoggerOrder) : LoggerOrder[j] = name
        BY <3>5
      <4> QED
        BY <3>3, <4>1
    <3> QED
      BY <3>1, <3>6 DEF Settled
  \* A call that finds the value it sets, or that begins: nobody begins or ends to set.
  <2>3. CASE (Parse(t) \/ Compare(t)) /\ pc'[t] \in {"idle", "compare"}
    <3>1. UNCHANGED <<log, data>> /\ ~ dead /\ synced /\ pc[t] \in {"idle", "compare"}
      BY <2>3 DEF Parse, SetCall, Compare, history
    <3>2. \A u \in Threads : u # t => pc'[u] = pc[u]
      BY <2>1, <2>3 DEF Parse, SetCall, Compare, Return, Forward, Goto
    <3>3. \A u \in Threads : Setting(u) => Setting(u)'
      BY <3>1, <3>2 DEF Setting, Notifying
    <3> QED
      BY <3>1, <3>3 DEF SettledInv, Settled
  <2>4. CASE ~ Store(t) /\ ~ ((Parse(t) \/ Compare(t)) /\ pc'[t] \in {"idle", "compare"})
    <3>1. Setting(t)'
      <4>1. CASE Parse(t)
        BY <2>1, <2>4, <4>1 DEF Parse, SetCall, Goto
      <4>2. CASE Compare(t)
        BY <2>1, <2>4, <4>2 DEF Compare, Return, Forward, Goto, Setting, Notifying
      <4>3. CASE Step(t) /\ ~ Compare(t)
        BY <2>1, <2>4, <4>3 DEF Step, NotInNew, AtLogger, Added, Modified, Same, Clear, Add, Install, Removed, Goto,
           Setting, Notifying
      <4> QED
        BY <1>4, <4>1, <4>2, <4>3
    <3> QED
      BY <3>1 DEF Settled
  <2> QED
    BY <2>2, <2>3, <2>4
<1> QED
  BY <1>1, <1>2, <1>3, <1>4 DEF Next, vars

\* The loggers are those of the configuration, for any number of threads,
\* loggers and values: once a call of setData() has run the callback with no
\* other call in between, every configured name has a logger with the configured
\* appender and no other, whatever earlier calls left behind.
THEOREM LoggersStay == Spec => []LoggersFollow
<1>1. TypeInv /\ FollowInv => LoggersFollow
  <2> SUFFICES ASSUME TypeInv, FollowInv PROVE LoggersFollow
    OBVIOUS
  <2>1. TypeOK
    BY DEF TypeInv, TypeOK, LogOK
  <2>2. ASSUME InSync, NEW name \in DOMAIN data
        PROVE  log.map[name] # 0 /\ log.heap[log.map[name]].appenders = <<data[name].appender>>
    BY <2>2 DEF InSync, FollowInv, SettledInv, Settled, Follows
  <2> QED
    BY <2>1, <2>2 DEF LoggersFollow
<1>2. Init => TypeInv /\ FollowInv
  BY InitType, InitFollow
<1>3. TypeInv /\ FollowInv /\ [Next]_vars => TypeInv' /\ FollowInv'
  BY TypeStep, AloneStep, SettledStep DEF FollowInv
<1> QED
  BY <1>1, <1>2, <1>3, PTL DEF Spec

=============================================================================
