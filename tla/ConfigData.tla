------------------------------- MODULE ConfigData -------------------------------
(***************************************************************************)
(* An item of the configuration, config/configdata.h, with the callback of *)
(* config/globalconfig.h that rebuilds the loggers: the item "logs".       *)
(*                                                                         *)
(* setData() compares and notifies under the read lock and stores under    *)
(* the write lock, and gives the lock up in between.  Two setters may be   *)
(* notifying at the same time.  parseFromYaml() is the caller that looks   *)
(* the item up in the registry.                                            *)
(***************************************************************************)
EXTENDS Config, LoggerManager

CONSTANTS
    Threads,
    Inputs,        \* the values that the item is set to
    Keys           \* the keys that callers ask for; the only one given out is 0

Values == UNION {[names -> [level : Levels, appender : Appenders]] : names \in SUBSET LoggerNames}
NoData == [name \in {} |-> 0]

ASSUME ConfigDataAssumption == 0 \in Keys /\ Inputs \subseteq Values

VARIABLES
    data,          \* m_data: the settings of each logger that is configured
    cbs,           \* m_cbs: the keys that have a callback, all of them the one of GlobalConfig
    rd,            \* the threads that hold the read lock
    pc,            \* where each thread is in setData() and the callback
    arg,           \* the new value that each thread has
    at,            \* the place of the callback in the order of the loggers
    obj,           \* the logger that the callback rebuilds
    dead,          \* the process has crashed
    alone, synced  \* history: the last callback to begin ran by itself; the value stored last was its value

history == <<alone, synced>>
item == <<data, cbs, rd, pc, arg, at, obj, dead, history>>
vars == <<log, item, registry>>

Init ==
    /\ LoggerInit /\ RegistryInit
    /\ data = NoData /\ cbs = {0} /\ rd = {} /\ dead = FALSE
    /\ pc = [t \in Threads |-> "idle"] /\ arg = [t \in Threads |-> NoData]
    /\ at = [t \in Threads |-> 0] /\ obj = [t \in Threads |-> 0]
    /\ alone = TRUE /\ synced = TRUE

Goto(t, place) == pc' = [pc EXCEPT ![t] = place]
Return(t) == /\ Goto(t, "idle") /\ arg' = [arg EXCEPT ![t] = NoData]
             /\ at' = [at EXCEPT ![t] = 0] /\ obj' = [obj EXCEPT ![t] = 0]
Notifying(t) == pc[t] \in {"next", "clear", "add", "install"}
\* The comparison is over: the callback begins with the first name.
Forward(t, place) == Goto(t, place) /\ at' = [at EXCEPT ![t] = 1] /\ UNCHANGED <<arg, obj>>

\* A thread that has found a new value has not stored it yet.
Setting(t) == Notifying(t) \/ pc[t] = "store"

-----------------------------------------------------------------------------
(* setData(), called by the program or by fromString().                    *)

SetCall(t, v) ==
    /\ ~ dead /\ pc[t] = "idle" /\ calls < MaxCalls
    /\ calls' = calls + 1
    /\ Goto(t, "compare") /\ arg' = [arg EXCEPT ![t] = v]
    /\ UNCHANGED <<log, data, cbs, rd, at, obj, dead, history, datas, registering>>

Compare(t) ==
    /\ ~ dead /\ pc[t] = "compare"
    /\ \/ data = arg[t] /\ Return(t) /\ UNCHANGED <<rd, alone>>
       \/ data # arg[t] /\ cbs = {} /\ Forward(t, "store") /\ alone' = FALSE /\ UNCHANGED rd
       \/ /\ data # arg[t] /\ cbs # {} /\ Forward(t, "next") /\ rd' = rd \cup {t}
          /\ alone' = (\A u \in Threads : ~ Setting(u))
    /\ UNCHANGED <<log, data, cbs, dead, synced, registry>>

Store(t) ==
    /\ ~ dead /\ pc[t] = "store" /\ rd = {}
    /\ data' = arg[t] /\ Return(t)
    /\ synced' = alone
    /\ UNCHANGED <<log, cbs, rd, dead, alone, registry>>

-----------------------------------------------------------------------------
(* The callback of the item "logs": one logger of the new value after the  *)
(* other.                                                                  *)

Name(t) == LoggerOrder[at[t]]
Old(t) == IF Name(t) \in DOMAIN data THEN <<data[Name(t)]>> ELSE <<>>
New(t) == IF Name(t) \in DOMAIN arg[t] THEN <<arg[t][Name(t)]>> ELSE <<>>

AtLogger(t) == ~ dead /\ pc[t] = "next" /\ at[t] <= Len(LoggerOrder)

NotInNew(t) ==
    /\ AtLogger(t) /\ New(t) = <<>>
    /\ at' = [at EXCEPT ![t] = @ + 1]
    /\ UNCHANGED <<log, data, cbs, rd, pc, arg, obj, dead, history, registry>>

Added(t) ==
    /\ AtLogger(t) /\ New(t) # <<>> /\ Old(t) = <<>>
    /\ log' = Made(log, Name(t), arg[t][Name(t)].level)
    /\ obj' = [obj EXCEPT ![t] = Last(log')] /\ Goto(t, "clear")
    /\ UNCHANGED <<data, cbs, rd, arg, at, dead, history, registry>>

Modified(t) ==
    /\ AtLogger(t) /\ New(t) # <<>> /\ Old(t) # <<>> /\ New(t) # Old(t)
    /\ log' = getLogger(log, Name(t))
    /\ obj' = [obj EXCEPT ![t] = log'.map[Name(t)]] /\ Goto(t, "clear")
    /\ UNCHANGED <<data, cbs, rd, arg, at, dead, history, registry>>

\* A logger with the settings it had is a null pointer, which is used.
Same(t) ==
    /\ AtLogger(t) /\ New(t) # <<>> /\ New(t) = Old(t)
    /\ dead' = TRUE
    /\ UNCHANGED <<log, data, cbs, rd, pc, arg, at, obj, history, registry>>

Clear(t) ==
    /\ ~ dead /\ pc[t] = "clear"
    /\ log' = clearAppenders(log, obj[t]) /\ Goto(t, "add")
    /\ UNCHANGED <<data, cbs, rd, arg, at, obj, dead, history, registry>>

Add(t) ==
    /\ ~ dead /\ pc[t] = "add"
    /\ log' = addAppender(log, obj[t], arg[t][Name(t)].appender) /\ Goto(t, "install")
    /\ UNCHANGED <<data, cbs, rd, arg, at, obj, dead, history, registry>>

\* Mutant: the rebuilt logger is not given to the manager.
InstallNothing(t) ==
    /\ ~ dead /\ pc[t] = "install"
    /\ at' = [at EXCEPT ![t] = @ + 1] /\ Goto(t, "next")
    /\ UNCHANGED <<log, data, cbs, rd, arg, obj, dead, history, registry>>

Install(t) ==
    /\ ~ dead /\ pc[t] = "install"
    /\ log' = setLogger(log, Name(t), obj[t])
    /\ at' = [at EXCEPT ![t] = @ + 1] /\ Goto(t, "next")
    /\ UNCHANGED <<data, cbs, rd, arg, obj, dead, history, registry>>

\* Mutant: the read lock is kept while the write lock is waited for.
RemovedKeepsLock(t) ==
    /\ ~ dead /\ pc[t] = "next" /\ at[t] > Len(LoggerOrder)
    /\ dead' \in {FALSE, DOMAIN data \ DOMAIN arg[t] # {}}
    /\ Goto(t, "store")
    /\ UNCHANGED <<log, data, cbs, rd, arg, at, obj, history, registry>>

\* A logger that the new value has no more is looked for in it, and the name is
\* read from the end of the set: undefined, a crash or a name nobody has.  The
\* callback and the read lock end here.
Removed(t) ==
    /\ ~ dead /\ pc[t] = "next" /\ at[t] > Len(LoggerOrder)
    /\ dead' \in {FALSE, DOMAIN data \ DOMAIN arg[t] # {}}
    /\ rd' = rd \ {t} /\ Goto(t, "store")
    /\ UNCHANGED <<log, data, cbs, arg, at, obj, history, registry>>

-----------------------------------------------------------------------------
(* The callbacks of the item.  Every callback gets the key 0, and del and  *)
(* get refuse the keys that exist and use those that do not.               *)

AddCB ==
    /\ ~ dead /\ rd = {}
    /\ cbs' = cbs \cup {0}
    /\ UNCHANGED <<log, data, rd, pc, arg, at, obj, dead, history, registry>>

\* erase(end()) is undefined: a crash, or a map that keeps or loses a key.
DelCB ==
    /\ ~ dead /\ rd = {}
    /\ \E key \in Keys :
          IF key \in cbs THEN UNCHANGED <<cbs, dead>>
          ELSE dead' \in BOOLEAN /\ cbs' \in SUBSET cbs
    /\ UNCHANGED <<log, data, rd, pc, arg, at, obj, history, registry>>

\* A callback that is copied from the end of the map: a crash, or none.
GetCB ==
    /\ ~ dead
    /\ \E key \in Keys : dead' \in {FALSE, key \notin cbs}
    /\ UNCHANGED <<log, data, cbs, rd, pc, arg, at, obj, history, registry>>

ClearCB ==
    /\ ~ dead /\ rd = {}
    /\ cbs' = {}
    /\ UNCHANGED <<log, data, rd, pc, arg, at, obj, dead, history, registry>>

\* What a thread does once it has called setData().
Step(t) ==
    Compare(t) \/ Store(t) \/ NotInNew(t) \/ Added(t) \/ Modified(t) \/ Same(t)
       \/ Clear(t) \/ Add(t) \/ Install(t) \/ Removed(t)

\* parseFromYaml() finds the item and calls fromString().  It has no lock: while
\* another thread inserts an item, the look-up may also crash.
Parse(t) ==
    \/ \E v \in Inputs : SetCall(t, v)
    \/ /\ ~ dead /\ pc[t] = "idle" /\ registering # None
       /\ dead' = TRUE
       /\ UNCHANGED <<log, data, cbs, rd, pc, arg, at, obj, history, registry>>

Next ==
    \/ UseLogger /\ ~ dead /\ UNCHANGED <<item, registry>>
    \/ Register /\ ~ dead /\ UNCHANGED <<log, item>>
    \/ Insert /\ ~ dead /\ UNCHANGED <<log, item>>
    \/ AddCB \/ DelCB \/ GetCB \/ ClearCB
    \/ \E t \in Threads : Parse(t) \/ Step(t)

\* A thread that has called setData() goes on.
Spec == Init /\ [][Next]_vars /\ \A t \in Threads : WF_vars(Step(t))

-----------------------------------------------------------------------------
TypeOK ==
    /\ data \in Values /\ cbs \subseteq {0} /\ rd \subseteq Threads /\ dead \in BOOLEAN
    /\ \A t \in Threads : arg[t] \in Values /\ at[t] \in 0 .. Len(LoggerOrder) + 1
    /\ \A t \in Threads : Notifying(t) => t \in rd
    /\ \A name \in LoggerNames : log.map[name] \in 0 .. Len(log.heap)

\* No setter is under way, and the last value was stored by a call whose
\* callbacks ran, with those of no other call at the same time.
InSync == ~ dead /\ synced /\ \A t \in Threads : ~ Setting(t)

\* The loggers are those of the configuration: once a call of setData() has run
\* the callback with no other call in between, every configured name has a logger
\* with the configured appender and no other, whatever earlier calls left behind
\* that overlapped or were not heard (globalconfig.h:57, configdata.h:70).  Nothing
\* is said of the level: the branch for a logger that exists does not set it
\* (README, defects).
LoggersFollow ==
    /\ TypeOK
    /\ InSync => \A name \in DOMAIN data :
          /\ log.map[name] # 0
          /\ log.heap[log.map[name]].appenders = <<data[name].appender>>

\* A call of setData() returns, unless the process crashes: no two setters wait
\* for each other's read lock (configdata.h:73, 84).
SetReturns == \A t \in Threads : pc[t] # "idle" ~> (pc[t] = "idle" \/ dead)
=============================================================================
