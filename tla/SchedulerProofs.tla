--------------------------- MODULE SchedulerProofs ---------------------------
(***************************************************************************)
(* Proofs about Scheduler, for any number of threads and jobs.             *)
(***************************************************************************)
EXTENDS Scheduler, FiniteSetTheorems, TLAPS

\* The points of run() at which the thread has a task in hand.
HoldPCs == {"dispatch", "check", "enter", "exec", "leaving", "back", "settle", "hold"}

\* A thread has a task exactly while it is at one of them.
TaskInHand == \A t \in Threads : (pc[t] \in HoldPCs) <=> (task[t].job # NoJob)

\* Nobody runs before start() or after stop(), and the caller only inside stop().
OffStage ==
    /\ caller = "init" => \A t \in Threads : pc[t] = "off"
    /\ caller = "stopped" => \A t \in Workers : pc[t] = "exit"
    /\ UseCaller /\ caller # "root" => pc[Caller] \in {"off", "exit"}

\* Without the counters, whose type depends on what they count.
TypeInv ==
    /\ m_tasks \in Seq(Tasks) /\ submitted \subseteq Jobs
    /\ m_stopping \in BOOLEAN /\ m_auto_stop \in BOOLEAN
    /\ m_active_threads_count \in Int /\ m_idle_threads_count \in Int
    /\ pc \in [Threads -> PCs]
    /\ task \in [Threads -> Tasks \cup {NoTask}]
    /\ idleTerm \in [Threads -> BOOLEAN]
    /\ m_state \in [Jobs -> FiberStates]
    /\ stack \in [Jobs -> SUBSET Threads]
    /\ ended \subseteq Jobs
    /\ yields \in [Jobs -> 0 .. MaxYields]
    /\ ways \in [Jobs -> SUBSET Ways]
    /\ caller \in CallerPCs /\ starts \in 0 .. MaxStarts
    /\ fault \in {"none", "terminate", "corrupt"}
    /\ TaskInHand /\ OffStage

\* What Erase returns: a queue of the same kind, one shorter, with the entries
\* behind the erased one moved up.
LEMMA EraseFacts ==
    ASSUME NEW S, NEW s \in Seq(S), NEW i \in DOMAIN s
    PROVE  /\ Erase(s, i) \in Seq(S)
           /\ Len(Erase(s, i)) = Len(s) - 1
           /\ \A k \in 1 .. Len(s) - 1 : Erase(s, i)[k] = IF k < i THEN s[k] ELSE s[k + 1]
<1>1. Len(s) \in Nat /\ i \in 1 .. Len(s) /\ Len(s) - 1 \in Nat
  OBVIOUS
<1>2. Erase(s, i) \in [1 .. Len(s) - 1 -> S]
  BY <1>1 DEF Erase
<1> QED
  BY <1>1, <1>2 DEF Erase

\* Putting a task at the end of the queue.
LEMMA PushFacts ==
    ASSUME NEW j, NEW kind, NEW thread, Push(j, kind, thread),
           m_tasks \in Seq(Tasks), j \in Jobs, kind \in Kinds, thread \in Threads \cup {Unpinned}
    PROVE  /\ m_tasks' \in Seq(Tasks)
           /\ Len(m_tasks') = Len(m_tasks) + 1
           /\ \A k \in 1 .. Len(m_tasks) : m_tasks'[k] = m_tasks[k]
           /\ m_tasks'[Len(m_tasks) + 1] = [job |-> j, kind |-> kind, thread |-> thread]
<1> DEFINE new == [job |-> j, kind |-> kind, thread |-> thread]
<1>1. new \in Tasks
  BY DEF Tasks
<1>2. m_tasks' = Append(m_tasks, new)
  BY DEF Push
<1> HIDE DEF new
<1>3. /\ m_tasks' \in Seq(Tasks) /\ Len(m_tasks') = Len(m_tasks) + 1
      /\ \A k \in 1 .. Len(m_tasks) : m_tasks'[k] = m_tasks[k]
      /\ m_tasks'[Len(m_tasks) + 1] = new
  BY <1>1, <1>2
<1> QED
  BY <1>3 DEF new

\* The constructor establishes the types.
LEMMA InitType == Init => TypeInv
<1> SUFFICES ASSUME Init PROVE TypeInv
  OBVIOUS
<1>1. /\ m_tasks \in Seq(Tasks) /\ submitted \subseteq Jobs /\ ended \subseteq Jobs
      /\ pc \in [Threads -> PCs] /\ task \in [Threads -> Tasks \cup {NoTask}]
      /\ m_state \in [Jobs -> FiberStates] /\ stack \in [Jobs -> SUBSET Threads]
      /\ idleTerm \in [Threads -> BOOLEAN]
  BY DEF Init, PCs, FiberStates
<1>2. yields \in [Jobs -> 0 .. MaxYields] /\ starts \in 0 .. MaxStarts
      /\ ways \in [Jobs -> SUBSET Ways]
  BY JobAssumption DEF Init
<1>3. TaskInHand /\ OffStage
  BY DEF Init, TaskInHand, OffStage, HoldPCs, NoTask, Threads
<1>5. m_stopping \in BOOLEAN /\ m_auto_stop \in BOOLEAN
  BY DEF Init
<1>4. /\ m_active_threads_count \in Int /\ m_idle_threads_count \in Int
      /\ caller \in CallerPCs /\ fault \in {"none", "terminate", "corrupt"}
  BY DEF Init, CallerPCs
<1> QED
  BY <1>1, <1>2, <1>3, <1>4, <1>5 DEF TypeInv

\* Every step of run(), start(), stop() and of the jobs keeps them.
LEMMA TypeStep == TypeInv /\ [Next]_vars => TypeInv'
<1> SUFFICES ASSUME TypeInv, [Next]_vars PROVE TypeInv'
  OBVIOUS
<1> USE ThreadAssumption, JobAssumption
<1> USE DEF TypeInv, TaskInHand, OffStage, HoldPCs, PCs, CallerPCs, FiberStates, At, CallerAt, Goto,
        vars, queueVars, flagVars, countVars, threadVars, fiberVars, callerVars
<1>a. Workers \subseteq Threads /\ (UseCaller => Caller \in Threads)
  BY DEF Threads
<1>0. NoTask.job = NoJob /\ (\A x \in Tasks : x.job \in Jobs /\ x.job # NoJob)
  BY DEF Tasks, NoTask
<1>1. ASSUME NEW t \in Threads, Take(t) PROVE TypeInv'
  <2>1. PICK i \in DOMAIN m_tasks : /\ task' = [task EXCEPT ![t] = m_tasks[i]]
                                    /\ m_tasks' = Erase(m_tasks, i)
    BY <1>a, <1>1 DEF Take
  <2>2. m_tasks' \in Seq(Tasks) /\ m_tasks[i] \in Tasks
    BY <2>1, EraseFacts
  <2> QED
    BY <1>a, <1>0, <1>1, <2>1, <2>2 DEF Take
<1>2. ASSUME NEW t \in Threads, FindNothing(t) \/ SettleOther(t) PROVE  TypeInv'
  BY <1>a, <1>2 DEF FindNothing, SettleOther
<1>21. ASSUME NEW t \in Threads, SwapInRefused(t) PROVE TypeInv'
  <2>1. fault' \in {"none", "terminate", "corrupt"}
    BY <1>21 DEF SwapInRefused
  <2>2. UNCHANGED <<queueVars, flagVars, countVars, threadVars, fiberVars, callerVars>>
    BY <1>21 DEF SwapInRefused
  <2> QED
    BY <2>1, <2>2
<1>19. ASSUME NEW t \in Threads, Deactivate(t) PROVE TypeInv'
  BY <1>a, <1>19 DEF Deactivate
<1>20. ASSUME NEW t \in Threads, EnterIdle(t) PROVE TypeInv'
  BY <1>a, <1>20 DEF EnterIdle
<1>22. ASSUME NEW t \in Threads, Exit(t) PROVE TypeInv'
  BY <1>a, <1>22 DEF Exit
<1>23. ASSUME NEW t \in Threads, Dispatch(t) PROVE TypeInv'
  <2>1. PICK label \in {"check", "enter"} : Goto(t, label)
    BY <1>23 DEF Dispatch
  <2>2. pc[t] = "dispatch"
        /\ UNCHANGED <<queueVars, flagVars, countVars, task, idleTerm, fiberVars, callerVars, fault>>
    BY <1>23 DEF Dispatch
  <2> QED
    BY <1>a, <2>1, <2>2
<1>24. ASSUME NEW t \in Threads, SwapInPassed(t) PROVE TypeInv'
  BY <1>a, <1>24 DEF SwapInPassed
<1>3. ASSUME NEW t \in Threads, DropEnded(t) PROVE TypeInv'
  BY <1>a, <1>0, <1>3 DEF DropEnded
<1>4. ASSUME NEW t \in Threads, SwapIn(t) PROVE TypeInv'
  BY <1>a, <1>4 DEF SwapIn
<1>5. ASSUME NEW j \in Jobs, NEW thread \in Targets, Submit(j, thread)
      PROVE  m_tasks' \in Seq(Tasks) /\ submitted' \subseteq Jobs
  BY <1>5, PushFacts DEF Submit, Kinds
<1>6. ASSUME NEW t \in Threads, Spawn(t) PROVE TypeInv'
  <2>1. m_tasks' \in Seq(Tasks) /\ submitted' \subseteq Jobs
    BY <1>5, <1>6 DEF Spawn
  <2> QED
    BY <1>a, <1>6, <2>1 DEF Spawn
<1>7. ASSUME NEW t \in Threads, Reschedule(t) PROVE TypeInv'
  <2>1. m_tasks' \in Seq(Tasks)
    BY <1>a, <1>0, <1>7, PushFacts DEF Reschedule, Kinds
  <2>2. yields' \in [Jobs -> 0 .. MaxYields] /\ ways' \in [Jobs -> SUBSET Ways]
    BY <1>a, <1>0, <1>7 DEF Reschedule, PutBack, Ways
  <2> QED
    BY <1>a, <1>7, <2>1, <2>2 DEF Reschedule
<1>8. ASSUME NEW t \in Threads, YieldToReady(t) \/ YieldToHold(t) PROVE TypeInv'
  <2>1. yields' \in [Jobs -> 0 .. MaxYields] /\ ways' \in [Jobs -> SUBSET Ways]
    <3>1. CASE YieldToReady(t)
      <4>1. PutBack(task[t].job, "ready") /\ task[t].job \in Jobs
        BY <1>0, <3>1 DEF YieldToReady
      <4>2. yields' \in [Jobs -> 0 .. MaxYields]
        BY <4>1 DEF PutBack
      <4>3. ways' \in [Jobs -> SUBSET Ways]
        BY <4>1 DEF PutBack, Ways
      <4> QED
        BY <4>2, <4>3
    <3>2. CASE YieldToHold(t)
      BY <3>2 DEF YieldToHold
    <3> QED
      BY <1>8, <3>1, <3>2
  <2>2. m_state' \in [Jobs -> FiberStates]
    BY <1>a, <1>8 DEF YieldToReady, YieldToHold, Leave
  <2>3. TaskInHand' /\ pc' \in [Threads -> PCs]
    BY <1>a, <1>8 DEF YieldToReady, YieldToHold, Leave
  <2> QED
    BY <1>a, <1>8, <2>1, <2>2, <2>3 DEF YieldToReady, YieldToHold, Leave
<1>9. ASSUME NEW t \in Threads, Return(t) \/ Throw(t) PROVE TypeInv'
  <2>1. task[t].job \in Jobs
    BY <1>a, <1>0, <1>9 DEF Return, Throw, End
  <2> QED
    BY <1>a, <1>9, <2>1, ZenonT(60) DEF Return, Throw, End, Leave
<1>10. ASSUME NEW t \in Threads, SettleReady(t) PROVE TypeInv'
  <2>1. m_tasks' \in Seq(Tasks)
    <3>1. Push(task[t].job, "fiber", Unpinned) /\ task[t].job \in Jobs
      BY <1>0, <1>10 DEF SettleReady
    <3>2. "fiber" \in Kinds /\ Unpinned \in Threads \cup {Unpinned} /\ m_tasks \in Seq(Tasks)
      BY DEF Kinds
    <3> QED
      BY <3>1, <3>2, PushFacts
  <2> QED
    BY <1>a, <1>0, <1>10, <2>1 DEF SettleReady, NextTurn
<1>11. ASSUME NEW t \in Threads, SettleEnded(t) PROVE TypeInv'
  <2>1. CASE NextTurn(t) /\ UNCHANGED fault
    BY <1>a, <1>0, <1>11, <2>1 DEF SettleEnded, NextTurn
  <2>2. CASE RunThrows(t)
    <3>1. UNCHANGED <<queueVars, flagVars, countVars, idleTerm, fiberVars, callerVars>> /\ pc[t] = "settle"
      BY <1>11 DEF SettleEnded
    <3>2. CASE t # Caller
      BY <2>2, <3>1, <3>2 DEF RunThrows
    <3>3. CASE t = Caller
      <4>1. /\ pc' = [pc EXCEPT ![t] = "exit"] /\ task' = [task EXCEPT ![t] = NoTask]
            /\ fault' = fault
        BY <2>2, <3>3 DEF RunThrows
      <4>2. pc' \in [Threads -> PCs] /\ task' \in [Threads -> Tasks \cup {NoTask}]
        BY <4>1
      <4>3. TaskInHand'
        BY <1>0, <4>1
      <4>4. OffStage'
        BY <1>a, <3>1, <3>3, <4>1
      <4> QED
        BY <3>1, <4>1, <4>2, <4>3, <4>4
    <3> QED
      BY <3>2, <3>3
  <2> QED
    BY <1>11, <2>1, <2>2 DEF SettleEnded
<1>12. ASSUME NEW t \in Threads, SetHold(t) PROVE TypeInv'
  BY <1>a, <1>0, <1>12 DEF SetHold, NextTurn
<1>13. ASSUME NEW t \in Threads, Idle(t) PROVE TypeInv'
  BY <1>a, <1>13 DEF Idle, Stopping
<1>14. ASSUME Schedule PROVE TypeInv'
  <2>1. m_tasks' \in Seq(Tasks) /\ submitted' \subseteq Jobs
    BY <1>5, <1>14 DEF Schedule
  <2> QED
    BY <1>a, <1>14, <2>1 DEF Schedule
<1>15. ASSUME Start PROVE TypeInv'
  <2>1. starts' \in 0 .. MaxStarts
    BY <1>15 DEF Start
  <2>2. pc' \in [Threads -> PCs] /\ idleTerm' \in [Threads -> BOOLEAN]
    BY <1>15 DEF Start
  <2>3. TaskInHand' /\ OffStage'
    BY <1>a, <1>15 DEF Start
  <2> QED
    BY <1>15, <2>1, <2>2, <2>3 DEF Start
<1>16. ASSUME StopStep PROVE TypeInv'
  <2>1. CASE StopAuto \/ StopFlag
    BY <2>1 DEF StopAuto, StopFlag
  <2>2. CASE StopRoot
    <3>1. /\ UNCHANGED <<queueVars, flagVars, countVars, task, idleTerm, fiberVars, starts>>
          /\ caller = "stopping" /\ caller' \in {"root", "join"}
          /\ fault' \in {"none", "terminate", "corrupt"}
      BY <2>2 DEF StopRoot
    <3>2. pc' = pc \/ (/\ UseCaller /\ caller' = "root"
                       /\ pc[Caller] = "off" /\ pc' = [pc EXCEPT ![Caller] = "scan"])
      BY <2>2 DEF StopRoot
    <3>3. pc' \in [Threads -> PCs]
      BY <1>a, <3>2
    <3>4. TaskInHand'
      BY <1>a, <3>1, <3>2
    <3>5. OffStage'
      BY <1>a, <3>1, <3>2
    <3> QED
      BY <3>1, <3>3, <3>4, <3>5
  <2>3. CASE RootReturns \/ Join
    BY <1>a, <2>3 DEF RootReturns, Join
  <2> QED
    BY <1>16, <2>1, <2>2, <2>3 DEF StopStep
<1>18. ASSUME NEW t \in Threads, SwapOut(t) PROVE TypeInv'
  BY <1>a, <1>18 DEF SwapOut
<1>17. CASE UNCHANGED vars
  BY <1>17
<1> QED
  BY <1>1, <1>2, <1>3, <1>4, <1>6, <1>7, <1>8, <1>9, <1>10, <1>11, <1>12, <1>13, <1>14,
     <1>15, <1>16, <1>17, <1>18, <1>19, <1>20, <1>21, <1>22, <1>23, <1>24 DEF Next, ThreadStep, Rest
-----------------------------------------------------------------------------
(* The counters.                                                           *)

BusyPCs == {"dispatch", "check", "enter", "exec", "leaving", "back"}

\* The threads that are at one of the points B of run().
AtOneOf(B) == {t \in Threads : pc[t] \in B}

\* Both counters are exact.
CountInv ==
    /\ m_active_threads_count = Cardinality(AtOneOf(BusyPCs))
    /\ m_idle_threads_count = Cardinality(AtOneOf({"idle"}))

\* There are finitely many threads, so they can be counted.
LEMMA FiniteThreads == IsFiniteSet(Threads)
<1>1. IsFiniteSet({Caller})
  BY FS_Singleton
<1>2. IsFiniteSet(Workers \cup {Caller}) /\ IsFiniteSet(Workers)
  BY <1>1, FS_Union, ThreadAssumption
<1> QED
  BY <1>2, FS_Subset DEF Threads

\* A step of one thread changes the number of threads in B by at most one.
LEMMA GotoCount ==
    ASSUME NEW B, NEW t \in Threads, NEW label, pc \in [Threads -> PCs], Goto(t, label)
    PROVE  /\ Cardinality(AtOneOf(B)) \in Nat
           /\ (pc[t] \in B <=> label \in B) => Cardinality(AtOneOf(B)') = Cardinality(AtOneOf(B))
           /\ pc[t] \in B /\ label \notin B
                => Cardinality(AtOneOf(B)') = Cardinality(AtOneOf(B)) - 1
           /\ pc[t] \notin B /\ label \in B
                => Cardinality(AtOneOf(B)') = Cardinality(AtOneOf(B)) + 1
<1>1. IsFiniteSet(AtOneOf(B))
  BY FiniteThreads, FS_Subset DEF AtOneOf
<1>2. Cardinality(AtOneOf(B)) \in Nat
  BY <1>1, FS_CardinalityType
<1>3. ASSUME pc[t] \in B <=> label \in B PROVE AtOneOf(B)' = AtOneOf(B)
  BY <1>3 DEF AtOneOf, Goto
<1>4. ASSUME pc[t] \in B, label \notin B PROVE AtOneOf(B)' = AtOneOf(B) \ {t}
  BY <1>4 DEF AtOneOf, Goto
<1>5. ASSUME pc[t] \notin B, label \in B PROVE AtOneOf(B)' = AtOneOf(B) \cup {t}
  BY <1>5 DEF AtOneOf, Goto
<1>6. pc[t] \in B <=> t \in AtOneOf(B)
  BY DEF AtOneOf
<1>7. ASSUME t \in AtOneOf(B)
      PROVE  Cardinality(AtOneOf(B) \ {t}) = Cardinality(AtOneOf(B)) - 1
  BY <1>1, <1>7, FS_RemoveElement
<1>8. ASSUME t \notin AtOneOf(B)
      PROVE  Cardinality(AtOneOf(B) \cup {t}) = Cardinality(AtOneOf(B)) + 1
  BY <1>1, <1>8, FS_AddElement
<1> QED
  BY <1>2, <1>3, <1>4, <1>5, <1>6, <1>7, <1>8

\* Nobody is active or idle before start().
LEMMA InitCount == Init => CountInv
<1> SUFFICES ASSUME Init PROVE CountInv
  OBVIOUS
<1>1. AtOneOf(BusyPCs) = {} /\ AtOneOf({"idle"}) = {}
  BY DEF Init, AtOneOf, BusyPCs
<1> QED
  BY <1>1, FS_EmptySet DEF Init, CountInv

\* Every path through run() leaves both counters exact.
LEMMA CountStep == TypeInv /\ CountInv /\ [Next]_vars => CountInv'
<1> SUFFICES ASSUME TypeInv, CountInv, [Next]_vars PROVE CountInv'
  OBVIOUS
<1>0. pc \in [Threads -> PCs] /\ Workers \subseteq Threads
  BY DEF TypeInv, Threads
<1>b. \A x \in {"scan", "none", "idle"} : x \notin BusyPCs
  BY DEF BusyPCs
<1> DEFINE busy == Cardinality(AtOneOf(BusyPCs))
           idle == Cardinality(AtOneOf({"idle"}))
<1>1. ASSUME NEW t \in Threads, NEW label, Goto(t, label),
             (pc[t] \in BusyPCs <=> label \in BusyPCs), pc[t] # "idle", label # "idle",
             UNCHANGED countVars
      PROVE  CountInv'
  <2>1. busy' = busy /\ idle' = idle
    BY <1>0, <1>1, GotoCount
  <2> QED
    BY <1>1, <2>1 DEF CountInv, countVars
<1>2. ASSUME UNCHANGED <<pc, countVars>> PROVE CountInv'
  BY <1>2 DEF CountInv, AtOneOf, countVars
<1>3. ASSUME NEW t \in Threads, NEW label, Goto(t, label), pc[t] # "idle", label # "idle",
             m_idle_threads_count' = m_idle_threads_count,
             \/ /\ pc[t] \in BusyPCs /\ label \notin BusyPCs
                /\ m_active_threads_count' = m_active_threads_count - 1
             \/ /\ pc[t] \notin BusyPCs /\ label \in BusyPCs
                /\ m_active_threads_count' = m_active_threads_count + 1
      PROVE  CountInv'
  <2>1. idle' = idle
    BY <1>0, <1>3, GotoCount
  <2>2. m_active_threads_count' = busy'
    BY <1>0, <1>3, GotoCount DEF CountInv
  <2> QED
    BY <1>3, <2>1, <2>2 DEF CountInv
<1>4. ASSUME NEW t \in Threads, Take(t) \/ DropEnded(t) \/ Deactivate(t) PROVE CountInv'
  BY <1>3, <1>4 DEF Take, DropEnded, Deactivate, At, BusyPCs
<1>5. ASSUME NEW t \in Threads, FindNothing(t) \/ SwapInPassed(t) \/ SwapIn(t) \/ SwapOut(t)
             \/ SettleOther(t) \/ Exit(t)
      PROVE  CountInv'
  BY <1>1, <1>5 DEF FindNothing, SwapInPassed, SwapIn, SwapOut, SettleOther, Exit, At, BusyPCs
<1>16. ASSUME NEW t \in Threads, Dispatch(t) PROVE CountInv'
  BY <1>1, <1>16 DEF Dispatch, At, BusyPCs
<1>6. ASSUME NEW t \in Threads, YieldToReady(t) \/ YieldToHold(t) \/ Return(t) \/ Throw(t)
      PROVE  CountInv'
  BY <1>1, <1>6 DEF YieldToReady, YieldToHold, Return, Throw, End, Leave, At, BusyPCs
<1>7. ASSUME NEW t \in Threads, SettleReady(t) \/ SetHold(t) PROVE CountInv'
  BY <1>1, <1>7 DEF SettleReady, SetHold, NextTurn, At, BusyPCs
<1>8. ASSUME NEW t \in Threads, SettleEnded(t) PROVE CountInv'
  <2>1. CASE NextTurn(t)
    BY <1>1, <1>8, <2>1 DEF SettleEnded, NextTurn, At, BusyPCs
  <2>2. CASE RunThrows(t)
    BY <1>1, <1>2, <1>8, <2>2 DEF SettleEnded, RunThrows, At, BusyPCs, countVars
  <2> QED
    BY <1>8, <2>1, <2>2 DEF SettleEnded
<1>9. ASSUME NEW t \in Threads, SwapInRefused(t) \/ Spawn(t) \/ Reschedule(t) PROVE CountInv'
  BY <1>2, <1>9 DEF SwapInRefused, Spawn, Reschedule, threadVars, countVars
<1>10. ASSUME NEW t \in Threads, EnterIdle(t) \/ Idle(t) PROVE CountInv'
  <2>1. CASE EnterIdle(t)
    <3>1. Goto(t, "idle") /\ pc[t] = "none"
      BY <2>1 DEF EnterIdle, At
    <3>2. idle' = idle + 1
      BY <1>0, <3>1, GotoCount
    <3>3. busy' = busy
      BY <1>0, <1>b, <3>1, GotoCount
    <3> QED
      BY <2>1, <3>2, <3>3 DEF EnterIdle, CountInv
  <2>2. CASE Idle(t)
    <3>1. Goto(t, "scan") /\ pc[t] = "idle"
      BY <2>2 DEF Idle, At
    <3>2. idle' = idle - 1
      BY <1>0, <3>1, GotoCount
    <3>3. busy' = busy
      BY <1>0, <1>b, <3>1, GotoCount
    <3> QED
      BY <2>2, <3>2, <3>3 DEF Idle, CountInv
  <2> QED
    BY <1>10, <2>1, <2>2
<1>11. ASSUME Schedule PROVE CountInv'
  BY <1>2, <1>11 DEF Schedule, threadVars, countVars
<1>12. ASSUME Start PROVE CountInv'
  <2>1. \A t \in Workers : pc[t] \in {"off", "exit"} /\ pc'[t] = "scan"
    BY <1>0, <1>12 DEF Start, CallerAt, TypeInv, OffStage
  <2>2. \A t \in Threads \ Workers : pc'[t] = pc[t]
    BY <1>0, <1>12 DEF Start
  <2>3. AtOneOf(BusyPCs)' = AtOneOf(BusyPCs) /\ AtOneOf({"idle"})' = AtOneOf({"idle"})
    BY <2>1, <2>2 DEF AtOneOf, BusyPCs
  <2> QED
    BY <1>12, <2>3 DEF Start, CountInv, countVars
<1>13. ASSUME StopAuto \/ StopFlag \/ RootReturns \/ Join PROVE CountInv'
  BY <1>2, <1>13 DEF StopAuto, StopFlag, RootReturns, Join, threadVars, countVars
<1>14. ASSUME StopRoot PROVE CountInv'
  <2>1. CASE UNCHANGED pc
    BY <1>2, <1>14, <2>1 DEF StopRoot, countVars
  <2>2. CASE UseCaller /\ pc[Caller] = "off" /\ Goto(Caller, "scan")
    <3>1. Caller \in Threads
      BY <2>2 DEF Threads
    <3> QED
      BY <1>1, <1>14, <2>2, <3>1 DEF StopRoot, BusyPCs
  <2> QED
    BY <1>14, <2>1, <2>2 DEF StopRoot
<1>15. ASSUME UNCHANGED vars PROVE CountInv'
  BY <1>2, <1>15 DEF vars, threadVars, countVars
<1> QED
  BY <1>4, <1>5, <1>6, <1>7, <1>8, <1>9, <1>10, <1>11, <1>12, <1>13, <1>14, <1>15,
     <1>16 DEF Next, ThreadStep, StopStep, Rest

\* Type correctness: in particular the two unsigned counters never wrap around.
THEOREM TypeCorrect == Spec => []TypeOK
<1>1. Init => TypeInv /\ CountInv
  BY InitType, InitCount
<1>2. TypeInv /\ CountInv /\ [Next]_vars => (TypeInv /\ CountInv)'
  BY TypeStep, CountStep
<1>3. TypeInv /\ CountInv => TypeOK
  <2> SUFFICES ASSUME TypeInv, CountInv PROVE TypeOK
    OBVIOUS
  <2>1. \A B : Cardinality(AtOneOf(B)) \in Nat
    BY FiniteThreads, FS_Subset, FS_CardinalityType DEF AtOneOf
  <2> QED
    BY <2>1 DEF TypeInv, TypeOK, CountInv
<1> QED
  BY <1>1, <1>2, <1>3, PTL DEF Spec

\* stopping() can trust m_active_threads_count: at every moment it is the number
\* of threads that have taken a task and not come back from it.
THEOREM ActiveCountCorrect == Spec => []ActiveCountExact
<1>1. Init => TypeInv /\ CountInv
  BY InitType, InitCount
<1>2. TypeInv /\ CountInv /\ [Next]_vars => (TypeInv /\ CountInv)'
  BY TypeStep, CountStep
<1>3. CountInv => ActiveCountExact
  BY DEF CountInv, ActiveCountExact, Busy, AtOneOf, BusyPCs
<1> QED
  BY <1>1, <1>2, <1>3, PTL DEF Spec
-----------------------------------------------------------------------------
(* Where the jobs are.                                                     *)

\* The jobs that have not queued themselves before they held.
Plain == {j \in Jobs : "reschedule" \notin ways[j]}

\* The jobs in the queue, each plain one once.
Queued == {m_tasks[i].job : i \in DOMAIN m_tasks}
QueueDistinct ==
    \A i, k \in DOMAIN m_tasks : m_tasks[i].job = m_tasks[k].job /\ m_tasks[i].job \in Plain => i = k

\* A plain job is in one place at most: in the queue or in the hands of one thread.
OnePlace ==
    /\ QueueDistinct
    /\ \A t \in Threads : task[t].job \in Plain => task[t].job \notin Queued
    /\ \A t, u \in Threads : task[t].job = task[u].job /\ task[t].job \in Plain => t = u

\* In every place the state of a plain job is one the thread there expects.
Expected(t) ==
    /\ pc[t] \in {"dispatch", "check", "enter"} => task[t].job \notin ended
    /\ pc[t] = "exec" => task[t].job \notin ended /\ m_state[task[t].job] = "EXEC"
    /\ pc[t] \in {"leaving", "back", "settle"} =>
          \/ m_state[task[t].job] = "READY" /\ task[t].job \notin ended
          \/ Finished(m_state[task[t].job])
    /\ pc[t] # "hold"
StateAgrees ==
    /\ ended \subseteq submitted /\ Queued \subseteq submitted
    /\ \A j \in Jobs \ submitted : m_state[j] = "INIT"
    /\ \A j \in Jobs : Finished(m_state[j]) => j \in ended
    /\ Queued \cap Plain \cap ended = {}
    /\ \A t \in Threads : pc[t] \in HoldPCs => task[t].job \in submitted
    /\ \A t \in Threads : task[t].job \in Plain => Expected(t)

\* A thread on the stack of a job has the job in hand, and is there while it
\* executes it.
StackAgrees ==
    /\ \A j \in Jobs : \A t \in stack[j] : task[t].job = j /\ pc[t] \in {"exec", "leaving"}
    /\ \A t \in Threads : pc[t] = "exec" => t \in stack[task[t].job]

\* NoJobLost with Queued.
Kept ==
    \A j \in submitted : ~ Mixed(j) =>
        j \in ended \/ j \in Queued \/ \E t \in Threads : InHand(t, j)

\* A fiber that is EXEC is being executed.
ExecHeld ==
    fault = "none" => \A j \in Jobs : m_state[j] = "EXEC" =>
        \E t \in Threads : pc[t] = "exec" /\ task[t].job = j

PlaceInv == OnePlace /\ StateAgrees /\ StackAgrees /\ Kept /\ ExecHeld

\* schedule() adds the job to the queued jobs.
LEMMA PushQueued ==
    ASSUME NEW j \in Jobs, NEW kind \in Kinds, NEW thread \in Threads \cup {Unpinned},
           Push(j, kind, thread), m_tasks \in Seq(Tasks), QueueDistinct,
           Plain' \subseteq Plain, j \in Plain' => j \notin Queued
    PROVE  Queued' = Queued \cup {j} /\ QueueDistinct'
<1> DEFINE n == Len(m_tasks)
<1>a. /\ m_tasks' \in Seq(Tasks) /\ Len(m_tasks') = n + 1
      /\ \A k \in 1 .. n : m_tasks'[k] = m_tasks[k]
      /\ m_tasks'[n + 1] = [job |-> j, kind |-> kind, thread |-> thread]
  BY PushFacts
<1>1. n \in Nat /\ DOMAIN m_tasks = 1 .. n /\ DOMAIN m_tasks' = 1 .. n + 1
  BY <1>a
<1>2. \A k \in 1 .. n : m_tasks'[k].job = m_tasks[k].job
  BY <1>a
<1>3. m_tasks'[n + 1].job = j
  BY <1>a
<1> HIDE DEF n
<1>4. \A k \in 1 .. n + 1 : k \in 1 .. n \/ k = n + 1
  BY <1>1
<1>5. n + 1 \in 1 .. n + 1 /\ 1 .. n \subseteq 1 .. n + 1
  BY <1>1
<1>6. Queued' = Queued \cup {j}
  BY <1>1, <1>2, <1>3, <1>4, <1>5 DEF Queued
<1>7. QueueDistinct'
  <2> SUFFICES ASSUME NEW i \in 1 .. n + 1, NEW k \in 1 .. n + 1,
                      m_tasks'[i].job = m_tasks'[k].job, m_tasks'[i].job \in Plain'
               PROVE  i = k
    BY <1>1 DEF QueueDistinct
  <2>1. \A x \in 1 .. n : m_tasks[x].job \in Queued
    BY <1>1 DEF Queued
  <2>2. CASE i \in 1 .. n /\ k \in 1 .. n
    BY <1>1, <1>2, <2>2 DEF QueueDistinct
  <2>3. CASE i = n + 1 \/ k = n + 1
    BY <1>2, <1>3, <1>4, <2>1, <2>3
  <2> QED
    BY <1>4, <2>2, <2>3
<1> QED
  BY <1>6, <1>7

\* The scan removes the job it takes, a plain one for good.
LEMMA TakeQueued ==
    ASSUME NEW i \in DOMAIN m_tasks, m_tasks' = Erase(m_tasks, i),
           m_tasks \in Seq(Tasks), QueueDistinct, Plain' = Plain
    PROVE  /\ Queued' \subseteq Queued /\ Queued \subseteq Queued' \cup {m_tasks[i].job}
           /\ m_tasks[i].job \in Plain => m_tasks[i].job \notin Queued'
           /\ QueueDistinct'
<1> DEFINE n == Len(m_tasks)
           old(k) == IF k < i THEN k ELSE k + 1
<1>1. n \in Nat /\ DOMAIN m_tasks = 1 .. n /\ i \in 1 .. n
  OBVIOUS
<1>a. /\ m_tasks' \in Seq(Tasks) /\ Len(m_tasks') = n - 1
      /\ \A k \in 1 .. n - 1 : m_tasks'[k] = IF k < i THEN m_tasks[k] ELSE m_tasks[k + 1]
  BY EraseFacts
<1>2. DOMAIN m_tasks' = 1 .. n - 1
  BY <1>a
<1>3. \A k \in 1 .. n - 1 : m_tasks'[k].job = m_tasks[old(k)].job
  BY <1>a
<1> HIDE DEF n
<1>4. \A k \in 1 .. n - 1 : old(k) \in 1 .. n /\ old(k) # i
  BY <1>1
<1>5. \A m \in 1 .. n : m # i => \E k \in 1 .. n - 1 : old(k) = m
  <2> SUFFICES ASSUME NEW m \in 1 .. n, m # i PROVE \E k \in 1 .. n - 1 : old(k) = m
    OBVIOUS
  <2>1. CASE m < i
    BY <1>1, <2>1
  <2>2. CASE m > i
    <3>1. m - 1 \in 1 .. n - 1 /\ old(m - 1) = m
      BY <1>1, <2>2
    <3> QED
      BY <3>1
  <2> QED
    BY <1>1, <2>1, <2>2
<1>6. \A k, m \in 1 .. n - 1 : old(k) = old(m) => k = m
  BY <1>1
<1> HIDE DEF old
<1>7. Queued' \subseteq Queued
  BY <1>1, <1>2, <1>3, <1>4 DEF Queued
<1>8. ASSUME NEW x \in Queued, x # m_tasks[i].job PROVE x \in Queued'
  <2>1. PICK m \in 1 .. n : x = m_tasks[m].job /\ m # i
    BY <1>1, <1>8 DEF Queued
  <2>2. PICK k \in 1 .. n - 1 : old(k) = m
    BY <1>5, <2>1
  <2> QED
    BY <1>2, <1>3, <2>1, <2>2 DEF Queued
<1>9. ASSUME m_tasks[i].job \in Plain PROVE m_tasks[i].job \notin Queued'
  <2> SUFFICES ASSUME NEW k \in 1 .. n - 1, m_tasks'[k].job = m_tasks[i].job PROVE FALSE
    BY <1>2 DEF Queued
  <2> QED
    BY <1>1, <1>3, <1>4, <1>9 DEF QueueDistinct
<1>10. QueueDistinct'
  BY <1>1, <1>2, <1>3, <1>4, <1>6 DEF QueueDistinct
<1> QED
  BY <1>7, <1>8, <1>9, <1>10

\* Before the first schedule() no job is anywhere.
LEMMA InitPlace == Init => PlaceInv
<1> SUFFICES ASSUME Init PROVE PlaceInv
  OBVIOUS
<1>1. DOMAIN m_tasks = {} /\ Queued = {}
  BY DEF Init, Queued
<1>2. OnePlace
  BY <1>1, JobAssumption DEF Init, OnePlace, QueueDistinct, NoTask, Plain
<1>3. StateAgrees
  BY <1>1, JobAssumption DEF Init, StateAgrees, Finished, HoldPCs, NoTask, Plain
<1>4. StackAgrees /\ Kept /\ ExecHeld
  BY <1>1 DEF Init, StackAgrees, Kept, ExecHeld
<1> QED
  BY <1>2, <1>3, <1>4 DEF PlaceInv

\* Every step moves a job from one place to the next.
LEMMA PlaceStep == TypeInv /\ PlaceInv /\ [Next]_vars => PlaceInv'
<1> SUFFICES ASSUME TypeInv, PlaceInv, [Next]_vars PROVE PlaceInv'
  OBVIOUS
<1> USE JobAssumption
<1> USE DEF TypeInv, TaskInHand, HoldPCs, At, Goto, Finished,
        queueVars, flagVars, countVars, threadVars, fiberVars, callerVars
<1>a. NoTask.job = NoJob /\ (\A x \in Tasks : x.job \in Jobs /\ x.job # NoJob)
  BY DEF Tasks, NoTask
<1>b. Queued \subseteq Jobs
  BY <1>a DEF Queued
<1>c. \A t \in Threads : pc[t] \in HoldPCs => task[t].job \in Jobs
  BY <1>a
<1>d. \A j \in Jobs : InQueue(j) <=> j \in Queued
  BY DEF InQueue, Queued
<1>g. UNCHANGED ways => Plain' = Plain /\ (\A j \in Jobs : Mixed(j)' <=> Mixed(j))
  BY DEF Plain, Mixed
<1>e. UNCHANGED <<m_tasks, ways>> => Queued' = Queued /\ (QueueDistinct' <=> QueueDistinct)
  BY <1>g DEF Queued, QueueDistinct
<1>f. OnePlace /\ StateAgrees /\ StackAgrees /\ Kept /\ ExecHeld
  BY DEF PlaceInv
<1>h. Plain \subseteq Jobs /\ NoJob \notin Plain /\ NoJob \notin Plain'
  BY DEF Plain
<1>1. ASSUME NEW t \in Threads, Take(t) PROVE PlaceInv'
  <2>1. PICK i \in DOMAIN m_tasks : /\ task' = [task EXCEPT ![t] = m_tasks[i]]
                                    /\ m_tasks' = Erase(m_tasks, i)
    BY <1>1 DEF Take
  <2>0. PICK j : j = m_tasks[i].job
    OBVIOUS
  <2>4. pc' = [pc EXCEPT ![t] = "dispatch"] /\ pc[t] = "scan" /\ task[t].job = NoJob
        /\ UNCHANGED <<submitted, ended, m_state, stack, ways, fault>>
    BY <1>1 DEF Take
  <2>2. /\ Queued' \subseteq Queued /\ Queued \subseteq Queued' \cup {j}
        /\ j \in Plain => j \notin Queued'
        /\ QueueDistinct'
    BY <1>f, <1>g, <2>0, <2>1, <2>4, TakeQueued DEF OnePlace
  <2>3. j \in Queued /\ j \in Jobs /\ j # NoJob
    BY <1>b, <2>0 DEF Queued
  <2>5. /\ task'[t].job = j /\ pc'[t] = "dispatch"
        /\ \A u \in Threads : u # t => task'[u].job = task[u].job /\ pc'[u] = pc[u]
    BY <2>0, <2>1, <2>4
  <2>a. Plain' = Plain /\ (\A x \in Jobs : Mixed(x)' <=> Mixed(x))
    BY <1>g, <2>4
  <2>b. j \in Plain => \A u \in Threads : task[u].job # j
    BY <1>f, <2>3 DEF OnePlace
  <2>6. OnePlace'
    <3>1. \A u \in Threads : task'[u].job \in Plain => task'[u].job \notin Queued'
      BY <1>f, <2>2, <2>5 DEF OnePlace
    <3>2. ASSUME NEW u \in Threads, NEW v \in Threads, task'[u].job = task'[v].job,
                 task'[u].job \in Plain
          PROVE  u = v
      BY <1>f, <2>5, <2>b, <3>2 DEF OnePlace
    <3> QED
      BY <2>2, <2>a, <3>1, <3>2 DEF OnePlace
  <2>7. StateAgrees'
    <3>1. \A u \in Threads : task'[u].job \in Plain => Expected(u)'
      <4>1. j \in Plain => Expected(t)'
        BY <1>f, <2>3, <2>4, <2>5 DEF StateAgrees, Expected
      <4>2. \A u \in Threads : u # t /\ task[u].job \in Plain => Expected(u)'
        BY <1>f, <2>4, <2>5 DEF StateAgrees, Expected
      <4> QED
        BY <2>5, <4>1, <4>2
    <3>2. \A u \in Threads : pc'[u] \in HoldPCs => task'[u].job \in submitted
      BY <1>f, <2>3, <2>5 DEF StateAgrees
    <3> QED
      BY <1>f, <2>2, <2>4, <2>a, <3>1, <3>2 DEF StateAgrees
  <2>8. StackAgrees'
    <3>1. \A x \in Jobs : t \notin stack[x]
      BY <1>f, <2>4 DEF StackAgrees
    <3> QED
      BY <1>f, <2>4, <2>5, <3>1 DEF StackAgrees
  <2>9. Kept'
    <3>1. \A x \in Jobs, u \in Threads : InHand(u, x) => InHand(u, x)'
      BY <2>4, <2>5 DEF InHand
    <3>2. InHand(t, j)'
      BY <2>5 DEF InHand
    <3> QED
      BY <1>f, <2>2, <2>4, <2>a, <3>1, <3>2 DEF Kept
  <2>10. ExecHeld'
    <3>1. \A u \in Threads : pc[u] = "exec" => pc'[u] = "exec" /\ task'[u].job = task[u].job
      BY <2>4, <2>5
    <3> SUFFICES ASSUME fault' = "none", NEW x \in Jobs, m_state'[x] = "EXEC"
                 PROVE  \E u \in Threads : pc'[u] = "exec" /\ task'[u].job = x
      BY DEF ExecHeld
    <3>2. PICK u \in Threads : pc[u] = "exec" /\ task[u].job = x
      BY <1>f, <2>4 DEF ExecHeld
    <3> QED
      BY <3>1, <3>2
  <2> QED
    BY <2>6, <2>7, <2>8, <2>9, <2>10 DEF PlaceInv
\* Steps of a thread within run() that only move its pc.
<1>2. ASSUME NEW t \in Threads, NEW label, pc' = [pc EXCEPT ![t] = label],
             UNCHANGED <<m_tasks, submitted, task, ended, m_state, stack, ways, fault>>,
             \/ pc[t] \notin HoldPCs /\ label \notin HoldPCs
             \/ pc[t] \in {"dispatch", "check"} /\ label \in {"check", "enter"}
             \/ pc[t] = "back" /\ label = "settle"
             \/ pc[t] = "settle" /\ label = "hold" /\ task[t].job \notin Plain
      PROVE  PlaceInv'
  <2>1. pc'[t] = label /\ \A u \in Threads : u # t => pc'[u] = pc[u]
    BY <1>2
  <2>2. OnePlace'
    BY <1>e, <1>f, <1>g, <1>2 DEF OnePlace
  <2>3. StateAgrees'
    BY <1>a, <1>e, <1>f, <1>g, <1>h, <1>2, <2>1 DEF StateAgrees, Expected
  <2>4. StackAgrees' /\ ExecHeld'
    BY <1>f, <1>2, <2>1 DEF StackAgrees, ExecHeld
  <2>5. Kept'
    <3>1. \A x \in Jobs, u \in Threads : InHand(u, x) => InHand(u, x)'
      BY <1>a, <1>2, <2>1 DEF InHand
    <3> QED
      BY <1>e, <1>f, <1>g, <1>2, <3>1 DEF Kept
  <2> QED
    BY <2>2, <2>3, <2>4, <2>5 DEF PlaceInv
<1>3. ASSUME NEW t \in Threads, FindNothing(t) \/ EnterIdle(t) \/ Idle(t) \/ Exit(t)
             \/ Dispatch(t) \/ SwapInPassed(t) \/ Deactivate(t)
      PROVE  PlaceInv'
  <2>1. CASE FindNothing(t)
    BY <1>2, <2>1 DEF FindNothing
  <2>2. CASE EnterIdle(t)
    BY <1>2, <2>2 DEF EnterIdle
  <2>3. CASE Idle(t)
    BY <1>2, <2>3 DEF Idle
  <2>4. CASE Exit(t)
    BY <1>2, <2>4 DEF Exit
  <2>5. CASE Dispatch(t)
    BY <1>2, <2>5 DEF Dispatch
  <2>6. CASE SwapInPassed(t)
    BY <1>2, <2>6 DEF SwapInPassed
  <2>7. CASE Deactivate(t)
    BY <1>2, <2>7 DEF Deactivate
  <2> QED
    BY <1>3, <2>1, <2>2, <2>3, <2>4, <2>5, <2>6, <2>7
<1>4. ASSUME NEW t \in Threads, SettleOther(t) PROVE PlaceInv'
  <2>1. task[t].job \notin Plain
    BY <1>f, <1>4 DEF SettleOther, StateAgrees, Expected
  <2> QED
    BY <1>2, <1>4, <2>1 DEF SettleOther
\* Steps that give the task back and leave the queue alone.
<1>5. ASSUME NEW t \in Threads, NEW label \in {"scan", "exit"},
             pc' = [pc EXCEPT ![t] = label], task' = [task EXCEPT ![t] = NoTask],
             UNCHANGED <<m_tasks, submitted, ended, stack, ways, fault>>,
             pc[t] \in {"dispatch", "settle", "hold"},
             task[t].job \in ended \/ (pc[t] = "hold" /\ task[t].job \notin Plain),
             \/ UNCHANGED m_state
             \/ task[t].job \notin Plain /\ m_state' = [m_state EXCEPT ![task[t].job] = "HOLD"]
      PROVE  PlaceInv'
  <2> DEFINE j == task[t].job
  <2>1. /\ task'[t].job = NoJob /\ pc'[t] = label /\ j \in Jobs
        /\ \A u \in Threads : u # t => task'[u].job = task[u].job /\ pc'[u] = pc[u]
    BY <1>a, <1>c, <1>5
  <2>2. \A x \in Jobs : m_state'[x] = m_state[x] \/ (x = j /\ j \notin Plain /\ m_state'[x] = "HOLD")
    BY <1>5, <2>1
  <2>a. j \in ended \/ (pc[t] = "hold" /\ j \notin Plain)
    BY <1>5
  <2>b. j \in submitted
    BY <1>f, <1>5 DEF StateAgrees
  <2>c. task[t].job = j
    OBVIOUS
  <2> HIDE DEF j
  <2>3. OnePlace'
    BY <1>e, <1>f, <1>g, <1>h, <1>5, <2>1 DEF OnePlace
  <2>4. StateAgrees'
    <3>1. \A u \in Threads : task'[u].job \in Plain =>
            task'[u].job = task[u].job /\ pc'[u] = pc[u] /\ m_state'[task[u].job] = m_state[task[u].job]
      BY <1>h, <2>1, <2>2
    <3>2. \A u \in Threads : task'[u].job \in Plain => Expected(u)'
      BY <1>f, <1>5, <3>1 DEF StateAgrees, Expected
    <3>3. /\ \A x \in Jobs \ submitted : m_state'[x] = "INIT"
          /\ \A x \in Jobs : Finished(m_state'[x]) => x \in ended
      BY <1>f, <2>2, <2>b DEF StateAgrees
    <3>4. \A u \in Threads : pc'[u] \in HoldPCs => task'[u].job \in submitted
      BY <1>f, <1>5, <2>1 DEF StateAgrees
    <3> QED
      BY <1>e, <1>f, <1>g, <1>5, <3>2, <3>3, <3>4 DEF StateAgrees
  <2>5. StackAgrees'
    BY <1>c, <1>f, <1>5, <2>1 DEF StackAgrees
  <2>6. Kept'
    <3>1. \A x \in Jobs, u \in Threads : InHand(u, x) /\ u # t => InHand(u, x)'
      BY <1>5, <2>1 DEF InHand
    <3>2. ~ Mixed(j) => j \in ended \/ j \in Queued \/ \E u \in Threads : InHand(u, j) /\ u # t
      BY <1>f, <1>5, <2>1, <2>a, <2>b, <2>c DEF Kept, InHand, Plain
    <3>3. \A x \in Jobs : InHand(t, x) => x = j
      BY <2>c DEF InHand
    <3> QED
      BY <1>e, <1>f, <1>g, <1>5, <2>1, <3>1, <3>2, <3>3 DEF Kept
  <2>7. ExecHeld'
    BY <1>f, <1>5, <2>1, <2>2 DEF ExecHeld
  <2> QED
    BY <2>3, <2>4, <2>5, <2>6, <2>7 DEF PlaceInv
<1>6. ASSUME NEW t \in Threads, DropEnded(t) \/ SetHold(t) PROVE PlaceInv'
  <2>1. CASE DropEnded(t)
    <3>1. task[t].job \in ended
      BY <1>c, <1>f, <2>1 DEF DropEnded, StateAgrees
    <3> QED
      BY <1>5, <2>1, <3>1 DEF DropEnded
  <2>2. CASE SetHold(t)
    <3>1. task[t].job \notin Plain
      BY <1>f, <2>2 DEF SetHold, StateAgrees, Expected
    <3> QED
      BY <1>5, <2>2, <3>1 DEF SetHold, NextTurn
  <2> QED
    BY <1>6, <2>1, <2>2
<1>7. ASSUME NEW t \in Threads, SwapIn(t) PROVE PlaceInv'
  <2> DEFINE j == task[t].job
  <2>1. /\ pc[t] = "enter" /\ j \in Jobs /\ j \in submitted /\ fault = "none"
        /\ j \in Plain => j \notin ended /\ (\A u \in Threads : u # t => task[u].job # j)
    BY <1>7, <1>c, <1>f DEF SwapIn, StateAgrees, Expected, OnePlace
  <2>2. UNCHANGED <<m_tasks, submitted, task, ended, ways>> /\ pc' = [pc EXCEPT ![t] = "exec"]
    BY <1>7 DEF SwapIn
  <2>3. m_state' = [m_state EXCEPT ![j] = "EXEC"] /\ stack' = [stack EXCEPT ![j] = @ \cup {t}]
    BY <1>7 DEF SwapIn
  <2>4. pc'[t] = "exec" /\ \A u \in Threads : u # t => pc'[u] = pc[u]
    BY <2>2
  <2>a. task[t].job = j
    OBVIOUS
  <2> HIDE DEF j
  <2>5. OnePlace'
    BY <1>e, <1>f, <1>g, <2>2 DEF OnePlace
  <2>6. StateAgrees'
    <3>1. \A x \in Jobs : m_state'[x] = IF x = j THEN "EXEC" ELSE m_state[x]
      BY <2>1, <2>3
    <3>2. \A u \in Threads : task[u].job \in Plain => Expected(u)'
      BY <1>f, <1>h, <2>1, <2>2, <2>4, <2>a, <3>1 DEF StateAgrees, Expected
    <3> QED
      BY <1>e, <1>f, <1>g, <2>1, <2>2, <2>4, <2>a, <3>1, <3>2 DEF StateAgrees
  <2>7. StackAgrees'
    BY <1>c, <1>f, <2>1, <2>2, <2>3, <2>4, <2>a DEF StackAgrees
  <2>8. Kept'
    <3>1. \A x \in Jobs, u \in Threads : InHand(u, x) => InHand(u, x)'
      BY <2>2, <2>4 DEF InHand
    <3> QED
      BY <1>e, <1>f, <1>g, <2>2, <3>1 DEF Kept
  <2>9. ExecHeld'
    BY <1>f, <2>1, <2>2, <2>3, <2>4, <2>a DEF ExecHeld
  <2> QED
    BY <2>5, <2>6, <2>7, <2>8, <2>9 DEF PlaceInv
<1>8. ASSUME NEW j \in Jobs, NEW thread \in Targets, Submit(j, thread),
             UNCHANGED <<threadVars, fiberVars, fault>>
      PROVE  PlaceInv'
  <2>1. j \notin Queued /\ j \notin ended /\ j \notin submitted
        /\ (\A t \in Threads : task[t].job # j)
    BY <1>8, <1>a, <1>f DEF Submit, StateAgrees
  <2>2. submitted' = submitted \cup {j} /\ UNCHANGED <<pc, task, ended, m_state, stack, ways, fault>>
    BY <1>8 DEF Submit
  <2>3. Queued' = Queued \cup {j} /\ QueueDistinct'
    BY <1>8, <1>f, <1>g, <2>1, <2>2, PushQueued DEF Submit, Kinds, OnePlace
  <2>4. OnePlace'
    BY <1>f, <1>g, <2>1, <2>2, <2>3 DEF OnePlace
  <2>5. StateAgrees'
    BY <1>f, <1>g, <2>1, <2>2, <2>3 DEF StateAgrees, Expected
  <2>6. StackAgrees' /\ ExecHeld'
    BY <1>f, <2>2 DEF StackAgrees, ExecHeld
  <2>7. Kept'
    BY <1>f, <1>g, <2>2, <2>3 DEF Kept, InHand
  <2> QED
    BY <2>4, <2>5, <2>6, <2>7 DEF PlaceInv
\* The job of t leaves the processor: it has ended, is READY, or holds.
<1>9. ASSUME NEW t \in Threads, NEW state \in {"READY", "HOLD", "TERM", "ERROR"},
             pc[t] = "exec", pc' = [pc EXCEPT ![t] = "leaving"], fault = "none",
             UNCHANGED <<m_tasks, submitted, task, stack, fault>>,
             m_state' = [m_state EXCEPT ![task[t].job] = state],
             ended' = IF state \in {"TERM", "ERROR"} THEN ended \cup {task[t].job} ELSE ended,
             IF state = "READY"
             THEN ways' = [ways EXCEPT ![task[t].job] = @ \cup {"ready"}]
             ELSE UNCHANGED ways,
             state = "HOLD" => task[t].job \in Queued
      PROVE  PlaceInv'
  <2>a. PICK j : task[t].job = j
    OBVIOUS
  <2>1. /\ j \in Jobs /\ j \in submitted
        /\ j \in Plain => j \notin Queued /\ j \notin ended
                           /\ (\A u \in Threads : u # t => task[u].job # j)
    BY <1>9, <1>c, <1>f, <2>a DEF StateAgrees, Expected, OnePlace
  <2>2. pc'[t] = "leaving" /\ \A u \in Threads : u # t => pc'[u] = pc[u]
    BY <1>9
  <2>3. /\ Plain' = Plain /\ Queued' = Queued /\ (QueueDistinct' <=> QueueDistinct)
        /\ \A x \in Jobs : x # j => ways'[x] = ways[x]
        /\ "reschedule" \in ways'[j] <=> "reschedule" \in ways[j]
    <3>1. /\ \A x \in Jobs : x # j => ways'[x] = ways[x]
          /\ "reschedule" \in ways'[j] <=> "reschedule" \in ways[j]
      <4>1. CASE state = "READY"
        <5>1. ways' = [ways EXCEPT ![j] = @ \cup {"ready"}]
          BY <1>9, <2>a, <4>1
        <5> QED
          BY <2>1, <5>1
      <4>2. CASE state # "READY"
        BY <1>9, <4>2
      <4> QED
        BY <4>1, <4>2
    <3>2. Plain' = Plain
      BY <3>1 DEF Plain
    <3> QED
      BY <1>9, <3>1, <3>2 DEF Queued, QueueDistinct
  <2>4. \A x \in Jobs : m_state'[x] = IF x = j THEN state ELSE m_state[x]
    BY <1>9, <2>1, <2>a
  <2>5. \A x : x \in ended' <=> x \in ended \/ (x = j /\ state \in {"TERM", "ERROR"})
    BY <1>9, <2>a
  <2>b. state = "HOLD" => j \in Queued
    BY <1>9, <2>a
  <2>c. state = "READY" => "ready" \in ways'[j] /\ ways'[j] \subseteq Ways
    BY <1>9, <2>1, <2>a DEF Ways
  <2>d. t \in stack[j]
    BY <1>f, <1>9, <2>a DEF StackAgrees
  <2>6. OnePlace'
    BY <1>f, <1>9, <2>3 DEF OnePlace
  <2>7. StateAgrees'
    <3>1. \A u \in Threads : task[u].job \in Plain => Expected(u)'
      BY <1>f, <1>h, <1>9, <2>1, <2>2, <2>4, <2>5, <2>a, <2>b DEF StateAgrees, Expected
    <3> QED
      BY <1>f, <1>9, <2>1, <2>2, <2>3, <2>4, <2>5, <2>a, <3>1 DEF StateAgrees
  <2>8. StackAgrees'
    BY <1>f, <1>9, <2>2 DEF StackAgrees
  <2>9. Kept'
    <3>1. ASSUME NEW x \in Jobs, x # j PROVE \A u \in Threads : InHand(u, x) => InHand(u, x)'
      BY <1>9, <2>2, <2>3, <2>a, <3>1 DEF InHand
    <3>2. ~ Mixed(j)' => j \in ended' \/ j \in Queued' \/ InHand(t, j)'
      <4>1. CASE state = "READY"
        <5>1. ~ Mixed(j)' => "reschedule" \notin ways'[j]
          BY <2>c, <4>1 DEF Mixed, Ways
        <5>2. task'[t].job = j
          BY <1>9, <2>a
        <5> QED
          BY <5>1, <5>2 DEF InHand
      <4>2. CASE state # "READY"
        BY <2>3, <2>5, <2>b, <4>2
      <4> QED
        BY <4>1, <4>2
    <3>3. \A x \in Jobs : x # j => (Mixed(x)' <=> Mixed(x))
      BY <2>3 DEF Mixed
    <3>4. submitted' = submitted /\ submitted \subseteq Jobs
      BY <1>9
    <3> QED
      BY <1>f, <2>3, <2>5, <3>1, <3>2, <3>3, <3>4 DEF Kept
  <2>10. ExecHeld'
    BY <1>f, <1>9, <2>1, <2>2, <2>4, <2>a DEF ExecHeld
  <2> QED
    BY <2>6, <2>7, <2>8, <2>9, <2>10 DEF PlaceInv
<1>10. ASSUME NEW t \in Threads, YieldToReady(t) \/ YieldToHold(t) \/ Return(t) \/ Throw(t)
       PROVE  PlaceInv'
  <2>1. CASE YieldToReady(t)
    BY <1>9, <2>1 DEF YieldToReady, Leave, PutBack
  <2>2. CASE YieldToHold(t)
    <3>1. task[t].job \in Queued
      BY <1>c, <1>d, <2>2 DEF YieldToHold
    <3> QED
      BY <1>9, <2>2, <3>1 DEF YieldToHold, Leave
  <2>3. CASE Return(t)
    BY <1>9, <2>3 DEF Return, End, Leave
  <2>4. CASE Throw(t)
    BY <1>9, <2>4 DEF Throw, End, Leave
  <2> QED
    BY <1>10, <2>1, <2>2, <2>3, <2>4
<1>11. ASSUME NEW t \in Threads, SwapOut(t) PROVE PlaceInv'
  <2>1. /\ pc[t] = "leaving" /\ pc' = [pc EXCEPT ![t] = "back"]
        /\ UNCHANGED <<m_tasks, submitted, task, ended, m_state, ways, fault>>
    BY <1>11 DEF SwapOut
  <2>2. stack' = [stack EXCEPT ![task[t].job] = @ \ {t}]
    BY <1>11 DEF SwapOut
  <2>3. pc'[t] = "back" /\ \A u \in Threads : u # t => pc'[u] = pc[u]
    BY <2>1
  <2>4. OnePlace' /\ StateAgrees'
    BY <1>e, <1>f, <1>g, <2>1, <2>3 DEF OnePlace, StateAgrees, Expected
  <2>5. StackAgrees'
    BY <1>c, <1>f, <2>1, <2>2, <2>3 DEF StackAgrees
  <2>6. Kept'
    <3>1. \A x \in Jobs, u \in Threads : InHand(u, x) => InHand(u, x)'
      BY <2>1, <2>3 DEF InHand
    <3> QED
      BY <1>e, <1>f, <1>g, <2>1, <3>1 DEF Kept
  <2>7. ExecHeld'
    BY <1>f, <2>1, <2>3 DEF ExecHeld
  <2> QED
    BY <2>4, <2>5, <2>6, <2>7 DEF PlaceInv
<1>12. ASSUME NEW t \in Threads, SettleReady(t) PROVE PlaceInv'
  <2> DEFINE j == task[t].job
  <2>1. /\ pc[t] = "settle" /\ j \in Jobs /\ j \in submitted /\ m_state[j] = "READY"
        /\ j \in Plain => j \notin Queued /\ j \notin ended
                           /\ (\A u \in Threads : u # t => task[u].job # j)
    BY <1>12, <1>c, <1>f, SMTT(30) DEF SettleReady, StateAgrees, Expected, OnePlace
  <2>2. UNCHANGED <<submitted, ended, m_state, stack, ways, fault>> /\ pc' = [pc EXCEPT ![t] = "scan"]
        /\ task' = [task EXCEPT ![t] = NoTask] /\ Push(j, "fiber", Unpinned)
    BY <1>12 DEF SettleReady, NextTurn
  <2>3. Queued' = Queued \cup {j} /\ QueueDistinct'
    BY <1>f, <1>g, <2>1, <2>2, PushQueued DEF Kinds, OnePlace
  <2>4. /\ task'[t].job = NoJob /\ pc'[t] = "scan"
        /\ \A u \in Threads : u # t => task'[u].job = task[u].job /\ pc'[u] = pc[u]
    BY <1>a, <2>2
  <2>a. task[t].job = j
    OBVIOUS
  <2> HIDE DEF j
  <2>5. OnePlace'
    BY <1>f, <1>g, <1>h, <2>1, <2>2, <2>3, <2>4 DEF OnePlace
  <2>6. StateAgrees'
    BY <1>f, <1>g, <1>h, <2>1, <2>2, <2>3, <2>4 DEF StateAgrees, Expected
  <2>7. StackAgrees' /\ ExecHeld'
    BY <1>c, <1>f, <2>1, <2>2, <2>4 DEF StackAgrees, ExecHeld
  <2>8. Kept'
    <3>1. \A x \in Jobs, u \in Threads : InHand(u, x) => InHand(u, x)' \/ x = j
      BY <2>2, <2>4, <2>a DEF InHand
    <3> QED
      BY <1>f, <1>g, <2>2, <2>3, <3>1 DEF Kept
  <2> QED
    BY <2>5, <2>6, <2>7, <2>8 DEF PlaceInv
<1>13. ASSUME UNCHANGED <<m_tasks, submitted, task, ended, m_state, stack, ways>>,
              fault' = "none" => fault = "none",
              \A t \in Threads : pc'[t] = pc[t] \/ (pc[t] \in {"off", "exit"} /\ pc'[t] = "scan")
       PROVE  PlaceInv'
  <2>1. OnePlace' /\ StateAgrees'
    BY <1>e, <1>f, <1>g, <1>13 DEF OnePlace, StateAgrees, Expected
  <2>2. StackAgrees' /\ ExecHeld'
    <3>1. \A t \in Threads : pc'[t] \in {"exec", "leaving"} \/ pc[t] \in {"exec", "leaving"}
                              => pc'[t] = pc[t]
      BY <1>13
    <3>2. StackAgrees'
      BY <1>f, <1>13, <3>1 DEF StackAgrees
    <3>3. ExecHeld'
      <4> SUFFICES ASSUME fault' = "none", NEW j \in Jobs, m_state'[j] = "EXEC"
                   PROVE  \E u \in Threads : pc'[u] = "exec" /\ task'[u].job = j
        BY DEF ExecHeld
      <4>1. PICK u \in Threads : pc[u] = "exec" /\ task[u].job = j
        BY <1>f, <1>13 DEF ExecHeld
      <4> QED
        BY <1>13, <3>1, <4>1
    <3> QED
      BY <3>2, <3>3
  <2>3. Kept'
    <3>1. \A x \in Jobs, u \in Threads : InHand(u, x) => InHand(u, x)'
      BY <1>13 DEF InHand
    <3> QED
      BY <1>e, <1>f, <1>g, <1>13, <3>1 DEF Kept
  <2> QED
    BY <2>1, <2>2, <2>3 DEF PlaceInv
<1>14. ASSUME NEW t \in Threads, SettleEnded(t) PROVE PlaceInv'
  <2>1. /\ pc[t] = "settle" /\ task[t].job \in ended
        /\ UNCHANGED <<m_tasks, submitted, ended, m_state, stack, ways>>
    BY <1>14, <1>c, <1>f DEF SettleEnded, StateAgrees
  <2>2. \/ UNCHANGED <<pc, task>> /\ fault' = "terminate"
        \/ /\ UNCHANGED fault
           /\ \E label \in {"scan", "exit"} :
                 pc' = [pc EXCEPT ![t] = label] /\ task' = [task EXCEPT ![t] = NoTask]
    BY <1>14 DEF SettleEnded, NextTurn, RunThrows
  <2> QED
    BY <1>5, <1>13, <2>1, <2>2
<1>15. ASSUME NEW t \in Threads, SwapInRefused(t) PROVE PlaceInv'
  <2>1. UNCHANGED <<m_tasks, submitted, pc, task, ended, m_state, stack, ways>>
        /\ fault' = "terminate"
    BY <1>15 DEF SwapInRefused
  <2> QED
    BY <1>13, <2>1
<1>16. ASSUME NEW t \in Threads, Reschedule(t) PROVE PlaceInv'
  <2> DEFINE j == task[t].job
  <2>1. /\ pc[t] = "exec" /\ j \in Jobs /\ j \in submitted
        /\ UNCHANGED <<submitted, pc, task, ended, m_state, stack, fault>>
        /\ ways' = [ways EXCEPT ![j] = @ \cup {"reschedule"}]
        /\ Push(j, "fiber", Unpinned)
    BY <1>16, <1>c, <1>f DEF Reschedule, PutBack, StateAgrees
  <2> HIDE DEF j
  <2>2. Plain' = Plain \ {j} /\ \A x \in Jobs : x # j => ways'[x] = ways[x]
    BY <2>1 DEF Plain
  <2>3. Queued' = Queued \cup {j} /\ QueueDistinct'
    BY <1>f, <2>1, <2>2, PushQueued DEF Kinds, OnePlace
  <2>4. OnePlace'
    BY <1>f, <2>1, <2>2, <2>3 DEF OnePlace
  <2>5. StateAgrees'
    BY <1>f, <2>1, <2>2, <2>3 DEF StateAgrees, Expected
  <2>6. StackAgrees' /\ ExecHeld'
    BY <1>f, <2>1 DEF StackAgrees, ExecHeld
  <2>7. Kept'
    BY <1>f, <2>1, <2>2, <2>3 DEF Kept, InHand, Mixed
  <2> QED
    BY <2>4, <2>5, <2>6, <2>7 DEF PlaceInv
<1>17. ASSUME NEW t \in Threads, Spawn(t) PROVE PlaceInv'
  BY <1>8, <1>17 DEF Spawn
<1>18. ASSUME Schedule PROVE PlaceInv'
  BY <1>8, <1>18 DEF Schedule
<1>19. ASSUME Start PROVE PlaceInv'
  <2>1. \A t \in Threads : pc'[t] = pc[t] \/ (pc[t] \in {"off", "exit"} /\ pc'[t] = "scan")
    <3>1. \A t \in Workers : pc[t] \in {"off", "exit"}
      BY <1>19 DEF Start, OffStage, CallerAt, Threads
    <3> QED
      BY <1>19, <3>1 DEF Start
  <2> QED
    BY <1>13, <1>19, <2>1 DEF Start
<1>20. ASSUME StopStep PROVE PlaceInv'
  <2>1. \A t \in Threads : pc'[t] = pc[t] \/ (pc[t] \in {"off", "exit"} /\ pc'[t] = "scan")
    <3>1. CASE StopRoot
      BY <3>1 DEF StopRoot
    <3>2. CASE StopAuto \/ StopFlag \/ RootReturns \/ Join
      BY <3>2 DEF StopAuto, StopFlag, RootReturns, Join
    <3> QED
      BY <1>20, <3>1, <3>2 DEF StopStep
  <2>2. UNCHANGED <<m_tasks, submitted, task, ended, m_state, stack, ways>> /\ fault = "none"
    BY <1>20 DEF StopStep, StopAuto, StopFlag, StopRoot, RootReturns, Join, CallerAt
  <2> QED
    BY <1>13, <2>1, <2>2
<1>21. ASSUME UNCHANGED vars PROVE PlaceInv'
  <2>1. UNCHANGED <<m_tasks, submitted, pc, task, ended, m_state, stack, ways, fault>>
    BY <1>21 DEF vars
  <2> QED
    BY <1>13, <2>1
<1> QED
  BY <1>1, <1>3, <1>4, <1>6, <1>7, <1>10, <1>11, <1>12, <1>14, <1>15, <1>16, <1>17, <1>18,
     <1>19, <1>20, <1>21 DEF Next, ThreadStep, Rest

\* No two threads are ever on the stack of a fiber that has not queued itself
\* before it held (fiber.cpp:233), whatever the other fibers do, for any number
\* of threads and jobs.
THEOREM OneStack == Spec => []SharedOnlyIfRescheduled
<1>1. Init => TypeInv /\ PlaceInv
  BY InitType, InitPlace
<1>2. TypeInv /\ PlaceInv /\ [Next]_vars => (TypeInv /\ PlaceInv)'
  BY TypeStep, PlaceStep
<1>3. TypeInv /\ PlaceInv => SharedOnlyIfRescheduled
  <2> SUFFICES ASSUME TypeInv, PlaceInv, NEW j \in Jobs, "reschedule" \notin ways[j],
                      NEW t \in stack[j], NEW u \in stack[j]
               PROVE  t = u
    BY DEF SharedOnlyIfRescheduled
  <2>1. t \in Threads /\ u \in Threads /\ j \in Plain
    BY DEF TypeInv, Plain
  <2> QED
    BY <2>1 DEF PlaceInv, OnePlace, StackAgrees
<1> QED
  BY <1>1, <1>2, <1>3, PTL DEF Spec

\* No job that was scheduled is lost, whether it yields as READY or queues
\* itself and holds, as every yield of the repository does.
THEOREM JobsSafe == Spec => []NoJobLost
<1>1. Init => TypeInv /\ PlaceInv
  BY InitType, InitPlace
<1>2. TypeInv /\ PlaceInv /\ [Next]_vars => (TypeInv /\ PlaceInv)'
  BY TypeStep, PlaceStep
<1>3. TypeInv /\ PlaceInv => NoJobLost
  BY DEF NoJobLost, InQueue, PlaceInv, Kept, Queued
<1> QED
  BY <1>1, <1>2, <1>3, PTL DEF Spec
-----------------------------------------------------------------------------
(* stop() leaves nothing behind, if the jobs are not bound to threads and  *)
(* do not fail.                                                            *)

Unbound == Targets = {Unpinned}
Faultless == "throw" \notin Ops

\* A thread that will look into the queue again before it ends.
Attentive(t) ==
    \/ pc[t] \notin {"off", "exit"} /\ ~ (pc[t] = "none" /\ idleTerm[t])
    \/ caller = "init"
    \/ t = Caller /\ caller \in {"open", "autostop", "stopping"}

\* As long as there are tasks somebody will look into the queue.  A thread may
\* end while the fiber of another is not queued yet, but never before it has
\* seen the queue empty, and who fills the queue looks into it afterwards.
Watched == m_tasks # <<>> /\ fault = "none" => \E t \in Threads : Attentive(t)

StopInv ==
    /\ Watched
    /\ \A i \in DOMAIN m_tasks : m_tasks[i].thread = Unpinned
    /\ \A j \in Jobs : m_state[j] # "ERROR"
    /\ caller \in {"open", "autostop"} =>
         /\ ~ m_stopping
         /\ \A t \in Workers : ~ idleTerm[t] /\ pc[t] \notin {"off", "exit"}
    /\ caller = "stopped" => fault = "none"

\* Before start() everybody will still look into the queue.
LEMMA InitStop == Init => StopInv
<1> SUFFICES ASSUME Init PROVE StopInv
  OBVIOUS
<1>1. m_tasks = <<>> /\ DOMAIN m_tasks = {} /\ caller = "init"
  BY DEF Init
<1> QED
  BY <1>1 DEF Init, StopInv, Watched

\* A scan that finds nothing leaves tasks behind only if another thread executes
\* their fibers.
LEMMA NothingMeansExecuted ==
    ASSUME TypeInv, PlaceInv, StopInv, NEW t \in Threads, FindNothing(t), m_tasks # <<>>
    PROVE  \E u \in Threads : u # t /\ pc[u] = "exec"
<1>1. m_tasks \in Seq(Tasks) /\ 1 \in DOMAIN m_tasks
  BY DEF TypeInv
<1>2. m_tasks[1].thread = Unpinned /\ m_tasks[1].job \in Jobs
  <2>1. m_tasks[1] \in Tasks
    BY <1>1
  <2> QED
    BY <1>1, <2>1 DEF StopInv, Tasks
<1>3. m_state[m_tasks[1].job] = "EXEC"
  BY <1>1, <1>2 DEF FindNothing, Takeable
<1>4. PICK u \in Threads : pc[u] = "exec"
  BY <1>2, <1>3 DEF PlaceInv, ExecHeld, FindNothing, At
<1> QED
  BY <1>4 DEF FindNothing, At

\* The tasks stay unbound.
LEMMA UnboundStep ==
    ASSUME Unbound, TypeInv, StopInv, [Next]_vars
    PROVE  \A i \in DOMAIN m_tasks' : m_tasks'[i].thread = Unpinned
<1> DEFINE Goal == \A i \in DOMAIN m_tasks' : m_tasks'[i].thread = Unpinned
<1>a. m_tasks \in Seq(Tasks) /\ \A i \in DOMAIN m_tasks : m_tasks[i].thread = Unpinned
  BY DEF TypeInv, StopInv
<1>b. Unpinned \in Threads \cup {Unpinned}
  OBVIOUS
<1>1. ASSUME NEW i \in DOMAIN m_tasks, m_tasks' = Erase(m_tasks, i) PROVE Goal
  <2> DEFINE n == Len(m_tasks)
  <2>1. /\ m_tasks' \in Seq(Tasks) /\ Len(m_tasks') = n - 1 /\ n \in Nat
        /\ \A k \in 1 .. n - 1 : m_tasks'[k] = IF k < i THEN m_tasks[k] ELSE m_tasks[k + 1]
    BY <1>a, <1>1, EraseFacts
  <2>2. DOMAIN m_tasks = 1 .. n /\ DOMAIN m_tasks' = 1 .. n - 1
    BY <1>a, <2>1
  <2>3. \A k \in 1 .. n - 1 : k \in 1 .. n /\ k + 1 \in 1 .. n
    BY <2>1
  <2> HIDE DEF n
  <2> QED
    BY <1>a, <2>1, <2>2, <2>3
<1>2. ASSUME NEW j, NEW kind, Push(j, kind, Unpinned) PROVE Goal
  <2> DEFINE new == [job |-> j, kind |-> kind, thread |-> Unpinned]
  <2>1. m_tasks' = Append(m_tasks, new) /\ new.thread = Unpinned
    BY <1>2 DEF Push
  <2> HIDE DEF new
  <2>2. /\ DOMAIN m_tasks' = 1 .. Len(m_tasks) + 1 /\ DOMAIN m_tasks = 1 .. Len(m_tasks)
        /\ \A k \in 1 .. Len(m_tasks) : m_tasks'[k] = m_tasks[k]
        /\ m_tasks'[Len(m_tasks) + 1] = new
    BY <1>a, <2>1
  <2>3. \A k \in 1 .. Len(m_tasks) + 1 : k \in 1 .. Len(m_tasks) \/ k = Len(m_tasks) + 1
    BY <1>a
  <2> QED
    BY <1>a, <2>1, <2>2, <2>3
<1>3. ASSUME UNCHANGED m_tasks PROVE Goal
  BY <1>a, <1>3
<1> HIDE DEF Goal
<1>4. ASSUME NEW t \in Threads, Take(t) PROVE Goal
  BY <1>1, <1>4 DEF Take
<1>5. ASSUME NEW t \in Threads, Spawn(t) \/ Reschedule(t) \/ SettleReady(t) PROVE Goal
  BY <1>2, <1>5 DEF Spawn, Reschedule, SettleReady, Submit, Unbound
<1>6. ASSUME Schedule PROVE Goal
  BY <1>2, <1>6 DEF Schedule, Submit, Unbound
<1>7. ASSUME NEW t \in Threads, ThreadStep(t), ~ Take(t),
             ~ (Spawn(t) \/ Reschedule(t) \/ SettleReady(t))
      PROVE  UNCHANGED m_tasks
  BY <1>7 DEF ThreadStep, FindNothing, DropEnded, Dispatch, SwapInRefused, SwapInPassed, SwapIn,
     YieldToReady,
     YieldToHold, Return, Throw, End, Leave, SwapOut, Deactivate, SettleEnded, SettleOther,
     SetHold, EnterIdle, Idle, Exit, queueVars
<1>8. ASSUME Start \/ StopStep \/ UNCHANGED vars PROVE UNCHANGED m_tasks
  BY <1>8 DEF Start, StopStep, StopAuto, StopFlag, StopRoot, RootReturns, Join, vars, queueVars
<1> QED
  BY <1>3, <1>4, <1>5, <1>6, <1>7, <1>8 DEF Next, Rest, Goal

\* No fiber is ever in the state ERROR.
LEMMA FaultlessStep ==
    ASSUME Faultless, TypeInv, StopInv, [Next]_vars
    PROVE  \A j \in Jobs : m_state'[j] # "ERROR"
<1>a. m_state \in [Jobs -> FiberStates] /\ \A j \in Jobs : m_state[j] # "ERROR"
  BY DEF TypeInv, StopInv
<1> DEFINE Written(state) == \E x : m_state' = [m_state EXCEPT ![x] = state]
<1>1. UNCHANGED m_state \/ \E state \in FiberStates \ {"ERROR"} : Written(state)
  <2> USE DEF FiberStates
  <2>1. ASSUME NEW t \in Threads, ThreadStep(t)
        PROVE  UNCHANGED m_state \/ \E state \in FiberStates \ {"ERROR"} : Written(state)
    <3>1. CASE SwapIn(t) \/ SetHold(t)
      <4>1. Written("EXEC") \/ Written("HOLD")
        BY <3>1 DEF SwapIn, SetHold
      <4> QED
        BY <4>1
    <3>2. CASE YieldToReady(t) \/ YieldToHold(t) \/ Return(t)
      BY <3>2 DEF YieldToReady, YieldToHold, Return, End, Leave
    <3>3. CASE ~ (SwapIn(t) \/ SetHold(t)) /\ ~ (YieldToReady(t) \/ YieldToHold(t) \/ Return(t))
      BY <2>1, <3>3 DEF ThreadStep, Take, FindNothing, DropEnded, Dispatch, SwapInRefused,
         SwapInPassed, Spawn,
         Reschedule, Throw, Faultless, SwapOut, Deactivate, SettleReady, SettleEnded,
         SettleOther, EnterIdle, Idle, Exit, fiberVars
    <3> QED
      BY <3>1, <3>2, <3>3
  <2>2. ASSUME Schedule \/ Start \/ StopStep \/ UNCHANGED vars PROVE UNCHANGED m_state
    BY <2>2 DEF Schedule, Start, StopStep, StopAuto, StopFlag, StopRoot, RootReturns, Join,
       vars, fiberVars
  <2> QED
    BY <2>1, <2>2 DEF Next, Rest
<1> QED
  BY <1>a, <1>1

\* Where a step of a thread leaves that thread; the others stay where they are.
LEMMA ThreadMoves ==
    ASSUME Faultless, TypeInv, StopInv, NEW t \in Threads, ThreadStep(t)
    PROVE  /\ pc[t] \notin {"off", "exit"}
           /\ \A u \in Threads : u # t => pc'[u] = pc[u] /\ idleTerm'[u] = idleTerm[u]
           /\ UNCHANGED <<caller, m_stopping>>
           /\ \/ FindNothing(t) /\ pc'[t] = "none"
              \/ Exit(t) /\ pc'[t] = "exit"
              \/ fault' = "terminate" /\ UNCHANGED <<pc, idleTerm>>
              \/ pc'[t] \notin {"off", "none", "exit"}
           /\ idleTerm'[t] => idleTerm[t] \/ m_stopping
<1> USE DEF TypeInv, At, Goto, flagVars, threadVars, callerVars
<1>1. CASE FindNothing(t)
  BY <1>1 DEF FindNothing
<1>2. CASE Exit(t)
  BY <1>2 DEF Exit
<1>3. CASE SwapInRefused(t)
  BY <1>3 DEF SwapInRefused
<1>4. CASE Idle(t)
  <2>1. idleTerm'[t] => m_stopping
    BY <1>4 DEF Idle, Stopping
  <2> QED
    BY <1>4, <2>1 DEF Idle
<1>5. CASE Take(t) \/ DropEnded(t) \/ SwapInPassed(t) \/ SwapIn(t) \/ SwapOut(t) \/ Deactivate(t)
           \/ SettleOther(t)
  BY <1>5 DEF Take, DropEnded, SwapInPassed, SwapIn, SwapOut, Deactivate, SettleOther
<1>11. CASE Dispatch(t)
  BY <1>11 DEF Dispatch
<1>6. CASE YieldToReady(t) \/ YieldToHold(t) \/ Return(t) \/ Throw(t)
  BY <1>6 DEF YieldToReady, YieldToHold, Return, Throw, End, Leave
<1>7. CASE Spawn(t) \/ Reschedule(t)
  BY <1>7 DEF Spawn, Reschedule
<1>8. CASE SettleReady(t) \/ SetHold(t)
  BY <1>8 DEF SettleReady, SetHold, NextTurn
<1>9. CASE SettleEnded(t)
  <2>1. task[t].job \in Jobs
    BY <1>9, JobAssumption DEF SettleEnded, TaskInHand, HoldPCs, Tasks, NoTask
  <2>2. ~ ResetThrows(m_state[task[t].job])
    BY <2>1 DEF StopInv, ResetThrows
  <2>3. NextTurn(t) /\ UNCHANGED <<fault, idleTerm>>
    BY <1>9, <2>2 DEF SettleEnded
  <2> QED
    BY <1>9, <2>3 DEF SettleEnded, NextTurn
<1>10. CASE EnterIdle(t)
  BY <1>10 DEF EnterIdle
<1> QED
  BY <1>1, <1>2, <1>3, <1>4, <1>5, <1>6, <1>7, <1>8, <1>9, <1>10, <1>11 DEF ThreadStep

\* Every step keeps the queue watched.
LEMMA StopInvStep ==
    ASSUME Unbound, Faultless
    PROVE  TypeInv /\ PlaceInv /\ StopInv /\ [Next]_vars => StopInv'
<1> SUFFICES ASSUME TypeInv, PlaceInv, StopInv, [Next]_vars PROVE StopInv'
  OBVIOUS
<1> DEFINE Running ==
      caller \in {"open", "autostop"} =>
        /\ ~ m_stopping
        /\ \A t \in Workers : ~ idleTerm[t] /\ pc[t] \notin {"off", "exit"}
<1>a. Watched /\ Running /\ OffStage
  BY DEF StopInv, TypeInv
<1>b. \A t \in Threads : t \in Workers \/ (UseCaller /\ t = Caller)
  BY DEF Threads
<1>c. Workers \subseteq Threads /\ Threads # {} /\ Caller \notin Workers
  BY ThreadAssumption DEF Threads
<1>d. pc \in [Threads -> PCs] /\ idleTerm \in [Threads -> BOOLEAN]
  BY DEF TypeInv
<1>1. ASSUME NEW t \in Threads, ThreadStep(t) PROVE Watched' /\ Running'
  <2>0. /\ pc[t] \notin {"off", "exit"}
        /\ \A u \in Threads : u # t => pc'[u] = pc[u] /\ idleTerm'[u] = idleTerm[u]
        /\ UNCHANGED <<caller, m_stopping>>
        /\ \/ FindNothing(t) /\ pc'[t] = "none"
           \/ Exit(t) /\ pc'[t] = "exit"
           \/ fault' = "terminate" /\ UNCHANGED <<pc, idleTerm>>
           \/ pc'[t] \notin {"off", "none", "exit"}
        /\ idleTerm'[t] => idleTerm[t] \/ m_stopping
    BY <1>1, ThreadMoves
  <2>1. CASE FindNothing(t)
    <3>1. m_tasks' = <<>> \/ \E u \in Threads : u # t /\ pc'[u] = "exec"
      <4>1. UNCHANGED m_tasks
        BY <2>1 DEF FindNothing, queueVars
      <4>2. m_tasks # <<>> => \E u \in Threads : u # t /\ pc[u] = "exec"
        BY <2>1, NothingMeansExecuted
      <4> QED
        BY <2>0, <4>1, <4>2
    <3>2. UNCHANGED idleTerm /\ pc' = [pc EXCEPT ![t] = "none"]
      BY <2>1 DEF FindNothing, Goto
    <3>3. Running'
      BY <1>a, <1>c, <1>d, <2>0, <3>2
    <3> QED
      BY <3>1, <3>3 DEF Watched, Attentive
  <2>2. CASE Exit(t)
    <3>1. ~ Attentive(t)
      BY <1>a, <1>b, <1>c, <2>0, <2>2 DEF Attentive, Exit, At, OffStage
    <3>2. UNCHANGED <<m_tasks, fault>>
      BY <2>2 DEF Exit, queueVars
    <3>3. \A u \in Threads : u # t /\ Attentive(u) => Attentive(u)'
      BY <2>0 DEF Attentive
    <3>4. Watched'
      BY <1>a, <3>1, <3>2, <3>3 DEF Watched
    <3>5. idleTerm[t]
      BY <2>2 DEF Exit
    <3> QED
      BY <1>a, <1>c, <2>0, <3>4, <3>5
  <2>3. CASE fault' = "terminate" /\ UNCHANGED <<pc, idleTerm>>
    BY <1>a, <2>0, <2>3 DEF Watched
  <2>4. CASE pc'[t] \notin {"off", "none", "exit"}
    <3>1. Attentive(t)'
      BY <2>4 DEF Attentive
    <3>2. Running'
      BY <1>a, <1>c, <2>0, <2>4
    <3> QED
      BY <3>1, <3>2 DEF Watched
  <2> QED
    BY <2>0, <2>1, <2>2, <2>3, <2>4
<1>2. ASSUME Schedule PROVE Watched' /\ Running'
  <2>1. UNCHANGED <<caller, pc, idleTerm, m_stopping, fault>> /\ caller \in {"init", "open"}
    BY <1>2 DEF Schedule, CallerAt, flagVars, threadVars, callerVars
  <2>2. \A t \in Threads : Attentive(t)'
    BY <1>a, <1>b, <2>1 DEF Attentive
  <2> QED
    BY <1>a, <1>c, <2>1, <2>2 DEF Watched
<1>3. ASSUME Start PROVE Watched' /\ Running'
  <2>1. /\ caller' = "open" /\ m_stopping' = FALSE
        /\ \A t \in Workers : pc'[t] = "scan" /\ idleTerm'[t] = FALSE
    BY <1>c, <1>3 DEF Start
  <2>2. \A t \in Threads : Attentive(t)'
    BY <1>b, <2>1 DEF Attentive
  <2> QED
    BY <1>c, <2>1, <2>2 DEF Watched
<1>4. ASSUME UNCHANGED <<m_tasks, pc, idleTerm, fault>>,
             \/ UNCHANGED <<caller, m_stopping>>
             \/ caller = "open" /\ caller' = "autostop" /\ UNCHANGED m_stopping
             \/ caller = "autostop" /\ caller' = "stopping"
             \/ caller \in {"root", "join"} /\ caller' \in {"join", "stopped"}
      PROVE  Watched' /\ Running'
  <2>1. \A t \in Threads : Attentive(t) => Attentive(t)'
    BY <1>4 DEF Attentive
  <2> QED
    BY <1>a, <1>4, <2>1 DEF Watched
<1>5. ASSUME StopRoot PROVE Watched' /\ Running'
  <2>0. caller = "stopping" /\ caller' \in {"root", "join"} /\ UNCHANGED <<m_tasks, idleTerm>>
    BY <1>5 DEF StopRoot, CallerAt, queueVars
  <2>1. Running'
    BY <2>0
  <2>2. CASE Stopping
    BY <2>0, <2>1, <2>2 DEF Stopping, Watched
  <2>3. CASE ~ UseCaller
    <3>1. UNCHANGED <<pc, fault>>
      BY <1>5, <2>3 DEF StopRoot
    <3>2. \A t \in Threads : t # Caller
      BY <1>b, <1>c, <2>3
    <3>3. \A t \in Threads : Attentive(t) => Attentive(t)'
      BY <2>0, <3>1, <3>2 DEF Attentive
    <3> QED
      BY <1>a, <2>0, <2>1, <3>1, <3>3 DEF Watched
  <2>4. CASE UseCaller /\ ~ Stopping
    <3>1. Caller \in Threads
      BY <2>4 DEF Threads
    <3>2. fault' = "terminate" \/ pc'[Caller] = "scan"
      BY <1>d, <1>5, <2>4, <3>1 DEF StopRoot, Goto
    <3>3. pc'[Caller] = "scan" => Attentive(Caller)'
      BY DEF Attentive
    <3> QED
      BY <2>1, <3>1, <3>2, <3>3 DEF Watched
  <2> QED
    BY <2>2, <2>3, <2>4
<1>6. ASSUME StopAuto \/ StopFlag \/ RootReturns \/ Join \/ UNCHANGED vars
      PROVE  Watched' /\ Running'
  <2>1. UNCHANGED <<m_tasks, pc, idleTerm, fault>>
    BY <1>6 DEF StopAuto, StopFlag, RootReturns, Join, vars, queueVars, threadVars
  <2>2. \/ UNCHANGED <<caller, m_stopping>>
        \/ caller = "open" /\ caller' = "autostop" /\ UNCHANGED m_stopping
        \/ caller = "autostop" /\ caller' = "stopping"
        \/ caller \in {"root", "join"} /\ caller' \in {"join", "stopped"}
    BY <1>6 DEF StopAuto, StopFlag, RootReturns, Join, vars, CallerAt, flagVars, callerVars
  <2> QED
    BY <1>4, <2>1, <2>2
<1>7. Watched' /\ Running'
  BY <1>1, <1>2, <1>3, <1>5, <1>6 DEF Next, StopStep, Rest
<1>8. (caller = "stopped" => fault = "none")'
  <2>1. CASE caller = "stopped"
    <3>1. \A t \in Threads : ~ ThreadStep(t)
      BY <1>a, <1>b, <2>1, ThreadMoves DEF OffStage
    <3>2. UNCHANGED fault \/ caller' # "stopped"
      BY <2>1, <3>1 DEF Next, Schedule, CallerAt, Start, StopStep, StopAuto, StopFlag, StopRoot,
         RootReturns, Join, Rest, vars
    <3> QED
      BY <2>1, <3>2 DEF StopInv
  <2>2. CASE caller # "stopped"
    <3>1. \A t \in Threads : ThreadStep(t) => UNCHANGED caller
      BY ThreadMoves
    <3> QED
      BY <2>2, <3>1 DEF Next, Schedule, CallerAt, Start, StopStep, StopAuto, StopFlag, StopRoot,
         RootReturns, Join, Rest, vars, callerVars
  <2> QED
    BY <2>1, <2>2
<1> QED
  BY <1>7, <1>8, UnboundStep, FaultlessStep DEF StopInv

\* When stop() returns, the queue is empty and every job that was scheduled has
\* ended, with and without use_caller, for any number of workers, jobs and
\* start/stop cycles, whether the jobs yield as READY or queue themselves and
\* hold.
THEOREM StopIsComplete ==
    ASSUME Unbound, Faultless PROVE Spec => []StopDrains
<1>1. Init => TypeInv /\ PlaceInv /\ StopInv
  BY InitType, InitPlace, InitStop
<1>2. TypeInv /\ PlaceInv /\ StopInv /\ [Next]_vars => (TypeInv /\ PlaceInv /\ StopInv)'
  BY TypeStep, PlaceStep, StopInvStep
<1>3. TypeInv /\ PlaceInv /\ StopInv => StopDrains
  <2> SUFFICES ASSUME TypeInv, PlaceInv, StopInv, caller = "stopped"
               PROVE  m_tasks = <<>> /\ \A j \in submitted : j \in ended \/ Mixed(j)
    BY DEF StopDrains
  <2>1. \A t \in Threads : pc[t] \in {"off", "exit"}
    BY DEF TypeInv, OffStage, Threads
  <2>2. \A t \in Threads : ~ Attentive(t) /\ task[t].job = NoJob
    BY <2>1 DEF Attentive, TypeInv, TaskInHand, HoldPCs
  <2>3. m_tasks = <<>>
    BY <2>2 DEF StopInv, Watched
  <2>4. Queued = {}
    BY <2>3 DEF Queued
  <2> QED
    BY <2>2, <2>3, <2>4, JobAssumption DEF PlaceInv, Kept, InHand, TypeInv
<1> QED
  BY <1>1, <1>2, <1>3, PTL DEF Spec
=============================================================================
