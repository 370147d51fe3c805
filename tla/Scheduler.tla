------------------------------ MODULE Scheduler ------------------------------
(***************************************************************************)
(* lon::scheduler::Scheduler (scheduler/scheduler.h, scheduler.cpp): a     *)
(* pool of worker threads, and with use_caller the thread that built the   *)
(* scheduler too, which take callbacks and fibers from one queue and run   *)
(* them cooperatively until stop() has drained the queue.                  *)
(*                                                                         *)
(* A job is what a user hands to schedule(): a callback, which the thread  *)
(* that takes it wraps in a fiber, or a fiber.  Every critical section of  *)
(* m_mutex is one step, and so is every access to shared state outside it: *)
(* the atomic counters, the flags and the m_state of a fiber.  A fiber     *)
(* that yields writes its m_state first and leaves its stack only in the   *)
(* following step, as yieldToHold() and swapOut() do.                      *)
(*                                                                         *)
(* notify() of this class only writes a log line and is left out; the one  *)
(* of IOScheduler is modelled with the event loop it wakes.                *)
(***************************************************************************)
EXTENDS Fiber, Integers, Sequences, FiniteSets

CONSTANTS
    Workers,    \* the threads start() creates
    Caller,     \* the thread that constructs, starts and stops the scheduler
    UseCaller,  \* m_use_caller: the caller also runs jobs, during stop()
    Jobs,       \* everything that is ever scheduled
    FiberJobs,  \* the jobs that are scheduled as a fiber, not as a callback
    NoJob,      \* no job
    Unpinned,   \* thread_id = -1: any thread may take the task
    Targets,    \* the thread_ids jobs are scheduled with
    Ops,        \* what the code of the jobs does besides returning
    MaxYields,  \* bound: how often one job puts itself back on the queue
    MaxStarts   \* bound: how often the caller starts the scheduler

Threads == Workers \cup (IF UseCaller THEN {Caller} ELSE {})

ASSUME ThreadAssumption ==
    /\ Caller \notin Workers /\ Unpinned \notin Workers \cup {Caller}
    /\ IsFiniteSet(Workers) /\ UseCaller \in BOOLEAN
    /\ Threads # {}                     \* LON_ASSERT(m_threads_count > 0)

ASSUME JobAssumption ==
    /\ NoJob \notin Jobs /\ FiberJobs \subseteq Jobs
    /\ Targets \subseteq Threads \cup {Unpinned}
    /\ Ops \subseteq {"spawn", "reschedule", "ready", "throw"}
    /\ MaxYields \in Nat /\ MaxStarts \in Nat

VARIABLES
    m_tasks,                 \* the queue of tasks
    m_stopping, m_auto_stop, \* the two flags of stop()
    m_active_threads_count,  \* threads between taking a task and its return
    m_idle_threads_count,    \* threads inside their idle fiber
    pc,                      \* where each thread is in run()
    task,                    \* the local variable task of run()
    idleTerm,                \* the thread's idle fiber is TERM
    m_state,                 \* m_state of the fiber that runs the job
    stack,                   \* the threads executing on the job's stack
    ended,                   \* the jobs whose code has returned or thrown
    yields,                  \* how often the job has rescheduled itself
    ways,                    \* history: how the job has put itself back so far
    submitted,               \* the jobs scheduled so far
    caller,                  \* where the caller is in start() and stop()
    starts,                  \* calls of start()
    fault                    \* "terminate": std::terminate was called;
                             \* "corrupt": two threads ran on one stack

queueVars  == <<m_tasks, submitted>>
flagVars   == <<m_stopping, m_auto_stop>>
countVars  == <<m_active_threads_count, m_idle_threads_count>>
threadVars == <<pc, task, idleTerm>>
fiberVars  == <<m_state, stack, ended, yields, ways>>
callerVars == <<caller, starts>>
vars == <<queueVars, flagVars, countVars, threadVars, fiberVars, callerVars, fault>>

-----------------------------------------------------------------------------
\* struct Task.
Kinds == {"cb", "fiber"}
Tasks == [job : Jobs, kind : Kinds, thread : Threads \cup {Unpinned}]
NoTask == [job |-> NoJob, kind |-> "cb", thread |-> Unpinned]

PCs == {"off", "scan", "dispatch", "check", "enter", "exec", "leaving", "back", "settle",
        "hold", "none", "idle", "exit"}
CallerPCs == {"init", "open", "autostop", "stopping", "root", "join", "stopped"}

Init ==
    /\ m_tasks = <<>> /\ submitted = {}
    /\ m_stopping = TRUE /\ m_auto_stop = FALSE
    /\ m_active_threads_count = 0 /\ m_idle_threads_count = 0
    /\ pc = [t \in Threads |-> "off"]
    /\ task = [t \in Threads |-> NoTask]
    /\ idleTerm = [t \in Threads |-> FALSE]
    /\ m_state = [j \in Jobs |-> "INIT"]
    /\ stack = [j \in Jobs |-> {}]
    /\ ended = {}
    /\ yields = [j \in Jobs |-> 0] /\ ways = [j \in Jobs |-> {}]
    /\ caller = "init" /\ starts = 0
    /\ fault = "none"

\* mSchedule(): a task at the end of the queue.
Push(j, kind, thread) ==
    m_tasks' = Append(m_tasks, [job |-> j, kind |-> kind, thread |-> thread])

\* A user's call of schedule() for a new job.
Submit(j, thread) ==
    /\ j \notin submitted
    /\ submitted' = submitted \cup {j}
    /\ Push(j, IF j \in FiberJobs THEN "fiber" ELSE "cb", thread)

\* stopping(), evaluated under m_mutex.
Stopping ==
    /\ m_stopping /\ m_auto_stop
    /\ m_tasks = <<>>
    /\ m_active_threads_count = 0

\* m_tasks.erase(it).
Erase(s, i) == [k \in 1 .. Len(s) - 1 |-> IF k < i THEN s[k] ELSE s[k + 1]]

InQueue(j) == \E i \in DOMAIN m_tasks : m_tasks[i].job = j

Goto(t, label) == pc' = [pc EXCEPT ![t] = label]
At(t, label) == pc[t] = label /\ fault = "none"
-----------------------------------------------------------------------------
(* run(): the locked scan for a task.                                      *)

\* The scan passes over tasks of other threads and over executing fibers.
Takeable(t, i) ==
    /\ m_tasks[i].thread \in {Unpinned, t}
    /\ ~ (m_tasks[i].kind = "fiber" /\ m_state[m_tasks[i].job] = "EXEC")

\* The first task this thread may run leaves the queue, and the thread is
\* active before the lock is released.
Take(t) ==
    /\ At(t, "scan")
    /\ \E i \in DOMAIN m_tasks :
         /\ Takeable(t, i)
         /\ \A k \in 1 .. i - 1 : ~ Takeable(t, k)
         /\ task' = [task EXCEPT ![t] = m_tasks[i]]
         /\ m_tasks' = Erase(m_tasks, i)
    /\ m_active_threads_count' = m_active_threads_count + 1
    /\ Goto(t, "dispatch")
    /\ UNCHANGED <<submitted, flagVars, m_idle_threads_count, idleTerm, fiberVars,
                   callerVars, fault>>

FindNothing(t) ==
    /\ At(t, "scan")
    /\ \A i \in DOMAIN m_tasks : ~ Takeable(t, i)
    /\ Goto(t, "none")
    /\ UNCHANGED <<queueVars, flagVars, countVars, task, idleTerm, fiberVars,
                   callerVars, fault>>

\* Mutant of DropEnded: the early continue forgets the counter.
DropEndedUncounted(t) ==
    /\ At(t, "dispatch")
    /\ task[t].kind = "fiber" /\ Finished(m_state[task[t].job])
    /\ task' = [task EXCEPT ![t] = NoTask]
    /\ Goto(t, "scan")
    /\ UNCHANGED <<queueVars, flagVars, countVars, idleTerm, fiberVars, callerVars, fault>>

\* A fiber that has ended in the meantime is dropped.
DropEnded(t) ==
    /\ At(t, "dispatch")
    /\ task[t].kind = "fiber" /\ Finished(m_state[task[t].job])
    /\ m_active_threads_count' = m_active_threads_count - 1
    /\ task' = [task EXCEPT ![t] = NoTask]
    /\ Goto(t, "scan")
    /\ UNCHANGED <<queueVars, flagVars, m_idle_threads_count, idleTerm, fiberVars,
                   callerVars, fault>>

\* A callback is wrapped in cb_fiber, fresh or reset, which no other thread can
\* see yet; a fiber that has not ended goes to swapIn.
Dispatch(t) ==
    /\ At(t, "dispatch")
    /\ IF task[t].kind = "cb" THEN Goto(t, "enter")
       ELSE ~ Finished(m_state[task[t].job]) /\ Goto(t, "check")
    /\ UNCHANGED <<queueVars, flagVars, countVars, task, idleTerm, fiberVars, callerVars, fault>>

\* swapIn throws for a fiber that is EXEC.  Nothing catches it on a worker; on
\* the caller mainFunc of m_root_fiber does, but swapIn has made the root fiber
\* the one to return to, so that mainFunc resumes itself and throws once more.
SwapInRefused(t) ==
    /\ At(t, "check") /\ SwapInThrows(m_state[task[t].job])
    /\ fault' = "terminate"
    /\ UNCHANGED <<queueVars, flagVars, countVars, threadVars, fiberVars, callerVars>>

\* No lock is held between this look at m_state and the write below.
SwapInPassed(t) ==
    /\ At(t, "check") /\ ~ SwapInThrows(m_state[task[t].job])
    /\ Goto(t, "enter")
    /\ UNCHANGED <<queueVars, flagVars, countVars, task, idleTerm, fiberVars, callerVars, fault>>

\* The rest of swapIn.  If another thread has not left the fiber's stack yet,
\* both now run on it and nothing that happens afterwards is defined.  A fiber
\* that has ended continues behind its last swapOut, where mainFunc throws.
SwapIn(t) ==
    LET j == task[t].job IN
    /\ At(t, "enter")
    /\ m_state' = [m_state EXCEPT ![j] = "EXEC"]
    /\ stack' = [stack EXCEPT ![j] = @ \cup {t}]
    /\ fault' = IF stack[j] # {} THEN "corrupt"
                ELSE IF j \in ended THEN "terminate" ELSE "none"
    /\ Goto(t, "exec")
    /\ UNCHANGED <<queueVars, flagVars, countVars, task, idleTerm, ended, yields, ways,
                   callerVars>>
-----------------------------------------------------------------------------
(* What the code of a job may do while it executes.                        *)

\* schedule() of a new job.
Spawn(t) ==
    /\ At(t, "exec") /\ "spawn" \in Ops
    /\ \E j \in Jobs, thread \in Targets : Submit(j, thread)
    /\ UNCHANGED <<flagVars, countVars, threadVars, fiberVars, callerVars, fault>>

\* A job queues itself and then holds, or yields as READY and is queued.
Ways == {"reschedule", "ready"}

\* The job puts itself back on the queue once more, before or after it yields.
PutBack(j, way) ==
    /\ yields[j] < MaxYields
    /\ yields' = [yields EXCEPT ![j] = @ + 1]
    /\ ways' = [ways EXCEPT ![j] = @ \cup {way}]

\* schedule(Fiber::getThis()), before the fiber gives up the processor: what
\* a job does to be resumed later, directly or through a timer or an event.
Reschedule(t) ==
    LET j == task[t].job IN
    /\ At(t, "exec") /\ "reschedule" \in Ops
    /\ PutBack(j, "reschedule")
    /\ Push(j, "fiber", Unpinned)
    /\ UNCHANGED <<submitted, flagVars, countVars, threadVars, m_state, stack, ended,
                   callerVars, fault>>

\* The state a fiber writes before it leaves its stack.
Leave(t, state) ==
    /\ m_state' = [m_state EXCEPT ![task[t].job] = state]
    /\ Goto(t, "leaving")
    /\ UNCHANGED <<queueVars, flagVars, countVars, task, idleTerm, stack, callerVars, fault>>

\* Mutant of YieldToReady: the fiber queues itself before it leaves.
YieldToReadyQueued(t) ==
    /\ At(t, "exec") /\ "ready" \in Ops
    /\ PutBack(task[t].job, "ready")
    /\ Push(task[t].job, "fiber", Unpinned)
    /\ m_state' = [m_state EXCEPT ![task[t].job] = "READY"]
    /\ Goto(t, "leaving")
    /\ UNCHANGED <<submitted, flagVars, countVars, task, idleTerm, stack, ended,
                   callerVars, fault>>

YieldToReady(t) ==
    /\ At(t, "exec") /\ "ready" \in Ops
    /\ PutBack(task[t].job, "ready")
    /\ Leave(t, "READY")
    /\ UNCHANGED ended

\* Jobs hold only when something is to resume them.
YieldToHold(t) ==
    /\ At(t, "exec") /\ InQueue(task[t].job)
    /\ Leave(t, "HOLD")
    /\ UNCHANGED <<ended, yields, ways>>

\* mainFunc after m_cb has returned ("TERM") or has let an exception out
\* ("ERROR").  A callback that has rescheduled itself yields before it ends:
\* its fiber is about to be reused for the next callback.
End(t, state) ==
    /\ At(t, "exec")
    /\ task[t].kind = "cb" => ~ InQueue(task[t].job)
    /\ Leave(t, state)
    /\ ended' = ended \cup {task[t].job}
    /\ UNCHANGED <<yields, ways>>

Return(t) == End(t, "TERM")
Throw(t)  == "throw" \in Ops /\ End(t, "ERROR")

\* swapcontext in swapOut: the thread is back in run().
SwapOut(t) ==
    /\ At(t, "leaving")
    /\ stack' = [stack EXCEPT ![task[t].job] = @ \ {t}]
    /\ Goto(t, "back")
    /\ UNCHANGED <<queueVars, flagVars, countVars, task, idleTerm, m_state, ended,
                   yields, ways, callerVars, fault>>
-----------------------------------------------------------------------------
(* run() after swapIn has returned.                                        *)

\* Mutant of Deactivate: the counter is not decremented.
DeactivateForgotten(t) ==
    /\ At(t, "back")
    /\ Goto(t, "settle")
    /\ UNCHANGED <<queueVars, flagVars, countVars, task, idleTerm, fiberVars, callerVars, fault>>

Deactivate(t) ==
    /\ At(t, "back")
    /\ m_active_threads_count' = m_active_threads_count - 1
    /\ Goto(t, "settle")
    /\ UNCHANGED <<queueVars, flagVars, m_idle_threads_count, task, idleTerm, fiberVars,
                   callerVars, fault>>

NextTurn(t) == Goto(t, "scan") /\ task' = [task EXCEPT ![t] = NoTask]

\* Mutants of SettleReady: the fiber is not queued; run() falls through to the
\* idle fiber.
SettleReadyForgotten(t) ==
    /\ At(t, "settle") /\ m_state[task[t].job] = "READY"
    /\ NextTurn(t)
    /\ UNCHANGED <<queueVars, flagVars, countVars, idleTerm, fiberVars, callerVars, fault>>
SettleReadyThenIdle(t) ==
    /\ At(t, "settle") /\ m_state[task[t].job] = "READY"
    /\ Push(task[t].job, "fiber", Unpinned)
    /\ Goto(t, "none") /\ task' = [task EXCEPT ![t] = NoTask]
    /\ UNCHANGED <<submitted, flagVars, countVars, idleTerm, fiberVars, callerVars, fault>>

\* A fiber that wants to go on is queued again, for any thread.
SettleReady(t) ==
    LET j == task[t].job IN
    /\ At(t, "settle") /\ m_state[j] = "READY"
    /\ Push(j, "fiber", Unpinned)
    /\ NextTurn(t)
    /\ UNCHANGED <<submitted, flagVars, countVars, idleTerm, fiberVars, callerVars, fault>>

\* The exception of reset() leaves run(): nothing catches it on a worker; the caller runs
\* inside m_root_fiber, whose mainFunc catches it and returns to stop().
RunThrows(t) ==
    IF t = Caller
    THEN Goto(t, "exit") /\ task' = [task EXCEPT ![t] = NoTask] /\ UNCHANGED fault
    ELSE fault' = "terminate" /\ UNCHANGED <<pc, task>>

\* A fiber that ended is forgotten; cb_fiber is reset for the next callback,
\* which throws if the callback had failed.
SettleEnded(t) ==
    LET j == task[t].job IN
    /\ At(t, "settle") /\ Finished(m_state[j])
    /\ IF task[t].kind = "cb" /\ ResetThrows(m_state[j])
       THEN RunThrows(t)
       ELSE NextTurn(t) /\ UNCHANGED fault
    /\ UNCHANGED <<queueVars, flagVars, countVars, idleTerm, fiberVars, callerVars>>

\* Anything else is set to HOLD, in a step of its own after the state was read.
SettleOther(t) ==
    LET j == task[t].job IN
    /\ At(t, "settle") /\ m_state[j] # "READY" /\ ~ Finished(m_state[j])
    /\ Goto(t, "hold")
    /\ UNCHANGED <<queueVars, flagVars, countVars, task, idleTerm, fiberVars, callerVars, fault>>

SetHold(t) ==
    /\ At(t, "hold")
    /\ m_state' = [m_state EXCEPT ![task[t].job] = "HOLD"]
    /\ NextTurn(t)
    /\ UNCHANGED <<queueVars, flagVars, countVars, idleTerm, stack, ended, yields, ways,
                   callerVars, fault>>
-----------------------------------------------------------------------------
(* run() without a task: the idle fiber, and the end of the thread.        *)

EnterIdle(t) ==
    /\ At(t, "none") /\ ~ idleTerm[t]
    /\ m_idle_threads_count' = m_idle_threads_count + 1
    /\ Goto(t, "idle")
    /\ UNCHANGED <<queueVars, flagVars, m_active_threads_count, task, idleTerm, fiberVars,
                   callerVars, fault>>

\* Mutant of Idle: the counter is decremented inside the idle fiber and again
\* after it.
IdleTwice(t) ==
    /\ At(t, "idle")
    /\ idleTerm' = [idleTerm EXCEPT ![t] = Stopping]
    /\ m_idle_threads_count' = m_idle_threads_count - 2
    /\ Goto(t, "scan")
    /\ UNCHANGED <<queueVars, flagVars, m_active_threads_count, task, fiberVars,
                   callerVars, fault>>

\* idle() tests stopping() once per turn and either ends or yields.
Idle(t) ==
    /\ At(t, "idle")
    /\ idleTerm' = [idleTerm EXCEPT ![t] = Stopping]
    /\ m_idle_threads_count' = m_idle_threads_count - 1
    /\ Goto(t, "scan")
    /\ UNCHANGED <<queueVars, flagVars, m_active_threads_count, task, fiberVars,
                   callerVars, fault>>

Exit(t) ==
    /\ At(t, "none") /\ idleTerm[t]
    /\ Goto(t, "exit")
    /\ UNCHANGED <<queueVars, flagVars, countVars, task, idleTerm, fiberVars, callerVars, fault>>
-----------------------------------------------------------------------------
(* The caller.                                                             *)

CallerAt(label) == caller = label /\ fault = "none"

\* schedule() from outside, before or after start().
Schedule ==
    /\ CallerAt("init") \/ CallerAt("open")
    /\ \E j \in Jobs, thread \in Targets : Submit(j, thread)
    /\ UNCHANGED <<flagVars, countVars, threadVars, fiberVars, callerVars, fault>>

\* start() holds m_mutex until every worker runs.
Start ==
    /\ CallerAt("init") \/ CallerAt("stopped")
    /\ m_stopping /\ starts < MaxStarts
    /\ m_stopping' = FALSE
    /\ pc' = [t \in Threads |-> IF t \in Workers THEN "scan" ELSE pc[t]]
    /\ idleTerm' = [t \in Threads |-> IF t \in Workers THEN FALSE ELSE idleTerm[t]]
    /\ caller' = "open" /\ starts' = starts + 1
    /\ UNCHANGED <<queueVars, m_auto_stop, countVars, task, fiberVars, fault>>

StopAuto ==
    /\ CallerAt("open")
    /\ m_auto_stop' = TRUE
    /\ caller' = "autostop"
    /\ UNCHANGED <<queueVars, m_stopping, countVars, threadVars, fiberVars, starts, fault>>

StopFlag ==
    /\ CallerAt("autostop")
    /\ m_stopping' = TRUE
    /\ caller' = "stopping"
    /\ UNCHANGED <<queueVars, m_auto_stop, countVars, threadVars, fiberVars, starts, fault>>

\* With use_caller, stop() runs m_root_fiber unless nothing is left to do.  A
\* root fiber that has already ended is resumed behind its last swapOut, where
\* mainFunc throws.
StopRoot ==
    /\ CallerAt("stopping")
    /\ IF UseCaller /\ ~ Stopping
       THEN /\ caller' = "root"
            /\ IF pc[Caller] = "off"
               THEN Goto(Caller, "scan") /\ UNCHANGED fault
               ELSE fault' = "terminate" /\ UNCHANGED pc
       ELSE caller' = "join" /\ UNCHANGED <<pc, fault>>
    /\ UNCHANGED <<queueVars, flagVars, countVars, task, idleTerm, fiberVars, starts>>

RootReturns ==
    /\ CallerAt("root") /\ pc[Caller] = "exit"
    /\ caller' = "join"
    /\ UNCHANGED <<queueVars, flagVars, countVars, threadVars, fiberVars, starts, fault>>

Join ==
    /\ CallerAt("join")
    /\ \A t \in Workers : pc[t] = "exit"
    /\ caller' = "stopped"
    /\ UNCHANGED <<queueVars, flagVars, countVars, threadVars, fiberVars, starts, fault>>

\* The process may rest once the scheduler is stopped, or is gone.
Rest == (caller = "stopped" \/ fault # "none") /\ UNCHANGED vars
-----------------------------------------------------------------------------
ThreadStep(t) ==
    \/ Take(t) \/ FindNothing(t) \/ DropEnded(t) \/ Dispatch(t)
    \/ SwapInRefused(t) \/ SwapInPassed(t) \/ SwapIn(t)
    \/ Spawn(t) \/ Reschedule(t) \/ YieldToReady(t) \/ YieldToHold(t)
    \/ Return(t) \/ Throw(t) \/ SwapOut(t)
    \/ Deactivate(t) \/ SettleReady(t) \/ SettleEnded(t) \/ SettleOther(t) \/ SetHold(t)
    \/ EnterIdle(t) \/ Idle(t) \/ Exit(t)

StopStep == StopAuto \/ StopFlag \/ StopRoot \/ RootReturns \/ Join

Next == (\E t \in Threads : ThreadStep(t)) \/ Schedule \/ Start \/ StopStep \/ Rest

Spec == Init /\ [][Next]_vars

\* Every thread that can run does, and a stop() that was begun goes on.  The
\* caller need never call stop().
Fairness ==
    /\ \A t \in Threads : WF_vars(ThreadStep(t))
    /\ WF_vars(StopFlag \/ StopRoot \/ RootReturns \/ Join)

FairSpec == Spec /\ Fairness
-----------------------------------------------------------------------------
(* Properties.                                                             *)

TypeOK ==
    /\ m_tasks \in Seq(Tasks) /\ submitted \subseteq Jobs
    /\ m_stopping \in BOOLEAN /\ m_auto_stop \in BOOLEAN
    /\ m_active_threads_count \in Nat /\ m_idle_threads_count \in Nat
    /\ pc \in [Threads -> PCs]
    /\ task \in [Threads -> Tasks \cup {NoTask}]
    /\ idleTerm \in [Threads -> BOOLEAN]
    /\ m_state \in [Jobs -> FiberStates]
    /\ stack \in [Jobs -> SUBSET Threads]
    /\ ended \subseteq Jobs
    /\ yields \in [Jobs -> 0 .. MaxYields]
    /\ ways \in [Jobs -> SUBSET Ways]
    /\ caller \in CallerPCs /\ starts \in 0 .. MaxStarts
    /\ fault \in {"none", "terminate", "corrupt"}

\* No two threads ever run on the stack of one fiber.  The scan skips fibers
\* that are EXEC and swapIn throws for them, but a fiber is no longer EXEC from
\* the moment it decides to yield, while its thread is still on its stack.
SingleExecution ==
    \A j \in Jobs : \A t, u \in stack[j] : t = u

\* The only way to two threads on one stack is a job that has queued itself
\* before it held: for any other job, also while jobs next to it do so, the
\* looks at m_state that run() and swapIn take without a lock are enough.
SharedOnlyIfRescheduled ==
    \A j \in Jobs : "reschedule" \notin ways[j] => \A t, u \in stack[j] : t = u

\* m_active_threads_count, which stopping() trusts, is the number of threads
\* that have taken a task and not come back from it; it is updated by four
\* different paths through run(), and under the lock in only one of them.
Busy == {t \in Threads :
            pc[t] \in {"dispatch", "check", "enter", "exec", "leaving", "back"}}
ActiveCountExact == m_active_threads_count = Cardinality(Busy)

\* A job that was handed to schedule() and has not ended is in the queue or in
\* the hands of a thread that has yet to run or to queue it: no path through
\* run(), and no race between a yielding fiber and the scans of other threads,
\* loses it.  That includes the HOLD that run() writes over the state of a fiber
\* which another thread has resumed.  A job that uses both ways of yielding is
\* left out: that HOLD can hit the READY by which it asked to be queued.
Mixed(j) == ways[j] = Ways
InHand(t, j) ==
    /\ task[t].job = j
    /\ "reschedule" \in ways[j] => pc[t] \in {"dispatch", "check", "enter", "exec"}
NoJobLost ==
    \A j \in submitted : ~ Mixed(j) =>
        j \in ended \/ InQueue(j) \/ \E t \in Threads : InHand(t, j)

\* When stop() returns, every job that was scheduled has ended: the comment in
\* start() promises that no task of the queue is missed.  Threads decide to end
\* on a stopping() that may be outdated when they leave.
StopDrains ==
    caller = "stopped" =>
        /\ m_tasks = <<>>
        /\ \A j \in submitted : j \in ended \/ Mixed(j)

\* stop() returns, whatever the jobs still do while it waits, unless the process
\* ends first or a task is left for a thread that takes no more: threads leave,
\* and the caller may not even begin, on a stopping() that does not see a fiber
\* on its way back to the queue, and the caller leaves on the exception of a
\* callback.
Gone(t) == pc[t] = "exit" \/ (t = Caller /\ pc[t] = "off" /\ caller = "join")
Stranded == \E i \in DOMAIN m_tasks :
                m_tasks[i].thread # Unpinned /\ Gone(m_tasks[i].thread)
StopReturns ==
    (caller = "autostop") ~> (caller = "stopped" \/ Stranded \/ fault # "none")

\* Every job that was scheduled while the workers run is run to its end, unless
\* the process ends first.
JobsFinish ==
    \A j \in Jobs :
        (j \in submitted /\ caller = "open") ~> (j \in ended \/ Mixed(j) \/ fault # "none")
=============================================================================
