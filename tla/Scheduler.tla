----------------------------- MODULE Scheduler -----------------------------
(***************************************************************************)
(* The coroutine scheduler of kit_server: class Scheduler (scheduler.h,    *)
(* scheduler.cpp) with the part of class Coroutine it drives (the state    *)
(* word m_state, swapIn, swapOut, YieldToReady, YieldToHold, MainFunc,     *)
(* reset; coroutine.cpp).                                                  *)
(*                                                                         *)
(* Every scheduling thread executes Scheduler::run.  One action is one     *)
(* stretch of that loop that no other thread can observe half done: a      *)
(* critical section of m_mutex, an update of an atomic counter, or a       *)
(* change of a coroutine's m_state.  swapOut is a step of its own, because *)
(* until it is done the thread still executes on the coroutine's stack.    *)
(*                                                                         *)
(* Scheduler::tickle of the base class only writes a log line, so the      *)
(* is_tickle flag of run is left out here.                                 *)
(***************************************************************************)
EXTENDS Naturals, Sequences, SequencesExt, FiniteSets

CONSTANTS
    Worker,      \* the threads start() creates
    Caller,      \* the thread that built the scheduler and calls stop()
    UseCaller,   \* constructor argument use_caller
    UserCor,     \* Coroutine objects the application schedules
    CbCor,       \* Coroutine objects run() may create for function tasks
    Callback,    \* function tasks
    AppPins,     \* threads the application pins tasks to
    TaskPins,    \* threads a running task pins tasks to
    MaxSteps,    \* bound: yields and schedule() calls of one task
    MaxQueue,    \* bound: length of the task queue at a schedule() call
    None         \* a null pointer, and "any thread" (threadId -1)

Coroutine == UserCor \cup CbCor
Task      == Coroutine \cup Callback
\* The threads that execute run(): the constructor creates one thread less
\* when the calling thread takes part.
Thread    == Worker \cup (IF UseCaller THEN {Caller} ELSE {})

ASSUME ThreadAssumption ==
    /\ UseCaller \in BOOLEAN
    /\ IsFiniteSet(Worker)
    /\ Thread # {}              \* KIT_ASSERT(threads_size > 0)
    /\ Caller \notin Worker
    /\ None \notin Worker \cup {Caller}
    /\ AppPins \subseteq Thread
    /\ TaskPins \subseteq Thread

ASSUME TaskAssumption ==
    /\ UserCor \cap CbCor = {}
    /\ Callback \cap Coroutine = {}
    /\ None \notin Task

ASSUME BoundAssumption ==
    /\ MaxSteps \in Nat
    /\ MaxQueue \in Nat

VARIABLES
    m_coroutines,         \* the task queue
    m_state,              \* Coroutine::m_state of every coroutine object
    m_activeThreadCount,  \* threads that took a task and have not handed it back
    m_idleThreadCount,    \* threads inside the idle coroutine
    m_stopping,           \* TRUE before start() and from stop() on
    m_autoStop,           \* stop() was called
    pc,                   \* where each thread is in run()
    co,                   \* run()'s local: the task taken, then the coroutine it runs on
    cb_coroutine,         \* run()'s local: the spare coroutine for function tasks
    idleTerm,             \* the thread's idle coroutine is TERM
    stopPc,               \* where the calling thread is in stop()
    handles,              \* tasks somebody may still pass to schedule()
    steps                 \* yields and schedule() calls each coroutine has made

vars == <<m_coroutines, m_state, m_activeThreadCount, m_idleThreadCount,
          m_stopping, m_autoStop, pc, co, cb_coroutine, idleTerm, stopPc,
          handles, steps>>

State == {"INIT", "HOLD", "EXEC", "TERM", "READY", "EXCEPTION"}
Ended == {"TERM", "EXCEPTION"}

\* What a scheduling thread is about to do in run():
\*   "none"    not created yet          "scan"    lock and scan the queue
\*   "empty"   found nothing to take
\*   "taken"   dispatch the task        "user"    the task's code
\*   "holding" published, will suspend  "swapout" leave the coroutine's stack
\*   "back"    --m_activeThreadCount    "after"   inspect the coroutine's state
\*   "idle"    inside idle()            "exit"    run() returned
ThreadPc == {"none", "scan", "empty", "taken", "user", "holding", "swapout", "back",
             "after", "idle", "exit"}
\* The thread executes on the stack of coroutine co[t].
OnStack == {"user", "holding", "swapout"}
\* The thread has taken co[t] out of the queue and not handed it back.
InHand  == {"taken", "back", "after"} \cup OnStack

StopPc == {"app", "flag", "check", "run", "join", "done"}

Entry == [task : Task, threadId : Thread \cup {None}]

\* The tasks in the queue.
InQueue   == {m_coroutines[i].task : i \in DOMAIN m_coroutines}
Queued(x) == x \in InQueue

TypeOK ==
    /\ m_coroutines \in Seq(Entry)
    /\ m_state \in [Coroutine -> State]
    /\ m_activeThreadCount \in Int
    /\ m_idleThreadCount \in Int
    /\ m_stopping \in BOOLEAN
    /\ m_autoStop \in BOOLEAN
    /\ pc \in [Thread -> ThreadPc]
    /\ co \in [Thread -> Task \cup {None}]
    /\ cb_coroutine \in [Thread -> CbCor \cup {None}]
    /\ idleTerm \in [Thread -> BOOLEAN]
    /\ stopPc \in StopPc
    /\ handles \in SUBSET Task
    /\ steps \in [Coroutine -> Nat]

Init ==
    /\ m_coroutines = <<>>
    /\ m_state = [c \in Coroutine |-> "INIT"]
    /\ m_activeThreadCount = 0
    /\ m_idleThreadCount = 0
    /\ m_stopping = TRUE
    /\ m_autoStop = FALSE
    /\ pc = [t \in Thread |-> "none"]
    /\ co = [t \in Thread |-> None]
    /\ cb_coroutine = [t \in Thread |-> None]
    /\ idleTerm = [t \in Thread |-> FALSE]
    /\ stopPc = "app"
    /\ handles = UserCor \cup Callback
    /\ steps = [c \in Coroutine |-> 0]

-----------------------------------------------------------------------------
(* Faulty variants of the definitions below, with which the properties are  *)
(* tested: each is a mistake this code could plausibly contain.             *)

\* The scan does not look at the coroutine's state.
EligibleInAnyState(t, e) == e.threadId \in {None, t}

\* stopping() does not look at the queue.
StoppingWithTasks == m_autoStop /\ m_stopping /\ m_activeThreadCount = 0

\* run() keeps its pointer to the coroutine that was suspended or rescheduled.
KeepCallback(t) == cb_coroutine' = [cb_coroutine EXCEPT ![t] = co[t]]

\* YieldToHold announces HOLD before the context is saved (the assignment
\* that is commented out in the source).
HoldBeforeSwapOut(t) ==
    /\ pc[t] = "holding"
    /\ m_state' = [m_state EXCEPT ![co[t]] = "HOLD"]
    /\ pc' = [pc EXCEPT ![t] = "swapout"]
    /\ UNCHANGED <<m_coroutines, m_activeThreadCount, m_idleThreadCount,
                   m_stopping, m_autoStop, co, cb_coroutine, idleTerm, stopPc,
                   handles, steps>>

\* The is_work branch does not undo the scan's ++m_activeThreadCount.
DropEndedStaysActive(t) ==
    /\ pc[t] = "taken" /\ co[t] \in Coroutine /\ m_state[co[t]] \in Ended
    /\ co' = [co EXCEPT ![t] = None]
    /\ pc' = [pc EXCEPT ![t] = "scan"]
    /\ UNCHANGED <<m_coroutines, m_state, m_activeThreadCount, m_idleThreadCount,
                   m_stopping, m_autoStop, cb_coroutine, idleTerm, stopPc,
                   handles, steps>>

\* swapIn without the test for an ended coroutine.
SwapInEnded(t) ==
    /\ pc[t] = "taken" /\ co[t] \in Coroutine
    /\ m_state' = [m_state EXCEPT ![co[t]] = "EXEC"]
    /\ pc' = [pc EXCEPT ![t] = "user"]
    /\ UNCHANGED <<m_coroutines, m_activeThreadCount, m_idleThreadCount,
                   m_stopping, m_autoStop, co, cb_coroutine, idleTerm, stopPc,
                   handles, steps>>

\* run() does not put a READY coroutine back.
RescheduleForgets(t) ==
    /\ pc[t] = "after" /\ m_state[co[t]] = "READY"
    /\ co' = [co EXCEPT ![t] = None]
    /\ pc' = [pc EXCEPT ![t] = "scan"]
    /\ UNCHANGED <<m_coroutines, m_state, m_activeThreadCount, m_idleThreadCount,
                   m_stopping, m_autoStop, cb_coroutine, idleTerm, stopPc,
                   handles, steps>>

\* run() does not set HOLD after a suspension.
LeaveExec(t) ==
    /\ pc[t] = "after" /\ m_state[co[t]] \notin Ended \cup {"READY"}
    /\ cb_coroutine' = [cb_coroutine EXCEPT ![t] = IF @ = co[t] THEN None ELSE @]
    /\ co' = [co EXCEPT ![t] = None]
    /\ pc' = [pc EXCEPT ![t] = "scan"]
    /\ UNCHANGED <<m_coroutines, m_state, m_activeThreadCount, m_idleThreadCount,
                   m_stopping, m_autoStop, idleTerm, stopPc, handles, steps>>

-----------------------------------------------------------------------------
(* Adding tasks *)

\* schedule(), one task or a batch: the entries are appended in one critical
\* section.  A coroutine's handle is spent by the call.
schedule(es) ==
    /\ Len(m_coroutines) < MaxQueue
    /\ m_coroutines' = m_coroutines \o es
    /\ handles' = handles \ {es[i].task : i \in DOMAIN es}

\* The caller of schedule() holds x's pointer: it created x, or x published
\* itself before it suspended.  Nobody schedules a coroutine a second time
\* before it was resumed: schedule() does not test for it, and the events and
\* timers that resume coroutines in this code give up their pointer.
MaySchedule(x) == x \in handles

\* The application schedules one task, pinned to a thread or not.
AppSchedule(x, tid) ==
    /\ stopPc = "app"
    /\ MaySchedule(x)
    /\ schedule(<<[task |-> x, threadId |-> tid]>>)
    /\ UNCHANGED <<m_state, m_activeThreadCount, m_idleThreadCount, m_stopping,
                   m_autoStop, pc, co, cb_coroutine, idleTerm, stopPc, steps>>

\* The application schedules a batch, which is never pinned.
AppScheduleBatch(x, y) ==
    /\ stopPc = "app"
    /\ x # y /\ MaySchedule(x) /\ MaySchedule(y)
    /\ schedule(<<[task |-> x, threadId |-> None], [task |-> y, threadId |-> None]>>)
    /\ UNCHANGED <<m_state, m_activeThreadCount, m_idleThreadCount, m_stopping,
                   m_autoStop, pc, co, cb_coroutine, idleTerm, stopPc, steps>>

\* A running task schedules another one.
TaskSchedule(t, x, tid) ==
    /\ pc[t] = "user"
    /\ steps[co[t]] < MaxSteps
    /\ MaySchedule(x)
    /\ schedule(<<[task |-> x, threadId |-> tid]>>)
    /\ steps' = [steps EXCEPT ![co[t]] = @ + 1]
    /\ UNCHANGED <<m_state, m_activeThreadCount, m_idleThreadCount, m_stopping,
                   m_autoStop, pc, co, cb_coroutine, idleTerm, stopPc>>

-----------------------------------------------------------------------------
(* Scheduler::run, part one: the scan of the queue *)

\* Entries of other threads, and coroutines that are executing, are skipped.
Eligible(t, e) ==
    /\ e.threadId \in {None, t}
    /\ ~ (e.task \in Coroutine /\ m_state[e.task] = "EXEC")

\* Take the first eligible entry and count the thread as active, all under
\* the lock.
Take(t) ==
    /\ pc[t] = "scan"
    /\ \E i \in DOMAIN m_coroutines :
          /\ Eligible(t, m_coroutines[i])
          /\ \A j \in 1 .. i - 1 : ~ Eligible(t, m_coroutines[j])
          /\ m_coroutines' = RemoveAt(m_coroutines, i)
          /\ co' = [co EXCEPT ![t] = m_coroutines[i].task]
    /\ m_activeThreadCount' = m_activeThreadCount + 1
    /\ pc' = [pc EXCEPT ![t] = "taken"]
    /\ UNCHANGED <<m_state, m_idleThreadCount, m_stopping, m_autoStop,
                   cb_coroutine, idleTerm, stopPc, handles, steps>>

\* No entry is eligible; the lock is released.
ScanNothing(t) ==
    /\ pc[t] = "scan"
    /\ \A i \in DOMAIN m_coroutines : ~ Eligible(t, m_coroutines[i])
    /\ pc' = [pc EXCEPT ![t] = "empty"]
    /\ UNCHANGED <<m_coroutines, m_state, m_activeThreadCount, m_idleThreadCount,
                   m_stopping, m_autoStop, co, cb_coroutine, idleTerm, stopPc,
                   handles, steps>>

\* Nothing to do: enter the idle coroutine.
EnterIdle(t) ==
    /\ pc[t] = "empty"
    /\ ~ idleTerm[t]
    /\ m_idleThreadCount' = m_idleThreadCount + 1
    /\ pc' = [pc EXCEPT ![t] = "idle"]
    /\ UNCHANGED <<m_coroutines, m_state, m_activeThreadCount, m_stopping,
                   m_autoStop, co, cb_coroutine, idleTerm, stopPc, handles, steps>>

\* Nothing to do and the idle coroutine has ended: run() returns.
Exit(t) ==
    /\ pc[t] = "empty"
    /\ idleTerm[t]
    /\ pc' = [pc EXCEPT ![t] = "exit"]
    /\ UNCHANGED <<m_coroutines, m_state, m_activeThreadCount, m_idleThreadCount,
                   m_stopping, m_autoStop, co, cb_coroutine, idleTerm, stopPc,
                   handles, steps>>

\* Scheduler::stopping
stopping ==
    /\ m_autoStop
    /\ m_stopping
    /\ m_coroutines = <<>>
    /\ m_activeThreadCount = 0

\* Scheduler::idle up to its next yield or its end, and the code after
\* idle_coroutine->swapIn() in run().
Idle(t) ==
    /\ pc[t] = "idle"
    /\ idleTerm' = [idleTerm EXCEPT ![t] = stopping]
    /\ m_idleThreadCount' = m_idleThreadCount - 1
    /\ pc' = [pc EXCEPT ![t] = "scan"]
    /\ UNCHANGED <<m_coroutines, m_state, m_activeThreadCount, m_stopping,
                   m_autoStop, co, cb_coroutine, stopPc, handles, steps>>

-----------------------------------------------------------------------------
(* Scheduler::run, part two: dispatching the task *)

\* swapIn of a coroutine task.  swapIn asserts that the coroutine is not
\* executing; the assertion is the invariant SwapInAllowed.
SwapIn(t) ==
    /\ pc[t] = "taken"
    /\ co[t] \in Coroutine
    /\ m_state[co[t]] \notin Ended
    /\ m_state' = [m_state EXCEPT ![co[t]] = "EXEC"]
    /\ pc' = [pc EXCEPT ![t] = "user"]
    /\ UNCHANGED <<m_coroutines, m_activeThreadCount, m_idleThreadCount,
                   m_stopping, m_autoStop, co, cb_coroutine, idleTerm, stopPc,
                   handles, steps>>

\* The task is a coroutine that has already ended: hand it back.
DropEnded(t) ==
    /\ pc[t] = "taken"
    /\ co[t] \in Coroutine
    /\ m_state[co[t]] \in Ended
    /\ m_activeThreadCount' = m_activeThreadCount - 1
    /\ co' = [co EXCEPT ![t] = None]
    /\ pc' = [pc EXCEPT ![t] = "scan"]
    /\ UNCHANGED <<m_coroutines, m_state, m_idleThreadCount, m_stopping,
                   m_autoStop, cb_coroutine, idleTerm, stopPc, handles, steps>>

\* No pointer to k is left, so the object is gone and k may name a new one.
Unreferenced(k) ==
    /\ ~ Queued(k)
    /\ k \notin handles
    /\ \A t \in Thread : co[t] # k /\ cb_coroutine[t] # k

\* The task is a function: it is put on the thread's spare coroutine
\* (Coroutine::reset) or on a new one, which is then swapped in.
RunCallback(t) ==
    /\ pc[t] = "taken"
    /\ co[t] \in Callback
    /\ \E k \in CbCor :
          /\ IF cb_coroutine[t] # None THEN k = cb_coroutine[t] ELSE Unreferenced(k)
          /\ cb_coroutine' = [cb_coroutine EXCEPT ![t] = k]
          /\ co' = [co EXCEPT ![t] = k]
          /\ m_state' = [m_state EXCEPT ![k] = "EXEC"]
          /\ steps' = [steps EXCEPT ![k] = 0]
    /\ pc' = [pc EXCEPT ![t] = "user"]
    /\ UNCHANGED <<m_coroutines, m_activeThreadCount, m_idleThreadCount,
                   m_stopping, m_autoStop, idleTerm, stopPc, handles>>

-----------------------------------------------------------------------------
(* The task's code, as far as the scheduler can see it *)

\* Coroutine::YieldToReady up to swapOut: READY is visible at once.
YieldToReady(t) ==
    /\ pc[t] = "user"
    /\ steps[co[t]] < MaxSteps
    /\ steps' = [steps EXCEPT ![co[t]] = @ + 1]
    /\ m_state' = [m_state EXCEPT ![co[t]] = "READY"]
    /\ pc' = [pc EXCEPT ![t] = "swapout"]
    /\ UNCHANGED <<m_coroutines, m_activeThreadCount, m_idleThreadCount,
                   m_stopping, m_autoStop, co, cb_coroutine, idleTerm, stopPc,
                   handles>>

\* Before it suspends, a coroutine gives its pointer (Coroutine::GetThis) to
\* whoever is to resume it: an event, a timer, another task.  From here on it
\* may be scheduled although it still executes.
Publish(t) ==
    /\ pc[t] = "user"
    /\ steps[co[t]] < MaxSteps
    /\ steps' = [steps EXCEPT ![co[t]] = @ + 1]
    /\ handles' = handles \cup {co[t]}
    /\ pc' = [pc EXCEPT ![t] = "holding"]
    /\ UNCHANGED <<m_coroutines, m_state, m_activeThreadCount, m_idleThreadCount,
                   m_stopping, m_autoStop, co, cb_coroutine, idleTerm, stopPc>>

\* Coroutine::YieldToHold up to swapOut: m_state stays EXEC.
YieldToHold(t) ==
    /\ pc[t] = "holding"
    /\ pc' = [pc EXCEPT ![t] = "swapout"]
    /\ UNCHANGED <<m_coroutines, m_state, m_activeThreadCount, m_idleThreadCount,
                   m_stopping, m_autoStop, co, cb_coroutine, idleTerm, stopPc,
                   handles, steps>>

\* Coroutine::MainFunc: the task's function returns or throws.
MainFunc(t) ==
    /\ pc[t] = "user"
    /\ \E s \in Ended : m_state' = [m_state EXCEPT ![co[t]] = s]
    /\ pc' = [pc EXCEPT ![t] = "swapout"]
    /\ UNCHANGED <<m_coroutines, m_activeThreadCount, m_idleThreadCount,
                   m_stopping, m_autoStop, co, cb_coroutine, idleTerm, stopPc,
                   handles, steps>>

\* Coroutine::swapOut: the coroutine's context is saved and the thread is
\* back in run().
SwapOut(t) ==
    /\ pc[t] = "swapout"
    /\ pc' = [pc EXCEPT ![t] = "back"]
    /\ UNCHANGED <<m_coroutines, m_state, m_activeThreadCount, m_idleThreadCount,
                   m_stopping, m_autoStop, co, cb_coroutine, idleTerm, stopPc,
                   handles, steps>>

-----------------------------------------------------------------------------
(* Scheduler::run, part three: after the task came back *)

Deactivate(t) ==
    /\ pc[t] = "back"
    /\ m_activeThreadCount' = m_activeThreadCount - 1
    /\ pc' = [pc EXCEPT ![t] = "after"]
    /\ UNCHANGED <<m_coroutines, m_state, m_idleThreadCount, m_stopping,
                   m_autoStop, co, cb_coroutine, idleTerm, stopPc, handles, steps>>

\* The branch for function tasks gives up its pointer to a coroutine that
\* will be resumed.
ForgetCallback(t) ==
    cb_coroutine' = [cb_coroutine EXCEPT ![t] = IF @ = co[t] THEN None ELSE @]

\* READY: back into the queue, for any thread.
Reschedule(t) ==
    /\ pc[t] = "after"
    /\ m_state[co[t]] = "READY"
    /\ m_coroutines' = Append(m_coroutines, [task |-> co[t], threadId |-> None])
    /\ ForgetCallback(t)
    /\ co' = [co EXCEPT ![t] = None]
    /\ pc' = [pc EXCEPT ![t] = "scan"]
    /\ UNCHANGED <<m_state, m_activeThreadCount, m_idleThreadCount, m_stopping,
                   m_autoStop, idleTerm, stopPc, handles, steps>>

\* TERM or EXCEPTION: a coroutine task is left alone (its owner may schedule
\* it again); the function task's coroutine is reset and kept as the spare.
Retire(t) ==
    /\ pc[t] = "after"
    /\ m_state[co[t]] \in Ended
    /\ IF cb_coroutine[t] = co[t]
         THEN /\ m_state' = [m_state EXCEPT ![co[t]] = "INIT"]
              /\ UNCHANGED handles
         ELSE /\ handles' = handles \cup ({co[t]} \cap UserCor)
              /\ UNCHANGED m_state
    /\ co' = [co EXCEPT ![t] = None]
    /\ pc' = [pc EXCEPT ![t] = "scan"]
    /\ UNCHANGED <<m_coroutines, m_activeThreadCount, m_idleThreadCount,
                   m_stopping, m_autoStop, cb_coroutine, idleTerm, stopPc, steps>>

\* Any other state: the coroutine suspended itself, and may be resumed now.
SetHold(t) ==
    /\ pc[t] = "after"
    /\ m_state[co[t]] \notin Ended \cup {"READY"}
    /\ m_state' = [m_state EXCEPT ![co[t]] = "HOLD"]
    /\ ForgetCallback(t)
    /\ co' = [co EXCEPT ![t] = None]
    /\ pc' = [pc EXCEPT ![t] = "scan"]
    /\ UNCHANGED <<m_coroutines, m_activeThreadCount, m_idleThreadCount,
                   m_stopping, m_autoStop, idleTerm, stopPc, handles, steps>>

-----------------------------------------------------------------------------
(* Starting and stopping *)

\* start(): the workers begin to run().
Start ==
    /\ stopPc = "app"
    /\ m_stopping
    /\ m_stopping' = FALSE
    /\ pc' = [t \in Thread |-> IF t \in Worker THEN "scan" ELSE pc[t]]
    /\ UNCHANGED <<m_coroutines, m_state, m_activeThreadCount, m_idleThreadCount,
                   m_autoStop, co, cb_coroutine, idleTerm, stopPc, handles, steps>>

StopUnchanged == UNCHANGED <<m_coroutines, m_state, m_activeThreadCount,
                             m_idleThreadCount, co, cb_coroutine, idleTerm,
                             handles, steps>>

\* stop() is called on a started scheduler.  If the calling thread is the only
\* one, m_stopping is set and stop() returns at once when nothing is left; no
\* other thread is there to see the steps in between.
StopBegin ==
    /\ stopPc = "app"
    /\ ~ m_stopping
    /\ m_autoStop' = TRUE
    /\ StopUnchanged
    /\ IF UseCaller /\ Worker = {}
         THEN /\ m_stopping' = TRUE
              /\ stopPc' = IF stopping' THEN "done" ELSE "flag"
         ELSE /\ stopPc' = "flag"
              /\ UNCHANGED m_stopping
    /\ UNCHANGED pc

StopFlag ==
    /\ stopPc = "flag"
    /\ m_stopping' = TRUE
    /\ stopPc' = IF UseCaller THEN "check" ELSE "join"
    /\ UNCHANGED <<m_autoStop, pc>>
    /\ StopUnchanged

\* if(!stopping()) m_mainCoroutine->call(): the calling thread enters run().
StopCheck ==
    /\ stopPc = "check"
    /\ IF stopping
         THEN /\ stopPc' = "join"
              /\ UNCHANGED pc
         ELSE /\ stopPc' = "run"
              /\ pc' = [pc EXCEPT ![Caller] = "scan"]
    /\ UNCHANGED <<m_stopping, m_autoStop>>
    /\ StopUnchanged

\* run() returned on the calling thread.
StopRan ==
    /\ stopPc = "run"
    /\ pc[Caller] = "exit"
    /\ stopPc' = "join"
    /\ UNCHANGED <<m_stopping, m_autoStop, pc>>
    /\ StopUnchanged

\* Thread::join on every worker, then stop() returns.
StopJoin ==
    /\ stopPc = "join"
    /\ \A t \in Worker : pc[t] = "exit"
    /\ stopPc' = "done"
    /\ UNCHANGED <<m_stopping, m_autoStop, pc>>
    /\ StopUnchanged

-----------------------------------------------------------------------------

App ==
    \/ \E x \in Task : \E tid \in AppPins \cup {None} : AppSchedule(x, tid)
    \/ \E x, y \in Task : AppScheduleBatch(x, y)
    \/ Start
    \/ StopBegin

StopStep == StopFlag \/ StopCheck \/ StopRan \/ StopJoin

\* What the task's code does on thread t.
UserCode(t) ==
    \/ \E x \in Task : \E tid \in TaskPins \cup {None} : TaskSchedule(t, x, tid)
    \/ YieldToReady(t) \/ Publish(t) \/ YieldToHold(t) \/ MainFunc(t)

\* Scheduler::run on thread t, the idle coroutine aside.
run(t) ==
    \/ Take(t) \/ ScanNothing(t) \/ EnterIdle(t) \/ Exit(t)
    \/ SwapIn(t) \/ DropEnded(t) \/ RunCallback(t)
    \/ SwapOut(t) \/ Deactivate(t)
    \/ Reschedule(t) \/ Retire(t) \/ SetHold(t)

\* stop() returned: nothing runs any more.
Stopped == stopPc = "done" /\ UNCHANGED vars

Next ==
    \/ App
    \/ StopStep
    \/ \E t \in Thread : run(t) \/ Idle(t) \/ UserCode(t)
    \/ Stopped

\* The operating system keeps running every thread, tasks return control
\* after finitely many steps, and stop() is not abandoned.  Nothing makes the
\* application call start(), stop() or schedule().
Fairness ==
    /\ WF_vars(StopStep)
    /\ \A t \in Thread : WF_vars(run(t) \/ Idle(t) \/ UserCode(t))

Spec == Init /\ [][Next]_vars /\ Fairness

-----------------------------------------------------------------------------
(* Properties *)

\* Two threads never execute on one coroutine's stack: swapOut has saved the
\* context before any other thread can swapIn the coroutine, although it may
\* be scheduled while it is still executing (the skip of EXEC coroutines in
\* run() and the state YieldToHold leaves in place make this true).
OneStack ==
    \A t, u \in Thread :
        t # u /\ pc[t] \in OnStack /\ pc[u] \in OnStack => co[t] # co[u]

\* KIT_ASSERT(m_state != State::EXEC) of Coroutine::swapIn never fails, even
\* though run() tests the state under the lock and swaps in after it.
SwapInAllowed ==
    \A t \in Thread :
        pc[t] = "taken" /\ co[t] \in Coroutine => m_state[co[t]] # "EXEC"

\* When run() puts a function on its spare coroutine, the assertion of
\* Coroutine::reset holds and nobody else can still resume the coroutine: the
\* stack of a suspended task is never overwritten.
ResetAllowed ==
    \A t \in Thread :
        LET k == cb_coroutine[t] IN
        pc[t] = "taken" /\ co[t] \in Callback /\ k # None =>
            /\ m_state[k] \in {"INIT"} \cup Ended
            /\ k \notin handles
            /\ ~ Queued(k)
            /\ \A u \in Thread \ {t} : co[u] # k /\ cb_coroutine[u] # k

\* m_activeThreadCount is the number of threads between the removal of a task
\* from the queue and its hand-back, m_idleThreadCount the number inside the
\* idle coroutine: stopping() and tickle() decide by these counts.
CountsExact ==
    /\ m_activeThreadCount =
          Cardinality({t \in Thread : pc[t] \in {"taken", "back"} \cup OnStack})
    /\ m_idleThreadCount = Cardinality({t \in Thread : pc[t] = "idle"})

\* A READY coroutine is never lost and never doubled: it is in the queue, or
\* exactly one thread is about to put it there or has just taken it.
ReadyHeldOnce ==
    \A c \in Coroutine : m_state[c] = "READY" =>
        IF Queued(c)
          THEN \A t \in Thread : co[t] # c
          ELSE Cardinality({t \in Thread : co[t] = c}) = 1

\* When stop() returns no task that some thread could still take is left behind
\* and no coroutine is runnable or running, although stopping() may have been
\* true for a moment while a thread had counted itself inactive and not yet put
\* its READY coroutine back.  What may be left are tasks that a running task
\* pinned to a thread (threadId of schedule) that had seen that moment and gone.
NothingStranded ==
    stopPc = "done" =>
        /\ \A e \in Range(m_coroutines) : e.threadId \in TaskPins
        /\ \A c \in Coroutine : m_state[c] \notin {"READY", "EXEC"}

\* A coroutine the application owns that has ended never runs again, even if
\* it is scheduled once more.
EndedStays ==
    [][\A c \in UserCor : m_state[c] \in Ended => m_state'[c] = m_state[c]]_vars

\* Every task in the queue of a started scheduler that some worker may take is
\* taken in the end, also while stop() is under way.
Dispatched ==
    \A x \in Task :
        (/\ ~ m_stopping
         /\ \E i \in DOMAIN m_coroutines :
               /\ m_coroutines[i].task = x
               /\ \E w \in Worker : m_coroutines[i].threadId \in {None, w})
        ~> ~ Queued(x)

\* stop() returns once the tasks let it.
StopReturns == (stopPc # "app") ~> (stopPc = "done")

\* A task scheduled for one worker (the threadId argument of schedule) is
\* taken by it in the end; the worker does not leave run() before.
PinnedTaskRuns ==
    \A x \in Task, t \in Worker :
        (/\ pc[t] # "none"
         /\ \E i \in DOMAIN m_coroutines :
               m_coroutines[i] = [task |-> x, threadId |-> t])
        ~> ~ Queued(x)

-----------------------------------------------------------------------------
(* The inductive invariant behind OneStack, SwapInAllowed and ResetAllowed.  *)

\* A thread holds a task exactly between Take and the hand-back, and the task
\* is a coroutine once it has been dispatched.
CoShape ==
    \A t \in Thread :
        /\ co[t] = None <=> pc[t] \notin InHand
        /\ pc[t] \in InHand \ {"taken"} => co[t] \in Coroutine

\* No worker runs before start(), and the calling thread runs only once stop()
\* has made it enter run().
PhaseOK ==
    /\ stopPc = "app" /\ m_stopping => \A t \in Worker : pc[t] = "none"
    /\ UseCaller /\ stopPc \in {"app", "flag", "check"}
          => pc[Caller] = "none"

\* What the types of the later steps rest on.
ShapeInv == TypeOK /\ CoShape /\ PhaseOK

\* A coroutine is in the hands of at most one thread.
UniqueHolder ==
    \A t, u \in Thread : t # u /\ co[t] \in Coroutine => co[t] # co[u]

\* A coroutine is in the queue at most once.
QueueUnique ==
    \A i, j \in DOMAIN m_coroutines :
        i # j /\ m_coroutines[i].task \in Coroutine
            => m_coroutines[i].task # m_coroutines[j].task

\* The coroutine a thread is dispatching is not executing; the one whose code
\* a thread executes is.
StateAtPc ==
    \A t \in Thread :
        /\ pc[t] \in {"user", "holding"} => m_state[co[t]] = "EXEC"
        /\ pc[t] = "taken" /\ co[t] \in Coroutine => m_state[co[t]] # "EXEC"

\* While a thread holds a coroutine, somebody else can schedule it, or has
\* scheduled it, only if it is suspending itself, and until run() has set
\* HOLD its state says EXEC.
OverlapIsExec ==
    \A t \in Thread :
        co[t] \in Coroutine /\ (Queued(co[t]) \/ co[t] \in handles)
            => /\ m_state[co[t]] = "EXEC"
               /\ pc[t] \in {"holding", "swapout", "back", "after"}

\* The one permission to schedule a coroutine is spent when it is queued.
HandleSpent == \A c \in Coroutine : c \in handles => ~ Queued(c)

\* A spare coroutine belongs to its thread alone.
SparePrivate ==
    \A t \in Thread :
        cb_coroutine[t] # None =>
            /\ \A u \in Thread \ {t} : cb_coroutine[u] # cb_coroutine[t]
            /\ pc[t] = "taken" => co[t] # cb_coroutine[t]
            /\ co[t] # cb_coroutine[t] =>
                  /\ m_state[cb_coroutine[t]] = "INIT"
                  /\ cb_coroutine[t] \notin handles
                  /\ ~ Queued(cb_coroutine[t])
                  /\ \A u \in Thread : co[u] # cb_coroutine[t]

OwnerInv ==
    /\ UniqueHolder
    /\ QueueUnique
    /\ StateAtPc
    /\ OverlapIsExec
    /\ HandleSpent
    /\ SparePrivate

IInv == ShapeInv /\ OwnerInv

-----------------------------------------------------------------------------
(* The inductive invariant behind CountsExact, ReadyHeldOnce and             *)
(* NothingStranded: what is left to do, and who will still do it.            *)

\* A coroutine that is executing, or was suspended and not yet marked HOLD, is
\* in the hands of a thread; a READY one may also be in the queue.
RunnableHeld ==
    \A c \in Coroutine :
        /\ m_state[c] = "EXEC" => \E t \in Thread : co[t] = c
        /\ m_state[c] = "READY" => Queued(c) \/ \E t \in Thread : co[t] = c

\* run() puts a READY coroutine back for any thread.
ReadyUnpinned ==
    \A e \in Range(m_coroutines) :
        e.task \in Coroutine /\ m_state[e.task] = "READY" => e.threadId = None

\* A worker runs from start() on; a thread leaves run() only after its idle
\* coroutine saw stopping(), for which stop() must have been called.
LeavesLate ==
    /\ stopPc = "app" => ~ m_autoStop
    /\ ~ m_stopping \/ stopPc # "app" => \A t \in Worker : pc[t] # "none"
    /\ \A t \in Thread : /\ idleTerm[t] => m_autoStop
                         /\ pc[t] = "exit" => idleTerm[t]

\* Once some thread is to leave, the queue holds only what tasks added since
\* stopping() was true.
PinsLate ==
    (\E t \in Thread : idleTerm[t]) =>
        \A e \in Range(m_coroutines) : e.threadId \in TaskPins \cup {None}

\* The thread will scan the queue once more before it leaves run().
ScansAgain(t) ==
    /\ pc[t] \notin {"none", "exit"}
    /\ ~ (pc[t] = "empty" /\ idleTerm[t])

\* As long as the queue holds a task that no task has pinned, some thread scans
\* the queue again, or stop() has yet to test for it.
StillServed ==
    (\E e \in Range(m_coroutines) : e.threadId \notin TaskPins) =>
        \/ stopPc = "app"
        \/ UseCaller /\ stopPc \in {"flag", "check"}
        \/ \E t \in Thread : ScansAgain(t)

\* stop() joins the workers; the calling thread is back from run() before.
JoinedAll ==
    /\ UseCaller /\ stopPc \in {"join", "done"} => pc[Caller] \in {"none", "exit"}
    /\ stopPc = "done" => \A t \in Worker : pc[t] = "exit"

ServedInv ==
    /\ RunnableHeld
    /\ ReadyUnpinned
    /\ LeavesLate
    /\ PinsLate
    /\ StillServed
    /\ JoinedAll

StopInv == CountsExact /\ ServedInv

-----------------------------------------------------------------------------
(* The scheduler implements TaskPool for the application's coroutines.       *)

\* A run is owed to what is queued, has been taken and not yet swapped in, or
\* has yielded READY and left its stack, on its way back into the queue.
PoolOwed == {c \in UserCor :
    \/ Queued(c)
    \/ \E t \in Thread :
          /\ co[t] = c
          /\ pc[t] = "taken" \/ (pc[t] \in {"back", "after"} /\ m_state[c] = "READY")}

PoolRunning == {c \in UserCor : \E t \in Thread : co[t] = c /\ pc[t] \in OnStack}

\* An ended coroutine stays on its stack until swapOut.
PoolEnded == {c \in UserCor : m_state[c] \in Ended} \ PoolRunning

Pool == INSTANCE TaskPool
            WITH Member <- UserCor, owed <- PoolOwed, running <- PoolRunning, ended <- PoolEnded

\* Every behaviour of the threads, the queue and stop() is one of TaskPool: each
\* submission of a coroutine is one run of it, no run begins before the last one
\* has left the stack, and a schedule() call that comes while the coroutine is
\* still suspending itself is neither lost nor served at once
\* (Scheduler::run, scheduler.cpp:201-381; Coroutine::YieldToHold, swapOut).
ImplementsTaskPool == Pool!PoolSpec

=============================================================================
