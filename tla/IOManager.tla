----------------------------- MODULE IOManager -----------------------------
(***************************************************************************)
(* The IO scheduler of kit_server: class IOManager (iomanager.h,           *)
(* iomanager.cpp), which is a Scheduler whose idle threads wait in         *)
(* epoll_wait.  Tasks register interest in a file descriptor (addEvent)    *)
(* and suspend; an idle thread that learns of the event puts them back     *)
(* into the queue (triggerEvent).                                          *)
(*                                                                         *)
(* The module composes Scheduler (its actions are used as they are, with   *)
(* tickle, stopping and idle overridden) with the epoll instance and the   *)
(* tickle pipe, which are external, and with TimerManager, of which only   *)
(* the set of pending callbacks is kept: when a timer expires is left      *)
(* open here, module TimerManager has the details.  A timer has a          *)
(* function, as in the code; coroutines wait for descriptors here, and     *)
(* tasks put others into the queue through events and timers only (module  *)
(* Scheduler has tasks that call schedule()).                              *)
(***************************************************************************)
EXTENDS Scheduler, Integers

CONSTANTS
    Fd,          \* file descriptors, all within m_fdContexts
    Wanted,      \* the events tasks register
    Signals,     \* what may become ready on a file descriptor
    TimerCb,     \* callbacks that are given to timers
    MaxArrive    \* bound: how often something becomes ready

Event == {"READ", "WRITE"}

ASSUME IOAssumption ==
    /\ Worker # {}
    /\ IsFiniteSet(Fd) /\ None \notin Fd
    /\ Wanted \subseteq Event
    /\ Signals \subseteq Event \cup {"HUP"}
    /\ TimerCb \subseteq Callback
    /\ MaxArrive \in Nat

VARIABLES
    events,               \* FdContext::events
    ctx,                  \* FdContext::read_event and write_event: the task
    m_pendingEventCount,
    timers,               \* callbacks of the timers that are in the TimerManager
    level,                \* external: what is ready on each file descriptor
    edge,                 \* external: epoll's list of descriptors to report
    pipe,                 \* external: the pipe's read end is on that list
    arrived,              \* how often something became ready
    owes,                 \* tickle() calls each thread still has to make
    ipc,                  \* where each thread is in idle(), or stop()'s stopping()
    cbs,                  \* idle()'s local: callbacks of expired timers
    got,                  \* idle()'s local: what epoll_wait reported
    cur,                  \* idle()'s local: the descriptor being processed
    real_events           \* idle()'s local: its events still to be triggered

ioVars   == <<events, ctx, m_pendingEventCount, timers>>
kernVars == <<level, edge, arrived>>
idleVars == <<ipc, cbs, got, cur, real_events>>
allVars  == <<vars, ioVars, kernVars, idleVars, pipe, owes>>

Actor == Worker \cup {Caller}

\* Where a thread is in IOManager::idle: the three reads of stopping(), in
\* the order of its &&; epoll_wait; listExpiredCb; schedule of the expired
\* callbacks; the loop over the reported descriptors; triggerEvent; and the
\* decrement of m_pendingEventCount after it.
IdlePc == {"pending", "timers", "base", "wait", "expired", "sched", "process",
           "trigger", "dec"}

NoEvents == [d \in Fd |-> {}]
NoTask   == [d \in Fd |-> [e \in Event |-> None]]

IOVarsOK ==
    /\ events \in [Fd -> SUBSET Event]
    /\ ctx \in [Fd -> [Event -> Task \cup {None}]]
    /\ m_pendingEventCount \in Nat
    /\ timers \subseteq TimerCb
    /\ level \in [Fd -> SUBSET Signals]
    /\ edge \subseteq Fd
    /\ pipe \in BOOLEAN
    /\ arrived \in 0 .. MaxArrive
    /\ owes \in [Actor -> Nat]
    /\ ipc \in [Actor -> IdlePc]
    /\ cbs \in [Actor -> SUBSET TimerCb]
    /\ got \in [Actor -> [Fd -> SUBSET Signals]]
    /\ cur \in [Actor -> Fd \cup {None}]
    /\ real_events \in [Actor -> SUBSET Event]

IOTypeOK == TypeOK /\ IOVarsOK

\* The constructor ends with start(): the workers are running.
IOInit ==
    /\ m_coroutines = <<>>
    /\ m_state = [c \in Coroutine |-> "INIT"]
    /\ m_activeThreadCount = 0
    /\ m_idleThreadCount = 0
    /\ m_stopping = FALSE
    /\ m_autoStop = FALSE
    /\ pc = [t \in Thread |-> IF t \in Worker THEN "scan" ELSE "none"]
    /\ co = [t \in Thread |-> None]
    /\ cb_coroutine = [t \in Thread |-> None]
    /\ idleTerm = [t \in Thread |-> FALSE]
    /\ stopPc = "app"
    /\ handles = UserCor \cup Callback
    /\ steps = [c \in Coroutine |-> 0]
    /\ events = NoEvents
    /\ ctx = NoTask
    /\ m_pendingEventCount = 0
    /\ timers = {}
    /\ level = NoEvents
    /\ edge = {}
    /\ pipe = FALSE
    /\ arrived = 0
    /\ owes = [a \in Actor |-> 0]
    /\ ipc = [a \in Actor |-> "pending"]
    /\ cbs = [a \in Actor |-> {}]
    /\ got = [a \in Actor |-> NoEvents]
    /\ cur = [a \in Actor |-> None]
    /\ real_events = [a \in Actor |-> {}]

-----------------------------------------------------------------------------
(* tickle *)

\* A schedule() by thread a ends with tickle() if the queue was empty.
OwesTickle(a) == owes' = [owes EXCEPT ![a] = IF m_coroutines = <<>> THEN 1 ELSE 0]

\* IOManager::tickle: wake a thread in epoll_wait if some thread is idle.
tickle(a) ==
    /\ owes[a] > 0
    /\ owes' = [owes EXCEPT ![a] = @ - 1]
    /\ pipe' = (pipe \/ m_idleThreadCount > 0)
    /\ UNCHANGED <<vars, ioVars, kernVars, idleVars>>

-----------------------------------------------------------------------------
(* epoll, external.  The descriptors registered with epoll and their        *)
(* interest are events: every epoll_ctl of the code keeps them equal while  *)
(* it holds the lock of the FdContext.  All registrations are EPOLLET.      *)

\* What epoll reports of d when its interest is E.
Reported(d, E) == IF E = {} THEN {} ELSE level[d] \cap (E \cup {"HUP"})

\* epoll_ctl ADD, MOD or DEL sets d's interest to E: d is put on the list if
\* something of interest is ready, and DEL takes it off.
epoll_ctl(d, E) ==
    edge' = IF E = {} THEN edge \ {d}
            ELSE IF Reported(d, E) # {} THEN edge \cup {d} ELSE edge

\* Something becomes ready, or more of it arrives.
Arrive(d, s) ==
    /\ arrived < MaxArrive
    /\ arrived' = arrived + 1
    /\ level' = [level EXCEPT ![d] = @ \cup {s}]
    /\ edge' = IF events[d] # {} /\ s \in events[d] \cup {"HUP"} THEN edge \cup {d} ELSE edge
    /\ UNCHANGED <<vars, ioVars, idleVars, pipe, owes>>

-----------------------------------------------------------------------------
(* Operations of running tasks *)

\* Thread t's task makes a call, within the bound on its steps.
Calls(t) ==
    /\ pc[t] = "user"
    /\ steps[co[t]] < MaxSteps
    /\ steps' = [steps EXCEPT ![co[t]] = @ + 1]

\* Some thread is in the loop body of idle() with d's FdContext locked.
Locked(d) == \E a \in Actor : ipc[a] \in {"trigger", "dec"} /\ cur[a] = d

\* addEvent for task x.  The caller must not add an event that is there.
addEvent(d, e, x) ==
    /\ ~ Locked(d)
    /\ e \notin events[d]
    /\ epoll_ctl(d, events[d] \cup {e})
    /\ m_pendingEventCount' = m_pendingEventCount + 1
    /\ events' = [events EXCEPT ![d] = @ \cup {e}]
    /\ ctx' = [ctx EXCEPT ![d][e] = x]
    /\ UNCHANGED <<m_coroutines, m_state, m_activeThreadCount, m_idleThreadCount,
                   m_stopping, m_autoStop, co, cb_coroutine, idleTerm, stopPc,
                   timers, level, arrived, idleVars, pipe, owes>>

\* addEvent without a callback registers the calling coroutine, which then
\* suspends itself.
AwaitEvent(t, d, e) ==
    /\ Calls(t)
    /\ addEvent(d, e, co[t])
    /\ pc' = [pc EXCEPT ![t] = "holding"]
    /\ UNCHANGED handles

AddCallback(t, d, e, f) ==
    /\ Calls(t)
    /\ f \in handles \cap Callback
    /\ addEvent(d, e, f)
    /\ handles' = handles \ {f}
    /\ UNCHANGED pc

TaskUnchanged ==
    UNCHANGED <<m_state, m_activeThreadCount, m_idleThreadCount, m_stopping,
                m_autoStop, pc, co, cb_coroutine, idleTerm, stopPc, timers,
                level, arrived, idleVars, pipe>>

\* The entries that triggerEvent appends for the events E of d, READ first.
Entries(d, E) ==
    LET one(e) == IF e \in E THEN <<[task |-> ctx[d][e], threadId |-> None]>> ELSE <<>>
    IN  one("READ") \o one("WRITE")

(* Faulty variants, with which the properties are tested *)

\* delEvent forgets to count.
DelEventKeepsCount(t, d, e) ==
    /\ Calls(t) /\ ~ Locked(d)
    /\ e \in events[d] /\ ctx[d][e] \in Callback
    /\ epoll_ctl(d, events[d] \ {e})
    /\ events' = [events EXCEPT ![d] = @ \ {e}]
    /\ ctx' = [ctx EXCEPT ![d][e] = None]
    /\ UNCHANGED <<m_coroutines, handles, owes, m_pendingEventCount>>
    /\ TaskUnchanged

\* delEvent forgets resetEventContext.
DelEventKeepsContext(t, d, e) ==
    /\ Calls(t) /\ ~ Locked(d)
    /\ e \in events[d] /\ ctx[d][e] \in Callback
    /\ epoll_ctl(d, events[d] \ {e})
    /\ m_pendingEventCount' = m_pendingEventCount - 1
    /\ events' = [events EXCEPT ![d] = @ \ {e}]
    /\ UNCHANGED <<m_coroutines, handles, owes, ctx>>
    /\ TaskUnchanged

\* cancelEvent and cancelAll forget to count.
CancelKeepsCount(t, d, E) ==
    /\ Calls(t) /\ ~ Locked(d)
    /\ E \subseteq events[d] /\ E # {}
    /\ epoll_ctl(d, events[d] \ E)
    /\ m_coroutines' = m_coroutines \o Entries(d, E)
    /\ OwesTickle(t)
    /\ events' = [events EXCEPT ![d] = @ \ E]
    /\ ctx' = [ctx EXCEPT ![d] = [e \in Event |-> IF e \in E THEN None ELSE @[e]]]
    /\ UNCHANGED <<handles, m_pendingEventCount>>
    /\ TaskUnchanged

-----------------------------------------------------------------------------
(* Operations of running tasks, continued *)

\* delEvent: the registration and its callback are dropped.  The event of a
\* suspended coroutine is not deleted, only cancelled.
delEvent(t, d, e) ==
    /\ Calls(t)
    /\ ~ Locked(d)
    /\ e \in events[d] /\ ctx[d][e] \in Callback
    /\ epoll_ctl(d, events[d] \ {e})
    /\ m_pendingEventCount' = m_pendingEventCount - 1
    /\ events' = [events EXCEPT ![d] = @ \ {e}]
    /\ ctx' = [ctx EXCEPT ![d][e] = None]
    /\ UNCHANGED <<m_coroutines, handles, owes>>
    /\ TaskUnchanged

\* cancelEvent and cancelAll: the events E of d are taken out of epoll and
\* triggered under d's lock.  The decrements are part of the step: the calling
\* thread is active, so no stopping() is true in between.
CancelEvents(t, d, E) ==
    /\ Calls(t)
    /\ ~ Locked(d)
    /\ E \subseteq events[d] /\ E # {}
    /\ epoll_ctl(d, events[d] \ E)
    /\ m_coroutines' = m_coroutines \o Entries(d, E)
    /\ OwesTickle(t)
    /\ m_pendingEventCount' = m_pendingEventCount - Cardinality(E)
    /\ events' = [events EXCEPT ![d] = @ \ E]
    /\ ctx' = [ctx EXCEPT ![d] = [e \in Event |-> IF e \in E THEN None ELSE @[e]]]
    /\ UNCHANGED handles
    /\ TaskUnchanged

cancelEvent(t, d, e) == CancelEvents(t, d, {e})
cancelAll(t, d)      == CancelEvents(t, d, events[d])

\* The task reads or writes until EAGAIN.
Drain(t, d, e) ==
    /\ Calls(t)
    /\ e \in level[d]
    /\ level' = [level EXCEPT ![d] = @ \ {e}]
    /\ UNCHANGED <<m_coroutines, m_state, m_activeThreadCount, m_idleThreadCount,
                   m_stopping, m_autoStop, pc, co, cb_coroutine, idleTerm, stopPc,
                   handles, ioVars, edge, arrived, idleVars, pipe, owes>>

\* addTimer: a timer that becomes the first one tickles.
addTimer(t, f) ==
    /\ Calls(t)
    /\ f \in handles \cap TimerCb
    /\ handles' = handles \ {f}
    /\ timers' = timers \cup {f}
    /\ \E n \in {0, 1} : owes' = [owes EXCEPT ![t] = n]
    /\ UNCHANGED <<m_coroutines, m_state, m_activeThreadCount, m_idleThreadCount,
                   m_stopping, m_autoStop, pc, co, cb_coroutine, idleTerm, stopPc,
                   events, ctx, m_pendingEventCount, kernVars, idleVars, pipe>>

-----------------------------------------------------------------------------
(* IOManager::idle *)

IdleAt(t, at) == t \in Thread /\ pc[t] = "idle" /\ ipc[t] = at
Goto(a, to)   == ipc' = [ipc EXCEPT ![a] = to]

\* Leave the idle coroutine, which has ended or not, for run().
LeaveIdle(t, ended) ==
    /\ m_idleThreadCount' = m_idleThreadCount - 1
    /\ idleTerm' = [idleTerm EXCEPT ![t] = ended]
    /\ pc' = [pc EXCEPT ![t] = "scan"]
    /\ Goto(t, "pending")
    /\ UNCHANGED <<m_coroutines, m_state, m_activeThreadCount, m_stopping,
                   m_autoStop, co, cb_coroutine, stopPc, handles, steps>>

\* IOManager::stopping(): m_pendingEventCount, then the timers, and only if
\* both are clear Scheduler::stopping().
ReadPending(a) ==
    /\ ipc[a] = "pending"
    /\ m_pendingEventCount = 0
    /\ Goto(a, "timers")
ReadTimers(a) ==
    /\ ipc[a] = "timers"
    /\ timers = {}
    /\ Goto(a, "base")
StoppingIsFalse(a) ==
    \/ ipc[a] = "pending" /\ m_pendingEventCount # 0
    \/ ipc[a] = "timers" /\ timers # {}
    \/ ipc[a] = "base" /\ ~ stopping
StoppingIsTrue(a) == ipc[a] = "base" /\ stopping

IdleUnchanged == UNCHANGED <<ioVars, kernVars, cbs, got, cur, real_events, pipe, owes>>

IdleReads(t) ==
    /\ t \in Thread /\ pc[t] = "idle"
    /\ ReadPending(t) \/ ReadTimers(t)
    /\ UNCHANGED vars /\ IdleUnchanged

IdleEnds(t) ==
    /\ t \in Thread /\ pc[t] = "idle"
    /\ StoppingIsTrue(t)
    /\ LeaveIdle(t, TRUE)
    /\ IdleUnchanged

IdleStays(t) ==
    /\ t \in Thread /\ pc[t] = "idle"
    /\ StoppingIsFalse(t)
    /\ Goto(t, "wait")
    /\ UNCHANGED vars /\ IdleUnchanged

-----------------------------------------------------------------------------
(* Faulty variants *)

\* A thread that was also woken through the pipe leaves the loop over the
\* reported descriptors there.
EpollWaitBreaks(t) ==
    /\ IdleAt(t, "wait")
    /\ got' = [got EXCEPT ![t] = [d \in Fd |->
          IF d \in edge /\ ~ pipe THEN Reported(d, events[d]) ELSE {}]]
    /\ edge' = {} /\ pipe' = FALSE
    /\ Goto(t, "expired")
    /\ UNCHANGED <<vars, ioVars, level, arrived, cbs, cur, real_events, owes>>

\* The loop does not compare what was reported with what is registered.
ProcessUnchecked(t, d) ==
    /\ IdleAt(t, "process") /\ got[t][d] # {} /\ ~ Locked(d)
    /\ LET real == got[t][d] \cap Event
       IN  /\ epoll_ctl(d, events[d] \ real)
           /\ real_events' = [real_events EXCEPT ![t] = real]
           /\ cur' = [cur EXCEPT ![t] = d]
           /\ Goto(t, "trigger")
    /\ got' = [got EXCEPT ![t][d] = {}]
    /\ UNCHANGED <<vars, ioVars, level, arrived, cbs, pipe, owes>>

-----------------------------------------------------------------------------
(* IOManager::idle, continued *)

\* epoll_wait returns everything on the list, or nothing after its timeout.
epoll_wait(t) ==
    /\ IdleAt(t, "wait")
    /\ got' = [got EXCEPT ![t] = [d \in Fd |-> IF d \in edge THEN Reported(d, events[d]) ELSE {}]]
    /\ edge' = {}
    /\ pipe' = FALSE
    /\ Goto(t, "expired")
    /\ UNCHANGED <<vars, ioVars, level, arrived, cbs, cur, real_events, owes>>

\* listExpiredCb takes the callbacks of the expired timers.
listExpiredCb(t) ==
    /\ IdleAt(t, "expired")
    /\ \E E \in SUBSET timers :
          /\ timers' = timers \ E
          /\ cbs' = [cbs EXCEPT ![t] = E]
          /\ Goto(t, IF E = {} THEN "process" ELSE "sched")
    /\ UNCHANGED <<vars, events, ctx, m_pendingEventCount, kernVars, got, cur,
                   real_events, pipe, owes>>

\* schedule(cbs.begin(), cbs.end())
scheduleExpired(t) ==
    /\ IdleAt(t, "sched")
    /\ m_coroutines' = m_coroutines \o
          [i \in 1 .. Cardinality(cbs[t]) |-> [task |-> SetToSeq(cbs[t])[i], threadId |-> None]]
    /\ OwesTickle(t)
    /\ cbs' = [cbs EXCEPT ![t] = {}]
    /\ Goto(t, "process")
    /\ UNCHANGED <<m_state, m_activeThreadCount, m_idleThreadCount, m_stopping,
                   m_autoStop, pc, co, cb_coroutine, idleTerm, stopPc, handles,
                   steps, ioVars, kernVars, got, cur, real_events, pipe>>

\* One reported descriptor: lock it, and unless nothing that was reported is
\* registered any more, change epoll to what will be left.
process(t, d) ==
    /\ IdleAt(t, "process")
    /\ got[t][d] # {} /\ ~ Locked(d)
    /\ LET real == (got[t][d] \cap Event) \cup
                   (IF "HUP" \in got[t][d] THEN events[d] ELSE {})
       IN  IF real \cap events[d] = {}
             THEN UNCHANGED <<ipc, cur, real_events, edge>>
             ELSE /\ epoll_ctl(d, events[d] \ real)
                  /\ real_events' = [real_events EXCEPT ![t] = real]
                  /\ cur' = [cur EXCEPT ![t] = d]
                  /\ Goto(t, "trigger")
    /\ got' = [got EXCEPT ![t][d] = {}]
    /\ UNCHANGED <<vars, ioVars, level, arrived, cbs, pipe, owes>>

\* READ is triggered before WRITE.
NextReal(t) == IF "READ" \in real_events[t] THEN "READ" ELSE "WRITE"

\* triggerEvent: the task goes into the queue.
triggerEvent(t) ==
    LET d == cur[t]
        e == NextReal(t)
    IN  /\ IdleAt(t, "trigger")
        /\ e \in events[d]
        /\ events' = [events EXCEPT ![d] = @ \ {e}]
        /\ ctx' = [ctx EXCEPT ![d][e] = None]
        /\ m_coroutines' = m_coroutines \o Entries(d, {e})
        /\ OwesTickle(t)
        /\ Goto(t, "dec")
        /\ UNCHANGED <<m_state, m_activeThreadCount, m_idleThreadCount, m_stopping,
                       m_autoStop, pc, co, cb_coroutine, idleTerm, stopPc, handles,
                       steps, m_pendingEventCount, timers, kernVars, cbs, got, cur,
                       real_events, pipe>>

\* --m_pendingEventCount; after the last event the descriptor is unlocked.
decPending(t) ==
    LET rest == real_events[t] \ {NextReal(t)}
    IN  /\ IdleAt(t, "dec")
        /\ m_pendingEventCount' = m_pendingEventCount - 1
        /\ real_events' = [real_events EXCEPT ![t] = rest]
        /\ cur' = [cur EXCEPT ![t] = IF rest = {} THEN None ELSE @]
        /\ Goto(t, IF rest = {} THEN "process" ELSE "trigger")
        /\ UNCHANGED <<vars, events, ctx, timers, kernVars, cbs, got, pipe, owes>>

\* All descriptors are done: back to run().
IdleYields(t) ==
    /\ IdleAt(t, "process")
    /\ got[t] = NoEvents
    /\ LeaveIdle(t, FALSE)
    /\ IdleUnchanged

-----------------------------------------------------------------------------
(* Scheduler::run and stop() with the overridden functions *)

IOUnchanged == UNCHANGED <<ioVars, kernVars, idleVars, pipe>>

\* Entries for other threads lie before the one that is taken, if any.
Skipped(t) ==
    \E i \in DOMAIN m_coroutines :
        /\ m_coroutines[i].threadId \notin {None, t}
        /\ \A j \in 1 .. i : ~ Eligible(t, m_coroutines[j])

\* The steps of run() that call tickle(): a task was taken (is_tickle compares
\* an erased iterator, which is never end()), entries of other threads were
\* skipped, or a READY coroutine was put into an empty queue.
RunTickles(t) ==
    \/ Take(t) /\ owes' = [owes EXCEPT ![t] = 1]
    \/ ScanNothing(t) /\ owes' = [owes EXCEPT ![t] = IF Skipped(t) THEN 1 ELSE 0]
    \/ Reschedule(t) /\ OwesTickle(t)

\* The others.  A new coroutine for a function is none of those that wait for
\* an event.
RunSilent(t) ==
    \/ EnterIdle(t) \/ Exit(t)
    \/ SwapIn(t) \/ DropEnded(t) \/ SwapOut(t) \/ Deactivate(t)
    \/ Retire(t) \/ SetHold(t)
    \/ RunCallback(t) /\ \A d \in Fd, e \in Event : ctx[d][e] # cb_coroutine'[t]

IORun(t) ==
    /\ RunTickles(t) \/ (RunSilent(t) /\ UNCHANGED owes)
    /\ IOUnchanged

\* stop(), before and after its calls of stopping().
StopPlain ==
    /\ StopBegin \/ StopRan \/ StopJoin
    /\ IOUnchanged /\ UNCHANGED owes

\* m_stopping = true, then one tickle() per scheduling thread.
StopTickles ==
    /\ StopFlag
    /\ owes' = [owes EXCEPT ![Caller] = Cardinality(Thread)]
    /\ IOUnchanged

\* stopping() as called by stop() on the calling thread, which runs tasks
\* until everything is served if the answer is no.
StopReads ==
    /\ stopPc = "check"
    /\ ReadPending(Caller) \/ ReadTimers(Caller)
    /\ UNCHANGED vars /\ IdleUnchanged

StopIsDone ==
    /\ stopPc = "check"
    /\ StoppingIsTrue(Caller)
    /\ stopPc' = "join"
    /\ Goto(Caller, "pending")
    /\ UNCHANGED <<m_stopping, m_autoStop, pc>>
    /\ StopUnchanged /\ IdleUnchanged

StopGoesOn ==
    /\ stopPc = "check"
    /\ StoppingIsFalse(Caller)
    /\ stopPc' = "run"
    /\ pc' = [pc EXCEPT ![Caller] = "scan"]
    /\ Goto(Caller, "pending")
    /\ UNCHANGED <<m_stopping, m_autoStop>>
    /\ StopUnchanged /\ IdleUnchanged

-----------------------------------------------------------------------------

IOTask(t) ==
    \/ /\ YieldToReady(t) \/ YieldToHold(t) \/ MainFunc(t)
       /\ IOUnchanged /\ UNCHANGED owes
    \/ \E d \in Fd, e \in Wanted :
          \/ AwaitEvent(t, d, e)
          \/ \E f \in Callback : AddCallback(t, d, e, f)
          \/ delEvent(t, d, e)
          \/ cancelEvent(t, d, e)
          \/ Drain(t, d, e)
    \/ \E d \in Fd : cancelAll(t, d)
    \/ \E f \in TimerCb : addTimer(t, f)

idle(t) ==
    \/ IdleReads(t) \/ IdleEnds(t) \/ IdleStays(t)
    \/ epoll_wait(t) \/ listExpiredCb(t) \/ scheduleExpired(t)
    \/ \E d \in Fd : process(t, d)
    \/ triggerEvent(t) \/ decPending(t) \/ IdleYields(t)

ThreadStep(t) ==
    \/ t \in Worker /\ tickle(t)
    \/ owes[t] = 0 /\ (IORun(t) \/ idle(t) \/ IOTask(t))

StopCall ==
    \/ tickle(Caller)
    \/ owes[Caller] = 0 /\ (StopTickles \/ StopReads \/ StopIsDone \/ StopGoesOn)
    \/ owes[Caller] = 0 /\ stopPc # "app" /\ StopPlain

IOApp ==
    /\ owes[Caller] = 0
    /\ \/ /\ \E x \in Task : \E tid \in AppPins \cup {None} : AppSchedule(x, tid)
          /\ OwesTickle(Caller)
          /\ IOUnchanged
       \/ stopPc = "app" /\ StopPlain

IONext ==
    \/ IOApp
    \/ StopCall
    \/ \E t \in Thread : ThreadStep(t)
    \/ \E d \in Fd, s \in Signals : Arrive(d, s)
    \/ stopPc = "done" /\ UNCHANGED allVars

IOFairness ==
    /\ WF_allVars(StopCall)
    /\ \A t \in Thread : WF_allVars(ThreadStep(t))

IOSpec == IOInit /\ [][IONext]_allVars /\ IOFairness

-----------------------------------------------------------------------------
(* Properties *)

\* m_pendingEventCount is the number of registered events, plus those whose
\* task an idle thread has put into the queue without having counted it yet:
\* stopping() may rely on it.
PendingExact ==
    m_pendingEventCount =
        Cardinality({x \in Fd \X Event : x[2] \in events[x[1]]})
        + Cardinality({a \in Actor : ipc[a] = "dec"})

\* A registered event has its task, and a task that waits for an event waits
\* for one only and is nowhere else: the assertions of addEvent and
\* triggerEvent on the EventContext hold.
ContextFilled == \A d \in Fd, e \in Event : e \in events[d] <=> ctx[d][e] # None
WaitsOnce ==
    \A d1, d2 \in Fd, e1, e2 \in Event :
        <<d1, e1>> # <<d2, e2>> /\ ctx[d1][e1] # None => ctx[d1][e1] # ctx[d2][e2]
ContextBound ==
    /\ ContextFilled
    /\ WaitsOnce
    /\ \A d \in Fd, e \in Event : ~ Queued(ctx[d][e]) /\ ctx[d][e] \notin handles

\* An event that is ready while it is registered is never forgotten, although
\* epoll reports edges only: the descriptor is on epoll's list, or some thread
\* has been told of it and has yet to look at the registration.
ReadyIsReported ==
    \A d \in Fd : \A e \in events[d] :
        e \in level[d] =>
            \/ d \in edge
            \/ \E a \in Actor : e \in got[a][d] \/ (cur[a] = d /\ e \in real_events[a])

\* KIT_ASSERT(events & event) at the start of triggerEvent holds.
TriggerAllowed ==
    \A a \in Actor : ipc[a] = "trigger" => NextReal(a) \in events[cur[a]]

\* stop() does not return before every registered event and every timer has
\* been served.
NothingPending ==
    stopPc = "done" => m_pendingEventCount = 0 /\ timers = {}

\* A task in the queue does not wait for a timeout of epoll_wait: if every
\* thread sleeps, one is about to be woken.
NoTaskSleeps ==
    (/\ \A t \in Thread : pc[t] = "idle" /\ ipc[t] = "wait"
     /\ \E i \in DOMAIN m_coroutines, t \in Thread : Eligible(t, m_coroutines[i])
     /\ \A a \in Actor : owes[a] = 0)
    => pipe \/ \E d \in edge : Reported(d, events[d]) # {}

\* An event that is ready and registered is served as long as nobody calls
\* stop(): its task is put into the queue, or the event is cancelled, deleted
\* or no longer ready.
ReadyServed ==
    \A d \in Fd, e \in Wanted :
        e \in events[d] \cap level[d]
        ~> (e \notin events[d] \cap level[d] \/ stopPc # "app")

\* stop() returns if in the end no event is registered and no timer is set.
StopWhenServed ==
    <>[](stopPc # "app" /\ events = NoEvents /\ timers = {}) => <>(stopPc = "done")
-----------------------------------------------------------------------------
(* The inductive invariants behind PendingExact, ReadyIsReported and         *)
(* TriggerAllowed.                                                           *)

\* The locals of idle(): a descriptor and its events are in hand exactly in the
\* body of the loop, and nothing is left of an earlier epoll_wait.
IdleLocals ==
    \A a \in Actor :
        /\ ipc[a] \in {"trigger", "dec"} <=> cur[a] # None
        /\ ipc[a] \in {"trigger", "dec"} <=> real_events[a] # {}
        /\ ipc[a] \in {"pending", "timers", "base", "wait"} => got[a] = NoEvents

\* Until its lock is released, the event that was triggered is not registered
\* again.
TriggeredIsOff ==
    \A a \in Actor : ipc[a] = "dec" => NextReal(a) \notin events[cur[a]]

\* The lock of an FdContext: no two threads process one descriptor.
LockExclusive ==
    \A a, b \in Actor : a # b /\ cur[a] # None => cur[a] # cur[b]

\* There are finitely many timers at any time.
TimersFinite == IsFiniteSet(timers) /\ \A a \in Actor : IsFiniteSet(cbs[a])

IdleInv ==
    /\ IOVarsOK
    /\ ContextFilled
    /\ IdleLocals
    /\ TriggeredIsOff
    /\ LockExclusive
    /\ TimersFinite

\* No other events are registered, reported or triggered than those wanted.
WantedOnly ==
    /\ \A d \in Fd : events[d] \subseteq Wanted
    /\ \A a \in Actor : /\ real_events[a] \subseteq Wanted
                        /\ \A d \in Fd : got[a][d] \subseteq Wanted \cup {"HUP"}

-----------------------------------------------------------------------------
(* The inductive invariant behind ContextBound, with IInv of Scheduler: the  *)
(* pointer that an FdContext holds is the only one by which its task can be  *)
(* put into the queue.                                                       *)

\* A task that waits for an event is in no other place from which it is scheduled.
WaitsApart ==
    \A d \in Fd, e \in Event :
        ctx[d][e] # None =>
            /\ ctx[d][e] \notin InQueue \cup handles \cup timers
            /\ \A a \in Actor : ctx[d][e] \notin cbs[a]

\* So is a function that has not been scheduled yet.
FunctionSpent ==
    \A f \in Callback :
        f \in handles => f \notin InQueue \cup timers /\ \A a \in Actor : f \notin cbs[a]

\* A coroutine that waits for an event and is still in the hands of a thread is
\* suspending itself, and its state keeps others from taking it.
WaitOverlap ==
    \A d \in Fd, e \in Event, t \in Thread :
        ctx[d][e] \in Coroutine /\ co[t] = ctx[d][e] =>
            /\ m_state[co[t]] = "EXEC"
            /\ pc[t] \in {"holding", "swapout", "back", "after"}

\* No event wakes a spare coroutine.
WaitSpare ==
    \A d \in Fd, e \in Event, t \in Thread :
        cb_coroutine[t] # None /\ cb_coroutine[t] # co[t] => ctx[d][e] # cb_coroutine[t]

WaitInv == WaitsOnce /\ WaitsApart /\ FunctionSpent /\ WaitOverlap /\ WaitSpare

=============================================================================
