--------------------------- MODULE TimerManager ---------------------------
(***************************************************************************)
(* Timers of kit_server: class Timer and class TimerManager (timer.h,      *)
(* timer.cpp), with the loop of IOManager::idle that serves them           *)
(* (getNextTime, epoll_wait, listExpiredCb, schedule).                     *)
(*                                                                         *)
(* m_timers is the std::set ordered by expiry time.  An element is written *)
(* <<timer, key>>, where key is the expiry time under which the element    *)
(* was inserted: std::set finds an element by comparing keys, so an        *)
(* element whose timer was changed in place would be lost.                 *)
(*                                                                         *)
(* Time is GetCurrentMs(), the wall clock, which may also be set back.     *)
(***************************************************************************)
EXTENDS Integers, FiniteSets

CONSTANTS
    Timer,       \* timer objects
    Recurring,   \* those created with recurring = true
    User,        \* threads that create, cancel, refresh and reset timers
    Poller,      \* threads that execute IOManager::idle
    Delay,       \* delays in ms that are asked for
    Hour,        \* the clock is taken as changed when set back by more than this
    MaxWait,     \* MAXTIMEOUT of epoll_wait
    StartTime,   \* the clock when the manager is built
    MaxTime,     \* bound: the clock stops here
    MaxBack,     \* bound: how often the clock is set back
    None

ASSUME TimerAssumption ==
    /\ Recurring \subseteq Timer
    /\ None \notin Timer
    /\ Delay \subseteq Nat
    /\ \E d \in Delay : \A e \in Delay : e <= d     \* a delay is a uint64_t
    /\ Poller # {}
    /\ Hour \in Nat /\ MaxWait \in Nat /\ MaxTime \in Nat /\ MaxBack \in Nat
    /\ StartTime \in Hour .. MaxTime

VARIABLES
    clock,           \* GetCurrentMs()
    backs,           \* how often the clock was set back
    made,            \* timers that addTimer() has returned
    m_ms, m_next,    \* interval and expiry time of each timer
    m_cb,            \* does the timer have its callback?
    m_timers,        \* the ordered set, as pairs <<timer, key>>
    m_tickled,       \* a waiting thread was already told about a new front
    m_previousTime,  \* the clock at the last check for expired timers
    upc, cur,        \* each user thread: where it is, and with which timer
    ppc,             \* each poller: where it is in idle()
    left,            \* each poller: what is left of its epoll_wait timeout
    next_timeout,    \* each poller: the timeout it passes to epoll_wait
    restarted,       \* history, each poller: how long it had waited when a signal
                     \* made it wait anew
    now,             \* each poller: listExpiredCb's local now_ms
    cbs,             \* each poller: the timers whose callbacks it holds
    pipe,            \* the tickle pipe is readable
    cancelled,       \* timers for which cancel() returned true
    fired            \* how often each timer's callback was scheduled

timerVars == <<made, m_ms, m_next, m_cb, m_timers, m_tickled, m_previousTime>>
userVars  == <<upc, cur, cancelled>>
waitVars  == <<left, next_timeout, restarted>>
pollVars  == <<ppc, waitVars, now, cbs, fired>>
timeVars  == <<clock, backs>>
vars == <<timerVars, userVars, pollVars, timeVars, pipe>>

\* fired is counted up to 2: what matters is whether it exceeds 1.
MaxFired == 2
MaxDue   == MaxTime + (CHOOSE d \in Delay : \A e \in Delay : e <= d)

TypeOK ==
    /\ clock \in 0 .. MaxTime
    /\ backs \in 0 .. MaxBack
    /\ made \subseteq Timer
    /\ m_ms \in [Timer -> Delay \cup {0}]
    /\ m_next \in [Timer -> 0 .. MaxDue]
    /\ m_cb \in [Timer -> BOOLEAN]
    /\ m_timers \subseteq Timer \X (0 .. MaxDue)
    /\ m_tickled \in BOOLEAN
    /\ m_previousTime \in 0 .. MaxTime
    /\ upc \in [User -> {"none", "insert", "front"}]
    /\ cur \in [User -> Timer \cup {None}]
    /\ ppc \in [Poller -> {"next", "wait", "now", "list", "sched", "busy"}]
    /\ left \in [Poller -> 0 .. MaxWait]
    /\ next_timeout \in [Poller -> 0 .. MaxWait]
    /\ restarted \in [Poller -> Int]
    /\ now \in [Poller -> 0 .. MaxTime]
    /\ cbs \in [Poller -> SUBSET Timer]
    /\ pipe \in BOOLEAN
    /\ cancelled \subseteq Timer
    /\ fired \in [Timer -> 0 .. MaxFired]

Init ==
    /\ clock = StartTime /\ backs = 0
    /\ made = {}
    /\ m_ms = [t \in Timer |-> 0]
    /\ m_next = [t \in Timer |-> 0]
    /\ m_cb = [t \in Timer |-> FALSE]
    /\ m_timers = {}
    /\ m_tickled = FALSE
    /\ m_previousTime = StartTime
    /\ upc = [u \in User |-> "none"]
    /\ cur = [u \in User |-> None]
    /\ ppc = [p \in Poller |-> "next"]
    /\ left = [p \in Poller |-> 0]
    /\ next_timeout = [p \in Poller |-> 0]
    /\ restarted = [p \in Poller |-> 0]
    /\ now = [p \in Poller |-> 0]
    /\ cbs = [p \in Poller |-> {}]
    /\ pipe = FALSE
    /\ cancelled = {}
    /\ fired = [t \in Timer |-> 0]

Least(a, b)    == IF a < b THEN a ELSE b
Greatest(a, b) == IF a > b THEN a ELSE b

-----------------------------------------------------------------------------
(* The ordered set *)

entry(t) == <<t, m_next[t]>>

\* The expiry time at the front of a non-empty set.
FrontKey(S) == CHOOSE k \in {e[2] : e \in S} : \A e \in S : k <= e[2]

\* Elements that may be *m_timers.begin(): ties are broken by address.
Front(S) == {e \in S : e[2] = FrontKey(S)}

\* The time to the front as getNextTime() computes it, cut off at MAXTIMEOUT, is
\* passed to epoll_wait.
TimeToFront ==
    IF m_timers = {} THEN MaxWait
    ELSE Least(MaxWait, Greatest(0, FrontKey(m_timers) - clock))
BeginWait(p) ==
    /\ next_timeout' = [next_timeout EXCEPT ![p] = TimeToFront]
    /\ left' = [left EXCEPT ![p] = TimeToFront]
    /\ restarted' = [restarted EXCEPT ![p] = 0]
    /\ ppc' = [ppc EXCEPT ![p] = "wait"]

-----------------------------------------------------------------------------
(* Faulty variants, with which the properties are tested *)

\* refresh() changes the expiry time of a timer that stays in the set.
RefreshInPlace(u, t) ==
    /\ upc[u] = "none" /\ t \in made
    /\ m_cb[t] /\ entry(t) \in m_timers
    /\ m_next' = [m_next EXCEPT ![t] = clock + m_ms[t]]
    /\ UNCHANGED <<made, m_ms, m_cb, m_timers, m_tickled, m_previousTime,
                   userVars, pollVars, timeVars, pipe>>

\* getNextTime() does not clear m_tickled.
GetNextTimeKeepsTickled(p) ==
    /\ ppc[p] = "next"
    /\ BeginWait(p)
    /\ UNCHANGED <<timerVars, userVars, timeVars, pipe, now, cbs, fired>>

\* The timers up to and including the first one that has not expired.
ExpiredAndOneMore(n, changed) ==
    {e \in m_timers : changed \/ e[2] <= n \/ e \in Front(m_timers)}

\* cancel() reports success without looking at the timer.
CancelAlwaysTrue(u, t) ==
    /\ upc[u] = "none" /\ t \in made
    /\ m_cb' = [m_cb EXCEPT ![t] = FALSE]
    /\ m_timers' = m_timers \ {entry(t)}
    /\ cancelled' = cancelled \cup {t}
    /\ UNCHANGED <<made, m_ms, m_next, m_tickled, m_previousTime, upc, cur,
                   pollVars, timeVars, pipe>>

-----------------------------------------------------------------------------
(* User threads *)

\* TimerManager::addTimer(ms, cb, recurring): the constructor reads the clock.
NewTimer(u, t, ms) ==
    /\ upc[u] = "none"
    /\ t \notin made /\ \A v \in User : cur[v] # t
    /\ m_ms' = [m_ms EXCEPT ![t] = ms]
    /\ m_next' = [m_next EXCEPT ![t] = clock + ms]
    /\ m_cb' = [m_cb EXCEPT ![t] = TRUE]
    /\ upc' = [upc EXCEPT ![u] = "insert"]
    /\ cur' = [cur EXCEPT ![u] = t]
    /\ UNCHANGED <<made, m_timers, m_tickled, m_previousTime, cancelled, pollVars,
                   timeVars, pipe>>

\* The operation on cur[u] is over, and its caller has the timer.
Return(u) ==
    /\ upc' = [upc EXCEPT ![u] = "none"]
    /\ cur' = [cur EXCEPT ![u] = None]
    /\ made' = made \cup {cur[u]}

\* TimerManager::addTimer(p): insert under the write lock; a new front is
\* announced unless that was already done since the last getNextTime().
addTimer(u) ==
    /\ upc[u] = "insert"
    /\ m_timers' = m_timers \cup {entry(cur[u])}
    /\ \E begin \in Front(m_timers') :
          IF begin = entry(cur[u]) /\ ~ m_tickled
            THEN /\ m_tickled' = TRUE
                 /\ upc' = [upc EXCEPT ![u] = "front"]
                 /\ UNCHANGED <<cur, made>>
            ELSE Return(u) /\ UNCHANGED m_tickled
    /\ UNCHANGED <<m_ms, m_next, m_cb, m_previousTime, cancelled, pollVars,
                   timeVars, pipe>>

\* onTimerInsertedAtFront(): IOManager::tickle writes to the pipe if some
\* thread is idle.
onTimerInsertedAtFront(u) ==
    /\ upc[u] = "front"
    /\ pipe' = (pipe \/ \E p \in Poller : ppc[p] # "busy")
    /\ Return(u)
    /\ UNCHANGED <<m_ms, m_next, m_cb, m_timers, m_tickled, m_previousTime,
                   cancelled, pollVars, timeVars>>

\* Timer::cancel
cancel(u, t) ==
    /\ upc[u] = "none"
    /\ t \in made
    /\ m_cb[t]
    /\ m_cb' = [m_cb EXCEPT ![t] = FALSE]
    /\ m_timers' = m_timers \ {entry(t)}
    /\ cancelled' = IF entry(t) \in m_timers THEN cancelled \cup {t} ELSE cancelled
    /\ UNCHANGED <<made, m_ms, m_next, m_tickled, m_previousTime, upc, cur,
                   pollVars, timeVars, pipe>>

\* Timer::refresh: removed, changed and inserted again under one lock.
refresh(u, t) ==
    /\ upc[u] = "none"
    /\ t \in made
    /\ m_cb[t]
    /\ entry(t) \in m_timers
    /\ m_next' = [m_next EXCEPT ![t] = clock + m_ms[t]]
    /\ m_timers' = (m_timers \ {entry(t)}) \cup {<<t, clock + m_ms[t]>>}
    /\ UNCHANGED <<made, m_ms, m_cb, m_tickled, m_previousTime, userVars,
                   pollVars, timeVars, pipe>>

\* Timer::reset up to its unlock: the timer is out of the set until addTimer.
\* m_ms is compared before the lock is taken; a stale value only makes the call
\* take out and insert an unchanged timer, as a call with from_now may.
reset(u, t, ms, from_now) ==
    /\ upc[u] = "none"
    /\ t \in made
    /\ m_ms[t] # ms \/ from_now
    /\ m_cb[t]
    /\ entry(t) \in m_timers
    /\ m_timers' = m_timers \ {entry(t)}
    /\ m_ms' = [m_ms EXCEPT ![t] = ms]
    /\ m_next' = [m_next EXCEPT ![t] = (IF from_now THEN clock ELSE @ - m_ms[t]) + ms]
    /\ upc' = [upc EXCEPT ![u] = "insert"]
    /\ cur' = [cur EXCEPT ![u] = t]
    /\ UNCHANGED <<made, m_cb, m_tickled, m_previousTime, cancelled, pollVars,
                   timeVars, pipe>>

-----------------------------------------------------------------------------
(* Pollers: the loop of IOManager::idle *)

\* TimerManager::getNextTime, and the timeout passed to epoll_wait.
getNextTime(p) ==
    /\ ppc[p] = "next"
    /\ m_tickled' = FALSE
    /\ BeginWait(p)
    /\ UNCHANGED <<made, m_ms, m_next, m_cb, m_timers, m_previousTime, userVars,
                   timeVars, pipe, now, cbs, fired>>

\* epoll_wait returns EINTR after some time, and is called again with the same
\* next_timeout: neither is getNextTime() called again nor the time waited
\* taken off.  A wait that has run out returns 0.
WaitInterrupted(p) ==
    /\ ppc[p] = "wait" /\ left[p] > 0
    /\ left' = [left EXCEPT ![p] = next_timeout[p]]
    /\ restarted' = [restarted EXCEPT ![p] = @ + next_timeout[p] - left[p]]
    /\ UNCHANGED <<timerVars, userVars, timeVars, pipe, ppc, next_timeout, now, cbs, fired>>

\* epoll_wait returns for good: the timeout has passed, the pipe was written to
\* (one thread gets the edge), or a file descriptor became ready.
Woken(p) ==
    /\ ppc[p] = "wait"
    /\ ppc' = [ppc EXCEPT ![p] = "now"]
    /\ left' = [left EXCEPT ![p] = 0]
    /\ next_timeout' = [next_timeout EXCEPT ![p] = 0]
    /\ restarted' = [restarted EXCEPT ![p] = 0]
    /\ UNCHANGED <<timerVars, userVars, timeVars, now, cbs, fired>>
WaitTimeout(p) == left[p] = 0 /\ Woken(p) /\ UNCHANGED pipe
WaitTickled(p) == pipe /\ Woken(p) /\ pipe' = FALSE
WaitEvent(p)   == Woken(p) /\ UNCHANGED pipe

\* listExpiredCb reads the clock before it takes the lock.
readNow(p) ==
    /\ ppc[p] = "now"
    /\ now' = [now EXCEPT ![p] = clock]
    /\ ppc' = [ppc EXCEPT ![p] = "list"]
    /\ UNCHANGED <<timerVars, userVars, timeVars, pipe, waitVars, cbs, fired>>

\* TimerManager::checkClockChange
checkClockChange(n) == n < m_previousTime /\ n < m_previousTime - Hour

\* The elements that are taken out at time n: all of them if the clock was
\* set back; otherwise those before the lower bound of n and those equal to n.
\* The test before it returns at once when the front lies before n.
Expired(n, changed) ==
    IF ~ changed /\ FrontKey(m_timers) < n
      THEN {}
      ELSE {e \in m_timers : changed \/ e[2] <= n}

\* A recurring timer goes back with a new expiry time; the callback of a
\* one-shot timer is taken away.
Reinserted(E, n) == {<<e[1], n + m_ms[e[1]]>> : e \in {x \in E : x[1] \in Recurring}}
TakeCallbacks(E) ==
    m_cb' = [t \in Timer |->
        m_cb[t] /\ ~ (t \notin Recurring /\ \E e \in E : e[1] = t)]

\* TimerManager::listExpiredCb under the write lock.
listExpiredCb(p) ==
    /\ ppc[p] = "list"
    /\ IF m_timers = {}
         THEN UNCHANGED timerVars /\ UNCHANGED cbs
         ELSE LET changed == checkClockChange(now[p])
                  E == Expired(now[p], changed)
                  again == Reinserted(E, now[p])
              IN  /\ m_previousTime' = now[p]
                  /\ m_timers' = (m_timers \ E) \cup again
                  /\ m_next' = [t \in Timer |->
                        IF \E e \in again : e[1] = t THEN now[p] + m_ms[t] ELSE m_next[t]]
                  /\ TakeCallbacks(E)
                  /\ cbs' = [cbs EXCEPT ![p] = {t \in Timer : m_cb[t] /\ \E e \in E : e[1] = t}]
                  /\ UNCHANGED <<made, m_ms, m_tickled>>
    /\ ppc' = [ppc EXCEPT ![p] = "sched"]
    /\ UNCHANGED <<userVars, timeVars, pipe, waitVars, now, fired>>

\* schedule(cbs.begin(), cbs.end()), then back to run(), which may give the
\* thread other work before it is idle again.
scheduleExpired(p) ==
    /\ ppc[p] = "sched"
    /\ fired' = [t \in Timer |->
          IF t \in cbs[p] THEN Least(MaxFired, fired[t] + 1) ELSE fired[t]]
    /\ cbs' = [cbs EXCEPT ![p] = {}]
    /\ now' = [now EXCEPT ![p] = 0]
    /\ ppc' = [ppc EXCEPT ![p] = "busy"]
    /\ UNCHANGED <<timerVars, userVars, timeVars, pipe, waitVars>>

Resume(p) ==
    /\ ppc[p] = "busy"
    /\ ppc' = [ppc EXCEPT ![p] = "next"]
    /\ UNCHANGED <<timerVars, userVars, timeVars, pipe, waitVars, now, cbs, fired>>

-----------------------------------------------------------------------------
(* Time *)

Tick ==
    /\ clock < MaxTime
    /\ clock' = clock + 1
    /\ left' = [p \in Poller |-> Greatest(0, left[p] - 1)]
    /\ UNCHANGED <<timerVars, userVars, backs, pipe, ppc, next_timeout, restarted, now, cbs, fired>>

\* The clock stays more than an hour past the epoch, so m_previousTime - Hour
\* does not wrap around.
SetClockBack(d) ==
    /\ backs < MaxBack
    /\ clock - d >= Hour
    /\ clock' = clock - d
    /\ backs' = backs + 1
    /\ UNCHANGED <<timerVars, userVars, pollVars, pipe>>

-----------------------------------------------------------------------------

UserStep(u) ==
    \/ \E t \in Timer, ms \in Delay : NewTimer(u, t, ms)
    \/ addTimer(u) \/ onTimerInsertedAtFront(u)
    \/ \E t \in Timer : cancel(u, t) \/ refresh(u, t)
    \/ \E t \in Timer, ms \in Delay, from_now \in BOOLEAN : reset(u, t, ms, from_now)

PollStep(p) ==
    \/ getNextTime(p) \/ WaitTimeout(p) \/ WaitTickled(p) \/ readNow(p)
    \/ listExpiredCb(p) \/ scheduleExpired(p) \/ Resume(p)

Next ==
    \/ \E u \in User : UserStep(u)
    \/ \E p \in Poller : PollStep(p) \/ WaitEvent(p) \/ WaitInterrupted(p)
    \/ Tick
    \/ \E d \in 1 .. MaxTime : SetClockBack(d)

\* Pollers keep running, an operation that was begun is finished, and time
\* passes; nobody is obliged to begin an operation.
Fairness ==
    /\ \A p \in Poller : WF_vars(PollStep(p))
    /\ \A u \in User : WF_vars(addTimer(u) \/ onTimerInsertedAtFront(u))
    /\ WF_vars(Tick)

Spec == Init /\ [][Next]_vars /\ Fairness

-----------------------------------------------------------------------------
(* Properties *)

\* Every element of the set is ordered by its timer's present expiry time, so
\* that std::set can find it: no operation changes a timer in place, and no
\* timer is in the set twice.
KeysCurrent == \A e \in m_timers : e[2] = m_next[e[1]]

\* A one-shot timer fires at most once, and not at all if cancel() returned
\* true: cancel() and listExpiredCb() never both take the callback.
FiresOnceOrCancelled ==
    \A t \in Timer \ Recurring :
        LET held == Cardinality({p \in Poller : t \in cbs[p]}) IN
        /\ fired[t] + held <= 1
        /\ t \in cancelled => fired[t] + held = 0

\* A callback is handed out no earlier than its timer's expiry time on the
\* clock, unless the clock was set back by more than an hour.
NeverEarly ==
    [][\A p \in Poller, t \in Timer :
          /\ t \in cbs'[p] /\ t \notin cbs[p]
          /\ ~ checkClockChange(now[p])
          => m_next[t] <= now[p]]_vars

\* A timer whose callback is gone is not in the set (where it would keep the
\* manager from being empty, and IOManager from stopping).
DeadTimersLeave == \A e \in m_timers : m_cb[e[1]]

\* Somebody looks at the set, or is about to be woken through the pipe.
LookedAt == pipe \/ (\E u \in User : upc[u] = "front") \/ \E p \in Poller : ppc[p] # "wait"

\* The front of the set is not overslept unnoticed: while a timer is in the set,
\* somebody looks at it, or some poller's wait ends when the front expires, later
\* by no more than what that poller had waited when signals made it begin anew
\* (timer.cpp:171-183, iomanager.cpp:487-514).
FrontIsWatched ==
    m_timers # {} =>
        \/ LookedAt
        \/ \E p \in Poller :
              clock + left[p] <= Greatest(clock, FrontKey(m_timers) + restarted[p])

\* The same without the allowance, as if epoll_wait was called again with the
\* time that is left: false once a signal arrives.
FrontInTime ==
    m_timers # {} =>
        \/ LookedAt
        \/ \E p \in Poller : clock + left[p] <= Greatest(clock, FrontKey(m_timers))

\* A timer that has expired is handed out in the end (listExpiredCb finds the
\* expired timers; it gives up only if there are none).
ExpiredFires ==
    \A t \in Timer :
        (entry(t) \in m_timers /\ m_next[t] <= clock) ~> (entry(t) \notin m_timers)

-----------------------------------------------------------------------------
(* The inductive invariant behind KeysCurrent, FiresOnceOrCancelled and      *)
(* NeverEarly.                                                               *)

\* A user thread has a timer in hand exactly during an operation.
CurShape == \A u \in User : upc[u] = "none" <=> cur[u] = None

\* Timers that exist: somebody has the pointer addTimer() returned, or is in
\* the call.
Existing == made \cup ({cur[u] : u \in User} \ {None})

\* Only existing timers are in the set.
KnownTimers == \A e \in m_timers : e[1] \in Existing

\* Every expiry time is a clock reading plus the timer's interval.
DueTimes == \A t \in Timer : m_next[t] - m_ms[t] \in 0 .. MaxTime

\* The callback of a one-shot timer is in one place: with the timer, with one
\* poller, scheduled, or dropped by cancel().
CallbackOnce ==
    \A t \in Timer \ Recurring :
        /\ m_cb[t] \/ t \notin Existing \/ t \in cancelled =>
              fired[t] = 0 /\ \A p \in Poller : t \notin cbs[p]
        /\ m_cb[t] \/ t \notin Existing => t \notin cancelled
        /\ \A p \in Poller : t \in cbs[p] =>
              fired[t] = 0 /\ \A q \in Poller \ {p} : t \notin cbs[q]
        /\ fired[t] <= 1

TimerInv == TypeOK /\ CurShape /\ KeysCurrent /\ KnownTimers /\ DueTimes /\ CallbackOnce

\* What FrontIsWatched needs in addition: m_tickled keeps a new front silent
\* only while somebody will look at the set anyway, and as long as the clock is
\* never set back a refreshed timer does not expire earlier than before.
AnnouncedOnce == m_tickled => LookedAt
DueSince ==
    /\ \A t \in Timer : m_next[t] - m_ms[t] <= clock
    /\ \A p \in Poller : now[p] <= clock

WatchInv == FrontIsWatched /\ AnnouncedOnce /\ DueSince

=============================================================================
