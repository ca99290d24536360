---------------------------- MODULE TimerProofs ----------------------------
(***************************************************************************)
(* Proofs about TimerManager, for any number of timers, user threads and   *)
(* pollers, any delays, and any clock.                                     *)
(***************************************************************************)
EXTENDS TimerManager, FiniteSetTheorems, WellFoundedInduction, TLAPS

-----------------------------------------------------------------------------
(* Numbers *)

\* A non-empty set of natural numbers has a least element.
LEMMA LeastOfNaturals ==
    ASSUME NEW T, T \subseteq Nat, T # {}
    PROVE  \E x \in T : \A y \in T : x <= y
<1> DEFINE R == OpToRel(<, Nat)
<1>1. \A x, y \in Nat : <<y, x>> \in R <=> y < x
  BY DEF OpToRel
<1>2. IsWellFoundedOn(R, Nat)
  BY NatLessThanWellFounded
<1> HIDE DEF R
<1>3. PICK x \in T : \A y \in T : ~ (<<y, x>> \in R)
  BY <1>2, WFMin
<1>4. ASSUME NEW y \in T PROVE x <= y
  <2>1. x \in Nat /\ y \in Nat /\ ~ (<<y, x>> \in R)
    BY <1>3
  <2>2. ~ (y < x)
    BY <1>1, <2>1
  <2> QED
    BY <2>1, <2>2
<1> QED
  BY <1>4

\* The front of a non-empty set of timers has the least key.
LEMMA FrontIsLeast ==
    ASSUME NEW S, S \subseteq Timer \X Nat, S # {}
    PROVE  /\ FrontKey(S) \in Nat
           /\ \E e \in S : e[2] = FrontKey(S)
           /\ \A e \in S : FrontKey(S) <= e[2]
<1> DEFINE K == {e[2] : e \in S}
<1>1. K \subseteq Nat /\ K # {}
  OBVIOUS
<1>2. \E k \in K : \A j \in K : k <= j
  BY <1>1, LeastOfNaturals
<1>3. \E k \in K : \A e \in S : k <= e[2]
  BY <1>2
<1>4. FrontKey(S) \in K /\ \A e \in S : FrontKey(S) <= e[2]
  BY <1>3 DEF FrontKey
<1> QED
  BY <1>1, <1>4

\* The bound on expiry times covers every clock reading plus every delay.
LEMMA DueBound ==
    /\ MaxDue \in Nat
    /\ \A d \in Delay \cup {0} : \A n \in 0 .. MaxTime : n + d \in 0 .. MaxDue
<1> DEFINE D == CHOOSE d \in Delay : \A e \in Delay : e <= d
<1>1. D \in Delay /\ \A e \in Delay : e <= D
  BY TimerAssumption
<1>2. D \in Nat /\ MaxTime \in Nat /\ Delay \subseteq Nat
  BY <1>1, TimerAssumption
<1>3. MaxDue = MaxTime + D
  BY DEF MaxDue
<1> HIDE DEF D
<1> QED
  BY <1>1, <1>2, <1>3

-----------------------------------------------------------------------------
(* What listExpiredCb does *)

\* When the set is not empty, listExpiredCb takes a set E of elements out,
\* inserts the recurring timers among them again, and hands the callbacks out.
Lists(p, E) ==
    /\ E \subseteq m_timers
    /\ ~ checkClockChange(now[p]) => \A e \in E : e[2] <= now[p]
    /\ m_timers' = (m_timers \ E) \cup Reinserted(E, now[p])
    /\ m_next' = [t \in Timer |->
          IF t \in Recurring /\ \E e \in E : e[1] = t THEN now[p] + m_ms[t] ELSE m_next[t]]
    /\ m_cb' = [t \in Timer |-> m_cb[t] /\ ~ (t \notin Recurring /\ \E e \in E : e[1] = t)]
    /\ cbs' = [cbs EXCEPT ![p] = {t \in Timer : m_cb[t] /\ \E e \in E : e[1] = t}]
    /\ m_previousTime' = now[p]

\* listExpiredCb is one such step, or leaves an empty set alone.
LEMMA ListEffect ==
    ASSUME TypeOK, NEW p \in Poller, listExpiredCb(p)
    PROVE  \/ \E E \in SUBSET m_timers : Lists(p, E)
           \/ UNCHANGED <<m_timers, m_next, m_cb, m_previousTime, cbs>>
<1>1. CASE m_timers = {}
  BY <1>1 DEF listExpiredCb, timerVars
<1>2. CASE m_timers # {}
  <2> DEFINE E == Expired(now[p], checkClockChange(now[p]))
             again == Reinserted(E, now[p])
  <2>1. /\ m_previousTime' = now[p]
        /\ m_timers' = (m_timers \ E) \cup again
        /\ m_next' = [t \in Timer |->
               IF \E e \in again : e[1] = t THEN now[p] + m_ms[t] ELSE m_next[t]]
        /\ m_cb' = [t \in Timer |-> m_cb[t] /\ ~ (t \notin Recurring /\ \E e \in E : e[1] = t)]
        /\ cbs' = [cbs EXCEPT ![p] = {t \in Timer : m_cb[t] /\ \E e \in E : e[1] = t}]
    BY <1>2 DEF listExpiredCb, TakeCallbacks
  <2>2. E \subseteq m_timers /\ (~ checkClockChange(now[p]) => \A e \in E : e[2] <= now[p])
    BY DEF Expired
  <2> HIDE DEF E
  <2>3. \A t \in Timer : (\E e \in again : e[1] = t) <=> t \in Recurring /\ \E e \in E : e[1] = t
    <3> TAKE t \in Timer
    <3>1. ASSUME NEW e \in again, e[1] = t PROVE t \in Recurring /\ \E f \in E : f[1] = t
      BY <3>1 DEF Reinserted
    <3>2. ASSUME NEW f \in E, f[1] = t, t \in Recurring PROVE \E e \in again : e[1] = t
      <4>1. <<f[1], now[p] + m_ms[f[1]]>> \in again
        BY <3>2 DEF Reinserted
      <4> QED
        BY <3>2, <4>1
    <3> QED
      BY <3>1, <3>2
  <2>4. m_next' = [t \in Timer |->
           IF t \in Recurring /\ \E e \in E : e[1] = t THEN now[p] + m_ms[t] ELSE m_next[t]]
    BY <2>1, <2>3
  <2>5. Lists(p, E)
    BY <2>1, <2>2, <2>4 DEF Lists
  <2> QED
    BY <2>2, <2>5
<1> QED
  BY <1>1, <1>2

\* The elements of the set after listExpiredCb.
LEMMA ListedSet ==
    ASSUME TypeOK, NEW p \in Poller, NEW E \in SUBSET m_timers, Lists(p, E), NEW e \in m_timers'
    PROVE  \/ e \in m_timers /\ e \notin E
           \/ \E f \in E : f[1] \in Recurring /\ e = <<f[1], now[p] + m_ms[f[1]]>>
  BY DEF Lists, Reinserted

-----------------------------------------------------------------------------
(* Type correctness *)

\* Every step keeps the state well typed.
LEMMA TimerTypeStep ==
    ASSUME TimerInv, [Next]_vars
    PROVE  TypeOK'
<1> USE TimerAssumption DEF TimerInv
<1>0. /\ \A t \in Timer : m_next[t] - m_ms[t] \in 0 .. MaxTime
      /\ \A t \in Timer : m_ms[t] \in Delay \cup {0}
      /\ Delay \cup {0} \subseteq Nat /\ MaxDue \in Nat
  BY DueBound DEF DueTimes, TypeOK
<1>1. ASSUME NEW u \in User, UserStep(u) PROVE TypeOK'
  <2>1. ASSUME NEW t \in Timer, NEW ms \in Delay, NewTimer(u, t, ms) PROVE TypeOK'
    <3>1. clock + ms \in 0 .. MaxDue
      BY DueBound DEF TypeOK
    <3>2. m_cb' \in [Timer -> BOOLEAN]
      BY <2>1, Zenon DEF NewTimer, TypeOK
    <3> QED
      BY <2>1, <3>1, <3>2 DEF NewTimer, TypeOK, pollVars, waitVars, timeVars
  <2>2. ASSUME upc[u] # "none" PROVE cur[u] \in Timer
    BY <2>2 DEF CurShape, TypeOK
  <2>3. CASE addTimer(u)
    <3>1. cur[u] \in Timer
      BY <2>2, <2>3 DEF addTimer
    <3>2. /\ m_timers' = m_timers \cup {entry(cur[u])}
          /\ made' \subseteq made \cup {cur[u]}
          /\ upc' \in [User -> {"none", "insert", "front"}] /\ cur' \in [User -> Timer \cup {None}]
      BY <2>3 DEF addTimer, Return, TypeOK
    <3>3. m_tickled' \in BOOLEAN
      BY <2>3 DEF addTimer, TypeOK
    <3> QED
      BY <2>3, <3>1, <3>2, <3>3 DEF addTimer, entry, TypeOK, pollVars, waitVars, timeVars
  <2>4. CASE onTimerInsertedAtFront(u)
    <3>1. cur[u] \in Timer
      BY <2>2, <2>4 DEF onTimerInsertedAtFront
    <3>2. pipe' \in BOOLEAN
      BY <2>4, Zenon DEF onTimerInsertedAtFront, TypeOK
    <3> QED
      BY <2>4, <3>1, <3>2 DEF onTimerInsertedAtFront, Return, TypeOK, pollVars, waitVars, timeVars
  <2>5. ASSUME NEW t \in Timer, cancel(u, t) PROVE TypeOK'
    <3>1. m_cb' \in [Timer -> BOOLEAN]
      BY <2>5, Zenon DEF cancel, TypeOK
    <3> QED
      BY <2>5, <3>1 DEF cancel, TypeOK, pollVars, waitVars, timeVars
  <2>6. ASSUME NEW t \in Timer, refresh(u, t) PROVE TypeOK'
    <3>1. clock + m_ms[t] \in 0 .. MaxDue
      BY <1>0, DueBound DEF TypeOK
    <3> QED
      BY <2>6, <3>1 DEF refresh, TypeOK, pollVars, waitVars, timeVars, userVars
  <2>7. ASSUME NEW t \in Timer, NEW ms \in Delay, NEW from_now \in BOOLEAN,
               reset(u, t, ms, from_now)
        PROVE  TypeOK'
    <3>1. (IF from_now THEN clock ELSE m_next[t] - m_ms[t]) \in 0 .. MaxTime
      BY <1>0 DEF TypeOK
    <3>2. (IF from_now THEN clock ELSE m_next[t] - m_ms[t]) + ms \in 0 .. MaxDue
      BY <3>1, DueBound
    <3>3. m_next' \in [Timer -> 0 .. MaxDue]
      BY <2>7, <3>2 DEF reset, TypeOK
    <3> QED
      BY <2>7, <3>3 DEF reset, TypeOK, pollVars, waitVars, timeVars
  <2> QED
    BY <1>1, <2>1, <2>3, <2>4, <2>5, <2>6, <2>7 DEF UserStep
<1>2. ASSUME NEW p \in Poller, PollStep(p) \/ WaitEvent(p) \/ WaitInterrupted(p) PROVE TypeOK'
  <2>1. CASE getNextTime(p)
    <3>1. m_timers # {} => FrontKey(m_timers) \in Nat
      BY <1>0, FrontIsLeast DEF TypeOK
    <3>2. /\ left' \in [Poller -> 0 .. MaxWait] /\ next_timeout' \in [Poller -> 0 .. MaxWait]
          /\ restarted' \in [Poller -> Int]
      <4>1. TimeToFront \in 0 .. MaxWait
        BY <3>1 DEF TimeToFront, Least, Greatest, TypeOK
      <4> QED
        BY <2>1, <4>1 DEF getNextTime, BeginWait, TypeOK
    <3>3. ppc' \in [Poller -> {"next", "wait", "now", "list", "sched", "busy"}]
      BY <2>1 DEF getNextTime, BeginWait, TypeOK
    <3>4. m_tickled' \in BOOLEAN
      BY <2>1 DEF getNextTime, BeginWait
    <3> QED
      BY <2>1, <3>2, <3>3, <3>4 DEF getNextTime, BeginWait, TypeOK, userVars, timeVars
  <2>2. CASE WaitTimeout(p) \/ WaitTickled(p) \/ WaitEvent(p)
    <3>1. pipe' \in BOOLEAN
      BY <2>2 DEF WaitTimeout, WaitTickled, WaitEvent, TypeOK
    <3>2. Woken(p)
      BY <2>2 DEF WaitTimeout, WaitTickled, WaitEvent
    <3> QED
      BY <3>1, <3>2 DEF Woken, TypeOK, timerVars, userVars, timeVars
  <2>3. CASE WaitInterrupted(p)
    <3>1. left' \in [Poller -> 0 .. MaxWait] /\ restarted' \in [Poller -> Int]
      BY <2>3 DEF WaitInterrupted, TypeOK
    <3> QED
      BY <2>3, <3>1 DEF WaitInterrupted, TypeOK, timerVars, userVars, timeVars
  <2>4. CASE readNow(p)
    BY <2>4 DEF readNow, TypeOK, timerVars, userVars, waitVars, timeVars
  <2>5. CASE listExpiredCb(p)
    <3>1. /\ UNCHANGED <<made, m_ms, m_tickled, userVars, timeVars, pipe, waitVars, now, fired>>
          /\ ppc' \in [Poller -> {"next", "wait", "now", "list", "sched", "busy"}]
      BY <2>5 DEF listExpiredCb, timerVars, TypeOK
    <3>2. CASE UNCHANGED <<m_timers, m_next, m_cb, m_previousTime, cbs>>
      BY <3>1, <3>2 DEF TypeOK, userVars, waitVars, timeVars
    <3>3. ASSUME NEW E \in SUBSET m_timers, Lists(p, E) PROVE TypeOK'
      <4>1. \A t \in Timer : now[p] + m_ms[t] \in 0 .. MaxDue
        BY <1>0, DueBound DEF TypeOK
      <4>2. m_next' \in [Timer -> 0 .. MaxDue]
        BY <3>3, <4>1 DEF Lists, TypeOK
      <4>3. m_timers' \subseteq Timer \X (0 .. MaxDue)
        <5> SUFFICES ASSUME NEW e \in m_timers' PROVE e \in Timer \X (0 .. MaxDue)
          OBVIOUS
        <5>1. \A f \in m_timers : f \in Timer \X (0 .. MaxDue)
          BY DEF TypeOK
        <5> QED
          BY <3>3, <4>1, <5>1, ListedSet
      <4>4. m_cb' \in [Timer -> BOOLEAN]
        BY <3>3, Zenon DEF Lists
      <4>5. cbs' \in [Poller -> SUBSET Timer] /\ m_previousTime' \in 0 .. MaxTime
        BY <3>3 DEF Lists, TypeOK
      <4> QED
        BY <3>1, <4>2, <4>3, <4>4, <4>5 DEF TypeOK, userVars, waitVars, timeVars
    <3> QED
      BY <2>5, <3>2, <3>3, ListEffect
  <2>6. CASE scheduleExpired(p)
    <3>1. fired' \in [Timer -> 0 .. MaxFired]
      BY <2>6 DEF scheduleExpired, Least, MaxFired, TypeOK
    <3> QED
      BY <2>6, <3>1 DEF scheduleExpired, TypeOK, timerVars, userVars, waitVars, timeVars
  <2>7. CASE Resume(p)
    BY <2>7 DEF Resume, TypeOK, timerVars, userVars, waitVars, timeVars
  <2> QED
    BY <1>2, <2>1, <2>2, <2>3, <2>4, <2>5, <2>6, <2>7 DEF PollStep
<1>3. CASE Tick
  <2>1. left' \in [Poller -> 0 .. MaxWait]
    BY <1>3 DEF Tick, Greatest, TypeOK
  <2> QED
    BY <1>3, <2>1 DEF Tick, TypeOK, timerVars, userVars
<1>4. ASSUME NEW d \in 1 .. MaxTime, SetClockBack(d) PROVE TypeOK'
  BY <1>4 DEF SetClockBack, TypeOK, timerVars, userVars, pollVars, waitVars
<1>5. CASE UNCHANGED vars
  BY <1>5 DEF vars, TypeOK, timerVars, userVars, pollVars, waitVars, timeVars
<1> QED
  BY <1>1, <1>2, <1>3, <1>4, <1>5 DEF Next

-----------------------------------------------------------------------------
(* The set and its keys *)

\* The steps of the pollers other than listExpiredCb, and of the clock, touch
\* neither the timers nor the user threads.
LEMMA OtherSteps ==
    ASSUME NEW p \in Poller,
           \/ getNextTime(p) \/ WaitTimeout(p) \/ WaitTickled(p) \/ WaitEvent(p)
           \/ WaitInterrupted(p) \/ readNow(p)
           \/ scheduleExpired(p) \/ Resume(p) \/ Tick \/ \E d \in 1 .. MaxTime : SetClockBack(d)
           \/ UNCHANGED vars
    PROVE  UNCHANGED <<made, m_ms, m_next, m_cb, m_timers, upc, cur, cancelled>>
  BY DEF getNextTime, BeginWait, WaitTimeout, WaitTickled, WaitEvent, WaitInterrupted, Woken,
         waitVars, readNow, scheduleExpired, Resume, Tick,
         SetClockBack, vars, timerVars, userVars

\* A timer in the set is there once, under its present expiry time.
LEMMA OneElement ==
    ASSUME TypeOK, KeysCurrent, NEW e \in m_timers
    PROVE  e[1] \in Timer /\ e = entry(e[1])
  BY DEF TypeOK, KeysCurrent, entry

\* Timers come into being once: an operation changes the timers that exist by
\* at most the one it has in hand, and never loses one.
LEMMA ExistingStep ==
    ASSUME TimerInv, [Next]_vars
    PROVE  /\ CurShape'
           /\ Existing \subseteq Existing'
           /\ \A t \in Timer : t \in Existing' /\ t \notin Existing => m_cb'[t]
<1> USE TimerAssumption DEF TimerInv, TypeOK, CurShape
<1> DEFINE Goal == /\ CurShape'
                   /\ Existing \subseteq Existing'
                   /\ \A t \in Timer : t \in Existing' /\ t \notin Existing => m_cb'[t]
<1>1. CASE UNCHANGED <<made, upc, cur>>
  BY <1>1 DEF Existing
<1>2. ASSUME NEW u \in User, NEW t \in Timer, NEW ms \in Delay, NewTimer(u, t, ms) PROVE Goal
  <2>1. CurShape'
    BY <1>2 DEF NewTimer
  <2>2. cur[u] = None /\ m_cb'[t] /\ made' = made /\ cur' = [cur EXCEPT ![u] = t]
    BY <1>2 DEF NewTimer
  <2>3. Existing' \subseteq Existing \cup {t} /\ Existing \subseteq Existing'
    BY <2>2 DEF Existing
  <2> QED
    BY <2>1, <2>2, <2>3
<1>3. ASSUME NEW u \in User, NEW t \in Timer, NEW ms \in Delay, NEW from_now \in BOOLEAN,
             reset(u, t, ms, from_now)
      PROVE  Goal
  <2>1. CurShape'
    BY <1>3 DEF reset
  <2>2. cur[u] = None /\ t \in made /\ made' = made /\ cur' = [cur EXCEPT ![u] = t]
    BY <1>3 DEF reset
  <2>3. Existing' \subseteq Existing \cup {t} /\ Existing \subseteq Existing' /\ t \in Existing
    BY <2>2 DEF Existing
  <2> QED
    BY <2>1, <2>3
<1>4. ASSUME NEW u \in User, upc[u] # "none", Return(u) PROVE Goal
  <2>1. CurShape'
    BY <1>4 DEF Return
  <2>2. cur[u] # None /\ made' = made \cup {cur[u]} /\ cur' = [cur EXCEPT ![u] = None]
    BY <1>4 DEF Return
  <2>3. Existing' \subseteq Existing /\ Existing \subseteq Existing'
    BY <2>2 DEF Existing
  <2> QED
    BY <2>1, <2>3
<1>5. ASSUME NEW u \in User, addTimer(u) PROVE Goal
  <2>1. CASE Return(u)
    BY <1>4, <1>5, <2>1 DEF addTimer
  <2>2. CASE ~ Return(u)
    <3>1. upc[u] = "insert" /\ UNCHANGED <<cur, made>> /\ upc' = [upc EXCEPT ![u] = "front"]
      BY <1>5, <2>2 DEF addTimer
    <3> QED
      BY <3>1 DEF Existing
  <2> QED
    BY <2>1, <2>2
<1>6. ASSUME NEW u \in User, onTimerInsertedAtFront(u) PROVE Goal
  BY <1>4, <1>6 DEF onTimerInsertedAtFront
<1>7. ASSUME NEW u \in User, NEW t \in Timer, cancel(u, t) \/ refresh(u, t) PROVE Goal
  BY <1>1, <1>7 DEF cancel, refresh, userVars
<1>8. ASSUME NEW p \in Poller, listExpiredCb(p) PROVE Goal
  <2>1. UNCHANGED <<made, upc, cur>>
    BY <1>8 DEF listExpiredCb, userVars, timerVars
  <2> QED
    BY <1>1, <2>1
<1> QED
  BY <1>1, <1>2, <1>3, <1>5, <1>6, <1>7, <1>8, OtherSteps DEF Next, UserStep, PollStep

\* Every operation that changes a timer's expiry time takes the timer out of the
\* set first, and only timers somebody can point to are inserted.
LEMMA KeysStep ==
    ASSUME TimerInv, [Next]_vars
    PROVE  KeysCurrent' /\ KnownTimers'
<1> USE TimerAssumption DEF TimerInv
<1>0. Existing \subseteq Existing'
  BY ExistingStep
<1>a. /\ m_next \in [Timer -> 0 .. MaxDue]
      /\ \A u \in User : upc[u] # "none" => cur[u] \in Timer /\ cur[u] \in Existing
      /\ \A t \in made : t \in Existing /\ t \in Timer
      /\ \A u \in User : cur[u] # None => cur[u] \in Existing
  BY DEF TypeOK, CurShape, Existing
<1>b. \A e \in m_timers : e[1] \in Timer /\ e = <<e[1], m_next[e[1]]>> /\ e[1] \in Existing
  BY OneElement DEF KnownTimers, entry
<1>1. ASSUME UNCHANGED <<m_next, m_timers>> PROVE KeysCurrent' /\ KnownTimers'
  BY <1>0, <1>1 DEF KeysCurrent, KnownTimers
<1>2. ASSUME NEW u \in User, NEW t \in Timer, NEW ms \in Delay, NewTimer(u, t, ms)
      PROVE  KeysCurrent' /\ KnownTimers'
  <2>1. t \notin Existing
    BY <1>2 DEF NewTimer, Existing
  <2> QED
    BY <1>0, <1>a, <1>b, <1>2, <2>1 DEF NewTimer, KeysCurrent, KnownTimers
<1>3. ASSUME NEW u \in User, addTimer(u) PROVE KeysCurrent' /\ KnownTimers'
  BY <1>0, <1>a, <1>b, <1>3 DEF addTimer, KeysCurrent, KnownTimers, entry
<1>4. ASSUME NEW u \in User, NEW t \in Timer, cancel(u, t) \/ refresh(u, t)
      PROVE  KeysCurrent' /\ KnownTimers'
  BY <1>0, <1>a, <1>b, <1>4 DEF cancel, refresh, KeysCurrent, KnownTimers, entry
<1>5. ASSUME NEW u \in User, NEW t \in Timer, NEW ms \in Delay, NEW from_now \in BOOLEAN,
             reset(u, t, ms, from_now)
      PROVE  KeysCurrent' /\ KnownTimers'
  BY <1>0, <1>a, <1>b, <1>5 DEF reset, KeysCurrent, KnownTimers, entry
<1>6. ASSUME NEW p \in Poller, NEW E \in SUBSET m_timers, Lists(p, E), UNCHANGED m_ms
      PROVE  KeysCurrent' /\ KnownTimers'
  <2> SUFFICES ASSUME NEW e \in m_timers' PROVE e[2] = m_next'[e[1]] /\ e[1] \in Existing'
    BY DEF KeysCurrent, KnownTimers
  <2>1. \A t \in Timer : m_next'[t] =
           IF t \in Recurring /\ \E f \in E : f[1] = t THEN now[p] + m_ms[t] ELSE m_next[t]
    BY <1>6 DEF Lists
  <2>2. CASE e \in m_timers /\ e \notin E
    <3>1. \A f \in E : f[1] # e[1]
      BY <1>b, <2>2
    <3> QED
      BY <1>0, <1>b, <2>1, <2>2, <3>1
  <2>3. CASE \E f \in E : f[1] \in Recurring /\ e = <<f[1], now[p] + m_ms[f[1]]>>
    BY <1>0, <1>b, <2>1, <2>3
  <2> QED
    BY <1>6, <2>2, <2>3, ListedSet
<1>7. ASSUME NEW p \in Poller, listExpiredCb(p) PROVE KeysCurrent' /\ KnownTimers'
  <2>1. UNCHANGED m_ms
    BY <1>7 DEF listExpiredCb, timerVars
  <2> QED
    BY <1>1, <1>6, <1>7, <2>1, ListEffect
<1>8. ASSUME NEW u \in User, onTimerInsertedAtFront(u) PROVE KeysCurrent' /\ KnownTimers'
  BY <1>1, <1>8 DEF onTimerInsertedAtFront
<1> QED
  BY <1>1, <1>2, <1>3, <1>4, <1>5, <1>7, <1>8, OtherSteps DEF Next, UserStep, PollStep

\* A new expiry time is a reading of the clock plus the interval.
LEMMA DueStep ==
    ASSUME TimerInv, [Next]_vars
    PROVE  DueTimes'
<1> USE TimerAssumption DEF TimerInv, DueTimes
<1>0. /\ m_next \in [Timer -> 0 .. MaxDue] /\ m_ms \in [Timer -> Delay \cup {0}]
      /\ clock \in 0 .. MaxTime /\ now \in [Poller -> 0 .. MaxTime]
      /\ Delay \cup {0} \subseteq Nat /\ MaxDue \in Nat
  BY DueBound DEF TypeOK
<1>a. \A t \in Timer : m_ms[t] \in Int
  <2>1. \A t \in Timer : m_ms[t] \in Nat
    BY <1>0
  <2> QED
    BY <2>1
<1>b. \A a, b \in Int : (a + b) - b = a
  OBVIOUS
<1>1. ASSUME UNCHANGED <<m_next, m_ms>> PROVE DueTimes'
  BY <1>1
<1>2. ASSUME NEW u \in User, NEW t \in Timer, NEW ms \in Delay, NewTimer(u, t, ms) PROVE DueTimes'
  BY <1>0, <1>2 DEF NewTimer
<1>3. ASSUME NEW u \in User, NEW t \in Timer, refresh(u, t) PROVE DueTimes'
  <2>1. clock \in Int /\ (clock + m_ms[t]) - m_ms[t] = clock
    BY <1>0, <1>a, <1>b
  <2> QED
    BY <1>0, <1>3, <2>1 DEF refresh
<1>4. ASSUME NEW u \in User, NEW t \in Timer, NEW ms \in Delay, NEW from_now \in BOOLEAN,
             reset(u, t, ms, from_now)
      PROVE  DueTimes'
  <2> DEFINE base == IF from_now THEN clock ELSE m_next[t] - m_ms[t]
  <2>1. base \in 0 .. MaxTime
    BY <1>0
  <2>2. /\ m_next' = [m_next EXCEPT ![t] = base + ms] /\ m_ms' = [m_ms EXCEPT ![t] = ms]
    BY <1>0, <1>4 DEF reset
  <2> HIDE DEF base
  <2> QED
    BY <1>0, <2>1, <2>2
<1>5. ASSUME NEW p \in Poller, listExpiredCb(p) PROVE DueTimes'
  <2>1. UNCHANGED m_ms
    BY <1>5 DEF listExpiredCb, timerVars
  <2>2. ASSUME NEW E \in SUBSET m_timers, Lists(p, E) PROVE DueTimes'
    <3>1. \A t \in Timer : m_next'[t] = m_next[t] \/ m_next'[t] = now[p] + m_ms[t]
      BY <2>2 DEF Lists
    <3>2. \A t \in Timer : (now[p] + m_ms[t]) - m_ms[t] = now[p] /\ now[p] \in 0 .. MaxTime
      BY <1>0, <1>a, <1>b
    <3> QED
      BY <2>1, <3>1, <3>2
  <2> QED
    BY <1>1, <1>5, <2>1, <2>2, ListEffect
<1>6. ASSUME NEW u \in User, addTimer(u) \/ onTimerInsertedAtFront(u) PROVE DueTimes'
  BY <1>1, <1>6 DEF addTimer, onTimerInsertedAtFront
<1>7. ASSUME NEW u \in User, NEW t \in Timer, cancel(u, t) PROVE DueTimes'
  BY <1>1, <1>7 DEF cancel
<1> QED
  BY <1>1, <1>2, <1>3, <1>4, <1>5, <1>6, <1>7, OtherSteps DEF Next, UserStep, PollStep

-----------------------------------------------------------------------------
(* Callbacks *)

\* The callback of a one-shot timer moves from the timer to one poller, and from
\* there into the task queue; cancel() takes it only from the timer.
LEMMA CallbackStep ==
    ASSUME TimerInv, [Next]_vars
    PROVE  CallbackOnce'
<1> USE TimerAssumption DEF TimerInv
<1>0. /\ m_cb \in [Timer -> BOOLEAN] /\ fired \in [Timer -> 0 .. MaxFired]
      /\ cbs \in [Poller -> SUBSET Timer] /\ MaxFired = 2
  BY DEF TypeOK, MaxFired
<1>a. /\ Existing \subseteq Existing'
      /\ \A t \in Timer : t \in Existing' /\ t \notin Existing => m_cb'[t]
  BY ExistingStep
<1>1. ASSUME UNCHANGED <<m_cb, cancelled, fired, cbs>> PROVE CallbackOnce'
  BY <1>a, <1>1 DEF CallbackOnce
<1>2. ASSUME NEW u \in User, NEW t \in Timer, NEW ms \in Delay, NewTimer(u, t, ms)
      PROVE  CallbackOnce'
  <2>1. t \notin Existing
    BY <1>2 DEF NewTimer, Existing
  <2>2. m_cb' = [m_cb EXCEPT ![t] = TRUE] /\ UNCHANGED <<cancelled, fired, cbs>>
    BY <1>2 DEF NewTimer, pollVars, waitVars
  <2> QED
    BY <1>0, <1>a, <2>1, <2>2 DEF CallbackOnce
<1>3. ASSUME NEW u \in User, NEW t \in Timer, cancel(u, t) PROVE CallbackOnce'
  <2>1. /\ m_cb[t] /\ m_cb' = [m_cb EXCEPT ![t] = FALSE] /\ UNCHANGED <<fired, cbs>>
        /\ cancelled' \subseteq cancelled \cup {t} /\ t \in Existing
    BY <1>3 DEF cancel, pollVars, waitVars, Existing
  <2> QED
    BY <1>0, <1>a, <2>1 DEF CallbackOnce
<1>4. ASSUME NEW p \in Poller, NEW E \in SUBSET m_timers, Lists(p, E), UNCHANGED <<cancelled, fired>>
      PROVE  CallbackOnce'
  <2> SUFFICES ASSUME NEW t \in Timer \ Recurring
               PROVE  /\ m_cb'[t] \/ t \notin Existing' \/ t \in cancelled =>
                            fired[t] = 0 /\ \A q \in Poller : t \notin cbs'[q]
                      /\ m_cb'[t] \/ t \notin Existing' => t \notin cancelled
                      /\ \A q \in Poller : t \in cbs'[q] =>
                            fired[t] = 0 /\ \A r \in Poller \ {q} : t \notin cbs'[r]
                      /\ fired[t] <= 1
    BY <1>4 DEF CallbackOnce
  <2>1. /\ m_cb'[t] <=> m_cb[t] /\ ~ \E e \in E : e[1] = t
        /\ \A q \in Poller \ {p} : cbs'[q] = cbs[q]
        /\ t \in cbs'[p] <=> m_cb[t] /\ \E e \in E : e[1] = t
    BY <1>0, <1>4 DEF Lists
  <2>2. (\E e \in E : e[1] = t) => t \in Existing
    BY DEF KnownTimers
  <2> QED
    BY <1>0, <1>a, <2>1, <2>2 DEF CallbackOnce
<1>5. ASSUME NEW p \in Poller, listExpiredCb(p) PROVE CallbackOnce'
  <2>1. UNCHANGED <<cancelled, fired>>
    BY <1>5 DEF listExpiredCb, userVars
  <2> QED
    BY <1>1, <1>4, <1>5, <2>1, ListEffect
<1>6. ASSUME NEW p \in Poller, scheduleExpired(p) PROVE CallbackOnce'
  <2>1. /\ UNCHANGED <<m_cb, cancelled>>
        /\ \A q \in Poller \ {p} : cbs'[q] = cbs[q]
        /\ cbs'[p] = {}
        /\ \A t \in Timer : fired'[t] = IF t \in cbs[p] THEN Least(MaxFired, fired[t] + 1) ELSE fired[t]
    BY <1>0, <1>6 DEF scheduleExpired, timerVars, userVars
  <2>2. \A t \in Timer \ Recurring : t \in cbs[p] => fired'[t] = 1
    BY <1>0, <2>1 DEF CallbackOnce, Least
  <2> QED
    BY <1>0, <1>a, <2>1, <2>2 DEF CallbackOnce
<1>7. ASSUME NEW u \in User, addTimer(u) \/ onTimerInsertedAtFront(u) PROVE CallbackOnce'
  BY <1>1, <1>7 DEF addTimer, onTimerInsertedAtFront, pollVars, waitVars
<1>8. ASSUME NEW u \in User, NEW t \in Timer, refresh(u, t) PROVE CallbackOnce'
  BY <1>1, <1>8 DEF refresh, pollVars, waitVars, userVars
<1>9. ASSUME NEW u \in User, NEW t \in Timer, NEW ms \in Delay, NEW from_now \in BOOLEAN,
             reset(u, t, ms, from_now)
      PROVE  CallbackOnce'
  BY <1>1, <1>9 DEF reset, pollVars, waitVars
<1>10. ASSUME NEW p \in Poller, \/ getNextTime(p) \/ WaitTimeout(p) \/ WaitTickled(p) \/ WaitEvent(p) \/ WaitInterrupted(p)
                               \/ readNow(p) \/ Resume(p)
       PROVE  CallbackOnce'
  <2>1. UNCHANGED <<m_cb, cancelled, fired, cbs>>
    BY <1>10 DEF getNextTime, BeginWait, WaitTimeout, WaitTickled, WaitEvent, WaitInterrupted,
                 Woken, waitVars, readNow, Resume, timerVars, userVars
  <2> QED
    BY <1>1, <2>1
<1>11. CASE Tick \/ (\E d \in 1 .. MaxTime : SetClockBack(d)) \/ UNCHANGED vars
  BY <1>1, <1>11 DEF Tick, SetClockBack, vars, timerVars, userVars, pollVars, waitVars
<1> QED
  BY <1>2, <1>3, <1>5, <1>6, <1>7, <1>8, <1>9, <1>10, <1>11 DEF Next, UserStep, PollStep

-----------------------------------------------------------------------------
(* The theorems *)

\* The inductive invariant of the timers holds in every reachable state.
THEOREM TimerInvariant == Spec => []TimerInv
<1>1. Init => TimerInv
  <2> SUFFICES ASSUME Init PROVE TimerInv
    OBVIOUS
  <2> USE TimerAssumption DEF Init
  <2>1. TypeOK
    <3>1. clock \in 0 .. MaxTime /\ backs \in 0 .. MaxBack /\ m_previousTime \in 0 .. MaxTime
      OBVIOUS
    <3>2. m_ms \in [Timer -> Delay \cup {0}] /\ m_next \in [Timer -> 0 .. MaxDue]
      BY DueBound
    <3>3. m_cb \in [Timer -> BOOLEAN] /\ m_tickled \in BOOLEAN /\ pipe \in BOOLEAN
      BY Zenon
    <3>4. left \in [Poller -> 0 .. MaxWait] /\ now \in [Poller -> 0 .. MaxTime]
          /\ cbs \in [Poller -> SUBSET Timer] /\ fired \in [Timer -> 0 .. MaxFired]
      BY DEF MaxFired
    <3> QED
      BY <3>1, <3>2, <3>3, <3>4 DEF TypeOK
  <2>2. CurShape /\ KeysCurrent /\ KnownTimers
    BY DEF CurShape, KeysCurrent, KnownTimers
  <2>3. DueTimes /\ CallbackOnce
    BY DEF DueTimes, CallbackOnce
  <2> QED
    BY <2>1, <2>2, <2>3 DEF TimerInv
<1>2. TimerInv /\ [Next]_vars => TimerInv'
  BY TimerTypeStep, ExistingStep, KeysStep, DueStep, CallbackStep DEF TimerInv
<1> QED
  BY <1>1, <1>2, PTL DEF Spec

\* Every element of m_timers is found under its timer's expiry time: no
\* operation of any thread changes a timer that stays in the set.
THEOREM KeysStayCurrent == Spec => []KeysCurrent
<1>1. TimerInv => KeysCurrent
  BY DEF TimerInv
<1> QED
  BY <1>1, TimerInvariant, PTL

\* A one-shot timer fires at most once, and never after cancel() returned true,
\* for any number of threads that cancel and poll.
THEOREM FiresOnce == Spec => []FiresOnceOrCancelled
<1>1. TimerInv => FiresOnceOrCancelled
  <2> SUFFICES ASSUME TimerInv, NEW t \in Timer \ Recurring
               PROVE  LET held == Cardinality({p \in Poller : t \in cbs[p]}) IN
                      fired[t] + held <= 1 /\ (t \in cancelled => fired[t] + held = 0)
    BY DEF FiresOnceOrCancelled
  <2> DEFINE H == {p \in Poller : t \in cbs[p]}
  <2>1. fired[t] \in Nat /\ fired[t] <= 1
    BY DEF TimerInv, TypeOK, CallbackOnce, MaxFired
  <2>2. CASE H = {}
    <3>1. Cardinality(H) = 0
      BY <2>2, FS_EmptySet
    <3> QED
      BY <2>1, <3>1 DEF TimerInv, CallbackOnce
  <2>3. CASE H # {}
    <3>1. PICK p \in Poller : t \in cbs[p]
      BY <2>3
    <3>2. H = {p} /\ fired[t] = 0 /\ t \notin cancelled
      BY <3>1 DEF TimerInv, CallbackOnce
    <3>3. Cardinality(H) = 1
      BY <3>2, FS_Singleton
    <3> QED
      BY <3>2, <3>3
  <2> QED
    BY <2>2, <2>3
<1> QED
  BY <1>1, TimerInvariant, PTL

\* listExpiredCb hands out no callback before its timer's expiry time, unless the
\* clock was set back by more than an hour: the elements it takes carry the
\* expiry times their timers have now.
THEOREM HandedOutInTime == Spec => NeverEarly
<1> DEFINE InTime == \A p \in Poller, t \in Timer :
                        /\ t \in cbs'[p] /\ t \notin cbs[p]
                        /\ ~ checkClockChange(now[p])
                        => m_next[t] <= now[p]
<1>1. TimerInv /\ [Next]_vars => [InTime]_vars
  <2> SUFFICES ASSUME TimerInv, Next, NEW p \in Poller, NEW t \in Timer,
                      t \in cbs'[p], t \notin cbs[p], ~ checkClockChange(now[p])
               PROVE  m_next[t] <= now[p]
    OBVIOUS
  <2>0. cbs \in [Poller -> SUBSET Timer]
    BY DEF TimerInv, TypeOK
  <2>1. ASSUME NEW q \in Poller, NEW E \in SUBSET m_timers, Lists(q, E) PROVE m_next[t] <= now[p]
    <3>1. q = p /\ \E e \in E : e[1] = t
      BY <2>0, <2>1 DEF Lists
    <3>2. PICK e \in E : e[1] = t
      BY <3>1
    <3>3. e[2] <= now[p] /\ e[2] = m_next[t]
      BY <2>1, <3>1, <3>2 DEF Lists, TimerInv, KeysCurrent
    <3> QED
      BY <3>3
  <2>2. ASSUME NEW q \in Poller, listExpiredCb(q) PROVE m_next[t] <= now[p]
    <3>1. ~ UNCHANGED cbs
      OBVIOUS
    <3> QED
      BY <2>1, <2>2, <3>1, ListEffect DEF TimerInv
  <2>3. ASSUME NEW q \in Poller, scheduleExpired(q) PROVE FALSE
    BY <2>0, <2>3 DEF scheduleExpired
  <2>4. ASSUME NEW q \in Poller,
  \/ getNextTime(q) \/ WaitTimeout(q) \/ WaitTickled(q) \/ WaitEvent(q) \/ WaitInterrupted(q)
                               \/ readNow(q) \/ Resume(q)
        PROVE  FALSE
    BY <2>4 DEF getNextTime, BeginWait, WaitTimeout, WaitTickled, WaitEvent, WaitInterrupted,
                Woken, waitVars, readNow, Resume
  <2>5. ASSUME NEW u \in User, UserStep(u) PROVE FALSE
    BY <2>5 DEF UserStep, NewTimer, addTimer, onTimerInsertedAtFront, cancel, refresh, reset,
                pollVars, waitVars
  <2>6. CASE Tick \/ \E d \in 1 .. MaxTime : SetClockBack(d)
    BY <2>6 DEF Tick, SetClockBack, pollVars, waitVars
  <2> QED
    BY <2>2, <2>3, <2>4, <2>5, <2>6 DEF Next, PollStep
<1> QED
  BY <1>1, TimerInvariant, PTL DEF Spec, NeverEarly

-----------------------------------------------------------------------------
(* Nobody sleeps past the front *)

\* When every element of a set has one in another set that is not later, the
\* front of the other set is not later either.
LEMMA FrontMonotone ==
    ASSUME NEW S, S \subseteq Timer \X Nat, S # {}, NEW T, T \subseteq Timer \X Nat, T # {},
           \A e \in T : \E f \in S : f[2] <= e[2]
    PROVE  FrontKey(S) <= FrontKey(T)
<1>1. /\ FrontKey(S) \in Nat /\ \A e \in S : FrontKey(S) <= e[2]
      /\ FrontKey(T) \in Nat /\ \E e \in T : e[2] = FrontKey(T)
  BY FrontIsLeast
<1>2. PICK e \in T : e[2] = FrontKey(T)
  BY <1>1
<1>3. PICK f \in S : f[2] <= e[2]
  OBVIOUS
<1>4. f[2] \in Nat /\ e[2] \in Nat
  OBVIOUS
<1> QED
  BY <1>1, <1>2, <1>3, <1>4

\* The set of timers has natural numbers as keys.
LEMMA KeysAreNatural ==
    ASSUME TypeOK PROVE m_timers \subseteq Timer \X Nat
<1>1. 0 .. MaxDue \subseteq Nat
  BY DueBound
<1> QED
  BY <1>1 DEF TypeOK

\* As long as the clock is never set back, every clock reading that a timer or
\* a poller holds lies in the past.
LEMMA SinceStep ==
    ASSUME MaxBack = 0, TimerInv, DueSince, [Next]_vars
    PROVE  DueSince' /\ clock <= clock'
<1> USE TimerAssumption DEF TimerInv
<1>0. /\ clock \in Int /\ now \in [Poller -> 0 .. MaxTime]
      /\ \A p \in Poller : now[p] \in Int /\ now[p] <= clock
      /\ \A t \in Timer : m_next[t] \in Int /\ m_next[t] - m_ms[t] <= clock
  BY DueBound DEF TypeOK, DueSince
<1>a. \A t \in Timer : m_ms[t] \in Int
  <2>1. m_ms \in [Timer -> Delay \cup {0}] /\ Delay \cup {0} \subseteq Int
    BY DEF TypeOK
  <2> QED
    BY <2>1
<1>b. \A a, b \in Int : (a + b) - b = a
  OBVIOUS
<1>c. clock <= clock
  BY <1>0
<1>1. ASSUME UNCHANGED <<m_next, m_ms, now, clock>> PROVE DueSince' /\ clock <= clock'
  BY <1>c, <1>1 DEF DueSince
<1>2. ASSUME UNCHANGED <<now, clock>>,
             \A t \in Timer : \/ m_next'[t] = m_next[t] /\ m_ms'[t] = m_ms[t]
                              \/ /\ m_ms'[t] \in Int
                                 /\ \/ m_next'[t] = clock + m_ms'[t]
                                    \/ m_next'[t] = (m_next[t] - m_ms[t]) + m_ms'[t]
                                    \/ \E p \in Poller : m_next'[t] = now[p] + m_ms'[t]
      PROVE  DueSince' /\ clock <= clock'
  <2>1. ASSUME NEW t \in Timer PROVE m_next'[t] - m_ms'[t] <= clock
    <3>1. m_next[t] - m_ms[t] \in Int
      BY <1>0, <1>a
    <3>2. CASE m_next'[t] = m_next[t] /\ m_ms'[t] = m_ms[t]
      BY <1>0, <3>2
    <3>3. CASE m_ms'[t] \in Int /\ m_next'[t] = clock + m_ms'[t]
      BY <1>0, <1>b, <1>c, <3>3
    <3>4. CASE m_ms'[t] \in Int /\ m_next'[t] = (m_next[t] - m_ms[t]) + m_ms'[t]
      BY <1>0, <1>b, <3>1, <3>4
    <3>5. CASE m_ms'[t] \in Int /\ \E p \in Poller : m_next'[t] = now[p] + m_ms'[t]
      BY <1>0, <1>b, <3>5
    <3> QED
      BY <1>2, <3>2, <3>3, <3>4, <3>5
  <2> QED
    BY <1>0, <1>2, <2>1 DEF DueSince
<1>3. ASSUME NEW u \in User, UserStep(u) PROVE DueSince' /\ clock <= clock'
  <2>0. m_next \in [Timer -> 0 .. MaxDue] /\ m_ms \in [Timer -> Delay \cup {0}] /\ Delay \subseteq Int
    BY DEF TypeOK
  <2>1. ASSUME NEW t \in Timer, NEW ms \in Delay, NewTimer(u, t,
  ms) PROVE DueSince' /\ clock <= clock'
    BY <1>2, <2>0, <2>1 DEF NewTimer, pollVars, waitVars, timeVars
  <2>2. CASE addTimer(u) \/ onTimerInsertedAtFront(u)
    BY <1>1, <2>2 DEF addTimer, onTimerInsertedAtFront, pollVars, waitVars, timeVars
  <2>3. ASSUME NEW t \in Timer, cancel(u, t) PROVE DueSince' /\ clock <= clock'
    BY <1>1, <2>3 DEF cancel, pollVars, waitVars, timeVars
  <2>4. ASSUME NEW t \in Timer, refresh(u, t) PROVE DueSince' /\ clock <= clock'
    BY <1>a, <1>2, <2>0, <2>4 DEF refresh, pollVars, waitVars, timeVars
  <2>5. ASSUME NEW t \in Timer, NEW ms \in Delay, NEW from_now \in BOOLEAN,
               reset(u, t, ms, from_now)
        PROVE  DueSince' /\ clock <= clock'
    BY <1>2, <2>0, <2>5 DEF reset, pollVars, waitVars, timeVars
  <2> QED
    BY <1>3, <2>1, <2>2, <2>3, <2>4, <2>5 DEF UserStep
<1>4. ASSUME NEW p \in Poller, listExpiredCb(p) PROVE DueSince' /\ clock <= clock'
  <2>1. UNCHANGED <<m_ms, now, clock>>
    BY <1>4 DEF listExpiredCb, timerVars, timeVars
  <2>2. ASSUME NEW E \in SUBSET m_timers, Lists(p, E) PROVE DueSince' /\ clock <= clock'
    <3>1. \A t \in Timer : m_next'[t] = m_next[t] \/ m_next'[t] = now[p] + m_ms[t]
      BY <2>2 DEF Lists
    <3> QED
      BY <1>a, <1>2, <2>1, <3>1
  <2> QED
    BY <1>1, <1>4, <2>1, <2>2, ListEffect
<1>5. ASSUME NEW p \in Poller, readNow(p) \/ scheduleExpired(p) PROVE DueSince' /\ clock <= clock'
  <2>1. /\ UNCHANGED <<m_next, m_ms, clock>>
        /\ now' = [now EXCEPT ![p] = clock] \/ now' = [now EXCEPT ![p] = 0]
    BY <1>5 DEF readNow, scheduleExpired, timerVars, timeVars
  <2>2. 0 <= clock
    BY DEF TypeOK
  <2> QED
    BY <1>0, <1>c, <2>1, <2>2 DEF DueSince
<1>6. ASSUME NEW p \in Poller, \/ getNextTime(p) \/ WaitTimeout(p) \/ WaitTickled(p) \/ WaitEvent(p)
                             \/ WaitInterrupted(p) \/ Resume(p)
      PROVE  DueSince' /\ clock <= clock'
  <2>1. UNCHANGED <<m_next, m_ms, now, clock>>
    BY <1>6 DEF getNextTime, BeginWait, WaitTimeout, WaitTickled, WaitEvent, WaitInterrupted,
                Woken, waitVars, Resume, timerVars, timeVars
  <2> QED
    BY <1>1, <2>1
<1>7. CASE Tick
  <2>1. UNCHANGED <<m_next, m_ms, now>> /\ clock' = clock + 1
    BY <1>7 DEF Tick, timerVars
  <2>2. \A t \in Timer : m_next[t] - m_ms[t] \in Int
    BY <1>0, <1>a
  <2>3. \A n \in Int : n <= clock => n <= clock + 1
    BY <1>0
  <2> QED
    BY <1>0, <1>c, <2>1, <2>2, <2>3 DEF DueSince
<1>8. ASSUME NEW d \in 1 .. MaxTime, SetClockBack(d) PROVE FALSE
  BY <1>8 DEF SetClockBack, TypeOK
<1>9. CASE UNCHANGED vars
  BY <1>1, <1>9 DEF vars, timerVars, pollVars, waitVars, timeVars
<1> QED
  BY <1>3, <1>4, <1>5, <1>6, <1>7, <1>8, <1>9 DEF Next, PollStep

\* A step of a poller other than getNextTime leaves it awake.
LEMMA AwakeAfter ==
    ASSUME TypeOK, NEW p \in Poller,
           PollStep(p) \/ WaitEvent(p), ~ getNextTime(p)
    PROVE  ppc'[p] # "wait"
<1>1. ppc \in [Poller -> {"next", "wait", "now", "list", "sched", "busy"}]
  BY DEF TypeOK
<1> QED
  BY <1>1 DEF PollStep, WaitTimeout, WaitTickled, WaitEvent, WaitInterrupted, Woken, waitVars,
              readNow, listExpiredCb,
              scheduleExpired, Resume

\* What a user thread does to the announcement of a new front.
LEMMA AnnounceStep ==
    ASSUME TypeOK, AnnouncedOnce, [Next]_vars
    PROVE  AnnouncedOnce'
<1>0. /\ upc \in [User -> {"none", "insert", "front"}]
      /\ ppc \in [Poller -> {"next", "wait", "now", "list", "sched", "busy"}]
  BY DEF TypeOK
<1>1. ASSUME NEW p \in Poller, PollStep(p) \/ WaitEvent(p), ~ getNextTime(p) PROVE AnnouncedOnce'
  BY <1>1, AwakeAfter DEF AnnouncedOnce, LookedAt
<1>2. ASSUME NEW p \in Poller, getNextTime(p) PROVE AnnouncedOnce'
  BY <1>2 DEF getNextTime, BeginWait, AnnouncedOnce, LookedAt
<1>3. ASSUME NEW u \in User, addTimer(u) PROVE AnnouncedOnce'
  <2>1. CASE upc' = [upc EXCEPT ![u] = "front"]
    BY <1>0, <2>1 DEF AnnouncedOnce, LookedAt
  <2>2. CASE Return(u) /\ UNCHANGED m_tickled
    <3>1. /\ upc[u] = "insert" /\ upc' = [upc EXCEPT ![u] = "none"]
          /\ UNCHANGED <<m_tickled, pipe, ppc>>
      BY <1>3, <2>2 DEF addTimer, Return, pollVars, waitVars
    <3> QED
      BY <1>0, <3>1 DEF AnnouncedOnce, LookedAt
  <2> QED
    BY <1>3, <2>1, <2>2 DEF addTimer
<1>4. ASSUME NEW u \in User, onTimerInsertedAtFront(u) PROVE AnnouncedOnce'
  <2>1. pipe' = (pipe \/ \E p \in Poller : ppc[p] # "busy") /\ UNCHANGED ppc
    BY <1>4 DEF onTimerInsertedAtFront, pollVars, waitVars
  <2>2. PICK q \in Poller : TRUE
    BY TimerAssumption
  <2>3. pipe' \/ ppc'[q] # "wait"
    BY <2>1, <2>2
  <2> QED
    BY <2>2, <2>3 DEF AnnouncedOnce, LookedAt
<1>5. ASSUME NEW u \in User, NEW t \in Timer, NEW ms \in Delay, NEW from_now \in BOOLEAN,
             NewTimer(u, t, ms) \/ reset(u, t, ms, from_now)
      PROVE  AnnouncedOnce'
  <2>1. /\ upc[u] = "none" /\ upc' = [upc EXCEPT ![u] = "insert"]
        /\ UNCHANGED <<m_tickled, pipe, ppc>>
    BY <1>5 DEF NewTimer, reset, pollVars, waitVars
  <2> QED
    BY <1>0, <2>1 DEF AnnouncedOnce, LookedAt
<1>6. ASSUME NEW u \in User, NEW t \in Timer, cancel(u, t) \/ refresh(u, t) PROVE AnnouncedOnce'
  BY <1>6 DEF cancel, refresh, userVars, pollVars, waitVars, AnnouncedOnce, LookedAt
<1>7. CASE Tick \/ (\E d \in 1 .. MaxTime : SetClockBack(d)) \/ UNCHANGED vars
  BY <1>7 DEF Tick, SetClockBack, vars, timerVars, userVars, pollVars, waitVars, AnnouncedOnce,
              LookedAt
<1>8. ASSUME NEW p \in Poller, WaitInterrupted(p) PROVE AnnouncedOnce'
  BY <1>8 DEF WaitInterrupted, timerVars, userVars, AnnouncedOnce, LookedAt
<1> QED
  BY <1>1, <1>2, <1>3, <1>4, <1>5, <1>6, <1>7, <1>8 DEF Next, UserStep

\* A step that leaves pollers and clock alone and does not bring the front
\* forward leaves the front watched.
LEMMA WatchKept ==
    ASSUME TypeOK, TypeOK', FrontIsWatched, UNCHANGED <<clock, left, restarted, ppc>>,
           pipe => pipe',
           \A u \in User : upc[u] = "front" => upc'[u] = "front",
           m_timers' # {} => m_timers # {} /\ FrontKey(m_timers) <= FrontKey(m_timers')
    PROVE  FrontIsWatched'
<1> SUFFICES ASSUME m_timers' # {}, ~ pipe', ~ \E u \in User : upc'[u] = "front"
             PROVE  \E p \in Poller :
                       \/ ppc[p] # "wait"
                       \/ clock + left[p] <= Greatest(clock, FrontKey(m_timers') + restarted[p])
  BY DEF FrontIsWatched, LookedAt
<1>1. PICK p \in Poller : \/ ppc[p] # "wait"
                         \/ clock + left[p] <= Greatest(clock, FrontKey(m_timers) + restarted[p])
  BY DEF FrontIsWatched, LookedAt
<1>2. FrontKey(m_timers) \in Nat
  BY KeysAreNatural, FrontIsLeast
<1>3. FrontKey(m_timers') \in Nat
  <2>1. m_timers' \subseteq Timer \X Nat
    <3>1. 0 .. MaxDue \subseteq Nat
      BY DueBound
    <3> QED
      BY <3>1 DEF TypeOK
  <2> QED
    BY <2>1, FrontIsLeast
<1>4. clock \in Int /\ left[p] \in Int /\ restarted[p] \in Int
  BY TimerAssumption DEF TypeOK
<1> QED
  BY <1>1, <1>2, <1>3, <1>4 DEF Greatest

\* Every step keeps the front watched, as long as the clock is never set back.
LEMMA WatchStep ==
    ASSUME MaxBack = 0, TimerInv, TypeOK', WatchInv, [Next]_vars
    PROVE  FrontIsWatched'
<1> USE DEF TimerInv, WatchInv
<1>0. /\ upc \in [User -> {"none", "insert", "front"}]
      /\ ppc \in [Poller -> {"next", "wait", "now", "list", "sched", "busy"}]
      /\ left \in [Poller -> 0 .. MaxWait] /\ next_timeout \in [Poller -> 0 .. MaxWait]
      /\ restarted \in [Poller -> Int]
      /\ clock \in 0 .. MaxTime /\ MaxTime \in Nat /\ MaxWait \in Nat
  BY TimerAssumption DEF TypeOK
<1>a. m_timers \subseteq Timer \X Nat /\ m_timers' \subseteq Timer \X Nat
  <2>1. 0 .. MaxDue \subseteq Nat
    BY DueBound
  <2> QED
    BY <2>1 DEF TypeOK
<1>b. \A e \in m_timers : e[2] \in Nat
  BY <1>a
<1>1. ASSUME NEW p \in Poller, PollStep(p) \/ WaitEvent(p), ~ getNextTime(p) PROVE FrontIsWatched'
  BY <1>1, AwakeAfter DEF FrontIsWatched, LookedAt
<1>2. ASSUME NEW p \in Poller, getNextTime(p) PROVE FrontIsWatched'
  <2>1. CASE m_timers = {}
    BY <1>2, <2>1 DEF getNextTime, BeginWait, FrontIsWatched, LookedAt
  <2>2. CASE m_timers # {}
    <3>1. /\ UNCHANGED <<m_timers, clock>> /\ restarted'[p] = 0
          /\ left'[p] = Least(MaxWait, Greatest(0, FrontKey(m_timers) - clock))
      BY <1>0, <1>2, <2>2 DEF getNextTime, BeginWait, TimeToFront, timeVars
    <3>2. FrontKey(m_timers) \in Nat
      BY <1>a, <2>2, FrontIsLeast
    <3>3. clock + left'[p] <= Greatest(clock, FrontKey(m_timers))
      BY <1>0, <3>1, <3>2 DEF Least, Greatest
    <3>4. clock' + left'[p] <= Greatest(clock', FrontKey(m_timers') + restarted'[p])
      BY <3>1, <3>2, <3>3
    <3> QED
      BY <3>4 DEF FrontIsWatched, LookedAt
  <2> QED
    BY <2>1, <2>2
<1>3. ASSUME NEW u \in User, addTimer(u) PROVE FrontIsWatched'
  <2>0. upc[u] = "insert" /\ m_timers' = m_timers \cup {entry(cur[u])}
        /\ UNCHANGED <<clock, left, restarted, ppc, pipe>>
    BY <1>3 DEF addTimer, pollVars, waitVars, timeVars
  <2>1. CASE upc' = [upc EXCEPT ![u] = "front"]
    BY <1>0, <2>1 DEF FrontIsWatched, LookedAt
  <2>2. CASE Return(u)
    <3>1. \A v \in User : upc[v] = "front" => upc'[v] = "front"
      BY <1>0, <2>0, <2>2 DEF Return
    <3>2. PICK begin \in Front(m_timers') :
             IF begin = entry(cur[u]) /\ ~ m_tickled
               THEN upc' = [upc EXCEPT ![u] = "front"]
               ELSE TRUE
      BY <1>3 DEF addTimer
    <3>3. CASE begin # entry(cur[u])
      <4>1. begin \in m_timers /\ begin[2] = FrontKey(m_timers')
        BY <2>0, <3>2, <3>3 DEF Front
      <4>2. \A e \in m_timers' : FrontKey(m_timers') <= e[2]
        BY <1>a, <4>1, FrontIsLeast, <2>0
      <4>3. FrontKey(m_timers) <= FrontKey(m_timers')
        <5>1. /\ FrontKey(m_timers) <= begin[2]
          BY <1>a, <4>1, FrontIsLeast
        <5> QED
          BY <4>1, <5>1
      <4> QED
        BY <2>0, <3>1, <4>1, <4>3, WatchKept
    <3>4. CASE begin = entry(cur[u]) /\ m_tickled
      <4>1. pipe \/ (\E v \in User : upc'[v] = "front") \/ \E p \in Poller : ppc[p] # "wait"
        BY <3>1, <3>4 DEF AnnouncedOnce, LookedAt
      <4> QED
        BY <2>0, <4>1 DEF FrontIsWatched, LookedAt
    <3>5. CASE begin = entry(cur[u]) /\ ~ m_tickled
      BY <1>0, <3>2, <3>5 DEF FrontIsWatched, LookedAt
    <3> QED
      BY <3>3, <3>4, <3>5
  <2> QED
    BY <1>3, <2>1, <2>2 DEF addTimer
<1>4. ASSUME NEW u \in User, onTimerInsertedAtFront(u) PROVE FrontIsWatched'
  <2>1. pipe' = (pipe \/ \E p \in Poller : ppc[p] # "busy") /\ UNCHANGED ppc
    BY <1>4 DEF onTimerInsertedAtFront, pollVars, waitVars
  <2>2. PICK q \in Poller : TRUE
    BY TimerAssumption
  <2>3. pipe' \/ ppc'[q] # "wait"
    BY <2>1, <2>2
  <2> QED
    BY <2>2, <2>3 DEF FrontIsWatched, LookedAt
<1>5. ASSUME m_timers' \subseteq m_timers, UNCHANGED <<clock, left, restarted, ppc, pipe>>,
             \A u \in User : upc[u] = "front" => upc'[u] = "front"
      PROVE  FrontIsWatched'
  <2>1. ASSUME m_timers' # {} PROVE m_timers # {} /\ FrontKey(m_timers) <= FrontKey(m_timers')
    <3>1. m_timers # {} /\ \A e \in m_timers' : \E f \in m_timers : f[2] <= e[2]
      BY <1>b, <1>5, <2>1
    <3> QED
      BY <1>a, <2>1, <3>1, FrontMonotone
  <2> QED
    BY <1>5, <2>1, WatchKept
<1>6. ASSUME NEW u \in User, NEW t \in Timer, NEW ms \in Delay, NEW from_now \in BOOLEAN,
             NewTimer(u, t, ms) \/ reset(u, t, ms, from_now)
      PROVE  FrontIsWatched'
  <2>1. /\ upc[u] = "none" /\ upc' = [upc EXCEPT ![u] = "insert"]
        /\ UNCHANGED <<clock, left, restarted, ppc, pipe>> /\ m_timers' \subseteq m_timers
    BY <1>6 DEF NewTimer, reset, pollVars, waitVars, timeVars
  <2> QED
    BY <1>0, <1>5, <2>1
<1>7. ASSUME NEW u \in User, NEW t \in Timer, cancel(u, t) PROVE FrontIsWatched'
  BY <1>5, <1>7 DEF cancel, pollVars, waitVars, timeVars
<1>8. ASSUME NEW u \in User, NEW t \in Timer, refresh(u, t) PROVE FrontIsWatched'
  <2>1. /\ UNCHANGED <<clock, left, restarted, ppc, pipe, upc>> /\ entry(t) \in m_timers
        /\ m_timers' = (m_timers \ {entry(t)}) \cup {<<t, clock + m_ms[t]>>}
    BY <1>8 DEF refresh, userVars, pollVars, waitVars, timeVars
  <2>2. m_next[t] <= clock + m_ms[t]
    <3>1. m_next[t] \in Int /\ m_ms[t] \in Int /\ clock \in Int
      <4>1. m_ms \in [Timer -> Delay \cup {0}] /\ Delay \cup {0} \subseteq Int
        BY TimerAssumption DEF TypeOK
      <4> QED
        BY <1>0, <4>1, DueBound DEF TypeOK
    <3>2. m_next[t] - m_ms[t] <= clock
      BY DEF DueSince
    <3> QED
      BY <3>1, <3>2
  <2>3. \A e \in m_timers' : \E f \in m_timers : f[2] <= e[2]
    <3> TAKE e \in m_timers'
    <3>1. CASE e \in m_timers
      BY <1>b, <3>1
    <3>2. CASE e = <<t, clock + m_ms[t]>>
      <4>1. entry(t)[2] = m_next[t] /\ e[2] = clock + m_ms[t]
        BY <3>2 DEF entry
      <4> QED
        BY <2>1, <2>2, <4>1
    <3> QED
      BY <2>1, <3>1, <3>2
  <2>4. m_timers # {} /\ m_timers' # {}
    BY <2>1
  <2>5. FrontKey(m_timers) <= FrontKey(m_timers')
    BY <1>a, <2>3, <2>4, FrontMonotone
  <2> QED
    BY <2>1, <2>4, <2>5, WatchKept
<1>9. ASSUME NEW q \in Poller, Tick \/ WaitInterrupted(q) PROVE FrontIsWatched'
  <2> SUFFICES ASSUME m_timers # {}, ~ pipe, ~ \E u \in User : upc[u] = "front"
               PROVE  \E p \in Poller :
                         \/ ppc[p] # "wait"
                         \/ clock' + left'[p] <= Greatest(clock', FrontKey(m_timers) + restarted'[p])
    BY <1>9 DEF Tick, WaitInterrupted, FrontIsWatched, LookedAt, timerVars, userVars
  <2>1. PICK p \in Poller : \/ ppc[p] # "wait"
                           \/ clock + left[p] <= Greatest(clock, FrontKey(m_timers) + restarted[p])
    BY DEF FrontIsWatched, LookedAt
  <2>2. FrontKey(m_timers) \in Nat
    BY <1>a, FrontIsLeast
  <2>3. left[p] \in Nat /\ clock \in Nat /\ restarted[p] \in Int /\ next_timeout[p] \in Nat
    BY <1>0
  <2>4. CASE Tick
    <3>1. clock' = clock + 1 /\ left'[p] = Greatest(0,
    left[p] - 1) /\ restarted'[p] = restarted[p]
      BY <2>4 DEF Tick
    <3> QED
      BY <2>1, <2>2, <2>3, <3>1 DEF Greatest
  <2>5. CASE WaitInterrupted(q)
    <3>1. CASE p # q
      <4>1. clock' = clock /\ left'[p] = left[p] /\ restarted'[p] = restarted[p]
        BY <1>0, <2>5, <3>1 DEF WaitInterrupted, timeVars
      <4> QED
        BY <2>1, <4>1
    <3>2. CASE p = q
      <4>1. /\ ppc[p] = "wait" /\ left[p] > 0 /\ clock' = clock /\ left'[p] = next_timeout[p]
            /\ restarted'[p] = restarted[p] + next_timeout[p] - left[p]
        BY <1>0, <2>5, <3>2 DEF WaitInterrupted, timeVars
      <4>2. clock + left[p] <= FrontKey(m_timers) + restarted[p]
        BY <2>1, <2>2, <2>3, <4>1 DEF Greatest
      <4>3. clock' + left'[p] <= FrontKey(m_timers) + restarted'[p]
        BY <2>2, <2>3, <4>1, <4>2
      <4> QED
        BY <2>2, <2>3, <4>1, <4>3 DEF Greatest
    <3> QED
      BY <3>1, <3>2
  <2> QED
    BY <1>9, <2>4, <2>5
<1>10. ASSUME NEW d \in 1 .. MaxTime, SetClockBack(d) PROVE FALSE
  BY <1>10 DEF SetClockBack, TypeOK
<1>11. CASE UNCHANGED vars
  BY <1>11 DEF vars, timerVars, userVars, pollVars, waitVars, timeVars, FrontIsWatched, LookedAt
<1> QED
  BY <1>1, <1>2, <1>3, <1>4, <1>6, <1>7, <1>8, <1>9, <1>10, <1>11, TimerAssumption
     DEF Next, UserStep

\* Some poller looks at the set when the front expires or is being woken, or its
\* wait ends later only by what it had waited when a signal made it wait anew
\* (iomanager.cpp:508); for any number of threads, timers and signals, as long as
\* the wall clock is never set back: refresh() relies on it when it does not
\* announce the timer.
THEOREM FrontAlwaysWatched ==
    ASSUME MaxBack = 0
    PROVE  Spec => []FrontIsWatched
<1>1. Init => WatchInv
  <2> SUFFICES ASSUME Init PROVE WatchInv
    OBVIOUS
  <2>1. FrontIsWatched /\ AnnouncedOnce
    BY DEF Init, FrontIsWatched, AnnouncedOnce
  <2>2. DueSince
    BY TimerAssumption DEF Init, DueSince
  <2> QED
    BY <2>1, <2>2 DEF WatchInv
<1>2. TimerInv /\ TimerInv' /\ WatchInv /\ [Next]_vars => WatchInv'
  <2> SUFFICES ASSUME TimerInv, TimerInv', WatchInv, [Next]_vars PROVE WatchInv'
    OBVIOUS
  <2>1. TypeOK' /\ TypeOK
    BY DEF TimerInv
  <2> QED
    BY <2>1, SinceStep, AnnounceStep, WatchStep DEF WatchInv
<1>3. WatchInv => FrontIsWatched
  BY DEF WatchInv
<1> QED
  BY <1>1, <1>2, <1>3, TimerInvariant, PTL DEF Spec

=============================================================================
