-------------------------- MODULE IOManagerProofs --------------------------
(***************************************************************************)
(* Proofs about IOManager, for any number of threads, descriptors and      *)
(* tasks: what idle() and the tasks do to the registered events, and who   *)
(* may resume a coroutine when it is events, cancellations and the         *)
(* application that do so, while timers bring functions.  The ownership    *)
(* invariant of Scheduler, IInv, is shown to hold with the IO manager's    *)
(* steps, together with WaitInv about the tasks that wait for an event.    *)
(***************************************************************************)
EXTENDS IOManager, SchedulerProofs, FiniteSetTheorems

-----------------------------------------------------------------------------
(* The kinds of steps *)

\* A step of run(), of stop() or of a task that the IO manager does not see.
Plain == [Next]_vars /\ UNCHANGED <<ioVars, kernVars, idleVars>>

\* A move between the reads of stopping(), or from there into epoll_wait, or out
\* of the idle coroutine.
Reads(a) ==
    /\ ipc[a] \in {"pending", "timers", "base"} \/ (ipc[a] = "process" /\ got[a] = NoEvents)
    /\ \E q \in {"pending", "timers", "base", "wait"} : Goto(a, q)
    /\ UNCHANGED <<ioVars, kernVars, cbs, got, cur, real_events>>

\* What each step of the specification is for the IO manager.
LEMMA StepKinds ==
    ASSUME ShapeInv, IOVarsOK, IONext
    PROVE  \/ Plain
           \/ \E a \in Actor : Reads(a)
           \/ \E d \in Fd, s \in Signals : Arrive(d, s)
           \/ \E d \in Fd, e \in Wanted, x \in Task : addEvent(d, e, x)
           \/ \E t \in Thread, d \in Fd, e \in Wanted : delEvent(t, d, e) \/ Drain(t, d, e)
           \/ \E t \in Thread, d \in Fd : \E E \in SUBSET Event : CancelEvents(t, d, E)
           \/ \E t \in Thread, f \in TimerCb : addTimer(t, f)
           \/ \E t \in Thread :
                 \/ epoll_wait(t) \/ listExpiredCb(t) \/ scheduleExpired(t)
                 \/ \E d \in Fd : process(t, d)
                 \/ triggerEvent(t) \/ decPending(t)
<1> DEFINE Goal ==
              \/ Plain
              \/ \E a \in Actor : Reads(a)
              \/ \E d \in Fd, s \in Signals : Arrive(d, s)
              \/ \E d \in Fd, e \in Wanted, x \in Task : addEvent(d, e, x)
              \/ \E t \in Thread, d \in Fd, e \in Wanted : delEvent(t, d, e) \/ Drain(t, d, e)
              \/ \E t \in Thread, d \in Fd : \E E \in SUBSET Event : CancelEvents(t, d, E)
              \/ \E t \in Thread, f \in TimerCb : addTimer(t, f)
              \/ \E t \in Thread :
                    \/ epoll_wait(t) \/ listExpiredCb(t) \/ scheduleExpired(t)
                    \/ \E d \in Fd : process(t, d)
                    \/ triggerEvent(t) \/ decPending(t)
<1>0. Thread \subseteq Actor /\ Worker \subseteq Actor /\ Caller \in Actor
  BY DEF Actor, Thread
<1>1. CASE IOApp
  BY <1>1 DEF IOApp, StopPlain, IOUnchanged, Plain, Next, App, StopStep
<1>2. CASE StopCall
  <2>1. CASE tickle(Caller)
    BY <2>1 DEF tickle, Plain
  <2>2. CASE StopTickles
    BY <2>2 DEF StopTickles, IOUnchanged, Plain, Next, StopStep
  <2>3. CASE StopReads \/ StopIsDone \/ StopGoesOn
    <3>1. Reads(Caller)
      BY <2>3 DEF StopReads, StopIsDone, StopGoesOn, ReadPending, ReadTimers,
            StoppingIsTrue, StoppingIsFalse, Goto, IdleUnchanged, Reads
    <3> QED
      BY <1>0, <3>1
  <2>4. CASE StopPlain
    BY <2>4 DEF StopPlain, IOUnchanged, Plain, Next, App, StopStep
  <2> QED
    BY <1>2, <2>1, <2>2, <2>3, <2>4 DEF StopCall
<1>3. ASSUME NEW t \in Thread, ThreadStep(t) PROVE Goal
  <2>1. CASE tickle(t)
    BY <2>1 DEF tickle, Plain
  <2>2. CASE IORun(t)
    BY <2>2 DEF IORun, RunTickles, RunSilent, IOUnchanged, Plain, Next, run
  <2>3. CASE idle(t)
    <3>1. CASE IdleReads(t) \/ IdleEnds(t) \/ IdleStays(t) \/ IdleYields(t)
      <4>1. Reads(t)
        BY <3>1 DEF IdleReads, IdleEnds, IdleStays, IdleYields, IdleAt, ReadPending,
              ReadTimers, StoppingIsTrue, StoppingIsFalse, LeaveIdle, Goto,
              IdleUnchanged, Reads
      <4> QED
        BY <1>0, <4>1
    <3> QED
      BY <2>3, <3>1 DEF idle
  <2>4. CASE IOTask(t)
    <3>1. CASE /\ YieldToReady(t) \/ YieldToHold(t) \/ MainFunc(t)
               /\ IOUnchanged
      BY <3>1 DEF IOUnchanged, Plain, Next, UserCode
    <3>2. ASSUME NEW d \in Fd, NEW e \in Wanted,
                 \/ AwaitEvent(t, d, e)
                 \/ \E f \in Callback : AddCallback(t, d, e, f)
          PROVE  Goal
      <4>1. \E x \in Task : addEvent(d, e, x)
        BY <3>2 DEF AwaitEvent, AddCallback, Calls, ShapeInv, CoShape, InHand, OnStack, Task
      <4> QED
        BY <4>1
    <3>3. ASSUME NEW d \in Fd, NEW e \in Wanted, cancelEvent(t, d, e)
          PROVE  Goal
      <4>1. {e} \in SUBSET Event
        BY IOAssumption
      <4> QED
        BY <3>3, <4>1 DEF cancelEvent
    <3>4. ASSUME NEW d \in Fd, cancelAll(t, d)
          PROVE  Goal
      <4>1. events[d] \in SUBSET Event
        BY DEF IOVarsOK
      <4> QED
        BY <3>4, <4>1 DEF cancelAll
    <3> QED
      BY <2>4, <3>1, <3>2, <3>3, <3>4 DEF IOTask
  <2> QED
    BY <1>3, <2>1, <2>2, <2>3, <2>4 DEF ThreadStep
<1>4. CASE stopPc = "done" /\ UNCHANGED allVars
  BY <1>4 DEF allVars, Plain
<1> QED
  BY <1>1, <1>2, <1>3, <1>4 DEF IONext

-----------------------------------------------------------------------------
(* Type correctness *)

\* The entries that an event makes are well typed.
LEMMA EntriesType ==
    ASSUME IOVarsOK, ContextFilled, NEW d \in Fd, NEW E \in SUBSET events[d]
    PROVE  Entries(d, E) \in Seq(Entry)
<1> DEFINE one(e) == IF e \in E THEN <<[task |-> ctx[d][e], threadId |-> None]>> ELSE <<>>
<1>1. ASSUME NEW e \in Event PROVE one(e) \in Seq(Entry)
  <2>1. CASE e \in E
    <3>1. ctx[d][e] \in Task
      BY <2>1 DEF IOVarsOK, ContextFilled
    <3> QED
      BY <2>1, <3>1 DEF Entry
  <2> QED
    BY <2>1
<1>2. one("READ") \in Seq(Entry) /\ one("WRITE") \in Seq(Entry)
  BY <1>1 DEF Event
<1> HIDE DEF one
<1>3. one("READ") \o one("WRITE") \in Seq(Entry)
  BY <1>2
<1> QED
  BY <1>3 DEF Entries, one

\* SetToSeq of a finite set lists each of its elements once.
LEMMA SetToSeqFacts ==
    ASSUME NEW S, IsFiniteSet(S)
    PROVE  /\ SetToSeq(S) \in [1 .. Cardinality(S) -> S]
           /\ \A i, j \in 1 .. Cardinality(S) : i # j => SetToSeq(S)[i] # SetToSeq(S)[j]
<1> DEFINE F == [1 .. Cardinality(S) -> S]
<1>1. PICK f \in F : f \in Bijection(1 .. Cardinality(S), S)
  BY FS_CardinalityType DEF ExistsBijection, Bijection, Injection
<1>2. IsInjective(f)
  BY <1>1 DEF Bijection, Injection, IsInjective
<1>3. SetToSeq(S) \in F /\ IsInjective(SetToSeq(S))
  BY <1>2 DEF SetToSeq
<1> QED
  BY <1>3 DEF IsInjective

\* The entries that schedule(cbs.begin(), cbs.end()) appends.
LEMMA ExpiredEntries ==
    ASSUME NEW S \in SUBSET TimerCb, IsFiniteSet(S)
    PROVE  LET es == [i \in 1 .. Cardinality(S) |-> [task |-> SetToSeq(S)[i], threadId |-> None]]
           IN  /\ es \in Seq(Entry)
               /\ DOMAIN es = 1 .. Cardinality(S)
               /\ \A i \in DOMAIN es : es[i].task \in S
               /\ \A i, j \in DOMAIN es : i # j => es[i].task # es[j].task
<1> DEFINE n == Cardinality(S)
           q == SetToSeq(S)
           es == [i \in 1 .. n |-> [task |-> q[i], threadId |-> None]]
<1>1. n \in Nat
  BY FS_CardinalityType
<1>2. q \in [1 .. n -> S] /\ \A i, j \in 1 .. n : i # j => q[i] # q[j]
  BY SetToSeqFacts
<1> HIDE DEF n, q
<1>3. \A i \in 1 .. n : q[i] \in S /\ q[i] \in Task
  BY <1>2, IOAssumption DEF Task
<1>4. \A i \in 1 .. n : [task |-> q[i], threadId |-> None] \in Entry
  BY <1>3 DEF Entry
<1>5. es \in Seq(Entry) /\ DOMAIN es = 1 .. n
  BY <1>1, <1>4
<1>6. \A i \in 1 .. n : es[i].task = q[i]
  OBVIOUS
<1> HIDE DEF es
<1>7. /\ \A i \in DOMAIN es : es[i].task \in S
      /\ \A i, j \in DOMAIN es : i # j => es[i].task # es[j].task
  BY <1>2, <1>3, <1>5, <1>6
<1> QED
  BY <1>5, <1>7 DEF es, n, q

\* Every step keeps the scheduler's part of the state well typed and each
\* thread's local co in line with its position in run().
LEMMA IOShapeStep ==
    ASSUME ShapeInv, IdleInv, [IONext]_allVars
    PROVE  ShapeInv'
<1> USE DEF ShapeInv
<1>0. CASE [Next]_vars
  BY <1>0, TypeStep, ShapeStep
<1>u. CASE UNCHANGED vars
  BY <1>0, <1>u
<1>a. ASSUME NEW es \in Seq(Entry), m_coroutines' = m_coroutines \o es,
             steps' \in [Coroutine -> Nat], handles' \subseteq handles,
             UNCHANGED <<m_state, m_activeThreadCount, m_idleThreadCount, m_stopping,
                         m_autoStop, pc, co, cb_coroutine, idleTerm, stopPc>>
      PROVE  ShapeInv'
  <2>1. m_coroutines' \in Seq(Entry)
    BY <1>a DEF TypeOK
  <2> QED
    BY <1>a, <2>1 DEF TypeOK, CoShape, PhaseOK
<1>c. ASSUME NEW t \in Thread, Calls(t) PROVE steps' \in [Coroutine -> Nat]
  BY <1>c DEF Calls, TypeOK, CoShape, InHand, OnStack
<1>e. m_coroutines = m_coroutines \o <<>> /\ <<>> \in Seq(Entry)
  BY DEF TypeOK
<1>1. CASE IOApp
  BY <1>0, <1>1 DEF IOApp, StopPlain, Next, App, StopStep
<1>2. CASE StopCall
  <2>1. CASE tickle(Caller) \/ StopReads
    BY <1>u, <2>1 DEF tickle, StopReads
  <2>2. CASE StopTickles \/ StopPlain
    BY <1>0, <2>2 DEF StopTickles, StopPlain, Next, App, StopStep
  <2>3. CASE StopIsDone
    BY <2>3, ThreadAssumption
       DEF StopIsDone, StopUnchanged, TypeOK, CoShape, PhaseOK, StopPc
  <2>4. CASE StopGoesOn
    <3>1. TypeOK'
      BY <2>4 DEF StopGoesOn, StopUnchanged, TypeOK, StopPc, ThreadPc
    <3>2. CoShape' /\ PhaseOK'
      BY <2>4, ThreadAssumption
         DEF StopGoesOn, StopUnchanged, TypeOK, CoShape, PhaseOK, InHand, OnStack, Thread
    <3> QED
      BY <3>1, <3>2
  <2> QED
    BY <1>2, <2>1, <2>2, <2>3, <2>4 DEF StopCall
<1>3. ASSUME NEW t \in Thread, ThreadStep(t) PROVE ShapeInv'
  <2>0. t \in Actor
    BY DEF Actor, Thread
  <2>1. CASE tickle(t)
    BY <1>u, <2>1 DEF tickle
  <2>2. CASE IORun(t)
    BY <1>0, <2>2 DEF IORun, RunTickles, RunSilent, Next, run
  <2>3. CASE idle(t)
    <3>1. CASE IdleReads(t) \/ IdleStays(t) \/ epoll_wait(t) \/ listExpiredCb(t)
               \/ decPending(t) \/ \E d \in Fd : process(t, d)
      BY <1>u, <3>1 DEF IdleReads, IdleStays, epoll_wait, listExpiredCb, decPending, process
    <3>2. ASSUME pc[t] = "idle", NEW ended \in BOOLEAN, LeaveIdle(t, ended) PROVE ShapeInv'
      <4>1. idleTerm' \in [Thread -> BOOLEAN]
        BY <3>2, Zenon DEF LeaveIdle, TypeOK
      <4>2. TypeOK'
        BY <3>2, <4>1 DEF LeaveIdle, TypeOK, ThreadPc
      <4>3. CoShape' /\ PhaseOK'
        BY <3>2, ThreadAssumption
           DEF LeaveIdle, TypeOK, CoShape, PhaseOK, InHand, OnStack
      <4> QED
        BY <4>2, <4>3
    <3>3. CASE IdleEnds(t) \/ IdleYields(t)
      <4>1. pc[t] = "idle" /\ (LeaveIdle(t, TRUE) \/ LeaveIdle(t, FALSE))
        BY <3>3 DEF IdleEnds, IdleYields, IdleAt
      <4> QED
        BY <3>2, <4>1
    <3>4. CASE scheduleExpired(t)
      <4>1. cbs[t] \in SUBSET TimerCb /\ IsFiniteSet(cbs[t])
        BY <2>0 DEF IdleInv, IOVarsOK, TimersFinite
      <4> DEFINE es == [i \in 1 .. Cardinality(cbs[t]) |->
                           [task |-> SetToSeq(cbs[t])[i], threadId |-> None]]
      <4>2. es \in Seq(Entry)
        BY <4>1, ExpiredEntries
      <4>3. m_coroutines' = m_coroutines \o es
        BY <3>4 DEF scheduleExpired
      <4> HIDE DEF es
      <4> QED
        BY <1>a, <3>4, <4>2, <4>3 DEF scheduleExpired, TypeOK
    <3>5. CASE triggerEvent(t)
      <4>1. cur[t] \in Fd
        BY <2>0, <3>5 DEF triggerEvent, IdleAt, IdleInv, IOVarsOK, IdleLocals
      <4>2. {NextReal(t)} \in SUBSET events[cur[t]]
        BY <3>5 DEF triggerEvent
      <4>3. Entries(cur[t], {NextReal(t)}) \in Seq(Entry)
        BY <4>1, <4>2, EntriesType DEF IdleInv
      <4> QED
        BY <1>a, <3>5, <4>3 DEF triggerEvent, TypeOK
    <3> QED
      BY <2>3, <3>1, <3>3, <3>4, <3>5 DEF idle
  <2>4. CASE IOTask(t)
    <3>1. CASE YieldToReady(t) \/ YieldToHold(t) \/ MainFunc(t)
      BY <1>0, <3>1 DEF Next, UserCode
    <3>2. ASSUME NEW d \in Fd, NEW e \in Wanted, AwaitEvent(t, d, e) PROVE ShapeInv'
      BY <1>c, <3>2 DEF AwaitEvent, addEvent, Calls, TypeOK, ThreadPc, CoShape, PhaseOK,
             InHand, OnStack
    <3>3. ASSUME NEW d \in Fd, NEW e \in Wanted, NEW f \in Callback, AddCallback(t, d, e, f)
          PROVE  ShapeInv'
      BY <1>a, <1>c, <1>e, <3>3 DEF AddCallback, addEvent
    <3>4. ASSUME NEW d \in Fd, NEW e \in Wanted, delEvent(t, d, e) \/ Drain(t, d, e)
          PROVE  ShapeInv'
      BY <1>a, <1>c, <1>e, <3>4 DEF delEvent, Drain, TaskUnchanged
    <3>5. ASSUME NEW d \in Fd, NEW E, CancelEvents(t, d, E) PROVE ShapeInv'
      <4>1. E \in SUBSET events[d]
        BY <3>5 DEF CancelEvents
      <4>2. Entries(d, E) \in Seq(Entry)
        BY <4>1, EntriesType DEF IdleInv
      <4> QED
        BY <1>a, <1>c, <3>5, <4>2 DEF CancelEvents, TaskUnchanged
    <3>6. ASSUME NEW f \in TimerCb, addTimer(t, f) PROVE ShapeInv'
      BY <1>a, <1>c, <1>e, <3>6 DEF addTimer
    <3> QED
      BY <2>4, <3>1, <3>2, <3>3, <3>4, <3>5, <3>6 DEF IOTask, cancelEvent, cancelAll
  <2> QED
    BY <1>3, <2>1, <2>2, <2>3, <2>4 DEF ThreadStep
<1>4. ASSUME NEW d \in Fd, NEW s \in Signals, Arrive(d, s) PROVE ShapeInv'
  BY <1>u, <1>4 DEF Arrive
<1>5. CASE UNCHANGED allVars
  BY <1>u, <1>5 DEF allVars
<1> QED
  BY <1>1, <1>2, <1>3, <1>4, <1>5 DEF IONext

-----------------------------------------------------------------------------
(* m_pendingEventCount *)

\* The registered events, and the threads that have triggered one and not yet
\* counted it.
Registered == {x \in Fd \X Event : x[2] \in events[x[1]]}
Counting   == {a \in Actor : ipc[a] = "dec"}

\* There are two events.
LEMMA FiniteEvent == IsFiniteSet(Event)
<1>1. Event = ({} \cup {"READ"}) \cup {"WRITE"}
  BY DEF Event
<1>2. IsFiniteSet({} \cup {"READ"})
  BY FS_EmptySet, FS_AddElement
<1> QED
  BY <1>1, <1>2, FS_AddElement

\* Sets of events and sets of threads are finite.
LEMMA FiniteSubsets ==
    ASSUME NEW R \in SUBSET (Fd \X Event), NEW C \in SUBSET Actor
    PROVE  /\ IsFiniteSet(R) /\ Cardinality(R) \in Nat
           /\ IsFiniteSet(C) /\ Cardinality(C) \in Nat
<1>1. IsFiniteSet(Fd \X Event)
  BY FiniteEvent, IOAssumption, FS_Product
<1>2. IsFiniteSet(Actor)
  BY ThreadAssumption, FS_AddElement DEF Actor
<1>3. IsFiniteSet(R) /\ IsFiniteSet(C)
  BY <1>1, <1>2, FS_Subset
<1> QED
  BY <1>3, FS_CardinalityType

\* In particular the two that are counted.
LEMMA CountedFinite ==
    /\ IsFiniteSet(Registered) /\ Cardinality(Registered) \in Nat
    /\ IsFiniteSet(Counting) /\ Cardinality(Counting) \in Nat
<1>1. Registered \in SUBSET (Fd \X Event) /\ Counting \in SUBSET Actor
  BY DEF Registered, Counting
<1> QED
  BY <1>1, FiniteSubsets

\* The count after some events of one descriptor were removed.
LEMMA RegisteredWithout ==
    ASSUME IOVarsOK, NEW d \in Fd, NEW E \in SUBSET events[d],
           events' = [events EXCEPT ![d] = @ \ E]
    PROVE  Cardinality(Registered') = Cardinality(Registered) - Cardinality(E)
<1> DEFINE gone == {d} \X E
<1>0. E \subseteq Event /\ events \in [Fd -> SUBSET Event]
  BY DEF IOVarsOK
<1>1. Registered' = Registered \ gone
  <2>1. ASSUME NEW c \in Fd, NEW e \in Event
        PROVE  <<c, e>> \in Registered' <=> <<c, e>> \in Registered \ gone
    BY <1>0 DEF Registered
  <2>2. \A x \in Registered' \cup Registered :
           \E c \in Fd, e \in Event : x = <<c, e>>
    BY DEF Registered
  <2> QED
    BY <2>1, <2>2
<1>2. Registered \cap gone = gone
  <2>1. ASSUME NEW x \in gone PROVE x \in Registered
    <3>1. PICK e \in E : x = <<d, e>>
      OBVIOUS
    <3> QED
      BY <1>0, <3>1 DEF Registered
  <2> QED
    BY <2>1
<1>3. Cardinality(gone) = Cardinality(E)
  <2>1. IsFiniteSet(E)
    BY <1>0, FiniteEvent, FS_Subset
  <2>2. Cardinality(gone) = Cardinality({d}) * Cardinality(E)
    BY <2>1, FS_Singleton, FS_Product
  <2>3. Cardinality({d}) = 1 /\ Cardinality(E) \in Nat
    BY <2>1, FS_Singleton, FS_CardinalityType
  <2> QED
    BY <2>2, <2>3
<1> HIDE DEF gone
<1>4. Cardinality(Registered \ gone) = Cardinality(Registered) - Cardinality(Registered \cap gone)
  BY CountedFinite, FS_Difference
<1> QED
  BY <1>1, <1>2, <1>3, <1>4

\* Every step keeps m_pendingEventCount exact.
LEMMA PendingStep ==
    ASSUME ShapeInv, IdleInv, PendingExact, [IONext]_allVars
    PROVE  PendingExact'
<1> USE DEF IdleInv
<1> DEFINE r == Cardinality(Registered)
           c == Cardinality(Counting)
<1>0. m_pendingEventCount = r + c /\ r \in Nat /\ c \in Nat
  BY CountedFinite DEF PendingExact, Registered, Counting
<1> SUFFICES m_pendingEventCount' = Cardinality(Registered') + Cardinality(Counting')
  BY DEF PendingExact, Registered, Counting
<1>a. ASSUME UNCHANGED <<events, m_pendingEventCount>>,
             \A a \in Actor : ipc'[a] = "dec" <=> ipc[a] = "dec"
      PROVE  m_pendingEventCount' = Cardinality(Registered') + Cardinality(Counting')
  <2>1. Registered' = Registered /\ Counting' = Counting
    BY <1>a DEF Registered, Counting
  <2> QED
    BY <1>0, <1>a, <2>1
<1>t. Thread \subseteq Actor
  BY DEF Actor, Thread
<1>1. CASE Plain
  BY <1>a, <1>1 DEF Plain, ioVars, idleVars
<1>2. ASSUME NEW a \in Actor, Reads(a)
      PROVE  m_pendingEventCount' = Cardinality(Registered') + Cardinality(Counting')
  BY <1>a, <1>2 DEF Reads, Goto, ioVars, IOVarsOK
<1>3. ASSUME NEW d \in Fd, NEW s \in Signals, Arrive(d, s)
      PROVE  m_pendingEventCount' = Cardinality(Registered') + Cardinality(Counting')
  BY <1>a, <1>3 DEF Arrive, ioVars, idleVars
<1>4. ASSUME NEW d \in Fd, NEW e \in Wanted, NEW x \in Task, addEvent(d, e, x)
      PROVE  m_pendingEventCount' = Cardinality(Registered') + Cardinality(Counting')
  <2>0. e \in Event /\ events \in [Fd -> SUBSET Event] /\ e \notin events[d]
    BY <1>4, IOAssumption DEF IOVarsOK, addEvent
  <2>1. Registered' = Registered \cup {<<d, e>>}
    <3>1. ASSUME NEW f \in Fd, NEW g \in Event
          PROVE  <<f, g>> \in Registered' <=> <<f, g>> \in Registered \cup {<<d, e>>}
      BY <1>4, <2>0 DEF Registered, addEvent
    <3>2. \A y \in Registered' \cup Registered \cup {<<d, e>>} :
             \E f \in Fd, g \in Event : y = <<f, g>>
      BY <2>0 DEF Registered
    <3> QED
      BY <3>1, <3>2
  <2>2. <<d, e>> \notin Registered
    BY <2>0 DEF Registered
  <2>3. Cardinality(Registered') = r + 1
    BY <2>1, <2>2, CountedFinite, FS_AddElement
  <2>4. Counting' = Counting /\ m_pendingEventCount' = m_pendingEventCount + 1
    BY <1>4 DEF addEvent, idleVars, Counting
  <2> QED
    BY <1>0, <2>3, <2>4
<1>5. ASSUME NEW t \in Thread, NEW d \in Fd, NEW e \in Wanted, delEvent(t, d, e)
      PROVE  m_pendingEventCount' = Cardinality(Registered') + Cardinality(Counting')
  <2>1. /\ {e} \in SUBSET events[d]
        /\ events' = [events EXCEPT ![d] = @ \ {e}]
        /\ m_pendingEventCount' = m_pendingEventCount - 1
    BY <1>5 DEF delEvent
  <2>2. Counting' = Counting
    BY <1>5 DEF delEvent, TaskUnchanged, idleVars, Counting
  <2>3. Cardinality(Registered') = r - Cardinality({e})
    BY <2>1, RegisteredWithout
  <2> QED
    BY <1>0, <2>1, <2>2, <2>3, FS_Singleton
<1>6. ASSUME NEW t \in Thread, NEW d \in Fd, NEW e \in Wanted, Drain(t, d, e)
      PROVE  m_pendingEventCount' = Cardinality(Registered') + Cardinality(Counting')
  BY <1>a, <1>6 DEF Drain, ioVars, idleVars
<1>7. ASSUME NEW t \in Thread, NEW d \in Fd, NEW E \in SUBSET Event, CancelEvents(t, d, E)
      PROVE  m_pendingEventCount' = Cardinality(Registered') + Cardinality(Counting')
  <2>1. /\ E \in SUBSET events[d]
        /\ events' = [events EXCEPT ![d] = @ \ E]
        /\ m_pendingEventCount' = m_pendingEventCount - Cardinality(E)
    BY <1>7 DEF CancelEvents
  <2>2. Counting' = Counting
    BY <1>7 DEF CancelEvents, TaskUnchanged, idleVars, Counting
  <2>3. Cardinality(Registered') = r - Cardinality(E)
    BY <2>1, RegisteredWithout
  <2>4. Cardinality(E) \in Nat
    BY FiniteEvent, FS_Subset, FS_CardinalityType
  <2> QED
    BY <1>0, <2>1, <2>2, <2>3, <2>4
<1>8. ASSUME NEW t \in Thread, NEW f \in TimerCb, addTimer(t, f)
      PROVE  m_pendingEventCount' = Cardinality(Registered') + Cardinality(Counting')
  BY <1>a, <1>8 DEF addTimer, ioVars, idleVars
<1>9. ASSUME NEW t \in Thread, epoll_wait(t) \/ listExpiredCb(t) \/ scheduleExpired(t)
      PROVE  m_pendingEventCount' = Cardinality(Registered') + Cardinality(Counting')
  BY <1>a, <1>t, <1>9
     DEF epoll_wait, listExpiredCb, scheduleExpired, IdleAt, Goto, ioVars, IOVarsOK
<1>10. ASSUME NEW t \in Thread, NEW d \in Fd, process(t, d)
      PROVE  m_pendingEventCount' = Cardinality(Registered') + Cardinality(Counting')
  BY <1>a, <1>t, <1>10 DEF process, IdleAt, Goto, ioVars, IOVarsOK
<1>11. ASSUME NEW t \in Thread, triggerEvent(t)
      PROVE  m_pendingEventCount' = Cardinality(Registered') + Cardinality(Counting')
  <2> DEFINE d == cur[t]
             e == NextReal(t)
  <2>1. /\ d \in Fd /\ {e} \in SUBSET events[d]
        /\ events' = [events EXCEPT ![d] = @ \ {e}]
        /\ m_pendingEventCount' = m_pendingEventCount
    BY <1>t, <1>11 DEF triggerEvent, IdleAt, IOVarsOK, IdleLocals
  <2>2. Counting' = Counting \cup {t} /\ t \notin Counting
    BY <1>t, <1>11 DEF triggerEvent, IdleAt, Goto, IOVarsOK, Counting
  <2> HIDE DEF d, e
  <2>3. Cardinality(Registered') = r - Cardinality({e})
    BY <2>1, RegisteredWithout
  <2>4. Cardinality(Counting') = c + 1
    BY <2>2, CountedFinite, FS_AddElement
  <2>5. Cardinality({e}) = 1
    BY FS_Singleton
  <2> QED
    BY <1>0, <2>1, <2>3, <2>4, <2>5
<1>12. ASSUME NEW t \in Thread, decPending(t)
      PROVE  m_pendingEventCount' = Cardinality(Registered') + Cardinality(Counting')
  <2>1. Registered' = Registered /\ m_pendingEventCount' = m_pendingEventCount - 1
    BY <1>12 DEF decPending, Registered
  <2>2. Counting' = Counting \ {t} /\ t \in Counting
    BY <1>t, <1>12 DEF decPending, IdleAt, Goto, IOVarsOK, Counting
  <2>3. Cardinality(Counting') = c - 1
    BY <2>2, CountedFinite, FS_RemoveElement
  <2> QED
    BY <1>0, <2>1, <2>3
<1>13. CASE UNCHANGED allVars
  BY <1>a, <1>13 DEF allVars, ioVars, idleVars
<1> QED
  BY <1>1, <1>2, <1>3, <1>4, <1>5, <1>6, <1>7, <1>8, <1>9, <1>10, <1>11, <1>12, <1>13,
     StepKinds

-----------------------------------------------------------------------------
(* The locals of idle() and the locks *)

\* The tickles a thread owes are a number, and the pipe is readable or not.
LEMMA OwesType ==
    ASSUME ShapeInv, IOVarsOK, [IONext]_allVars
    PROVE  owes' \in [Actor -> Nat] /\ pipe' \in BOOLEAN
<1>0. Thread \subseteq Actor /\ Worker \subseteq Actor /\ Caller \in Actor
  BY DEF Actor, Thread
<1>1. owes \in [Actor -> Nat] /\ pipe \in BOOLEAN
  BY DEF IOVarsOK
<1>2. Cardinality(Thread) \in Nat
  <2>1. IsFiniteSet(Worker \cup {Caller}) /\ Thread \in SUBSET (Worker \cup {Caller})
    BY ThreadAssumption, FS_AddElement DEF Thread
  <2> QED
    BY <2>1, FS_Subset, FS_CardinalityType
<1>a. ASSUME NEW a \in Actor, OwesTickle(a) PROVE owes' \in [Actor -> Nat]
  BY <1>1, <1>a DEF OwesTickle
<1>b. ASSUME NEW a \in Actor, tickle(a) PROVE owes' \in [Actor -> Nat] /\ pipe' \in BOOLEAN
  <2>1. owes' \in [Actor -> Nat]
    BY <1>1, <1>b DEF tickle
  <2>2. pipe' \in BOOLEAN
    BY <1>1, <1>b, Zenon DEF tickle
  <2> QED
    BY <2>1, <2>2
<1>3. CASE IOApp
  <2>1. UNCHANGED pipe
    BY <1>3 DEF IOApp, IOUnchanged, StopPlain
  <2>2. UNCHANGED owes \/ OwesTickle(Caller)
    BY <1>3 DEF IOApp, StopPlain
  <2> QED
    BY <1>0, <1>1, <1>a, <2>1, <2>2
<1>4. CASE StopCall
  <2>1. CASE tickle(Caller)
    BY <1>0, <1>b, <2>1
  <2>2. CASE StopTickles
    BY <1>0, <1>1, <1>2, <2>2 DEF StopTickles, IOUnchanged
  <2>3. CASE StopReads \/ StopIsDone \/ StopGoesOn \/ StopPlain
    BY <1>1, <2>3 DEF StopReads, StopIsDone, StopGoesOn, StopPlain, IdleUnchanged, IOUnchanged
  <2> QED
    BY <1>4, <2>1, <2>2, <2>3 DEF StopCall
<1>5. ASSUME NEW t \in Thread, ThreadStep(t)
      PROVE  owes' \in [Actor -> Nat] /\ pipe' \in BOOLEAN
  <2>1. CASE tickle(t)
    BY <1>0, <1>b, <2>1
  <2>2. CASE IORun(t)
    BY <1>0, <1>1, <1>a, <2>2 DEF IORun, IOUnchanged, RunTickles
  <2>3. CASE idle(t)
    <3>1. CASE IdleReads(t) \/ IdleEnds(t) \/ IdleStays(t) \/ IdleYields(t) \/ listExpiredCb(t)
               \/ (\E d \in Fd : process(t, d)) \/ decPending(t)
      BY <1>1, <3>1
         DEF IdleReads, IdleEnds, IdleStays, IdleYields, listExpiredCb, process, decPending,
             IdleUnchanged
    <3>2. CASE scheduleExpired(t) \/ triggerEvent(t)
      BY <1>0, <1>1, <1>a, <3>2 DEF scheduleExpired, triggerEvent
    <3>3. CASE epoll_wait(t)
      BY <1>1, <3>3 DEF epoll_wait
    <3> QED
      BY <2>3, <3>1, <3>2, <3>3 DEF idle
  <2>4. CASE IOTask(t)
    <3>1. CASE IOUnchanged /\ UNCHANGED owes
      BY <1>1, <3>1 DEF IOUnchanged
    <3>2. ASSUME NEW d \in Fd, NEW e \in Wanted,
                 \/ AwaitEvent(t, d, e)
                 \/ \E f \in Callback : AddCallback(t, d, e, f)
                 \/ delEvent(t, d, e)
                 \/ Drain(t, d, e)
          PROVE  owes' \in [Actor -> Nat] /\ pipe' \in BOOLEAN
      BY <1>1, <3>2 DEF AwaitEvent, AddCallback, addEvent, delEvent, Drain, TaskUnchanged
    <3>3. ASSUME NEW d \in Fd, NEW E, CancelEvents(t, d, E)
          PROVE  owes' \in [Actor -> Nat] /\ pipe' \in BOOLEAN
      BY <1>0, <1>1, <1>a, <3>3 DEF CancelEvents, TaskUnchanged
    <3>4. ASSUME NEW f \in TimerCb, addTimer(t, f)
          PROVE  owes' \in [Actor -> Nat] /\ pipe' \in BOOLEAN
      BY <1>0, <1>1, <3>4 DEF addTimer
    <3> QED
      BY <2>4, <3>1, <3>2, <3>3, <3>4 DEF IOTask, cancelEvent, cancelAll
  <2> QED
    BY <1>5, <2>1, <2>2, <2>3, <2>4 DEF ThreadStep
<1>6. ASSUME NEW d \in Fd, NEW s \in Signals, Arrive(d, s)
      PROVE  owes' \in [Actor -> Nat] /\ pipe' \in BOOLEAN
  BY <1>1, <1>6 DEF Arrive
<1>7. CASE UNCHANGED allVars
  BY <1>1, <1>7 DEF allVars
<1> QED
  BY <1>3, <1>4, <1>5, <1>6, <1>7 DEF IONext

\* Every step keeps the invariant of idle().
LEMMA IdleStep ==
    ASSUME ShapeInv, IdleInv, PendingExact, [IONext]_allVars
    PROVE  IdleInv'
<1> USE IOAssumption DEF IdleInv
<1>p. m_pendingEventCount' \in Nat
  <2>1. PendingExact'
    BY PendingStep
  <2>2. m_pendingEventCount' = Cardinality(Registered') + Cardinality(Counting')
    BY <2>1 DEF PendingExact, Registered, Counting
  <2>3. Registered' \in SUBSET (Fd \X Event) /\ Counting' \in SUBSET Actor
    BY DEF Registered, Counting
  <2>4. Cardinality(Registered') \in Nat /\ Cardinality(Counting') \in Nat
    BY <2>3, FiniteSubsets
  <2> QED
    BY <2>2, <2>4
<1>o. owes' \in [Actor -> Nat] /\ pipe' \in BOOLEAN
  BY OwesType
<1>t. Thread \subseteq Actor
  BY DEF Actor, Thread
<1>1. CASE Plain
  <2>1. UNCHANGED <<events, ctx, timers, level, edge, arrived, ipc, cbs, got, cur, real_events>>
    BY <1>1 DEF Plain, ioVars, kernVars, idleVars
  <2>2. IOVarsOK'
    BY <1>p, <1>o, <2>1 DEF IOVarsOK
  <2>3. ContextFilled' /\ IdleLocals' /\ TriggeredIsOff' /\ LockExclusive' /\ TimersFinite'
    BY <2>1 DEF ContextFilled, IdleLocals, TriggeredIsOff, LockExclusive, TimersFinite, NextReal
  <2> QED
    BY <2>2, <2>3
<1>2. ASSUME NEW a \in Actor, Reads(a) PROVE IdleInv'
  <2>1. UNCHANGED <<events, ctx, timers, level, edge, arrived, cbs, got, cur, real_events>>
    BY <1>2 DEF Reads, ioVars, kernVars
  <2>2. PICK q \in {"pending", "timers", "base", "wait"} : ipc' = [ipc EXCEPT ![a] = q]
    BY <1>2 DEF Reads, Goto
  <2>3. IOVarsOK'
    BY <1>p, <1>o, <2>1, <2>2 DEF IOVarsOK, IdlePc
  <2>4. IdleLocals' /\ TriggeredIsOff'
    BY <1>2, <2>1, <2>2 DEF IOVarsOK, IdleLocals, TriggeredIsOff, NextReal, Reads, NoEvents
  <2>5. ContextFilled' /\ LockExclusive' /\ TimersFinite'
    BY <2>1 DEF ContextFilled, LockExclusive, TimersFinite
  <2> QED
    BY <2>3, <2>4, <2>5
<1>3. ASSUME NEW d \in Fd, NEW s \in Signals, Arrive(d, s) PROVE IdleInv'
  <2>1. UNCHANGED <<events, ctx, timers, ipc, cbs, got, cur, real_events>>
    BY <1>3 DEF Arrive, ioVars, idleVars
  <2>2. IOVarsOK'
    BY <1>p, <1>o, <1>3, <2>1 DEF IOVarsOK, Arrive
  <2>3. ContextFilled' /\ IdleLocals' /\ TriggeredIsOff' /\ LockExclusive' /\ TimersFinite'
    BY <2>1 DEF ContextFilled, IdleLocals, TriggeredIsOff, LockExclusive, TimersFinite, NextReal
  <2> QED
    BY <2>2, <2>3
<1>4. ASSUME NEW d \in Fd, NEW e \in Wanted, NEW x \in Task, addEvent(d, e, x) PROVE IdleInv'
  <2>1. UNCHANGED <<timers, level, arrived, ipc, cbs, got, cur, real_events>>
    BY <1>4 DEF addEvent, idleVars
  <2>2. IOVarsOK'
    BY <1>p, <1>o, <1>4, <2>1 DEF IOVarsOK, addEvent, epoll_ctl
  <2>3. ContextFilled'
    BY <1>4, TaskAssumption DEF IOVarsOK, ContextFilled, addEvent
  <2>4. TriggeredIsOff'
    BY <1>4, <2>1 DEF IOVarsOK, TriggeredIsOff, addEvent, Locked, NextReal, IdleLocals
  <2>5. IdleLocals' /\ LockExclusive' /\ TimersFinite'
    BY <2>1 DEF IdleLocals, LockExclusive, TimersFinite
  <2> QED
    BY <2>2, <2>3, <2>4, <2>5
<1>5. ASSUME NEW t \in Thread, NEW d \in Fd, NEW e \in Wanted, delEvent(t, d, e)
      PROVE  IdleInv'
  <2>1. UNCHANGED <<timers, level, arrived, ipc, cbs, got, cur, real_events>>
    BY <1>5 DEF delEvent, TaskUnchanged, idleVars
  <2>2. IOVarsOK'
    BY <1>p, <1>o, <1>5, <2>1 DEF IOVarsOK, delEvent, epoll_ctl
  <2>3. ContextFilled'
    BY <1>5 DEF IOVarsOK, ContextFilled, delEvent
  <2>4. TriggeredIsOff'
    BY <1>5, <2>1 DEF IOVarsOK, TriggeredIsOff, delEvent, NextReal, IdleLocals
  <2>5. IdleLocals' /\ LockExclusive' /\ TimersFinite'
    BY <2>1 DEF IdleLocals, LockExclusive, TimersFinite
  <2> QED
    BY <2>2, <2>3, <2>4, <2>5
<1>6. ASSUME NEW t \in Thread, NEW d \in Fd, NEW e \in Wanted, Drain(t, d, e)
      PROVE  IdleInv'
  <2>1. UNCHANGED <<events, ctx, timers, edge, arrived, ipc, cbs, got, cur, real_events>>
    BY <1>6 DEF Drain, ioVars, idleVars
  <2>2. IOVarsOK'
    BY <1>p, <1>o, <1>6, <2>1 DEF IOVarsOK, Drain
  <2>3. ContextFilled' /\ IdleLocals' /\ TriggeredIsOff' /\ LockExclusive' /\ TimersFinite'
    BY <2>1 DEF ContextFilled, IdleLocals, TriggeredIsOff, LockExclusive, TimersFinite, NextReal
  <2> QED
    BY <2>2, <2>3
<1>7. ASSUME NEW t \in Thread, NEW d \in Fd, NEW E \in SUBSET Event, CancelEvents(t, d, E)
      PROVE  IdleInv'
  <2>1. UNCHANGED <<timers, level, arrived, ipc, cbs, got, cur, real_events>>
    BY <1>7 DEF CancelEvents, TaskUnchanged, idleVars
  <2>2. /\ events' = [events EXCEPT ![d] = @ \ E]
        /\ ctx' = [ctx EXCEPT ![d] = [e \in Event |-> IF e \in E THEN None ELSE ctx[d][e]]]
        /\ edge' \subseteq edge \cup {d}
    BY <1>7 DEF CancelEvents, epoll_ctl, IOVarsOK
  <2>3. IOVarsOK'
    BY <1>p, <1>o, <2>1, <2>2 DEF IOVarsOK
  <2>4. ContextFilled'
    BY <2>2 DEF IOVarsOK, ContextFilled
  <2>5. TriggeredIsOff'
    BY <2>1, <2>2 DEF IOVarsOK, TriggeredIsOff, NextReal, IdleLocals
  <2>6. IdleLocals' /\ LockExclusive' /\ TimersFinite'
    BY <2>1 DEF IdleLocals, LockExclusive, TimersFinite
  <2> QED
    BY <2>3, <2>4, <2>5, <2>6
<1>8. ASSUME NEW t \in Thread, NEW f \in TimerCb, addTimer(t, f) PROVE IdleInv'
  <2>1. UNCHANGED <<events, ctx, level, edge, arrived, ipc, cbs, got, cur, real_events>>
    BY <1>8 DEF addTimer, kernVars, idleVars
  <2>2. timers' = timers \cup {f}
    BY <1>8 DEF addTimer
  <2>3. IOVarsOK'
    BY <1>p, <1>o, <2>1, <2>2 DEF IOVarsOK
  <2>4. TimersFinite'
    BY <2>1, <2>2, FS_AddElement DEF TimersFinite
  <2>5. ContextFilled' /\ IdleLocals' /\ TriggeredIsOff' /\ LockExclusive'
    BY <2>1 DEF ContextFilled, IdleLocals, TriggeredIsOff, LockExclusive, NextReal
  <2> QED
    BY <2>3, <2>4, <2>5
<1>9. ASSUME NEW t \in Thread, epoll_wait(t) PROVE IdleInv'
  <2>1. UNCHANGED <<events, ctx, timers, level, arrived, cbs, cur, real_events>>
    BY <1>9 DEF epoll_wait, ioVars
  <2>2. /\ ipc' = [ipc EXCEPT ![t] = "expired"] /\ ipc[t] = "wait"
        /\ edge' = {}
    BY <1>9 DEF epoll_wait, Goto, IdleAt
  <2>3. [d \in Fd |-> IF d \in edge THEN Reported(d,
  events[d]) ELSE {}] \in [Fd -> SUBSET Signals]
    BY DEF IOVarsOK, Reported
  <2>4. got' \in [Actor -> [Fd -> SUBSET Signals]] /\ \A a \in Actor \ {t} : got'[a] = got[a]
    BY <1>t, <1>9, <2>3 DEF epoll_wait, IOVarsOK
  <2>5. IOVarsOK'
    BY <1>p, <1>o, <1>t, <2>1, <2>2, <2>4 DEF IOVarsOK, IdlePc
  <2>6. IdleLocals' /\ TriggeredIsOff'
    BY <1>t, <2>1, <2>2, <2>4 DEF IOVarsOK, IdleLocals, TriggeredIsOff, NextReal
  <2>7. ContextFilled' /\ LockExclusive' /\ TimersFinite'
    BY <2>1 DEF ContextFilled, LockExclusive, TimersFinite
  <2> QED
    BY <2>5, <2>6, <2>7
<1>10. ASSUME NEW t \in Thread, listExpiredCb(t) PROVE IdleInv'
  <2>1. UNCHANGED <<events, ctx, level, edge, arrived, got, cur,
  real_events>> /\ ipc[t] = "expired"
    BY <1>10 DEF listExpiredCb, kernVars, IdleAt
  <2>2. PICK E \in SUBSET timers :
           /\ timers' = timers \ E
           /\ cbs' = [cbs EXCEPT ![t] = E]
           /\ ipc' = [ipc EXCEPT ![t] = IF E = {} THEN "process" ELSE "sched"]
    BY <1>10 DEF listExpiredCb, Goto
  <2>3. IOVarsOK'
    BY <1>p, <1>o, <1>t, <2>1, <2>2 DEF IOVarsOK, IdlePc
  <2>4. TimersFinite'
    <3>1. IsFiniteSet(E) /\ IsFiniteSet(timers')
      BY <2>2, FS_Subset DEF TimersFinite
    <3> QED
      BY <1>t, <2>2, <3>1 DEF TimersFinite, IOVarsOK
  <2>5. IdleLocals' /\ TriggeredIsOff'
    BY <1>t, <2>1, <2>2 DEF IOVarsOK, IdleLocals, TriggeredIsOff, NextReal, NoEvents
  <2>6. ContextFilled' /\ LockExclusive'
    BY <2>1 DEF ContextFilled, LockExclusive
  <2> QED
    BY <2>3, <2>4, <2>5, <2>6
<1>11. ASSUME NEW t \in Thread, scheduleExpired(t) PROVE IdleInv'
  <2>1. UNCHANGED <<events, ctx, timers, level, edge, arrived, got, cur, real_events>>
    BY <1>11 DEF scheduleExpired, ioVars, kernVars
  <2>2. /\ ipc[t] = "sched" /\ ipc' = [ipc EXCEPT ![t] = "process"]
        /\ cbs' = [cbs EXCEPT ![t] = {}]
    BY <1>11 DEF scheduleExpired, Goto, IdleAt
  <2>3. IOVarsOK'
    BY <1>p, <1>o, <1>t, <2>1, <2>2 DEF IOVarsOK, IdlePc
  <2>4. TimersFinite'
    BY <1>t, <2>1, <2>2, FS_EmptySet DEF TimersFinite, IOVarsOK
  <2>5. IdleLocals' /\ TriggeredIsOff'
    BY <1>t, <2>1, <2>2 DEF IOVarsOK, IdleLocals, TriggeredIsOff, NextReal, NoEvents
  <2>6. ContextFilled' /\ LockExclusive'
    BY <2>1 DEF ContextFilled, LockExclusive
  <2> QED
    BY <2>3, <2>4, <2>5, <2>6
<1>12. ASSUME NEW t \in Thread, NEW d \in Fd, process(t, d) PROVE IdleInv'
  <2> DEFINE real == (got[t][d] \cap Event) \cup (IF "HUP" \in got[t][d] THEN events[d] ELSE {})
  <2>1. UNCHANGED <<events, ctx, timers, level, arrived, cbs>>
    BY <1>12 DEF process, ioVars
  <2>2. /\ ipc[t] = "process" /\ ~ Locked(d)
        /\ got' = [got EXCEPT ![t][d] = {}]
        /\ \/ UNCHANGED <<ipc, cur, real_events, edge>>
           \/ /\ real \cap events[d] # {}
              /\ edge' \subseteq edge \cup {d}
              /\ real_events' = [real_events EXCEPT ![t] = real]
              /\ cur' = [cur EXCEPT ![t] = d]
              /\ ipc' = [ipc EXCEPT ![t] = "trigger"]
    BY <1>12 DEF process, Goto, IdleAt, epoll_ctl, IOVarsOK
  <2>3. real \subseteq Event
    BY DEF IOVarsOK
  <2> HIDE DEF real
  <2>4. IOVarsOK'
    <3>1. got' \in [Actor -> [Fd -> SUBSET Signals]]
      BY <1>t, <2>2 DEF IOVarsOK
    <3>2. edge' \subseteq Fd
      BY <2>2 DEF IOVarsOK
    <3>3. /\ ipc' \in [Actor -> IdlePc]
          /\ cur' \in [Actor -> Fd \cup {None}]
          /\ real_events' \in [Actor -> SUBSET Event]
      <4>1. CASE UNCHANGED <<ipc, cur, real_events>>
        BY <4>1 DEF IOVarsOK
      <4>2. CASE /\ real_events' = [real_events EXCEPT ![t] = real]
                 /\ cur' = [cur EXCEPT ![t] = d]
                 /\ ipc' = [ipc EXCEPT ![t] = "trigger"]
        BY <1>t, <2>3, <4>2 DEF IOVarsOK, IdlePc
      <4> QED
        BY <2>2, <4>1, <4>2
    <3> QED
      BY <1>p, <1>o, <2>1, <3>1, <3>2, <3>3 DEF IOVarsOK
  <2>5. IdleLocals'
    BY <1>t, <2>2, <2>3, ZenonT(30) DEF IOVarsOK, IdleLocals, NoEvents
  <2>6. TriggeredIsOff'
    BY <1>t, <2>1, <2>2 DEF IOVarsOK, TriggeredIsOff, NextReal
  <2>7. LockExclusive'
    <3>1. \A a \in Actor : cur[a] # d
      BY <2>2 DEF Locked, IdleLocals
    <3>2. CASE UNCHANGED cur
      BY <3>2 DEF LockExclusive
    <3>3. CASE cur' = [cur EXCEPT ![t] = d]
      BY <1>t, <3>1, <3>3 DEF IOVarsOK, LockExclusive
    <3> QED
      BY <2>2, <3>2, <3>3
  <2>8. ContextFilled' /\ TimersFinite'
    BY <2>1 DEF ContextFilled, TimersFinite
  <2> QED
    BY <2>4, <2>5, <2>6, <2>7, <2>8
<1>13. ASSUME NEW t \in Thread, triggerEvent(t) PROVE IdleInv'
  <2> DEFINE d == cur[t]
             e == NextReal(t)
  <2>1. UNCHANGED <<timers, level, edge, arrived, cbs, got, cur, real_events>>
    BY <1>13 DEF triggerEvent, kernVars
  <2>2. /\ ipc[t] = "trigger" /\ ipc' = [ipc EXCEPT ![t] = "dec"]
        /\ events' = [events EXCEPT ![d] = @ \ {e}]
        /\ ctx' = [ctx EXCEPT ![d][e] = None]
    BY <1>13 DEF triggerEvent, Goto, IdleAt
  <2>3. d \in Fd /\ e \in Event
    BY <1>t, <2>2 DEF IOVarsOK, IdleLocals, NextReal, Event
  <2>4. IOVarsOK'
    <3>1. ctx' \in [Fd -> [Event -> Task \cup {None}]] /\ events' \in [Fd -> SUBSET Event]
      BY <2>2, <2>3 DEF IOVarsOK
    <3> QED
      BY <1>p, <1>o, <1>t, <2>1, <2>2, <3>1 DEF IOVarsOK, IdlePc
  <2>5. ContextFilled'
    BY <2>2, <2>3 DEF IOVarsOK, ContextFilled
  <2>6. IdleLocals'
    BY <1>t, <2>1, <2>2 DEF IOVarsOK, IdleLocals, NoEvents
  <2>7. TriggeredIsOff'
    BY <1>t, <2>1, <2>2, <2>3 DEF IOVarsOK, TriggeredIsOff, NextReal, IdleLocals
  <2>8. LockExclusive' /\ TimersFinite'
    BY <2>1 DEF LockExclusive, TimersFinite
  <2> QED
    BY <2>4, <2>5, <2>6, <2>7, <2>8
<1>14. ASSUME NEW t \in Thread, decPending(t) PROVE IdleInv'
  <2> DEFINE rest == real_events[t] \ {NextReal(t)}
  <2>1. UNCHANGED <<events, ctx, timers, level, edge, arrived, cbs, got>>
    BY <1>14 DEF decPending, kernVars
  <2>2. /\ ipc[t] = "dec"
        /\ real_events' = [real_events EXCEPT ![t] = rest]
        /\ cur' = [cur EXCEPT ![t] = IF rest = {} THEN None ELSE @]
        /\ ipc' = [ipc EXCEPT ![t] = IF rest = {} THEN "process" ELSE "trigger"]
    BY <1>14 DEF decPending, Goto, IdleAt
  <2>3. rest \subseteq Event
    BY <1>t DEF IOVarsOK
  <2> HIDE DEF rest
  <2>4. IOVarsOK'
    BY <1>p, <1>o, <1>t, <2>1, <2>2, <2>3 DEF IOVarsOK, IdlePc
  <2>5. IdleLocals'
    BY <1>t, <2>1, <2>2 DEF IOVarsOK, IdleLocals, NoEvents
  <2>6. TriggeredIsOff' /\ LockExclusive'
    BY <1>t, <2>1, <2>2 DEF IOVarsOK, TriggeredIsOff, LockExclusive, NextReal
  <2>7. ContextFilled' /\ TimersFinite'
    BY <2>1 DEF ContextFilled, TimersFinite
  <2> QED
    BY <2>4, <2>5, <2>6, <2>7
<1>15. CASE UNCHANGED allVars
  BY <1>1, <1>15 DEF allVars, Plain
<1> QED
  BY <1>1, <1>2, <1>3, <1>4, <1>5, <1>6, <1>7, <1>8, <1>9, <1>10, <1>11, <1>12, <1>13,
     <1>14, <1>15, StepKinds

-----------------------------------------------------------------------------
(* No edge is lost *)

\* Where the report that d is ready for e is on its way.
Known(d, e) ==
    \/ d \in edge
    \/ \E a \in Actor : e \in got[a][d] \/ (cur[a] = d /\ e \in real_events[a])

\* A change of d's interest to E by epoll_ctl loses no report: epoll itself looks
\* at what is ready.
LEMMA CtlReports ==
    ASSUME IOVarsOK, ReadyIsReported, NEW d \in Fd, NEW E \in SUBSET Event,
           epoll_ctl(d, E), events' = [events EXCEPT ![d] = E],
           UNCHANGED <<level, got, cur, real_events>>
    PROVE  ReadyIsReported'
<1> SUFFICES ASSUME NEW c \in Fd, NEW e \in events'[c], e \in level[c] PROVE Known(c, e)'
  BY DEF ReadyIsReported, Known
<1>1. CASE c = d
  <2>1. e \in E /\ e \in Reported(d, E)
    BY <1>1 DEF IOVarsOK, Reported
  <2> QED
    BY <1>1, <2>1 DEF epoll_ctl, Known
<1>2. CASE c # d
  <2>1. Known(c, e)
    BY <1>2 DEF ReadyIsReported, Known, IOVarsOK
  <2> QED
    BY <1>2, <2>1 DEF epoll_ctl, Known
<1> QED
  BY <1>1, <1>2

\* Every step keeps the reports of what is ready.
LEMMA ReportStep ==
    ASSUME ShapeInv, IdleInv, ReadyIsReported, [IONext]_allVars
    PROVE  ReadyIsReported'
<1> USE DEF IdleInv
<1>t. Thread \subseteq Actor
  BY DEF Actor, Thread
<1>a. ASSUME UNCHANGED <<edge, got, cur, real_events>>,
             \A d \in Fd : events'[d] \subseteq events[d] /\ level'[d] \subseteq level[d]
      PROVE  ReadyIsReported'
  BY <1>a DEF ReadyIsReported
<1>1. CASE Plain \/ \E a \in Actor : Reads(a)
  BY <1>a, <1>1 DEF Plain, Reads, ioVars, kernVars, idleVars
<1>3. ASSUME NEW d \in Fd, NEW s \in Signals, Arrive(d, s) PROVE ReadyIsReported'
  <2>1. UNCHANGED <<events, got, cur, real_events>> /\ edge \subseteq edge'
        /\ level' = [level EXCEPT ![d] = @ \cup {s}]
        /\ (s \in events[d] => d \in edge')
    BY <1>3 DEF Arrive, ioVars, idleVars, IOVarsOK
  <2> SUFFICES ASSUME NEW c \in Fd, NEW e \in events[c], e \in level'[c] PROVE Known(c, e)'
    BY <2>1 DEF ReadyIsReported, Known
  <2>2. CASE c = d /\ e = s
    BY <2>1, <2>2 DEF Known
  <2>3. CASE e \in level[c]
    BY <2>1, <2>3 DEF ReadyIsReported, Known
  <2> QED
    BY <2>1, <2>2, <2>3 DEF IOVarsOK
<1>4. ASSUME NEW d \in Fd, NEW e \in Wanted, NEW x \in Task, addEvent(d, e, x)
      PROVE  ReadyIsReported'
  <2>1. events[d] \cup {e} \in SUBSET Event
    BY IOAssumption DEF IOVarsOK
  <2> QED
    BY <1>4, <2>1, CtlReports DEF addEvent, idleVars
<1>5. ASSUME NEW t \in Thread, NEW d \in Fd, NEW E \in SUBSET Event, CancelEvents(t, d, E)
      PROVE  ReadyIsReported'
  <2>1. events[d] \ E \in SUBSET Event
    BY DEF IOVarsOK
  <2> QED
    BY <1>5, <2>1, CtlReports DEF CancelEvents, TaskUnchanged, idleVars
<1>6. ASSUME NEW t \in Thread, NEW d \in Fd, NEW e \in Wanted, delEvent(t, d, e)
      PROVE  ReadyIsReported'
  <2>1. events[d] \ {e} \in SUBSET Event
    BY DEF IOVarsOK
  <2> QED
    BY <1>6, <2>1, CtlReports DEF delEvent, TaskUnchanged, idleVars
<1>7. ASSUME NEW t \in Thread, NEW d \in Fd, NEW e \in Wanted, Drain(t, d, e)
      PROVE  ReadyIsReported'
  BY <1>a, <1>7 DEF Drain, ioVars, idleVars, IOVarsOK
<1>8. ASSUME NEW t \in Thread, NEW f \in TimerCb, addTimer(t, f) PROVE ReadyIsReported'
  BY <1>a, <1>8 DEF addTimer, kernVars, idleVars
<1>9. ASSUME NEW t \in Thread, listExpiredCb(t) \/ scheduleExpired(t) PROVE ReadyIsReported'
  BY <1>a, <1>9 DEF listExpiredCb, scheduleExpired, ioVars, kernVars
<1>10. ASSUME NEW t \in Thread, epoll_wait(t) PROVE ReadyIsReported'
  <2>1. /\ UNCHANGED <<events, level, cur, real_events>> /\ got[t] = NoEvents
        /\ got'[t] = [d \in Fd |-> IF d \in edge THEN Reported(d, events[d]) ELSE {}]
        /\ \A a \in Actor \ {t} : got'[a] = got[a]
    BY <1>t, <1>10 DEF epoll_wait, IdleAt, ioVars, IOVarsOK, IdleLocals
  <2> SUFFICES ASSUME NEW c \in Fd, NEW e \in events[c], e \in level[c] PROVE Known(c, e)'
    BY <2>1 DEF ReadyIsReported, Known
  <2>2. Known(c, e)
    BY DEF ReadyIsReported, Known
  <2>3. CASE c \in edge
    <3>1. e \in got'[t][c]
      BY <2>1, <2>3 DEF Reported
    <3> QED
      BY <1>t, <3>1 DEF Known
  <2>4. CASE c \notin edge
    <3>1. PICK a \in Actor : e \in got[a][c] \/ (cur[a] = c /\ e \in real_events[a])
      BY <2>2, <2>4 DEF Known
    <3>2. CASE e \in got[a][c]
      <4>1. a # t
        BY <2>1, <3>2 DEF NoEvents
      <4> QED
        BY <2>1, <3>2, <4>1 DEF Known
    <3>3. CASE cur[a] = c /\ e \in real_events[a]
      BY <2>1, <3>3 DEF Known
    <3> QED
      BY <3>1, <3>2, <3>3
  <2> QED
    BY <2>3, <2>4
<1>11. ASSUME NEW t \in Thread, NEW d \in Fd, process(t, d) PROVE ReadyIsReported'
  <2> DEFINE real == (got[t][d] \cap Event) \cup (IF "HUP" \in got[t][d] THEN events[d] ELSE {})
  <2>1. /\ UNCHANGED <<events, level>> /\ ipc[t] = "process"
        /\ got' = [got EXCEPT ![t][d] = {}]
    BY <1>11 DEF process, IdleAt, ioVars
  <2>2. cur[t] = None /\ cur[t] \notin Fd
    BY <1>t, <2>1, IOAssumption DEF IdleLocals
  <2>3. \A a \in Actor, c \in Fd : <<a, c>> # <<t, d>> => got'[a][c] = got[a][c]
    BY <1>t, <2>1 DEF IOVarsOK
  <2> SUFFICES ASSUME NEW c \in Fd, NEW e \in events[c], e \in level[c] PROVE Known(c, e)'
    BY <2>1 DEF ReadyIsReported, Known
  <2>4. Known(c, e) /\ e \in Event
    BY DEF ReadyIsReported, Known, IOVarsOK
  <2>5. CASE real \cap events[d] = {}
    <3>1. UNCHANGED <<cur, real_events, edge>>
      BY <1>11, <2>5 DEF process
    <3>2. ~ (c = d /\ e \in got[t][d])
      BY <2>4, <2>5
    <3> QED
      BY <2>3, <2>4, <3>1, <3>2 DEF Known
  <2>6. CASE real \cap events[d] # {}
    <3>1. /\ epoll_ctl(d, events[d] \ real)
          /\ cur'[t] = d /\ real_events'[t] = real
          /\ \A a \in Actor \ {t} : cur'[a] = cur[a] /\ real_events'[a] = real_events[a]
      BY <1>t, <1>11, <2>6 DEF process, IOVarsOK
    <3>2. CASE c = d /\ e \in real
      BY <1>t, <3>1, <3>2 DEF Known
    <3>3. CASE ~ (c = d /\ e \in real)
      <4>1. c \in edge => c \in edge'
        BY <3>1, <3>3 DEF epoll_ctl
      <4>2. ~ (c = d /\ e \in got[t][d])
        BY <2>4, <3>3
      <4> QED
        BY <2>2, <2>3, <2>4, <3>1, <4>1, <4>2 DEF Known
    <3> QED
      BY <3>2, <3>3
  <2> QED
    BY <2>5, <2>6
<1>12. ASSUME NEW t \in Thread, triggerEvent(t) PROVE ReadyIsReported'
  BY <1>a, <1>12 DEF triggerEvent, kernVars, IOVarsOK
<1>13. ASSUME NEW t \in Thread, decPending(t) PROVE ReadyIsReported'
  <2>1. /\ UNCHANGED <<events, level, edge, got>> /\ ipc[t] = "dec"
        /\ real_events'[t] = real_events[t] \ {NextReal(t)}
        /\ (real_events'[t] # {} => cur'[t] = cur[t])
        /\ \A a \in Actor \ {t} : cur'[a] = cur[a] /\ real_events'[a] = real_events[a]
    BY <1>t, <1>13 DEF decPending, IdleAt, kernVars, IOVarsOK
  <2>2. NextReal(t) \notin events[cur[t]]
    BY <1>t, <2>1 DEF TriggeredIsOff
  <2> SUFFICES ASSUME NEW c \in Fd, NEW e \in events[c], e \in level[c] PROVE Known(c, e)'
    BY <2>1 DEF ReadyIsReported, Known
  <2>3. Known(c, e)
    BY DEF ReadyIsReported, Known
  <2>4. CASE cur[t] = c /\ e \in real_events[t]
    BY <1>t, <2>1, <2>2, <2>4 DEF Known
  <2>5. CASE ~ (cur[t] = c /\ e \in real_events[t])
    BY <2>1, <2>3, <2>5 DEF Known
  <2> QED
    BY <2>4, <2>5
<1>14. CASE UNCHANGED allVars
  BY <1>a, <1>14 DEF allVars, ioVars, kernVars, idleVars
<1> QED
  BY <1>1, <1>3, <1>4, <1>5, <1>6, <1>7, <1>8, <1>9, <1>10, <1>11, <1>12, <1>13, <1>14,
     StepKinds

-----------------------------------------------------------------------------
(* Only registered events are triggered, if there is one kind of event *)

\* Every step keeps to the events that are wanted.
LEMMA WantedStep ==
    ASSUME ShapeInv, IdleInv, WantedOnly, [IONext]_allVars
    PROVE  WantedOnly'
<1> USE DEF IdleInv
<1>t. Thread \subseteq Actor
  BY DEF Actor, Thread
<1>a. ASSUME \A d \in Fd : events'[d] \subseteq events[d], UNCHANGED <<got, real_events>>
      PROVE  WantedOnly'
  BY <1>a DEF WantedOnly
<1>1. CASE Plain \/ \E a \in Actor : Reads(a)
  BY <1>a, <1>1 DEF Plain, Reads, ioVars, idleVars
<1>2. ASSUME NEW d \in Fd, NEW s \in Signals, Arrive(d, s) PROVE WantedOnly'
  BY <1>a, <1>2 DEF Arrive, ioVars, idleVars
<1>3. ASSUME NEW d \in Fd, NEW e \in Wanted, NEW x \in Task, addEvent(d, e, x) PROVE WantedOnly'
  BY <1>3 DEF addEvent, idleVars, IOVarsOK, WantedOnly
<1>4. ASSUME NEW t \in Thread, NEW d \in Fd, NEW e \in Wanted, delEvent(t, d, e) \/ Drain(t, d, e)
      PROVE  WantedOnly'
  <2>1. CASE delEvent(t, d, e)
    <3>1. events' = [events EXCEPT ![d] = events[d] \ {e}] /\ UNCHANGED <<got, real_events>>
      BY <2>1 DEF delEvent, TaskUnchanged, idleVars
    <3>2. \A c \in Fd : events'[c] \subseteq events[c]
      BY <3>1 DEF IOVarsOK
    <3> QED
      BY <1>a, <3>1, <3>2
  <2>2. CASE Drain(t, d, e)
    <3>1. UNCHANGED <<events, got, real_events>>
      BY <2>2 DEF Drain, ioVars, idleVars
    <3> QED
      BY <1>a, <3>1
  <2> QED
    BY <1>4, <2>1, <2>2
<1>5. ASSUME NEW t \in Thread, NEW d \in Fd, NEW E \in SUBSET Event, CancelEvents(t, d, E)
      PROVE  WantedOnly'
  BY <1>a, <1>5 DEF CancelEvents, TaskUnchanged, idleVars, IOVarsOK
<1>6. ASSUME NEW t \in Thread, NEW f \in TimerCb, addTimer(t, f) PROVE WantedOnly'
  BY <1>a, <1>6 DEF addTimer, idleVars
<1>7. ASSUME NEW t \in Thread, listExpiredCb(t) \/ scheduleExpired(t) \/ triggerEvent(t)
      PROVE  WantedOnly'
  BY <1>a, <1>7 DEF listExpiredCb, scheduleExpired, triggerEvent, ioVars, IOVarsOK
<1>8. ASSUME NEW t \in Thread, epoll_wait(t) PROVE WantedOnly'
  <2>1. /\ UNCHANGED <<events, real_events>>
        /\ got'[t] = [d \in Fd |-> IF d \in edge THEN Reported(d, events[d]) ELSE {}]
        /\ \A a \in Actor \ {t} : got'[a] = got[a]
    BY <1>t, <1>8 DEF epoll_wait, ioVars, IOVarsOK
  <2>2. \A d \in Fd : got'[t][d] \subseteq Wanted \cup {"HUP"}
    BY <2>1 DEF Reported, WantedOnly
  <2> QED
    BY <2>1, <2>2 DEF WantedOnly
<1>9. ASSUME NEW t \in Thread, NEW d \in Fd, process(t, d) PROVE WantedOnly'
  <2> DEFINE real == (got[t][d] \cap Event) \cup (IF "HUP" \in got[t][d] THEN events[d] ELSE {})
  <2>1. /\ UNCHANGED events
        /\ got' = [got EXCEPT ![t][d] = {}]
        /\ UNCHANGED real_events \/ real_events' = [real_events EXCEPT ![t] = real]
    BY <1>9 DEF process, ioVars
  <2>2. real \subseteq Wanted
    BY <1>t DEF WantedOnly, Event
  <2> HIDE DEF real
  <2>3. \A a \in Actor : real_events'[a] \subseteq Wanted
    BY <2>1, <2>2 DEF WantedOnly, IOVarsOK
  <2>4. \A a \in Actor, c \in Fd : got'[a][c] \subseteq Wanted \cup {"HUP"}
    BY <2>1 DEF WantedOnly, IOVarsOK
  <2> QED
    BY <2>1, <2>3, <2>4 DEF WantedOnly
<1>10. ASSUME NEW t \in Thread, decPending(t) PROVE WantedOnly'
  BY <1>10 DEF decPending, IOVarsOK, WantedOnly
<1>11. CASE UNCHANGED allVars
  BY <1>a, <1>11 DEF allVars, ioVars, idleVars
<1> QED
  BY <1>1, <1>2, <1>3, <1>4, <1>5, <1>6, <1>7, <1>8, <1>9, <1>10, <1>11, StepKinds

\* With one kind of event, an event that a thread is to trigger stays registered
\* until then: others that would remove it wait for the lock.
LEMMA TriggerStep ==
    ASSUME NEW ev \in Event, Wanted = {ev},
           ShapeInv, IdleInv, WantedOnly, TriggerAllowed, [IONext]_allVars
    PROVE  TriggerAllowed'
<1> USE DEF IdleInv
<1>t. Thread \subseteq Actor
  BY DEF Actor, Thread
<1>0. \A a \in Actor : ipc[a] \in {"trigger", "dec"} =>
         cur[a] \in Fd /\ real_events[a] = {ev} /\ NextReal(a) = ev
  BY DEF IOVarsOK, IdleLocals, WantedOnly, NextReal, Event
<1>a. ASSUME UNCHANGED <<cur, real_events>>,
             \A a \in Actor : ipc'[a] = "trigger" =>
                ipc[a] = "trigger" /\ (ev \in events[cur[a]] => ev \in events'[cur[a]])
      PROVE  TriggerAllowed'
  BY <1>0, <1>a DEF TriggerAllowed, NextReal
<1>1. CASE Plain
  BY <1>a, <1>1 DEF Plain, ioVars, idleVars
<1>2. ASSUME NEW a \in Actor, Reads(a) PROVE TriggerAllowed'
  BY <1>a, <1>2 DEF Reads, Goto, ioVars, IOVarsOK
<1>3. ASSUME NEW d \in Fd, NEW s \in Signals, Arrive(d, s) PROVE TriggerAllowed'
  BY <1>a, <1>3 DEF Arrive, ioVars, idleVars
<1>4. ASSUME NEW d \in Fd, NEW e \in Wanted, NEW x \in Task, addEvent(d, e, x)
      PROVE  TriggerAllowed'
  <2>1. UNCHANGED <<ipc, cur, real_events>> /\ \A c \in Fd : events[c] \subseteq events'[c]
    BY <1>4 DEF addEvent, idleVars, IOVarsOK
  <2> QED
    BY <1>0, <1>a, <2>1
<1>5. ASSUME NEW d \in Fd, ~ Locked(d), NEW E, events' = [events EXCEPT ![d] = @ \ E],
             UNCHANGED <<ipc, cur, real_events>>
      PROVE  TriggerAllowed'
  <2>1. \A a \in Actor : ipc[a] = "trigger" => cur[a] # d
    BY <1>5 DEF Locked
  <2> QED
    BY <1>0, <1>a, <1>5, <2>1 DEF IOVarsOK
<1>6. ASSUME NEW t \in Thread, NEW d \in Fd, NEW e \in Wanted, delEvent(t, d, e)
      PROVE  TriggerAllowed'
  BY <1>5, <1>6 DEF delEvent, TaskUnchanged, idleVars
<1>7. ASSUME NEW t \in Thread, NEW d \in Fd, NEW E \in SUBSET Event, CancelEvents(t, d, E)
      PROVE  TriggerAllowed'
  BY <1>5, <1>7 DEF CancelEvents, TaskUnchanged, idleVars
<1>8. ASSUME NEW t \in Thread, NEW d \in Fd, NEW e \in Wanted, Drain(t, d, e)
      PROVE  TriggerAllowed'
  BY <1>a, <1>8 DEF Drain, ioVars, idleVars
<1>9. ASSUME NEW t \in Thread, NEW f \in TimerCb, addTimer(t, f) PROVE TriggerAllowed'
  BY <1>a, <1>9 DEF addTimer, idleVars
<1>10. ASSUME NEW t \in Thread, epoll_wait(t) \/ listExpiredCb(t) \/ scheduleExpired(t)
      PROVE  TriggerAllowed'
  BY <1>a, <1>t, <1>10 DEF epoll_wait, listExpiredCb, scheduleExpired, Goto, ioVars, IOVarsOK
<1>11. ASSUME NEW t \in Thread, NEW d \in Fd, process(t, d) PROVE TriggerAllowed'
  <2> DEFINE real == (got[t][d] \cap Event) \cup (IF "HUP" \in got[t][d] THEN events[d] ELSE {})
  <2>1. real \subseteq {ev} /\ events[d] \subseteq {ev}
    BY <1>t DEF WantedOnly, Event
  <2>2. CASE real \cap events[d] = {}
    <3>1. UNCHANGED <<events, ipc, cur, real_events>>
      BY <1>11, <2>2 DEF process, ioVars
    <3> QED
      BY <1>a, <3>1
  <2>3. CASE real \cap events[d] # {}
    <3>1. /\ UNCHANGED events
          /\ cur'[t] = d /\ real_events'[t] = {ev} /\ ev \in events[d]
          /\ \A a \in Actor \ {t} : /\ cur'[a] = cur[a] /\ ipc'[a] = ipc[a]
                                    /\ real_events'[a] = real_events[a]
      <4>1. /\ UNCHANGED events
            /\ real_events' = [real_events EXCEPT ![t] = real]
            /\ cur' = [cur EXCEPT ![t] = d]
            /\ ipc' = [ipc EXCEPT ![t] = "trigger"]
        BY <1>11, <2>3 DEF process, ioVars, Goto
      <4>2. real = {ev} /\ ev \in events[d]
        BY <2>1, <2>3
      <4> HIDE DEF real
      <4> QED
        BY <1>t, <4>1, <4>2 DEF IOVarsOK
    <3> QED
      BY <1>0, <3>1 DEF TriggerAllowed, NextReal, Event
  <2> QED
    BY <2>2, <2>3
<1>12. ASSUME NEW t \in Thread, triggerEvent(t) PROVE TriggerAllowed'
  <2>1. /\ UNCHANGED <<cur, real_events>>
        /\ ipc'[t] = "dec" /\ \A a \in Actor \ {t} : ipc'[a] = ipc[a]
        /\ \A d \in Fd \ {cur[t]} : events'[d] = events[d]
        /\ ipc[t] = "trigger"
    BY <1>t, <1>12 DEF triggerEvent, IdleAt, Goto, IOVarsOK
  <2>2. \A a \in Actor \ {t} : cur[a] # cur[t]
    BY <1>0, <1>t, <2>1, IOAssumption DEF LockExclusive
  <2> QED
    BY <1>0, <1>a, <2>1, <2>2
<1>13. ASSUME NEW t \in Thread, decPending(t) PROVE TriggerAllowed'
  <2>1. ipc[t] = "dec" /\ real_events[t] \ {NextReal(t)} = {}
    BY <1>0, <1>t, <1>13 DEF decPending, IdleAt
  <2>2. /\ UNCHANGED events /\ ipc'[t] = "process"
        /\ \A a \in Actor \ {t} : /\ cur'[a] = cur[a] /\ ipc'[a] = ipc[a]
                                  /\ real_events'[a] = real_events[a]
    BY <1>t, <1>13, <2>1 DEF decPending, Goto, IOVarsOK
  <2> QED
    BY <2>2 DEF TriggerAllowed, NextReal
<1>14. CASE UNCHANGED allVars
  BY <1>a, <1>14 DEF allVars, ioVars, idleVars
<1> QED
  BY <1>1, <1>2, <1>3, <1>4, <1>6, <1>7, <1>8, <1>9, <1>10, <1>11, <1>12, <1>13, <1>14,
     StepKinds

-----------------------------------------------------------------------------
(* The theorems *)

\* What holds initially.
LEMMA IOStarts ==
    IOInit => ShapeInv /\ IdleInv /\ PendingExact /\ ReadyIsReported
              /\ WantedOnly /\ TriggerAllowed
<1> SUFFICES ASSUME IOInit
             PROVE  ShapeInv /\ IdleInv /\ PendingExact /\ ReadyIsReported
                    /\ WantedOnly /\ TriggerAllowed
  OBVIOUS
<1>1. TypeOK
  <2>1. m_coroutines \in Seq(Entry)
    BY DEF IOInit
  <2>2. m_state \in [Coroutine -> State] /\ steps \in [Coroutine -> Nat]
    BY DEF IOInit, State
  <2>3. m_activeThreadCount \in Int /\ m_idleThreadCount \in Int
    BY DEF IOInit
  <2>4. m_stopping \in BOOLEAN /\ m_autoStop \in BOOLEAN
    BY Zenon DEF IOInit
  <2>5. pc \in [Thread -> ThreadPc] /\ co \in [Thread -> Task \cup {None}]
        /\ cb_coroutine \in [Thread -> CbCor \cup {None}]
    BY DEF IOInit, ThreadPc
  <2>6. idleTerm \in [Thread -> BOOLEAN]
    BY Zenon DEF IOInit
  <2>7. stopPc \in StopPc /\ handles \in SUBSET Task
    BY DEF IOInit, StopPc, Task, Coroutine
  <2> QED
    BY <2>1, <2>2, <2>3, <2>4, <2>5, <2>6, <2>7 DEF TypeOK
<1>2. CoShape /\ PhaseOK
  BY ThreadAssumption DEF IOInit, CoShape, PhaseOK, InHand, OnStack, Thread
<1>3. IOVarsOK
  <2>1. pipe \in BOOLEAN
    BY Zenon DEF IOInit
  <2>2. /\ events \in [Fd -> SUBSET Event] /\ level \in [Fd -> SUBSET Signals]
        /\ ctx \in [Fd -> [Event -> Task \cup {None}]]
        /\ got \in [Actor -> [Fd -> SUBSET Signals]]
    BY DEF IOInit, NoEvents, NoTask
  <2>3. /\ owes \in [Actor -> Nat] /\ ipc \in [Actor -> IdlePc]
        /\ cbs \in [Actor -> SUBSET TimerCb] /\ cur \in [Actor -> Fd \cup {None}]
        /\ real_events \in [Actor -> SUBSET Event]
    BY DEF IOInit, IdlePc
  <2>4. /\ m_pendingEventCount \in Nat /\ timers \subseteq TimerCb /\ edge \subseteq Fd
        /\ arrived \in 0 .. MaxArrive
    BY IOAssumption DEF IOInit
  <2> QED
    BY <2>1, <2>2, <2>3, <2>4 DEF IOVarsOK
<1>4. ContextFilled /\ IdleLocals /\ TriggeredIsOff /\ LockExclusive
  BY DEF IOInit, ContextFilled, IdleLocals, TriggeredIsOff, LockExclusive, NoEvents, NoTask
<1>5. TimersFinite
  BY FS_EmptySet DEF IOInit, TimersFinite
<1>6. PendingExact
  <2>1. {x \in Fd \X Event : x[2] \in events[x[1]]} = {} /\ {a \in Actor : ipc[a] = "dec"} = {}
    <3>1. \A x \in Fd \X Event : x[1] \in Fd
      OBVIOUS
    <3>2. \A d \in Fd : events[d] = {}
      BY DEF IOInit, NoEvents
    <3> QED
      BY <3>1, <3>2 DEF IOInit
  <2>2. m_pendingEventCount = 0 /\ Cardinality({}) = 0
    BY FS_EmptySet DEF IOInit
  <2> QED
    BY <2>1, <2>2 DEF PendingExact
<1>7. ReadyIsReported /\ WantedOnly /\ TriggerAllowed
  BY DEF IOInit, ReadyIsReported, WantedOnly, TriggerAllowed, NoEvents
<1> QED
  BY <1>1, <1>2, <1>3, <1>4, <1>5, <1>6, <1>7 DEF ShapeInv, IdleInv

\* The inductive invariant of the IO manager: types, the locals of idle(), the
\* locks, and the counter.
THEOREM IOInvariant == IOSpec => [](ShapeInv /\ IdleInv /\ PendingExact)
<1>1. IOInit => ShapeInv /\ IdleInv /\ PendingExact
  BY IOStarts
<1>2. ShapeInv /\ IdleInv /\ PendingExact /\ [IONext]_allVars
         => (ShapeInv /\ IdleInv /\ PendingExact)'
  BY IOShapeStep, IdleStep, PendingStep
<1> QED
  BY <1>1, <1>2, PTL DEF IOSpec

\* m_pendingEventCount, by which stopping() decides, is the number of registered
\* events and of those that are being counted, whatever threads and tasks do.
THEOREM PendingIsExact == IOSpec => []PendingExact
  BY IOInvariant, PTL

\* With edge-triggered epoll no registered event that is ready is ever forgotten,
\* for any number of idle threads, descriptors and tasks that register and cancel.
THEOREM NoLostEdge == IOSpec => []ReadyIsReported
<1>1. IOInit => ReadyIsReported
  BY IOStarts
<1>2. ShapeInv /\ IdleInv /\ PendingExact /\ ReadyIsReported /\ [IONext]_allVars
         => ReadyIsReported'
  BY ReportStep
<1> QED
  BY <1>1, <1>2, IOInvariant, PTL DEF IOSpec

\* The assertion of triggerEvent holds as long as tasks wait for one kind of event
\* only.  With two kinds it does not.
THEOREM TriggerAssertion ==
    ASSUME NEW ev \in Event, Wanted = {ev}
    PROVE  IOSpec => []TriggerAllowed
<1>1. IOInit => WantedOnly /\ TriggerAllowed
  BY IOStarts
<1>2. ShapeInv /\ IdleInv /\ PendingExact /\ WantedOnly /\ TriggerAllowed /\ [IONext]_allVars
         => (WantedOnly /\ TriggerAllowed)'
  BY WantedStep, TriggerStep
<1> QED
  BY <1>1, <1>2, IOInvariant, PTL DEF IOSpec

-----------------------------------------------------------------------------
(* Steps of the scheduler: what waits stays as it is *)

\* A step that moves no task keeps WaitInv if it changes neither the state of a
\* coroutine nor the position of a thread that holds one.
LEMMA WaitQuiet ==
    ASSUME WaitInv, UNCHANGED <<timers, cbs, m_coroutines, m_state, co, cb_coroutine, handles>>,
           \A d \in Fd, e \in Event : ctx'[d][e] # None => ctx'[d][e] = ctx[d][e],
           \A t \in Thread : co[t] # None => pc'[t] = pc[t]
    PROVE  WaitInv'
<1>1. InQueue' = InQueue
  BY DEF InQueue
<1>2. WaitsOnce' /\ WaitsApart' /\ FunctionSpent'
  BY <1>1 DEF WaitInv, WaitsOnce, WaitsApart, FunctionSpent
<1>3. WaitOverlap' /\ WaitSpare'
  BY TaskAssumption DEF WaitInv, WaitOverlap, WaitSpare, Task
<1> QED
  BY <1>2, <1>3 DEF WaitInv

\* The coroutine that is swapped in does not wait for an event.
LEMMA SwapInWait ==
    ASSUME IInv, IOVarsOK, WaitInv, UNCHANGED <<ctx, timers, cbs>>, NEW t \in Thread, SwapIn(t)
    PROVE  WaitInv'
<1> USE TaskAssumption
        DEF IInv, OwnerInv, ShapeInv, TypeOK, CoShape, InHand, OnStack, Coroutine, Task,
            WaitInv, IOVarsOK, SwapIn, Ended
<1>1. InQueue' = InQueue
  BY DEF InQueue
<1>2. WaitsOnce' /\ WaitsApart' /\ FunctionSpent'
  BY <1>1 DEF WaitsOnce, WaitsApart, FunctionSpent, WaitOverlap
<1>3. WaitOverlap'
  BY DEF WaitOverlap, UniqueHolder, StateAtPc
<1>4. WaitSpare'
  BY DEF WaitSpare, WaitOverlap, SparePrivate
<1> QED
  BY <1>2, <1>3, <1>4

\* Handing back a coroutine that has ended.
LEMMA DropEndedWait ==
    ASSUME IInv, IOVarsOK, WaitInv, UNCHANGED <<ctx, timers, cbs>>, NEW t \in Thread, DropEnded(t)
    PROVE  WaitInv'
<1> USE TaskAssumption
        DEF IInv, OwnerInv, ShapeInv, TypeOK, CoShape, InHand, OnStack, Coroutine, Task,
            WaitInv, IOVarsOK, DropEnded, Ended
<1>1. InQueue' = InQueue
  BY DEF InQueue
<1>2. WaitsOnce' /\ WaitsApart' /\ FunctionSpent'
  BY <1>1 DEF WaitsOnce, WaitsApart, FunctionSpent, WaitOverlap
<1>3. WaitOverlap'
  BY DEF WaitOverlap, UniqueHolder, StateAtPc
<1>4. WaitSpare'
  BY DEF WaitSpare, WaitOverlap, SparePrivate
<1> QED
  BY <1>2, <1>3, <1>4

\* A coroutine that yields does not wait for an event.
LEMMA YieldToReadyWait ==
    ASSUME IInv, IOVarsOK, WaitInv, UNCHANGED <<ctx, timers, cbs>>, NEW t \in Thread,
    YieldToReady(t)
    PROVE  WaitInv'
<1> USE TaskAssumption
        DEF IInv, OwnerInv, ShapeInv, TypeOK, CoShape, InHand, OnStack, Coroutine, Task,
            WaitInv, IOVarsOK, YieldToReady
<1>1. InQueue' = InQueue
  BY DEF InQueue
<1>2. WaitsOnce' /\ WaitsApart' /\ FunctionSpent'
  BY <1>1 DEF WaitsOnce, WaitsApart, FunctionSpent, WaitOverlap
<1>3. WaitOverlap'
  BY DEF WaitOverlap, UniqueHolder, StateAtPc
<1>4. WaitSpare'
  BY DEF WaitSpare, WaitOverlap, SparePrivate
<1> QED
  BY <1>2, <1>3, <1>4

\* A coroutine that suspends itself may already have registered its event.
LEMMA YieldToHoldWait ==
    ASSUME IInv, IOVarsOK, WaitInv, UNCHANGED <<ctx, timers, cbs>>, NEW t \in Thread,
    YieldToHold(t)
    PROVE  WaitInv'
<1> USE TaskAssumption
        DEF IInv, OwnerInv, ShapeInv, TypeOK, CoShape, InHand, OnStack, Coroutine, Task,
            WaitInv, IOVarsOK, YieldToHold
<1>1. InQueue' = InQueue
  BY DEF InQueue
<1>2. WaitsOnce' /\ WaitsApart' /\ FunctionSpent'
  BY <1>1 DEF WaitsOnce, WaitsApart, FunctionSpent, WaitOverlap
<1>3. WaitOverlap'
  BY DEF WaitOverlap, UniqueHolder, StateAtPc
<1>4. WaitSpare'
  BY DEF WaitSpare, WaitOverlap, SparePrivate
<1> QED
  BY <1>2, <1>3, <1>4

\* A coroutine that ends does not wait for an event.
LEMMA MainFuncWait ==
    ASSUME IInv, IOVarsOK, WaitInv, UNCHANGED <<ctx, timers, cbs>>, NEW t \in Thread, MainFunc(t)
    PROVE  WaitInv'
<1> USE TaskAssumption
        DEF IInv, OwnerInv, ShapeInv, TypeOK, CoShape, InHand, OnStack, Coroutine, Task,
            WaitInv, IOVarsOK, MainFunc, Ended
<1>1. InQueue' = InQueue
  BY DEF InQueue
<1>2. WaitsOnce' /\ WaitsApart' /\ FunctionSpent'
  BY <1>1 DEF WaitsOnce, WaitsApart, FunctionSpent, WaitOverlap
<1>3. WaitOverlap'
  BY DEF WaitOverlap, UniqueHolder, StateAtPc
<1>4. WaitSpare'
  BY DEF WaitSpare, WaitOverlap, SparePrivate
<1> QED
  BY <1>2, <1>3, <1>4

\* Leaving the stack of a coroutine.
LEMMA SwapOutWait ==
    ASSUME IInv, IOVarsOK, WaitInv, UNCHANGED <<ctx, timers, cbs>>, NEW t \in Thread, SwapOut(t)
    PROVE  WaitInv'
<1> USE TaskAssumption
        DEF IInv, OwnerInv, ShapeInv, TypeOK, CoShape, InHand, OnStack, Coroutine, Task,
            WaitInv, IOVarsOK, SwapOut
<1>1. InQueue' = InQueue
  BY DEF InQueue
<1>2. WaitsOnce' /\ WaitsApart' /\ FunctionSpent'
  BY <1>1 DEF WaitsOnce, WaitsApart, FunctionSpent, WaitOverlap
<1>3. WaitOverlap'
  BY DEF WaitOverlap, UniqueHolder, StateAtPc
<1>4. WaitSpare'
  BY DEF WaitSpare, WaitOverlap, SparePrivate
<1> QED
  BY <1>2, <1>3, <1>4

\* Counting the thread as inactive.
LEMMA DeactivateWait ==
    ASSUME IInv, IOVarsOK, WaitInv, UNCHANGED <<ctx, timers, cbs>>, NEW t \in Thread,
    Deactivate(t)
    PROVE  WaitInv'
<1> USE TaskAssumption
        DEF IInv, OwnerInv, ShapeInv, TypeOK, CoShape, InHand, OnStack, Coroutine, Task,
            WaitInv, IOVarsOK, Deactivate
<1>1. InQueue' = InQueue
  BY DEF InQueue
<1>2. WaitsOnce' /\ WaitsApart' /\ FunctionSpent'
  BY <1>1 DEF WaitsOnce, WaitsApart, FunctionSpent, WaitOverlap
<1>3. WaitOverlap'
  BY DEF WaitOverlap, UniqueHolder, StateAtPc
<1>4. WaitSpare'
  BY DEF WaitSpare, WaitOverlap, SparePrivate
<1> QED
  BY <1>2, <1>3, <1>4

\* An ended coroutine that is kept as the spare one does not wait for an event.
LEMMA RetireWait ==
    ASSUME IInv, IOVarsOK, WaitInv, UNCHANGED <<ctx, timers, cbs>>, NEW t \in Thread, Retire(t)
    PROVE  WaitInv'
<1> USE TaskAssumption
        DEF IInv, OwnerInv, ShapeInv, TypeOK, CoShape, InHand, OnStack, Coroutine, Task,
            WaitInv, IOVarsOK, Retire, Ended
<1>1. InQueue' = InQueue
  BY DEF InQueue
<1>2. WaitsOnce' /\ WaitsApart' /\ FunctionSpent'
  BY <1>1 DEF WaitsOnce, WaitsApart, FunctionSpent, WaitOverlap
<1>3. WaitOverlap'
  BY DEF WaitOverlap, UniqueHolder, StateAtPc
<1>4. WaitSpare'
  BY DEF WaitSpare, WaitOverlap, SparePrivate
<1> QED
  BY <1>2, <1>3, <1>4

\* A suspended coroutine is handed back while it waits for its event.
LEMMA SetHoldWait ==
    ASSUME IInv, IOVarsOK, WaitInv, UNCHANGED <<ctx, timers, cbs>>, NEW t \in Thread, SetHold(t)
    PROVE  WaitInv'
<1> USE TaskAssumption
        DEF IInv, OwnerInv, ShapeInv, TypeOK, CoShape, InHand, OnStack, Coroutine, Task,
            WaitInv, IOVarsOK, SetHold, ForgetCallback, Ended
<1>1. InQueue' = InQueue
  BY DEF InQueue
<1>2. WaitsOnce' /\ WaitsApart' /\ FunctionSpent'
  BY <1>1 DEF WaitsOnce, WaitsApart, FunctionSpent, WaitOverlap
<1>3. WaitOverlap'
  BY DEF WaitOverlap, UniqueHolder, StateAtPc
<1>4. WaitSpare'
  BY DEF WaitSpare, WaitOverlap, SparePrivate
<1> QED
  BY <1>2, <1>3, <1>4

\* A task that is taken from the queue does not wait for an event.
LEMMA TakeWait ==
    ASSUME IInv, IOVarsOK, WaitInv, UNCHANGED <<ctx, timers, cbs>>, NEW t \in Thread, Take(t)
    PROVE  WaitInv'
<1> USE TaskAssumption
        DEF IInv, OwnerInv, ShapeInv, TypeOK, CoShape, InHand, OnStack, Coroutine, Task,
            WaitInv, IOVarsOK
<1>1. PICK i \in DOMAIN m_coroutines :
         /\ m_coroutines' = RemoveAt(m_coroutines, i)
         /\ co' = [co EXCEPT ![t] = m_coroutines[i].task]
  BY DEF Take
<1> DEFINE x == m_coroutines[i].task
<1>2. x \in Task /\ x \in InQueue
  BY QueueEntry DEF InQueue
<1>3. InQueue' \subseteq InQueue
  BY <1>1, QueuedRemove
<1>4. /\ co' = [co EXCEPT ![t] = x]
      /\ pc' = [pc EXCEPT ![t] = "taken"]
      /\ co[t] = None /\ pc[t] = "scan"
      /\ UNCHANGED <<m_state, cb_coroutine, handles>>
  BY <1>1 DEF Take
<1> HIDE DEF x
<1>5. \A d \in Fd, e \in Event : ctx[d][e] # x
  BY <1>2 DEF WaitsApart
<1>6. WaitsOnce' /\ WaitsApart' /\ FunctionSpent'
  BY <1>3, <1>4 DEF WaitsOnce, WaitsApart, FunctionSpent
<1>7. WaitOverlap' /\ WaitSpare'
  BY <1>4, <1>5 DEF WaitOverlap, WaitSpare
<1> QED
  BY <1>6, <1>7

\* A READY coroutine that is put back does not wait for an event.
LEMMA RescheduleWait ==
    ASSUME IInv, IOVarsOK, WaitInv, UNCHANGED <<ctx, timers, cbs>>, NEW t \in Thread,
    Reschedule(t)
    PROVE  WaitInv'
<1> USE TaskAssumption
        DEF IInv, OwnerInv, ShapeInv, TypeOK, CoShape, InHand, OnStack, Coroutine, Task,
            WaitInv, IOVarsOK
<1> DEFINE c == co[t]
           es == <<[task |-> c, threadId |-> None]>>
<1>1. /\ pc[t] = "after" /\ m_state[c] = "READY"
      /\ m_coroutines' = Append(m_coroutines, [task |-> c, threadId |-> None])
      /\ cb_coroutine' = [cb_coroutine EXCEPT ![t] = IF @ = c THEN None ELSE @]
      /\ co' = [co EXCEPT ![t] = None]
      /\ pc' = [pc EXCEPT ![t] = "scan"]
      /\ UNCHANGED <<m_state, handles>>
  BY DEF Reschedule, ForgetCallback
<1>2. c \in Coroutine
  BY <1>1
<1>3. es \in Seq(Entry) /\ DOMAIN es = {1} /\ es[1].task = c
  BY <1>2 DEF Entry
<1>4. m_coroutines' = m_coroutines \o es
  BY <1>1, <1>3
<1>5. InQueue' = InQueue \cup {c}
  <2>1. InQueue' = InQueue \cup {es[i].task : i \in DOMAIN es}
    BY <1>3, <1>4, QueuedAppend
  <2>2. {es[i].task : i \in DOMAIN es} = {c}
    BY <1>3
  <2> QED
    BY <2>1, <2>2
<1>6. \A d \in Fd, e \in Event : ctx[d][e] # c
  BY <1>1, <1>2 DEF WaitOverlap
<1> HIDE DEF es
<1>7. WaitsOnce' /\ WaitsApart' /\ FunctionSpent'
  BY <1>1, <1>2, <1>5, <1>6 DEF WaitsOnce, WaitsApart, FunctionSpent
<1>8. WaitOverlap' /\ WaitSpare'
  BY <1>1, <1>6 DEF WaitOverlap, WaitSpare
<1> QED
  BY <1>7, <1>8

\* A function is put on a coroutine that does not wait for an event.
LEMMA RunCallbackWait ==
    ASSUME IInv, IOVarsOK, WaitInv, UNCHANGED <<ctx, timers, cbs>>, NEW t \in Thread,
           RunCallback(t), \A d \in Fd, e \in Event : ctx[d][e] # cb_coroutine'[t]
    PROVE  WaitInv'
<1> USE TaskAssumption
        DEF IInv, OwnerInv, ShapeInv, TypeOK, CoShape, InHand, OnStack, Coroutine, Task,
            WaitInv, IOVarsOK
<1>1. PICK k \in CbCor :
         /\ cb_coroutine' = [cb_coroutine EXCEPT ![t] = k]
         /\ co' = [co EXCEPT ![t] = k]
         /\ m_state' = [m_state EXCEPT ![k] = "EXEC"]
  BY DEF RunCallback
<1>2. /\ pc' = [pc EXCEPT ![t] = "user"]
      /\ UNCHANGED <<m_coroutines, handles>>
  BY DEF RunCallback
<1>3. InQueue' = InQueue
  BY <1>2 DEF InQueue
<1>4. \A d \in Fd, e \in Event : ctx[d][e] # k
  BY <1>1
<1>5. WaitsOnce' /\ WaitsApart' /\ FunctionSpent'
  BY <1>2, <1>3 DEF WaitsOnce, WaitsApart, FunctionSpent
<1>6. WaitOverlap' /\ WaitSpare'
  BY <1>1, <1>2, <1>4 DEF WaitOverlap, WaitSpare
<1> QED
  BY <1>5, <1>6

\* The application schedules a task that does not wait for an event.
LEMMA AppScheduleWait ==
    ASSUME IInv, IOVarsOK, WaitInv, UNCHANGED <<ctx, timers, cbs>>,
           NEW x \in Task, NEW tid \in AppPins \cup {None}, AppSchedule(x, tid)
    PROVE  WaitInv'
<1> USE TaskAssumption DEF IInv, ShapeInv, TypeOK, Coroutine, Task, WaitInv, IOVarsOK
<1> DEFINE es == <<[task |-> x, threadId |-> tid]>>
<1>1. es \in Seq(Entry) /\ DOMAIN es = {1} /\ es[1].task = x
  BY ThreadAssumption DEF Entry
<1>2. {es[i].task : i \in DOMAIN es} = {x}
  BY <1>1
<1>3. /\ m_coroutines' = m_coroutines \o es /\ handles' = handles \ {x} /\ x \in handles
      /\ UNCHANGED <<m_state, pc, co, cb_coroutine>>
  BY <1>2 DEF AppSchedule, schedule, MaySchedule
<1>4. InQueue' = InQueue \cup {x}
  BY <1>1, <1>2, <1>3, QueuedAppend
<1> HIDE DEF es
<1>5. WaitsOnce' /\ WaitsApart' /\ FunctionSpent'
  BY <1>3, <1>4 DEF WaitsOnce, WaitsApart, FunctionSpent
<1>6. WaitOverlap' /\ WaitSpare'
  BY <1>3 DEF WaitOverlap, WaitSpare
<1> QED
  BY <1>5, <1>6

-----------------------------------------------------------------------------
(* Steps of the IO manager *)

\* triggerEvent's entries: one for each event, with the task that waits for it.
LEMMA EntriesFacts ==
    ASSUME IOVarsOK, ContextFilled, WaitsOnce, NEW d \in Fd, NEW E \in SUBSET events[d]
    PROVE  /\ Entries(d, E) \in Seq(Entry)
           /\ \A i \in DOMAIN Entries(d, E) : \E e \in E : Entries(d, E)[i].task = ctx[d][e]
           /\ \A i, j \in DOMAIN Entries(d, E) :
                 i # j => Entries(d, E)[i].task # Entries(d, E)[j].task
<1> DEFINE R == [task |-> ctx[d]["READ"], threadId |-> None]
           W == [task |-> ctx[d]["WRITE"], threadId |-> None]
<1>1. E \subseteq {"READ", "WRITE"}
  BY DEF IOVarsOK, Event
<1>2. Entries(d, E) \in Seq(Entry)
  BY EntriesType
<1>3. CASE "READ" \in E /\ "WRITE" \in E
  <2>1. Entries(d, E) = <<R>> \o <<W>>
    BY <1>3 DEF Entries
  <2>2. R.task # W.task
    BY <1>3 DEF WaitsOnce, ContextFilled, IOVarsOK, Event
  <2>3. R.task = ctx[d]["READ"] /\ W.task = ctx[d]["WRITE"]
    OBVIOUS
  <2> HIDE DEF R, W
  <2>4. DOMAIN (<<R>> \o <<W>>) = {1, 2} /\ (<<R>> \o <<W>>)[1] = R /\ (<<R>> \o <<W>>)[2] = W
    OBVIOUS
  <2> DEFINE es == Entries(d, E)
  <2>5. /\ es \in Seq(Entry) /\ DOMAIN es = {1, 2}
        /\ es[1].task = ctx[d]["READ"] /\ es[2].task = ctx[d]["WRITE"]
        /\ es[1].task # es[2].task
    BY <1>2, <2>1, <2>2, <2>3, <2>4
  <2> HIDE DEF es
  <2>6. /\ \A i \in DOMAIN es : \E e \in E : es[i].task = ctx[d][e]
        /\ \A i, j \in DOMAIN es : i # j => es[i].task # es[j].task
    BY <1>3, <2>5
  <2> QED
    BY <2>5, <2>6 DEF es
<1>4. CASE "READ" \in E /\ "WRITE" \notin E
  <2>1. Entries(d, E) = <<R>>
    BY <1>4 DEF Entries
  <2> QED
    BY <1>2, <1>4, <2>1
<1>5. CASE "READ" \notin E /\ "WRITE" \in E
  <2>1. Entries(d, E) = <<W>>
    BY <1>5 DEF Entries
  <2> QED
    BY <1>2, <1>5, <2>1
<1>6. CASE "READ" \notin E /\ "WRITE" \notin E
  <2>1. Entries(d, E) = <<>>
    BY <1>6 DEF Entries
  <2> QED
    BY <1>2, <2>1
<1> QED
  BY <1>3, <1>4, <1>5, <1>6

\* Moving the tasks that wait for some events of one descriptor into the queue:
\* triggerEvent, called by idle(), cancelEvent and cancelAll.
LEMMA TriggerOwner ==
    ASSUME IInv, IdleInv, WaitInv, NEW d \in Fd, NEW E \in SUBSET events[d],
           m_coroutines' = m_coroutines \o Entries(d, E),
           ctx' = [ctx EXCEPT ![d] = [e \in Event |-> IF e \in E THEN None ELSE ctx[d][e]]],
           UNCHANGED <<m_state, pc, co, cb_coroutine, handles, timers, cbs>>
    PROVE  OwnerInv' /\ WaitInv'
<1> DEFINE es == Entries(d, E)
           new == {es[i].task : i \in DOMAIN es}
<1>0. ctx \in [Fd -> [Event -> Task \cup {None}]] /\ E \subseteq Event
  BY DEF IdleInv, IOVarsOK
<1>1. /\ es \in Seq(Entry)
      /\ \A i \in DOMAIN es : \E e \in E : es[i].task = ctx[d][e]
      /\ \A i, j \in DOMAIN es : i # j => es[i].task # es[j].task
  BY EntriesFacts DEF IdleInv, WaitInv
<1>2. \A e \in E : ctx[d][e] # None
  BY <1>0 DEF IdleInv, ContextFilled
<1>3. ASSUME NEW c \in Coroutine, NEW e \in E, c = ctx[d][e]
      PROVE  /\ c \notin InQueue /\ c \notin handles'
             /\ \A t \in Thread : co[t] = c =>
                   /\ m_state[co[t]] = "EXEC"
                   /\ pc[t] \in {"holding", "swapout", "back", "after"}
             /\ \A t \in Thread : cb_coroutine[t] = c => co[t] = cb_coroutine[t]
  BY <1>0, <1>2, <1>3, TaskAssumption DEF WaitInv, WaitsApart, WaitOverlap, WaitSpare, Task
<1>4. InQueue' = InQueue \cup new
  BY <1>1, QueuedAppend DEF IInv, ShapeInv
<1>5. m_coroutines' = m_coroutines \o es
  OBVIOUS
<1> HIDE DEF es
<1>6. OwnerInv'
  BY <1>1, <1>3, <1>5, AppendOwner, ZenonT(30)
<1>7. \A x \in new : \E e \in E : x = ctx[d][e]
  BY <1>1
<1> HIDE DEF new
<1>8. /\ \A c \in Fd, e \in Event : ctx'[c][e] # None =>
            ctx'[c][e] = ctx[c][e] /\ ~ (c = d /\ e \in E)
      /\ \A c \in Fd, e \in Event : ctx'[c][e] # None \/ ctx'[c][e] = None
  BY <1>0
<1>9. WaitsOnce'
  BY <1>8 DEF WaitInv, WaitsOnce
<1>10. WaitsApart'
  <2>1. ASSUME NEW c \in Fd, NEW e \in Event, ctx'[c][e] # None PROVE ctx'[c][e] \notin new
    BY <1>0, <1>7, <1>8, <2>1 DEF WaitInv, WaitsOnce
  <2> QED
    BY <1>4, <1>8, <2>1 DEF WaitInv, WaitsApart
<1>11. FunctionSpent'
  BY <1>0, <1>2, <1>4, <1>7 DEF WaitInv, WaitsApart, FunctionSpent
<1>12. WaitOverlap'
  BY <1>8, TaskAssumption DEF WaitInv, WaitOverlap, Task
<1>13. WaitSpare'
  BY <1>8 DEF WaitInv, WaitSpare
<1> QED
  BY <1>6, <1>9, <1>10, <1>11, <1>12, <1>13 DEF WaitInv

\* A coroutine that a thread has not yet begun to suspend does not wait.
LEMMA HeldNotWaiting ==
    ASSUME WaitInv, NEW t \in Thread, co[t] \in Coroutine,
           pc[t] \notin {"holding", "swapout", "back", "after"}
    PROVE  \A d \in Fd, e \in Event : ctx[d][e] # co[t]
  BY DEF WaitInv, WaitOverlap

\* A coroutine registers itself for an event and is about to suspend.
LEMMA AwaitOwner ==
    ASSUME IInv, IdleInv, WaitInv, NEW t \in Thread, NEW d \in Fd, NEW e \in Wanted,
           AwaitEvent(t, d, e)
    PROVE  OwnerInv' /\ WaitInv'
<1> USE TaskAssumption
        DEF IInv, OwnerInv, ShapeInv, TypeOK, CoShape, InHand, OnStack, Coroutine, Task,
            IdleInv, IOVarsOK, WaitInv
<1>1. /\ pc[t] = "user" /\ pc' = [pc EXCEPT ![t] = "holding"]
      /\ ctx' = [ctx EXCEPT ![d][e] = co[t]]
      /\ UNCHANGED <<m_coroutines, m_state, co, cb_coroutine, handles, timers, cbs>>
  BY DEF AwaitEvent, Calls, addEvent, idleVars
<1>2. InQueue' = InQueue /\ QueueUnique'
  BY <1>1 DEF InQueue, QueueUnique
<1> DEFINE c == co[t]
<1>3. c \in Coroutine /\ m_state[c] = "EXEC" /\ c \notin InQueue /\ c \notin handles
  BY <1>1 DEF StateAtPc, OverlapIsExec, Queued
<1>4. \A f \in Fd, g \in Event : ctx[f][g] # c
  BY <1>1, <1>3, HeldNotWaiting
<1>5. e \in Event
  BY IOAssumption
<1>6. /\ ctx'[d][e] = c
      /\ \A f \in Fd, g \in Event : <<f, g>> # <<d, e>> => ctx'[f][g] = ctx[f][g]
  BY <1>1, <1>5
<1>7. UniqueHolder' /\ StateAtPc' /\ HandleSpent'
  BY <1>1, <1>2 DEF UniqueHolder, StateAtPc, HandleSpent, Queued
<1>8. OverlapIsExec' /\ SparePrivate'
  <2>1. OverlapIsExec'
    BY <1>1, <1>2, <1>3 DEF OverlapIsExec, Queued
  <2>2. SparePrivate'
    BY <1>1, <1>2 DEF SparePrivate, Queued
  <2> QED
    BY <2>1, <2>2
<1>9. WaitsOnce'
  <2> SUFFICES ASSUME NEW f1 \in Fd, NEW f2 \in Fd, NEW g1 \in Event, NEW g2 \in Event,
                      <<f1, g1>> # <<f2, g2>>, ctx'[f1][g1] # None
               PROVE  ctx'[f1][g1] # ctx'[f2][g2]
    BY DEF WaitsOnce
  <2>1. CASE <<f1, g1>> = <<d, e>>
    BY <1>4, <1>6, <2>1
  <2>2. CASE <<f2, g2>> = <<d, e>>
    BY <1>4, <1>6, <2>2
  <2>3. CASE <<f1, g1>> # <<d, e>> /\ <<f2, g2>> # <<d, e>>
    BY <1>6, <2>3 DEF WaitsOnce
  <2> QED
    BY <2>1, <2>2, <2>3
<1>10. WaitsApart' /\ FunctionSpent'
  <2>1. c \notin timers /\ \A a \in Actor : c \notin cbs[a]
    BY <1>3, IOAssumption
  <2> QED
    BY <1>1, <1>2, <1>3, <1>6, <2>1 DEF WaitsApart, FunctionSpent
<1>11. WaitOverlap'
  BY <1>1, <1>3, <1>6 DEF WaitOverlap, UniqueHolder
<1>12. WaitSpare'
  BY <1>1, <1>3, <1>6 DEF WaitSpare, SparePrivate
<1> QED
  BY <1>2, <1>7, <1>8, <1>9, <1>10, <1>11, <1>12

\* A function is registered for an event, in place of being scheduled.
LEMMA AddCallbackOwner ==
    ASSUME IInv, IdleInv, WaitInv, NEW t \in Thread, NEW d \in Fd, NEW e \in Wanted,
           NEW f \in Callback, AddCallback(t, d, e, f)
    PROVE  OwnerInv' /\ WaitInv'
<1> USE TaskAssumption
        DEF IInv, OwnerInv, ShapeInv, TypeOK, Coroutine, Task, IdleInv, IOVarsOK, WaitInv
<1>1. /\ f \in handles /\ handles' = handles \ {f}
      /\ ctx' = [ctx EXCEPT ![d][e] = f]
      /\ UNCHANGED <<m_coroutines, m_state, pc, co, cb_coroutine, timers, cbs>>
  BY DEF AddCallback, addEvent, idleVars
<1>2. InQueue' = InQueue /\ QueueUnique'
  BY <1>1 DEF InQueue, QueueUnique
<1>3. e \in Event
  BY IOAssumption
<1>4. /\ ctx'[d][e] = f
      /\ \A c \in Fd, g \in Event : <<c, g>> # <<d, e>> => ctx'[c][g] = ctx[c][g]
  BY <1>1, <1>3
<1>5. \A c \in Fd, g \in Event : ctx[c][g] # f
  BY <1>1 DEF WaitsApart
<1>6. UniqueHolder' /\ StateAtPc' /\ HandleSpent' /\ OverlapIsExec' /\ SparePrivate'
  BY <1>1, <1>2 DEF UniqueHolder, StateAtPc, HandleSpent, OverlapIsExec, SparePrivate, Queued
<1>7. WaitsOnce'
  BY <1>4, <1>5 DEF WaitsOnce
<1>8. WaitsApart' /\ FunctionSpent'
  BY <1>1, <1>2, <1>4 DEF WaitsApart, FunctionSpent
<1>9. WaitOverlap' /\ WaitSpare'
  BY <1>1, <1>4 DEF WaitOverlap, WaitSpare
<1> QED
  BY <1>2, <1>6, <1>7, <1>8, <1>9

\* A function is given to a timer, in place of being scheduled.
LEMMA AddTimerWait ==
    ASSUME IInv, IdleInv, WaitInv, NEW t \in Thread, NEW f \in TimerCb, addTimer(t, f)
    PROVE  OwnerInv' /\ WaitInv'
<1> USE TaskAssumption
        DEF IInv, OwnerInv, ShapeInv, TypeOK, Coroutine, Task, IdleInv, IOVarsOK, WaitInv
<1>1. /\ f \in handles /\ handles' = handles \ {f} /\ timers' = timers \cup {f}
      /\ UNCHANGED <<m_coroutines, m_state, pc, co, cb_coroutine, ctx, cbs>>
  BY DEF addTimer, idleVars
<1>2. InQueue' = InQueue /\ QueueUnique'
  BY <1>1 DEF InQueue, QueueUnique
<1>3. UniqueHolder' /\ StateAtPc' /\ HandleSpent' /\ OverlapIsExec' /\ SparePrivate'
  BY <1>1, <1>2 DEF UniqueHolder, StateAtPc, HandleSpent, OverlapIsExec, SparePrivate, Queued
<1>4. WaitsOnce' /\ WaitsApart' /\ FunctionSpent'
  BY <1>1, <1>2 DEF WaitsOnce, WaitsApart, FunctionSpent
<1>5. WaitOverlap' /\ WaitSpare'
  BY <1>1 DEF WaitOverlap, WaitSpare
<1> QED
  BY <1>2, <1>3, <1>4, <1>5

\* The functions of expired timers are put into the queue.
LEMMA ExpiredOwner ==
    ASSUME IInv, IdleInv, WaitInv, NEW t \in Thread, scheduleExpired(t)
    PROVE  OwnerInv' /\ WaitInv'
<1>0. t \in Actor
  BY DEF Actor, Thread
<1>1. cbs[t] \in SUBSET TimerCb /\ IsFiniteSet(cbs[t])
  BY <1>0 DEF IdleInv, IOVarsOK, TimersFinite
<1> DEFINE es == [i \in 1 .. Cardinality(cbs[t]) |->
                     [task |-> SetToSeq(cbs[t])[i], threadId |-> None]]
           new == {es[i].task : i \in DOMAIN es}
<1>2. /\ es \in Seq(Entry)
      /\ \A i \in DOMAIN es : es[i].task \in cbs[t]
      /\ \A i, j \in DOMAIN es : i # j => es[i].task # es[j].task
  BY <1>1, ExpiredEntries
<1>3. /\ m_coroutines' = m_coroutines \o es
      /\ UNCHANGED <<m_state, pc, co, cb_coroutine, handles, timers, ctx>>
      /\ cbs' = [cbs EXCEPT ![t] = {}]
  BY DEF scheduleExpired, ioVars
<1> HIDE DEF es
<1>4. \A f \in cbs[t] : f \in Callback /\ f \notin Coroutine
  BY <1>1, IOAssumption, TaskAssumption
<1>5. OwnerInv'
  BY <1>2, <1>3, <1>4, AppendOwner
<1>6. InQueue' = InQueue \cup new
  BY <1>2, <1>3, QueuedAppend DEF IInv, ShapeInv
<1>7. new \subseteq cbs[t]
  BY <1>2
<1> HIDE DEF new
<1>8. \A a \in Actor : cbs'[a] \subseteq cbs[a]
  BY <1>3 DEF IdleInv, IOVarsOK
<1>9. WaitsOnce' /\ WaitsApart' /\ FunctionSpent'
  BY <1>0, <1>3, <1>6, <1>7, <1>8 DEF WaitInv, WaitsOnce, WaitsApart, FunctionSpent
<1>10. WaitOverlap' /\ WaitSpare'
  BY <1>3 DEF WaitInv, WaitOverlap, WaitSpare
<1> QED
  BY <1>5, <1>9, <1>10 DEF WaitInv

-----------------------------------------------------------------------------
(* The theorems *)

\* Every step keeps the ownership invariant and what holds of waiting tasks.
LEMMA OwnStep ==
    ASSUME IInv, IdleInv, WaitInv, [IONext]_allVars
    PROVE  OwnerInv' /\ WaitInv'
<1>s. ShapeInv /\ CoShape'
  BY IOShapeStep DEF IInv, ShapeInv
<1>i. IOVarsOK
  BY DEF IdleInv
<1>q. ASSUME UNCHANGED <<timers, cbs, m_coroutines, m_state, co, cb_coroutine, handles>>,
             \A d \in Fd, e \in Event : ctx'[d][e] # None => ctx'[d][e] = ctx[d][e],
             \A t \in Thread : co[t] # None => pc'[t] = pc[t]
      PROVE  OwnerInv' /\ WaitInv'
  BY <1>q, <1>s, MoveOwner, WaitQuiet
<1>u. CASE UNCHANGED <<vars, timers, cbs, ctx>>
  BY <1>q, <1>u DEF vars
<1>m. ASSUME UNCHANGED ioVars, UNCHANGED cbs,
             \/ StopBegin \/ StopFlag \/ StopRan \/ StopJoin
             \/ \E t \in Thread : ScanNothing(t) \/ EnterIdle(t) \/ Exit(t)
      PROVE  OwnerInv' /\ WaitInv'
  <2>1. UNCHANGED <<timers, cbs, ctx, m_coroutines, m_state, co, cb_coroutine, handles>>
    BY <1>m DEF ioVars, ScanNothing, EnterIdle, Exit, StopBegin, StopFlag, StopRan, StopJoin,
           StopUnchanged
  <2>2. \A t \in Thread : co[t] # None => pc'[t] = pc[t]
    BY <1>m DEF ScanNothing, EnterIdle, Exit, StopBegin, StopFlag, StopRan, StopJoin,
           IInv, ShapeInv, TypeOK, CoShape, InHand, OnStack
  <2> QED
    BY <1>q, <2>1, <2>2
<1>1. CASE IOApp
  <2>1. ASSUME NEW x \in Task, NEW tid \in AppPins \cup {None}, AppSchedule(x, tid), IOUnchanged
        PROVE  OwnerInv' /\ WaitInv'
    <3>1. Next /\ UNCHANGED <<ctx, timers, cbs>>
      BY <2>1 DEF Next, App, IOUnchanged, ioVars, idleVars
    <3> QED
      BY <1>i, <2>1, <3>1, OwnerStep, AppScheduleWait
  <2>2. CASE StopPlain
    BY <1>m, <2>2 DEF StopPlain, IOUnchanged, idleVars
  <2> QED
    BY <1>1, <2>1, <2>2 DEF IOApp
<1>2. CASE StopCall
  <2>1. CASE tickle(Caller) \/ StopReads
    BY <1>u, <2>1 DEF tickle, StopReads, IdleUnchanged, ioVars, idleVars
  <2>2. CASE StopTickles \/ StopPlain
    BY <1>m, <2>2 DEF StopTickles, StopPlain, IOUnchanged, idleVars
  <2>3. CASE StopIsDone
    BY <1>q, <2>3 DEF StopIsDone, StopUnchanged, IdleUnchanged, ioVars
  <2>4. CASE StopGoesOn
    <3>1. \A t \in Thread : co[t] # None => pc'[t] = pc[t]
      BY <2>4, ThreadAssumption
         DEF StopGoesOn, IInv, ShapeInv, TypeOK, PhaseOK, CoShape, InHand, OnStack, Thread
    <3> QED
      BY <1>q, <2>4, <3>1 DEF StopGoesOn, StopUnchanged, IdleUnchanged, ioVars
  <2> QED
    BY <1>2, <2>1, <2>2, <2>3, <2>4 DEF StopCall
<1>3. ASSUME NEW t \in Thread, ThreadStep(t) PROVE OwnerInv' /\ WaitInv'
  <2>0. t \in Actor
    BY DEF Actor, Thread
  <2>1. CASE tickle(t)
    BY <1>u, <2>1 DEF tickle, ioVars, idleVars
  <2>2. CASE IORun(t)
    <3>0. UNCHANGED <<ctx, timers, cbs>>
      BY <2>2 DEF IORun, IOUnchanged, ioVars, idleVars
    <3>1. CASE ScanNothing(t) \/ EnterIdle(t) \/ Exit(t)
      BY <1>m, <2>2, <3>1 DEF IORun, IOUnchanged, idleVars
    <3>2. CASE \/ Take(t) \/ Reschedule(t) \/ SwapIn(t) \/ DropEnded(t) \/ SwapOut(t)
               \/ Deactivate(t) \/ Retire(t) \/ SetHold(t)
      <4>1. OwnerInv'
        BY <3>2, OwnerStep DEF Next, run
      <4>2. WaitInv'
        BY <1>i, <3>0, <3>2, TakeWait, RescheduleWait, SwapInWait, DropEndedWait, SwapOutWait,
           DeactivateWait, RetireWait, SetHoldWait
      <4> QED
        BY <4>1, <4>2
    <3>3. CASE RunCallback(t) /\ \A d \in Fd, e \in Event : ctx[d][e] # cb_coroutine'[t]
      <4>1. OwnerInv'
        BY <3>3, OwnerStep DEF Next, run
      <4> QED
        BY <1>i, <3>0, <3>3, <4>1, RunCallbackWait
    <3> QED
      BY <2>2, <3>1, <3>2, <3>3 DEF IORun, RunTickles, RunSilent
  <2>3. CASE idle(t)
    <3>1. CASE IdleReads(t) \/ IdleStays(t) \/ epoll_wait(t) \/ decPending(t)
               \/ \E d \in Fd : process(t, d)
      BY <1>u, <3>1
         DEF IdleReads, IdleStays, epoll_wait, decPending, process, IdleUnchanged, ioVars
    <3>2. CASE IdleEnds(t) \/ IdleYields(t)
      <4>1. /\ UNCHANGED <<timers, cbs, ctx, m_coroutines, m_state, co, cb_coroutine, handles>>
            /\ pc[t] = "idle" /\ pc' = [pc EXCEPT ![t] = "scan"]
        BY <3>2 DEF IdleEnds, IdleYields, IdleAt, LeaveIdle, IdleUnchanged, ioVars
      <4>2. \A u \in Thread : co[u] # None => pc'[u] = pc[u]
        BY <4>1 DEF IInv, ShapeInv, TypeOK, CoShape, InHand, OnStack
      <4> QED
        BY <1>q, <4>1, <4>2
    <3>3. CASE listExpiredCb(t)
      <4>1. UNCHANGED <<ctx, m_coroutines, m_state, pc, co, cb_coroutine, handles>>
        BY <3>3 DEF listExpiredCb, vars
      <4>2. PICK E \in SUBSET timers :
               timers' = timers \ E /\ cbs' = [cbs EXCEPT ![t] = E]
        BY <3>3 DEF listExpiredCb
      <4>3. OwnerInv'
        BY <1>s, <4>1, MoveOwner
      <4>4. InQueue' = InQueue
        BY <4>1 DEF InQueue
      <4>5. \A a \in Actor : cbs'[a] \subseteq cbs[a] \cup timers
        BY <4>2 DEF IdleInv, IOVarsOK
      <4>6. WaitsOnce' /\ WaitsApart' /\ FunctionSpent'
        BY <4>1, <4>2, <4>4, <4>5 DEF WaitInv, WaitsOnce, WaitsApart, FunctionSpent
      <4>7. WaitOverlap' /\ WaitSpare'
        BY <4>1 DEF WaitInv, WaitOverlap, WaitSpare
      <4> QED
        BY <4>3, <4>6, <4>7 DEF WaitInv
    <3>4. CASE scheduleExpired(t)
      BY <3>4, ExpiredOwner
    <3>5. CASE triggerEvent(t)
      <4> DEFINE d == cur[t]
                 e == NextReal(t)
      <4>1. /\ d \in Fd /\ e \in Event /\ {e} \in SUBSET events[d]
            /\ m_coroutines' = m_coroutines \o Entries(d, {e})
            /\ ctx' = [ctx EXCEPT ![d][e] = None]
            /\ UNCHANGED <<m_state, pc, co, cb_coroutine, handles, timers, cbs>>
        BY <2>0, <3>5 DEF triggerEvent, IdleAt, IdleInv, IOVarsOK, IdleLocals, NextReal, Event
      <4> HIDE DEF d, e
      <4>2. ctx' = [ctx EXCEPT ![d] = [g \in Event |-> IF g \in {e} THEN None ELSE ctx[d][g]]]
        BY <4>1 DEF IdleInv, IOVarsOK
      <4> QED
        BY <4>1, <4>2, TriggerOwner
    <3> QED
      BY <2>3, <3>1, <3>2, <3>3, <3>4, <3>5 DEF idle
  <2>4. CASE IOTask(t)
    <3>1. CASE (YieldToReady(t) \/ YieldToHold(t) \/ MainFunc(t)) /\ IOUnchanged
      <4>1. OwnerInv'
        BY <3>1, OwnerStep DEF Next, UserCode
      <4>2. UNCHANGED <<ctx, timers, cbs>>
        BY <3>1 DEF IOUnchanged, ioVars, idleVars
      <4>3. WaitInv'
        BY <1>i, <3>1, <4>2, YieldToReadyWait, YieldToHoldWait, MainFuncWait
      <4> QED
        BY <4>1, <4>3
    <3>2. ASSUME NEW d \in Fd, NEW e \in Wanted,
                 AwaitEvent(t, d, e) \/ \E f \in Callback : AddCallback(t, d, e, f)
          PROVE  OwnerInv' /\ WaitInv'
      BY <3>2, AwaitOwner, AddCallbackOwner
    <3>3. ASSUME NEW d \in Fd, NEW e \in Wanted, delEvent(t, d, e) PROVE OwnerInv' /\ WaitInv'
      <4>1. UNCHANGED <<timers, cbs, m_coroutines, m_state, pc, co, cb_coroutine, handles>>
        BY <3>3 DEF delEvent, TaskUnchanged, idleVars
      <4>2. \A c \in Fd, g \in Event : ctx'[c][g] # None => ctx'[c][g] = ctx[c][g]
        BY <3>3 DEF delEvent, IdleInv, IOVarsOK
      <4> QED
        BY <1>q, <4>1, <4>2
    <3>4. ASSUME NEW d \in Fd, NEW e \in Wanted, Drain(t, d, e) PROVE OwnerInv' /\ WaitInv'
      BY <1>q, <3>4 DEF Drain, ioVars, idleVars
    <3>5. ASSUME NEW d \in Fd, NEW E, CancelEvents(t, d, E) PROVE OwnerInv' /\ WaitInv'
      <4>1. /\ E \in SUBSET events[d]
            /\ m_coroutines' = m_coroutines \o Entries(d, E)
            /\ ctx' = [ctx EXCEPT ![d] = [e \in Event |-> IF e \in E THEN None ELSE ctx[d][e]]]
            /\ UNCHANGED <<m_state, pc, co, cb_coroutine, handles, timers, cbs>>
        BY <3>5 DEF CancelEvents, TaskUnchanged, idleVars, IdleInv, IOVarsOK
      <4> QED
        BY <4>1, TriggerOwner
    <3>6. ASSUME NEW f \in TimerCb, addTimer(t, f) PROVE OwnerInv' /\ WaitInv'
      BY <3>6, AddTimerWait
    <3> QED
      BY <2>4, <3>1, <3>2, <3>3, <3>4, <3>5, <3>6 DEF IOTask, cancelEvent, cancelAll
  <2> QED
    BY <1>3, <2>1, <2>2, <2>3, <2>4 DEF ThreadStep
<1>4. ASSUME NEW d \in Fd, NEW s \in Signals, Arrive(d, s) PROVE OwnerInv' /\ WaitInv'
  BY <1>u, <1>4 DEF Arrive, ioVars, idleVars
<1>5. CASE UNCHANGED allVars
  BY <1>u, <1>5 DEF allVars, ioVars, idleVars
<1> QED
  BY <1>1, <1>2, <1>3, <1>4, <1>5 DEF IONext

\* The scheduler's ownership invariant holds with the IO manager's threads, and
\* what waits for an event can be resumed by that event only.
THEOREM IOOwnershipInvariant == IOSpec => [](IInv /\ IdleInv /\ WaitInv)
<1>1. IOInit => IInv /\ WaitInv
  <2> SUFFICES ASSUME IOInit PROVE OwnerInv /\ WaitInv
    BY IOStarts DEF IInv
  <2>1. InQueue = {} /\ DOMAIN m_coroutines = {}
    BY DEF IOInit, InQueue
  <2>2. /\ \A t \in Thread : pc[t] \in {"scan", "none"} /\ co[t] = None /\ cb_coroutine[t] = None
        /\ \A d \in Fd, e \in Event : ctx[d][e] = None
        /\ timers = {} /\ \A a \in Actor : cbs[a] = {}
    BY DEF IOInit, NoTask
  <2>3. OwnerInv
    BY <2>1, <2>2, TaskAssumption
       DEF OwnerInv, UniqueHolder, QueueUnique, StateAtPc, OverlapIsExec, HandleSpent,
           SparePrivate, Queued, Task
  <2>4. WaitInv
    BY <2>1, <2>2, TaskAssumption
       DEF WaitInv, WaitsOnce, WaitsApart, FunctionSpent, WaitOverlap, WaitSpare, Task
  <2> QED
    BY <2>3, <2>4
<1>2. IInv /\ IdleInv /\ WaitInv /\ PendingExact /\ [IONext]_allVars => (IInv /\ WaitInv)'
  BY OwnStep, IOShapeStep DEF IInv
<1> QED
  BY <1>1, <1>2, IOInvariant, PTL DEF IOSpec

\* A registered event has its task, and the FdContext's pointer is the only one by
\* which that task can be scheduled: nothing is resumed twice for one event.
THEOREM WaitersAreBound == IOSpec => []ContextBound
<1>1. IInv /\ IdleInv /\ WaitInv => ContextBound
  <2> SUFFICES ASSUME IInv, IdleInv, WaitInv, NEW d \in Fd, NEW e \in Event
               PROVE  ~ Queued(ctx[d][e]) /\ ctx[d][e] \notin handles
    BY DEF ContextBound, IdleInv, WaitInv
  <2>1. CASE ctx[d][e] # None
    BY <2>1 DEF WaitInv, WaitsApart, Queued
  <2>2. CASE ctx[d][e] = None
    <3>1. InQueue \subseteq Task /\ handles \subseteq Task
      BY QueueEntry DEF IInv, ShapeInv, TypeOK, InQueue
    <3> QED
      BY <2>2, <3>1, TaskAssumption DEF Queued
  <2> QED
    BY <2>1, <2>2
<1> QED
  BY <1>1, IOOwnershipInvariant, PTL

\* With events, cancellations and the application all resuming coroutines, and the
\* functions of timers run on spare coroutines, two threads still never execute on
\* one stack, and the assertions of swapIn and reset hold.
THEOREM IOCoroutineExclusion == IOSpec => [](OneStack /\ SwapInAllowed /\ ResetAllowed)
<1>1. IInv => OneStack
  BY DEF IInv, ShapeInv, OwnerInv, CoShape, UniqueHolder, OneStack, InHand, OnStack
<1>2. IInv => SwapInAllowed
  BY DEF IInv, OwnerInv, StateAtPc, SwapInAllowed
<1>3. IInv => ResetAllowed
  BY DEF IInv, OwnerInv, SparePrivate, ResetAllowed, Queued
<1> QED
  BY <1>1, <1>2, <1>3, IOOwnershipInvariant, PTL

-----------------------------------------------------------------------------
(* The IO manager implements TaskPool: an event and a timer are one more way   *)
(* to submit a coroutine or a function, and idle() is not seen in the pool.    *)

\* Appending entries submits the coroutines among their tasks, if no run of
\* theirs is owed.
LEMMA AppendSubmits ==
    ASSUME IInv, NEW es \in Seq(Entry), m_coroutines' = m_coroutines \o es,
           \A i \in DOMAIN es : es[i].task \notin PoolOwed,
           UNCHANGED <<m_state, pc, co>>
    PROVE  [Pool!Next]_(Pool!poolState)
<1> DEFINE new == {es[i].task : i \in DOMAIN es}
           S   == new \cap UserCor
<1>1. InQueue' = InQueue \cup new
  BY QueuedAppend DEF IInv, ShapeInv
<1>2. \A x \in new : x \notin PoolOwed
  OBVIOUS
<1> HIDE DEF new
<1>3. PoolOwed' = PoolOwed \cup S
  BY <1>1 DEF PoolOwed, Queued
<1>4. PoolRunning' = PoolRunning /\ PoolEnded' = PoolEnded
  BY DEF PoolRunning, PoolEnded
<1>5. CASE S = {}
  BY <1>3, <1>4, <1>5 DEF Pool!poolState
<1>6. CASE S # {}
  <2>1. Pool!Submit(S)
    BY <1>2, <1>3, <1>4, <1>6 DEF Pool!Submit
  <2> QED
    BY <2>1 DEF Pool!Next
<1> QED
  BY <1>5, <1>6

\* triggerEvent submits the coroutine that waits: its run is not owed, although
\* a thread may still be on the way from its stack to the queue.
LEMMA TriggerSubmits ==
    ASSUME IInv, IdleInv, WaitInv, NEW d \in Fd, NEW E \in SUBSET events[d],
           m_coroutines' = m_coroutines \o Entries(d, E), UNCHANGED <<m_state, pc, co>>
    PROVE  [Pool!Next]_(Pool!poolState)
<1> DEFINE es == Entries(d, E)
<1>1. es \in Seq(Entry) /\ \A i \in DOMAIN es : \E e \in E : es[i].task = ctx[d][e]
  BY EntriesFacts DEF IdleInv, WaitInv
<1>2. \A e \in E : e \in Event /\ ctx[d][e] # None
  BY DEF IdleInv, IOVarsOK, ContextFilled
<1>3. ASSUME NEW e \in E, ctx[d][e] \in UserCor
      PROVE  /\ ~ Queued(ctx[d][e])
             /\ \A t \in Thread : co[t] = ctx[d][e] =>
                   m_state[co[t]] = "EXEC" /\ pc[t] # "taken"
  BY <1>2, <1>3 DEF WaitInv, WaitsApart, WaitOverlap, Queued, Coroutine
<1>4. \A e \in E : ctx[d][e] \notin PoolOwed
  BY <1>3 DEF PoolOwed
<1>5. m_coroutines' = m_coroutines \o es
  OBVIOUS
<1> HIDE DEF es
<1> QED
  BY <1>1, <1>4, <1>5, AppendSubmits

\* The functions of expired timers are none of the application's coroutines.
LEMMA ExpiredSubmits ==
    ASSUME IInv, IdleInv, NEW t \in Thread, scheduleExpired(t)
    PROVE  [Pool!Next]_(Pool!poolState)
<1>0. t \in Actor
  BY DEF Actor, Thread
<1>1. cbs[t] \in SUBSET TimerCb /\ IsFiniteSet(cbs[t])
  BY <1>0 DEF IdleInv, IOVarsOK, TimersFinite
<1> DEFINE es == [i \in 1 .. Cardinality(cbs[t]) |->
                     [task |-> SetToSeq(cbs[t])[i], threadId |-> None]]
<1>2. es \in Seq(Entry) /\ \A i \in DOMAIN es : es[i].task \in cbs[t]
  BY <1>1, ExpiredEntries
<1>3. m_coroutines' = m_coroutines \o es /\ UNCHANGED <<m_state, pc, co>>
  BY DEF scheduleExpired
<1> HIDE DEF es
<1>4. \A f \in cbs[t] : f \notin PoolOwed
  BY <1>1, IOAssumption, TaskAssumption DEF PoolOwed, Coroutine
<1> QED
  BY <1>2, <1>3, <1>4, AppendSubmits

\* addEvent without a callback: the coroutine is on its stack before and after.
LEMMA AwaitUnseen ==
    ASSUME IInv, NEW t \in Thread, NEW d \in Fd, NEW e \in Wanted, AwaitEvent(t, d, e)
    PROVE  UNCHANGED Pool!poolState
<1>1. /\ pc[t] = "user" /\ pc' = [pc EXCEPT ![t] = "holding"]
      /\ UNCHANGED <<m_coroutines, m_state, co>>
  BY DEF AwaitEvent, Calls, addEvent
<1>2. InQueue' = InQueue
  BY <1>1 DEF InQueue
<1>3. \A u \in Thread : \/ pc'[u] = pc[u]
                        \/ pc[u] = "user" /\ pc'[u] = "holding"
  BY <1>1 DEF IInv, ShapeInv, TypeOK
<1>4. PoolOwed' = PoolOwed
  BY <1>1, <1>2, <1>3 DEF PoolOwed, Queued
<1>5. PoolRunning' = PoolRunning
  BY <1>1, <1>3 DEF PoolRunning, OnStack
<1> QED
  BY <1>1, <1>4, <1>5 DEF PoolEnded, Pool!poolState

\* Every step of the IO manager is a step of the pool or leaves it as it is.
LEMMA IOPoolStep ==
    ASSUME IInv, IdleInv, WaitInv, [IONext]_allVars
    PROVE  [Pool!Next]_(Pool!poolState)
<1> DEFINE Goal == [Pool!Next]_(Pool!poolState)
<1>u. ASSUME UNCHANGED <<m_coroutines, m_state, co>>,
             \A t \in Thread : co[t] # None => pc'[t] = pc[t]
      PROVE  Goal
  <2>1. None \notin UserCor /\ InQueue' = InQueue
    BY <1>u, TaskAssumption DEF Task, Coroutine, InQueue
  <2> QED
    BY <1>u, <2>1, Unseen
<1>p. CASE [Next]_vars
  BY <1>p, PoolStep
<1>1. CASE IOApp
  BY <1>1, <1>p DEF IOApp, StopPlain, Next, App, StopStep
<1>2. CASE StopCall
  <2>1. CASE tickle(Caller) \/ StopReads \/ StopTickles \/ StopPlain
    BY <1>p, <2>1 DEF tickle, StopReads, StopTickles, StopPlain, Next, App, StopStep
  <2>2. CASE StopIsDone
    BY <1>u, <2>2 DEF StopIsDone, StopUnchanged
  <2>3. CASE StopGoesOn
    <3>1. \A t \in Thread : co[t] # None => pc'[t] = pc[t]
      BY <2>3, ThreadAssumption
         DEF StopGoesOn, IInv, ShapeInv, TypeOK, PhaseOK, CoShape, InHand, OnStack, Thread
    <3> QED
      BY <1>u, <2>3, <3>1 DEF StopGoesOn, StopUnchanged
  <2> QED
    BY <1>2, <2>1, <2>2, <2>3 DEF StopCall
<1>3. ASSUME NEW t \in Thread, ThreadStep(t) PROVE Goal
  <2>1. CASE tickle(t)
    BY <1>p, <2>1 DEF tickle
  <2>2. CASE IORun(t)
    BY <1>p, <2>2 DEF IORun, RunTickles, RunSilent, Next, run
  <2>3. CASE idle(t)
    <3>1. CASE IdleReads(t) \/ IdleStays(t) \/ epoll_wait(t) \/ listExpiredCb(t)
               \/ decPending(t) \/ \E d \in Fd : process(t, d)
      BY <1>p, <3>1 DEF IdleReads, IdleStays, epoll_wait, listExpiredCb, decPending, process
    <3>2. CASE IdleEnds(t) \/ IdleYields(t)
      <4>1. /\ UNCHANGED <<m_coroutines, m_state, co>>
            /\ pc[t] = "idle" /\ pc' = [pc EXCEPT ![t] = "scan"]
        BY <3>2 DEF IdleEnds, IdleYields, IdleAt, LeaveIdle
      <4>2. \A u \in Thread : co[u] # None => pc'[u] = pc[u]
        BY <4>1 DEF IInv, ShapeInv, TypeOK, CoShape, InHand, OnStack
      <4> QED
        BY <1>u, <4>1, <4>2
    <3>3. CASE scheduleExpired(t)
      BY <3>3, ExpiredSubmits
    <3>4. CASE triggerEvent(t)
      <4> DEFINE d == cur[t]
                 e == NextReal(t)
      <4>0. t \in Actor
        BY DEF Actor, Thread
      <4>1. /\ d \in Fd /\ {e} \in SUBSET events[d]
            /\ m_coroutines' = m_coroutines \o Entries(d, {e}) /\ UNCHANGED <<m_state, pc, co>>
        BY <3>4, <4>0 DEF triggerEvent, IdleAt, IdleInv, IOVarsOK, IdleLocals
      <4> HIDE DEF d, e
      <4> QED
        BY <4>1, TriggerSubmits
    <3> QED
      BY <2>3, <3>1, <3>2, <3>3, <3>4 DEF idle
  <2>4. CASE IOTask(t)
    <3>1. CASE YieldToReady(t) \/ YieldToHold(t) \/ MainFunc(t)
      BY <1>p, <3>1 DEF Next, UserCode
    <3>2. ASSUME NEW d \in Fd, NEW e \in Wanted, AwaitEvent(t, d, e) PROVE Goal
      BY <3>2, AwaitUnseen
    <3>3. ASSUME NEW d \in Fd, NEW e \in Wanted,
                 \/ \E f \in Callback : AddCallback(t, d, e, f)
                 \/ delEvent(t, d, e) \/ Drain(t, d, e)
          PROVE  Goal
      BY <1>u, <3>3 DEF AddCallback, addEvent, delEvent, TaskUnchanged, Drain
    <3>4. ASSUME NEW d \in Fd, NEW E, CancelEvents(t, d, E) PROVE Goal
      BY <3>4, TriggerSubmits DEF CancelEvents, TaskUnchanged
    <3>5. ASSUME NEW f \in TimerCb, addTimer(t, f) PROVE Goal
      BY <1>u, <3>5 DEF addTimer
    <3> QED
      BY <2>4, <3>1, <3>2, <3>3, <3>4, <3>5 DEF IOTask, cancelEvent, cancelAll
  <2> QED
    BY <1>3, <2>1, <2>2, <2>3, <2>4 DEF ThreadStep
<1>4. ASSUME NEW d \in Fd, NEW s \in Signals, Arrive(d, s) PROVE Goal
  BY <1>p, <1>4 DEF Arrive
<1>5. CASE UNCHANGED allVars
  BY <1>p, <1>5 DEF allVars
<1> QED
  BY <1>1, <1>2, <1>3, <1>4, <1>5 DEF IONext

\* The IO manager implements TaskPool too: whether a coroutine is resumed by the
\* application, by a descriptor that became ready or by a cancelled event, each
\* time it is resumed is one run of it, and no two of them overlap.
THEOREM IOImplementsPool == IOSpec => ImplementsTaskPool
<1>1. IOInit => Pool!Init
  BY DEF IOInit, Pool!Init, PoolOwed, PoolRunning, PoolEnded, Queued, InQueue, OnStack, Ended,
         Coroutine
<1>2. IInv /\ IdleInv /\ WaitInv /\ [IONext]_allVars => [Pool!Next]_(Pool!poolState)
  BY IOPoolStep
<1> QED
  BY <1>1, <1>2, IOOwnershipInvariant, PTL DEF IOSpec, ImplementsTaskPool, Pool!PoolSpec

=============================================================================
