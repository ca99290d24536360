--------------------------- MODULE SchedulerStop ---------------------------
(***************************************************************************)
(* Proofs about the counts of Scheduler and about what is left when stop() *)
(* returns, for any number of threads, coroutines, function tasks and      *)
(* pins.  The ownership invariant IInv of SchedulerProofs is the basis.    *)
(***************************************************************************)
EXTENDS SchedulerProofs, FiniteSetTheorems

-----------------------------------------------------------------------------
(* Counting threads *)

\* The threads that hold a task and are counted in m_activeThreadCount.
Counted == {"taken", "back"} \cup OnStack

\* How many threads there are is finite: the constructor's threads_size.
LEMMA ThreadFinite == IsFiniteSet(Thread)
<1>1. IsFiniteSet(Worker) /\ IsFiniteSet(Worker \cup {Caller})
  BY ThreadAssumption, FS_AddElement
<1> QED
  BY <1>1 DEF Thread

\* When only t may have entered or left a finite set, its size changes by that.
LEMMA MemberMoved ==
    ASSUME NEW U, IsFiniteSet(U), NEW F \in SUBSET U, NEW G \in SUBSET U,
           NEW t \in U, G \ {t} = F \ {t}
    PROVE  /\ Cardinality(F) \in Nat
           /\ Cardinality(G) = Cardinality(F) + (IF t \in G THEN 1 ELSE 0)
                                             - (IF t \in F THEN 1 ELSE 0)
<1>1. IsFiniteSet(F) /\ Cardinality(F) \in Nat
  BY FS_Subset, FS_CardinalityType
<1>2. CASE t \in G
  <2>1. G = F \cup {t}
    BY <1>2
  <2>2. Cardinality(G) = IF t \in F THEN Cardinality(F) ELSE Cardinality(F) + 1
    BY <1>1, <2>1, FS_AddElement
  <2> QED
    BY <1>1, <1>2, <2>2
<1>3. CASE t \notin G
  <2>1. G = F \ {t}
    BY <1>3
  <2>2. Cardinality(G) = IF t \in F THEN Cardinality(F) - 1 ELSE Cardinality(F)
    BY <1>1, <2>1, FS_RemoveElement
  <2> QED
    BY <1>1, <1>3, <2>2
<1> QED
  BY <1>1, <1>2, <1>3

\* A step that moves one thread and changes the counts accordingly keeps them
\* exact.
LEMMA CountsMove ==
    ASSUME TypeOK, CountsExact, NEW t \in Thread, NEW to \in ThreadPc,
           pc' = [pc EXCEPT ![t] = to],
           m_activeThreadCount' = m_activeThreadCount
               + (IF to \in Counted THEN 1 ELSE 0) - (IF pc[t] \in Counted THEN 1 ELSE 0),
           m_idleThreadCount' = m_idleThreadCount
               + (IF to \in {"idle"} THEN 1 ELSE 0) - (IF pc[t] \in {"idle"} THEN 1 ELSE 0)
    PROVE  CountsExact'
<1> DEFINE A  == {u \in Thread : pc[u] \in Counted}
           A1 == {u \in Thread : pc'[u] \in Counted}
           I  == {u \in Thread : pc[u] = "idle"}
           I1 == {u \in Thread : pc'[u] = "idle"}
<1>1. pc \in [Thread -> ThreadPc]
  BY DEF TypeOK
<1>2. /\ A1 \ {t} = A \ {t} /\ (t \in A1 <=> to \in Counted) /\ (t \in A <=> pc[t] \in Counted)
      /\ I1 \ {t} = I \ {t} /\ (t \in I1 <=> to = "idle") /\ (t \in I <=> pc[t] = "idle")
      /\ A \in SUBSET Thread /\ A1 \in SUBSET Thread /\ I \in SUBSET Thread /\ I1 \in SUBSET Thread
  BY <1>1
<1>3. m_activeThreadCount = Cardinality(A) /\ m_idleThreadCount = Cardinality(I)
  BY DEF CountsExact, Counted
<1> HIDE DEF A, A1, I, I1
<1>4. /\ Cardinality(A) \in Nat
      /\ Cardinality(A1) = Cardinality(A) + (IF t \in A1 THEN 1 ELSE 0) - (IF t \in A THEN 1 ELSE 0)
  BY <1>2, ThreadFinite, MemberMoved
<1>5. /\ Cardinality(I) \in Nat
      /\ Cardinality(I1) = Cardinality(I) + (IF t \in I1 THEN 1 ELSE 0) - (IF t \in I THEN 1 ELSE 0)
  BY <1>2, ThreadFinite, MemberMoved
<1>6. m_activeThreadCount' = Cardinality(A1) /\ m_idleThreadCount' = Cardinality(I1)
  BY <1>2, <1>3, <1>4, <1>5
<1> QED
  BY <1>6 DEF CountsExact, Counted, A1, I1

\* Every step keeps both counts exact: what run() adds when it takes a task it
\* subtracts when the task is handed back, on every path.
LEMMA CountsStep ==
    ASSUME IInv, CountsExact, [Next]_vars
    PROVE  CountsExact'
<1> DEFINE Moves(t, to) ==
      /\ pc' = [pc EXCEPT ![t] = to]
      /\ m_activeThreadCount' = m_activeThreadCount
             + (IF to \in Counted THEN 1 ELSE 0) - (IF pc[t] \in Counted THEN 1 ELSE 0)
      /\ m_idleThreadCount' = m_idleThreadCount
             + (IF to \in {"idle"} THEN 1 ELSE 0) - (IF pc[t] \in {"idle"} THEN 1 ELSE 0)
<1>1. m_activeThreadCount \in Int /\ m_idleThreadCount \in Int /\ TypeOK
  BY DEF IInv, ShapeInv, TypeOK
<1>2. ASSUME NEW t \in Thread, NEW to \in ThreadPc, Moves(t, to) PROVE CountsExact'
  BY <1>1, <1>2, CountsMove
<1>3. ASSUME UNCHANGED <<m_activeThreadCount, m_idleThreadCount, pc>> PROVE CountsExact'
  BY <1>3 DEF CountsExact
<1>4. CASE Start
  <2>1. \A t \in Worker : pc[t] = "none"
    BY <1>4 DEF Start, IInv, ShapeInv, PhaseOK
  <2>2. /\ {u \in Thread : pc'[u] \in Counted} = {u \in Thread : pc[u] \in Counted}
        /\ {u \in Thread : pc'[u] = "idle"} = {u \in Thread : pc[u] = "idle"}
    BY <1>4, <2>1 DEF Start, Counted, OnStack
  <2> QED
    BY <1>4, <2>2 DEF Start, CountsExact, Counted
<1>5. CASE StopStep
  <2>1. CASE StopCheck /\ pc' # pc
    <3>1. UseCaller /\ Caller \in Thread /\ pc[Caller] = "none"
      BY <2>1, ThreadAssumption DEF StopCheck, IInv, ShapeInv, PhaseOK, TypeOK, Thread
    <3>2. Moves(Caller, "scan")
      BY <1>1, <2>1, <3>1 DEF StopCheck, StopUnchanged, Counted, OnStack
    <3> QED
      BY <1>2, <3>1, <3>2 DEF ThreadPc
  <2>2. CASE ~ (StopCheck /\ pc' # pc)
    BY <1>3, <1>5, <2>2 DEF StopStep, StopFlag, StopCheck, StopRan, StopJoin, StopUnchanged
  <2> QED
    BY <2>1, <2>2
<1>6. CASE App /\ ~ Start
  BY <1>3, <1>6 DEF App, AppSchedule, AppScheduleBatch, StopBegin, StopUnchanged
<1>7. ASSUME NEW t \in Thread, run(t) PROVE CountsExact'
  <2>1. CASE Take(t) \/ DropEnded(t) \/ Deactivate(t)
    <3>1. Moves(t, "taken") \/ Moves(t, "scan") \/ Moves(t, "after")
      BY <1>1, <2>1 DEF Take, DropEnded, Deactivate, Counted, OnStack
    <3> QED
      BY <1>2, <3>1 DEF ThreadPc
  <2>2. CASE ScanNothing(t) \/ EnterIdle(t) \/ Exit(t)
    <3>1. Moves(t, "empty") \/ Moves(t, "idle") \/ Moves(t, "exit")
      BY <1>1, <2>2 DEF ScanNothing, EnterIdle, Exit, Counted, OnStack
    <3> QED
      BY <1>2, <3>1 DEF ThreadPc
  <2>3. CASE SwapIn(t) \/ RunCallback(t) \/ SwapOut(t)
    <3>1. Moves(t, "user") \/ Moves(t, "back")
      BY <1>1, <2>3 DEF SwapIn, RunCallback, SwapOut, Counted, OnStack
    <3> QED
      BY <1>2, <3>1 DEF ThreadPc
  <2>4. CASE Reschedule(t) \/ Retire(t) \/ SetHold(t)
    <3>1. Moves(t, "scan")
      BY <1>1, <2>4 DEF Reschedule, Retire, SetHold, Counted, OnStack
    <3> QED
      BY <1>2, <3>1 DEF ThreadPc
  <2> QED
    BY <1>7, <2>1, <2>2, <2>3, <2>4 DEF run
<1>8. ASSUME NEW t \in Thread, Idle(t) PROVE CountsExact'
  <2>1. Moves(t, "scan")
    BY <1>1, <1>8 DEF Idle, Counted, OnStack
  <2> QED
    BY <1>2, <2>1 DEF ThreadPc
<1>9. ASSUME NEW t \in Thread, UserCode(t) PROVE CountsExact'
  <2>1. CASE \E x \in Task : \E tid \in TaskPins \cup {None} : TaskSchedule(t, x, tid)
    BY <1>3, <2>1 DEF TaskSchedule
  <2>2. CASE YieldToReady(t) \/ Publish(t) \/ YieldToHold(t) \/ MainFunc(t)
    <3>1. Moves(t, "swapout") \/ Moves(t, "holding")
      BY <1>1, <2>2 DEF YieldToReady, Publish, YieldToHold, MainFunc, Counted, OnStack
    <3> QED
      BY <1>2, <3>1 DEF ThreadPc
  <2> QED
    BY <1>9, <2>1, <2>2 DEF UserCode
<1>10. CASE Stopped \/ UNCHANGED vars
  BY <1>3, <1>10 DEF Stopped, vars
<1> QED
  BY <1>4, <1>5, <1>6, <1>7, <1>8, <1>9, <1>10 DEF Next

-----------------------------------------------------------------------------
(* The entries of the queue *)

\* Appending adds the entries appended.
LEMMA RangeConcat ==
    ASSUME NEW S, NEW s \in Seq(S), NEW r \in Seq(S)
    PROVE  Range(s \o r) = Range(s) \cup Range(r)
<1>1. /\ s \o r \in Seq(S) /\ Len(s) \in Nat /\ Len(r) \in Nat
      /\ DOMAIN (s \o r) = 1 .. Len(s) + Len(r)
      /\ DOMAIN s = 1 .. Len(s) /\ DOMAIN r = 1 .. Len(r)
      /\ \A j \in 1 .. Len(s) + Len(r) :
            (s \o r)[j] = IF j <= Len(s) THEN s[j] ELSE r[j - Len(s)]
  BY ConcatProperties
<1>2. ASSUME NEW j \in DOMAIN (s \o r) PROVE (s \o r)[j] \in Range(s) \cup Range(r)
  <2>1. CASE j <= Len(s)
    BY <1>1, <2>1 DEF Range
  <2>2. CASE ~ (j <= Len(s))
    <3>1. j - Len(s) \in DOMAIN r
      BY <1>1, <2>2
    <3> QED
      BY <1>1, <2>2, <3>1 DEF Range
  <2> QED
    BY <2>1, <2>2
<1>3. ASSUME NEW j \in DOMAIN s PROVE s[j] \in Range(s \o r)
  BY <1>1 DEF Range
<1>4. ASSUME NEW j \in DOMAIN r PROVE r[j] \in Range(s \o r)
  <2>1. /\ Len(s) + j \in DOMAIN (s \o r) /\ ~ (Len(s) + j <= Len(s))
        /\ (Len(s) + j) - Len(s) = j
    BY <1>1
  <2> QED
    BY <1>1, <2>1 DEF Range
<1> QED
  BY <1>2, <1>3, <1>4 DEF Range

\* Removing an entry loses at most that entry.
LEMMA RangeRemove ==
    ASSUME NEW S, NEW s \in Seq(S), NEW i \in DOMAIN s
    PROVE  /\ Range(RemoveAt(s, i)) \subseteq Range(s)
           /\ Range(s) \subseteq Range(RemoveAt(s, i)) \cup {s[i]}
<1> DEFINE r == RemoveAt(s, i)
<1>1. /\ r \in Seq(S) /\ Len(r) = Len(s) - 1 /\ Len(s) \in Nat
      /\ DOMAIN s = 1 .. Len(s) /\ DOMAIN r = 1 .. Len(s) - 1
      /\ \A j \in 1 .. Len(s) - 1 : r[j] = IF j < i THEN s[j] ELSE s[j + 1]
  BY RemoveAtFacts
<1> HIDE DEF r
<1>2. ASSUME NEW j \in DOMAIN r PROVE r[j] \in Range(s)
  BY <1>1, SMTT(30) DEF Range
<1>3. ASSUME NEW j \in DOMAIN s, j # i PROVE s[j] \in Range(r)
  <2>1. CASE j < i
    BY <1>1, <2>1 DEF Range
  <2>2. CASE j > i
    <3>1. j - 1 \in DOMAIN r /\ ~ (j - 1 < i) /\ (j - 1) + 1 = j
      BY <1>1, <2>2
    <3> QED
      BY <1>1, <3>1 DEF Range
  <2> QED
    BY <1>1, <1>3, <2>1, <2>2
<1> QED
  BY <1>2, <1>3 DEF Range, r

\* A task is queued when some entry is for it.
LEMMA QueuedEntry ==
    ASSUME TypeOK
    PROVE  /\ \A x : Queued(x) <=> \E e \in Range(m_coroutines) : e.task = x
           /\ \A e \in Range(m_coroutines) :
                 e.task \in Task /\ e.threadId \in Thread \cup {None}
<1>1. Range(m_coroutines) \subseteq Entry
  BY DEF TypeOK, Range
<1> QED
  BY <1>1 DEF Queued, InQueue, Range, Entry

-----------------------------------------------------------------------------
(* What is left to do, and who will still do it *)

\* schedule() adds only tasks that are not READY, and there is still somebody
\* to take them: the application has not called stop(), or the thread whose
\* task made the call will scan again.
LEMMA ScheduleServed ==
    ASSUME IInv, ServedInv, NEW es \in Seq(Entry), m_coroutines' = m_coroutines \o es,
           \A e \in Range(es) : e.task \in handles,
           UNCHANGED <<m_state, m_stopping, m_autoStop, pc, co, idleTerm, stopPc>>,
           \/ stopPc = "app"
           \/ /\ \E t \in Thread : pc[t] = "user"
              /\ \A e \in Range(es) : e.threadId \in TaskPins \cup {None}
    PROVE  ServedInv'
<1> USE DEF IInv, ServedInv
<1>1. Range(m_coroutines') = Range(m_coroutines) \cup Range(es)
  BY RangeConcat DEF ShapeInv, TypeOK
<1>2. InQueue \subseteq InQueue'
  BY <1>1 DEF InQueue, Range
<1>3. RunnableHeld'
  BY <1>2 DEF RunnableHeld, Queued
<1>4. ASSUME NEW e \in Range(es), e.task \in Coroutine PROVE m_state[e.task] # "READY"
  BY <1>4 DEF RunnableHeld, OwnerInv, OverlapIsExec, HandleSpent
<1>5. ReadyUnpinned'
  BY <1>1, <1>4 DEF ReadyUnpinned
<1>6. LeavesLate' /\ JoinedAll'
  BY DEF LeavesLate, JoinedAll
<1>7. PinsLate'
  BY <1>1 DEF PinsLate, LeavesLate
<1>8. StillServed'
  BY DEF StillServed, ScansAgain
<1> QED
  BY <1>3, <1>5, <1>6, <1>7, <1>8

\* The scan takes one entry, and the thread that took it scans again.
LEMMA TakeServed ==
    ASSUME IInv, ServedInv, NEW t \in Thread, Take(t)
    PROVE  ServedInv'
<1> USE DEF IInv, ServedInv
<1>1. PICK i \in DOMAIN m_coroutines :
         /\ m_coroutines' = RemoveAt(m_coroutines, i)
         /\ co' = [co EXCEPT ![t] = m_coroutines[i].task]
  BY DEF Take
<1> DEFINE e0 == m_coroutines[i]
<1>2. /\ Range(m_coroutines') \subseteq Range(m_coroutines)
      /\ Range(m_coroutines) \subseteq Range(m_coroutines') \cup {e0}
  BY <1>1, RangeRemove DEF ShapeInv, TypeOK
<1> HIDE DEF e0
<1>3. /\ pc[t] = "scan" /\ co[t] = None
      /\ pc' = [pc EXCEPT ![t] = "taken"]
      /\ co' = [co EXCEPT ![t] = e0.task]
      /\ UNCHANGED <<m_state, m_stopping, m_autoStop, idleTerm, stopPc>>
      /\ pc \in [Thread -> ThreadPc] /\ co \in [Thread -> Task \cup {None}]
  BY <1>1 DEF Take, ShapeInv, CoShape, TypeOK, InHand, OnStack, e0
<1>4. /\ \A x : Queued(x) <=> \E e \in Range(m_coroutines) : e.task = x
      /\ \A x : Queued(x)' <=> \E e \in Range(m_coroutines') : e.task = x
  BY DEF Queued, InQueue, Range
<1>5. RunnableHeld'
  <2> SUFFICES ASSUME NEW c \in Coroutine
               PROVE  /\ m_state[c] = "EXEC" => \E u \in Thread : co'[u] = c
                      /\ m_state[c] = "READY" => Queued(c)' \/ \E u \in Thread : co'[u] = c
    BY <1>3 DEF RunnableHeld
  <2>1. c # None
    BY TaskAssumption DEF Task
  <2>2. (\E u \in Thread : co[u] = c) => \E u \in Thread : co'[u] = c
    BY <1>3, <2>1
  <2>3. Queued(c) => Queued(c)' \/ \E u \in Thread : co'[u] = c
    BY <1>2, <1>3, <1>4
  <2> QED
    BY <2>2, <2>3 DEF RunnableHeld
<1>6. ReadyUnpinned'
  BY <1>2, <1>3 DEF ReadyUnpinned
<1>7. LeavesLate'
  BY <1>3 DEF LeavesLate
<1>8. JoinedAll'
  BY <1>3 DEF JoinedAll, Thread
<1>9. PinsLate'
  BY <1>2, <1>3 DEF PinsLate
<1>10. StillServed'
  BY <1>3 DEF StillServed, ScansAgain
<1> QED
  BY <1>5, <1>6, <1>7, <1>8, <1>9, <1>10

\* A thread that finds nothing and is to leave run() has seen stopping(): what
\* is in the queue and unpinned is then a coroutine that still executes, and
\* the thread that holds it scans again.
LEMMA ScanNothingServed ==
    ASSUME IInv, ServedInv, NEW t \in Thread, ScanNothing(t)
    PROVE  ServedInv'
<1> USE DEF IInv, ServedInv, ScanNothing
<1>1. pc \in [Thread -> ThreadPc] /\ co[t] = None
  BY DEF ShapeInv, TypeOK, CoShape, InHand, OnStack
<1>2. RunnableHeld' /\ ReadyUnpinned' /\ PinsLate'
  BY DEF RunnableHeld, ReadyUnpinned, PinsLate, Queued, InQueue, Range
<1>3. LeavesLate' /\ JoinedAll'
  BY <1>1 DEF LeavesLate, JoinedAll, Thread
<1>4. CASE ~ idleTerm[t]
  <2>1. ScansAgain(t)'
    BY <1>1, <1>4 DEF ScansAgain
  <2> QED
    BY <1>2, <1>3, <2>1 DEF StillServed
<1>5. CASE idleTerm[t]
  <2>0. UNCHANGED <<m_coroutines, m_state, idleTerm>> /\ pc' = [pc EXCEPT ![t] = "empty"]
    OBVIOUS
  <2> SUFFICES ASSUME NEW e \in Range(m_coroutines), e.threadId \notin TaskPins
               PROVE  \E u \in Thread : ScansAgain(u)'
    BY <1>2, <1>3, <2>0 DEF StillServed
  <2>1. e.threadId = None
    BY <1>5 DEF PinsLate
  <2>2. e.task \in Coroutine /\ m_state[e.task] = "EXEC"
    BY <2>1 DEF Range, Eligible
  <2>3. PICK u \in Thread : co[u] = e.task
    BY <2>2 DEF RunnableHeld
  <2>4. co[u] # None
    BY <2>2, <2>3, TaskAssumption DEF Task
  <2>5. u # t /\ pc[u] \in InHand
    BY <1>1, <2>4 DEF ShapeInv, CoShape
  <2>6. pc'[u] = pc[u] /\ pc[u] \notin {"none", "exit", "empty"}
    BY <1>1, <2>5 DEF InHand, OnStack
  <2> QED
    BY <2>6 DEF ScansAgain
<1> QED
  BY <1>2, <1>3, <1>4, <1>5

\* The idle coroutine ends only when the queue is empty.
LEMMA IdleServed ==
    ASSUME IInv, ServedInv, NEW t \in Thread, EnterIdle(t) \/ Exit(t) \/ Idle(t)
    PROVE  ServedInv'
<1> USE DEF IInv, ServedInv
<1>1. /\ pc \in [Thread -> ThreadPc] /\ idleTerm \in [Thread -> BOOLEAN]
      /\ UNCHANGED <<m_coroutines, m_state, m_stopping, m_autoStop, co, stopPc>>
  BY DEF ShapeInv, TypeOK, EnterIdle, Exit, Idle
<1>2. RunnableHeld' /\ ReadyUnpinned'
  BY <1>1 DEF RunnableHeld, ReadyUnpinned, Queued, InQueue, Range
<1>3. CASE EnterIdle(t) \/ Exit(t)
  <2>1. LeavesLate' /\ JoinedAll'
    BY <1>1, <1>3 DEF LeavesLate, JoinedAll, Thread, EnterIdle, Exit
  <2>2. PinsLate'
    BY <1>1, <1>3 DEF PinsLate, EnterIdle, Exit
  <2>3. StillServed'
    BY <1>1, <1>3 DEF StillServed, ScansAgain, EnterIdle, Exit
  <2> QED
    BY <1>2, <2>1, <2>2, <2>3
<1>4. CASE Idle(t)
  <2>1. idleTerm'[t] => m_autoStop /\ m_coroutines = <<>>
    BY <1>1, <1>4 DEF Idle, stopping
  <2>2. \A u \in Thread \ {t} : idleTerm'[u] = idleTerm[u] /\ pc'[u] = pc[u]
    BY <1>1, <1>4 DEF Idle
  <2>3. pc[t] = "idle" /\ pc'[t] = "scan"
    BY <1>1, <1>4 DEF Idle
  <2>4. LeavesLate' /\ JoinedAll'
    BY <1>1, <2>1, <2>2, <2>3 DEF LeavesLate, JoinedAll, Thread
  <2>5. m_coroutines = <<>> => Range(m_coroutines) = {}
    BY DEF Range
  <2>6. PinsLate'
    BY <1>1, <2>1, <2>2, <2>5 DEF PinsLate
  <2>7. StillServed'
    BY <1>1, <2>3 DEF StillServed, ScansAgain
  <2> QED
    BY <1>2, <2>4, <2>6, <2>7
<1> QED
  BY <1>3, <1>4

\* Dispatching, the task's own steps, and the hand-back of a task that is not
\* put into the queue again: a coroutine is READY or EXEC only in the hands of
\* its thread.
LEMMA HandServed ==
    ASSUME IInv, ServedInv, NEW t \in Thread,
           \/ SwapIn(t) \/ DropEnded(t) \/ RunCallback(t) \/ SwapOut(t) \/ Deactivate(t)
           \/ Retire(t) \/ SetHold(t)
           \/ YieldToReady(t) \/ Publish(t) \/ YieldToHold(t) \/ MainFunc(t)
    PROVE  ServedInv'
<1> USE DEF IInv, ServedInv
<1>1. /\ pc \in [Thread -> ThreadPc] /\ co \in [Thread -> Task \cup {None}]
      /\ m_state \in [Coroutine -> State]
      /\ pc[t] \in InHand /\ co[t] # None
      /\ UNCHANGED <<m_coroutines, m_stopping, m_autoStop, idleTerm, stopPc>>
      /\ \E to \in InHand \cup {"scan"} : pc' = [pc EXCEPT ![t] = to]
  BY DEF ShapeInv, TypeOK, CoShape, InHand, OnStack, SwapIn, DropEnded, RunCallback, SwapOut,
         Deactivate, Retire, SetHold, YieldToReady, Publish, YieldToHold, MainFunc
<1>2. LeavesLate' /\ JoinedAll' /\ PinsLate' /\ StillServed'
  <2>1. pc[t] \notin {"none", "exit", "empty"} /\ pc'[t] \notin {"none", "exit", "empty"}
    BY <1>1 DEF InHand, OnStack
  <2>2. \A u \in Thread \ {t} : pc'[u] = pc[u]
    BY <1>1
  <2>3. LeavesLate' /\ JoinedAll'
    BY <1>1, <2>1, <2>2 DEF LeavesLate, JoinedAll, Thread
  <2>4. PinsLate'
    BY <1>1 DEF PinsLate
  <2>5. StillServed'
    BY <1>1, <2>1 DEF StillServed, ScansAgain
  <2> QED
    BY <2>3, <2>4, <2>5
<1>3. InQueue' = InQueue
  BY <1>1 DEF InQueue
<1>4. CASE RunCallback(t)
  <2>1. PICK k \in CbCor : /\ IF cb_coroutine[t] # None THEN k = cb_coroutine[t] ELSE Unreferenced(k)
                           /\ co' = [co EXCEPT ![t] = k]
                           /\ m_state' = [m_state EXCEPT ![k] = "EXEC"]
    BY <1>4 DEF RunCallback
  <2>2. k \in Coroutine /\ co[t] \notin Coroutine
    BY <1>4, TaskAssumption DEF RunCallback, Coroutine
  <2>3. RunnableHeld'
    BY <1>1, <1>3, <2>1, <2>2 DEF RunnableHeld, Queued
  <2>4. ReadyUnpinned'
    BY <1>1, <2>1, <2>2 DEF ReadyUnpinned
  <2> QED
    BY <1>2, <2>3, <2>4
<1>5. CASE ~ RunCallback(t)
  <2>1. co[t] \in Coroutine
    BY <1>5 DEF ShapeInv, CoShape, InHand, OnStack, SwapIn, DropEnded, SwapOut,
         Deactivate, Retire, SetHold, YieldToReady, Publish, YieldToHold, MainFunc
  <2>2. /\ \A c \in Coroutine \ {co[t]} : m_state'[c] = m_state[c]
        /\ \A u \in Thread \ {t} : co'[u] = co[u]
        /\ m_state'[co[t]] \in {"EXEC", "READY"} => co'[t] = co[t]
        /\ m_state'[co[t]] = "READY" /\ m_state[co[t]] # "READY" => pc[t] = "user"
        /\ co'[t] # co[t] => co'[t] = None
    BY <1>1, <1>5, <2>1 DEF SwapIn, DropEnded, SwapOut,
         Deactivate, Retire, SetHold, YieldToReady, Publish, YieldToHold, MainFunc, Ended
  <2>3. RunnableHeld'
    BY <1>1, <1>3, <2>1, <2>2 DEF RunnableHeld, Queued
  <2>4. pc[t] = "user" => ~ Queued(co[t])
    BY <2>1 DEF OwnerInv, OverlapIsExec
  <2>5. \A e \in Range(m_coroutines) : Queued(e.task)
    BY DEF Queued, InQueue, Range
  <2>6. ReadyUnpinned'
    BY <1>1, <2>1, <2>2, <2>4, <2>5 DEF ReadyUnpinned
  <2> QED
    BY <1>2, <2>3, <2>6
<1> QED
  BY <1>4, <1>5

\* run() puts a READY coroutine back for any thread, and scans again itself.
LEMMA RescheduleServed ==
    ASSUME IInv, ServedInv, NEW t \in Thread, Reschedule(t)
    PROVE  ServedInv'
<1> USE DEF IInv, ServedInv
<1> DEFINE c == co[t]
           e0 == [task |-> c, threadId |-> None]
           r == <<e0>>
<1>1. /\ pc \in [Thread -> ThreadPc] /\ co \in [Thread -> Task \cup {None}]
      /\ c \in Coroutine /\ c \in Task /\ pc[t] = "after" /\ m_state[c] = "READY"
      /\ pc' = [pc EXCEPT ![t] = "scan"] /\ co' = [co EXCEPT ![t] = None]
      /\ UNCHANGED <<m_state, m_stopping, m_autoStop, idleTerm, stopPc>>
  BY DEF ShapeInv, TypeOK, CoShape, InHand, OnStack, Reschedule, Task
<1>2. /\ m_coroutines' = m_coroutines \o r
      /\ m_coroutines \in Seq(Entry) /\ r \in Seq(Entry) /\ Range(r) = {e0}
  BY <1>1 DEF Reschedule, ShapeInv, TypeOK, Entry, Range
<1>3. e0.task = c /\ e0.threadId = None
  OBVIOUS
<1> HIDE DEF c, e0, r
<1>4. Range(m_coroutines') = Range(m_coroutines) \cup {e0}
  BY <1>2, RangeConcat
<1>5. InQueue' = InQueue \cup {c}
  <2>1. /\ \A x : x \in InQueue <=> \E e \in Range(m_coroutines) : e.task = x
        /\ \A x : x \in InQueue' <=> \E e \in Range(m_coroutines') : e.task = x
    BY DEF InQueue, Range
  <2> QED
    BY <1>3, <1>4, <2>1
<1>6. RunnableHeld'
  <2> SUFFICES ASSUME NEW d \in Coroutine
               PROVE  /\ m_state[d] = "EXEC" => \E u \in Thread : co'[u] = d
                      /\ m_state[d] = "READY" => d \in InQueue' \/ \E u \in Thread : co'[u] = d
    BY <1>1 DEF RunnableHeld, Queued
  <2>1. d # c => ((\E u \in Thread : co[u] = d) => \E u \in Thread : co'[u] = d)
    BY <1>1 DEF c
  <2> QED
    BY <1>1, <1>5, <2>1 DEF RunnableHeld, Queued
<1>7. ReadyUnpinned'
  BY <1>1, <1>3, <1>4 DEF ReadyUnpinned
<1>8. LeavesLate' /\ JoinedAll'
  BY <1>1 DEF LeavesLate, JoinedAll, Thread
<1>9. PinsLate'
  BY <1>1, <1>3, <1>4 DEF PinsLate
<1>10. StillServed'
  <2>1. ScansAgain(t)'
    BY <1>1 DEF ScansAgain
  <2> QED
    BY <2>1 DEF StillServed
<1> QED
  BY <1>6, <1>7, <1>8, <1>9, <1>10

\* start() and the steps of stop(): before stop() tests for tasks the last time
\* there is a worker that scans, or the calling thread enters run() itself.
LEMMA StopServed ==
    ASSUME IInv, ServedInv, Start \/ StopBegin \/ StopStep \/ UNCHANGED vars
    PROVE  ServedInv'
<1> USE DEF IInv, ServedInv
<1>1. /\ pc \in [Thread -> ThreadPc] /\ UseCaller \in BOOLEAN /\ stopPc \in StopPc
      /\ UNCHANGED <<m_coroutines, m_state, co, idleTerm>>
  BY ThreadAssumption DEF ShapeInv, TypeOK, Start, StopBegin, StopStep, StopFlag, StopCheck, StopRan,
         StopJoin, StopUnchanged, vars
<1>2. RunnableHeld' /\ ReadyUnpinned' /\ PinsLate'
  BY <1>1 DEF RunnableHeld, ReadyUnpinned, PinsLate, Queued, InQueue, Range
<1>3. m_coroutines = <<>> => Range(m_coroutines) = {}
  BY DEF Range
<1>4. UseCaller => Caller \in Thread
  BY DEF Thread
<1>5. CASE Start
  <2>1. LeavesLate' /\ JoinedAll'
    BY <1>1, <1>5 DEF Start, LeavesLate, JoinedAll, Thread
  <2>2. StillServed'
    BY <1>5 DEF Start, StillServed
  <2> QED
    BY <1>2, <2>1, <2>2
<1>6. CASE StopBegin
  <2>1. UNCHANGED pc /\ stopPc = "app" /\ ~ m_stopping /\ stopPc' \in {"flag", "done"} /\ m_autoStop'
    BY <1>6 DEF StopBegin
  <2>2. stopPc' = "done" => UseCaller /\ Worker = {} /\ m_coroutines = <<>>
    BY <1>1, <1>6 DEF StopBegin, stopping
  <2>3. LeavesLate' /\ JoinedAll'
    BY <1>1, <2>1, <2>2 DEF LeavesLate, JoinedAll, Thread, ShapeInv, PhaseOK
  <2>4. CASE stopPc' = "flag" /\ ~ UseCaller
    <3>1. PICK w \in Worker : w \in Thread
      BY <2>4, ThreadAssumption DEF Thread
    <3>2. ScansAgain(w)'
      BY <1>1, <2>1, <3>1 DEF LeavesLate, ScansAgain
    <3> QED
      BY <1>2, <2>3, <3>1, <3>2 DEF StillServed
  <2>5. CASE stopPc' = "done" \/ UseCaller
    BY <1>1, <1>2, <1>3, <2>1, <2>2, <2>3, <2>5 DEF StillServed
  <2> QED
    BY <2>1, <2>4, <2>5
<1>7. CASE StopFlag \/ StopRan \/ StopJoin
  <2>1. UNCHANGED <<pc, m_autoStop>> /\ stopPc # "app" /\ stopPc' # "app"
    BY <1>1, <1>7 DEF StopFlag, StopRan, StopJoin
  <2>2. LeavesLate' /\ JoinedAll'
    BY <1>1, <1>7, <2>1 DEF LeavesLate, JoinedAll, Thread, ShapeInv, PhaseOK,
         StopFlag, StopRan, StopJoin
  <2>3. StillServed'
    BY <1>1, <1>7, <2>1 DEF StillServed, ScansAgain, StopFlag, StopRan, StopJoin
  <2> QED
    BY <1>2, <2>2, <2>3
<1>8. CASE StopCheck
  <2>1. /\ stopPc = "check" /\ stopPc' \in {"join", "run"} /\ UNCHANGED <<m_stopping, m_autoStop>>
        /\ stopPc' = "join" => m_coroutines = <<>> /\ UNCHANGED pc
        /\ stopPc' = "run" => pc' = [pc EXCEPT ![Caller] = "scan"]
    BY <1>8 DEF StopCheck, stopping
  <2>2. LeavesLate'
    <3>1. \A t \in Thread : pc'[t] = pc[t] \/ pc'[t] = "scan"
      BY <1>1, <2>1
    <3> QED
      BY <1>1, <2>1, <3>1 DEF LeavesLate, Thread
  <2>3. JoinedAll'
    <3>1. CASE stopPc' = "join"
      <4>1. UseCaller => pc'[Caller] = "none"
        BY <2>1, <3>1 DEF ShapeInv, PhaseOK
      <4> QED
        BY <3>1, <4>1 DEF JoinedAll
    <3>2. CASE stopPc' = "run"
      BY <3>2 DEF JoinedAll
    <3> QED
      BY <2>1, <3>1, <3>2
  <2>4. CASE stopPc' = "run" /\ UseCaller
    <3>1. ScansAgain(Caller)'
      BY <1>1, <1>4, <2>1, <2>4 DEF ScansAgain
    <3> QED
      BY <1>2, <1>4, <2>2, <2>3, <2>4, <3>1 DEF StillServed
  <2>5. CASE stopPc' = "run" /\ ~ UseCaller
    <3>1. UNCHANGED pc
      BY <1>1, <2>1, <2>5, ThreadAssumption DEF Thread
    <3>2. StillServed'
      BY <1>1, <2>1, <2>5, <3>1 DEF StillServed, ScansAgain
    <3> QED
      BY <1>2, <2>2, <2>3, <3>2
  <2>6. CASE stopPc' = "join"
    BY <1>1, <1>2, <1>3, <2>1, <2>2, <2>3, <2>6 DEF StillServed
  <2> QED
    BY <2>1, <2>4, <2>5, <2>6
<1>9. CASE UNCHANGED vars
  BY <1>1, <1>2, <1>9 DEF LeavesLate, JoinedAll, StillServed, ScansAgain, vars
<1> QED
  BY <1>5, <1>6, <1>7, <1>8, <1>9 DEF StopStep

\* Every step keeps the invariant.
LEMMA ServedStep ==
    ASSUME IInv, ServedInv, [Next]_vars
    PROVE  ServedInv'
<1>a. ASSUME NEW x \in Task, NEW tid \in Thread \cup {None}, MaySchedule(x),
             schedule(<<[task |-> x, threadId |-> tid]>>),
             UNCHANGED <<m_state, m_stopping, m_autoStop, pc, co, idleTerm, stopPc>>,
             \/ stopPc = "app"
             \/ (\E t \in Thread : pc[t] = "user") /\ tid \in TaskPins \cup {None}
      PROVE  ServedInv'
  <2> DEFINE es == <<[task |-> x, threadId |-> tid]>>
  <2>1. es \in Seq(Entry) /\ \A e \in Range(es) : e.task = x /\ e.threadId = tid
    BY DEF Entry, Range
  <2>2. m_coroutines' = m_coroutines \o es
    BY <1>a DEF schedule
  <2> HIDE DEF es
  <2> QED
    BY <1>a, <2>1, <2>2, ScheduleServed DEF MaySchedule
<1>b. ASSUME NEW x \in Task, NEW tid \in AppPins \cup {None}, AppSchedule(x, tid)
      PROVE  ServedInv'
  BY <1>a, <1>b, ThreadAssumption DEF AppSchedule
<1>c. ASSUME NEW x \in Task, NEW y \in Task, AppScheduleBatch(x, y)
      PROVE  ServedInv'
  <2> DEFINE es == <<[task |-> x, threadId |-> None], [task |-> y, threadId |-> None]>>
  <2>1. es \in Seq(Entry) /\ \A e \in Range(es) : e.task \in {x, y}
    BY DEF Entry, Range
  <2>2. /\ m_coroutines' = m_coroutines \o es /\ x \in handles /\ y \in handles /\ stopPc = "app"
        /\ UNCHANGED <<m_state, m_stopping, m_autoStop, pc, co, idleTerm, stopPc>>
    BY <1>c DEF schedule, AppScheduleBatch, MaySchedule
  <2> HIDE DEF es
  <2> QED
    BY <2>1, <2>2, ScheduleServed
<1>d. ASSUME NEW t \in Thread, NEW x \in Task, NEW tid \in TaskPins \cup {None},
             TaskSchedule(t, x, tid)
      PROVE  ServedInv'
  BY <1>a, <1>d, ThreadAssumption DEF TaskSchedule
<1>1. CASE Start \/ StopBegin \/ StopStep \/ UNCHANGED vars
  BY <1>1, StopServed
<1>2. ASSUME NEW t \in Thread, run(t) \/ Idle(t)
      PROVE  ServedInv'
  BY <1>2, TakeServed, ScanNothingServed, IdleServed, HandServed, RescheduleServed DEF run
<1>3. ASSUME NEW t \in Thread,
             YieldToReady(t) \/ Publish(t) \/ YieldToHold(t) \/ MainFunc(t)
      PROVE  ServedInv'
  BY <1>3, HandServed
<1> QED
  BY <1>b, <1>c, <1>d, <1>1, <1>2, <1>3 DEF Next, App, UserCode, Stopped

-----------------------------------------------------------------------------
(* The theorems *)

\* The inductive invariant of the counts and of stop() holds in every reachable
\* state.
THEOREM StopInvariant == Spec => [](IInv /\ StopInv)
<1>1. Init => StopInv
  <2> SUFFICES ASSUME Init PROVE StopInv
    OBVIOUS
  <2>1. {t \in Thread : pc[t] \in {"taken", "back"} \cup OnStack} = {}
        /\ {t \in Thread : pc[t] = "idle"} = {}
    BY DEF Init, OnStack
  <2>2. CountsExact
    BY <2>1, FS_EmptySet DEF CountsExact, Init
  <2>3. Range(m_coroutines) = {}
    BY DEF Init, Range
  <2>4. ServedInv
    BY <2>3 DEF Init, ServedInv, RunnableHeld, ReadyUnpinned, LeavesLate, PinsLate, StillServed,
           JoinedAll, Thread
  <2> QED
    BY <2>2, <2>4 DEF StopInv
<1>2. IInv /\ StopInv /\ [Next]_vars => StopInv'
  BY CountsStep, ServedStep DEF StopInv
<1> QED
  BY <1>1, <1>2, OwnershipInvariant, PTL DEF Spec

\* m_activeThreadCount and m_idleThreadCount are exact in every state, so
\* stopping() never decides on a thread that was forgotten.
THEOREM CountsAreExact == Spec => []CountsExact
<1>1. StopInv => CountsExact
  BY DEF StopInv
<1> QED
  BY <1>1, StopInvariant, PTL

\* A coroutine that yielded READY is in the queue, or exactly one thread holds
\* it: run() neither loses nor doubles it.
THEOREM ReadyIsHeldOnce == Spec => []ReadyHeldOnce
<1>1. IInv /\ StopInv => ReadyHeldOnce
  <2> SUFFICES ASSUME IInv, StopInv, NEW c \in Coroutine, m_state[c] = "READY"
               PROVE  /\ Queued(c) => \A t \in Thread : co[t] # c
                      /\ ~ Queued(c) => Cardinality({t \in Thread : co[t] = c}) = 1
    BY DEF ReadyHeldOnce
  <2>1. Queued(c) => \A t \in Thread : co[t] # c
    BY DEF IInv, OwnerInv, OverlapIsExec
  <2>2. CASE ~ Queued(c)
    <3>1. PICK t \in Thread : co[t] = c
      BY <2>2 DEF StopInv, ServedInv, RunnableHeld
    <3>2. {u \in Thread : co[u] = c} = {t}
      BY <3>1 DEF IInv, OwnerInv, UniqueHolder
    <3> QED
      BY <2>1, <2>2, <3>2, FS_Singleton
  <2> QED
    BY <2>1, <2>2
<1> QED
  BY <1>1, StopInvariant, PTL

\* stop() leaves nothing that a thread could still take and no runnable or
\* running coroutine, whatever the interleaving of the threads that leave.
THEOREM NothingIsStranded == Spec => []NothingStranded
<1>1. IInv /\ StopInv => NothingStranded
  <2> SUFFICES ASSUME IInv, StopInv, stopPc = "done"
               PROVE  /\ \A e \in Range(m_coroutines) : e.threadId \in TaskPins
                      /\ \A c \in Coroutine : m_state[c] \notin {"READY", "EXEC"}
    BY DEF NothingStranded
  <2> USE DEF IInv, StopInv, ServedInv
  <2>1. \A t \in Thread : pc[t] \in {"none", "exit"}
    BY ThreadAssumption DEF JoinedAll, Thread
  <2>2. \A e \in Range(m_coroutines) : e.threadId \in TaskPins
    BY <2>1 DEF StillServed, ScansAgain
  <2>3. ASSUME NEW c \in Coroutine, m_state[c] \in {"READY", "EXEC"} PROVE FALSE
    <3>1. \A t \in Thread : co[t] = None
      BY <2>1 DEF ShapeInv, CoShape, InHand, OnStack
    <3>2. c # None
      BY TaskAssumption DEF Task
    <3>3. m_state[c] = "READY" /\ Queued(c)
      BY <2>3, <3>1, <3>2 DEF RunnableHeld
    <3>4. PICK e \in Range(m_coroutines) : e.task = c
      BY <3>3 DEF Queued, InQueue, Range
    <3>5. e.threadId = None
      BY <3>3, <3>4 DEF ReadyUnpinned
    <3>6. None \notin TaskPins
      BY ThreadAssumption DEF Thread
    <3> QED
      BY <2>2, <3>5, <3>6
  <2> QED
    BY <2>2, <2>3
<1> QED
  BY <1>1, StopInvariant, PTL

=============================================================================
