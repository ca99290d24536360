-------------------------- MODULE SchedulerProofs --------------------------
(***************************************************************************)
(* Proofs about Scheduler, for any number of threads, coroutines, function *)
(* tasks and pins.                                                         *)
(***************************************************************************)
EXTENDS Scheduler, SequenceTheorems, TLAPS

-----------------------------------------------------------------------------
(* Facts about the queue operations *)

\* Removing one entry of a queue shortens it by one and shifts the rest.
LEMMA RemoveAtFacts ==
    ASSUME NEW S, NEW s \in Seq(S), NEW i \in DOMAIN s
    PROVE  /\ RemoveAt(s, i) \in Seq(S)
           /\ Len(RemoveAt(s, i)) = Len(s) - 1
           /\ \A j \in 1 .. Len(s) - 1 :
                 RemoveAt(s, i)[j] = IF j < i THEN s[j] ELSE s[j + 1]
<1>1. i \in 1 .. Len(s) /\ Len(s) \in Nat
  OBVIOUS
<1> DEFINE a == SubSeq(s, 1, i - 1)
           b == SubSeq(s, i + 1, Len(s))
<1>2. a \in Seq(S) /\ Len(a) = i - 1 /\ \A j \in 1 .. i - 1 : a[j] = s[j]
  BY <1>1
<1>3. b \in Seq(S) /\ Len(b) = Len(s) - i /\ \A j \in 1 .. Len(s) - i : b[j] = s[i + j]
  BY <1>1
<1>4. RemoveAt(s, i) = a \o b
  BY DEF RemoveAt
<1> HIDE DEF a, b
<1>5. /\ a \o b \in Seq(S)
      /\ Len(a \o b) = Len(s) - 1
      /\ \A j \in 1 .. Len(s) - 1 :
            (a \o b)[j] = IF j < i THEN s[j] ELSE s[j + 1]
  <2>1. /\ a \o b \in Seq(S)
        /\ Len(a \o b) = Len(a) + Len(b)
        /\ \A j \in 1 .. Len(a) + Len(b) :
              (a \o b)[j] = IF j <= Len(a) THEN a[j] ELSE b[j - Len(a)]
    BY <1>2, <1>3, ConcatProperties
  <2>2. Len(a) + Len(b) = Len(s) - 1
    BY <1>1, <1>2, <1>3
  <2>3. ASSUME NEW j \in 1 .. Len(s) - 1
        PROVE  (a \o b)[j] = IF j < i THEN s[j] ELSE s[j + 1]
    <3>1. (a \o b)[j] = IF j <= i - 1 THEN a[j] ELSE b[j - (i - 1)]
      BY <1>2, <2>1, <2>2
    <3>2. CASE j < i
      <4>1. j \in 1 .. i - 1
        BY <1>1, <3>2
      <4> QED
        BY <1>2, <3>1, <3>2, <4>1
    <3>3. CASE ~ (j < i)
      <4>1. ~ (j <= i - 1) /\ j - (i - 1) \in 1 .. Len(s) - i
        BY <1>1, <3>3
      <4>2. i + (j - (i - 1)) = j + 1
        BY <1>1
      <4>3. b[j - (i - 1)] = s[i + (j - (i - 1))]
        BY <1>3, <4>1
      <4> QED
        BY <3>1, <3>3, <4>1, <4>2, <4>3
    <3> QED
      BY <3>2, <3>3
  <2> QED
    BY <2>1, <2>2, <2>3
<1> QED
  BY <1>4, <1>5

-----------------------------------------------------------------------------
(* Type correctness *)

\* Every entry of the queue is a task with the thread it is meant for.
LEMMA QueueEntry ==
    ASSUME TypeOK, NEW i \in DOMAIN m_coroutines
    PROVE  /\ m_coroutines[i].task \in Task
           /\ m_coroutines[i].threadId \in Thread \cup {None}
<1>1. m_coroutines[i] \in Entry
  BY DEF TypeOK
<1> QED
  BY <1>1 DEF Entry

\* The initial state is well typed.
LEMMA TypeInit == Init => TypeOK
<1> SUFFICES ASSUME Init PROVE TypeOK
  OBVIOUS
<1> USE DEF Init
<1>1. m_coroutines \in Seq(Entry)
  OBVIOUS
<1>2. m_state \in [Coroutine -> State] /\ steps \in [Coroutine -> Nat]
  BY DEF State
<1>3. m_activeThreadCount \in Int /\ m_idleThreadCount \in Int
  OBVIOUS
<1>4. m_stopping \in BOOLEAN /\ m_autoStop \in BOOLEAN
  BY Zenon
<1>5. pc \in [Thread -> ThreadPc] /\ co \in [Thread -> Task \cup {None}]
      /\ cb_coroutine \in [Thread -> CbCor \cup {None}]
  BY DEF ThreadPc
<1>6. idleTerm \in [Thread -> BOOLEAN]
  BY Zenon
<1>7. stopPc \in StopPc /\ handles \in SUBSET Task
  BY DEF StopPc, Task, Coroutine
<1> QED
  BY <1>1, <1>2, <1>3, <1>4, <1>5, <1>6, <1>7 DEF TypeOK

\* Every step keeps the state well typed.
LEMMA TypeStep == ShapeInv /\ [Next]_vars => TypeOK'
<1> SUFFICES ASSUME ShapeInv, [Next]_vars PROVE TypeOK'
  OBVIOUS
<1> USE DEF TypeOK, ShapeInv, CoShape, InHand, OnStack
<1>a. ASSUME NEW es \in Seq(Entry), schedule(es)
      PROVE  m_coroutines' \in Seq(Entry) /\ handles' \in SUBSET Task
  BY <1>a DEF schedule
<1>b. ASSUME NEW x \in Task, NEW tid \in AppPins \cup {None}, AppSchedule(x, tid)
      PROVE  TypeOK'
  <2>1. <<[task |-> x, threadId |-> tid]>> \in Seq(Entry)
    BY ThreadAssumption DEF Entry
  <2> QED
    BY <1>a, <1>b, <2>1 DEF AppSchedule
<1>c. ASSUME NEW x \in Task, NEW y \in Task, AppScheduleBatch(x, y)
      PROVE  TypeOK'
  <2>1. <<[task |-> x, threadId |-> None], [task |-> y, threadId |-> None]>> \in Seq(Entry)
    BY DEF Entry
  <2> QED
    BY <1>a, <1>c, <2>1 DEF AppScheduleBatch
<1>d. ASSUME NEW t \in Thread, NEW x \in Task, NEW tid \in TaskPins \cup {None},
             TaskSchedule(t, x, tid)
      PROVE  TypeOK'
  <2>1. <<[task |-> x, threadId |-> tid]>> \in Seq(Entry)
    BY ThreadAssumption DEF Entry
  <2>2. steps' \in [Coroutine -> Nat]
    BY <1>d DEF TaskSchedule
  <2>3. m_coroutines' \in Seq(Entry) /\ handles' \in SUBSET Task
    BY <1>a, <1>d, <2>1 DEF TaskSchedule
  <2> QED
    BY <1>d, <2>2, <2>3 DEF TaskSchedule
<1>1. CASE Start
  BY <1>1 DEF Start, StopUnchanged, StopPc, ThreadPc
<1>2. CASE StopBegin
  BY <1>2 DEF StopBegin, StopUnchanged, StopPc, ThreadPc
<1>4. CASE StopFlag
  BY <1>4 DEF StopFlag, StopUnchanged, StopPc, ThreadPc
<1>5. CASE StopCheck
  BY <1>5 DEF StopCheck, StopUnchanged, StopPc, ThreadPc
<1>6. CASE StopRan
  BY <1>6 DEF StopRan, StopUnchanged, StopPc, ThreadPc
<1>7. CASE StopJoin
  BY <1>7 DEF StopJoin, StopUnchanged, StopPc, ThreadPc
<1>8. ASSUME NEW t \in Thread, Take(t) PROVE TypeOK'
  <2>1. PICK i \in DOMAIN m_coroutines :
           /\ m_coroutines' = RemoveAt(m_coroutines, i)
           /\ co' = [co EXCEPT ![t] = m_coroutines[i].task]
    BY <1>8 DEF Take
  <2>2. m_coroutines' \in Seq(Entry)
    BY <2>1, RemoveAtFacts
  <2>3. m_coroutines[i].task \in Task
    BY QueueEntry
  <2> QED
    BY <1>8, <2>1, <2>2, <2>3 DEF Take, ThreadPc
<1>9. ASSUME NEW t \in Thread, EnterIdle(t) PROVE TypeOK'
  BY <1>9 DEF EnterIdle, State, ThreadPc, Ended, ForgetCallback, Entry
<1>10. ASSUME NEW t \in Thread, Exit(t) PROVE TypeOK'
  BY <1>10 DEF Exit, State, ThreadPc, Ended, ForgetCallback, Entry
<1>11. ASSUME NEW t \in Thread, Idle(t) PROVE TypeOK'
  <2>1. stopping \in BOOLEAN
    BY DEF stopping
  <2>2. idleTerm' \in [Thread -> BOOLEAN]
    BY <1>11, <2>1, Zenon DEF Idle
  <2> QED
    BY <1>11, <2>2 DEF Idle, ThreadPc
<1>12. ASSUME NEW t \in Thread, SwapIn(t) PROVE TypeOK'
  BY <1>12 DEF SwapIn, State, ThreadPc, Ended, ForgetCallback, Entry
<1>13. ASSUME NEW t \in Thread, DropEnded(t) PROVE TypeOK'
  BY <1>13 DEF DropEnded, State, ThreadPc, Ended, ForgetCallback, Entry
<1>14. ASSUME NEW t \in Thread, RunCallback(t) PROVE TypeOK'
  <2>1. PICK k \in CbCor :
           /\ cb_coroutine' = [cb_coroutine EXCEPT ![t] = k]
           /\ co' = [co EXCEPT ![t] = k]
           /\ m_state' = [m_state EXCEPT ![k] = "EXEC"]
           /\ steps' = [steps EXCEPT ![k] = 0]
    BY <1>14 DEF RunCallback
  <2>2. k \in Coroutine /\ k \in Task
    BY DEF Task, Coroutine
  <2> QED
    BY <1>14, <2>1, <2>2 DEF RunCallback, State, ThreadPc
<1>15. ASSUME NEW t \in Thread, YieldToReady(t) PROVE TypeOK'
  BY <1>15 DEF YieldToReady, State, ThreadPc, Ended, ForgetCallback, Entry
<1>16. ASSUME NEW t \in Thread, Publish(t) PROVE TypeOK'
  BY <1>16 DEF Publish, State, ThreadPc, Ended, ForgetCallback, Entry
<1>17. ASSUME NEW t \in Thread, YieldToHold(t) PROVE TypeOK'
  BY <1>17 DEF YieldToHold, State, ThreadPc, Ended, ForgetCallback, Entry
<1>18. ASSUME NEW t \in Thread, MainFunc(t) PROVE TypeOK'
  BY <1>18 DEF MainFunc, State, ThreadPc, Ended, ForgetCallback, Entry
<1>19. ASSUME NEW t \in Thread, SwapOut(t) PROVE TypeOK'
  BY <1>19 DEF SwapOut, State, ThreadPc, Ended, ForgetCallback, Entry
<1>20. ASSUME NEW t \in Thread, Deactivate(t) PROVE TypeOK'
  BY <1>20 DEF Deactivate, State, ThreadPc, Ended, ForgetCallback, Entry
<1>21. ASSUME NEW t \in Thread, Reschedule(t) PROVE TypeOK'
  BY <1>21 DEF Reschedule, State, ThreadPc, Ended, ForgetCallback, Entry
<1>22. ASSUME NEW t \in Thread, Retire(t) PROVE TypeOK'
  <2>1. m_state' \in [Coroutine -> State]
    BY <1>22 DEF Retire, State
  <2>2. handles' \in SUBSET Task
    BY <1>22 DEF Retire, Task, Coroutine
  <2>3. pc' \in [Thread -> ThreadPc] /\ co' \in [Thread -> Task \cup {None}]
    BY <1>22 DEF Retire, ThreadPc
  <2> QED
    BY <1>22, <2>1, <2>2, <2>3 DEF Retire
<1>23. ASSUME NEW t \in Thread, SetHold(t) PROVE TypeOK'
  BY <1>23 DEF SetHold, State, ThreadPc, Ended, ForgetCallback, Entry
<1>24. CASE UNCHANGED vars
  BY <1>24 DEF vars
<1>25. ASSUME NEW t \in Thread, ScanNothing(t) PROVE TypeOK'
  BY <1>25 DEF ScanNothing, ThreadPc
<1> QED
  BY <1>b, <1>c, <1>d, <1>1, <1>2, <1>4, <1>5, <1>6, <1>7, <1>8, <1>9, <1>10,
     <1>11, <1>12, <1>13, <1>14, <1>15, <1>16, <1>17, <1>18, <1>19, <1>20, <1>21,
     <1>22, <1>23, <1>24, <1>25
     DEF Next, App, StopStep, UserCode, run, Stopped

\* Every step keeps the correspondence between a thread's position in run()
\* and its local co, and the phases of start() and stop().
LEMMA ShapeStep == ShapeInv /\ [Next]_vars => CoShape' /\ PhaseOK'
<1> SUFFICES ASSUME ShapeInv, [Next]_vars PROVE CoShape' /\ PhaseOK'
  OBVIOUS
<1> USE ThreadAssumption, TaskAssumption
        DEF ShapeInv, TypeOK, CoShape, PhaseOK, InHand, OnStack, Thread
<1>b. ASSUME NEW x \in Task, NEW tid \in AppPins \cup {None}, AppSchedule(x, tid)
      PROVE  CoShape' /\ PhaseOK'
  BY <1>b DEF AppSchedule
<1>c. ASSUME NEW x \in Task, NEW y \in Task, AppScheduleBatch(x, y)
      PROVE  CoShape' /\ PhaseOK'
  BY <1>c DEF AppScheduleBatch
<1>d. ASSUME NEW t \in Thread, NEW x \in Task, NEW tid \in TaskPins \cup {None},
             TaskSchedule(t, x, tid)
      PROVE  CoShape' /\ PhaseOK'
  BY <1>d DEF TaskSchedule
<1>1. CASE Start
  BY <1>1 DEF Start, StopUnchanged
<1>2. CASE StopBegin
  BY <1>2 DEF StopBegin, StopUnchanged
<1>4. CASE StopFlag
  BY <1>4 DEF StopFlag, StopUnchanged
<1>5. CASE StopCheck
  BY <1>5 DEF StopCheck, StopUnchanged
<1>6. CASE StopRan
  BY <1>6 DEF StopRan, StopUnchanged
<1>7. CASE StopJoin
  BY <1>7 DEF StopJoin, StopUnchanged
<1>8. ASSUME NEW t \in Thread, Take(t) PROVE CoShape' /\ PhaseOK'
  <2>1. PICK i \in DOMAIN m_coroutines : co' = [co EXCEPT ![t] = m_coroutines[i].task]
    BY <1>8 DEF Take
  <2>2. m_coroutines[i].task \in Task
    BY QueueEntry
  <2> QED
    BY <1>8, <2>1, <2>2 DEF Take
<1>9. ASSUME NEW t \in Thread, EnterIdle(t) PROVE CoShape' /\ PhaseOK'
  BY <1>9 DEF EnterIdle
<1>10. ASSUME NEW t \in Thread, Exit(t) PROVE CoShape' /\ PhaseOK'
  BY <1>10 DEF Exit
<1>11. ASSUME NEW t \in Thread, Idle(t) PROVE CoShape' /\ PhaseOK'
  BY <1>11 DEF Idle
<1>12. ASSUME NEW t \in Thread, SwapIn(t) PROVE CoShape' /\ PhaseOK'
  BY <1>12 DEF SwapIn
<1>13. ASSUME NEW t \in Thread, DropEnded(t) PROVE CoShape' /\ PhaseOK'
  BY <1>13 DEF DropEnded
<1>14. ASSUME NEW t \in Thread, RunCallback(t) PROVE CoShape' /\ PhaseOK'
  <2>1. PICK k \in CbCor : co' = [co EXCEPT ![t] = k]
    BY <1>14 DEF RunCallback
  <2>2. k \in Coroutine /\ k # None
    BY DEF Task, Coroutine
  <2> QED
    BY <1>14, <2>1, <2>2 DEF RunCallback
<1>15. ASSUME NEW t \in Thread, YieldToReady(t) PROVE CoShape' /\ PhaseOK'
  BY <1>15 DEF YieldToReady
<1>16. ASSUME NEW t \in Thread, Publish(t) PROVE CoShape' /\ PhaseOK'
  BY <1>16 DEF Publish
<1>17. ASSUME NEW t \in Thread, YieldToHold(t) PROVE CoShape' /\ PhaseOK'
  BY <1>17 DEF YieldToHold
<1>18. ASSUME NEW t \in Thread, MainFunc(t) PROVE CoShape' /\ PhaseOK'
  BY <1>18 DEF MainFunc
<1>19. ASSUME NEW t \in Thread, SwapOut(t) PROVE CoShape' /\ PhaseOK'
  BY <1>19 DEF SwapOut
<1>20. ASSUME NEW t \in Thread, Deactivate(t) PROVE CoShape' /\ PhaseOK'
  BY <1>20 DEF Deactivate
<1>21. ASSUME NEW t \in Thread, Reschedule(t) PROVE CoShape' /\ PhaseOK'
  BY <1>21 DEF Reschedule
<1>22. ASSUME NEW t \in Thread, Retire(t) PROVE CoShape' /\ PhaseOK'
  BY <1>22 DEF Retire
<1>23. ASSUME NEW t \in Thread, SetHold(t) PROVE CoShape' /\ PhaseOK'
  BY <1>23 DEF SetHold
<1>24. CASE UNCHANGED vars
  BY <1>24 DEF vars
<1>25. ASSUME NEW t \in Thread, ScanNothing(t) PROVE CoShape' /\ PhaseOK'
  BY <1>25 DEF ScanNothing, ThreadPc
<1> QED
  BY <1>b, <1>c, <1>d, <1>1, <1>2, <1>4, <1>5, <1>6, <1>7, <1>8, <1>9, <1>10,
     <1>11, <1>12, <1>13, <1>14, <1>15, <1>16, <1>17, <1>18, <1>19, <1>20, <1>21,
     <1>22, <1>23, <1>24, <1>25
     DEF Next, App, StopStep, UserCode, run, Stopped

\* The initial state satisfies the shape invariant.
LEMMA ShapeInit == Init => ShapeInv
  BY TypeInit DEF Init, ShapeInv, CoShape, PhaseOK, InHand, OnStack, Thread

\* Type correctness of the scheduler: the queue holds only tasks with a valid
\* thread, every coroutine has one of the six states of Coroutine::State, and
\* run()'s locals point to a task, a coroutine or nothing.
THEOREM TypeCorrect == Spec => []TypeOK
<1>1. Init => ShapeInv
  BY ShapeInit
<1>2. ShapeInv /\ [Next]_vars => ShapeInv'
  BY TypeStep, ShapeStep DEF ShapeInv
<1>3. ShapeInv => TypeOK
  BY DEF ShapeInv
<1> QED
  BY <1>1, <1>2, <1>3, PTL DEF Spec

-----------------------------------------------------------------------------
(* Facts about the queue as a set of tasks *)

\* After entries were appended, exactly their tasks are queued in addition.
LEMMA QueuedAppend ==
    ASSUME TypeOK, NEW es \in Seq(Entry), m_coroutines' = m_coroutines \o es
    PROVE  InQueue' = InQueue \cup {es[i].task : i \in DOMAIN es}
<1> USE DEF TypeOK, InQueue
<1>1. /\ Len(m_coroutines') = Len(m_coroutines) + Len(es)
      /\ Len(m_coroutines) \in Nat /\ Len(es) \in Nat
      /\ DOMAIN m_coroutines' = 1 .. Len(m_coroutines')
      /\ DOMAIN m_coroutines = 1 .. Len(m_coroutines)
      /\ DOMAIN es = 1 .. Len(es)
  OBVIOUS
<1>2. \A i \in DOMAIN m_coroutines : m_coroutines'[i] = m_coroutines[i]
  OBVIOUS
<1>3. \A i \in DOMAIN es : m_coroutines'[Len(m_coroutines) + i] = es[i]
  OBVIOUS
<1>4. ASSUME NEW i \in DOMAIN m_coroutines'
      PROVE  m_coroutines'[i].task \in InQueue \cup {es[j].task : j \in DOMAIN es}
  <2>1. CASE i \in DOMAIN m_coroutines
    BY <1>2, <2>1
  <2>2. CASE i \notin DOMAIN m_coroutines
    <3>1. i - Len(m_coroutines) \in DOMAIN es
      BY <1>1, <2>2
    <3> QED
      BY <1>1, <1>3, <3>1
  <2> QED
    BY <2>1, <2>2
<1>5. ASSUME NEW i \in DOMAIN m_coroutines
      PROVE  m_coroutines[i].task \in InQueue'
  BY <1>1, <1>2
<1>6. ASSUME NEW i \in DOMAIN es
      PROVE  es[i].task \in InQueue'
  <2>1. Len(m_coroutines) + i \in DOMAIN m_coroutines'
    BY <1>1
  <2> QED
    BY <1>3, <2>1
<1>7. ASSUME NEW x \in InQueue' PROVE x \in InQueue \cup {es[j].task : j \in DOMAIN es}
  <2>1. PICK i \in DOMAIN m_coroutines' : x = m_coroutines'[i].task
    OBVIOUS
  <2> QED
    BY <1>4, <2>1
<1>8. InQueue \subseteq InQueue'
  <2>1. ASSUME NEW x \in InQueue PROVE x \in InQueue'
    <3>1. PICK i \in DOMAIN m_coroutines : x = m_coroutines[i].task
      OBVIOUS
    <3> QED
      BY <1>5, <3>1
  <2> QED
    BY <2>1
<1>9. {es[i].task : i \in DOMAIN es} \subseteq InQueue'
  BY <1>6
<1> HIDE DEF InQueue
<1> QED
  BY <1>7, <1>8, <1>9

\* Appending different tasks, none of them queued, keeps coroutines unique in
\* the queue.
LEMMA UniqueAppend ==
    ASSUME TypeOK, QueueUnique, NEW es \in Seq(Entry),
           m_coroutines' = m_coroutines \o es,
           \A i \in DOMAIN es : es[i].task \in Coroutine => es[i].task \notin InQueue,
           \A i, j \in DOMAIN es : i # j => es[i].task # es[j].task
    PROVE  QueueUnique'
<1> USE DEF TypeOK
<1> DEFINE n == Len(m_coroutines)
<1>1. /\ n \in Nat /\ Len(es) \in Nat
      /\ DOMAIN m_coroutines' = 1 .. n + Len(es)
      /\ DOMAIN m_coroutines = 1 .. n
      /\ DOMAIN es = 1 .. Len(es)
  OBVIOUS
<1>2. \A i \in 1 .. n : m_coroutines'[i] = m_coroutines[i]
  OBVIOUS
<1>3. \A i \in DOMAIN m_coroutines' \ 1 .. n :
         i - n \in DOMAIN es /\ m_coroutines'[i] = es[i - n]
  OBVIOUS
<1> HIDE DEF n
<1> SUFFICES ASSUME NEW i \in DOMAIN m_coroutines', NEW j \in DOMAIN m_coroutines',
                    i # j, m_coroutines'[i].task \in Coroutine,
                    m_coroutines'[i].task = m_coroutines'[j].task
             PROVE  FALSE
  BY DEF QueueUnique
<1>4. CASE i \in 1 .. n /\ j \in 1 .. n
  BY <1>1, <1>2, <1>4 DEF QueueUnique
<1>5. CASE (i \in 1 .. n) # (j \in 1 .. n)
  BY <1>1, <1>2, <1>3, <1>5, SMTT(30) DEF InQueue
<1>6. CASE i \notin 1 .. n /\ j \notin 1 .. n
  <2>1. i - n # j - n
    BY <1>1
  <2> QED
    BY <1>3, <1>6, <2>1, SMTT(30)
<1> QED
  BY <1>1, <1>4, <1>5, <1>6

\* Removing an entry queues nothing new, keeps coroutines unique in the queue,
\* and the removed coroutine is no longer queued.
LEMMA QueuedRemove ==
    ASSUME TypeOK, QueueUnique, NEW i \in DOMAIN m_coroutines,
           m_coroutines' = RemoveAt(m_coroutines, i)
    PROVE  /\ InQueue' \subseteq InQueue
           /\ QueueUnique'
           /\ \A c \in Coroutine : m_coroutines[i].task = c => c \notin InQueue'
<1> DEFINE n == Len(m_coroutines)
           At(j) == IF j < i THEN j ELSE j + 1
<1>1. n \in Nat /\ DOMAIN m_coroutines = 1 .. n /\ i \in 1 .. n
  BY DEF TypeOK
<1>2. /\ DOMAIN m_coroutines' = 1 .. n - 1
      /\ \A j \in 1 .. n - 1 : m_coroutines'[j] = m_coroutines[At(j)]
  <2>1. /\ m_coroutines' \in Seq(Entry)
        /\ Len(m_coroutines') = n - 1
        /\ \A j \in 1 .. n - 1 :
              m_coroutines'[j] = IF j < i THEN m_coroutines[j] ELSE m_coroutines[j + 1]
    BY RemoveAtFacts DEF TypeOK
  <2> QED
    BY <2>1
<1>3. /\ \A j \in 1 .. n - 1 : At(j) \in 1 .. n /\ At(j) # i
      /\ \A j, k \in 1 .. n - 1 : j # k => At(j) # At(k)
  BY <1>1
<1> HIDE DEF n, At
<1>4. InQueue' \subseteq InQueue
  BY <1>1, <1>2, <1>3 DEF InQueue
<1>5. QueueUnique'
  BY <1>1, <1>2, <1>3 DEF QueueUnique
<1>6. \A c \in Coroutine : m_coroutines[i].task = c => c \notin InQueue'
  BY <1>1, <1>2, <1>3 DEF InQueue, QueueUnique
<1> QED
  BY <1>4, <1>5, <1>6

-----------------------------------------------------------------------------
(* Ownership of coroutines *)

\* Different coroutines that nobody else can schedule any more may be appended to
\* the queue, if those that a thread still holds are suspending themselves.
LEMMA AppendOwner ==
    ASSUME IInv, NEW es \in Seq(Entry), m_coroutines' = m_coroutines \o es,
           handles' \subseteq handles,
           \A i \in DOMAIN es : es[i].task \in Coroutine =>
              /\ es[i].task \notin InQueue /\ es[i].task \notin handles'
              /\ \A t \in Thread : co[t] = es[i].task =>
                    /\ m_state[co[t]] = "EXEC"
                    /\ pc[t] \in {"holding", "swapout", "back", "after"}
              /\ \A t \in Thread : cb_coroutine[t] = es[i].task => co[t] = cb_coroutine[t],
           \A i, j \in DOMAIN es : i # j => es[i].task # es[j].task,
           UNCHANGED <<m_state, pc, co, cb_coroutine>>
    PROVE  OwnerInv'
<1> USE TaskAssumption DEF IInv, OwnerInv, ShapeInv, TypeOK, Coroutine, Task
<1> DEFINE new == {es[i].task : i \in DOMAIN es}
<1>1. InQueue' = InQueue \cup new
  BY QueuedAppend
<1>2. \A c \in new : c \in Coroutine =>
         /\ c \notin handles'
         /\ \A t \in Thread : co[t] = c =>
               /\ m_state[co[t]] = "EXEC"
               /\ pc[t] \in {"holding", "swapout", "back", "after"}
         /\ \A t \in Thread : cb_coroutine[t] = c => co[t] = cb_coroutine[t]
  OBVIOUS
<1>3. QueueUnique'
  BY UniqueAppend
<1> HIDE DEF new
<1>4. UniqueHolder'
  BY DEF UniqueHolder
<1>5. StateAtPc'
  BY DEF StateAtPc
<1>6. OverlapIsExec'
  BY <1>1, <1>2 DEF OverlapIsExec, Queued
<1>7. HandleSpent'
  BY <1>1, <1>2 DEF HandleSpent, Queued
<1>8. SparePrivate'
  BY <1>1, <1>2 DEF SparePrivate, Queued
<1> QED
  BY <1>3, <1>4, <1>5, <1>6, <1>7, <1>8

\* schedule() of different tasks whose handles are still there keeps the
\* ownership invariant.
LEMMA ScheduleOwner ==
    ASSUME IInv, NEW es \in Seq(Entry), schedule(es),
           \A i \in DOMAIN es : es[i].task \in handles,
           \A i, j \in DOMAIN es : i # j => es[i].task # es[j].task,
           UNCHANGED <<m_state, pc, co, cb_coroutine>>
    PROVE  OwnerInv'
<1>1. /\ m_coroutines' = m_coroutines \o es
      /\ handles' \subseteq handles
      /\ \A i \in DOMAIN es : es[i].task \notin handles'
  BY DEF schedule
<1>2. ASSUME NEW c \in Coroutine, c \in handles
      PROVE  /\ c \notin InQueue
             /\ \A t \in Thread : co[t] = c =>
                   /\ m_state[co[t]] = "EXEC"
                   /\ pc[t] \in {"holding", "swapout", "back", "after"}
             /\ \A t \in Thread : cb_coroutine[t] = c => co[t] = cb_coroutine[t]
  BY <1>2, TaskAssumption
     DEF IInv, OwnerInv, HandleSpent, OverlapIsExec, SparePrivate, Queued, Task
<1> QED
  BY <1>1, <1>2, AppendOwner

\* Moves of threads that hold no task, to positions where they hold none, change
\* nothing about ownership.
LEMMA MoveOwner ==
    ASSUME IInv, CoShape', UNCHANGED <<m_coroutines, m_state, co, cb_coroutine, handles>>,
           \A t \in Thread : co[t] # None => pc'[t] = pc[t]
    PROVE  OwnerInv'
<1>1. InQueue' = InQueue /\ QueueUnique'
  BY DEF InQueue, QueueUnique, IInv, OwnerInv
<1>2. \A t \in Thread : co[t] = None => pc'[t] \notin InHand
  BY DEF CoShape
<1> USE TaskAssumption DEF IInv, OwnerInv, ShapeInv, TypeOK, Coroutine, Task
<1>3. UniqueHolder'
  BY DEF UniqueHolder
<1>4. StateAtPc'
  BY <1>2 DEF StateAtPc, InHand, OnStack
<1>5. OverlapIsExec'
  BY <1>1 DEF OverlapIsExec, Queued
<1>6. HandleSpent'
  BY <1>1 DEF HandleSpent, Queued
<1>7. SparePrivate'
  BY <1>1, <1>2 DEF SparePrivate, Queued, InHand
<1> QED
  BY <1>1, <1>3, <1>4, <1>5, <1>6, <1>7

\* So do the steps of start(), stop() and of run() with nothing to run.
LEMMA IdleOwner ==
    ASSUME IInv, [Next]_vars, CoShape',
           \/ \E t \in Thread : ScanNothing(t) \/ EnterIdle(t) \/ Exit(t) \/ Idle(t)
           \/ Start \/ StopBegin \/ StopFlag \/ StopCheck
           \/ StopRan \/ StopJoin
           \/ UNCHANGED vars
    PROVE  OwnerInv'
<1>1. UNCHANGED <<m_coroutines, m_state, co, cb_coroutine, handles>>
  BY DEF ScanNothing, EnterIdle, Exit, Idle, Start, StopBegin, StopFlag, StopCheck,
         StopRan, StopJoin, StopUnchanged, vars
<1>2. \A t \in Thread : co[t] # None => pc'[t] = pc[t]
  BY ThreadAssumption, ZenonT(30)
     DEF ScanNothing, EnterIdle, Exit, Idle, Start, StopBegin, StopFlag, StopCheck,
         StopRan, StopJoin, StopUnchanged, vars, IInv, ShapeInv, TypeOK, CoShape,
         PhaseOK, InHand, OnStack, Thread
<1> QED
  BY <1>1, <1>2, MoveOwner

\* The ownership invariant is kept by SwapIn: swapIn of a coroutine that one thread alone holds.
LEMMA SwapInOwner ==
    ASSUME IInv, NEW t \in Thread, SwapIn(t)
    PROVE  OwnerInv'
<1> USE TaskAssumption
        DEF IInv, OwnerInv, ShapeInv, TypeOK, CoShape, InHand, OnStack,
            Coroutine, Task, SwapIn, Ended
<1>1. InQueue' = InQueue /\ QueueUnique'
  BY DEF InQueue, QueueUnique
<1>2. UniqueHolder'
  BY DEF UniqueHolder
<1>3. StateAtPc'
  BY DEF StateAtPc, UniqueHolder
<1>4. OverlapIsExec'
  BY <1>1 DEF OverlapIsExec, Queued, UniqueHolder, StateAtPc
<1>5. HandleSpent'
  BY <1>1 DEF HandleSpent, Queued, OverlapIsExec
<1>6. SparePrivate'
  BY <1>1 DEF SparePrivate, Queued, UniqueHolder, OverlapIsExec
<1> QED
  BY <1>1, <1>2, <1>3, <1>4, <1>5, <1>6

\* The ownership invariant is kept by DropEnded: handing back a coroutine that has ended.
LEMMA DropEndedOwner ==
    ASSUME IInv, NEW t \in Thread, DropEnded(t)
    PROVE  OwnerInv'
<1> USE TaskAssumption
        DEF IInv, OwnerInv, ShapeInv, TypeOK, CoShape, InHand, OnStack,
            Coroutine, Task, DropEnded, Ended
<1>1. InQueue' = InQueue /\ QueueUnique'
  BY DEF InQueue, QueueUnique
<1>2. UniqueHolder'
  BY DEF UniqueHolder
<1>3. StateAtPc'
  BY DEF StateAtPc, UniqueHolder
<1>4. OverlapIsExec'
  BY <1>1 DEF OverlapIsExec, Queued, UniqueHolder, StateAtPc
<1>5. HandleSpent'
  BY <1>1 DEF HandleSpent, Queued, OverlapIsExec
<1>6. SparePrivate'
  BY <1>1 DEF SparePrivate, Queued, UniqueHolder, OverlapIsExec
<1> QED
  BY <1>1, <1>2, <1>3, <1>4, <1>5, <1>6

\* The ownership invariant is kept by YieldToReady: a coroutine announces READY: nobody else can have scheduled it.
LEMMA YieldToReadyOwner ==
    ASSUME IInv, NEW t \in Thread, YieldToReady(t)
    PROVE  OwnerInv'
<1> USE TaskAssumption
        DEF IInv, OwnerInv, ShapeInv, TypeOK, CoShape, InHand, OnStack,
            Coroutine, Task, YieldToReady, Ended
<1>1. InQueue' = InQueue /\ QueueUnique'
  BY DEF InQueue, QueueUnique
<1>2. UniqueHolder'
  BY DEF UniqueHolder
<1>3. StateAtPc'
  BY DEF StateAtPc, UniqueHolder
<1>4. OverlapIsExec'
  BY <1>1 DEF OverlapIsExec, Queued, UniqueHolder, StateAtPc
<1>5. HandleSpent'
  BY <1>1 DEF HandleSpent, Queued, OverlapIsExec
<1>6. SparePrivate'
  BY <1>1 DEF SparePrivate, Queued, UniqueHolder, OverlapIsExec
<1> QED
  BY <1>1, <1>2, <1>3, <1>4, <1>5, <1>6

\* The ownership invariant is kept by Publish: a coroutine publishes itself while it executes.
LEMMA PublishOwner ==
    ASSUME IInv, NEW t \in Thread, Publish(t)
    PROVE  OwnerInv'
<1> USE TaskAssumption
        DEF IInv, OwnerInv, ShapeInv, TypeOK, CoShape, InHand, OnStack,
            Coroutine, Task, Publish, Ended
<1>1. InQueue' = InQueue /\ QueueUnique'
  BY DEF InQueue, QueueUnique
<1>2. UniqueHolder'
  BY DEF UniqueHolder
<1>3. StateAtPc'
  BY DEF StateAtPc, UniqueHolder
<1>4. OverlapIsExec'
  BY <1>1 DEF OverlapIsExec, Queued, UniqueHolder, StateAtPc
<1>5. HandleSpent'
  BY <1>1 DEF HandleSpent, Queued, OverlapIsExec
<1>6. SparePrivate'
  BY <1>1 DEF SparePrivate, Queued, UniqueHolder, OverlapIsExec
<1> QED
  BY <1>1, <1>2, <1>3, <1>4, <1>5, <1>6

\* The ownership invariant is kept by YieldToHold: a coroutine suspends itself; its state stays EXEC.
LEMMA YieldToHoldOwner ==
    ASSUME IInv, NEW t \in Thread, YieldToHold(t)
    PROVE  OwnerInv'
<1> USE TaskAssumption
        DEF IInv, OwnerInv, ShapeInv, TypeOK, CoShape, InHand, OnStack,
            Coroutine, Task, YieldToHold, Ended
<1>1. InQueue' = InQueue /\ QueueUnique'
  BY DEF InQueue, QueueUnique
<1>2. UniqueHolder'
  BY DEF UniqueHolder
<1>3. StateAtPc'
  BY DEF StateAtPc, UniqueHolder
<1>4. OverlapIsExec'
  BY <1>1 DEF OverlapIsExec, Queued, UniqueHolder, StateAtPc
<1>5. HandleSpent'
  BY <1>1 DEF HandleSpent, Queued, OverlapIsExec
<1>6. SparePrivate'
  BY <1>1 DEF SparePrivate, Queued, UniqueHolder, OverlapIsExec
<1> QED
  BY <1>1, <1>2, <1>3, <1>4, <1>5, <1>6

\* The ownership invariant is kept by MainFunc: the end of a task.
LEMMA MainFuncOwner ==
    ASSUME IInv, NEW t \in Thread, MainFunc(t)
    PROVE  OwnerInv'
<1> USE TaskAssumption
        DEF IInv, OwnerInv, ShapeInv, TypeOK, CoShape, InHand, OnStack,
            Coroutine, Task, MainFunc, Ended
<1>1. InQueue' = InQueue /\ QueueUnique'
  BY DEF InQueue, QueueUnique
<1>2. UniqueHolder'
  BY DEF UniqueHolder
<1>3. StateAtPc'
  BY DEF StateAtPc, UniqueHolder
<1>4. OverlapIsExec'
  BY <1>1 DEF OverlapIsExec, Queued, UniqueHolder, StateAtPc
<1>5. HandleSpent'
  BY <1>1 DEF HandleSpent, Queued, OverlapIsExec
<1>6. SparePrivate'
  BY <1>1 DEF SparePrivate, Queued, UniqueHolder, OverlapIsExec
<1> QED
  BY <1>1, <1>2, <1>3, <1>4, <1>5, <1>6

\* The ownership invariant is kept by SwapOut: leaving the stack of the coroutine.
LEMMA SwapOutOwner ==
    ASSUME IInv, NEW t \in Thread, SwapOut(t)
    PROVE  OwnerInv'
<1> USE TaskAssumption
        DEF IInv, OwnerInv, ShapeInv, TypeOK, CoShape, InHand, OnStack,
            Coroutine, Task, SwapOut, Ended
<1>1. InQueue' = InQueue /\ QueueUnique'
  BY DEF InQueue, QueueUnique
<1>2. UniqueHolder'
  BY DEF UniqueHolder
<1>3. StateAtPc'
  BY DEF StateAtPc, UniqueHolder
<1>4. OverlapIsExec'
  BY <1>1 DEF OverlapIsExec, Queued, UniqueHolder, StateAtPc
<1>5. HandleSpent'
  BY <1>1 DEF HandleSpent, Queued, OverlapIsExec
<1>6. SparePrivate'
  BY <1>1 DEF SparePrivate, Queued, UniqueHolder, OverlapIsExec
<1> QED
  BY <1>1, <1>2, <1>3, <1>4, <1>5, <1>6

\* The ownership invariant is kept by Deactivate: counting the thread as inactive.
LEMMA DeactivateOwner ==
    ASSUME IInv, NEW t \in Thread, Deactivate(t)
    PROVE  OwnerInv'
<1> USE TaskAssumption
        DEF IInv, OwnerInv, ShapeInv, TypeOK, CoShape, InHand, OnStack,
            Coroutine, Task, Deactivate, Ended
<1>1. InQueue' = InQueue /\ QueueUnique'
  BY DEF InQueue, QueueUnique
<1>2. UniqueHolder'
  BY DEF UniqueHolder
<1>3. StateAtPc'
  BY DEF StateAtPc, UniqueHolder
<1>4. OverlapIsExec'
  BY <1>1 DEF OverlapIsExec, Queued, UniqueHolder, StateAtPc
<1>5. HandleSpent'
  BY <1>1 DEF HandleSpent, Queued, OverlapIsExec
<1>6. SparePrivate'
  BY <1>1 DEF SparePrivate, Queued, UniqueHolder, OverlapIsExec
<1> QED
  BY <1>1, <1>2, <1>3, <1>4, <1>5, <1>6

\* The ownership invariant is kept by Retire: run() is done with an ended coroutine.
LEMMA RetireOwner ==
    ASSUME IInv, NEW t \in Thread, Retire(t)
    PROVE  OwnerInv'
<1> USE TaskAssumption
        DEF IInv, OwnerInv, ShapeInv, TypeOK, CoShape, InHand, OnStack,
            Coroutine, Task, Retire, Ended
<1>1. InQueue' = InQueue /\ QueueUnique'
  BY DEF InQueue, QueueUnique
<1>2. UniqueHolder'
  BY DEF UniqueHolder
<1>3. StateAtPc'
  BY DEF StateAtPc, UniqueHolder
<1>4. OverlapIsExec'
  BY <1>1 DEF OverlapIsExec, Queued, UniqueHolder, StateAtPc
<1>5. HandleSpent'
  BY <1>1 DEF HandleSpent, Queued, OverlapIsExec
<1>6. SparePrivate'
  BY <1>1 DEF SparePrivate, Queued, UniqueHolder, OverlapIsExec
<1> QED
  BY <1>1, <1>2, <1>3, <1>4, <1>5, <1>6

\* The ownership invariant is kept by SetHold: run() sets HOLD, which makes a suspended coroutine eligible.
LEMMA SetHoldOwner ==
    ASSUME IInv, NEW t \in Thread, SetHold(t)
    PROVE  OwnerInv'
<1> USE TaskAssumption
        DEF IInv, OwnerInv, ShapeInv, TypeOK, CoShape, InHand, OnStack,
            Coroutine, Task, SetHold, ForgetCallback, Ended
<1>1. InQueue' = InQueue /\ QueueUnique'
  BY DEF InQueue, QueueUnique
<1>2. UniqueHolder'
  BY DEF UniqueHolder
<1>3. StateAtPc'
  BY DEF StateAtPc, UniqueHolder
<1>4. OverlapIsExec'
  BY <1>1 DEF OverlapIsExec, Queued, UniqueHolder, StateAtPc
<1>5. HandleSpent'
  BY <1>1 DEF HandleSpent, Queued, OverlapIsExec
<1>6. SparePrivate'
  BY <1>1 DEF SparePrivate, Queued, UniqueHolder, OverlapIsExec
<1> QED
  BY <1>1, <1>2, <1>3, <1>4, <1>5, <1>6

\* Take removes a coroutine from the queue that no thread holds, because a
\* queued coroutine in the hands of a thread is EXEC and is skipped.
LEMMA TakeOwner ==
    ASSUME IInv, NEW t \in Thread, Take(t)
    PROVE  OwnerInv'
<1> USE TaskAssumption
        DEF IInv, OwnerInv, ShapeInv, TypeOK, CoShape, InHand, OnStack, Coroutine, Task
<1>1. PICK i \in DOMAIN m_coroutines :
         /\ Eligible(t, m_coroutines[i])
         /\ m_coroutines' = RemoveAt(m_coroutines, i)
         /\ co' = [co EXCEPT ![t] = m_coroutines[i].task]
  BY DEF Take
<1> DEFINE x == m_coroutines[i].task
<1>2. x \in Task /\ x \in InQueue
  BY QueueEntry DEF InQueue
<1>3. x \in Coroutine => m_state[x] # "EXEC"
  BY <1>1 DEF Eligible
<1>4. InQueue' \subseteq InQueue /\ QueueUnique' /\ (x \in Coroutine => x \notin InQueue')
  BY <1>1, QueuedRemove
<1>5. /\ co' = [co EXCEPT ![t] = x]
      /\ pc' = [pc EXCEPT ![t] = "taken"]
      /\ co[t] = None /\ pc[t] = "scan"
      /\ UNCHANGED <<m_state, cb_coroutine, handles>>
  BY <1>1 DEF Take
<1> HIDE DEF x
<1>6. x \in Coroutine => \A u \in Thread : co[u] # x
  BY <1>2, <1>3 DEF OverlapIsExec, Queued
<1>7. UniqueHolder'
  BY <1>2, <1>5, <1>6 DEF UniqueHolder
<1>8. StateAtPc'
  BY <1>2, <1>3, <1>5, <1>6 DEF StateAtPc
<1>9. OverlapIsExec'
  <2>1. x \in Coroutine => x \notin handles
    BY <1>2 DEF HandleSpent, Queued
  <2> QED
    BY <1>2, <1>4, <1>5, <1>6, <2>1 DEF OverlapIsExec, Queued
<1>10. HandleSpent'
  BY <1>4, <1>5 DEF HandleSpent, Queued
<1>11. SparePrivate'
  BY <1>2, <1>4, <1>5, <1>6 DEF SparePrivate, Queued
<1> QED
  BY <1>4, <1>7, <1>8, <1>9, <1>10, <1>11

\* A function task gets a coroutine to which no other pointer exists.
LEMMA RunCallbackOwner ==
    ASSUME IInv, NEW t \in Thread, RunCallback(t)
    PROVE  OwnerInv'
<1> USE TaskAssumption
        DEF IInv, OwnerInv, ShapeInv, TypeOK, CoShape, InHand, OnStack, Coroutine, Task
<1>1. PICK k \in CbCor :
         /\ IF cb_coroutine[t] # None THEN k = cb_coroutine[t] ELSE Unreferenced(k)
         /\ cb_coroutine' = [cb_coroutine EXCEPT ![t] = k]
         /\ co' = [co EXCEPT ![t] = k]
         /\ m_state' = [m_state EXCEPT ![k] = "EXEC"]
  BY DEF RunCallback
<1>2. /\ pc[t] = "taken" /\ co[t] \in Callback
      /\ pc' = [pc EXCEPT ![t] = "user"]
      /\ UNCHANGED <<m_coroutines, handles>>
  BY DEF RunCallback
<1>3. InQueue' = InQueue /\ QueueUnique'
  BY <1>2 DEF InQueue, QueueUnique
<1>4. k \in Coroutine /\ k \in Task /\ k # co[t] /\ k # None
  BY <1>1, <1>2
<1>5. /\ k \notin InQueue /\ k \notin handles
      /\ \A u \in Thread : co[u] # k
      /\ \A u \in Thread \ {t} : cb_coroutine[u] # k
  BY <1>1, <1>4 DEF SparePrivate, Unreferenced, Queued
<1>6. UniqueHolder'
  BY <1>1, <1>4, <1>5 DEF UniqueHolder
<1>7. StateAtPc'
  BY <1>1, <1>2, <1>4, <1>5 DEF StateAtPc
<1>8. OverlapIsExec'
  BY <1>1, <1>2, <1>3, <1>4, <1>5 DEF OverlapIsExec, Queued
<1>9. HandleSpent'
  BY <1>2, <1>3 DEF HandleSpent, Queued
<1>10. SparePrivate'
  BY <1>1, <1>2, <1>3, <1>4, <1>5 DEF SparePrivate, Queued
<1> QED
  BY <1>3, <1>6, <1>7, <1>8, <1>9, <1>10

\* A READY coroutine was in the hands of one thread and in no queue, so
\* putting it back makes one entry for it.
LEMMA RescheduleOwner ==
    ASSUME IInv, NEW t \in Thread, Reschedule(t)
    PROVE  OwnerInv'
<1> USE TaskAssumption
        DEF IInv, OwnerInv, ShapeInv, TypeOK, CoShape, InHand, OnStack, Coroutine, Task
<1> DEFINE c == co[t]
           es == <<[task |-> c, threadId |-> None]>>
<1>1. /\ pc[t] = "after" /\ m_state[c] = "READY"
      /\ m_coroutines' = Append(m_coroutines, [task |-> c, threadId |-> None])
      /\ cb_coroutine' = [cb_coroutine EXCEPT ![t] = IF @ = c THEN None ELSE @]
      /\ co' = [co EXCEPT ![t] = None]
      /\ pc' = [pc EXCEPT ![t] = "scan"]
      /\ UNCHANGED <<m_state, handles>>
  BY DEF Reschedule, ForgetCallback
<1>2. c \in Coroutine
  BY <1>1
<1>3. c \notin InQueue /\ c \notin handles
  BY <1>1, <1>2 DEF OverlapIsExec, Queued
<1>4. es \in Seq(Entry) /\ DOMAIN es = {1} /\ es[1].task = c
  BY <1>2 DEF Entry
<1>5. m_coroutines' = m_coroutines \o es
  BY <1>1, <1>4
<1>6. InQueue' = InQueue \cup {c}
  <2>1. InQueue' = InQueue \cup {es[i].task : i \in DOMAIN es}
    BY <1>4, <1>5, QueuedAppend
  <2>2. {es[i].task : i \in DOMAIN es} = {c}
    BY <1>4
  <2> QED
    BY <2>1, <2>2
<1>7. QueueUnique'
  BY <1>3, <1>4, <1>5, UniqueAppend
<1>8. \A u \in Thread \ {t} : co[u] # c
  BY <1>2 DEF UniqueHolder
<1> HIDE DEF c, es
<1>9. UniqueHolder'
  BY <1>1 DEF UniqueHolder
<1>10. StateAtPc'
  BY <1>1 DEF StateAtPc
<1>11. OverlapIsExec'
  BY <1>1, <1>6, <1>8 DEF OverlapIsExec, Queued
<1>12. HandleSpent'
  BY <1>1, <1>3, <1>6 DEF HandleSpent, Queued
<1>13. SparePrivate'
  BY <1>1, <1>2, <1>6, <1>8 DEF SparePrivate, Queued, c
<1> QED
  BY <1>7, <1>9, <1>10, <1>11, <1>12, <1>13

\* Every step keeps the ownership invariant, as long as a coroutine is not
\* scheduled again before it was resumed.
LEMMA OwnerStep ==
    ASSUME IInv, [Next]_vars
    PROVE  OwnerInv'
<1>0. CoShape'
  BY ShapeStep DEF IInv
<1>a. ASSUME NEW x \in Task, NEW tid \in Thread \cup {None}, MaySchedule(x),
             schedule(<<[task |-> x, threadId |-> tid]>>),
             UNCHANGED <<m_state, pc, co, cb_coroutine>>
      PROVE  OwnerInv'
  <2> DEFINE es == <<[task |-> x, threadId |-> tid]>>
  <2>1. /\ es \in Seq(Entry)
        /\ DOMAIN es = {1} /\ es[1].task = x
    BY DEF Entry
  <2>2. x \in handles
    BY <1>a DEF MaySchedule
  <2> HIDE DEF es
  <2>3. /\ \A i \in DOMAIN es : es[i].task \in handles
        /\ \A i, j \in DOMAIN es : i # j => es[i].task # es[j].task
    BY <2>1, <2>2
  <2>4. schedule(es)
    BY <1>a DEF es
  <2> QED
    BY <1>a, <2>1, <2>3, <2>4, ScheduleOwner
<1>b. ASSUME NEW x \in Task, NEW tid \in AppPins \cup {None}, AppSchedule(x, tid)
      PROVE  OwnerInv'
  BY <1>a, <1>b, ThreadAssumption DEF AppSchedule
<1>c. ASSUME NEW x \in Task, NEW y \in Task, AppScheduleBatch(x, y)
      PROVE  OwnerInv'
  <2> DEFINE es == <<[task |-> x, threadId |-> None], [task |-> y, threadId |-> None]>>
  <2>1. /\ es \in Seq(Entry)
        /\ DOMAIN es = {1, 2} /\ es[1].task = x /\ es[2].task = y
    BY DEF Entry
  <2>2. x \in handles /\ y \in handles /\ x # y
    BY <1>c DEF AppScheduleBatch, MaySchedule
  <2> HIDE DEF es
  <2>3. /\ \A i \in DOMAIN es : es[i].task \in handles
        /\ \A i, j \in DOMAIN es : i # j => es[i].task # es[j].task
    BY <2>1, <2>2
  <2>4. schedule(es) /\ UNCHANGED <<m_state, pc, co, cb_coroutine>>
    BY <1>c DEF es, AppScheduleBatch
  <2> QED
    BY <2>1, <2>3, <2>4, ScheduleOwner
<1>d. ASSUME NEW t \in Thread, NEW x \in Task, NEW tid \in TaskPins \cup {None},
             TaskSchedule(t, x, tid)
      PROVE  OwnerInv'
  BY <1>a, <1>d, ThreadAssumption DEF TaskSchedule
<1>1. CASE \/ Start \/ StopBegin \/ StopStep \/ UNCHANGED vars
           \/ \E t \in Thread : ScanNothing(t) \/ EnterIdle(t) \/ Exit(t) \/ Idle(t)
  BY <1>0, <1>1, IdleOwner DEF StopStep
<1>2. ASSUME NEW t \in Thread,
             \/ Take(t) \/ SwapIn(t) \/ DropEnded(t) \/ RunCallback(t)
             \/ SwapOut(t) \/ Deactivate(t) \/ Reschedule(t) \/ Retire(t)
             \/ SetHold(t)
      PROVE  OwnerInv'
  BY <1>2, TakeOwner, SwapInOwner, DropEndedOwner, RunCallbackOwner, SwapOutOwner,
     DeactivateOwner, RescheduleOwner, RetireOwner, SetHoldOwner
<1>3. ASSUME NEW t \in Thread,
             YieldToReady(t) \/ Publish(t) \/ YieldToHold(t) \/ MainFunc(t)
      PROVE  OwnerInv'
  BY <1>3, YieldToReadyOwner, PublishOwner, YieldToHoldOwner, MainFuncOwner
<1> QED
  BY <1>b, <1>c, <1>d, <1>1, <1>2, <1>3 DEF Next, App, UserCode, run, Stopped

\* The inductive invariant holds in every reachable state.
THEOREM OwnershipInvariant == Spec => []IInv
<1>1. Init => IInv
  <2> SUFFICES ASSUME Init PROVE OwnerInv
    BY ShapeInit DEF IInv
  <2>1. InQueue = {} /\ DOMAIN m_coroutines = {}
    BY DEF Init, InQueue
  <2>2. \A t \in Thread : pc[t] = "none" /\ co[t] = None /\ cb_coroutine[t] = None
    BY DEF Init
  <2> QED
    BY <2>1, <2>2, TaskAssumption
       DEF OwnerInv, UniqueHolder, QueueUnique, StateAtPc, OverlapIsExec,
           HandleSpent, SparePrivate, Queued, Task
<1>2. IInv /\ [Next]_vars => IInv'
  BY OwnerStep, TypeStep, ShapeStep DEF IInv, ShapeInv
<1> QED
  BY <1>1, <1>2, PTL DEF Spec

\* Two threads never execute on one coroutine's stack, for any number of
\* threads and tasks.
THEOREM CoroutineExclusion == Spec => []OneStack
<1>1. IInv => OneStack
  BY DEF IInv, ShapeInv, OwnerInv, CoShape, UniqueHolder, OneStack, InHand, OnStack
<1> QED
  BY <1>1, OwnershipInvariant, PTL

\* The assertion of Coroutine::swapIn never fails: between the test of the state
\* under the lock and the swap no other thread can have resumed the coroutine.
THEOREM SwapInAssertion == Spec => []SwapInAllowed
<1>1. IInv => SwapInAllowed
  BY DEF IInv, OwnerInv, StateAtPc, SwapInAllowed
<1> QED
  BY <1>1, OwnershipInvariant, PTL

\* run() never resets a coroutine that somebody may still resume: the
\* assertion of Coroutine::reset holds and no other pointer to it exists.
THEOREM SpareIsPrivate == Spec => []ResetAllowed
<1>1. IInv => ResetAllowed
  BY DEF IInv, OwnerInv, SparePrivate, ResetAllowed, Queued
<1> QED
  BY <1>1, OwnershipInvariant, PTL

\* A coroutine of the application that has ended never runs again.
THEOREM EndedForGood == Spec => EndedStays
<1> DEFINE Stays == \A c \in UserCor : m_state[c] \in Ended => m_state'[c] = m_state[c]
<1>1. IInv /\ [Next]_vars => [Stays]_vars
  <2> SUFFICES ASSUME IInv, Next, NEW c \in UserCor, m_state[c] \in Ended
               PROVE  m_state'[c] = m_state[c]
    OBVIOUS
  <2> USE TaskAssumption
          DEF IInv, OwnerInv, ShapeInv, TypeOK, CoShape, StateAtPc, InHand, OnStack,
              Ended, Coroutine
  <2>1. CASE App \/ StopStep \/ Stopped
    BY <2>1 DEF App, StopStep, Stopped, AppSchedule, AppScheduleBatch, Start, StopBegin,
          StopFlag, StopCheck, StopRan, StopJoin, StopUnchanged, vars
  <2>2. ASSUME NEW t \in Thread, UserCode(t) PROVE m_state'[c] = m_state[c]
    BY <2>2 DEF UserCode, TaskSchedule, YieldToReady, Publish, YieldToHold, MainFunc
  <2>3. ASSUME NEW t \in Thread, run(t) \/ Idle(t) PROVE m_state'[c] = m_state[c]
    <3>1. CASE RunCallback(t)
      BY <3>1 DEF RunCallback
    <3>2. CASE Retire(t)
      BY <3>2 DEF Retire
    <3>3. CASE ~ RunCallback(t) /\ ~ Retire(t)
      BY <2>3, <3>3
         DEF run, Idle, Take, ScanNothing, EnterIdle, Exit, SwapIn, DropEnded, SwapOut, Deactivate,
             Reschedule, SetHold
    <3> QED
      BY <3>1, <3>2, <3>3
  <2> QED
    BY <2>1, <2>2, <2>3 DEF Next
<1> QED
  BY <1>1, OwnershipInvariant, PTL DEF Spec, EndedStays

-----------------------------------------------------------------------------
(* Scheduler implements TaskPool.                                          *)
(*                                                                         *)
(* Most steps of the scheduler change none of owed, running and ended:     *)
(* schedule() is Submit, SwapIn is Begin, DropEnded is Drop, and SwapOut   *)
(* is Yield, Suspend or End by the state the coroutine leaves its stack    *)
(* in.  What makes that so is the invariant IInv.                          *)

\* The thread that holds a coroutine of the application decides what it is to
\* the pool; a coroutine that is only queued, or with its owner, is not running.
LEMMA HeldBy ==
    ASSUME IInv, NEW c \in UserCor, NEW t \in Thread, co[t] = c
    PROVE  /\ c \in PoolRunning <=> pc[t] \in OnStack
           /\ c \in PoolOwed <=> \/ Queued(c)
                                 \/ pc[t] = "taken"
                                 \/ pc[t] \in {"back", "after"} /\ m_state[c] = "READY"
  BY DEF IInv, OwnerInv, UniqueHolder, Coroutine, PoolRunning, PoolOwed

\* A step that leaves the queue, the states and, but for threads that hold no
\* coroutine of the application, the threads alone is not seen in the pool.
LEMMA Unseen ==
    ASSUME UNCHANGED m_state, InQueue' \cap UserCor = InQueue \cap UserCor,
           \A t \in Thread : \/ co'[t] = co[t] /\ pc'[t] = pc[t]
                             \/ co[t] \notin UserCor /\ co'[t] \notin UserCor
    PROVE  UNCHANGED Pool!poolState
<1>1. PoolOwed' = PoolOwed
  BY DEF PoolOwed, Queued
<1>2. PoolRunning' = PoolRunning
  BY DEF PoolRunning
<1> QED
  BY <1>1, <1>2 DEF PoolEnded, Pool!poolState

\* schedule() submits the coroutines among its entries: the caller may schedule
\* them, so no run of theirs is owed.
LEMMA ScheduleSubmits ==
    ASSUME IInv, NEW es \in Seq(Entry), schedule(es),
           \A i \in DOMAIN es : es[i].task \in handles,
           UNCHANGED <<m_state, pc, co>>
    PROVE  [Pool!Next]_(Pool!poolState)
<1> DEFINE S == {es[i].task : i \in DOMAIN es} \cap UserCor
<1>1. InQueue' = InQueue \cup {es[i].task : i \in DOMAIN es}
  BY QueuedAppend DEF schedule, IInv, ShapeInv
<1>2. PoolOwed' = PoolOwed \cup S
  BY <1>1 DEF PoolOwed, Queued
<1>3. PoolRunning' = PoolRunning /\ PoolEnded' = PoolEnded
  BY DEF PoolRunning, PoolEnded
<1>4. \A c \in S : c \notin PoolOwed
  BY DEF IInv, OwnerInv, HandleSpent, OverlapIsExec, PoolOwed, Coroutine
<1>5. CASE S = {}
  BY <1>2, <1>3, <1>5 DEF Pool!poolState
<1>6. CASE S # {}
  <2>1. Pool!Submit(S)
    BY <1>2, <1>3, <1>4, <1>6 DEF Pool!Submit
  <2> QED
    BY <2>1 DEF Pool!Next
<1> QED
  BY <1>5, <1>6

\* swapIn begins the run that was owed.
LEMMA SwapInBegins ==
    ASSUME IInv, NEW t \in Thread, SwapIn(t)
    PROVE  [Pool!Next]_(Pool!poolState)
<1> DEFINE c == co[t]
<1> USE DEF IInv, OwnerInv, ShapeInv, TypeOK, SwapIn
<1>1. InQueue' = InQueue /\ UNCHANGED co
  BY DEF InQueue
<1>2. \A u \in Thread : u # t => co[u] # c /\ pc'[u] = pc[u]
  BY DEF UniqueHolder
<1>3. \A d \in Coroutine : d # c => m_state'[d] = m_state[d]
  OBVIOUS
<1>4. CASE c \in UserCor
  <2>1. c \in PoolOwed /\ c \notin PoolRunning /\ c \notin PoolEnded /\ ~Queued(c)
    BY <1>4, HeldBy DEF PoolEnded, OnStack, OverlapIsExec, Ended
  <2>2. PoolOwed' = PoolOwed \ {c}
    <3>1. c \notin PoolOwed'
      BY <1>1, <1>2, <2>1 DEF PoolOwed, Queued
    <3>2. ASSUME NEW d \in UserCor, d # c
          PROVE  d \in PoolOwed' <=> d \in PoolOwed
      BY <1>1, <1>2, <1>3, <3>2 DEF PoolOwed, Queued, Coroutine
    <3> QED
      BY <3>1, <3>2, <2>1 DEF PoolOwed
  <2>3. PoolRunning' = PoolRunning \cup {c}
    BY <1>1, <1>2, <1>4 DEF PoolRunning, OnStack
  <2>4. PoolEnded' = PoolEnded
    BY <1>3, <2>3, <2>1, <1>4 DEF PoolEnded, Ended, Coroutine
  <2>5. Pool!Begin(c)
    BY <2>1, <2>2, <2>3, <2>4 DEF Pool!Begin
  <2> QED
    BY <1>4, <2>5 DEF Pool!Next
<1>5. CASE c \notin UserCor
  <2>1. PoolOwed' = PoolOwed /\ PoolRunning' = PoolRunning
    BY <1>1, <1>2, <1>3, <1>5 DEF PoolOwed, PoolRunning, Queued, Coroutine
  <2>2. PoolEnded' = PoolEnded
    BY <1>3, <1>5, <2>1 DEF PoolEnded, Coroutine
  <2> QED
    BY <2>1, <2>2 DEF Pool!poolState
<1> QED
  BY <1>4, <1>5

\* run() drops the entry of a coroutine that has ended.
LEMMA DropEndedDrops ==
    ASSUME IInv, NEW t \in Thread, DropEnded(t)
    PROVE  [Pool!Next]_(Pool!poolState)
<1> DEFINE c == co[t]
<1> USE DEF IInv, OwnerInv, ShapeInv, TypeOK, DropEnded
<1>1. InQueue' = InQueue /\ UNCHANGED m_state
  BY DEF InQueue
<1>2. \A u \in Thread : u # t => co[u] # c /\ co'[u] = co[u] /\ pc'[u] = pc[u]
  BY DEF UniqueHolder
<1>3. co'[t] = None /\ None \notin UserCor
  BY TaskAssumption DEF Task, Coroutine
<1>4. CASE c \in UserCor
  <2>1. c \in PoolOwed /\ c \notin PoolRunning /\ c \in PoolEnded /\ ~Queued(c)
    BY <1>4, HeldBy DEF PoolEnded, OnStack, OverlapIsExec, Ended
  <2>2. PoolOwed' = PoolOwed \ {c}
    BY <1>1, <1>2, <1>3, <2>1 DEF PoolOwed, Queued
  <2>3. PoolRunning' = PoolRunning
    BY <1>2, <1>3, <2>1 DEF PoolRunning
  <2>4. PoolEnded' = PoolEnded
    BY <1>1, <2>3 DEF PoolEnded
  <2>5. Pool!Drop(c)
    BY <2>1, <2>2, <2>3, <2>4 DEF Pool!Drop
  <2> QED
    BY <1>4, <2>5 DEF Pool!Next
<1>5. CASE c \notin UserCor
  BY <1>1, <1>2, <1>3, <1>5, Unseen
<1> QED
  BY <1>4, <1>5

\* swapOut ends the run: by the state that the coroutine left, its next run is
\* owed at once, it waits to be scheduled, or it has ended.
LEMMA SwapOutEndsRun ==
    ASSUME IInv, NEW t \in Thread, SwapOut(t)
    PROVE  [Pool!Next]_(Pool!poolState)
<1> DEFINE c == co[t]
<1> USE DEF IInv, OwnerInv, ShapeInv, TypeOK, SwapOut
<1>1. InQueue' = InQueue /\ UNCHANGED <<m_state, co>>
  BY DEF InQueue
<1>2. c \in Coroutine /\ \A u \in Thread : u # t => co[u] # c /\ pc'[u] = pc[u]
  BY DEF UniqueHolder, CoShape, InHand, OnStack
<1>3. pc[t] = "swapout" /\ pc'[t] = "back"
  OBVIOUS
<1>4. CASE c \in UserCor
  <2>1. c \in PoolRunning /\ (c \in PoolOwed <=> Queued(c))
    BY <1>3, <1>4, HeldBy DEF OnStack
  <2>2. Queued(c) => m_state[c] = "EXEC"
    BY <1>2 DEF OverlapIsExec
  <2>3. PoolRunning' = PoolRunning \ {c}
    BY <1>1, <1>2, <1>3 DEF PoolRunning, OnStack
  <2>4. PoolOwed' = IF m_state[c] = "READY" THEN PoolOwed \cup {c} ELSE PoolOwed
    BY <1>1, <1>2, <1>3, <1>4, <2>1 DEF PoolOwed, Queued
  <2>5. PoolEnded' = IF m_state[c] \in Ended THEN PoolEnded \cup {c} ELSE PoolEnded
    BY <1>1, <1>4, <2>1, <2>3 DEF PoolEnded
  <2>6. CASE m_state[c] = "READY"
    BY <1>4, <2>1, <2>2, <2>3, <2>4, <2>5, <2>6 DEF Pool!Yield, Pool!Next, Ended
  <2>7. CASE m_state[c] \in Ended
    BY <1>4, <2>1, <2>2, <2>3, <2>4, <2>5, <2>7 DEF Pool!End, Pool!Next, Ended
  <2>8. CASE m_state[c] \notin Ended \cup {"READY"}
    BY <1>4, <2>1, <2>3, <2>4, <2>5, <2>8 DEF Pool!Suspend, Pool!Next
  <2> QED
    BY <2>6, <2>7, <2>8
<1>5. CASE c \notin UserCor
  BY <1>1, <1>2, <1>5, Unseen
<1> QED
  BY <1>4, <1>5

\* What is taken out of the queue is only the task that was taken.
LEMMA OthersStayQueued ==
    ASSUME TypeOK, NEW i \in DOMAIN m_coroutines,
           m_coroutines' = RemoveAt(m_coroutines, i),
           NEW c \in InQueue, c # m_coroutines[i].task
    PROVE  c \in InQueue'
<1>1. PICK j \in DOMAIN m_coroutines : m_coroutines[j].task = c
  BY DEF InQueue
<1>2. j # i /\ DOMAIN m_coroutines = 1 .. Len(m_coroutines) /\ Len(m_coroutines) \in Nat
  BY <1>1 DEF TypeOK
<1>3. /\ m_coroutines' \in Seq(Entry) /\ Len(m_coroutines') = Len(m_coroutines) - 1
      /\ \A k \in 1 .. Len(m_coroutines) - 1 :
            m_coroutines'[k] = IF k < i THEN m_coroutines[k] ELSE m_coroutines[k + 1]
  BY RemoveAtFacts DEF TypeOK
<1> DEFINE k == IF j < i THEN j ELSE j - 1
<1>4. k \in 1 .. Len(m_coroutines) - 1 /\ m_coroutines'[k] = m_coroutines[j]
  BY <1>2, <1>3
<1>5. k \in DOMAIN m_coroutines'
  BY <1>3, <1>4
<1> QED
  BY <1>1, <1>4, <1>5 DEF InQueue

\* Between the queue and swapIn the run stays owed.
LEMMA TakeUnseen ==
    ASSUME IInv, NEW t \in Thread, Take(t)
    PROVE  UNCHANGED Pool!poolState
<1> USE DEF IInv, OwnerInv, ShapeInv, TypeOK
<1>1. PICK i \in DOMAIN m_coroutines :
         /\ m_coroutines' = RemoveAt(m_coroutines, i)
         /\ co' = [co EXCEPT ![t] = m_coroutines[i].task]
         /\ Eligible(t, m_coroutines[i])
  BY DEF Take
<1> DEFINE x == m_coroutines[i].task
<1>2. /\ pc[t] = "scan" /\ pc' = [pc EXCEPT ![t] = "taken"] /\ co[t] = None
      /\ UNCHANGED m_state /\ None \notin UserCor
  BY TaskAssumption DEF Take, CoShape, InHand, OnStack, Task, Coroutine
<1>3. x \in InQueue /\ x \in Task
  BY QueueEntry DEF InQueue
<1>4. InQueue' \subseteq InQueue /\ \A c \in Coroutine : x = c => c \notin InQueue'
  BY <1>1, QueuedRemove
<1>5. \A c \in InQueue : c # x => c \in InQueue'
  BY <1>1, OthersStayQueued
<1>6. PoolOwed' = PoolOwed
  <2> SUFFICES ASSUME NEW c \in UserCor PROVE c \in PoolOwed' <=> c \in PoolOwed
    BY DEF PoolOwed
  <2>1. CASE c = x
    <3>1. c \in PoolOwed
      BY <1>3, <2>1 DEF PoolOwed, Queued
    <3>2. c \in PoolOwed'
      BY <1>1, <1>2, <2>1 DEF PoolOwed
    <3> QED
      BY <3>1, <3>2
  <2>2. CASE c # x
    <3>1. Queued(c)' <=> Queued(c)
      BY <1>4, <1>5, <2>2 DEF Queued
    <3>2. \A u \in Thread : co'[u] = c <=> co[u] = c
      BY <1>1, <1>2, <2>2
    <3>3. \A u \in Thread : co[u] = c => pc'[u] = pc[u]
      BY <1>2
    <3> QED
      BY <1>2, <3>1, <3>2, <3>3 DEF PoolOwed
  <2> QED
    BY <2>1, <2>2
<1>7. PoolRunning' = PoolRunning
  BY <1>1, <1>2 DEF PoolRunning, OnStack
<1> QED
  BY <1>2, <1>6, <1>7 DEF PoolEnded, Pool!poolState

\* run() on its way back to the queue: the run of a READY coroutine stays owed.
LEMMA RescheduleUnseen ==
    ASSUME IInv, NEW t \in Thread, Reschedule(t)
    PROVE  UNCHANGED Pool!poolState
<1> USE DEF IInv, OwnerInv, ShapeInv, TypeOK, Reschedule
<1> DEFINE c  == co[t]
           es == <<[task |-> c, threadId |-> None]>>
<1>1. c \in Coroutine /\ None \notin UserCor
  BY TaskAssumption DEF CoShape, InHand, OnStack, Task, Coroutine
<1>2. es \in Seq(Entry) /\ m_coroutines' = m_coroutines \o es /\ DOMAIN es = {1} /\ es[1].task = c
  BY <1>1 DEF Entry, Task
<1>3. InQueue' = InQueue \cup {c}
  <2> HIDE DEF es
  <2>1. InQueue' = InQueue \cup {es[i].task : i \in DOMAIN es}
    BY <1>2, QueuedAppend
  <2> QED
    BY <1>2, <2>1
<1>4. \A u \in Thread : u # t => co[u] # c /\ co'[u] = co[u] /\ pc'[u] = pc[u]
  BY <1>1 DEF UniqueHolder
<1>5. co'[t] = None /\ pc[t] = "after" /\ m_state[c] = "READY" /\ UNCHANGED m_state
  OBVIOUS
<1>6. PoolOwed' = PoolOwed
  <2> SUFFICES ASSUME NEW d \in UserCor PROVE d \in PoolOwed' <=> d \in PoolOwed
    BY DEF PoolOwed
  <2>1. CASE d = c
    BY <1>3, <1>5, <2>1 DEF PoolOwed, Queued
  <2>2. CASE d # c
    BY <1>1, <1>3, <1>4, <1>5, <2>2 DEF PoolOwed, Queued
  <2> QED
    BY <2>1, <2>2
<1>7. PoolRunning' = PoolRunning
  BY <1>1, <1>4, <1>5 DEF PoolRunning, OnStack
<1> QED
  BY <1>5, <1>6, <1>7 DEF PoolEnded, Pool!poolState

\* The task's code changes the coroutine's state while it is on its stack, and
\* the pool sees that only when it leaves the stack.
LEMMA OnStackUnseen ==
    ASSUME IInv, NEW t \in Thread,
           YieldToReady(t) \/ Publish(t) \/ YieldToHold(t) \/ MainFunc(t)
    PROVE  UNCHANGED Pool!poolState
<1> USE DEF IInv, OwnerInv, ShapeInv, TypeOK
<1> DEFINE c == co[t]
<1>1. /\ InQueue' = InQueue /\ UNCHANGED co
      /\ pc[t] \in OnStack /\ pc'[t] \in OnStack
      /\ \A d \in Coroutine : d # c => m_state'[d] = m_state[d]
  BY DEF YieldToReady, Publish, YieldToHold, MainFunc, InQueue, OnStack
<1>2. c \in Coroutine /\ \A u \in Thread : u # t => co[u] # c /\ pc'[u] = pc[u]
  BY DEF UniqueHolder, CoShape, InHand, OnStack, YieldToReady, Publish, YieldToHold, MainFunc
<1>3. PoolRunning' = PoolRunning
  BY <1>1, <1>2 DEF PoolRunning
<1>4. PoolOwed' = PoolOwed
  <2> SUFFICES ASSUME NEW d \in UserCor PROVE d \in PoolOwed' <=> d \in PoolOwed
    BY DEF PoolOwed
  <2>1. CASE d = c
    BY <1>1, <1>2, <2>1 DEF PoolOwed, Queued, OnStack
  <2>2. CASE d # c
    BY <1>1, <1>2, <2>2 DEF PoolOwed, Queued, Coroutine
  <2> QED
    BY <2>1, <2>2
<1>5. PoolEnded' = PoolEnded
  <2> SUFFICES ASSUME NEW d \in UserCor PROVE d \in PoolEnded' <=> d \in PoolEnded
    BY DEF PoolEnded
  <2>1. CASE d = c
    BY <1>1, <1>3, <2>1 DEF PoolEnded, PoolRunning
  <2>2. CASE d # c
    BY <1>1, <1>3, <2>2 DEF PoolEnded, Coroutine
  <2> QED
    BY <2>1, <2>2
<1> QED
  BY <1>3, <1>4, <1>5 DEF Pool!poolState

\* run() after swapOut: neither the count nor HOLD nor the reset of a spare
\* coroutine concerns a run that is owed.
LEMMA AfterUnseen ==
    ASSUME IInv, NEW t \in Thread, Deactivate(t) \/ Retire(t) \/ SetHold(t)
    PROVE  UNCHANGED Pool!poolState
<1> USE DEF IInv, OwnerInv, ShapeInv, TypeOK
<1> DEFINE c == co[t]
<1>1. /\ InQueue' = InQueue /\ pc[t] \in {"back", "after"}
      /\ \A d \in Coroutine : d # c => m_state'[d] = m_state[d]
  BY DEF Deactivate, Retire, SetHold, InQueue
<1>2. /\ c \in Coroutine /\ None \notin UserCor
      /\ \A u \in Thread : u # t => co[u] # c /\ co'[u] = co[u] /\ pc'[u] = pc[u]
  BY TaskAssumption
     DEF UniqueHolder, CoShape, InHand, OnStack, Deactivate, Retire, SetHold, Task, Coroutine
<1>3. \/ co'[t] = c /\ pc'[t] = "after" /\ m_state'[c] = m_state[c]
      \/ /\ co'[t] = None /\ m_state[c] # "READY"
         /\ c \in UserCor => (m_state'[c] \in Ended <=> m_state[c] \in Ended)
  <2>1. CASE Deactivate(t)
    BY <2>1 DEF Deactivate
  <2>2. CASE Retire(t)
    <3>1. co'[t] = None /\ m_state[c] \in Ended
      BY <2>2 DEF Retire
    <3>2. c \in UserCor => cb_coroutine[t] # c
      BY TaskAssumption DEF Task, Coroutine
    <3>3. c \in UserCor => UNCHANGED m_state
      BY <2>2, <3>2 DEF Retire
    <3> QED
      BY <3>1, <3>3 DEF Ended
  <2>3. CASE SetHold(t)
    BY <2>3, <1>2 DEF SetHold, Ended
  <2> QED
    BY <2>1, <2>2, <2>3
<1>4. PoolRunning' = PoolRunning
  <2> SUFFICES ASSUME NEW d \in UserCor PROVE d \in PoolRunning' <=> d \in PoolRunning
    BY DEF PoolRunning
  <2>1. pc[t] \notin OnStack /\ (co'[t] = d => pc'[t] \notin OnStack)
    BY <1>1, <1>2, <1>3 DEF OnStack
  <2> QED
    BY <1>2, <2>1 DEF PoolRunning
<1>5. PoolOwed' = PoolOwed
  <2> SUFFICES ASSUME NEW d \in UserCor PROVE d \in PoolOwed' <=> d \in PoolOwed
    BY DEF PoolOwed
  <2>1. CASE d = c
    BY <1>1, <1>2, <1>3, <2>1 DEF PoolOwed, Queued
  <2>2. CASE d # c
    BY <1>1, <1>2, <1>3, <2>2 DEF PoolOwed, Queued, Coroutine
  <2> QED
    BY <2>1, <2>2
<1>6. PoolEnded' = PoolEnded
  <2> SUFFICES ASSUME NEW d \in UserCor PROVE d \in PoolEnded' <=> d \in PoolEnded
    BY DEF PoolEnded
  <2>1. CASE d = c
    BY <1>3, <1>4, <2>1 DEF PoolEnded
  <2>2. CASE d # c
    BY <1>1, <1>4, <2>2 DEF PoolEnded, Coroutine
  <2> QED
    BY <2>1, <2>2
<1> QED
  BY <1>4, <1>5, <1>6 DEF Pool!poolState

\* A function task runs on a coroutine of the scheduler's own.
LEMMA RunCallbackUnseen ==
    ASSUME IInv, NEW t \in Thread, RunCallback(t)
    PROVE  UNCHANGED Pool!poolState
<1> USE DEF IInv, OwnerInv, ShapeInv, TypeOK
<1>1. PICK k \in CbCor :
         /\ co' = [co EXCEPT ![t] = k]
         /\ m_state' = [m_state EXCEPT ![k] = "EXEC"]
  BY DEF RunCallback
<1>2. /\ InQueue' = InQueue /\ co[t] \notin UserCor /\ k \notin UserCor
      /\ pc' = [pc EXCEPT ![t] = "user"]
  BY <1>1, TaskAssumption DEF RunCallback, InQueue, Coroutine
<1>3. \A c \in UserCor : m_state'[c] = m_state[c]
  BY <1>1, <1>2 DEF Coroutine
<1>4. \A u \in Thread : u # t => co'[u] = co[u] /\ pc'[u] = pc[u]
  BY <1>1, <1>2
<1>5. co'[t] = k
  BY <1>1
<1>6. \A c \in UserCor, u \in Thread : /\ co'[u] = c <=> co[u] = c
                                       /\ co[u] = c => pc'[u] = pc[u]
  BY <1>2, <1>4, <1>5
<1>7. PoolRunning' = PoolRunning
  <2> SUFFICES ASSUME NEW c \in UserCor PROVE c \in PoolRunning' <=> c \in PoolRunning
    BY DEF PoolRunning
  <2> QED
    BY <1>6 DEF PoolRunning
<1>8. PoolOwed' = PoolOwed
  <2> SUFFICES ASSUME NEW c \in UserCor PROVE c \in PoolOwed' <=> c \in PoolOwed
    BY DEF PoolOwed
  <2> QED
    BY <1>2, <1>3, <1>6 DEF PoolOwed, Queued
<1>9. PoolEnded' = PoolEnded
  BY <1>3, <1>7 DEF PoolEnded
<1> QED
  BY <1>7, <1>8, <1>9 DEF Pool!poolState

\* The steps of threads that hold nothing, and those of start() and stop().
LEMMA IdleUnseen ==
    ASSUME IInv,
           \/ \E t \in Thread : ScanNothing(t) \/ EnterIdle(t) \/ Exit(t) \/ Idle(t)
           \/ Start \/ StopStep \/ StopBegin \/ Stopped \/ UNCHANGED vars
    PROVE  UNCHANGED Pool!poolState
<1> USE ThreadAssumption DEF IInv, ShapeInv, TypeOK
<1>1. InQueue' = InQueue /\ UNCHANGED <<m_state, co>>
  BY DEF ScanNothing, EnterIdle, Exit, Idle, Start, StopStep, StopBegin, StopFlag, StopCheck,
         StopRan, StopJoin, StopUnchanged, Stopped, vars, InQueue
<1>2. None \notin UserCor
  BY TaskAssumption DEF Task, Coroutine
<1>3. \A t \in Thread : co[t] # None => pc'[t] = pc[t]
  <2>1. CASE \E t \in Thread : ScanNothing(t) \/ EnterIdle(t) \/ Exit(t) \/ Idle(t)
    BY <2>1 DEF ScanNothing, EnterIdle, Exit, Idle, CoShape, InHand, OnStack
  <2>2. CASE Start
    BY <2>2 DEF Start, PhaseOK, CoShape, InHand, OnStack, Thread
  <2>3. CASE StopStep
    BY <2>3 DEF StopStep, StopFlag, StopCheck, StopRan, StopJoin, PhaseOK, CoShape, InHand, OnStack, Thread
  <2>4. CASE StopBegin \/ Stopped \/ UNCHANGED vars
    BY <2>4 DEF StopBegin, Stopped, vars
  <2> QED
    BY <2>1, <2>2, <2>3, <2>4
<1> QED
  BY <1>1, <1>2, <1>3, Unseen

\* Every step of the scheduler is a step of the pool or leaves it as it is.
LEMMA PoolStep ==
    ASSUME IInv, [Next]_vars
    PROVE  [Pool!Next]_(Pool!poolState)
<1>a. ASSUME NEW x \in Task, NEW tid \in Thread \cup {None}, MaySchedule(x),
             schedule(<<[task |-> x, threadId |-> tid]>>), UNCHANGED <<m_state, pc, co>>
      PROVE  [Pool!Next]_(Pool!poolState)
  <2> DEFINE es == <<[task |-> x, threadId |-> tid]>>
  <2>1. es \in Seq(Entry) /\ DOMAIN es = {1} /\ es[1].task = x
    BY DEF Entry
  <2>2. schedule(es) /\ \A i \in DOMAIN es : es[i].task \in handles
    BY <1>a, <2>1 DEF MaySchedule
  <2> HIDE DEF es
  <2> QED
    BY <1>a, <2>1, <2>2, ScheduleSubmits
<1>1. CASE App
  <2>1. CASE \E x \in Task : \E tid \in AppPins \cup {None} : AppSchedule(x, tid)
    BY <1>a, <2>1, ThreadAssumption DEF AppSchedule
  <2>2. ASSUME NEW x \in Task, NEW y \in Task, AppScheduleBatch(x, y)
        PROVE  [Pool!Next]_(Pool!poolState)
    <3> DEFINE es == <<[task |-> x, threadId |-> None], [task |-> y, threadId |-> None]>>
    <3>1. es \in Seq(Entry) /\ DOMAIN es = {1, 2} /\ es[1].task = x /\ es[2].task = y
      BY DEF Entry
    <3>2. /\ schedule(es) /\ UNCHANGED <<m_state, pc, co>>
          /\ \A i \in DOMAIN es : es[i].task \in handles
      BY <2>2, <3>1 DEF AppScheduleBatch, MaySchedule
    <3> HIDE DEF es
    <3> QED
      BY <3>1, <3>2, ScheduleSubmits
  <2>3. CASE Start \/ StopBegin
    BY <2>3, IdleUnseen
  <2> QED
    BY <1>1, <2>1, <2>2, <2>3 DEF App
<1>2. CASE StopStep \/ Stopped \/ UNCHANGED vars
  BY <1>2, IdleUnseen
<1>3. ASSUME NEW t \in Thread, run(t) PROVE [Pool!Next]_(Pool!poolState)
  BY <1>3, TakeUnseen, IdleUnseen, SwapInBegins, DropEndedDrops, RunCallbackUnseen,
     SwapOutEndsRun, AfterUnseen, RescheduleUnseen DEF run
<1>4. ASSUME NEW t \in Thread, Idle(t) PROVE [Pool!Next]_(Pool!poolState)
  BY <1>4, IdleUnseen
<1>5. ASSUME NEW t \in Thread, UserCode(t) PROVE [Pool!Next]_(Pool!poolState)
  <2>1. CASE \E x \in Task : \E tid \in TaskPins \cup {None} : TaskSchedule(t, x, tid)
    BY <1>a, <2>1, ThreadAssumption DEF TaskSchedule
  <2> QED
    BY <1>5, <2>1, OnStackUnseen DEF UserCode
<1> QED
  BY <1>1, <1>2, <1>3, <1>4, <1>5 DEF Next

\* The scheduler implements TaskPool, for any threads, coroutines and functions:
\* each schedule() of a coroutine is one run of it, never two at a time, and
\* none is lost while the coroutine leaves its stack.
THEOREM SchedulerImplementsPool == Spec => ImplementsTaskPool
<1>1. Init => Pool!Init
  BY DEF Init, Pool!Init, PoolOwed, PoolRunning, PoolEnded, Queued, InQueue, OnStack, Ended, Coroutine
<1>2. IInv /\ [Next]_vars => [Pool!Next]_(Pool!poolState)
  BY PoolStep
<1> QED
  BY <1>1, <1>2, OwnershipInvariant, PTL DEF Spec, ImplementsTaskPool, Pool!PoolSpec

=============================================================================
