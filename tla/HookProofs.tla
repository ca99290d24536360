----------------------------- MODULE HookProofs -----------------------------
(***************************************************************************)
(* Proofs about the hooked system calls, for any number of callers,        *)
(* descriptors, calls and timers.                                          *)
(***************************************************************************)
EXTENDS Hook, FiniteSetTheorems, WellFoundedInduction, TLAPS

-----------------------------------------------------------------------------
(* Descriptor numbers *)

\* A non-empty set of natural numbers has a least element.
LEMMA LeastNumber ==
    ASSUME NEW T, T \subseteq Nat, T # {}
    PROVE  \E x \in T : \A y \in T : x <= y
<1> DEFINE R == OpToRel(<, Nat)
<1>1. \A x, y \in Nat : <<y, x>> \in R <=> y < x
  BY DEF OpToRel
<1>2. IsWellFoundedOn(R, Nat)
  BY NatLessThanWellFounded
<1> HIDE DEF R
<1>3. PICK x \in T : \A y \in T : ~ (<<y, x>> \in R)
  BY <1>2, WFMin
<1>4. ASSUME NEW y \in T PROVE x <= y
  <2>1. x \in Nat /\ y \in Nat /\ ~ (<<y, x>> \in R)
    BY <1>3
  <2>2. ~ (y < x)
    BY <1>1, <2>1
  <2> QED
    BY <2>1, <2>2
<1> QED
  BY <1>4

\* The kernel hands out a free descriptor.
LEMMA LowestIsFree ==
    ASSUME FreeFds # {}
    PROVE  Lowest(FreeFds) \in Fd /\ opened[Lowest(FreeFds)] = 0
<1>1. FreeFds \subseteq Nat
  BY FdAssumption DEF FreeFds
<1>2. \E fd \in FreeFds : \A other \in FreeFds : fd <= other
  BY <1>1, LeastNumber
<1>3. Lowest(FreeFds) \in FreeFds
  BY <1>2 DEF Lowest
<1> QED
  BY <1>3 DEF FreeFds

\* The table grows beyond the descriptor that did not fit.
LEMMA GrownHolds ==
    ASSUME NEW fd \in Nat, fd > 1
    PROVE  Grown(fd) \in Nat /\ Grown(fd) > fd
BY DEF Grown

\* A context is not the absence of one.
LEMMA CtxIsThere == \A ctx \in FdCtx : ctx # NoCtx
<1> SUFFICES ASSUME NEW ctx \in FdCtx PROVE ctx # NoCtx
  OBVIOUS
<1>1. "isSocket" \in DOMAIN ctx
  BY DEF FdCtx
<1>2. "isSocket" \notin DOMAIN NoCtx
  BY DEF NoCtx
<1> QED
  BY <1>1, <1>2

-----------------------------------------------------------------------------
(* Types *)

\* A setter leaves a context what it is.
LEMMA CtxChanged ==
    ASSUME NEW ctx \in FdCtx
    PROVE  /\ [ctx EXCEPT !.timeout["READ"] = TRUE] \in FdCtx
           /\ [ctx EXCEPT !.timeout["READ"] = TRUE].born = ctx.born
           /\ [ctx EXCEPT !.userNonblock = TRUE] \in FdCtx
           /\ [ctx EXCEPT !.userNonblock = TRUE].born = ctx.born
BY DEF FdCtx

\* A new context has the type of one.
LEMMA NewCtxTyped ==
    ASSUME FdTypeOK, NEW fd \in Fd
    PROVE  NewCtx(fd) \in FdCtx
BY FdAssumption DEF FdTypeOK, NewCtx, FdCtx

\* Creating a descriptor keeps the types of what it touches.
LEMMA CreateTyped ==
    ASSUME HookTypeOK, NEW c \in Caller, NEW state \in {"none", "done"}, Create(c, state)
    PROVE  /\ opened' \in [Fd -> 0..openings'] /\ openings' \in Nat
           /\ call' \in [Caller -> CallInfo]
           /\ conn' \in [Fd -> {"none", "progress", "done", "failed"}]
           /\ pc' \in [Caller -> Pc] /\ result' \in [Caller -> Result]
<1>1. CASE FreeFds = {}
  BY <1>1 DEF HookTypeOK, FdTypeOK, Create, Goto, Return, Pc, Result
<1>2. CASE FreeFds # {}
  <2> DEFINE f == Lowest(FreeFds)
  <2>1. f \in Fd
    BY <1>2, LowestIsFree
  <2>2. /\ openings' = openings + 1 /\ opened' = [opened EXCEPT ![f] = openings + 1]
        /\ call' = [call EXCEPT ![c] = [@ EXCEPT !.fd = f, !.open = openings + 1]]
        /\ conn' = [conn EXCEPT ![f] = state]
        /\ pc' = [pc EXCEPT ![c] = "get"] /\ result' = result
    BY <1>2 DEF Create, Open, Goto
  <2> HIDE DEF f
  <2>3. opened' \in [Fd -> 0..openings'] /\ openings' \in Nat
    BY <2>1, <2>2 DEF HookTypeOK, FdTypeOK
  <2>4. call' \in [Caller -> CallInfo]
    <3>1. call[c] \in CallInfo
      BY DEF HookTypeOK
    <3>2. [call[c] EXCEPT !.fd = f, !.open = openings + 1] \in CallInfo
      <4> DEFINE r == [call[c] EXCEPT !.fd = f]
      <4>1. r \in CallInfo
        BY <2>1, <3>1 DEF CallInfo
      <4> HIDE DEF r
      <4>2. [r EXCEPT !.open = openings + 1] \in CallInfo
        BY <4>1 DEF HookTypeOK, FdTypeOK, CallInfo
      <4> QED
        BY <4>2 DEF r
    <3> QED
      BY <2>2, <3>2 DEF HookTypeOK
  <2> QED
    BY <2>1, <2>2, <2>3, <2>4 DEF HookTypeOK, Pc
<1> QED
  BY <1>1, <1>2

\* Every step keeps the types.
LEMMA TypeStep ==
    ASSUME HookTypeOK, [Next]_vars
    PROVE  HookTypeOK'
<1>1. CASE UNCHANGED vars
  BY <1>1 DEF HookTypeOK, FdTypeOK, vars, fdVars, hookVars
<1>2. ASSUME NEW c \in Caller, Call(c) PROVE HookTypeOK'
  BY <1>2, FdAssumption, HookAssumption
     DEF HookTypeOK, FdTypeOK, Call, fdVars, Goto, Return, Pc, Result, Op, CallInfo, Start
<1>3. ASSUME NEW c \in Caller, SocketOpen(c) PROVE HookTypeOK'
  BY <1>3, CreateTyped, FdAssumption DEF HookTypeOK, FdTypeOK, SocketOpen
<1>4. ASSUME NEW c \in Caller, GetRead(c) PROVE HookTypeOK'
  BY <1>4, FdAssumption, HookAssumption
     DEF HookTypeOK, FdTypeOK, GetRead, fdVars, Goto, Return, Pc, Result, Op, CallInfo
<1>5. ASSUME NEW c \in Caller, GetWrite(c) PROVE HookTypeOK'
  <2> DEFINE fd == call[c].fd
  <2>1. fd \in Fd /\ fd \in Nat
    BY FdAssumption DEF HookTypeOK, CallInfo
  <2>2. NewCtx(fd) \in FdCtx
    BY <2>1, NewCtxTyped DEF HookTypeOK
  <2>3. m_fds' \in [Fd -> FdCtx \cup {NoCtx}]
    BY <1>5, <2>1, <2>2 DEF HookTypeOK, FdTypeOK, GetWrite, GetCreate
  <2>4. size' \in Nat \ {0, 1}
    BY <1>5, <2>1, GrownHolds DEF HookTypeOK, FdTypeOK, GetWrite, GetCreate
  <2> QED
    BY <1>5, <2>3, <2>4 DEF HookTypeOK, FdTypeOK, GetWrite, Goto, Return, Pc, Result
<1>6. ASSUME NEW c \in Caller, SetOption(c) PROVE HookTypeOK'
  <2> DEFINE fd == call[c].fd
  <2>1. fd \in Fd
    BY DEF HookTypeOK, CallInfo
  <2>2. CASE Get(fd) = NoCtx
    BY <1>6, <2>2 DEF HookTypeOK, FdTypeOK, SetOption, Goto, Return, Pc, Result
  <2>3. CASE Get(fd) # NoCtx
    <3>1. m_fds[fd] \in FdCtx
      BY <2>1, <2>3 DEF HookTypeOK, FdTypeOK, Get
    <3>2. /\ [m_fds[fd] EXCEPT !.timeout["READ"] = TRUE] \in FdCtx
          /\ [m_fds[fd] EXCEPT !.userNonblock = TRUE] \in FdCtx
      BY <3>1, CtxChanged
    <3>3. \/ m_fds' = [m_fds EXCEPT ![fd] = [m_fds[fd] EXCEPT !.timeout["READ"] = TRUE]]
          \/ m_fds' = [m_fds EXCEPT ![fd] = [m_fds[fd] EXCEPT !.userNonblock = TRUE]]
      BY <1>6, <2>1, <2>3, <3>1 DEF SetOption, SetTimeout, SetUserNonblock, FdCtx
    <3>4. m_fds' \in [Fd -> FdCtx \cup {NoCtx}]
      BY <2>1, <3>2, <3>3 DEF HookTypeOK, FdTypeOK
    <3> QED
      BY <1>6, <3>4 DEF HookTypeOK, FdTypeOK, SetOption, Goto, Return, Pc, Result
  <2> QED
    BY <2>2, <2>3
<1>7. ASSUME NEW c \in Caller, LookupCtx(c) PROVE HookTypeOK'
  <2>1. call[c] \in CallInfo
    BY DEF HookTypeOK
  <2>2. call' = call \/ \E b \in BOOLEAN : call' = [call EXCEPT ![c] = [call[c] EXCEPT !.timed = b]]
    <3> DEFINE ctx == Get(call[c].fd)
    <3>1. CASE ctx = NoCtx \/ ~ctx.isSocket \/ ctx.userNonblock
      BY <1>7, <3>1 DEF LookupCtx
    <3>2. CASE ~(ctx = NoCtx \/ ~ctx.isSocket \/ ctx.userNonblock)
      <4>1. ctx \in FdCtx
        BY <2>1, <3>2 DEF HookTypeOK, FdTypeOK, Get, CallInfo
      <4>2. (call[c].op = "connect" \/ ctx.timeout["READ"]) \in BOOLEAN
        OBVIOUS
      <4>3. call' = [call EXCEPT ![c].timed = call[c].op = "connect" \/ ctx.timeout["READ"]]
        BY <1>7, <3>2 DEF LookupCtx
      <4> QED
        BY <2>1, <4>2, <4>3 DEF HookTypeOK
    <3> QED
      BY <3>1, <3>2
  <2>3. call' \in [Caller -> CallInfo]
    BY <2>1, <2>2, SMTT(30) DEF HookTypeOK, CallInfo
  <2>4. pc' \in [Caller -> Pc] /\ result' \in [Caller -> Result]
    BY <1>7 DEF HookTypeOK, LookupCtx, Goto, Return, Pc, Result
  <2> QED
    BY <1>7, <2>3, <2>4 DEF HookTypeOK, FdTypeOK, LookupCtx, fdVars
<1>8. ASSUME NEW c \in Caller, TryIO(c) PROVE HookTypeOK'
  <2> DEFINE fd == call[c].fd
  <2>1. fd \in Fd /\ input[fd] \in Nat
    BY DEF HookTypeOK, CallInfo
  <2>2. CASE opened[fd] = 0 \/ input[fd] = 0
    BY <1>8, <2>1, <2>2 DEF HookTypeOK, FdTypeOK, TryIO, Attempt, Goto, Return, Pc, Result
  <2>3. CASE opened[fd] # 0 /\ input[fd] # 0
    <3>1. input' = [input EXCEPT ![fd] = @ - 1]
      BY <1>8, <2>3 DEF TryIO, Attempt
    <3>2. input' \in [Fd -> Nat]
      <4>1. input[fd] - 1 \in Nat
        BY <2>1, <2>3
      <4> QED
        BY <3>1, <4>1 DEF HookTypeOK
    <3>3. CASE call[c].op = "accept"
      <4>1. Create(c, "done")
        BY <1>8, <2>3, <3>3 DEF TryIO, Attempt
      <4> QED
        BY <1>8, <4>1, <3>2, CreateTyped DEF HookTypeOK, FdTypeOK, TryIO
    <3>4. CASE call[c].op # "accept"
      BY <1>8, <2>3, <3>2, <3>4
         DEF HookTypeOK, FdTypeOK, TryIO, Attempt, Goto, Return, Pc, Result
    <3> QED
      BY <3>3, <3>4
  <2> QED
    BY <2>2, <2>3
<1>9. ASSUME NEW c \in Caller, TryConnect(c) PROVE HookTypeOK'
  <2>1. call[c].fd \in Fd
    BY DEF HookTypeOK, CallInfo
  <2>2. conn' \in [Fd -> {"none", "progress", "done", "failed"}]
    BY <1>9, <2>1 DEF HookTypeOK, TryConnect
  <2>3. pc' \in [Caller -> Pc] /\ result' \in [Caller -> Result]
    BY <1>9 DEF HookTypeOK, TryConnect, Goto, Return, Pc, Result
  <2> QED
    BY <1>9, <2>2, <2>3 DEF HookTypeOK, FdTypeOK, TryConnect, fdVars
<1>10. ASSUME NEW c \in Caller, ArmTimer(c) PROVE HookTypeOK'
  <2>1. Timer(c) \in TimerInfo
    BY DEF HookTypeOK, CallInfo, TimerInfo, TimerState, Timer, EventOf, Event
  <2> QED
    BY <1>10, <2>1 DEF HookTypeOK, FdTypeOK, ArmTimer, fdVars, Goto, Pc
<1>11. ASSUME NEW c \in Caller, AddEvent(c) PROVE HookTypeOK'
  <2>1. /\ call[c].fd \in Fd /\ EventOf(call[c].op) \in Event
        /\ \A fd \in Fd : opened[fd] \in Nat
    BY DEF HookTypeOK, FdTypeOK, CallInfo, EventOf, Event
  <2>2. waiter' \in [Fd \X Event -> [c : Caller, open : Nat] \cup {Nobody}]
    <3> DEFINE w == <<call[c].fd, EventOf(call[c].op)>>
               me == [c |-> c, open |-> opened[call[c].fd]]
    <3>1. w \in Fd \X Event /\ me \in [c : Caller, open : Nat]
      BY <2>1
    <3>2. waiter' = waiter \/ waiter' = [waiter EXCEPT ![w] = me]
      BY <1>11 DEF AddEvent
    <3> HIDE DEF w, me
    <3> QED
      BY <3>1, <3>2 DEF HookTypeOK
  <2>3. pc' \in [Caller -> Pc] /\ result' \in [Caller -> Result] /\ timers' \subseteq TimerInfo
    BY <1>11 DEF HookTypeOK, AddEvent, Goto, Return, Pc, Result
  <2> QED
    BY <1>11, <2>2, <2>3 DEF HookTypeOK, FdTypeOK, AddEvent, fdVars
<1>12. ASSUME NEW c \in Caller, Resume(c) PROVE HookTypeOK'
  BY <1>12, FdAssumption, HookAssumption
     DEF HookTypeOK, FdTypeOK, Resume, fdVars, Goto, Return, Pc, Result, Op, CallInfo
<1>13. ASSUME NEW c \in Caller, CheckCanceled(c) PROVE HookTypeOK'
  BY <1>13, FdAssumption, HookAssumption
     DEF HookTypeOK, FdTypeOK, CheckCanceled, fdVars, Goto, Return, Pc, Result, Op, CallInfo
<1>14. ASSUME NEW c \in Caller, ConnectResult(c) PROVE HookTypeOK'
  BY <1>14, FdAssumption, HookAssumption
     DEF HookTypeOK, FdTypeOK, ConnectResult, fdVars, Goto, Return, Pc, Result, Op, CallInfo,
         SoError
<1>15. ASSUME NEW c \in Caller, CloseWake(c) PROVE HookTypeOK'
  <2>1. waiter' \in [Fd \X Event -> [c : Caller, open : Nat] \cup {Nobody}]
    BY <1>15 DEF HookTypeOK, CloseWake, cancelAll
  <2>2. woken' \in [Caller -> BOOLEAN]
    <3>1. CASE UNCHANGED woken
      BY <3>1 DEF HookTypeOK
    <3>2. CASE cancelAll(call[c].fd)
      BY <3>2, Zenon DEF cancelAll
    <3> QED
      BY <1>15, <3>1, <3>2 DEF CloseWake
  <2> QED
    BY <1>15, <2>1, <2>2 DEF HookTypeOK, FdTypeOK, CloseWake, CloseNext, fdVars, Goto, Pc
<1>16. ASSUME NEW c \in Caller, CloseDel(c) PROVE HookTypeOK'
  BY <1>16, FdAssumption, HookAssumption
     DEF HookTypeOK, FdTypeOK, CloseDel, fdVars, Goto, Return, Pc, Result, Op, CallInfo, Del,
         CloseNext
<1>17. ASSUME NEW c \in Caller, CloseFd(c) PROVE HookTypeOK'
  BY <1>17, FdAssumption, HookAssumption
     DEF HookTypeOK, FdTypeOK, CloseFd, fdVars, Goto, Return, Pc, Result, Op, CallInfo
<1>18. ASSUME NEW c \in Caller, Expire(c) PROVE HookTypeOK'
  <2> PICK t \in timers :
         /\ timers' = (timers \ {t}) \cup {[t EXCEPT !.st = "queued"]}
         /\ expired' = [expired EXCEPT ![c] = @ \/ t.n = call[c].n]
    BY <1>18 DEF Expire
  <2>1. timers' \subseteq TimerInfo
    BY DEF HookTypeOK, TimerInfo, TimerState
  <2>2. (expired[c] \/ t.n = call[c].n) \in BOOLEAN
    OBVIOUS
  <2>3. expired' \in [Caller -> BOOLEAN]
    BY <2>2, Zenon DEF HookTypeOK
  <2> QED
    BY <1>18, <2>1, <2>3 DEF HookTypeOK, FdTypeOK, Expire, fdVars
<1>19. ASSUME NEW c \in Caller, RunCallback(c) PROVE HookTypeOK'
  <2> PICK t \in timers :
         \/ timers' = timers \ {t}
         \/ timers' = (timers \ {t}) \cup {[t EXCEPT !.st = "cancelling"]}
    BY <1>19 DEF RunCallback
  <2>1. timers' \subseteq TimerInfo
    BY DEF HookTypeOK, TimerInfo, TimerState
  <2> QED
    BY <1>19, <2>1 DEF HookTypeOK, FdTypeOK, RunCallback, fdVars
<1>20. ASSUME NEW c \in Caller, CancelWait(c) PROVE HookTypeOK'
  <2> PICK t \in timers : /\ cancelEvent(t.fd, t.ev)
                          /\ timers' = timers \ {t}
    BY <1>20 DEF CancelWait
  <2>1. waiter' \in [Fd \X Event -> [c : Caller, open : Nat] \cup {Nobody}]
    BY DEF HookTypeOK, cancelEvent, triggerEvent
  <2>2. woken' \in [Caller -> BOOLEAN]
    BY DEF HookTypeOK, cancelEvent, triggerEvent
  <2>3. misled' \in [Caller -> BOOLEAN]
    BY <1>20, Zenon DEF CancelWait
  <2> QED
    BY <1>20, <2>1, <2>2, <2>3 DEF HookTypeOK, FdTypeOK, CancelWait, fdVars
<1>21. ASSUME NEW fd \in Fd, NEW ev \in Event, Report(fd, ev) PROVE HookTypeOK'
  <2>1. waiter' \in [Fd \X Event -> [c : Caller, open : Nat] \cup {Nobody}]
    BY <1>21 DEF HookTypeOK, Report, triggerEvent
  <2> QED
    BY <1>21, <2>1 DEF HookTypeOK, FdTypeOK, Report, triggerEvent, fdVars
<1>22. ASSUME NEW fd \in Fd, Arrive(fd) PROVE HookTypeOK'
  BY <1>22, FdAssumption, HookAssumption
     DEF HookTypeOK, FdTypeOK, Arrive, fdVars, Goto, Return, Pc, Result, Op, CallInfo
<1>23. ASSUME NEW fd \in Fd, Answer(fd) PROVE HookTypeOK'
  BY <1>23, FdAssumption, HookAssumption
     DEF HookTypeOK, FdTypeOK, Answer, fdVars, Goto, Return, Pc, Result, Op, CallInfo
<1> QED
  BY <1>1, <1>2, <1>3, <1>4, <1>5, <1>6, <1>7, <1>8, <1>9, <1>10, <1>11, <1>12, <1>13, <1>14,
     <1>15, <1>16, <1>17, <1>18, <1>19, <1>20, <1>21, <1>22, <1>23 DEF Next, Proceed

-----------------------------------------------------------------------------
(* What the steps of a call do to the records of the calls *)

\* The other callers' calls and places are left alone.
OthersKept(c) == \A d \in Caller \ {c} : pc'[d] = pc[d] /\ call'[d] = call[d]

\* A descriptor is created where none was open, or none is free.
LEMMA CreateShape ==
    ASSUME HookTypeOK, NEW c \in Caller, NEW state, Create(c, state)
    PROVE  /\ OthersKept(c) /\ call'[c].op = call[c].op /\ call'[c].n = call[c].n
           /\ \/ /\ UNCHANGED <<opened, openings, call, conn>>
                 /\ pc'[c] = "idle" /\ result' = [result EXCEPT ![c] = "error"]
              \/ /\ pc'[c] = "get" /\ UNCHANGED result
                 /\ \E fd \in Fd : /\ opened[fd] = 0
                                   /\ call'[c].fd = fd /\ call'[c].open = openings + 1
                                   /\ opened' = [opened EXCEPT ![fd] = openings + 1]
                                   /\ conn' = [conn EXCEPT ![fd] = state]
<1>1. CASE FreeFds = {}
  BY <1>1 DEF HookTypeOK, Create, Goto, Return, OthersKept
<1>2. CASE FreeFds # {}
  <2> DEFINE f == Lowest(FreeFds)
  <2>1. f \in Fd /\ opened[f] = 0
    BY <1>2, LowestIsFree
  <2>2. /\ opened' = [opened EXCEPT ![f] = openings + 1]
        /\ call' = [call EXCEPT ![c] = [@ EXCEPT !.fd = f, !.open = openings + 1]]
        /\ conn' = [conn EXCEPT ![f] = state]
        /\ pc' = [pc EXCEPT ![c] = "get"] /\ result' = result
    BY <1>2 DEF Create, Open, Goto
  <2> HIDE DEF f
  <2>3. /\ call'[c].op = call[c].op /\ call'[c].n = call[c].n
        /\ call'[c].fd = f /\ call'[c].open = openings + 1
    <3>1. call[c] \in CallInfo
      BY DEF HookTypeOK
    <3>2. call'[c] = [call[c] EXCEPT !.fd = f, !.open = openings + 1]
      BY <2>2 DEF HookTypeOK
    <3> QED
      BY <3>1, <3>2 DEF CallInfo
  <2>4. OthersKept(c) /\ pc'[c] = "get"
    BY <2>2 DEF HookTypeOK, OthersKept
  <2> QED
    BY <2>1, <2>2, <2>3, <2>4
<1> QED
  BY <1>1, <1>2

\* Looking up the context only notes whether the call has a timeout.
LEMMA LookupShape ==
    ASSUME HookTypeOK, NEW c \in Caller, LookupCtx(c)
    PROVE  /\ OthersKept(c)
           /\ call'[c].op = call[c].op /\ call'[c].fd = call[c].fd
           /\ call'[c].open = call[c].open /\ call'[c].n = call[c].n
           /\ pc'[c] \in {"idle", "plain", "try"}
           /\ result' = result \/ result' = [result EXCEPT ![c] = "error"]
<1>1. call[c] \in CallInfo
  BY DEF HookTypeOK
<1>2. call' = call \/ \E b : call' = [call EXCEPT ![c] = [call[c] EXCEPT !.timed = b]]
  <2>1. \/ call' = call
        \/ call' = [call EXCEPT ![c].timed = call[c].op = "connect"
                                             \/ Get(call[c].fd).timeout["READ"]]
    BY DEF LookupCtx
  <2> QED
    BY <2>1 DEF HookTypeOK
<1>3. /\ call'[c].op = call[c].op /\ call'[c].fd = call[c].fd
      /\ call'[c].open = call[c].open /\ call'[c].n = call[c].n
      /\ \A d \in Caller \ {c} : call'[d] = call[d]
  BY <1>1, <1>2 DEF HookTypeOK, CallInfo
<1>4. /\ pc'[c] \in {"idle", "plain", "try"}
      /\ \A d \in Caller \ {c} : pc'[d] = pc[d]
      /\ result' = result \/ result' = [result EXCEPT ![c] = "error"]
  BY DEF HookTypeOK, LookupCtx, Goto, Return
<1> QED
  BY <1>3, <1>4 DEF OthersKept

\* One attempt of recv() or accept() ends the call, blocks or, for accept(),
\* creates a descriptor.
LEMMA TryShape ==
    ASSUME HookTypeOK, NEW c \in Caller, TryIO(c)
    PROVE  \/ /\ UNCHANGED <<opened, openings, call, conn>> /\ OthersKept(c)
              /\ \/ pc'[c] = "arm" /\ pc[c] = "try" /\ UNCHANGED result
                 \/ /\ pc'[c] = "idle"
                    /\ \E r \in {"ok", "again", "error"} : result' = [result EXCEPT ![c] = r]
           \/ call[c].op = "accept" /\ Create(c, "done")
<1>1. CASE opened[call[c].fd] = 0 \/ input[call[c].fd] = 0
  BY <1>1 DEF HookTypeOK, TryIO, Attempt, Goto, Return, OthersKept
<1>2. CASE ~(opened[call[c].fd] = 0 \/ input[call[c].fd] = 0)
  BY <1>2 DEF HookTypeOK, TryIO, Attempt, Goto, Return, OthersKept
<1> QED
  BY <1>1, <1>2

-----------------------------------------------------------------------------
(* A timeout is one of the present call *)

\* Steps that neither add timers nor mark calls.
LEMMA TimeoutFrame ==
    ASSUME HookTypeOK, TimeoutInv, timers' \subseteq timers,
           \A d \in Caller : call'[d].n = call[d].n,
           UNCHANGED <<expired, canceled>>,
           \A d \in Caller : result'[d] = result[d] \/ result'[d] # "timeout"
    PROVE  TimeoutInv'
BY DEF HookTypeOK, TimeoutInv, TimersMarked, TimerInfo

\* Every step keeps the marks of the timers.
LEMMA TimeoutStep ==
    ASSUME HookTypeOK, TimeoutInv, [Next]_vars
    PROVE  TimeoutInv'
<1>1. CASE UNCHANGED vars
  BY <1>1, TimeoutFrame DEF vars, hookVars
<1>2. ASSUME NEW c \in Caller, Call(c) PROVE TimeoutInv'
  BY <1>2 DEF HookTypeOK, TimeoutInv, TimersMarked, CallInfo, TimerInfo, Call
<1>3. ASSUME NEW c \in Caller, SocketOpen(c) PROVE TimeoutInv'
  BY <1>3, CreateShape, TimeoutFrame DEF SocketOpen, OthersKept, HookTypeOK
<1>4. ASSUME NEW c \in Caller, GetRead(c) PROVE TimeoutInv'
  BY <1>4, TimeoutFrame DEF GetRead, Return, Goto, HookTypeOK
<1>5. ASSUME NEW c \in Caller, GetWrite(c) PROVE TimeoutInv'
  BY <1>5, TimeoutFrame DEF GetWrite, Return, Goto, HookTypeOK
<1>6. ASSUME NEW c \in Caller, SetOption(c) PROVE TimeoutInv'
  BY <1>6, TimeoutFrame DEF SetOption, Return, Goto, HookTypeOK
<1>7. ASSUME NEW c \in Caller, LookupCtx(c) PROVE TimeoutInv'
  BY <1>7, LookupShape, TimeoutFrame DEF LookupCtx, OthersKept, HookTypeOK
<1>8. ASSUME NEW c \in Caller, TryIO(c) PROVE TimeoutInv'
  BY <1>8, TryShape, CreateShape, TimeoutFrame, SMTT(30) DEF TryIO, OthersKept, HookTypeOK
<1>9. ASSUME NEW c \in Caller, TryConnect(c) PROVE TimeoutInv'
  BY <1>9, TimeoutFrame DEF TryConnect, Return, Goto, HookTypeOK
<1>10. ASSUME NEW c \in Caller, ArmTimer(c) PROVE TimeoutInv'
  BY <1>10 DEF HookTypeOK, TimeoutInv, TimersMarked, CallInfo, TimerInfo, ArmTimer, Timer
<1>11. ASSUME NEW c \in Caller, AddEvent(c) PROVE TimeoutInv'
  BY <1>11, TimeoutFrame DEF AddEvent, Return, Goto, HookTypeOK
<1>12. ASSUME NEW c \in Caller, Resume(c) PROVE TimeoutInv'
  BY <1>12, TimeoutFrame DEF Resume, Return, Goto, HookTypeOK
<1>13. ASSUME NEW c \in Caller, CheckCanceled(c) PROVE TimeoutInv'
  BY <1>13 DEF HookTypeOK, TimeoutInv, TimersMarked, TimerInfo, CheckCanceled, Return, Goto
<1>14. ASSUME NEW c \in Caller, ConnectResult(c) PROVE TimeoutInv'
  BY <1>14, TimeoutFrame DEF ConnectResult, SoError, Return, Goto, HookTypeOK
<1>15. ASSUME NEW c \in Caller, CloseWake(c) PROVE TimeoutInv'
  BY <1>15, TimeoutFrame DEF CloseWake, Return, Goto, HookTypeOK
<1>16. ASSUME NEW c \in Caller, CloseDel(c) PROVE TimeoutInv'
  BY <1>16, TimeoutFrame DEF CloseDel, Return, Goto, HookTypeOK
<1>17. ASSUME NEW c \in Caller, CloseFd(c) PROVE TimeoutInv'
  BY <1>17, TimeoutFrame DEF CloseFd, Return, Goto, HookTypeOK
<1>18. ASSUME NEW c \in Caller, Expire(c) PROVE TimeoutInv'
  <2> PICK t \in timers :
         /\ t.owner = c /\ t.st = "armed"
         /\ timers' = (timers \ {t}) \cup {[t EXCEPT !.st = "queued"]}
         /\ expired' = [expired EXCEPT ![c] = @ \/ t.n = call[c].n]
    BY <1>18 DEF Expire
  <2> DEFINE u == [t EXCEPT !.st = "queued"]
  <2>1. u.owner = c /\ u.n = t.n /\ u.st = "queued"
    BY DEF HookTypeOK, TimerInfo
  <2>2. timers' \subseteq timers \cup {u}
    OBVIOUS
  <2> HIDE DEF u
  <2>3. /\ UNCHANGED <<call, canceled, result>>
        /\ t.n = call[c].n => expired'[c]
        /\ \A d \in Caller : expired[d] => expired'[d]
    BY <1>18 DEF Expire, HookTypeOK
  <2>4. t.n <= call[c].n
    BY DEF TimeoutInv, TimersMarked
  <2>5. ASSUME NEW s \in timers' PROVE
          /\ s.n <= call[s.owner].n
          /\ s.n = call[s.owner].n /\ s.st # "armed" => expired'[s.owner]
          /\ s.n = call[s.owner].n /\ s.st = "cancelling" => canceled[s.owner]
    <3>1. CASE s = u
      BY <2>1, <2>3, <2>4, <3>1
    <3>2. CASE s \in timers
      BY <2>3, <3>2 DEF TimeoutInv, TimersMarked, HookTypeOK, TimerInfo
    <3> QED
      BY <2>2, <3>1, <3>2
  <2> QED
    BY <2>3, <2>5 DEF TimeoutInv, TimersMarked
<1>19. ASSUME NEW c \in Caller, RunCallback(c) PROVE TimeoutInv'
  <2> PICK t \in timers :
         /\ t.owner = c /\ t.st = "queued"
         /\ \/ timers' = timers \ {t} /\ UNCHANGED canceled
            \/ /\ Valid(t) /\ canceled' = [canceled EXCEPT ![c] = TRUE]
               /\ timers' = (timers \ {t}) \cup {[t EXCEPT !.st = "cancelling"]}
    BY <1>19 DEF RunCallback
  <2>1. UNCHANGED <<call, expired, result>>
    BY <1>19 DEF RunCallback
  <2>2. CASE timers' = timers \ {t} /\ UNCHANGED canceled
    BY <2>1, <2>2, TimeoutFrame
  <2>3. CASE /\ Valid(t) /\ canceled' = [canceled EXCEPT ![c] = TRUE]
             /\ timers' = (timers \ {t}) \cup {[t EXCEPT !.st = "cancelling"]}
    <3> DEFINE u == [t EXCEPT !.st = "cancelling"]
    <3>1. u.owner = c /\ u.n = t.n
      BY DEF HookTypeOK, TimerInfo
    <3>2. timers' \subseteq timers \cup {u}
      BY <2>3
    <3> HIDE DEF u
    <3>3. t.n = call[c].n /\ expired[c]
      BY <2>3 DEF Valid, TimeoutInv, TimersMarked
    <3>4. canceled'[c] /\ \A d \in Caller \ {c} : canceled'[d] = canceled[d]
      BY <2>3 DEF HookTypeOK
    <3>5. ASSUME NEW s \in timers' PROVE
            /\ s.n <= call[s.owner].n
            /\ s.n = call[s.owner].n /\ s.st # "armed" => expired[s.owner]
            /\ s.n = call[s.owner].n /\ s.st = "cancelling" => canceled'[s.owner]
      <4>1. CASE s = u
        <5>1. call[c].n \in Nat
          BY DEF HookTypeOK, CallInfo
        <5> QED
          BY <3>1, <3>3, <3>4, <4>1, <5>1
      <4>2. CASE s \in timers
        BY <3>4, <4>2 DEF TimeoutInv, TimersMarked, HookTypeOK, TimerInfo
      <4> QED
        BY <3>2, <4>1, <4>2
    <3> QED
      BY <2>1, <3>3, <3>4, <3>5 DEF TimeoutInv, TimersMarked
  <2> QED
    BY <2>2, <2>3
<1>20. ASSUME NEW c \in Caller, CancelWait(c) PROVE TimeoutInv'
  BY <1>20, TimeoutFrame DEF CancelWait, Return, Goto, HookTypeOK
<1>21. ASSUME NEW fd \in Fd, NEW ev \in Event, Report(fd, ev) PROVE TimeoutInv'
  BY <1>21, TimeoutFrame DEF Report, Return, Goto, HookTypeOK
<1>22. ASSUME NEW fd \in Fd, Arrive(fd) PROVE TimeoutInv'
  BY <1>22, TimeoutFrame DEF Arrive, Return, Goto, HookTypeOK
<1>23. ASSUME NEW fd \in Fd, Answer(fd) PROVE TimeoutInv'
  BY <1>23, TimeoutFrame DEF Answer, Return, Goto, HookTypeOK
<1> QED
  BY <1>1, <1>2, <1>3, <1>4, <1>5, <1>6, <1>7, <1>8, <1>9, <1>10, <1>11, <1>12, <1>13, <1>14,
     <1>15, <1>16, <1>17, <1>18, <1>19, <1>20, <1>21, <1>22, <1>23 DEF Next, Proceed

-----------------------------------------------------------------------------
(* A suspended coroutine is scheduled once *)

\* A registration names a caller.
LEMMA WaiterIsCaller ==
    ASSUME HookTypeOK, NEW w \in Fd \X Event, waiter[w] # Nobody
    PROVE  waiter[w].c \in Caller
BY DEF HookTypeOK

\* Steps of a caller that is not suspended, with no new sleep timer.
LEMMA ResumeFrame ==
    ASSUME HookTypeOK, ResumeInv, NEW c \in Caller, pc[c] # "held", OthersKept(c),
           UNCHANGED <<woken, waiter>>, PlacesOK',
           \A t \in timers' : t.ev = "WAKE" => t \in timers
    PROVE  ResumeInv'
<1>1. ~woken[c]
  BY DEF ResumeInv, WokenHeld
<1>2. WokenHeld'
  BY <1>1 DEF ResumeInv, WokenHeld, OthersKept
<1>3. WaitersHeld'
  <2> SUFFICES ASSUME NEW w \in Fd \X Event, waiter[w] # Nobody
               PROVE  /\ pc'[waiter[w].c] = "held" /\ ~woken[waiter[w].c]
                      /\ call'[waiter[w].c].op \in IoOp
                      /\ w = <<call'[waiter[w].c].fd, EventOf(call'[waiter[w].c].op)>>
    BY DEF WaitersHeld
  <2>1. /\ pc[waiter[w].c] = "held" /\ ~woken[waiter[w].c]
        /\ call[waiter[w].c].op \in IoOp
        /\ w = <<call[waiter[w].c].fd, EventOf(call[waiter[w].c].op)>>
    BY DEF ResumeInv, WaitersHeld
  <2>2. waiter[w].c \in Caller \ {c}
    BY <2>1, WaiterIsCaller
  <2> QED
    BY <2>1, <2>2 DEF OthersKept
<1>4. SleepersHeld'
  BY DEF ResumeInv, SleepersHeld, OthersKept, HookTypeOK, TimerInfo
<1>5. OneSleepTimer'
  BY DEF ResumeInv, OneSleepTimer
<1> QED
  BY <1>2, <1>3, <1>4, <1>5 DEF ResumeInv

\* Steps that move nobody and wake nobody.
LEMMA ResumeStutter ==
    ASSUME ResumeInv, UNCHANGED <<pc, call, woken, waiter>>,
           \A t \in timers' : t.ev = "WAKE" => t \in timers
    PROVE  ResumeInv'
BY DEF ResumeInv, PlacesOK, WaitersHeld, SleepersHeld, OneSleepTimer, WokenHeld

\* Scheduling the waiter of a registration and removing it.
LEMMA TriggerKeeps ==
    ASSUME HookTypeOK, ResumeInv, NEW fd \in Fd, NEW ev \in Event,
           waiter[<<fd, ev>>] # Nobody, triggerEvent(fd, ev),
           UNCHANGED <<pc, call>>, timers' \subseteq timers
    PROVE  ResumeInv'
<1> DEFINE v == <<fd, ev>>
           d == waiter[v].c
<1>1. v \in Fd \X Event /\ d \in Caller
  BY WaiterIsCaller
<1>2. pc[d] = "held" /\ call[d].op \in IoOp /\ v = <<call[d].fd, EventOf(call[d].op)>>
  BY <1>1 DEF ResumeInv, WaitersHeld
<1>3. woken' = [woken EXCEPT ![d] = TRUE] /\ waiter' = [waiter EXCEPT ![v] = Nobody]
  BY DEF triggerEvent
<1> HIDE DEF v, d
<1>4. PlacesOK'
  BY DEF ResumeInv, PlacesOK
<1>5. WokenHeld'
  BY <1>1, <1>2, <1>3 DEF ResumeInv, WokenHeld, HookTypeOK
<1>6. WaitersHeld'
  <2> SUFFICES ASSUME NEW w \in Fd \X Event, waiter'[w] # Nobody
               PROVE  /\ pc[waiter'[w].c] = "held" /\ ~woken'[waiter'[w].c]
                      /\ call[waiter'[w].c].op \in IoOp
                      /\ w = <<call[waiter'[w].c].fd, EventOf(call[waiter'[w].c].op)>>
    BY DEF WaitersHeld
  <2>1. w # v /\ waiter'[w] = waiter[w]
    BY <1>1, <1>3 DEF HookTypeOK
  <2>2. /\ pc[waiter[w].c] = "held" /\ ~woken[waiter[w].c]
        /\ call[waiter[w].c].op \in IoOp
        /\ w = <<call[waiter[w].c].fd, EventOf(call[waiter[w].c].op)>>
    BY <2>1 DEF ResumeInv, WaitersHeld
  <2>3. waiter[w].c # d
    BY <1>2, <2>1, <2>2
  <2>4. woken'[waiter[w].c] = woken[waiter[w].c]
    BY <1>3, <2>1, <2>3, WaiterIsCaller DEF HookTypeOK
  <2> QED
    BY <2>1, <2>2, <2>4
<1>7. SleepersHeld'
  <2> SUFFICES ASSUME NEW t \in timers, t.ev = "WAKE"
               PROVE  /\ pc[t.owner] = "held" /\ ~woken'[t.owner]
                      /\ call[t.owner].op = "sleep" /\ t.st # "cancelling"
    BY DEF SleepersHeld
  <2>1. /\ pc[t.owner] = "held" /\ ~woken[t.owner]
        /\ call[t.owner].op = "sleep" /\ t.st # "cancelling"
    BY DEF ResumeInv, SleepersHeld
  <2>2. t.owner # d /\ t.owner \in Caller
    BY <1>2, <2>1 DEF IoOp, HookTypeOK, TimerInfo
  <2> QED
    BY <1>3, <2>1, <2>2 DEF HookTypeOK
<1>8. OneSleepTimer'
  BY DEF ResumeInv, OneSleepTimer
<1> QED
  BY <1>4, <1>5, <1>6, <1>7, <1>8 DEF ResumeInv

\* Every step keeps the waiters suspended and known once.
LEMMA ResumeStep ==
    ASSUME HookTypeOK, ResumeInv, [Next]_vars
    PROVE  ResumeInv'
<1>1. CASE UNCHANGED vars
  BY <1>1, ResumeStutter DEF vars, hookVars
<1>2. ASSUME NEW c \in Caller, Call(c) PROVE ResumeInv'
  <2>1. OthersKept(c) /\ pc[c] # "held"
    BY <1>2 DEF Call, OthersKept, Goto, Return, HookTypeOK, Start, Op, CallInfo
  <2>2. PlacesOK'
    BY <1>2, <2>1 DEF ResumeInv, PlacesOK, IoOp, Call, OthersKept, Goto, Return, HookTypeOK,
                      Start, Op, CallInfo
  <2> QED
    BY <1>2, <2>1, <2>2, ResumeFrame DEF Call
<1>3. ASSUME NEW c \in Caller, SocketOpen(c) PROVE ResumeInv'
  <2>1. OthersKept(c) /\ pc[c] # "held"
    BY <1>3, CreateShape DEF SocketOpen, OthersKept, Goto, Return, HookTypeOK
  <2>2. PlacesOK'
    BY <1>3, <2>1, CreateShape DEF ResumeInv, PlacesOK, IoOp, SocketOpen, OthersKept, Goto,
                                   Return, HookTypeOK
  <2> QED
    BY <1>3, <2>1, <2>2, ResumeFrame DEF SocketOpen
<1>4. ASSUME NEW c \in Caller, GetRead(c) PROVE ResumeInv'
  <2>1. OthersKept(c) /\ pc[c] # "held"
    BY <1>4 DEF GetRead, OthersKept, Goto, Return, HookTypeOK
  <2>2. PlacesOK'
    BY <1>4, <2>1 DEF ResumeInv, PlacesOK, IoOp, GetRead, OthersKept, Goto, Return, HookTypeOK
  <2> QED
    BY <1>4, <2>1, <2>2, ResumeFrame DEF GetRead
<1>5. ASSUME NEW c \in Caller, GetWrite(c) PROVE ResumeInv'
  <2>1. OthersKept(c) /\ pc[c] # "held"
    BY <1>5 DEF GetWrite, OthersKept, Goto, Return, HookTypeOK
  <2>2. PlacesOK'
    BY <1>5, <2>1 DEF ResumeInv, PlacesOK, IoOp, GetWrite, OthersKept, Goto, Return, HookTypeOK
  <2> QED
    BY <1>5, <2>1, <2>2, ResumeFrame DEF GetWrite
<1>6. ASSUME NEW c \in Caller, SetOption(c) PROVE ResumeInv'
  <2>1. OthersKept(c) /\ pc[c] # "held"
    BY <1>6 DEF SetOption, OthersKept, Goto, Return, HookTypeOK
  <2>2. PlacesOK'
    BY <1>6, <2>1 DEF ResumeInv, PlacesOK, IoOp, SetOption, OthersKept, Goto, Return, HookTypeOK
  <2> QED
    BY <1>6, <2>1, <2>2, ResumeFrame DEF SetOption
<1>7. ASSUME NEW c \in Caller, LookupCtx(c) PROVE ResumeInv'
  <2>1. OthersKept(c) /\ pc[c] # "held"
    BY <1>7, LookupShape DEF LookupCtx, OthersKept, Goto, Return, HookTypeOK
  <2>2. PlacesOK'
    BY <1>7, <2>1, LookupShape DEF ResumeInv, PlacesOK, IoOp, LookupCtx, OthersKept, Goto,
                                   Return, HookTypeOK
  <2> QED
    BY <1>7, <2>1, <2>2, ResumeFrame DEF LookupCtx
<1>8. ASSUME NEW c \in Caller, TryIO(c) PROVE ResumeInv'
  <2>1. OthersKept(c) /\ pc[c] # "held"
    BY <1>8, TryShape, CreateShape DEF TryIO, OthersKept, Goto, Return, HookTypeOK
  <2>2. PlacesOK'
    BY <1>8, <2>1, TryShape, CreateShape DEF ResumeInv, PlacesOK, IoOp, TryIO, OthersKept, Goto,
                                             Return, HookTypeOK
  <2> QED
    BY <1>8, <2>1, <2>2, ResumeFrame DEF TryIO
<1>9. ASSUME NEW c \in Caller, TryConnect(c) PROVE ResumeInv'
  <2>1. OthersKept(c) /\ pc[c] # "held"
    BY <1>9 DEF TryConnect, OthersKept, Goto, Return, HookTypeOK
  <2>2. PlacesOK'
    BY <1>9, <2>1 DEF ResumeInv, PlacesOK, IoOp, TryConnect, OthersKept, Goto, Return, HookTypeOK
  <2> QED
    BY <1>9, <2>1, <2>2, ResumeFrame DEF TryConnect
<1>10. ASSUME NEW c \in Caller, ArmTimer(c) PROVE ResumeInv'
  <2>1. OthersKept(c) /\ pc[c] = "arm" /\ UNCHANGED <<call, woken, waiter>>
    BY <1>10 DEF ArmTimer, OthersKept, Goto, HookTypeOK
  <2>2. PlacesOK'
    BY <1>10, <2>1 DEF ArmTimer, OthersKept, Goto, HookTypeOK, ResumeInv, PlacesOK, IoOp
  <2>3. CASE call[c].op # "sleep"
    <3>1. Timer(c).ev # "WAKE"
      BY <2>3 DEF Timer, EventOf
    <3> QED
      BY <1>10, <2>1, <2>2, <2>3, <3>1, ResumeFrame DEF ArmTimer
  <2>4. CASE call[c].op = "sleep"
    <3> DEFINE s == Timer(c)
    <3>1. /\ s.owner = c /\ s.st = "armed"
          /\ timers' = timers \cup {s} /\ pc'[c] = "held"
      BY <1>10, <2>4 DEF ArmTimer, Timer, Goto, HookTypeOK
    <3> HIDE DEF s
    <3>2. /\ ~woken[c]
          /\ \A t \in timers : t.ev = "WAKE" => t.owner # c
          /\ \A w \in Fd \X Event : waiter[w] # Nobody => waiter[w].c # c
      BY <2>1 DEF ResumeInv, WokenHeld, SleepersHeld, WaitersHeld
    <3>3. WokenHeld'
      BY <2>1, <3>2 DEF ResumeInv, WokenHeld, OthersKept
    <3>4. WaitersHeld'
      <4> SUFFICES ASSUME NEW w \in Fd \X Event, waiter[w] # Nobody
                   PROVE  /\ pc'[waiter[w].c] = "held" /\ ~woken[waiter[w].c]
                          /\ call[waiter[w].c].op \in IoOp
                          /\ w = <<call[waiter[w].c].fd, EventOf(call[waiter[w].c].op)>>
        BY <2>1 DEF WaitersHeld
      <4>1. waiter[w].c \in Caller \ {c}
        BY <3>2, WaiterIsCaller
      <4> QED
        BY <2>1, <4>1 DEF ResumeInv, WaitersHeld, OthersKept
    <3>5. SleepersHeld'
      BY <2>1, <2>4, <3>1, <3>2
         DEF ResumeInv, SleepersHeld, OthersKept, HookTypeOK, TimerInfo
    <3>6. OneSleepTimer'
      BY <3>1, <3>2 DEF ResumeInv, OneSleepTimer
    <3> QED
      BY <2>2, <3>3, <3>4, <3>5, <3>6 DEF ResumeInv
  <2> QED
    BY <2>3, <2>4
<1>11. ASSUME NEW c \in Caller, AddEvent(c) PROVE ResumeInv'
  <2> DEFINE v == <<call[c].fd, EventOf(call[c].op)>>
             me == [c |-> c, open |-> opened[call[c].fd]]
  <2>1. /\ v \in Fd \X Event /\ call[c].op \in IoOp /\ pc[c] = "add"
        /\ OthersKept(c) /\ UNCHANGED <<call, woken>>
    BY <1>11 DEF AddEvent, OthersKept, Goto, Return, HookTypeOK, CallInfo, EventOf, Event,
                  ResumeInv, PlacesOK
  <2>2. PlacesOK'
    BY <1>11, <2>1 DEF AddEvent, OthersKept, Goto, Return, HookTypeOK, ResumeInv, PlacesOK, IoOp
  <2>3. CASE UNCHANGED waiter
    BY <1>11, <2>1, <2>2, <2>3, ResumeFrame DEF AddEvent
  <2>4. CASE waiter' # waiter
    <3>1. /\ waiter' = [waiter EXCEPT ![v] = me]
          /\ pc' = [pc EXCEPT ![c] = "held"] /\ UNCHANGED timers
      BY <1>11, <2>4 DEF AddEvent, Goto
    <3> HIDE DEF v
    <3>2. ~woken[c]
      BY <2>1 DEF ResumeInv, WokenHeld
    <3>3. WokenHeld'
      BY <2>1, <3>1, <3>2 DEF ResumeInv, WokenHeld, OthersKept
    <3>4. WaitersHeld'
      <4> SUFFICES ASSUME NEW w \in Fd \X Event, waiter'[w] # Nobody
                   PROVE  /\ pc'[waiter'[w].c] = "held" /\ ~woken[waiter'[w].c]
                          /\ call[waiter'[w].c].op \in IoOp
                          /\ w = <<call[waiter'[w].c].fd, EventOf(call[waiter'[w].c].op)>>
        BY <2>1 DEF WaitersHeld
      <4>1. CASE w = v
        <5>1. waiter'[w].c = c
          BY <2>1, <3>1, <4>1 DEF HookTypeOK
        <5> QED
          BY <2>1, <3>1, <3>2, <4>1, <5>1 DEF HookTypeOK, v
      <4>2. CASE w # v
        <5>1. waiter'[w] = waiter[w]
          BY <3>1, <4>2 DEF HookTypeOK
        <5>2. /\ pc[waiter[w].c] = "held" /\ ~woken[waiter[w].c]
              /\ call[waiter[w].c].op \in IoOp
              /\ w = <<call[waiter[w].c].fd, EventOf(call[waiter[w].c].op)>>
          BY <5>1 DEF ResumeInv, WaitersHeld
        <5>3. waiter[w].c \in Caller \ {c}
          BY <2>1, <5>1, <5>2, WaiterIsCaller
        <5> QED
          BY <2>1, <5>1, <5>2, <5>3 DEF OthersKept
      <4> QED
        BY <4>1, <4>2
    <3>5. SleepersHeld'
      BY <2>1, <3>1 DEF ResumeInv, SleepersHeld, OthersKept, HookTypeOK, TimerInfo
    <3>6. OneSleepTimer'
      BY <3>1 DEF ResumeInv, OneSleepTimer
    <3> QED
      BY <2>2, <3>3, <3>4, <3>5, <3>6 DEF ResumeInv
  <2> QED
    BY <2>3, <2>4
<1>12. ASSUME NEW c \in Caller, Resume(c) PROVE ResumeInv'
  <2>1. /\ OthersKept(c) /\ pc[c] = "held" /\ woken[c] /\ UNCHANGED <<call, waiter>>
        /\ woken' = [woken EXCEPT ![c] = FALSE] /\ timers' \subseteq timers
    BY <1>12 DEF Resume, OthersKept, Goto, Return, HookTypeOK
  <2>2. PlacesOK'
    BY <1>12, <2>1 DEF Resume, OthersKept, Goto, Return, HookTypeOK, ResumeInv, PlacesOK, IoOp
  <2>3. WokenHeld'
    BY <2>1 DEF ResumeInv, WokenHeld, OthersKept, HookTypeOK
  <2>4. WaitersHeld'
    <3> SUFFICES ASSUME NEW w \in Fd \X Event, waiter[w] # Nobody
                 PROVE  /\ pc'[waiter[w].c] = "held" /\ ~woken'[waiter[w].c]
                        /\ call[waiter[w].c].op \in IoOp
                        /\ w = <<call[waiter[w].c].fd, EventOf(call[waiter[w].c].op)>>
      BY <2>1 DEF WaitersHeld
    <3>1. waiter[w].c \in Caller \ {c}
      BY <2>1, WaiterIsCaller DEF ResumeInv, WaitersHeld
    <3> QED
      BY <2>1, <3>1 DEF ResumeInv, WaitersHeld, OthersKept, HookTypeOK
  <2>5. SleepersHeld'
    BY <2>1 DEF ResumeInv, SleepersHeld, OthersKept, HookTypeOK, TimerInfo
  <2>6. OneSleepTimer'
    BY <2>1 DEF ResumeInv, OneSleepTimer
  <2> QED
    BY <2>2, <2>3, <2>4, <2>5, <2>6 DEF ResumeInv
<1>13. ASSUME NEW c \in Caller, CheckCanceled(c) PROVE ResumeInv'
  <2>1. OthersKept(c) /\ pc[c] # "held"
    BY <1>13 DEF CheckCanceled, OthersKept, Goto, Return, HookTypeOK
  <2>2. PlacesOK'
    BY <1>13, <2>1 DEF ResumeInv, PlacesOK, IoOp, CheckCanceled, OthersKept, Goto, Return,
                       HookTypeOK
  <2> QED
    BY <1>13, <2>1, <2>2, ResumeFrame DEF CheckCanceled
<1>14. ASSUME NEW c \in Caller, ConnectResult(c) PROVE ResumeInv'
  <2>1. OthersKept(c) /\ pc[c] # "held"
    BY <1>14 DEF ConnectResult, OthersKept, Goto, Return, HookTypeOK
  <2>2. PlacesOK'
    BY <1>14, <2>1 DEF ResumeInv, PlacesOK, IoOp, ConnectResult, OthersKept, Goto, Return,
                       HookTypeOK
  <2> QED
    BY <1>14, <2>1, <2>2, ResumeFrame DEF ConnectResult
<1>15. ASSUME NEW c \in Caller, CloseWake(c) PROVE ResumeInv'
  <2>1. OthersKept(c) /\ pc[c] = "cancelAll" /\ UNCHANGED <<call, timers>>
    BY <1>15 DEF CloseWake, OthersKept, Goto, HookTypeOK
  <2>2. PlacesOK'
    BY <1>15, <2>1 DEF CloseWake, CloseNext, OthersKept, Goto, HookTypeOK, ResumeInv, PlacesOK,
                        IoOp
  <2>3. CASE UNCHANGED <<woken, waiter>>
    BY <2>1, <2>2, <2>3, ResumeFrame
  <2>4. CASE cancelAll(call[c].fd)
    <3> DEFINE fd == call[c].fd
               live == {ev \in Event : Registered(fd, ev)}
    <3>1. /\ woken' = [d \in Caller |-> woken[d] \/ \E ev \in live : waiter[<<fd, ev>>].c = d]
          /\ waiter' = [w \in Fd \X Event |->
                          IF w[1] = fd /\ w[2] \in live THEN Nobody ELSE waiter[w]]
          /\ fd \in Fd
      BY <2>4 DEF cancelAll, HookTypeOK, CallInfo
    <3>2. /\ \A ev \in live : <<fd, ev>> \in Fd \X Event /\ waiter[<<fd, ev>>] # Nobody
          /\ live \subseteq Event
      BY <3>1 DEF Registered
    <3> HIDE DEF live, fd
    <3>3. WokenHeld'
      <4> SUFFICES ASSUME NEW d \in Caller, woken'[d] PROVE pc'[d] = "held"
        BY DEF WokenHeld
      <4>1. woken[d] \/ \E ev \in live : waiter[<<fd, ev>>].c = d
        BY <3>1
      <4>2. CASE woken[d]
        BY <2>1, <4>2 DEF ResumeInv, WokenHeld, OthersKept
      <4>3. CASE \E ev \in live : waiter[<<fd, ev>>].c = d
        <5> PICK ev \in live : waiter[<<fd, ev>>].c = d
          BY <4>3
        <5>1. pc[waiter[<<fd, ev>>].c] = "held"
          BY <3>2 DEF ResumeInv, WaitersHeld
        <5> QED
          BY <2>1, <5>1 DEF OthersKept
      <4> QED
        BY <4>1, <4>2, <4>3
    <3>4. WaitersHeld'
      <4> SUFFICES ASSUME NEW w \in Fd \X Event, waiter'[w] # Nobody
                   PROVE  /\ pc'[waiter'[w].c] = "held" /\ ~woken'[waiter'[w].c]
                          /\ call[waiter'[w].c].op \in IoOp
                          /\ w = <<call[waiter'[w].c].fd, EventOf(call[waiter'[w].c].op)>>
        BY <2>1 DEF WaitersHeld
      <4>1. waiter'[w] = waiter[w] /\ ~(w[1] = fd /\ w[2] \in live)
        BY <3>1
      <4>2. /\ pc[waiter[w].c] = "held" /\ ~woken[waiter[w].c]
            /\ call[waiter[w].c].op \in IoOp
            /\ w = <<call[waiter[w].c].fd, EventOf(call[waiter[w].c].op)>>
        BY <4>1 DEF ResumeInv, WaitersHeld
      <4>3. waiter[w].c \in Caller \ {c}
        BY <2>1, <4>1, <4>2, WaiterIsCaller
      <4>4. ASSUME NEW ev \in live, waiter[<<fd, ev>>].c = waiter[w].c PROVE FALSE
        <5>1. <<fd, ev>> = <<call[waiter[w].c].fd, EventOf(call[waiter[w].c].op)>>
          BY <3>2, <4>4 DEF ResumeInv, WaitersHeld
        <5>2. w[1] = fd /\ w[2] = ev
          BY <4>2, <5>1
        <5> QED
          BY <4>1, <5>2
      <4>5. ~woken'[waiter[w].c]
        BY <3>1, <4>2, <4>3, <4>4
      <4> QED
        BY <2>1, <4>1, <4>2, <4>3, <4>5 DEF OthersKept
    <3>5. SleepersHeld'
      <4> SUFFICES ASSUME NEW t \in timers, t.ev = "WAKE"
                   PROVE  /\ pc'[t.owner] = "held" /\ ~woken'[t.owner]
                          /\ call[t.owner].op = "sleep" /\ t.st # "cancelling"
        BY <2>1 DEF SleepersHeld
      <4>1. /\ pc[t.owner] = "held" /\ ~woken[t.owner]
            /\ call[t.owner].op = "sleep" /\ t.st # "cancelling"
        BY DEF ResumeInv, SleepersHeld
      <4>2. t.owner \in Caller \ {c}
        BY <2>1, <4>1 DEF HookTypeOK, TimerInfo
      <4>3. \A ev \in live : waiter[<<fd, ev>>].c # t.owner
        BY <3>2, <4>1 DEF ResumeInv, WaitersHeld, IoOp
      <4> QED
        BY <2>1, <3>1, <4>1, <4>2, <4>3 DEF OthersKept
    <3>6. OneSleepTimer'
      BY <2>1 DEF ResumeInv, OneSleepTimer
    <3> QED
      BY <2>2, <3>3, <3>4, <3>5, <3>6 DEF ResumeInv
  <2> QED
    BY <1>15, <2>3, <2>4 DEF CloseWake
<1>16. ASSUME NEW c \in Caller, CloseDel(c) PROVE ResumeInv'
  <2>1. OthersKept(c) /\ pc[c] # "held"
    BY <1>16 DEF CloseDel, OthersKept, Goto, Return, HookTypeOK, CloseNext
  <2>2. PlacesOK'
    BY <1>16, <2>1 DEF ResumeInv, PlacesOK, IoOp, CloseDel, OthersKept, Goto, Return,
                       HookTypeOK, CloseNext
  <2> QED
    BY <1>16, <2>1, <2>2, ResumeFrame DEF CloseDel
<1>17. ASSUME NEW c \in Caller, CloseFd(c) PROVE ResumeInv'
  <2>1. OthersKept(c) /\ pc[c] # "held"
    BY <1>17 DEF CloseFd, OthersKept, Goto, Return, HookTypeOK
  <2>2. PlacesOK'
    BY <1>17, <2>1 DEF ResumeInv, PlacesOK, IoOp, CloseFd, OthersKept, Goto, Return, HookTypeOK
  <2> QED
    BY <1>17, <2>1, <2>2, ResumeFrame DEF CloseFd
<1>18. ASSUME NEW c \in Caller, Expire(c) PROVE ResumeInv'
  <2> PICK t \in timers :
         /\ t.owner = c /\ t.st = "armed"
         /\ timers' = (timers \ {t}) \cup {[t EXCEPT !.st = "queued"]}
    BY <1>18 DEF Expire
  <2> DEFINE u == [t EXCEPT !.st = "queued"]
  <2>1. u.owner = t.owner /\ u.ev = t.ev /\ u.st = "queued"
    BY DEF HookTypeOK, TimerInfo
  <2>2. timers' = (timers \ {t}) \cup {u}
    OBVIOUS
  <2> HIDE DEF u
  <2>3. UNCHANGED <<pc, call, woken, waiter>>
    BY <1>18 DEF Expire
  <2>4. SleepersHeld' /\ OneSleepTimer'
    BY <2>1, <2>2, <2>3 DEF ResumeInv, SleepersHeld, OneSleepTimer
  <2> QED
    BY <2>3, <2>4 DEF ResumeInv, PlacesOK, WaitersHeld, WokenHeld
<1>19. ASSUME NEW c \in Caller, RunCallback(c) PROVE ResumeInv'
  <2> PICK t \in timers :
         /\ t.owner = c /\ t.st = "queued"
         /\ \/ /\ t.ev = "WAKE" /\ woken' = [woken EXCEPT ![c] = TRUE]
               /\ timers' = timers \ {t}
            \/ /\ t.ev # "WAKE" /\ UNCHANGED woken
               /\ \/ timers' = (timers \ {t}) \cup {[t EXCEPT !.st = "cancelling"]}
                  \/ timers' = timers \ {t}
    BY <1>19 DEF RunCallback
  <2>1. UNCHANGED <<pc, call, waiter>>
    BY <1>19 DEF RunCallback
  <2>2. CASE t.ev # "WAKE"
    <3>1. [t EXCEPT !.st = "cancelling"].ev # "WAKE"
      BY <2>2 DEF HookTypeOK, TimerInfo
    <3> QED
      BY <2>1, <2>2, <3>1, ResumeStutter
  <2>3. CASE t.ev = "WAKE"
    <3>1. woken' = [woken EXCEPT ![c] = TRUE] /\ timers' = timers \ {t}
      BY <2>3
    <3>2. pc[c] = "held" /\ call[c].op = "sleep" /\ ~woken[c]
      BY <2>3 DEF ResumeInv, SleepersHeld
    <3>3. \A u \in timers' : u.ev = "WAKE" => u.owner # c
      BY <2>3, <3>1 DEF ResumeInv, OneSleepTimer
    <3>4. SleepersHeld' /\ OneSleepTimer'
      BY <2>1, <3>1, <3>3 DEF ResumeInv, SleepersHeld, OneSleepTimer, HookTypeOK, TimerInfo
    <3>5. WokenHeld'
      BY <2>1, <3>1, <3>2 DEF ResumeInv, WokenHeld, HookTypeOK
    <3>6. WaitersHeld'
      <4> SUFFICES ASSUME NEW w \in Fd \X Event, waiter[w] # Nobody
                   PROVE  /\ pc[waiter[w].c] = "held" /\ ~woken'[waiter[w].c]
                          /\ call[waiter[w].c].op \in IoOp
                          /\ w = <<call[waiter[w].c].fd, EventOf(call[waiter[w].c].op)>>
        BY <2>1 DEF WaitersHeld
      <4>1. waiter[w].c \in Caller \ {c}
        BY <3>2, WaiterIsCaller DEF ResumeInv, WaitersHeld, IoOp
      <4> QED
        BY <3>1, <4>1 DEF ResumeInv, WaitersHeld, HookTypeOK
    <3> QED
      BY <2>1, <3>4, <3>5, <3>6 DEF ResumeInv, PlacesOK
  <2> QED
    BY <2>2, <2>3
<1>20. ASSUME NEW c \in Caller, CancelWait(c) PROVE ResumeInv'
  <2> PICK t \in timers : /\ t.st = "cancelling" /\ cancelEvent(t.fd, t.ev)
                          /\ timers' = timers \ {t}
    BY <1>20 DEF CancelWait
  <2>1. UNCHANGED <<pc, call>> /\ t.fd \in Fd /\ t.ev \in Event
    BY <1>20 DEF CancelWait, HookTypeOK, TimerInfo, ResumeInv, SleepersHeld
  <2>2. CASE ~Registered(t.fd, t.ev)
    BY <2>1, <2>2, ResumeStutter DEF cancelEvent
  <2>3. CASE Registered(t.fd, t.ev)
    <3>1. triggerEvent(t.fd, t.ev) /\ waiter[<<t.fd, t.ev>>] # Nobody
      BY <2>3 DEF cancelEvent, Registered
    <3> QED
      BY <2>1, <3>1, TriggerKeeps
  <2> QED
    BY <2>2, <2>3
<1>21. ASSUME NEW fd \in Fd, NEW ev \in Event, Report(fd, ev) PROVE ResumeInv'
  BY <1>21, TriggerKeeps DEF Report, Registered
<1>22. ASSUME NEW fd \in Fd, Arrive(fd) PROVE ResumeInv'
  BY <1>22, ResumeStutter DEF Arrive
<1>23. ASSUME NEW fd \in Fd, Answer(fd) PROVE ResumeInv'
  BY <1>23, ResumeStutter DEF Answer
<1> QED
  BY <1>1, <1>2, <1>3, <1>4, <1>5, <1>6, <1>7, <1>8, <1>9, <1>10, <1>11, <1>12, <1>13, <1>14,
     <1>15, <1>16, <1>17, <1>18, <1>19, <1>20, <1>21, <1>22, <1>23 DEF Next, Proceed

-----------------------------------------------------------------------------
(* Contexts are those of the openings *)

\* Steps that leave the table and the descriptors alone, by a caller that
\* neither makes nor closes one.
LEMMA CtxFrame ==
    ASSUME HookTypeOK, CtxInv, NEW c \in Caller, OthersKept(c),
           ~Changing(c), ~Changing(c)', UNCHANGED <<m_fds, size, opened>>
    PROVE  CtxInv'
<1>1. \A d \in Caller \ {c} : /\ Changing(d)' <=> Changing(d)
                              /\ Making(d)' <=> Making(d)
                              /\ pc'[d] = pc[d] /\ call'[d] = call[d]
  BY DEF OthersKept, Changing, Making, Closing
<1>2. ChangedByOne'
  BY <1>1 DEF CtxInv, ChangedByOne
<1>3. ChangedIsOpen'
  BY <1>1 DEF CtxInv, ChangedIsOpen
<1>4. CtxInTable'
  BY DEF CtxInv, CtxInTable
<1>5. Settled'
  BY <1>1 DEF CtxInv, Settled, Changing, Making, Closing
<1> QED
  BY <1>2, <1>3, <1>4, <1>5 DEF CtxInv

\* Steps that move no caller.
LEMMA CtxStutter ==
    ASSUME CtxInv, UNCHANGED <<m_fds, size, opened, pc, call>>
    PROVE  CtxInv'
BY DEF CtxInv, ChangedByOne, ChangedIsOpen, CtxInTable, Settled, Changing, Making, Closing

\* A descriptor without a caller that makes or closes it has a context exactly
\* when it is open.
LEMMA CtxOfSettled ==
    ASSUME HookTypeOK, CtxInv, NEW fd \in Fd,
           \A d \in Caller : Changing(d) => call[d].fd # fd
    PROVE  opened[fd] = 0 <=> m_fds[fd] = NoCtx
<1>1. m_fds[fd].born = opened[fd]
  BY DEF CtxInv, Settled, Changing, Making, Closing
<1>2. m_fds[fd] # NoCtx => m_fds[fd].born # 0
  BY DEF CtxInv, CtxInTable
<1>3. NoCtx.born = 0
  BY DEF NoCtx
<1> QED
  BY <1>1, <1>2, <1>3

\* The context get() finds is the one in the table.
LEMMA GetIsTable ==
    ASSUME HookTypeOK, CtxInv, NEW fd \in Fd
    PROVE  Get(fd) = m_fds[fd]
<1>1. CASE fd < size
  BY <1>1 DEF Get
<1>2. CASE ~(fd < size)
  BY <1>2 DEF Get, CtxInv, CtxInTable
<1> QED
  BY <1>1, <1>2

\* socket() or accept() makes a descriptor whose old context has gone.
LEMMA CtxCreate ==
    ASSUME HookTypeOK, CtxInv, NEW c \in Caller, NEW state, Create(c, state),
           ~Changing(c), UNCHANGED <<m_fds, size>>
    PROVE  CtxInv'
<1>1. CASE pc'[c] = "idle"
  <2>1. OthersKept(c) /\ UNCHANGED opened
    BY <1>1, CreateShape
  <2>2. ~Changing(c)'
    BY <1>1 DEF Changing, Making, Closing
  <2> QED
    BY <2>1, <2>2, CtxFrame
<1>2. CASE pc'[c] # "idle"
  <2>1. PICK fd \in Fd : /\ opened[fd] = 0
                         /\ call'[c].fd = fd /\ call'[c].open = openings + 1
                         /\ opened' = [opened EXCEPT ![fd] = openings + 1]
    BY <1>2, CreateShape
  <2>2. pc'[c] = "get" /\ OthersKept(c)
    BY <1>2, CreateShape
  <2>3. \A d \in Caller : Changing(d) => call[d].fd # fd
    BY <2>1 DEF CtxInv, ChangedIsOpen
  <2>4. m_fds[fd] = NoCtx
    BY <2>1, <2>3, CtxOfSettled
  <2>5. /\ Making(c)' /\ Changing(c)'
        /\ \A d \in Caller \ {c} : /\ Changing(d)' <=> Changing(d)
                                   /\ Making(d)' <=> Making(d)
                                   /\ pc'[d] = pc[d] /\ call'[d] = call[d]
    BY <2>2 DEF OthersKept, Changing, Making, Closing
  <2>6. ChangedByOne'
    BY <2>1, <2>3, <2>5 DEF CtxInv, ChangedByOne
  <2>7. opened'[fd] # 0 /\ opened'[fd] = openings + 1
        /\ \A other \in Fd \ {fd} : opened'[other] = opened[other]
    BY <2>1 DEF HookTypeOK, FdTypeOK
  <2>8. ChangedIsOpen'
    <3> SUFFICES ASSUME NEW d \in Caller, Changing(d)'
                 PROVE  /\ opened'[call'[d].fd] # 0 /\ call'[d].open = opened'[call'[d].fd]
                        /\ pc'[d] # "cancelAll" /\ pc'[d] # "del" => m_fds'[call'[d].fd] = NoCtx
      BY DEF ChangedIsOpen
    <3>1. CASE d = c
      BY <2>1, <2>2, <2>4, <2>7, <3>1
    <3>2. CASE d # c
      <4>1. call[d].fd \in Fd \ {fd} /\ Changing(d)
        BY <2>3, <2>5, <3>2 DEF HookTypeOK, CallInfo
      <4> QED
        BY <2>5, <2>7, <3>2, <4>1 DEF CtxInv, ChangedIsOpen
    <3> QED
      BY <3>1, <3>2
  <2>9. CtxInTable'
    BY DEF CtxInv, CtxInTable
  <2>10. Settled'
    <3> SUFFICES ASSUME NEW f \in Fd
                 PROVE  \/ m_fds'[f].born = opened'[f]
                        \/ \E d \in Caller : call'[d].fd = f /\ (Making(d)' \/ pc'[d] = "closing")
      BY DEF Settled
    <3>1. CASE f = fd
      BY <2>1, <2>5, <3>1
    <3>2. CASE f # fd
      BY <2>5, <2>7, <3>2 DEF CtxInv, Settled, Changing, Making, Closing
    <3> QED
      BY <3>1, <3>2
  <2> QED
    BY <2>6, <2>8, <2>9, <2>10 DEF CtxInv
<1> QED
  BY <1>1, <1>2

\* Every step keeps the table in order.
LEMMA CtxStep ==
    ASSUME HookTypeOK, ResumeInv, CtxInv, [Next]_vars
    PROVE  CtxInv'
<1>1. CASE UNCHANGED vars
  BY <1>1, CtxStutter DEF vars, hookVars, fdVars
<1>2. ASSUME NEW c \in Caller, Call(c) PROVE CtxInv'
  <2> PICK op \in Op, fd \in Fd :
         /\ pc[c] = "idle" /\ MayCall(c, op, fd)
         /\ call' = [call EXCEPT ![c] = [op |-> op, fd |-> fd, open |-> opened[fd],
                                         timed |-> FALSE, n |-> @.n + 1]]
         /\ pc' = [pc EXCEPT ![c] = Start(op)]
    BY <1>2 DEF Call, Goto
  <2>1. /\ OthersKept(c) /\ ~Changing(c)
        /\ call'[c].fd = fd /\ call'[c].open = opened[fd] /\ pc'[c] = Start(op)
    BY DEF OthersKept, HookTypeOK, Changing, Making, Closing
  <2>2. \A d \in Caller \ {c} : /\ Changing(d)' <=> Changing(d)
                                /\ Making(d)' <=> Making(d)
                                /\ pc'[d] = pc[d] /\ call'[d] = call[d]
    BY <2>1 DEF OthersKept, Changing, Making, Closing
  <2>3. UNCHANGED <<m_fds, size, opened>>
    BY <1>2 DEF Call, fdVars
  <2>4. CASE op # "close"
    <3>1. ~Changing(c)'
      BY <2>1, <2>4 DEF Start, Changing, Making, Closing
    <3> QED
      BY <2>1, <2>3, <3>1, CtxFrame
  <2>5. CASE op = "close"
    <3>1. pc'[c] = "cancelAll" /\ Changing(c)' /\ ~Making(c)'
      BY <2>1, <2>5 DEF Start, Changing, Making, Closing
    <3>2. /\ opened[fd] # 0 /\ Get(fd) # NoCtx
          /\ ~InUse(c, fd) \/ ~BeingClosed(c, fd)
      BY <2>5 DEF MayCall
    <3>3. ASSUME NEW d \in Caller \ {c}, Changing(d), call[d].fd = fd PROVE FALSE
      <4>1. CASE Making(d)
        <5>1. m_fds[fd] = NoCtx
          BY <3>3, <4>1 DEF CtxInv, ChangedIsOpen, Making
        <5> QED
          BY <3>2, <5>1, GetIsTable
      <4>2. CASE Closing(d)
        <5>1. call[d].open = opened[fd] /\ call[d].op = "close" /\ Using(d)
          BY <3>3, <4>2 DEF CtxInv, ChangedIsOpen, ResumeInv, PlacesOK, Closing, Using
        <5>2. d \in Users(c, fd)
          BY <3>3, <5>1 DEF Users
        <5> QED
          BY <3>2, <5>1, <5>2 DEF InUse, BeingClosed
      <4> QED
        BY <3>3, <4>1, <4>2 DEF Changing
    <3>4. ChangedByOne'
      BY <2>1, <2>2, <3>3 DEF CtxInv, ChangedByOne
    <3>5. ChangedIsOpen'
      BY <2>1, <2>2, <2>3, <3>1, <3>2 DEF CtxInv, ChangedIsOpen
    <3>6. CtxInTable'
      BY <2>3 DEF CtxInv, CtxInTable
    <3>7. Settled'
      BY <2>1, <2>2, <2>3 DEF CtxInv, Settled, Changing, Making, Closing
    <3> QED
      BY <3>4, <3>5, <3>6, <3>7 DEF CtxInv
  <2> QED
    BY <2>4, <2>5
<1>3. ASSUME NEW c \in Caller, SocketOpen(c) PROVE CtxInv'
  <2>1. ~Changing(c)
    BY <1>3 DEF SocketOpen, Changing, Making, Closing
  <2> QED
    BY <1>3, <2>1, CtxCreate DEF SocketOpen
<1>4. ASSUME NEW c \in Caller, GetRead(c) PROVE CtxInv'
  <2>1. /\ OthersKept(c) /\ Making(c) /\ pc[c] = "get" /\ call[c].fd \in Fd
        /\ UNCHANGED <<m_fds, size, opened, call>>
    BY <1>4 DEF GetRead, OthersKept, Goto, Return, HookTypeOK, CallInfo, Making, fdVars
  <2>2. \A d \in Caller \ {c} : /\ Changing(d)' <=> Changing(d)
                                /\ Making(d)' <=> Making(d)
                                /\ pc'[d] = pc[d] /\ call'[d] = call[d]
    BY <2>1 DEF OthersKept, Changing, Making, Closing
  <2>3. Get(call[c].fd) = NoCtx
    BY <2>1, GetIsTable DEF CtxInv, ChangedIsOpen, Changing, Making
  <2>4. Making(c)' /\ pc'[c] = "create"
    BY <1>4, <2>3 DEF GetRead, Goto, Making, HookTypeOK
  <2>5. ChangedByOne' /\ ChangedIsOpen'
    BY <2>1, <2>2, <2>4 DEF CtxInv, ChangedByOne, ChangedIsOpen, Changing
  <2>6. CtxInTable' /\ Settled'
    BY <2>1, <2>2, <2>4 DEF CtxInv, CtxInTable, Settled
  <2> QED
    BY <2>5, <2>6 DEF CtxInv
<1>5. ASSUME NEW c \in Caller, GetWrite(c) PROVE CtxInv'
  <2> DEFINE f == call[c].fd
  <2>1. /\ OthersKept(c) /\ Changing(c) /\ f \in Fd /\ f \in Nat /\ pc'[c] = "idle"
        /\ UNCHANGED <<opened, call>>
        /\ m_fds' = [m_fds EXCEPT ![f] = NewCtx(f)]
        /\ size' = IF f >= size THEN Grown(f) ELSE size
    BY <1>5, FdAssumption
       DEF GetWrite, GetCreate, OthersKept, Goto, Return, HookTypeOK, CallInfo, Making, Changing
  <2>2. \A d \in Caller \ {c} : /\ Changing(d)' <=> Changing(d)
                                /\ Making(d)' <=> Making(d)
                                /\ pc'[d] = pc[d] /\ call'[d] = call[d]
    BY <2>1 DEF OthersKept, Changing, Making, Closing
  <2>3. ~Changing(c)' /\ ~Making(c)'
    BY <2>1 DEF Changing, Making, Closing
  <2>4. /\ opened[f] # 0 /\ NewCtx(f).born = opened[f]
        /\ \A d \in Caller \ {c} : Changing(d) => call[d].fd # f
    BY <2>1 DEF CtxInv, ChangedIsOpen, ChangedByOne, NewCtx
  <2>5. f < size' /\ \A fd \in Fd : fd < size => fd < size'
    <3>1. CASE f >= size
      <4>1. Grown(f) \in Nat /\ Grown(f) > f
        BY <2>1, <3>1, GrownHolds DEF HookTypeOK, FdTypeOK
      <4> QED
        BY <2>1, <3>1, <4>1, FdAssumption DEF HookTypeOK, FdTypeOK
    <3>2. CASE ~(f >= size)
      BY <2>1, <3>2 DEF HookTypeOK, FdTypeOK
    <3> QED
      BY <3>1, <3>2
  <2>6. m_fds'[f] = NewCtx(f) /\ \A fd \in Fd \ {f} : m_fds'[fd] = m_fds[fd]
    BY <2>1 DEF HookTypeOK, FdTypeOK
  <2> HIDE DEF f
  <2>7. ChangedByOne'
    BY <2>2, <2>3 DEF CtxInv, ChangedByOne
  <2>8. ChangedIsOpen'
    <3> SUFFICES ASSUME NEW d \in Caller \ {c}, Changing(d)
                 PROVE  /\ opened[call[d].fd] # 0 /\ call[d].open = opened[call[d].fd]
                        /\ pc[d] # "cancelAll" /\ pc[d] # "del" => m_fds'[call[d].fd] = NoCtx
      BY <2>1, <2>2, <2>3 DEF ChangedIsOpen
    <3>1. call[d].fd \in Fd \ {f}
      BY <2>4 DEF HookTypeOK, CallInfo
    <3> QED
      BY <2>6, <3>1 DEF CtxInv, ChangedIsOpen
  <2>9. CtxInTable'
    BY <2>4, <2>5, <2>6 DEF CtxInv, CtxInTable
  <2>10. Settled'
    <3> SUFFICES ASSUME NEW fd \in Fd
                 PROVE  \/ m_fds'[fd].born = opened[fd]
                        \/ \E d \in Caller : call[d].fd = fd /\ (Making(d)' \/ pc'[d] = "closing")
      BY <2>1 DEF Settled
    <3>1. CASE fd = f
      BY <2>4, <2>6, <3>1
    <3>2. CASE fd # f
      <4>1. \/ m_fds[fd].born = opened[fd]
            \/ \E d \in Caller : call[d].fd = fd /\ (Making(d) \/ pc[d] = "closing")
        BY DEF CtxInv, Settled
      <4> QED
        BY <2>2, <2>6, <3>2, <4>1 DEF f
    <3> QED
      BY <3>1, <3>2
  <2> QED
    BY <2>7, <2>8, <2>9, <2>10 DEF CtxInv
<1>6. ASSUME NEW c \in Caller, SetOption(c) PROVE CtxInv'
  <2> DEFINE f == call[c].fd
  <2>1. /\ OthersKept(c) /\ ~Changing(c) /\ ~Changing(c)' /\ f \in Fd
        /\ UNCHANGED <<size, opened, call>>
    BY <1>6 DEF SetOption, OthersKept, Goto, Return, HookTypeOK, CallInfo, Making, Closing,
                  Changing
  <2>2. \A d \in Caller \ {c} : /\ Changing(d)' <=> Changing(d)
                                /\ Making(d)' <=> Making(d)
                                /\ pc'[d] = pc[d] /\ call'[d] = call[d]
    BY <2>1 DEF OthersKept, Changing, Making, Closing
  <2>3. CASE m_fds[f] = NoCtx
    <3>1. UNCHANGED m_fds
      BY <1>6, <2>1, <2>3, GetIsTable DEF SetOption
    <3> QED
      BY <2>1, <3>1, CtxFrame
  <2>4. CASE m_fds[f] # NoCtx
    <3>1. m_fds[f] \in FdCtx
      BY <2>1, <2>4 DEF HookTypeOK, FdTypeOK
    <3>2. \/ m_fds' = [m_fds EXCEPT ![f] = [m_fds[f] EXCEPT !.timeout["READ"] = TRUE]]
          \/ m_fds' = [m_fds EXCEPT ![f] = [m_fds[f] EXCEPT !.userNonblock = TRUE]]
      BY <1>6, <2>1, <2>4, <3>1, GetIsTable
         DEF SetOption, SetTimeout, SetUserNonblock, FdCtx
    <3>3. /\ m_fds'[f].born = m_fds[f].born /\ m_fds'[f] \in FdCtx
          /\ \A fd \in Fd \ {f} : m_fds'[fd] = m_fds[fd]
      <4> DEFINE timed == [m_fds[f] EXCEPT !.timeout["READ"] = TRUE]
                 plain == [m_fds[f] EXCEPT !.userNonblock = TRUE]
      <4>1. /\ timed \in FdCtx /\ timed.born = m_fds[f].born
            /\ plain \in FdCtx /\ plain.born = m_fds[f].born
        BY <3>1, CtxChanged
      <4> HIDE DEF timed, plain
      <4>2. m_fds' = [m_fds EXCEPT ![f] = timed] \/ m_fds' = [m_fds EXCEPT ![f] = plain]
        BY <3>2 DEF timed, plain
      <4> QED
        BY <2>1, <4>1, <4>2 DEF HookTypeOK, FdTypeOK
    <3>4. \A fd \in Fd : /\ m_fds'[fd].born = m_fds[fd].born
                         /\ m_fds'[fd] = NoCtx <=> m_fds[fd] = NoCtx
      BY <2>4, <3>3, CtxIsThere
    <3> HIDE DEF f
    <3>5. ChangedByOne'
      BY <2>1, <2>2 DEF CtxInv, ChangedByOne
    <3>6. ChangedIsOpen'
      BY <2>1, <2>2, <3>4 DEF CtxInv, ChangedIsOpen, HookTypeOK, CallInfo
    <3>7. CtxInTable'
      BY <2>1, <3>4 DEF CtxInv, CtxInTable
    <3>8. Settled'
      BY <2>1, <2>2, <3>4 DEF CtxInv, Settled, Changing, Making, Closing
    <3> QED
      BY <3>5, <3>6, <3>7, <3>8 DEF CtxInv
  <2> QED
    BY <2>3, <2>4
<1>7. ASSUME NEW c \in Caller, LookupCtx(c) PROVE CtxInv'
  <2>1. OthersKept(c) /\ ~Changing(c) /\ ~Changing(c)'
    BY <1>7, LookupShape DEF LookupCtx, OthersKept, Goto, Return, HookTypeOK, Changing, Making,
                             Closing
  <2> QED
    BY <1>7, <2>1, CtxFrame DEF LookupCtx, fdVars
<1>8. ASSUME NEW c \in Caller, TryIO(c) PROVE CtxInv'
  <2>1. ~Changing(c) /\ UNCHANGED <<m_fds, size>>
    BY <1>8 DEF TryIO, Changing, Making, Closing
  <2>2. CASE Create(c, "done")
    BY <2>1, <2>2, CtxCreate
  <2>3. CASE ~Create(c, "done")
    <3>1. OthersKept(c) /\ UNCHANGED opened /\ pc'[c] \in {"arm", "idle"}
      BY <1>8, <2>3, TryShape
    <3>2. ~Changing(c)'
      BY <3>1 DEF Changing, Making, Closing
    <3> QED
      BY <2>1, <3>1, <3>2, CtxFrame
  <2> QED
    BY <2>2, <2>3
<1>9. ASSUME NEW c \in Caller, TryConnect(c) PROVE CtxInv'
  <2>1. OthersKept(c) /\ ~Changing(c) /\ ~Changing(c)'
    BY <1>9 DEF TryConnect, OthersKept, Goto, Return, HookTypeOK, Changing, Making, Closing
  <2> QED
    BY <1>9, <2>1, CtxFrame DEF TryConnect, fdVars
<1>10. ASSUME NEW c \in Caller, ArmTimer(c) PROVE CtxInv'
  <2>1. OthersKept(c) /\ ~Changing(c) /\ ~Changing(c)'
    BY <1>10 DEF ArmTimer, OthersKept, Goto, Return, HookTypeOK, Changing, Making, Closing
  <2> QED
    BY <1>10, <2>1, CtxFrame DEF ArmTimer, fdVars
<1>11. ASSUME NEW c \in Caller, AddEvent(c) PROVE CtxInv'
  <2>1. OthersKept(c) /\ ~Changing(c) /\ ~Changing(c)'
    BY <1>11 DEF AddEvent, OthersKept, Goto, Return, HookTypeOK, Changing, Making, Closing
  <2> QED
    BY <1>11, <2>1, CtxFrame DEF AddEvent, fdVars
<1>12. ASSUME NEW c \in Caller, Resume(c) PROVE CtxInv'
  <2>1. OthersKept(c) /\ ~Changing(c) /\ ~Changing(c)'
    BY <1>12 DEF Resume, OthersKept, Goto, Return, HookTypeOK, Changing, Making, Closing
  <2> QED
    BY <1>12, <2>1, CtxFrame DEF Resume, fdVars
<1>13. ASSUME NEW c \in Caller, CheckCanceled(c) PROVE CtxInv'
  <2>1. OthersKept(c) /\ ~Changing(c) /\ ~Changing(c)'
    BY <1>13 DEF CheckCanceled, OthersKept, Goto, Return, HookTypeOK, Changing, Making, Closing
  <2> QED
    BY <1>13, <2>1, CtxFrame DEF CheckCanceled, fdVars
<1>14. ASSUME NEW c \in Caller, ConnectResult(c) PROVE CtxInv'
  <2>1. OthersKept(c) /\ ~Changing(c) /\ ~Changing(c)'
    BY <1>14 DEF ConnectResult, OthersKept, Goto, Return, HookTypeOK, Changing, Making, Closing
  <2> QED
    BY <1>14, <2>1, CtxFrame DEF ConnectResult, fdVars
<1>15. ASSUME NEW c \in Caller, CloseWake(c) PROVE CtxInv'
  <2>1. /\ OthersKept(c) /\ Changing(c) /\ pc[c] = "cancelAll" /\ call[c].fd \in Fd
        /\ UNCHANGED <<m_fds, size, opened, call>>
    BY <1>15 DEF CloseWake, OthersKept, Goto, HookTypeOK, CallInfo, Closing, Changing, fdVars
  <2>2. \A d \in Caller \ {c} : /\ Changing(d)' <=> Changing(d)
                                /\ Making(d)' <=> Making(d)
                                /\ pc'[d] = pc[d] /\ call'[d] = call[d]
    BY <2>1 DEF OthersKept, Changing, Making, Closing
  <2>3. /\ Changing(c)' /\ ~Making(c)' /\ pc'[c] \in {"del", "closing"}
        /\ pc'[c] = "closing" => m_fds[call[c].fd] = NoCtx
    BY <1>15, <2>1, GetIsTable DEF CloseWake, CloseNext, Goto, HookTypeOK, Changing, Closing,
                                   Making
  <2>4. ChangedByOne' /\ ChangedIsOpen'
    BY <2>1, <2>2, <2>3 DEF CtxInv, ChangedByOne, ChangedIsOpen
  <2>5. CtxInTable'
    BY <2>1 DEF CtxInv, CtxInTable
  <2>6. Settled'
    BY <2>1, <2>2 DEF CtxInv, Settled, Making
  <2> QED
    BY <2>4, <2>5, <2>6 DEF CtxInv
<1>16. ASSUME NEW c \in Caller, CloseDel(c) PROVE CtxInv'
  <2> DEFINE f == call[c].fd
  <2>1. /\ OthersKept(c) /\ Changing(c) /\ pc[c] = "del" /\ f \in Fd /\ pc'[c] = "closing"
        /\ UNCHANGED <<size, opened, call>>
    BY <1>16 DEF CloseDel, CloseNext, OthersKept, Goto, HookTypeOK, CallInfo, Closing, Changing
  <2>2. \A d \in Caller \ {c} : /\ Changing(d)' <=> Changing(d)
                                /\ Making(d)' <=> Making(d)
                                /\ pc'[d] = pc[d] /\ call'[d] = call[d]
    BY <2>1 DEF OthersKept, Changing, Making, Closing
  <2>3. Changing(c)' /\ \A d \in Caller \ {c} : Changing(d) => call[d].fd # f
    BY <2>1 DEF CtxInv, ChangedByOne, Changing, Closing
  <2>4. m_fds'[f] = NoCtx /\ \A fd \in Fd \ {f} : m_fds'[fd] = m_fds[fd]
    <3>1. CASE f < size
      BY <1>16, <2>1, <3>1 DEF CloseDel, Del, HookTypeOK, FdTypeOK
    <3>2. CASE ~(f < size)
      BY <1>16, <2>1, <3>2 DEF CloseDel, Del, CtxInv, CtxInTable
    <3> QED
      BY <3>1, <3>2
  <2> HIDE DEF f
  <2>5. ChangedByOne'
    BY <2>1, <2>2, <2>3 DEF CtxInv, ChangedByOne
  <2>6. ChangedIsOpen'
    <3> SUFFICES ASSUME NEW d \in Caller, Changing(d)'
                 PROVE  /\ opened[call[d].fd] # 0 /\ call[d].open = opened[call[d].fd]
                        /\ pc'[d] # "cancelAll" /\ pc'[d] # "del" => m_fds'[call[d].fd] = NoCtx
      BY <2>1 DEF ChangedIsOpen
    <3>1. CASE d = c
      BY <2>1, <2>4, <3>1 DEF CtxInv, ChangedIsOpen, f
    <3>2. CASE d # c
      <4>1. call[d].fd \in Fd \ {f} /\ Changing(d) /\ pc'[d] = pc[d]
        BY <2>2, <2>3, <3>2 DEF HookTypeOK, CallInfo
      <4> QED
        BY <2>4, <4>1 DEF CtxInv, ChangedIsOpen
    <3> QED
      BY <3>1, <3>2
  <2>7. CtxInTable'
    BY <2>1, <2>4 DEF CtxInv, CtxInTable
  <2>8. Settled'
    <3> SUFFICES ASSUME NEW fd \in Fd
                 PROVE  \/ m_fds'[fd].born = opened[fd]
                        \/ \E d \in Caller : call[d].fd = fd /\ (Making(d)' \/ pc'[d] = "closing")
      BY <2>1 DEF Settled
    <3>1. CASE fd = f
      BY <2>1, <3>1 DEF f
    <3>2. CASE fd # f
      <4>1. \/ m_fds[fd].born = opened[fd]
            \/ \E d \in Caller : call[d].fd = fd /\ (Making(d) \/ pc[d] = "closing")
        BY DEF CtxInv, Settled
      <4> QED
        BY <2>2, <2>4, <3>2, <4>1 DEF f
    <3> QED
      BY <3>1, <3>2
  <2> QED
    BY <2>5, <2>6, <2>7, <2>8 DEF CtxInv
<1>17. ASSUME NEW c \in Caller, CloseFd(c) PROVE CtxInv'
  <2> DEFINE f == call[c].fd
  <2>1. /\ OthersKept(c) /\ Changing(c) /\ pc[c] = "closing" /\ f \in Fd /\ pc'[c] = "idle"
        /\ UNCHANGED <<m_fds, size, call>> /\ opened' = [opened EXCEPT ![f] = 0]
    BY <1>17 DEF CloseFd, OthersKept, Goto, Return, HookTypeOK, CallInfo, Closing, Changing
  <2>2. \A d \in Caller \ {c} : /\ Changing(d)' <=> Changing(d)
                                /\ Making(d)' <=> Making(d)
                                /\ pc'[d] = pc[d] /\ call'[d] = call[d]
    BY <2>1 DEF OthersKept, Changing, Making, Closing
  <2>3. ~Changing(c)' /\ \A d \in Caller \ {c} : Changing(d) => call[d].fd # f
    BY <2>1 DEF CtxInv, ChangedByOne, Changing, Making, Closing
  <2>4. opened'[f] = 0 /\ \A fd \in Fd \ {f} : opened'[fd] = opened[fd]
    BY <2>1 DEF HookTypeOK, FdTypeOK
  <2>5. m_fds[f] = NoCtx /\ NoCtx.born = 0
    BY <2>1 DEF CtxInv, ChangedIsOpen, NoCtx
  <2> HIDE DEF f
  <2>6. ChangedByOne'
    BY <2>1, <2>2, <2>3 DEF CtxInv, ChangedByOne
  <2>7. ChangedIsOpen'
    <3> SUFFICES ASSUME NEW d \in Caller \ {c}, Changing(d)
                 PROVE  /\ opened'[call[d].fd] # 0 /\ call[d].open = opened'[call[d].fd]
                        /\ pc[d] # "cancelAll" /\ pc[d] # "del" => m_fds[call[d].fd] = NoCtx
      BY <2>1, <2>2, <2>3 DEF ChangedIsOpen
    <3>1. call[d].fd \in Fd \ {f}
      BY <2>3 DEF HookTypeOK, CallInfo
    <3> QED
      BY <2>4, <3>1 DEF CtxInv, ChangedIsOpen
  <2>8. CtxInTable'
    BY <2>1 DEF CtxInv, CtxInTable
  <2>9. Settled'
    <3> SUFFICES ASSUME NEW fd \in Fd
                 PROVE  \/ m_fds[fd].born = opened'[fd]
                        \/ \E d \in Caller : call[d].fd = fd /\ (Making(d)' \/ pc'[d] = "closing")
      BY <2>1 DEF Settled
    <3>1. CASE fd = f
      BY <2>4, <2>5, <3>1
    <3>2. CASE fd # f
      <4>1. \/ m_fds[fd].born = opened[fd]
            \/ \E d \in Caller : call[d].fd = fd /\ (Making(d) \/ pc[d] = "closing")
        BY DEF CtxInv, Settled
      <4> QED
        BY <2>2, <2>4, <3>2, <4>1 DEF f
    <3> QED
      BY <3>1, <3>2
  <2> QED
    BY <2>6, <2>7, <2>8, <2>9 DEF CtxInv
<1>18. ASSUME NEW c \in Caller, Expire(c) PROVE CtxInv'
  BY <1>18, CtxStutter DEF Expire, fdVars
<1>19. ASSUME NEW c \in Caller, RunCallback(c) PROVE CtxInv'
  BY <1>19, CtxStutter DEF RunCallback, fdVars
<1>20. ASSUME NEW c \in Caller, CancelWait(c) PROVE CtxInv'
  BY <1>20, CtxStutter DEF CancelWait, fdVars
<1>21. ASSUME NEW fd \in Fd, NEW ev \in Event, Report(fd, ev) PROVE CtxInv'
  BY <1>21, CtxStutter DEF Report, fdVars
<1>22. ASSUME NEW fd \in Fd, Arrive(fd) PROVE CtxInv'
  BY <1>22, CtxStutter DEF Arrive, fdVars
<1>23. ASSUME NEW fd \in Fd, Answer(fd) PROVE CtxInv'
  BY <1>23, CtxStutter DEF Answer, fdVars
<1> QED
  BY <1>1, <1>2, <1>3, <1>4, <1>5, <1>6, <1>7, <1>8, <1>9, <1>10, <1>11, <1>12, <1>13, <1>14,
     <1>15, <1>16, <1>17, <1>18, <1>19, <1>20, <1>21, <1>22, <1>23 DEF Next, Proceed

-----------------------------------------------------------------------------
(* The theorems for any use of the calls *)

\* The initial states satisfy the invariant.
LEMMA HookInitially == Init => HookInv
<1> SUFFICES ASSUME Init PROVE HookInv
  OBVIOUS
<1> PICK timed \in BOOLEAN, others \in SUBSET {Connected} : FdInit({Listener} \cup others, timed)
  BY DEF Init
<1> DEFINE open == {Listener} \cup others
<1>1. /\ open \subseteq Fd /\ Fd \subseteq Nat /\ Listener \in open
      /\ InitialSize \in Nat \ {0, 1} /\ Listener < InitialSize
  BY FdAssumption, HookAssumption
<1>2. /\ opened = [fd \in Fd |-> IF fd \in open THEN 1 ELSE 0]
      /\ m_fds = [fd \in Fd |-> IF fd \notin open THEN NoCtx
                                ELSE [NewCtx(fd) EXCEPT !.timeout["READ"] = timed]]
      /\ openings = 1
  BY DEF FdInit
<1>3. opened \in [Fd -> 0..openings]
  BY <1>2
<1>4. ASSUME NEW fd \in open
      PROVE  [NewCtx(fd) EXCEPT !.timeout["READ"] = timed] \in FdCtx
             /\ [NewCtx(fd) EXCEPT !.timeout["READ"] = timed].born = 1
  <2>1. NewCtx(fd) \in FdCtx /\ NewCtx(fd).born = 1
    BY <1>1, <1>2 DEF NewCtx, FdCtx
  <2> QED
    BY <2>1 DEF FdCtx
<1>5. size \in Nat \ {0, 1} /\ \A fd \in open : fd < size
  <2>1. CASE \A fd \in open : fd < InitialSize
    BY <1>1, <2>1 DEF FdInit
  <2>2. CASE ~ \A fd \in open : fd < InitialSize
    <3> DEFINE most == CHOOSE fd \in open : \A other \in open : other <= fd
    <3>1. Connected \in open /\ Connected >= InitialSize /\ Connected \in Nat
      <4>1. PICK fd \in open : ~(fd < InitialSize)
        BY <2>2
      <4>2. fd \in Fd /\ fd \in Nat
        BY <1>1
      <4>3. fd # Listener /\ fd >= InitialSize
        BY <1>1, <4>1, <4>2
      <4>4. fd = Connected
        BY <4>1, <4>3
      <4> QED
        BY <4>1, <4>2, <4>3, <4>4
    <3>2. \A other \in open : other <= Connected
      BY <1>1, <3>1
    <3>3. most \in open /\ \A other \in open : other <= most
      BY <3>1, <3>2
    <3>4. size = Grown(most)
      BY <2>2 DEF FdInit
    <3> HIDE DEF most
    <3>5. most \in Nat /\ most > 1
      BY <1>1, <3>1, <3>3
    <3>6. Grown(most) \in Nat /\ Grown(most) > most
      BY <3>5, GrownHolds
    <3> QED
      BY <1>1, <3>3, <3>4, <3>5, <3>6
  <2> QED
    BY <2>1, <2>2
<1> HIDE DEF open
<1>6. m_fds \in [Fd -> FdCtx \cup {NoCtx}]
  BY <1>2, <1>4
<1>7. HookTypeOK
  <2>1. NoCall \in CallInfo
    BY <1>1 DEF NoCall, CallInfo
  <2>2. FdTypeOK
    BY <1>2, <1>3, <1>5, <1>6 DEF FdTypeOK
  <2> QED
    BY <2>1, <2>2, HookAssumption DEF Init, HookTypeOK, Pc, Result
<1>8. ResumeInv
  BY DEF Init, ResumeInv, PlacesOK, WaitersHeld, SleepersHeld, OneSleepTimer, WokenHeld
<1>9. TimeoutInv
  BY DEF Init, TimeoutInv, TimersMarked
<1>10. CtxInv
  <2>1. NoCtx.born = 0
    BY DEF NoCtx
  <2>2. CtxInTable /\ Settled
    BY <1>2, <1>4, <1>5, <2>1, SMTT(30) DEF CtxInTable, Settled
  <2> QED
    BY <2>2 DEF Init, CtxInv, ChangedByOne, ChangedIsOpen, Changing, Making, Closing
<1> QED
  BY <1>7, <1>8, <1>9, <1>10 DEF HookInv

\* The invariant of the hooked calls: types, who waits and why, which timers have
\* left a mark, and which contexts are in the table (hook.cpp, fdmanager.cpp).
THEOREM HookInvariant == Spec => []HookInv
<1>1. HookInv /\ [Next]_vars => HookInv'
  BY TypeStep, ResumeStep, TimeoutStep, CtxStep DEF HookInv
<1> QED
  BY <1>1, HookInitially, PTL DEF Spec

\* However timers, readiness and close() race, a suspended coroutine is known in one
\* place only and scheduled once (hook.cpp:181-215).
THEOREM ResumedExactlyOnce == Spec => []ResumedOnce
<1>1. HookInv => ResumedOnce
  <2> SUFFICES ASSUME HookInv, NEW c \in Caller
               PROVE  LET places == {w \in Fd \X Event : waiter[w].c = c} \cup
                                    {t \in timers : t.owner = c /\ t.ev = "WAKE"}
                      IN  places # {} => pc[c] = "held" /\ ~woken[c] /\ Cardinality(places) = 1
    BY DEF ResumedOnce, HookInv, ResumeInv, WokenHeld
  <2> DEFINE regs == {w \in Fd \X Event : waiter[w].c = c}
             naps == {t \in timers : t.owner = c /\ t.ev = "WAKE"}
             places == regs \cup naps
  <2> SUFFICES ASSUME NEW p \in places
               PROVE  pc[c] = "held" /\ ~woken[c] /\ Cardinality(places) = 1
    OBVIOUS
  <2>1. \A w \in regs : /\ pc[c] = "held" /\ ~woken[c] /\ call[c].op \in IoOp
                        /\ w = <<call[c].fd, EventOf(call[c].op)>>
    <3>1. \A w \in Fd \X Event : waiter[w].c = c => waiter[w] # Nobody
      BY HookAssumption DEF Nobody
    <3> QED
      BY <3>1 DEF HookInv, ResumeInv, WaitersHeld
  <2>2. \A t \in naps : /\ pc[c] = "held" /\ ~woken[c] /\ call[c].op = "sleep"
                        /\ \A u \in naps : u = t
    BY DEF HookInv, ResumeInv, SleepersHeld, OneSleepTimer
  <2>3. "sleep" \notin IoOp
    BY DEF IoOp
  <2> HIDE DEF regs, naps
  <2>4. places = {p}
    BY <2>1, <2>2, <2>3
  <2>5. Cardinality({p}) = 1
    BY FS_Singleton
  <2> QED
    BY <2>1, <2>2, <2>4, <2>5
<1> QED
  BY <1>1, HookInvariant, PTL

\* A call reports a timeout only if its own timer expired: the callback of an earlier
\* call cannot cancel a later one (hook.cpp:183-187).
THEOREM TimeoutsAreOwn == Spec => []TimeoutIsOwn
<1>1. HookInv => TimeoutIsOwn
  BY DEF HookInv, TimeoutInv, TimeoutIsOwn
<1> QED
  BY <1>1, HookInvariant, PTL

\* A descriptor number that is used again never meets the context of its earlier use,
\* and every context lies inside the table (fdmanager.cpp:107-140, hook.cpp:485-505).
THEOREM ContextsAreFresh == Spec => []FreshContext
<1>1. HookInv => FreshContext
  <2> SUFFICES ASSUME HookInv, NEW fd \in Fd,
                      \A c \in Caller : pc[c] # "idle" /\ call[c].fd = fd
                                          => call[c].op \notin {"socket", "accept", "close"}
               PROVE  Get(fd).born = opened[fd]
    BY DEF FreshContext, HookInv, CtxInv, CtxInTable
  <2>1. \A c \in Caller : call[c].fd = fd => ~(Making(c) \/ pc[c] = "closing")
    BY DEF HookInv, ResumeInv, PlacesOK, Making
  <2>2. m_fds[fd].born = opened[fd]
    BY <2>1 DEF HookInv, CtxInv, Settled
  <2> QED
    BY <2>2, GetIsTable DEF HookInv
<1> QED
  BY <1>1, HookInvariant, PTL

-----------------------------------------------------------------------------
(* Connections, when nobody closes a descriptor that another caller uses *)

\* Steps by which no caller comes to use a descriptor.
LEMMA ApartFrame ==
    ASSUME HookTypeOK, ListenerKept, UsersApart, NEW c \in Caller, OthersKept(c),
           Using(c)' => Using(c) /\ call'[c].fd = call[c].fd /\ call'[c].open = call[c].open,
           Closing(c)' => Closing(c) /\ call'[c].fd = call[c].fd,
           UNCHANGED opened
    PROVE  ListenerKept' /\ UsersApart'
<1>1. \A d \in Caller \ {c} : /\ Using(d)' <=> Using(d)
                              /\ Closing(d)' <=> Closing(d)
                              /\ call'[d] = call[d]
  BY DEF OthersKept, Using, Closing
<1>2. ListenerKept'
  BY <1>1 DEF ListenerKept
<1>3. UsersApart'
  BY <1>1 DEF UsersApart
<1> QED
  BY <1>2, <1>3

\* Steps that move no caller and open or close nothing.
LEMMA ApartStutter ==
    ASSUME ListenerKept, UsersApart, UNCHANGED <<pc, call, opened>>
    PROVE  ListenerKept' /\ UsersApart'
BY DEF ListenerKept, UsersApart, Using, Closing

\* Steps of a caller that does not wait for an answer, nor leaves its wait, and
\* touches no connection that another caller uses.
LEMMA AnsweredFrame ==
    ASSUME HookTypeOK, ConnectAnswered, NEW c \in Caller, OthersKept(c),
           call'[c].op = "connect" => pc'[c] \notin {"held", "check", "sockerr"},
           \A d \in Caller \ {c} : /\ Using(d) => conn'[call[d].fd] = conn[call[d].fd]
                                   /\ woken'[d] = woken[d]
                                   /\ canceled'[d] = canceled[d]
                                   /\ misled'[d] = misled[d]
    PROVE  ConnectAnswered'
<1> SUFFICES ASSUME NEW d \in Caller, call'[d].op = "connect", ~misled'[d],
                    pc'[d] \in {"held", "check", "sockerr"},
                    pc'[d] # "sockerr" => ~canceled'[d], pc'[d] = "held" => woken'[d]
             PROVE  conn'[call'[d].fd] \in {"done", "failed"}
  BY DEF ConnectAnswered
<1>1. d # c
  OBVIOUS
<1>2. /\ pc'[d] = pc[d] /\ call'[d] = call[d] /\ misled'[d] = misled[d]
      /\ woken'[d] = woken[d] /\ canceled'[d] = canceled[d]
  BY <1>1 DEF OthersKept
<1>3. Using(d) /\ conn[call[d].fd] \in {"done", "failed"}
  BY <1>2 DEF Using, ConnectAnswered
<1> QED
  BY <1>1, <1>2, <1>3

\* A new descriptor is one that nobody uses.
LEMMA ConnectCreate ==
    ASSUME HookTypeOK, ConnectInv, NEW c \in Caller, NEW state, Create(c, state),
           pc[c] # "idle", ~Closing(c), call[c].op \in {"socket", "accept"},
           UNCHANGED <<woken, canceled, misled>>
    PROVE  ConnectInv'
<1>1. OthersKept(c) /\ call'[c].op # "connect"
  BY CreateShape
<1>2. CASE pc'[c] = "idle"
  <2>1. UNCHANGED <<opened, call, conn>>
    BY <1>2, CreateShape
  <2>2. ~Using(c)' /\ ~Closing(c)'
    BY <1>2 DEF Using, Closing
  <2>3. ListenerKept' /\ UsersApart'
    BY <1>1, <2>1, <2>2, ApartFrame DEF ConnectInv
  <2>4. ConnectAnswered'
    BY <1>1, <2>1, AnsweredFrame DEF ConnectInv
  <2> QED
    BY <2>3, <2>4 DEF ConnectInv
<1>3. CASE pc'[c] # "idle"
  <2>1. PICK fd \in Fd : /\ opened[fd] = 0
                         /\ call'[c].fd = fd /\ call'[c].open = openings + 1
                         /\ opened' = [opened EXCEPT ![fd] = openings + 1]
                         /\ conn' = [conn EXCEPT ![fd] = state]
    BY <1>3, CreateShape
  <2>2. /\ opened'[fd] # 0 /\ opened'[fd] = openings + 1
        /\ \A other \in Fd \ {fd} : opened'[other] = opened[other] /\ conn'[other] = conn[other]
    BY <2>1 DEF HookTypeOK, FdTypeOK
  <2>3. \A d \in Caller \ {c} : /\ Using(d)' <=> Using(d)
                                /\ Closing(d)' <=> Closing(d)
                                /\ call'[d] = call[d]
    BY <1>1 DEF OthersKept, Using, Closing
  <2>4. \A d \in Caller : Using(d) => call[d].fd \in Fd \ {fd}
    BY <2>1 DEF ConnectInv, UsersApart, HookTypeOK, CallInfo
  <2>5. ~Closing(c)' /\ Listener \in Fd
    BY <1>3, CreateShape, HookAssumption DEF Closing
  <2>6. ListenerKept'
    BY <2>1, <2>2, <2>3, <2>5 DEF ConnectInv, ListenerKept
  <2>7. UsersApart'
    <3>1. \A d \in Caller \ {c} : Using(d)' => /\ call'[d].fd # fd
                                               /\ opened'[call'[d].fd] # 0
                                               /\ call'[d].open = opened'[call'[d].fd]
      BY <2>2, <2>3, <2>4 DEF ConnectInv, UsersApart
    <3>2. \A d, e \in Caller \ {c} :
             Using(d)' /\ Using(e)' /\ call'[d].fd = call'[e].fd => d = e
      BY <2>3 DEF ConnectInv, UsersApart
    <3> QED
      BY <2>1, <2>2, <3>1, <3>2 DEF UsersApart
  <2>8. ConnectAnswered'
    BY <1>1, <2>2, <2>4, AnsweredFrame DEF ConnectInv
  <2> QED
    BY <2>6, <2>7, <2>8 DEF ConnectInv
<1> QED
  BY <1>2, <1>3

\* Whoever wakes the waiter of an event says why.
LEMMA ConnectTrigger ==
    ASSUME HookTypeOK, ResumeInv, ConnectAnswered, NEW fd \in Fd, NEW ev \in Event,
           waiter[<<fd, ev>>] # Nobody, triggerEvent(fd, ev), UNCHANGED <<pc, call, canceled,
           conn>>,
           \A d \in Caller : misled[d] => misled'[d],
           LET d == waiter[<<fd, ev>>].c
           IN  call[d].op = "connect" =>
                 misled'[d] \/ canceled[d] \/ conn[call[d].fd] \in {"done", "failed"}
    PROVE  ConnectAnswered'
<1> DEFINE d == waiter[<<fd, ev>>].c
<1>1. d \in Caller /\ pc[d] = "held"
  BY WaiterIsCaller DEF ResumeInv, WaitersHeld
<1>2. \A e \in Caller \ {d} : woken'[e] = woken[e]
  BY <1>1 DEF triggerEvent, HookTypeOK
<1> HIDE DEF d
<1>3. ASSUME NEW e \in Caller, call[e].op = "connect", ~misled'[e]
      PROVE  LET answered == conn[call[e].fd] \in {"done", "failed"}
             IN  /\ pc[e] = "held" /\ woken'[e] /\ ~canceled[e] => answered
                 /\ pc[e] = "check" /\ ~canceled[e] => answered
                 /\ pc[e] = "sockerr" => answered
  <2>1. CASE e = d
    BY <1>1, <1>3, <2>1 DEF d
  <2>2. CASE e # d
    BY <1>2, <1>3, <2>2 DEF ConnectAnswered
  <2> QED
    BY <2>1, <2>2
<1> QED
  BY <1>3 DEF ConnectAnswered

\* Every step keeps the descriptors apart and the answers known.
LEMMA ConnectStep ==
    ASSUME ConcurrentClose = FALSE, HookInv, ConnectInv, [Next]_vars
    PROVE  ConnectInv'
<1> HookTypeOK
  BY DEF HookInv
<1>1. CASE UNCHANGED vars
  <2>1. ListenerKept' /\ UsersApart'
    BY <1>1, ApartStutter DEF vars, hookVars, fdVars, ConnectInv
  <2>2. ConnectAnswered'
    BY <1>1 DEF vars, hookVars, ConnectInv, ConnectAnswered
  <2> QED
    BY <2>1, <2>2 DEF ConnectInv
<1>2. ASSUME NEW c \in Caller, Call(c) PROVE ConnectInv'
  <2> PICK op \in Op, fd \in Fd :
         /\ pc[c] = "idle" /\ MayCall(c, op, fd)
         /\ call' = [call EXCEPT ![c] = [op |-> op, fd |-> fd, open |-> opened[fd],
                                         timed |-> FALSE, n |-> @.n + 1]]
         /\ pc' = [pc EXCEPT ![c] = Start(op)]
    BY <1>2 DEF Call, Goto
  <2>1. /\ OthersKept(c) /\ call'[c].op = op /\ call'[c].fd = fd /\ call'[c].open = opened[fd]
        /\ pc'[c] = Start(op) /\ UNCHANGED <<opened, conn>>
    BY <1>2 DEF Call, fdVars, OthersKept, HookTypeOK
  <2>2. \A d \in Caller \ {c} : /\ Using(d)' <=> Using(d)
                                /\ Closing(d)' <=> Closing(d)
                                /\ call'[d] = call[d]
    BY <2>1 DEF OthersKept, Using, Closing
  <2>3. Using(c)' => opened[fd] # 0 /\ ~InUse(c, fd)
    <3>1. Using(c)' => op \notin {"socket", "sleep"}
      BY <2>1 DEF Using, Start
    <3> QED
      BY <3>1 DEF MayCall, ConnectInv, ListenerKept
  <2>4. ASSUME NEW d \in Caller \ {c}, Using(c)', Using(d), call[d].fd = fd PROVE FALSE
    <3>1. d \in Users(c, fd)
      BY <2>4 DEF ConnectInv, UsersApart, Users
    <3> QED
      BY <2>3, <2>4, <3>1 DEF InUse
  <2>5. UsersApart'
    BY <2>1, <2>2, <2>3, <2>4 DEF ConnectInv, UsersApart
  <2>6. Closing(c)' => fd # Listener
    <3>1. Closing(c)' => op = "close"
      BY <2>1 DEF Closing, Start
    <3> QED
      BY <3>1 DEF MayCall
  <2>7. ListenerKept'
    BY <2>1, <2>2, <2>6 DEF ConnectInv, ListenerKept
  <2>8. ConnectAnswered'
    <3>1. pc'[c] \notin {"held", "check", "sockerr"}
      BY <2>1 DEF Start
    <3>2. \A d \in Caller \ {c} : /\ woken'[d] = woken[d] /\ canceled'[d] = canceled[d]
                                  /\ misled'[d] = misled[d]
      BY <1>2 DEF Call, HookTypeOK
    <3> QED
      BY <2>1, <3>1, <3>2, AnsweredFrame DEF ConnectInv
  <2> QED
    BY <2>5, <2>7, <2>8 DEF ConnectInv
<1>3. ASSUME NEW c \in Caller, SocketOpen(c) PROVE ConnectInv'
  <2>1. pc[c] # "idle" /\ ~Closing(c) /\ call[c].op = "socket"
    BY <1>3 DEF SocketOpen, Closing, HookInv, ResumeInv, PlacesOK
  <2> QED
    BY <1>3, <2>1, ConnectCreate DEF SocketOpen
<1>4. ASSUME NEW c \in Caller, GetRead(c) PROVE ConnectInv'
  <2>1. /\ OthersKept(c) /\ UNCHANGED opened
        /\ Using(c)' => Using(c) /\ call'[c].fd = call[c].fd /\ call'[c].open = call[c].open
        /\ Closing(c)' => Closing(c) /\ call'[c].fd = call[c].fd
        /\ call'[c].op = "connect" => pc'[c] \notin {"held", "check", "sockerr"}
    BY <1>4
       DEF GetRead, OthersKept, Goto, Return, HookTypeOK, Using, Closing, fdVars, HookInv,
           ResumeInv,
           PlacesOK
  <2>2. ListenerKept' /\ UsersApart'
    BY <2>1, ApartFrame DEF ConnectInv
  <2>3. ConnectAnswered'
    BY <1>4, <2>1, AnsweredFrame DEF GetRead, ConnectInv
  <2> QED
    BY <2>2, <2>3 DEF ConnectInv
<1>5. ASSUME NEW c \in Caller, GetWrite(c) PROVE ConnectInv'
  <2>1. /\ OthersKept(c) /\ UNCHANGED opened
        /\ Using(c)' => Using(c) /\ call'[c].fd = call[c].fd /\ call'[c].open = call[c].open
        /\ Closing(c)' => Closing(c) /\ call'[c].fd = call[c].fd
        /\ call'[c].op = "connect" => pc'[c] \notin {"held", "check", "sockerr"}
    BY <1>5
       DEF GetWrite, OthersKept, Goto, Return, HookTypeOK, Using, Closing, fdVars, HookInv,
           ResumeInv,
           PlacesOK
  <2>2. ListenerKept' /\ UsersApart'
    BY <2>1, ApartFrame DEF ConnectInv
  <2>3. ConnectAnswered'
    BY <1>5, <2>1, AnsweredFrame DEF GetWrite, ConnectInv
  <2> QED
    BY <2>2, <2>3 DEF ConnectInv
<1>6. ASSUME NEW c \in Caller, SetOption(c) PROVE ConnectInv'
  <2>1. /\ OthersKept(c) /\ UNCHANGED opened
        /\ Using(c)' => Using(c) /\ call'[c].fd = call[c].fd /\ call'[c].open = call[c].open
        /\ Closing(c)' => Closing(c) /\ call'[c].fd = call[c].fd
        /\ call'[c].op = "connect" => pc'[c] \notin {"held", "check", "sockerr"}
    BY <1>6
       DEF SetOption, OthersKept, Goto, Return, HookTypeOK, Using, Closing, fdVars, HookInv,
           ResumeInv,
           PlacesOK
  <2>2. ListenerKept' /\ UsersApart'
    BY <2>1, ApartFrame DEF ConnectInv
  <2>3. ConnectAnswered'
    BY <1>6, <2>1, AnsweredFrame DEF SetOption, ConnectInv
  <2> QED
    BY <2>2, <2>3 DEF ConnectInv
<1>7. ASSUME NEW c \in Caller, LookupCtx(c) PROVE ConnectInv'
  <2>1. /\ OthersKept(c) /\ UNCHANGED opened
        /\ Using(c)' => Using(c) /\ call'[c].fd = call[c].fd /\ call'[c].open = call[c].open
        /\ Closing(c)' => Closing(c) /\ call'[c].fd = call[c].fd
        /\ call'[c].op = "connect" => pc'[c] \notin {"held", "check", "sockerr"}
    BY <1>7, LookupShape
       DEF LookupCtx, OthersKept, Goto, Return, HookTypeOK, Using, Closing, fdVars, HookInv,
           ResumeInv,
           PlacesOK
  <2>2. ListenerKept' /\ UsersApart'
    BY <2>1, ApartFrame DEF ConnectInv
  <2>3. ConnectAnswered'
    BY <1>7, <2>1, AnsweredFrame DEF LookupCtx, ConnectInv
  <2> QED
    BY <2>2, <2>3 DEF ConnectInv
<1>8. ASSUME NEW c \in Caller, TryIO(c) PROVE ConnectInv'
  <2>1. pc[c] # "idle" /\ ~Closing(c) /\ UNCHANGED <<woken, canceled, misled>>
    BY <1>8 DEF TryIO, Closing
  <2>2. CASE call[c].op = "accept" /\ Create(c, "done")
    BY <2>1, <2>2, ConnectCreate
  <2>3. CASE ~(call[c].op = "accept" /\ Create(c, "done"))
    <3>1. /\ OthersKept(c) /\ UNCHANGED <<opened, call, conn>> /\ pc'[c] \in {"arm", "idle"}
      BY <1>8, <2>3, TryShape
    <3>2. (Using(c)' => Using(c)) /\ ~Closing(c)' /\ pc'[c] \notin {"held", "check", "sockerr"}
      BY <1>8, <3>1 DEF TryIO, Using, Closing
    <3>3. ListenerKept' /\ UsersApart'
      BY <3>1, <3>2, ApartFrame DEF ConnectInv
    <3>4. ConnectAnswered'
      BY <2>1, <3>1, <3>2, AnsweredFrame DEF ConnectInv
    <3> QED
      BY <3>3, <3>4 DEF ConnectInv
  <2> QED
    BY <2>2, <2>3
<1>9. ASSUME NEW c \in Caller, TryConnect(c) PROVE ConnectInv'
  <2>1. /\ OthersKept(c) /\ UNCHANGED <<opened, call, woken, canceled, misled>>
        /\ pc'[c] \in {"arm", "idle"} /\ pc[c] \in {"try", "plain"} /\ call[c].op = "connect"
    BY <1>9 DEF TryConnect, OthersKept, Goto, Return, HookTypeOK, fdVars
  <2>2. Using(c) /\ ~Closing(c)' /\ pc'[c] \notin {"held", "check", "sockerr"}
    BY <2>1 DEF Using, Closing
  <2>3. ListenerKept' /\ UsersApart'
    BY <2>1, <2>2, ApartFrame DEF ConnectInv
  <2>4. \A fd \in Fd \ {call[c].fd} : conn'[fd] = conn[fd]
    BY <1>9 DEF TryConnect, HookTypeOK
  <2>5. \A d \in Caller \ {c} : Using(d) => call[d].fd \in Fd \ {call[c].fd}
    BY <2>2 DEF ConnectInv, UsersApart, HookTypeOK, CallInfo
  <2>6. ConnectAnswered'
    BY <2>1, <2>2, <2>4, <2>5, AnsweredFrame DEF ConnectInv
  <2> QED
    BY <2>3, <2>6 DEF ConnectInv
<1>10. ASSUME NEW c \in Caller, ArmTimer(c) PROVE ConnectInv'
  <2>1. /\ OthersKept(c) /\ UNCHANGED opened
        /\ Using(c)' => Using(c) /\ call'[c].fd = call[c].fd /\ call'[c].open = call[c].open
        /\ Closing(c)' => Closing(c) /\ call'[c].fd = call[c].fd
        /\ call'[c].op = "connect" => pc'[c] \notin {"held", "check", "sockerr"}
    BY <1>10
       DEF ArmTimer, OthersKept, Goto, Return, HookTypeOK, Using, Closing, fdVars, HookInv,
           ResumeInv,
           PlacesOK
  <2>2. ListenerKept' /\ UsersApart'
    BY <2>1, ApartFrame DEF ConnectInv
  <2>3. ConnectAnswered'
    BY <1>10, <2>1, AnsweredFrame DEF ArmTimer, ConnectInv
  <2> QED
    BY <2>2, <2>3 DEF ConnectInv
<1>11. ASSUME NEW c \in Caller, AddEvent(c) PROVE ConnectInv'
  <2> DEFINE fd == call[c].fd
             ev == EventOf(call[c].op)
  <2>1. /\ OthersKept(c) /\ pc[c] = "add" /\ call[c].op \in IoOp /\ fd \in Fd
        /\ UNCHANGED <<opened, call, woken, canceled, misled, conn>>
        /\ pc'[c] \in {"held", "sockerr", "idle"} /\ ~woken[c]
    BY <1>11 DEF AddEvent, OthersKept, Goto, Return, HookTypeOK, CallInfo, fdVars, HookInv,
                  ResumeInv, PlacesOK, WokenHeld
  <2>2. Using(c) /\ ~Closing(c)'
    BY <2>1 DEF Using, Closing, IoOp
  <2>3. EpollAccepts(fd, ev)
    <3>1. opened[fd] # 0
      BY <2>2 DEF ConnectInv, UsersApart
    <3>2. ASSUME NEW other \in Event, waiter[<<fd, other>>] # Nobody PROVE FALSE
      <4> DEFINE w == <<fd, other>>
                 d == waiter[w].c
      <4>1. w \in Fd \X Event /\ waiter[w] # Nobody
        BY <2>1, <3>2
      <4>2. d \in Caller
        BY <4>1, WaiterIsCaller
      <4>3. pc[d] = "held" /\ call[d].op \in IoOp /\ call[d].fd = fd
        <5>1. w = <<call[d].fd, EventOf(call[d].op)>> /\ pc[d] = "held" /\ call[d].op \in IoOp
          BY <4>1 DEF HookInv, ResumeInv, WaitersHeld
        <5> QED
          BY <5>1
      <4>4. Using(d)
        BY <4>3 DEF Using, IoOp
      <4> QED
        BY <2>1, <2>2, <4>2, <4>3, <4>4 DEF ConnectInv, UsersApart
    <3> QED
      BY <3>1, <3>2 DEF EpollAccepts
  <2>4. pc'[c] = "held"
    BY <1>11, <2>3 DEF AddEvent, Goto, HookTypeOK
  <2>5. ListenerKept' /\ UsersApart'
    BY <2>1, <2>2, ApartFrame DEF ConnectInv
  <2>6. ConnectAnswered'
    BY <2>1, <2>4 DEF ConnectInv, ConnectAnswered, OthersKept
  <2> QED
    BY <2>5, <2>6 DEF ConnectInv
<1>12. ASSUME NEW c \in Caller, Resume(c) PROVE ConnectInv'
  <2>1. /\ OthersKept(c) /\ pc[c] = "held" /\ woken[c] /\ pc'[c] \in {"idle", "check"}
        /\ UNCHANGED <<opened, call, canceled, misled, conn>>
        /\ \A d \in Caller \ {c} : woken'[d] = woken[d]
    BY <1>12 DEF Resume, OthersKept, Goto, Return, HookTypeOK, fdVars
  <2>2. (Using(c)' => Using(c)) /\ ~Closing(c)'
    BY <2>1 DEF Using, Closing
  <2>3. ListenerKept' /\ UsersApart'
    BY <2>1, <2>2, ApartFrame DEF ConnectInv
  <2>4. ConnectAnswered'
    BY <2>1 DEF ConnectInv, ConnectAnswered, OthersKept
  <2> QED
    BY <2>3, <2>4 DEF ConnectInv
<1>13. ASSUME NEW c \in Caller, CheckCanceled(c) PROVE ConnectInv'
  <2>1. /\ OthersKept(c) /\ pc[c] = "check" /\ pc'[c] \in {"idle", "try", "sockerr"}
        /\ pc'[c] = "sockerr" => ~canceled[c]
        /\ UNCHANGED <<opened, call, woken, canceled, misled, conn>>
    BY <1>13 DEF CheckCanceled, OthersKept, Goto, Return, HookTypeOK, fdVars
  <2>2. (Using(c)' => Using(c)) /\ ~Closing(c)'
    BY <2>1 DEF Using, Closing
  <2>3. ListenerKept' /\ UsersApart'
    BY <2>1, <2>2, ApartFrame DEF ConnectInv
  <2>4. ConnectAnswered'
    BY <2>1 DEF ConnectInv, ConnectAnswered, OthersKept
  <2> QED
    BY <2>3, <2>4 DEF ConnectInv
<1>14. ASSUME NEW c \in Caller, ConnectResult(c) PROVE ConnectInv'
  <2>1. /\ OthersKept(c) /\ UNCHANGED opened
        /\ Using(c)' => Using(c) /\ call'[c].fd = call[c].fd /\ call'[c].open = call[c].open
        /\ Closing(c)' => Closing(c) /\ call'[c].fd = call[c].fd
        /\ call'[c].op = "connect" => pc'[c] \notin {"held", "check", "sockerr"}
    BY <1>14
       DEF ConnectResult, OthersKept, Goto, Return, HookTypeOK, Using, Closing, fdVars, HookInv,
           ResumeInv,
           PlacesOK
  <2>2. ListenerKept' /\ UsersApart'
    BY <2>1, ApartFrame DEF ConnectInv
  <2>3. ConnectAnswered'
    BY <1>14, <2>1, AnsweredFrame DEF ConnectResult, ConnectInv
  <2> QED
    BY <2>2, <2>3 DEF ConnectInv
<1>15. ASSUME NEW c \in Caller, CloseWake(c) PROVE ConnectInv'
  <2> DEFINE fd == call[c].fd
  <2>1. /\ OthersKept(c) /\ pc[c] = "cancelAll" /\ pc'[c] \in {"del", "closing"} /\ fd \in Fd
        /\ UNCHANGED <<opened, call, canceled, misled, conn>> /\ call[c].op = "close"
    BY <1>15 DEF CloseWake, CloseNext, OthersKept, Goto, HookTypeOK, CallInfo, fdVars, HookInv,
                  ResumeInv, PlacesOK
  <2>2. Using(c) /\ Closing(c)
    BY <2>1 DEF Using, Closing
  <2>3. ListenerKept' /\ UsersApart'
    BY <2>1, <2>2, ApartFrame DEF ConnectInv
  <2>4. \A ev \in Event : ~Registered(fd, ev)
    <3> SUFFICES ASSUME NEW ev \in Event, waiter[<<fd, ev>>] # Nobody PROVE FALSE
      BY DEF Registered
    <3> DEFINE w == <<fd, ev>>
               d == waiter[w].c
    <3>1. w \in Fd \X Event /\ waiter[w] # Nobody /\ d \in Caller
      BY <2>1, WaiterIsCaller DEF HookInv
    <3>2. w = <<call[d].fd, EventOf(call[d].op)>> /\ pc[d] = "held" /\ call[d].op \in IoOp
      BY <3>1 DEF HookInv, ResumeInv, WaitersHeld
    <3>3. call[d].fd = fd /\ Using(d)
      BY <3>2 DEF Using, IoOp
    <3> QED
      BY <2>1, <2>2, <3>1, <3>2, <3>3 DEF ConnectInv, UsersApart
  <2>5. \A d \in Caller : woken'[d] => woken[d]
    BY <1>15, <2>4 DEF CloseWake, cancelAll
  <2>6. ConnectAnswered'
    BY <2>1, <2>5 DEF ConnectInv, ConnectAnswered, OthersKept
  <2> QED
    BY <2>3, <2>6 DEF ConnectInv
<1>16. ASSUME NEW c \in Caller, CloseDel(c) PROVE ConnectInv'
  <2>1. /\ OthersKept(c) /\ UNCHANGED opened
        /\ Using(c)' => Using(c) /\ call'[c].fd = call[c].fd /\ call'[c].open = call[c].open
        /\ Closing(c)' => Closing(c) /\ call'[c].fd = call[c].fd
        /\ call'[c].op = "connect" => pc'[c] \notin {"held", "check", "sockerr"}
    BY <1>16
       DEF CloseDel, OthersKept, Goto, Return, HookTypeOK, Using, Closing, fdVars, HookInv,
           ResumeInv,
           PlacesOK, CloseNext
  <2>2. ListenerKept' /\ UsersApart'
    BY <2>1, ApartFrame DEF ConnectInv
  <2>3. ConnectAnswered'
    BY <1>16, <2>1, AnsweredFrame DEF CloseDel, ConnectInv
  <2> QED
    BY <2>2, <2>3 DEF ConnectInv
<1>17. ASSUME NEW c \in Caller, CloseFd(c) PROVE ConnectInv'
  <2> DEFINE f == call[c].fd
  <2>1. /\ OthersKept(c) /\ pc[c] = "closing" /\ pc'[c] = "idle" /\ f \in Fd /\ call[c].op = "close"
        /\ UNCHANGED <<call, woken, canceled, misled>>
        /\ \A fd \in Fd \ {f} : opened'[fd] = opened[fd] /\ conn'[fd] = conn[fd]
    BY <1>17 DEF CloseFd, OthersKept, Goto, Return, HookTypeOK, FdTypeOK, CallInfo, HookInv,
                  ResumeInv, PlacesOK
  <2>2. Using(c) /\ Closing(c) /\ ~Using(c)' /\ ~Closing(c)'
    BY <2>1 DEF Using, Closing
  <2>3. \A d \in Caller \ {c} : /\ Using(d)' <=> Using(d)
                                /\ Closing(d)' <=> Closing(d)
                                /\ Using(d) => call[d].fd \in Fd \ {f}
    BY <2>1, <2>2 DEF OthersKept, Using, Closing, ConnectInv, UsersApart, HookTypeOK, CallInfo
  <2>4. f # Listener /\ Listener \in Fd
    BY <2>2, HookAssumption DEF ConnectInv, ListenerKept
  <2>5. ListenerKept'
    BY <2>1, <2>2, <2>3, <2>4 DEF ConnectInv, ListenerKept
  <2>6. UsersApart'
    BY <2>1, <2>2, <2>3 DEF ConnectInv, UsersApart
  <2>7. ConnectAnswered'
    BY <2>1, <2>3, AnsweredFrame DEF ConnectInv
  <2> QED
    BY <2>5, <2>6, <2>7 DEF ConnectInv
<1>18. ASSUME NEW c \in Caller, Expire(c) PROVE ConnectInv'
  <2>1. ListenerKept' /\ UsersApart'
    BY <1>18, ApartStutter DEF Expire, fdVars, ConnectInv
  <2>2. ConnectAnswered'
    BY <1>18 DEF Expire, ConnectInv, ConnectAnswered
  <2> QED
    BY <2>1, <2>2 DEF ConnectInv
<1>19. ASSUME NEW c \in Caller, RunCallback(c) PROVE ConnectInv'
  <2>1. ListenerKept' /\ UsersApart'
    BY <1>19, ApartStutter DEF RunCallback, fdVars, ConnectInv
  <2>2. /\ UNCHANGED <<pc, call, misled, conn>>
        /\ \A d \in Caller : canceled[d] => canceled'[d]
        /\ \A d \in Caller : woken'[d] => woken[d] \/ call[d].op = "sleep"
    BY <1>19 DEF RunCallback, HookTypeOK, HookInv, ResumeInv, SleepersHeld
  <2>3. ConnectAnswered'
    BY <2>2 DEF ConnectInv, ConnectAnswered
  <2> QED
    BY <2>1, <2>3 DEF ConnectInv
<1>20. ASSUME NEW c \in Caller, CancelWait(c) PROVE ConnectInv'
  <2>1. ListenerKept' /\ UsersApart'
    BY <1>20, ApartStutter DEF CancelWait, fdVars, ConnectInv
  <2> PICK t \in timers : /\ t.st = "cancelling" /\ cancelEvent(t.fd, t.ev)
                          /\ misled' = [d \in Caller |->
                                 misled[d] \/ (/\ Registered(t.fd, t.ev)
                                               /\ waiter[<<t.fd, t.ev>>].c = d
                                               /\ t \notin MyTimers(d))]
    BY <1>20 DEF CancelWait
  <2>2. /\ UNCHANGED <<pc, call, canceled, conn>> /\ t.fd \in Fd /\ t.ev \in Event
        /\ \A d \in Caller : misled[d] => misled'[d]
    BY <1>20 DEF CancelWait, HookTypeOK, TimerInfo, HookInv, ResumeInv, SleepersHeld
  <2>3. CASE ~Registered(t.fd, t.ev)
    <3>1. UNCHANGED woken
      BY <2>3 DEF cancelEvent
    <3>2. ConnectAnswered'
      BY <2>2, <3>1 DEF ConnectInv, ConnectAnswered
    <3> QED
      BY <2>1, <3>2 DEF ConnectInv
  <2>4. CASE Registered(t.fd, t.ev)
    <3> DEFINE d == waiter[<<t.fd, t.ev>>].c
    <3>1. triggerEvent(t.fd, t.ev) /\ waiter[<<t.fd, t.ev>>] # Nobody
      BY <2>4 DEF cancelEvent, Registered
    <3>2. d \in Caller
      BY <2>2, <3>1, WaiterIsCaller DEF HookInv
    <3>3. misled'[d] \/ canceled[d]
      <4>1. CASE t \in MyTimers(d)
        BY <4>1 DEF MyTimers, HookInv, TimeoutInv, TimersMarked
      <4>2. CASE t \notin MyTimers(d)
        BY <2>4, <3>2, <4>2
      <4> QED
        BY <4>1, <4>2
    <3>4. ConnectAnswered'
      BY <2>2, <3>1, <3>3, ConnectTrigger DEF ConnectInv, HookInv
    <3> QED
      BY <2>1, <3>4 DEF ConnectInv
  <2> QED
    BY <2>3, <2>4
<1>21. ASSUME NEW fd \in Fd, NEW ev \in Event, Report(fd, ev) PROVE ConnectInv'
  <2>1. ListenerKept' /\ UsersApart'
    BY <1>21, ApartStutter DEF Report, fdVars, ConnectInv
  <2> DEFINE w == <<fd, ev>>
             d == waiter[w].c
  <2>2. /\ UNCHANGED <<pc, call, canceled, conn, misled>> /\ waiter[w] # Nobody
        /\ triggerEvent(fd, ev) /\ Ready(fd, ev) /\ w \in Fd \X Event
    BY <1>21 DEF Report, Registered
  <2>3. w = <<call[d].fd, EventOf(call[d].op)>>
    BY <2>2 DEF HookInv, ResumeInv, WaitersHeld
  <2>4. call[d].op = "connect" => conn[call[d].fd] \in {"done", "failed"}
    <3>1. fd = call[d].fd /\ ev = EventOf(call[d].op)
      BY <2>3
    <3> QED
      BY <2>2, <3>1 DEF EventOf, Ready
  <2>5. ConnectAnswered'
    BY <2>2, <2>4, ConnectTrigger DEF ConnectInv, HookInv
  <2> QED
    BY <2>1, <2>5 DEF ConnectInv
<1>22. ASSUME NEW fd \in Fd, Arrive(fd) PROVE ConnectInv'
  <2>1. ListenerKept' /\ UsersApart'
    BY <1>22, ApartStutter DEF Arrive, fdVars, ConnectInv
  <2>2. ConnectAnswered'
    BY <1>22 DEF Arrive, ConnectInv, ConnectAnswered
  <2> QED
    BY <2>1, <2>2 DEF ConnectInv
<1>23. ASSUME NEW fd \in Fd, Answer(fd) PROVE ConnectInv'
  <2>1. ListenerKept' /\ UsersApart'
    BY <1>23, ApartStutter DEF Answer, fdVars, ConnectInv
  <2>2. \A f \in Fd : conn[f] \in {"done", "failed"} => conn'[f] = conn[f]
    BY <1>23 DEF Answer, HookTypeOK
  <2>3. ConnectAnswered'
    BY <1>23, <2>2 DEF Answer, ConnectInv, ConnectAnswered, HookTypeOK, CallInfo
  <2> QED
    BY <2>1, <2>3 DEF ConnectInv
<1> QED
  BY <1>1, <1>2, <1>3, <1>4, <1>5, <1>6, <1>7, <1>8, <1>9, <1>10, <1>11, <1>12, <1>13, <1>14,
     <1>15, <1>16, <1>17, <1>18, <1>19, <1>20, <1>21, <1>22, <1>23 DEF Next, Proceed

\* Initially nobody is in a call.
LEMMA ConnectInitially == Init => ConnectInv
<1> SUFFICES ASSUME Init PROVE ConnectInv
  OBVIOUS
<1>1. opened[Listener] # 0
  BY HookAssumption DEF Init, FdInit
<1> QED
  BY <1>1 DEF Init, ConnectInv, ListenerKept, UsersApart, ConnectAnswered, Using, Closing

\* As long as no descriptor is closed under a caller that uses it, every call has its
\* descriptor to itself, and a wait for a connection ends with an answer, a timeout
\* or the callback of another call (hook.cpp:381-446).
THEOREM ConnectInvariant ==
    ASSUME ConcurrentClose = FALSE
    PROVE  Spec => [](HookInv /\ ConnectInv)
<1>1. HookInv /\ ConnectInv /\ [Next]_vars => ConnectInv'
  BY ConnectStep
<1> QED
  BY <1>1, ConnectInitially, HookInvariant, PTL DEF Spec

\* addEvent() then never meets its own assertion that nobody waits for the event yet
\* (iomanager.cpp:195).
THEOREM AddAssertion ==
    ASSUME ConcurrentClose = FALSE
    PROVE  Spec => []AddAllowed
<1>1. HookInv /\ ConnectInv => AddAllowed
  <2> SUFFICES ASSUME HookInv, ConnectInv, NEW c \in Caller, pc[c] = "add",
                      waiter[<<call[c].fd, EventOf(call[c].op)>>] # Nobody
               PROVE  FALSE
    BY DEF AddAllowed
  <2> DEFINE w == <<call[c].fd, EventOf(call[c].op)>>
             d == waiter[w].c
  <2>1. w \in Fd \X Event /\ call[c].op \in IoOp
    BY DEF HookInv, HookTypeOK, CallInfo, EventOf, Event, ResumeInv, PlacesOK
  <2>2. d \in Caller
    BY <2>1, WaiterIsCaller DEF HookInv
  <2>3. w = <<call[d].fd, EventOf(call[d].op)>> /\ pc[d] = "held" /\ call[d].op \in IoOp
    BY <2>1 DEF HookInv, ResumeInv, WaitersHeld
  <2>4. call[d].fd = call[c].fd /\ Using(d) /\ Using(c)
    BY <2>1, <2>3 DEF Using, IoOp
  <2> QED
    BY <2>2, <2>3, <2>4 DEF ConnectInv, UsersApart
<1> QED
  BY <1>1, ConnectInvariant, PTL

\* connect() reports success only for a connection that stands, unless the callback of
\* another call has ended its wait (hook.cpp:427-446).
THEOREM ConnectIsHonest ==
    ASSUME ConcurrentClose = FALSE
    PROVE  Spec => ConnectHonest
<1> DEFINE Honest == \A c \in Caller :
             result'[c] = "connected" /\ result[c] # "connected" /\ ~misled[c]
                => conn'[call[c].fd] = "done"
<1>1. ASSUME HookInv, ConnectInv, Next PROVE Honest
  <2> SUFFICES ASSUME NEW c \in Caller, result'[c] = "connected", result[c] # "connected",
                      ~misled[c]
               PROVE  conn'[call[c].fd] = "done"
    OBVIOUS
  <2>1. HookTypeOK
    BY <1>1 DEF HookInv
  <2>2. TryConnect(c) \/ ConnectResult(c)
    <3>1. ASSUME NEW d \in Caller, TryIO(d) \/ SocketOpen(d) \/ LookupCtx(d)
          PROVE  result'[c] = result[c] \/ result'[c] # "connected"
      BY <2>1, <3>1, TryShape, CreateShape, LookupShape DEF SocketOpen, HookTypeOK
    <3>2. ASSUME NEW d \in Caller, \/ Call(d) \/ GetRead(d) \/ GetWrite(d) \/ SetOption(d)
                                   \/ ArmTimer(d) \/ AddEvent(d) \/ Resume(d)
          PROVE  result'[c] = result[c] \/ result'[c] # "connected"
      BY <2>1, <3>2 DEF Call, GetRead, GetWrite, SetOption, ArmTimer, AddEvent, Resume, Return,
                        HookTypeOK
    <3>3. ASSUME NEW d \in Caller,
    \/ CheckCanceled(d) \/ CloseWake(d) \/ CloseDel(d) \/ CloseFd(d)
                                   \/ Expire(d) \/ RunCallback(d) \/ CancelWait(d)
          PROVE  result'[c] = result[c] \/ result'[c] # "connected"
      BY <2>1, <3>3 DEF CheckCanceled, CloseWake, CloseDel, CloseFd, Expire, RunCallback,
                        CancelWait, Return, HookTypeOK
    <3>4. ASSUME NEW fd \in Fd, (\E ev \in Event : Report(fd, ev)) \/ Arrive(fd) \/ Answer(fd)
          PROVE  result'[c] = result[c]
      BY <3>4 DEF Report, Arrive, Answer
    <3>5. ASSUME NEW d \in Caller, d # c, TryConnect(d) \/ ConnectResult(d)
          PROVE  result'[c] = result[c]
      BY <2>1, <3>5 DEF TryConnect, ConnectResult, Return, HookTypeOK
    <3> QED
      BY <1>1, <3>1, <3>2, <3>3, <3>4, <3>5 DEF Next, Proceed
  <2>3. CASE TryConnect(c)
    BY <2>1, <2>3 DEF TryConnect, Return, HookTypeOK, CallInfo
  <2>4. CASE ConnectResult(c)
    <3>1. conn' = conn /\ SoError(call[c].fd) = "connected" /\ pc[c] = "sockerr"
      BY <2>1, <2>4 DEF ConnectResult, Return, HookTypeOK
    <3>2. call[c].op = "connect"
      BY <1>1, <3>1 DEF HookInv, ResumeInv, PlacesOK
    <3>3. conn[call[c].fd] \in {"done", "failed"}
      BY <1>1, <3>1, <3>2 DEF ConnectInv, ConnectAnswered
    <3> QED
      BY <3>1, <3>3 DEF SoError
  <2> QED
    BY <2>2, <2>3, <2>4
<1>2. HookInv /\ ConnectInv /\ [Next]_vars => [Honest]_vars
  BY <1>1
<1> QED
  BY <1>2, ConnectInvariant, PTL DEF Spec, ConnectHonest

=============================================================================
