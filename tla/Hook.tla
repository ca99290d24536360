------------------------------- MODULE Hook -------------------------------
(***************************************************************************)
(* The hooked system calls of kit_server (hook.h, hook.cpp): a blocking    *)
(* call made by a coroutine becomes a non-blocking attempt, a timer, a     *)
(* registration with the IO scheduler and a suspension.                    *)
(*                                                                         *)
(* A caller is a coroutine; several run at once on different threads, so   *)
(* their steps interleave.  Of IOManager only the interface is kept: who   *)
(* waits for which event of a descriptor (module IOManager shows that a    *)
(* registered coroutine is scheduled exactly once), and of TimerManager    *)
(* that an armed timer may expire unless it was cancelled before: it need  *)
(* not, since a poller that misses its millisecond does not hand it out    *)
(* (timer.cpp:243).  A timer's callback is a task of its own: it may be    *)
(* queued when the caller it belongs to has already returned.              *)
(***************************************************************************)
EXTENDS FdManager

CONSTANTS
    Caller,           \* coroutines that use hooked calls
    None,             \* a model value: nobody
    Listener,         \* a listening socket that exists from the start
    Connected,        \* a connected socket that may exist from the start
    ConcurrentClose,  \* may a descriptor be closed while another caller uses it?
    MaxCalls,         \* bound: calls of all callers together
    MaxInput          \* bound: how often a descriptor becomes readable

ASSUME HookAssumption ==
    /\ {Listener, Connected} \subseteq Fd /\ Listener < InitialSize
    /\ ConcurrentClose \in BOOLEAN /\ None \notin Caller
    /\ MaxCalls \in Nat /\ MaxInput \in Nat

Event == {"READ", "WRITE"}

VARIABLES
    pc,         \* where a caller is in its call
    call,       \* its call: operation, descriptor and which opening of it, whether it
                \* has a timeout, and its number
    canceled,   \* timer_info::canceled of the call
    woken,      \* the caller was scheduled by triggerEvent or by a sleep timer
    result,     \* what the last call returned
    waiter,     \* FdContext: who waits for an event, and for which opening
    timers,     \* timers armed, expired with their callback queued, or in the callback
    expired,    \* history: a timer of the caller's present call expired
    misled,     \* history: a callback of another call ended the wait of the present one
    input,      \* external: what there is to read or to accept
    arrived,    \* external: how much has arrived in all
    conn        \* external: state of the connection of a socket

hookVars == <<pc, call, canceled, woken, result, waiter, timers, expired,
              misled, input, arrived, conn>>
vars == <<fdVars, hookVars>>

Op == {"socket", "setsockopt", "fcntl", "recv", "accept", "connect", "close", "sleep"}
Pc == {"idle", "open", "get", "create", "lookup", "plain", "try", "arm", "add", "held",
       "check", "sockerr", "cancelAll", "del", "closing"}
Result == {"none", "ok", "connected", "error", "again", "timeout"}
TimerState == {"armed", "queued", "cancelling"}
CallInfo == [op : Op \cup {"none"}, fd : Fd, open : Nat, timed : BOOLEAN, n : Nat]
TimerInfo == [owner : Caller, n : Nat, fd : Fd, ev : Event \cup {"WAKE"}, st : TimerState]
NoCall == [op |-> "none", fd |-> Listener, open |-> 0, timed |-> FALSE, n |-> 0]
Nobody == [c |-> None, open |-> 0]

HookTypeOK ==
    /\ FdTypeOK
    /\ pc \in [Caller -> Pc]
    /\ call \in [Caller -> CallInfo]
    /\ canceled \in [Caller -> BOOLEAN]
    /\ woken \in [Caller -> BOOLEAN]
    /\ result \in [Caller -> Result]
    /\ waiter \in [Fd \X Event -> [c : Caller, open : Nat] \cup {Nobody}]
    /\ timers \subseteq TimerInfo
    /\ expired \in [Caller -> BOOLEAN]
    /\ misled \in [Caller -> BOOLEAN]
    /\ input \in [Fd -> Nat]
    /\ arrived \in [Fd -> 0..MaxInput]
    /\ conn \in [Fd -> {"none", "progress", "done", "failed"}]

Init ==
    /\ \E timed \in BOOLEAN, others \in SUBSET {Connected} : FdInit({Listener} \cup others, timed)
    /\ pc = [c \in Caller |-> "idle"]
    /\ call = [c \in Caller |-> NoCall]
    /\ canceled = [c \in Caller |-> FALSE]
    /\ woken = [c \in Caller |-> FALSE]
    /\ result = [c \in Caller |-> "none"]
    /\ waiter = [w \in Fd \X Event |-> Nobody]
    /\ timers = {}
    /\ expired = [c \in Caller |-> FALSE]
    /\ misled = [c \in Caller |-> FALSE]
    /\ input = [fd \in Fd |-> 0]
    /\ arrived = [fd \in Fd |-> 0]
    /\ conn = [fd \in Fd |-> IF fd # Listener /\ opened[fd] # 0 THEN "done" ELSE "none"]

\* The event a call waits for.
EventOf(op) == IF op = "connect" THEN "WRITE" ELSE "READ"

Goto(c, place) == pc' = [pc EXCEPT ![c] = place]
Return(c, r)   == Goto(c, "idle") /\ result' = [result EXCEPT ![c] = r]

\* The registration is one epoll knows: its descriptor was not closed since.
Registered(fd, ev) == waiter[<<fd, ev>>] # Nobody /\ waiter[<<fd, ev>>].open = opened[fd]
MyTimers(c) == {t \in timers : t.owner = c /\ t.n = call[c].n}
Ready(fd, ev) == IF ev = "READ" THEN input[fd] > 0 ELSE conn[fd] \in {"done", "failed"}

\* A caller is in a call on a descriptor: neither asleep nor before the kernel
\* has given socket() one.
Using(c) == pc[c] \notin {"idle", "open"} /\ call[c].op # "sleep"

\* Other callers are in a call on the descriptor, as it was opened last.
Users(c, fd) == {d \in Caller \ {c} : Using(d) /\ call[d].fd = fd
                                      /\ call[d].open = opened[fd]}
InUse(c, fd) == Users(c, fd) # {}
BeingClosed(c, fd) == \E d \in Users(c, fd) : call[d].op = "close"

-----------------------------------------------------------------------------
(* Faulty variants of the definitions below.                               *)

\* The callback does not ask whether its call is still the current one.
AlwaysValid(t) == ~canceled[t.owner]

\* close() does not remove the context.
CloseKeepsCtx(c) == "closing"

\* The timer only sets the flag and wakes nobody.
NoWake(fd, ev) == UNCHANGED <<waiter, woken>>

\* triggerEvent() leaves the registration in place.
WakeAndKeep(fd, ev) ==
    /\ woken' = [woken EXCEPT ![waiter[<<fd, ev>>].c] = TRUE]
    /\ UNCHANGED waiter

\* connect() does not look at SO_ERROR.
AnySocket(fd) == "connected"

-----------------------------------------------------------------------------
(* The interface of IOManager.                                             *)

\* FdContext::triggerEvent(): the waiter is scheduled, the registration goes.
triggerEvent(fd, ev) ==
    /\ woken' = [woken EXCEPT ![waiter[<<fd, ev>>].c] = TRUE]
    /\ waiter' = [waiter EXCEPT ![<<fd, ev>>] = Nobody]

\* cancelEvent(): without a registration in epoll it does nothing.
cancelEvent(fd, ev) ==
    IF Registered(fd, ev) THEN triggerEvent(fd, ev) ELSE UNCHANGED <<woken, waiter>>

\* cancelAll(): both events at once.
cancelAll(fd) ==
    LET live == {ev \in Event : Registered(fd, ev)} IN
    /\ woken' = [c \in Caller |-> woken[c] \/ \E ev \in live : waiter[<<fd, ev>>].c = c]
    /\ waiter' = [w \in Fd \X Event |->
                    IF w[1] = fd /\ w[2] \in live THEN Nobody ELSE waiter[w]]

\* epoll_ctl refuses a closed descriptor, and a modification of a
\* registration it no longer has.
EpollAccepts(fd, ev) ==
    /\ opened[fd] # 0
    /\ \A other \in Event \ {ev} : waiter[<<fd, other>>] # Nobody => Registered(fd, other)

-----------------------------------------------------------------------------
(* Calls.                                                                  *)

\* Two coroutines may not wait for the same event of a descriptor (addEvent
\* asserts it); whoever uses a descriptor has been given it by its creator.
\* Unless ConcurrentClose, nobody else uses a descriptor that is being closed.
MayCall(c, op, fd) ==
    CASE op \in {"socket", "sleep"} -> fd = Listener
      [] op = "accept" -> fd = Listener /\ ~InUse(c, fd)
      [] op = "close"  -> fd # Listener /\ opened[fd] # 0 /\ Get(fd) # NoCtx
                          /\ (~InUse(c, fd) \/ (ConcurrentClose /\ ~BeingClosed(c, fd)))
      [] OTHER -> opened[fd] # 0 /\ Get(fd) # NoCtx /\ ~InUse(c, fd)
                  /\ (op \in {"recv", "connect", "fcntl"} => fd # Listener)
                  /\ (op = "recv" => conn[fd] = "done")
                  /\ (op = "connect" => conn[fd] = "none")

Start(op) == CASE op = "socket" -> "open"
               [] op = "sleep" -> "arm"
               [] op = "close" -> "cancelAll"
               [] OTHER -> "lookup"

CallsMade == Cardinality({x \in Caller \X (1..MaxCalls) : x[2] <= call[x[1]].n})

Call(c) == \E op \in Op, fd \in Fd :
    /\ pc[c] = "idle"
    /\ CallsMade < MaxCalls
    /\ MayCall(c, op, fd)
    /\ call' = [call EXCEPT ![c] = [op |-> op, fd |-> fd, open |-> opened[fd],
                                    timed |-> FALSE, n |-> @.n + 1]]
    /\ canceled' = [canceled EXCEPT ![c] = FALSE]
    /\ expired' = [expired EXCEPT ![c] = FALSE]
    /\ misled' = [misled EXCEPT ![c] = FALSE]
    /\ result' = [result EXCEPT ![c] = "none"]
    /\ Goto(c, Start(op))
    /\ UNCHANGED <<fdVars, woken, waiter, timers, input, arrived, conn>>

\* The kernel creates a descriptor for socket() or accept(); the caller goes
\* on to get(fd, true).
Create(c, state) ==
    IF FreeFds = {}
    THEN Return(c, "error") /\ UNCHANGED <<opened, openings, call, conn>>
    ELSE LET fd == Lowest(FreeFds) IN
         /\ Open(fd)
         /\ call' = [call EXCEPT ![c] = [@ EXCEPT !.fd = fd, !.open = openings + 1]]
         /\ conn' = [conn EXCEPT ![fd] = state]
         /\ Goto(c, "get") /\ UNCHANGED result

SocketOpen(c) ==
    /\ pc[c] = "open"
    /\ Create(c, "none")
    /\ UNCHANGED <<m_fds, size, canceled, woken, waiter, timers, expired, misled, input, arrived>>

\* FdManager::get(fd, true): the look-up under the read lock ...
GetRead(c) ==
    /\ pc[c] = "get"
    /\ IF Get(call[c].fd) # NoCtx THEN Return(c, "ok") ELSE Goto(c, "create") /\ UNCHANGED result
    /\ UNCHANGED <<fdVars, call, canceled, woken, waiter, timers, expired,
                   misled, input, arrived, conn>>

\* ... and the creation under the write lock.
GetWrite(c) ==
    /\ pc[c] = "create"
    /\ GetCreate(call[c].fd)
    /\ Return(c, "ok")
    /\ UNCHANGED <<opened, openings, call, canceled, woken, waiter, timers, expired,
                   misled, input, arrived, conn>>

\* setsockopt(SO_RCVTIMEO) and fcntl(F_SETFL, O_NONBLOCK).
SetOption(c) ==
    /\ pc[c] = "lookup" /\ call[c].op \in {"setsockopt", "fcntl"}
    /\ LET fd == call[c].fd IN
       IF Get(fd) = NoCtx THEN UNCHANGED m_fds
       ELSE IF call[c].op = "setsockopt" THEN SetTimeout(fd, "READ", TRUE)
       ELSE SetUserNonblock(fd, TRUE)
    /\ Return(c, "ok")
    /\ UNCHANGED <<size, opened, openings, call, canceled, woken, waiter, timers,
                   expired, misled, input, arrived, conn>>

\* do_io() and connect_with_timeout() ask for the context.  Without one, or
\* when the user wants a non-blocking descriptor, the call goes straight to the
\* kernel ("plain" is a call that is not hooked).
LookupCtx(c) ==
    /\ pc[c] = "lookup" /\ call[c].op \in {"recv", "accept", "connect"}
    /\ LET ctx == Get(call[c].fd) IN
       IF ctx = NoCtx /\ call[c].op = "connect" THEN Return(c, "error") /\ UNCHANGED call
       ELSE IF ctx = NoCtx \/ ~ctx.isSocket \/ ctx.userNonblock
       THEN Goto(c, "plain") /\ UNCHANGED <<call, result>>
       ELSE /\ call' = [call EXCEPT ![c].timed = call[c].op = "connect" \/ ctx.timeout["READ"]]
            /\ Goto(c, "try") /\ UNCHANGED result
    /\ UNCHANGED <<fdVars, canceled, woken, waiter, timers, expired,
                   misled, input, arrived, conn>>

\* One attempt of the kernel call; EINTR repeats it and shows nothing here.
Attempt(c, blocked) ==
    LET fd == call[c].fd IN
    CASE opened[fd] = 0 ->
            Return(c, "error") /\ UNCHANGED <<opened, openings, call, conn, input>>
      [] opened[fd] # 0 /\ input[fd] = 0 ->
            blocked /\ UNCHANGED <<opened, openings, call, conn, input>>
      [] OTHER ->
            /\ input' = [input EXCEPT ![fd] = @ - 1]
            /\ IF call[c].op = "accept" THEN Create(c, "done")
               ELSE Return(c, "ok") /\ UNCHANGED <<opened, openings, call, conn>>

\* do_io() at RETRY.
TryIO(c) ==
    /\ pc[c] \in {"try", "plain"} /\ call[c].op \in {"recv", "accept"}
    /\ Attempt(c, IF pc[c] = "plain" THEN Return(c, "again") ELSE Goto(c, "arm") /\ UNCHANGED result)
    /\ UNCHANGED <<m_fds, size, canceled, woken, waiter, timers, expired, misled, arrived>>

\* connect_with_timeout() starts the connection.
TryConnect(c) == \E outcome \in {"progress", "done", "failed"} :
    /\ pc[c] \in {"try", "plain"} /\ call[c].op = "connect"
    /\ LET fd == call[c].fd IN
       IF opened[fd] = 0
       THEN Return(c, "error") /\ UNCHANGED conn
       ELSE /\ conn' = [conn EXCEPT ![fd] = outcome]
            /\ CASE outcome = "done"   -> Return(c, "connected")
                 [] outcome = "failed" -> Return(c, "error")
                 [] OTHER -> IF pc[c] = "plain" THEN Return(c, "again")
                             ELSE Goto(c, "arm") /\ UNCHANGED result
    /\ UNCHANGED <<fdVars, call, canceled, woken, waiter, timers, expired,
                   misled, input, arrived>>

\* The timer of this attempt, or that of sleep().
Timer(c) == [owner |-> c, n |-> call[c].n, fd |-> call[c].fd, st |-> "armed",
             ev |-> IF call[c].op = "sleep" THEN "WAKE" ELSE EventOf(call[c].op)]

\* addConditionTimer(), addTimer().
ArmTimer(c) ==
    /\ pc[c] = "arm"
    /\ timers' = IF call[c].timed \/ call[c].op = "sleep" THEN timers \cup {Timer(c)} ELSE timers
    /\ Goto(c, IF call[c].op = "sleep" THEN "held" ELSE "add")
    /\ UNCHANGED <<fdVars, call, canceled, woken, result, waiter, expired,
                   misled, input, arrived, conn>>

\* addEvent(), then YieldToHold(); on failure the timer is cancelled.  A
\* second waiter for the event fails an assertion.
AddEvent(c) ==
    /\ pc[c] = "add"
    /\ LET fd == call[c].fd
           ev == EventOf(call[c].op) IN
       /\ waiter[<<fd, ev>>] = Nobody
       /\ IF EpollAccepts(fd, ev)
          THEN /\ waiter' = [waiter EXCEPT ![<<fd, ev>>] = [c |-> c, open |-> opened[fd]]]
               /\ Goto(c, "held") /\ UNCHANGED <<timers, result>>
          ELSE /\ timers' = {t \in timers : t \notin MyTimers(c) \/ t.st # "armed"}
               /\ IF call[c].op = "connect" THEN Goto(c, "sockerr") /\ UNCHANGED result
                  ELSE Return(c, "error")
               /\ UNCHANGED waiter
    /\ UNCHANGED <<fdVars, call, canceled, woken, expired, misled, input, arrived, conn>>

\* The coroutine runs again and cancels its timer, which has no effect on
\* a callback that is queued already.
Resume(c) ==
    /\ pc[c] = "held" /\ woken[c]
    /\ woken' = [woken EXCEPT ![c] = FALSE]
    /\ timers' = {t \in timers : t \notin MyTimers(c) \/ t.st # "armed"}
    /\ IF call[c].op = "sleep" THEN Return(c, "ok") ELSE Goto(c, "check") /\ UNCHANGED result
    /\ UNCHANGED <<fdVars, call, canceled, waiter, expired, misled, input, arrived, conn>>

\* It looks whether it was the timer that woke it.
CheckCanceled(c) ==
    /\ pc[c] = "check"
    /\ IF canceled[c] THEN Return(c, "timeout")
       ELSE /\ Goto(c, IF call[c].op = "connect" THEN "sockerr" ELSE "try")
            /\ UNCHANGED result
    /\ UNCHANGED <<fdVars, call, canceled, woken, waiter, timers, expired,
                   misled, input, arrived, conn>>

\* getsockopt(SO_ERROR) decides whether the connection stands.
SoError(fd) == IF opened[fd] = 0 \/ conn[fd] = "failed" THEN "error" ELSE "connected"

ConnectResult(c) ==
    /\ pc[c] = "sockerr"
    /\ Return(c, SoError(call[c].fd))
    /\ UNCHANGED <<fdVars, call, canceled, woken, waiter, timers, expired,
                   misled, input, arrived, conn>>

\* close(): wake the waiters, drop the context, close the descriptor.
CloseNext(c) == IF pc[c] = "cancelAll" THEN "del" ELSE "closing"

CloseWake(c) ==
    /\ pc[c] = "cancelAll"
    /\ IF Get(call[c].fd) # NoCtx
       THEN cancelAll(call[c].fd) /\ Goto(c, CloseNext(c))
       ELSE UNCHANGED <<woken, waiter>> /\ Goto(c, "closing")
    /\ UNCHANGED <<fdVars, call, canceled, result, timers, expired, misled, input, arrived, conn>>

CloseDel(c) ==
    /\ pc[c] = "del"
    /\ Del(call[c].fd)
    /\ Goto(c, CloseNext(c))
    /\ UNCHANGED <<size, opened, openings, call, canceled, woken, result, waiter, timers,
                   expired, misled, input, arrived, conn>>

CloseFd(c) ==
    /\ pc[c] = "closing"
    /\ LET fd == call[c].fd IN
       /\ opened' = [opened EXCEPT ![fd] = 0]
       /\ input' = [input EXCEPT ![fd] = 0]
       /\ arrived' = [arrived EXCEPT ![fd] = 0]
       /\ conn' = [conn EXCEPT ![fd] = "none"]
    /\ Return(c, "ok")
    /\ UNCHANGED <<m_fds, size, openings, call, canceled, woken, waiter, timers, expired, misled>>

-----------------------------------------------------------------------------
(* Timers and the kernel.                                                  *)

\* A poller takes the expired timer out of the set and queues its callback.
Expire(c) == \E t \in timers :
    /\ t.owner = c /\ t.st = "armed"
    /\ timers' = (timers \ {t}) \cup {[t EXCEPT !.st = "queued"]}
    /\ expired' = [expired EXCEPT ![c] = @ \/ t.n = call[c].n]
    /\ UNCHANGED <<fdVars, pc, call, canceled, woken, result, waiter,
                   misled, input, arrived, conn>>

\* The weak pointer to timer_info can be locked: the call has not returned.
Valid(t) ==
    /\ t.n = call[t.owner].n
    /\ pc[t.owner] \in {"try", "arm", "add", "held", "check", "sockerr"}
    /\ ~canceled[t.owner]

\* The callback up to the assignment of canceled (that of sleep() is schedule()).
RunCallback(c) == \E t \in timers :
    /\ t.owner = c /\ t.st = "queued"
    /\ IF t.ev = "WAKE"
       THEN /\ woken' = [woken EXCEPT ![c] = TRUE]
            /\ timers' = timers \ {t}
            /\ UNCHANGED canceled
       ELSE /\ UNCHANGED woken
            /\ IF Valid(t)
               THEN /\ canceled' = [canceled EXCEPT ![c] = TRUE]
                    /\ timers' = (timers \ {t}) \cup {[t EXCEPT !.st = "cancelling"]}
               ELSE timers' = timers \ {t} /\ UNCHANGED canceled
    /\ UNCHANGED <<fdVars, pc, call, result, waiter, expired, misled, input, arrived, conn>>

\* The rest of the callback.
CancelWait(c) == \E t \in timers :
    /\ t.owner = c /\ t.st = "cancelling"
    /\ cancelEvent(t.fd, t.ev)
    /\ timers' = timers \ {t}
    /\ misled' = [d \in Caller |-> misled[d] \/ (/\ Registered(t.fd, t.ev)
                                                 /\ waiter[<<t.fd, t.ev>>].c = d
                                                 /\ t \notin MyTimers(d))]
    /\ UNCHANGED <<fdVars, pc, call, canceled, result, expired, input, arrived, conn>>

\* IOManager::idle reports a ready descriptor.
Report(fd, ev) ==
    /\ Registered(fd, ev) /\ Ready(fd, ev)
    /\ triggerEvent(fd, ev)
    /\ UNCHANGED <<fdVars, pc, call, canceled, result, timers, expired,
                   misled, input, arrived, conn>>

\* External: something to read or to accept; the outcome of a connection.
Arrive(fd) ==
    /\ opened[fd] # 0 /\ (fd = Listener \/ conn[fd] = "done")
    /\ arrived[fd] < MaxInput
    /\ arrived' = [arrived EXCEPT ![fd] = @ + 1]
    /\ input' = [input EXCEPT ![fd] = @ + 1]
    /\ UNCHANGED <<fdVars, pc, call, canceled, woken, result, waiter, timers, expired,
                   misled, conn>>

Answer(fd) == \E outcome \in {"done", "failed"} :
    /\ conn[fd] = "progress"
    /\ conn' = [conn EXCEPT ![fd] = outcome]
    /\ UNCHANGED <<fdVars, pc, call, canceled, woken, result, waiter, timers, expired,
                   misled, input, arrived>>

-----------------------------------------------------------------------------
\* The steps of a caller once it has begun a call.
Proceed(c) ==
    \/ SocketOpen(c) \/ GetRead(c) \/ GetWrite(c)
    \/ SetOption(c)
    \/ LookupCtx(c) \/ TryIO(c) \/ TryConnect(c)
    \/ ArmTimer(c) \/ AddEvent(c) \/ Resume(c) \/ CheckCanceled(c) \/ ConnectResult(c)
    \/ CloseWake(c) \/ CloseDel(c) \/ CloseFd(c)

Next ==
    \/ \E c \in Caller : Call(c) \/ Proceed(c)
    \/ \E c \in Caller : Expire(c) \/ RunCallback(c) \/ CancelWait(c)
    \/ \E fd \in Fd, ev \in Event : Report(fd, ev)
    \/ \E fd \in Fd : Arrive(fd) \/ Answer(fd)

\* Threads run the coroutines and callbacks that are queued, and idle threads
\* poll.  Nothing obliges a caller to call, a peer to answer, or a timer to be
\* handed out: listExpiredCb() passes over one whose millisecond was missed
\* (timer.cpp:243; ExpiredFires in TimerManager).
Fairness ==
    /\ \A c \in Caller :
          WF_vars(Proceed(c)) /\ WF_vars(RunCallback(c)) /\ WF_vars(CancelWait(c))
    /\ \A fd \in Fd, ev \in Event : WF_vars(Report(fd, ev))

Spec == Init /\ [][Next]_vars /\ Fairness

-----------------------------------------------------------------------------
(* Properties.                                                             *)

\* A coroutine is scheduled at most once per suspension: whoever is registered
\* or has a sleep timer is suspended and not yet scheduled, in one place only, whatever
\* timer, readiness and close() do (hook.cpp:181-215; Scheduler::schedule does not
\* test for a coroutine that is queued twice).
ResumedOnce ==
    /\ \A c \in Caller : woken[c] => pc[c] = "held"
    /\ \A c \in Caller :
         LET places == {w \in Fd \X Event : waiter[w].c = c} \cup
                       {t \in timers : t.owner = c /\ t.ev = "WAKE"}
         IN  places # {} => pc[c] = "held" /\ ~woken[c] /\ Cardinality(places) = 1

\* Every open descriptor that a hooked call has returned has a context made for this
\* opening, never one of an earlier descriptor of the same number, and no
\* closed descriptor has one; every context lies inside the table, however it
\* grew (fdmanager.cpp:107-140 against hook.cpp:485).
FreshContext ==
    /\ \A fd \in Fd : m_fds[fd] # NoCtx => fd < size
    /\ \A fd \in Fd :
        LET busy == {call[c].op : c \in {d \in Caller : pc[d] # "idle" /\ call[d].fd = fd}}
        IN  busy \cap {"socket", "accept", "close"} = {} => Get(fd).born = opened[fd]

\* A call fails with a timeout only if a timer of this very call expired; a
\* callback of an earlier call, still queued, does not do it (hook.cpp:183).
TimeoutIsOwn == \A c \in Caller : result[c] = "timeout" => expired[c]

\* addEvent never meets a registration of the same event, which it asserts
\* (iomanager.cpp:195).
AddAllowed == \A c \in Caller :
    pc[c] = "add" => waiter[<<call[c].fd, EventOf(call[c].op)>>] = Nobody

\* connect() reports success only for a connection that stands (hook.cpp:431-446),
\* unless the callback of another call on the descriptor, begun before that call
\* returned, has cancelled its wait (hook.cpp:396-397).
ConnectHonest ==
    [][\A c \in Caller :
        result'[c] = "connected" /\ result[c] # "connected" /\ ~misled[c]
            => conn'[call[c].fd] = "done"]_vars

\* "Only without an error is the connection really established" (hook.cpp:438):
\* connect() reports success only for a connection that stands, whatever woke it.
ConnectStands ==
    [][\A c \in Caller :
        result'[c] = "connected" /\ result[c] # "connected" => conn'[call[c].fd] = "done"]_vars

\* A coroutine that waits for a descriptor that is ready returns from the call,
\* and one whose timer was handed out while it waits does not wait for ever: the
\* callback finds its registration (hook.cpp:181-231).
Waiting(c) == pc[c] = "held" /\ ~woken[c]
CallReturns ==
    \A c \in Caller :
        /\ Waiting(c) /\ call[c].op # "sleep" /\ Ready(call[c].fd, EventOf(call[c].op))
               ~> pc[c] = "idle"
        /\ Waiting(c) /\ ~canceled[c] /\ (\E t \in MyTimers(c) : t.st = "queued")
               ~> ~Waiting(c)

\* "If no data arrives, the condition timer wakes the coroutine by force"
\* (hook.cpp:213-214): a call whose timer has expired returns.
TimeoutWakes == \A c \in Caller : (Waiting(c) /\ expired[c]) ~> pc[c] = "idle"

-----------------------------------------------------------------------------
(* Inductive invariants behind the safety properties.                      *)

IoOp == {"recv", "accept", "connect"}

\* The operation a caller is in, by the place it has reached.
PlacesOK == \A c \in Caller :
    /\ pc[c] = "open" => call[c].op = "socket"
    /\ pc[c] \in {"get", "create"} => call[c].op \in {"socket", "accept"}
    /\ pc[c] = "lookup" => call[c].op \in IoOp \cup {"setsockopt", "fcntl"}
    /\ pc[c] \in {"plain", "try", "add", "check"} => call[c].op \in IoOp
    /\ pc[c] \in {"arm", "held"} => call[c].op \in IoOp \cup {"sleep"}
    /\ pc[c] = "sockerr" => call[c].op = "connect"
    /\ pc[c] \in {"cancelAll", "del", "closing"} => call[c].op = "close"

\* A coroutine is registered or has a sleep timer only while it is suspended
\* and not yet scheduled, for the event its call waits for.
WaitersHeld == \A w \in Fd \X Event :
    LET c == waiter[w].c
    IN  waiter[w] # Nobody => /\ pc[c] = "held" /\ ~woken[c]
                              /\ call[c].op \in IoOp
                              /\ w = <<call[c].fd, EventOf(call[c].op)>>

SleepersHeld == \A t \in timers :
    t.ev = "WAKE" => /\ pc[t.owner] = "held" /\ ~woken[t.owner]
                     /\ call[t.owner].op = "sleep" /\ t.st # "cancelling"

OneSleepTimer == \A t, u \in timers :
    t.ev = "WAKE" /\ u.ev = "WAKE" /\ t.owner = u.owner => t = u

WokenHeld == \A c \in Caller : woken[c] => pc[c] = "held"

ResumeInv == PlacesOK /\ WaitersHeld /\ SleepersHeld /\ OneSleepTimer /\ WokenHeld

\* Timers that are not armed belong to a call whose timer expired, and one
\* past the test of its callback has left its mark there.
TimersMarked == \A t \in timers :
    LET c == t.owner
    IN  /\ t.n <= call[c].n
        /\ t.n = call[c].n /\ t.st # "armed" => expired[c]
        /\ t.n = call[c].n /\ t.st = "cancelling" => canceled[c]

TimeoutInv == TimersMarked /\ \A c \in Caller :
    /\ canceled[c] => expired[c]
    /\ result[c] = "timeout" => expired[c]

\* A descriptor is being made or closed by one caller at a time, and in between
\* its context is the one of its opening.
Making(c)   == pc[c] \in {"get", "create"}
Closing(c)  == pc[c] \in {"cancelAll", "del", "closing"}
Changing(c) == Making(c) \/ Closing(c)

ChangedByOne == \A c, d \in Caller :
    Changing(c) /\ Changing(d) /\ call[c].fd = call[d].fd => c = d

ChangedIsOpen == \A c \in Caller : Changing(c) =>
    /\ opened[call[c].fd] # 0 /\ call[c].open = opened[call[c].fd]
    /\ pc[c] # "cancelAll" /\ pc[c] # "del" => m_fds[call[c].fd] = NoCtx

CtxInTable == \A fd \in Fd :
    m_fds[fd] # NoCtx => fd < size /\ m_fds[fd].born # 0

Settled == \A fd \in Fd :
    \/ m_fds[fd].born = opened[fd]
    \/ \E c \in Caller : call[c].fd = fd /\ (Making(c) \/ pc[c] = "closing")

CtxInv == ChangedByOne /\ ChangedIsOpen /\ CtxInTable /\ Settled

HookInv == HookTypeOK /\ ResumeInv /\ TimeoutInv /\ CtxInv

\* Without concurrent close() every call has its descriptor to itself and open.
ListenerKept ==
    /\ opened[Listener] # 0
    /\ \A c \in Caller : Closing(c) => call[c].fd # Listener

UsersApart ==
    /\ \A c, d \in Caller : Using(c) /\ Using(d) /\ call[c].fd = call[d].fd => c = d
    /\ \A c \in Caller : Using(c) => /\ opened[call[c].fd] # 0
                                     /\ call[c].open = opened[call[c].fd]

\* A wait for a connection that is over ended with an answer, with the timeout
\* of the call, or by a callback of another call.
ConnectAnswered == \A c \in Caller :
    LET answered == conn[call[c].fd] \in {"done", "failed"} IN
    call[c].op = "connect" /\ ~misled[c] =>
        /\ pc[c] = "held" /\ woken[c] /\ ~canceled[c] => answered
        /\ pc[c] = "check" /\ ~canceled[c] => answered
        /\ pc[c] = "sockerr" => answered

ConnectInv == ListenerKept /\ UsersApart /\ ConnectAnswered

=============================================================================
