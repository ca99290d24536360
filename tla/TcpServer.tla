----------------------------- MODULE TcpServer -----------------------------
(***************************************************************************)
(* Class TcpServer (tcp_server.h, tcp_server.cpp): listening sockets, one  *)
(* accept coroutine per socket, and stop().                                *)
(*                                                                         *)
(* The accept coroutine calls the hooked accept(), of which the parts that *)
(* matter here are kept: it tries, suspends when nobody is there, and      *)
(* tries again whenever it is woken, by a connection or by cancelAll()     *)
(* (module Hook has the details).  A listening socket is closed when its   *)
(* last shared pointer goes: the one in m_listenSockets or the one bound   *)
(* into the accept task.                                                   *)
(***************************************************************************)
EXTENDS Naturals, FiniteSets

CONSTANTS
    Listen,        \* the addresses the server is bound to
    MaxClients     \* bound: connections per address

ASSUME TcpAssumption == MaxClients \in Nat

VARIABLES
    m_listenSockets,
    m_stopped,
    listening,       \* external: sockets the kernel has open
    acceptPc,        \* where each accept coroutine is
    cancelTask,      \* the task of stop() on m_acceptWorker
    backlog,         \* external: connections to be accepted
    came,            \* external: connections so far
    clients,         \* handleClient() tasks scheduled on m_worker
    lost             \* history: connections that accept() took and answered with an error

tcpVars == <<m_listenSockets, m_stopped, listening, acceptPc, cancelTask, backlog, came,
             clients, lost>>

AcceptPc == {"none", "queued", "test", "accept", "held", "got", "ended"}

TcpTypeOK ==
    /\ m_listenSockets \subseteq Listen
    /\ m_stopped \in BOOLEAN
    /\ listening \subseteq Listen
    /\ acceptPc \in [Listen -> AcceptPc]
    /\ cancelTask \in {"none", "queued", "done"}
    /\ backlog \in [Listen -> 0..MaxClients]
    /\ came \in [Listen -> 0..MaxClients]
    /\ clients \in [Listen -> 0..MaxClients]
    /\ lost \in [Listen -> 0..MaxClients]

TcpInit ==
    /\ m_listenSockets = {}
    /\ m_stopped = TRUE
    /\ listening = {}
    /\ acceptPc = [s \in Listen |-> "none"]
    /\ cancelTask = "none"
    /\ backlog = [s \in Listen |-> 0]
    /\ came = [s \in Listen |-> 0]
    /\ clients = [s \in Listen |-> 0]
    /\ lost = [s \in Listen |-> 0]

-----------------------------------------------------------------------------
(* A faulty variant: the loop of startAccept() does not look at m_stopped.  *)
LoopForever(s) == "accept"

-----------------------------------------------------------------------------
\* bind(): sockets that fail are left out, and if there is one, all go.
BindAll == \E failed \in SUBSET Listen :
    /\ m_stopped /\ m_listenSockets = {} /\ cancelTask = "none"
    /\ m_listenSockets' = IF failed = {} THEN Listen ELSE {}
    /\ listening' = m_listenSockets'
    /\ UNCHANGED <<m_stopped, acceptPc, cancelTask, backlog, came, clients, lost>>

\* start(): one accept task per socket; nothing when it runs already.
StartServer ==
    /\ m_listenSockets # {} /\ cancelTask = "none"
    /\ IF ~m_stopped THEN UNCHANGED <<m_stopped, acceptPc>>
       ELSE /\ m_stopped' = FALSE
            /\ acceptPc' = [s \in Listen |-> IF s \in m_listenSockets THEN "queued" ELSE acceptPc[s]]
    /\ UNCHANGED <<m_listenSockets, listening, cancelTask, backlog, came, clients, lost>>

\* stop(): the flag at once, the rest in a task.
StopServer ==
    /\ IF m_stopped THEN UNCHANGED <<m_stopped, cancelTask>>
       ELSE m_stopped' = TRUE /\ cancelTask' = "queued"
    /\ UNCHANGED <<m_listenSockets, listening, acceptPc, backlog, came, clients, lost>>

\* The accept coroutine ends and drops its pointer to the socket.
Leave(s) ==
    /\ acceptPc' = [acceptPc EXCEPT ![s] = "ended"]
    /\ listening' = IF s \in m_listenSockets THEN listening ELSE listening \ {s}

\* The task of stop(): wake the accept coroutines, forget the sockets.
CancelAccepts ==
    /\ cancelTask = "queued"
    /\ cancelTask' = "done"
    /\ acceptPc' = [s \in Listen |->
            IF s \in m_listenSockets /\ acceptPc[s] = "held" THEN "accept" ELSE acceptPc[s]]
    /\ m_listenSockets' = {}
    /\ listening' = {s \in listening : acceptPc[s] \notin {"none", "ended"}}
    /\ UNCHANGED <<m_stopped, backlog, came, clients, lost>>

\* startAccept(): the loop's condition.
LoopTest(s) == IF m_stopped THEN "ended" ELSE "accept"

AcceptLoop(s) ==
    /\ acceptPc[s] \in {"queued", "test"}
    /\ IF LoopTest(s) = "ended" THEN Leave(s)
       ELSE acceptPc' = [acceptPc EXCEPT ![s] = "accept"] /\ UNCHANGED listening
    /\ UNCHANGED <<m_listenSockets, m_stopped, cancelTask, backlog, came, clients, lost>>

\* The hooked accept(): a connection, or nobody there.
TryAccept(s) ==
    /\ acceptPc[s] = "accept"
    /\ \/ /\ backlog[s] > 0
          /\ backlog' = [backlog EXCEPT ![s] = @ - 1]
          /\ acceptPc' = [acceptPc EXCEPT ![s] = "got"]
       \/ /\ backlog[s] = 0
          /\ acceptPc' = [acceptPc EXCEPT ![s] = "held"]
          /\ UNCHANGED backlog
    /\ UNCHANGED <<m_listenSockets, m_stopped, listening, cancelTask, came, clients, lost>>

\* Or an error, after which startAccept() only writes a log entry: the connection
\* waits on (no descriptor is free), or it is gone (it was aborted, or init() does
\* not find the context of its descriptor).
AcceptError(s) ==
    /\ acceptPc[s] = "accept"
    /\ acceptPc' = [acceptPc EXCEPT ![s] = "test"]
    /\ \/ UNCHANGED <<backlog, lost>>
       \/ /\ backlog[s] > 0
          /\ backlog' = [backlog EXCEPT ![s] = @ - 1]
          /\ lost' = [lost EXCEPT ![s] = @ + 1]
    /\ UNCHANGED <<m_listenSockets, m_stopped, listening, cancelTask, came, clients>>

\* A waiting accept is woken by a connection.
AcceptReady(s) ==
    /\ acceptPc[s] = "held" /\ backlog[s] > 0
    /\ acceptPc' = [acceptPc EXCEPT ![s] = "accept"]
    /\ UNCHANGED <<m_listenSockets, m_stopped, listening, cancelTask, backlog, came, clients, lost>>

\* The client gets its receive timeout and a task of its own.
ScheduleClient(s) ==
    /\ acceptPc[s] = "got"
    /\ clients' = [clients EXCEPT ![s] = @ + 1]
    /\ acceptPc' = [acceptPc EXCEPT ![s] = "test"]
    /\ UNCHANGED <<m_listenSockets, m_stopped, listening, cancelTask, backlog, came, lost>>

\* External: somebody connects.
ClientComes(s) ==
    /\ s \in listening /\ came[s] < MaxClients
    /\ came' = [came EXCEPT ![s] = @ + 1]
    /\ backlog' = [backlog EXCEPT ![s] = @ + 1]
    /\ UNCHANGED <<m_listenSockets, m_stopped, listening, acceptPc, cancelTask, clients, lost>>

ServerStep(s) == AcceptLoop(s) \/ TryAccept(s) \/ AcceptError(s) \/ AcceptReady(s) \/ ScheduleClient(s)

TcpNext ==
    \/ BindAll \/ StartServer \/ StopServer \/ CancelAccepts
    \/ \E s \in Listen : ServerStep(s)
    \/ \E s \in Listen : ClientComes(s)

\* The scheduler runs what is queued.
TcpFairness == WF_tcpVars(CancelAccepts) /\ \A s \in Listen : WF_tcpVars(ServerStep(s))

-----------------------------------------------------------------------------
(* Properties.                                                             *)

\* stop() wakes each accept coroutine once, and the hooked accept() suspends it
\* again before it looks at m_stopped: the next client ends the loop.  A
\* stopped server on whose socket somebody connects leaves the accept loop and
\* lets the socket go (tcp_server.cpp:128-175).
AcceptLoopEnds == \A s \in Listen :
    (m_stopped /\ cancelTask # "none" /\ backlog[s] > 0) ~> (acceptPc[s] \in {"none", "ended"} /\ s \notin listening)

-----------------------------------------------------------------------------
(* The specification without fairness, and its invariant.                  *)

TcpSpec == TcpInit /\ [][TcpNext]_tcpVars

Accepting(s) == acceptPc[s] \notin {"none", "ended"}

\* A socket is open as long as the server or its accept coroutine points to it, and
\* no longer (tcp_server.cpp:128-175).
SocketsOwned == listening = m_listenSockets \cup {s \in Listen : Accepting(s)}

\* While the server runs every socket has an accept coroutine; before the first
\* start() there is none.
AcceptorsRun ==
    /\ ~m_stopped => cancelTask = "none" /\ \A s \in m_listenSockets : Accepting(s)
    /\ m_stopped /\ cancelTask = "none" => \A s \in Listen : acceptPc[s] = "none"
    /\ cancelTask = "done" => m_listenSockets = {}

\* Every connection waits, or its socket is in the hands of the accept coroutine, or
\* it has a task of its own, or accept() has answered with an error for it: exactly
\* one of these, so stop() and a round of the loop drop none (tcp_server.cpp:130-172).
ConnectionsCounted == \A s \in Listen :
    backlog[s] + clients[s] + lost[s] + (IF acceptPc[s] = "got" THEN 1 ELSE 0) = came[s]

TcpInv == TcpTypeOK /\ SocketsOwned /\ AcceptorsRun /\ ConnectionsCounted

\* accept() is never called on a socket that was closed, also when stop() forgets
\* the sockets between two rounds of the loop; and a socket that stop() has dealt
\* with and whose coroutine has ended is closed (tcp_server.cpp:128-175).
AcceptsOnOpen == \A s \in Listen :
    /\ acceptPc[s] \in {"accept", "held", "got"} => s \in listening
    /\ cancelTask = "done" /\ ~Accepting(s) => s \notin listening

=============================================================================
