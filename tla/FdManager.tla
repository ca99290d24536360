----------------------------- MODULE FdManager -----------------------------
(***************************************************************************)
(* Descriptor contexts of kit_server: classes FdCtx and FdManager          *)
(* (fdmanager.h, fdmanager.cpp).  A hooked call finds in the table m_fds   *)
(* whether a descriptor is a socket, whether the user made it non-blocking *)
(* and what its timeouts are.                                              *)
(*                                                                         *)
(* get() without creation, del() and the setters are single steps (one     *)
(* critical section each); get(fd, true) has a gap between the read lock   *)
(* and the write lock, so it is two operators that a caller takes one      *)
(* after the other.  The kernel's table of open descriptors is external.   *)
(***************************************************************************)
EXTENDS Naturals, FiniteSets

CONSTANTS
    Fd,           \* descriptor numbers the kernel may hand out
    InitialSize   \* m_fds.resize(64) of the constructor

\* fd * 1.5 exceeds fd only from 2 on.
ASSUME FdAssumption == Fd \subseteq Nat /\ Fd # {} /\ InitialSize \in Nat \ {0, 1}

VARIABLES
    m_fds,      \* the table: a context or NoCtx for each descriptor
    size,       \* m_fds.size()
    opened,     \* external: 0 when closed, else which of all openings this is
    openings    \* external: how many descriptors were opened so far

fdVars == <<m_fds, size, opened, openings>>

NoCtx == [born |-> 0]

\* FdCtx.  born tells contexts of one descriptor number apart: the opening
\* that fstat() saw in init(), 0 when it failed and the context is no socket.
\* A timeout is either there (TRUE) or -1 (FALSE).
FdCtx == [born : Nat, isSocket : BOOLEAN, userNonblock : BOOLEAN,
          sysNonblock : BOOLEAN, timeout : [{"READ", "WRITE"} -> BOOLEAN]]

\* FdCtx::init(): a socket is made non-blocking in the kernel.
NewCtx(fd) ==
    LET socket == opened[fd] # 0 IN
    [born |-> opened[fd], isSocket |-> socket, userNonblock |-> FALSE,
     sysNonblock |-> socket, timeout |-> [e \in {"READ", "WRITE"} |-> FALSE]]

FdTypeOK ==
    /\ m_fds \in [Fd -> FdCtx \cup {NoCtx}]
    /\ size \in Nat \ {0, 1}
    /\ opened \in [Fd -> 0..openings]
    /\ openings \in Nat

\* m_fds.resize(fd * 1.5).
Grown(fd) == (fd * 3) \div 2

\* Some descriptors are open already, with or without a receive timeout.
FdInit(open, timed) ==
    /\ opened = [fd \in Fd |-> IF fd \in open THEN 1 ELSE 0]
    /\ m_fds = [fd \in Fd |-> IF fd \notin open THEN NoCtx
                               ELSE [NewCtx(fd) EXCEPT !.timeout["READ"] = timed]]
    /\ size = IF \A fd \in open : fd < InitialSize THEN InitialSize
               ELSE Grown(CHOOSE fd \in open : \A other \in open : other <= fd)
    /\ openings = 1

\* get(fd): under the read lock.
Get(fd) == IF fd < size THEN m_fds[fd] ELSE NoCtx

\* get(fd, true) after the read lock was given up: a context is created
\* whatever another thread did in between.
GetCreate(fd) ==
    /\ size' = IF fd >= size THEN Grown(fd) ELSE size
    /\ m_fds' = [m_fds EXCEPT ![fd] = NewCtx(fd)]

\* del(fd).
Del(fd) == m_fds' = IF fd < size THEN [m_fds EXCEPT ![fd] = NoCtx] ELSE m_fds

\* setTimeout(), setUserNonblock(): through the shared pointer.
SetTimeout(fd, ev, on) == m_fds' = [m_fds EXCEPT ![fd].timeout[ev] = on]
SetUserNonblock(fd, on) == m_fds' = [m_fds EXCEPT ![fd].userNonblock = on]

\* External: the kernel hands out the lowest free number.
Lowest(S) == CHOOSE fd \in S : \A other \in S : fd <= other
FreeFds == {fd \in Fd : opened[fd] = 0}
Open(fd) ==
    /\ openings' = openings + 1
    /\ opened' = [opened EXCEPT ![fd] = openings + 1]

=============================================================================
