------------------------------- MODULE Socket -------------------------------
(***************************************************************************)
(* Class Socket (socket.h, socket.cpp): one object and the descriptors it  *)
(* owns in the course of its life.  The object creates its descriptor when *)
(* bind() or connect() needs one, gives it up in close() and may create    *)
(* another one afterwards.  System calls may fail at every place where the *)
(* code looks at their result.                                             *)
(***************************************************************************)
EXTENDS Naturals

CONSTANTS
    Peer,          \* remote addresses
    NoAddr,        \* a model value: a null Address::ptr
    MaxOpened      \* bound: descriptors the object creates

ASSUME SocketAssumption == NoAddr \notin Peer /\ MaxOpened \in Nat /\ MaxOpened > 0

VARIABLES
    kind,            \* "TCP" or "UDP", "none" before the object exists
    m_fd,            \* 0 stands for -1, n for the n-th descriptor of the object
    m_isConnectd,
    m_localAddr,     \* the descriptor whose address was asked for, 0 when null
    m_remoteAddr,
    kBound,          \* external: the descriptor is bound
    kPeer,           \* external: whom the descriptor is connected to
    fdsOpened,       \* history: how many descriptors the object got
    fdsClosed,       \* history: how many of them were closed
    lastCall         \* the result of the last call that used the descriptor

sockVars == <<kind, m_fd, m_isConnectd, m_localAddr, m_remoteAddr, kBound, kPeer,
              fdsOpened, fdsClosed, lastCall>>

SockTypeOK ==
    /\ kind \in {"none", "TCP", "UDP"}
    /\ m_fd \in 0..MaxOpened
    /\ m_isConnectd \in BOOLEAN
    /\ m_localAddr \in 0..MaxOpened
    /\ m_remoteAddr \in Peer \cup {NoAddr}
    /\ kBound \in BOOLEAN
    /\ kPeer \in Peer \cup {NoAddr}
    /\ fdsOpened \in 0..MaxOpened /\ fdsClosed \in Nat
    /\ lastCall \in {"none", "refused", "descriptor", "bad descriptor"}

SockInit ==
    /\ kind = "none" /\ m_fd = 0 /\ m_isConnectd = FALSE
    /\ m_localAddr = 0 /\ m_remoteAddr = NoAddr
    /\ kBound = FALSE /\ kPeer = NoAddr
    /\ fdsOpened = 0 /\ fdsClosed = 0 /\ lastCall = "none"

-----------------------------------------------------------------------------
(* Faulty variants of the definitions below.                               *)

\* close() keeps the number of the descriptor.
CloseKeepsFd ==
    /\ fdsClosed' = fdsClosed + 1
    /\ m_isConnectd' = FALSE
    /\ kBound' = FALSE /\ kPeer' = NoAddr
    /\ UNCHANGED m_fd

-----------------------------------------------------------------------------
\* Socket(): CreateTCP leaves the descriptor to bind() and connect().
CreateTCP ==
    /\ kind = "none"
    /\ kind' = "TCP"
    /\ UNCHANGED <<m_fd, m_isConnectd, m_localAddr, m_remoteAddr, kBound, kPeer,
                   fdsOpened, fdsClosed, lastCall>>

\* CreateUDP, CreateUDPSocket: newSocket() at once, and m_isConnectd is set
\* whether or not it succeeded.
CreateUDP == \E got \in BOOLEAN :
    /\ kind = "none"
    /\ kind' = "UDP"
    /\ m_fd' = IF got THEN 1 ELSE 0
    /\ fdsOpened' = m_fd'
    /\ m_isConnectd' = TRUE
    /\ UNCHANGED <<m_localAddr, m_remoteAddr, kBound, kPeer, fdsClosed, lastCall>>

\* init(fd): the object that accept() creates takes over a connected descriptor.
InitAccepted == \E p \in Peer :
    /\ kind = "none"
    /\ kind' = "TCP"
    /\ m_fd' = 1 /\ fdsOpened' = 1
    /\ m_isConnectd' = TRUE
    /\ kBound' = TRUE /\ kPeer' = p
    /\ m_localAddr' = 1 /\ m_remoteAddr' = p
    /\ UNCHANGED <<fdsClosed, lastCall>>

\* newSocket() when there is no valid descriptor.
Ensured(fd) ==
    \/ m_fd # 0 /\ fd = m_fd
    \/ m_fd = 0 /\ fdsOpened < MaxOpened /\ fd = fdsOpened + 1
    \/ m_fd = 0 /\ fd = 0

\* getLocalAddress(), getRemoteAddress(): what was found first is kept.
LocalAddress(fd) == IF m_localAddr # 0 THEN m_localAddr ELSE fd
RemoteAddress(p) == IF m_remoteAddr # NoAddr THEN m_remoteAddr ELSE p

\* bind(): a wrong family and a failing system call leave the descriptor.
Bind == \E fd \in 0..MaxOpened, ok \in BOOLEAN :
    /\ kind # "none" /\ Ensured(fd)
    /\ m_fd' = fd
    /\ fdsOpened' = IF fd > fdsOpened THEN fd ELSE fdsOpened
    /\ IF fd # 0 /\ ok
       THEN kBound' = TRUE /\ m_localAddr' = LocalAddress(fd)
       ELSE UNCHANGED <<kBound, m_localAddr>>
    /\ UNCHANGED <<kind, m_isConnectd, m_remoteAddr, kPeer, fdsClosed, lastCall>>

\* close() of a descriptor the object has.
CloseDescriptor ==
    /\ fdsClosed' = fdsClosed + 1
    /\ m_fd' = 0
    /\ m_isConnectd' = FALSE
    /\ kBound' = FALSE /\ kPeer' = NoAddr

\* connect(), with the default timeout or with another: failure closes.
Connected(fd, p) ==
    /\ m_fd' = fd
    /\ m_isConnectd' = TRUE
    /\ kBound' = TRUE /\ kPeer' = p
    /\ m_remoteAddr' = RemoteAddress(p)
    /\ m_localAddr' = LocalAddress(fd)
    /\ UNCHANGED fdsClosed

SocketConnect == \E fd \in 0..MaxOpened, p \in Peer :
    /\ kind # "none" /\ Ensured(fd)
    /\ fdsOpened' = IF fd > fdsOpened THEN fd ELSE fdsOpened
    /\ \/ fd = 0 /\ UNCHANGED <<m_fd, m_isConnectd, m_localAddr, m_remoteAddr, kBound,
                                kPeer, fdsClosed>>
       \/ fd # 0 /\ m_fd' = fd      \* the family differs
          /\ UNCHANGED <<m_isConnectd, m_localAddr, m_remoteAddr, kBound, kPeer, fdsClosed>>
       \/ fd # 0 /\ kPeer = NoAddr /\ Connected(fd, p)
       \/ fd # 0 /\ CloseDescriptor /\ UNCHANGED <<m_localAddr, m_remoteAddr>>
    /\ UNCHANGED <<kind, lastCall>>

\* close(), and the destructor; a second call finds nothing to do.
SocketClose ==
    /\ kind # "none"
    /\ IF m_fd # 0 THEN CloseDescriptor
       ELSE m_isConnectd' = FALSE /\ UNCHANGED <<m_fd, kBound, kPeer, fdsClosed>>
    /\ UNCHANGED <<kind, m_localAddr, m_remoteAddr, fdsOpened, lastCall>>

\* send, sendTo, recv, recvFrom: only when connected.
Transfer ==
    /\ kind # "none"
    /\ lastCall' = IF ~m_isConnectd THEN "refused"
                   ELSE IF m_fd # 0 THEN "descriptor" ELSE "bad descriptor"
    /\ UNCHANGED <<kind, m_fd, m_isConnectd, m_localAddr, m_remoteAddr, kBound, kPeer,
                   fdsOpened, fdsClosed>>

SockNext ==
    \/ CreateTCP \/ CreateUDP \/ InitAccepted
    \/ Bind \/ SocketConnect \/ SocketClose
    \/ Transfer

SockSpec == SockInit /\ [][SockNext]_sockVars

-----------------------------------------------------------------------------
(* Properties.                                                             *)

\* Through any sequence of calls and failures the object owns at most one
\* descriptor, has closed every other one exactly once, and a TCP
\* socket is connected only with a descriptor, so that its transfers never use
\* -1 (socket.cpp:221-320).
SocketOwnsOne ==
    /\ m_fd = 0 => fdsOpened = fdsClosed
    /\ m_fd # 0 => fdsOpened = fdsClosed + 1
    /\ kind = "TCP" => (m_isConnectd => m_fd # 0) /\ lastCall # "bad descriptor"

\* With the types it is inductive once descriptors are numbered in order.
SockInv == SockTypeOK /\ SocketOwnsOne /\ m_fd \in {0, fdsOpened}
           /\ (kind = "none" => fdsOpened = 0 /\ m_fd = 0 /\ ~m_isConnectd /\ lastCall = "none")

=============================================================================
