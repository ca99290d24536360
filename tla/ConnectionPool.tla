--------------------------- MODULE ConnectionPool ---------------------------
(***************************************************************************)
(* HttpConnectionPool (http/http_connection.h, http/http_connection.cpp):  *)
(* connections to one host, shared by the threads that send requests.      *)
(*                                                                         *)
(* Only the list m_connections is under the lock; m_total is an atomic     *)
(* counter that is changed before or after, so every change is a step.     *)
(* A connection is lent as a shared pointer whose deleter is ReleasePtr.   *)
(* What a request does to a connection is kept as its outcome: the stream  *)
(* is still usable, or recvResponse() has closed it.                       *)
(***************************************************************************)
EXTENDS Integers, Sequences, FiniteSets, SequencesExt

CONSTANTS
    Conn,           \* the connections that can be created (a bound)
    Client,         \* threads that send requests
    m_maxSize,
    m_maxRequest,
    m_maxAliveTime,
    Word,           \* 2^64: arithmetic on times is modulo Word
    NowMs,          \* GetCurrentMs()
    NoConn          \* a model value: the null pointer

\* Milliseconds since 1970 exceed any uint32_t.
ASSUME PoolAssumption ==
    /\ m_maxSize \in Nat /\ m_maxRequest \in Nat
    /\ m_maxAliveTime \in Nat /\ NowMs \in Nat /\ Word \in Nat
    /\ m_maxAliveTime <= NowMs /\ NowMs < Word
    /\ NoConn \notin Conn
    /\ IsFiniteSet(Conn) /\ IsFiniteSet(Client)

VARIABLES
    m_connections,   \* idle connections
    m_total,         \* the atomic counter
    conns,           \* per connection: exists, m_isConnectd, m_requestCount
    clientPc,        \* where a thread is in getConnection(), doRequest() or ReleasePtr()
    lent,            \* con_ptr
    stale            \* invalid_connections

poolVars == <<m_connections, m_total, conns, clientPc, lent, stale>>

NoObject == [live |-> FALSE, connected |-> FALSE, requests |-> 0]
ClientPc == {"idle", "delete", "subtract", "connect", "count", "request", "release",
             "destroy", "forget", "return"}

PoolTypeOK ==
    /\ m_connections \in Seq(Conn)
    /\ m_total \in Int
    /\ conns \in [Conn -> [live : BOOLEAN, connected : BOOLEAN, requests : Nat]]
    /\ clientPc \in [Client -> ClientPc]
    /\ lent \in [Client -> Conn \cup {NoConn}]
    /\ stale \in [Client -> SUBSET Conn]

PoolInit ==
    /\ m_connections = <<>>
    /\ m_total = 0
    /\ conns = [c \in Conn |-> NoObject]
    /\ clientPc = [t \in Client |-> "idle"]
    /\ lent = [t \in Client |-> NoConn]
    /\ stale = [t \in Client |-> {}]

-----------------------------------------------------------------------------
(* Faulty variant of a definition below.                                   *)

\* The limit is one too high.
OverLimitByOne == m_total > m_maxSize + 1

-----------------------------------------------------------------------------
\* m_createTime is initialised with -1 and never set; the sum wraps.
CreateTime == Word - 1
Expired == (CreateTime + m_maxAliveTime) % Word >= NowMs
Usable(c) == conns[c].connected /\ ~Expired

\* What is left of the list when the first n connections were taken.
Rest(n) == SubSeq(m_connections, n + 1, Len(m_connections))

\* getConnection(), the part under the lock: connections that are not usable
\* are collected until one is.
TakeConnection(t) ==
    /\ clientPc[t] = "idle"
    /\ LET good == {i \in DOMAIN m_connections : Usable(m_connections[i])}
           n    == IF good = {} THEN Len(m_connections)
                   ELSE CHOOSE i \in good : \A j \in good : i <= j
           bad  == {i \in 1..n : i \notin good}
       IN  /\ lent' = [lent EXCEPT ![t] = IF good = {} THEN NoConn ELSE m_connections[n]]
           /\ stale' = [stale EXCEPT ![t] = {m_connections[i] : i \in bad}]
           /\ m_connections' = Rest(n)
    /\ clientPc' = [clientPc EXCEPT ![t] = "delete"]
    /\ UNCHANGED <<m_total, conns>>

\* The collected connections are deleted ...
DeleteStale(t) ==
    /\ clientPc[t] = "delete"
    /\ conns' = [c \in Conn |-> IF c \in stale[t] THEN NoObject ELSE conns[c]]
    /\ clientPc' = [clientPc EXCEPT ![t] = "subtract"]
    /\ UNCHANGED <<m_connections, m_total, lent, stale>>

\* ... and subtracted.
SubtractStale(t) ==
    /\ clientPc[t] = "subtract"
    /\ m_total' = m_total - Cardinality(stale[t])
    /\ stale' = [stale EXCEPT ![t] = {}]
    /\ clientPc' = [clientPc EXCEPT ![t] = IF lent[t] = NoConn THEN "connect" ELSE "request"]
    /\ UNCHANGED <<m_connections, conns, lent>>

\* No idle connection: look up the address, create a socket, connect.  Any
\* of the three may fail, and doRequest() gives up.
ConnectFails(t) ==
    /\ clientPc[t] = "connect"
    /\ clientPc' = [clientPc EXCEPT ![t] = "idle"]
    /\ UNCHANGED <<m_connections, m_total, conns, lent, stale>>

Connect(t) == \E c \in Conn :
    /\ clientPc[t] = "connect"
    /\ ~conns[c].live
    /\ conns' = [conns EXCEPT ![c] = [live |-> TRUE, connected |-> TRUE, requests |-> 0]]
    /\ lent' = [lent EXCEPT ![t] = c]
    /\ clientPc' = [clientPc EXCEPT ![t] = "count"]
    /\ UNCHANGED <<m_connections, m_total, stale>>

CountConnection(t) ==
    /\ clientPc[t] = "count"
    /\ m_total' = m_total + 1
    /\ clientPc' = [clientPc EXCEPT ![t] = "request"]
    /\ UNCHANGED <<m_connections, conns, lent, stale>>

\* doRequest(): the request is answered, or could not be sent (the stream
\* stays open), or recvResponse() failed and closed the stream.
DoRequest(t) == \E open \in BOOLEAN :
    /\ clientPc[t] = "request"
    /\ conns' = [conns EXCEPT ![lent[t]].connected = open]
    /\ clientPc' = [clientPc EXCEPT ![t] = "release"]
    /\ UNCHANGED <<m_connections, m_total, lent, stale>>

OverLimit == m_total > m_maxSize

\* ReleasePtr(): counts the request and decides; the counter is read without
\* the lock.
Release(t) ==
    /\ clientPc[t] = "release"
    /\ LET c == lent[t]
           n == conns[c].requests + 1
       IN  /\ conns' = [conns EXCEPT ![c].requests = n]
           /\ clientPc' = [clientPc EXCEPT ![t] =
                IF ~Usable(c) \/ n > m_maxRequest \/ OverLimit THEN "destroy" ELSE "return"]
    /\ UNCHANGED <<m_connections, m_total, lent, stale>>

DestroyConnection(t) ==
    /\ clientPc[t] = "destroy"
    /\ conns' = [conns EXCEPT ![lent[t]] = NoObject]
    /\ clientPc' = [clientPc EXCEPT ![t] = "forget"]
    /\ lent' = [lent EXCEPT ![t] = NoConn]
    /\ UNCHANGED <<m_connections, m_total, stale>>

UncountConnection(t) ==
    /\ clientPc[t] = "forget"
    /\ m_total' = m_total - 1
    /\ clientPc' = [clientPc EXCEPT ![t] = "idle"]
    /\ UNCHANGED <<m_connections, conns, lent, stale>>

ReturnConnection(t) ==
    /\ clientPc[t] = "return"
    /\ m_connections' = Append(m_connections, lent[t])
    /\ lent' = [lent EXCEPT ![t] = NoConn]
    /\ clientPc' = [clientPc EXCEPT ![t] = "idle"]
    /\ UNCHANGED <<m_total, conns, stale>>

PoolNext == \E t \in Client :
    \/ TakeConnection(t) \/ DeleteStale(t) \/ SubtractStale(t)
    \/ ConnectFails(t) \/ Connect(t) \/ CountConnection(t)
    \/ DoRequest(t) \/ Release(t)
    \/ DestroyConnection(t) \/ UncountConnection(t) \/ ReturnConnection(t)

PoolSpec == PoolInit /\ [][PoolNext]_poolVars

-----------------------------------------------------------------------------
(* Properties.                                                             *)

\* A connection is in the list once, or lent to one thread, and whatever is
\* reachable has not been deleted.
OneOwner ==
    /\ IsInjective(m_connections)
    /\ \A c \in Conn :
        LET owners == {t \in Client : lent[t] = c \/ (c \in stale[t] /\ clientPc[t] = "delete")}
            idle   == c \in Range(m_connections)
        IN  /\ Cardinality(owners) <= 1
            /\ ~(idle /\ owners # {})
            /\ conns[c].live <=> (idle \/ owners # {})

\* There are never more idle connections than m_maxSize, and the counter is
\* exact up to the changes threads have still to make.
WithinLimit ==
    LET Late(p) == Cardinality({t \in Client : clientPc[t] = p})
    IN  /\ Len(m_connections) <= m_maxSize
        /\ m_total = Cardinality({c \in Conn : conns[c].live}) - Late("count") + Late("forget")

\* In every order in which threads take connections, give them back and update
\* m_total, a connection has one owner (http_connection.cpp:433-456, 642-661),
\* and "what is put back beyond the limit is released at once"
\* (http_connection.h:357), although m_total is changed outside the lock.
PoolSound == OneOwner /\ WithinLimit

-----------------------------------------------------------------------------
(* The inductive invariant.                                                *)

\* An idle connection is usable, so getConnection() never collects any.
IdleUsable ==
    /\ \A c \in Range(m_connections) : Usable(c)
    /\ \A t \in Client : stale[t] = {}

\* Where a thread has a connection.
LentAt == \A t \in Client :
    /\ clientPc[t] \in {"idle", "connect", "forget"} => lent[t] = NoConn
    /\ clientPc[t] \in {"count", "request", "release", "destroy", "return"} => lent[t] # NoConn
    /\ clientPc[t] = "return" => Usable(lent[t])

\* A connection is in the list or lent, once, or has been deleted.
Owned ==
    /\ IsInjective(m_connections)
    /\ \A t, u \in Client : lent[t] = lent[u] /\ lent[t] # NoConn => t = u
    /\ \A t \in Client : lent[t] \notin Range(m_connections)
    /\ \A c \in Conn : conns[c].live <=> \/ c \in Range(m_connections)
                                          \/ \E t \in Client : lent[t] = c

\* The threads whose connection m_total counts, and those that have one.
Counted == {t \in Client :
    \/ clientPc[t] \in {"request", "release", "destroy", "forget", "return"}
    \/ clientPc[t] \in {"delete", "subtract"} /\ lent[t] # NoConn}
Holders   == {t \in Client : lent[t] # NoConn}
Returning == {t \in Client : clientPc[t] = "return"}
Live      == {c \in Conn : conns[c].live}

TotalExact ==
    /\ m_total = Len(m_connections) + Cardinality(Counted)
    /\ Cardinality(Live) = Len(m_connections) + Cardinality(Holders)
    /\ Len(m_connections) + Cardinality(Returning) <= m_maxSize

PoolInv == PoolTypeOK /\ IdleUsable /\ LentAt /\ Owned /\ TotalExact

=============================================================================
