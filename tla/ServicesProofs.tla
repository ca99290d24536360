--------------------------- MODULE ServicesProofs ---------------------------
(***************************************************************************)
(* Proofs about the services: the descriptors of a Socket, the fixed-size  *)
(* transfers of a Stream, the connections of an HttpConnectionPool, and    *)
(* the configuration.  The four specifications share no variable.          *)
(***************************************************************************)
EXTENDS Socket, Stream, ConnectionPool, Config, FiniteSetTheorems, SequenceTheorems,
        WellFoundedInduction, TLAPS

-----------------------------------------------------------------------------
(* Socket *)

\* A Socket starts with its invariant.
LEMMA SockInitInv == SockInit => SockInv
<1> SUFFICES ASSUME SockInit PROVE SockInv
  OBVIOUS
<1>1. m_isConnectd \in BOOLEAN /\ kBound \in BOOLEAN
  BY Zenon DEF SockInit
<1> QED
  BY <1>1, SocketAssumption DEF SockInit, SockInv, SockTypeOK, SocketOwnsOne

\* The two flags stay truth values.
LEMMA SockFlags ==
    ASSUME m_isConnectd \in BOOLEAN, kBound \in BOOLEAN, [SockNext]_sockVars
    PROVE  m_isConnectd' \in BOOLEAN /\ kBound' \in BOOLEAN
<1>1. CASE CreateTCP
  BY <1>1, Zenon DEF CreateTCP
<1>2. CASE CreateUDP
  BY <1>2, Zenon DEF CreateUDP
<1>3. CASE InitAccepted
  BY <1>3, Zenon DEF InitAccepted
<1>4. CASE Bind
  BY <1>4, Zenon DEF Bind
<1>5. CASE SocketConnect
  BY <1>5, Zenon DEF SocketConnect, Connected, CloseDescriptor
<1>6. CASE SocketClose
  BY <1>6, Zenon DEF SocketClose, CloseDescriptor
<1>7. CASE Transfer
  BY <1>7, Zenon DEF Transfer
<1>8. CASE UNCHANGED sockVars
  BY <1>8, Zenon DEF sockVars
<1> QED
  BY <1>1, <1>2, <1>3, <1>4, <1>5, <1>6, <1>7, <1>8 DEF SockNext

\* newSocket() leaves a descriptor that is the object's last, or none.
LEMMA EnsuredDescriptor ==
    ASSUME SockInv, NEW fd \in 0..MaxOpened, Ensured(fd),
           fdsOpened' = IF fd > fdsOpened THEN fd ELSE fdsOpened
    PROVE  /\ fdsOpened' \in 0..MaxOpened
           /\ fd # 0 => fd = fdsOpened' /\ fdsOpened' = fdsClosed + 1
           /\ fd = 0 => m_fd = 0 /\ fdsOpened' = fdsOpened
           /\ m_fd # 0 => fd = m_fd
<1>1. /\ MaxOpened \in Nat /\ fdsOpened \in 0..MaxOpened /\ fdsClosed \in Nat
      /\ m_fd = 0 => fdsOpened = fdsClosed
      /\ m_fd # 0 => fdsOpened = fdsClosed + 1 /\ m_fd = fdsOpened
  BY SocketAssumption DEF SockInv, SockTypeOK, SocketOwnsOne
<1>2. fd > fdsOpened => fdsOpened' = fd
  OBVIOUS
<1>3. ~(fd > fdsOpened) => fdsOpened' = fdsOpened
  OBVIOUS
<1> QED
  BY <1>1, <1>2, <1>3 DEF Ensured

\* What close() leaves.
LEMMA DescriptorClosed ==
    ASSUME CloseDescriptor
    PROVE  m_fd' = 0 /\ fdsClosed' = fdsClosed + 1 /\ kPeer' = NoAddr /\ ~m_isConnectd'
BY DEF CloseDescriptor

\* Every operation of a Socket keeps its invariant.
LEMMA SockStep == SockInv /\ [SockNext]_sockVars => SockInv'
<1> SUFFICES ASSUME SockInv, [SockNext]_sockVars PROVE SockInv'
  OBVIOUS
<1> USE SocketAssumption
<1>0. m_isConnectd' \in BOOLEAN /\ kBound' \in BOOLEAN
  BY SockFlags DEF SockInv, SockTypeOK
<1>1. CASE CreateTCP
  BY <1>0, <1>1 DEF SockInv, SockTypeOK, SocketOwnsOne, CreateTCP
<1>2. CASE CreateUDP
  <2>1. m_fd' \in {0, 1} /\ fdsOpened' = m_fd'
    BY <1>2 DEF CreateUDP
  <2>2. /\ kind = "none" /\ kind' = "UDP"
        /\ UNCHANGED <<m_localAddr, m_remoteAddr, kPeer, fdsClosed, lastCall>>
    BY <1>2 DEF CreateUDP
  <2> QED
    BY <1>0, <2>1, <2>2 DEF SockInv, SockTypeOK, SocketOwnsOne
<1>3. CASE InitAccepted
  BY <1>0, <1>3 DEF SockInv, SockTypeOK, SocketOwnsOne, InitAccepted
<1>4. CASE Bind
  <2>1. PICK fd \in 0..MaxOpened : Ensured(fd) /\ m_fd' = fd
            /\ fdsOpened' = IF fd > fdsOpened THEN fd ELSE fdsOpened
    BY <1>4 DEF Bind
  <2>2. m_localAddr' \in 0..MaxOpened
    BY <1>4 DEF Bind, LocalAddress, SockInv, SockTypeOK
  <2>3. kind # "none" /\ UNCHANGED <<kind, m_isConnectd, m_remoteAddr, kPeer, fdsClosed,
  lastCall>>
    BY <1>4 DEF Bind
  <2>4. /\ fdsOpened' \in 0..MaxOpened
        /\ fd # 0 => fd = fdsOpened' /\ fdsOpened' = fdsClosed + 1
        /\ fd = 0 => m_fd = 0 /\ fdsOpened' = fdsOpened
        /\ m_fd # 0 => fd = m_fd
    BY <2>1, EnsuredDescriptor
  <2>5. m_fd' = fd
    BY <2>1
  <2> QED
    BY <1>0, <2>2, <2>3, <2>4, <2>5 DEF SockInv, SockTypeOK, SocketOwnsOne
<1>5. CASE SocketConnect
  <2>1. PICK fd \in 0..MaxOpened, p \in Peer :
          /\ Ensured(fd) /\ kind # "none" /\ UNCHANGED <<kind, lastCall>>
          /\ fdsOpened' = IF fd > fdsOpened THEN fd ELSE fdsOpened
          /\ \/ fd = 0 /\ UNCHANGED <<m_fd, m_isConnectd, m_localAddr, m_remoteAddr, kBound,
                                      kPeer, fdsClosed>>
             \/ fd # 0 /\ m_fd' = fd
                /\ UNCHANGED <<m_isConnectd, m_localAddr, m_remoteAddr, kBound, kPeer, fdsClosed>>
             \/ fd # 0 /\ kPeer = NoAddr /\ Connected(fd, p)
             \/ fd # 0 /\ CloseDescriptor /\ UNCHANGED <<m_localAddr, m_remoteAddr>>
    BY <1>5 DEF SocketConnect
  <2>2. /\ fdsOpened' \in 0..MaxOpened
        /\ fd # 0 => fd = fdsOpened' /\ fdsOpened' = fdsClosed + 1
        /\ fd = 0 => m_fd = 0 /\ fdsOpened' = fdsOpened
        /\ m_fd # 0 => fd = m_fd
    BY <2>1, EnsuredDescriptor
  <2>3. kind # "none" /\ kind' = kind /\ lastCall' = lastCall
    BY <2>1
  <2>4. CASE fd = 0 /\ UNCHANGED <<m_fd, m_isConnectd, m_localAddr, m_remoteAddr, kBound,
                                   kPeer, fdsClosed>>
    BY <1>0, <2>2, <2>3, <2>4 DEF SockInv, SockTypeOK, SocketOwnsOne
  <2>5. CASE fd # 0 /\ m_fd' = fd
             /\ UNCHANGED <<m_isConnectd, m_localAddr, m_remoteAddr, kBound, kPeer, fdsClosed>>
    BY <1>0, <2>2, <2>3, <2>5 DEF SockInv, SockTypeOK, SocketOwnsOne
  <2>6. CASE fd # 0 /\ Connected(fd, p)
    <3>1. m_localAddr' \in 0..MaxOpened
      BY <2>6 DEF Connected, LocalAddress, SockInv, SockTypeOK
    <3>2. m_remoteAddr' \in Peer \cup {NoAddr} /\ kPeer' \in Peer \cup {NoAddr}
      BY <2>6 DEF Connected, RemoteAddress, SockInv, SockTypeOK
    <3>3. m_fd' = fd /\ fd # 0 /\ fdsClosed' = fdsClosed
      BY <2>6 DEF Connected
    <3> QED
      BY <1>0, <2>2, <2>3, <3>1, <3>2, <3>3 DEF SockInv, SockTypeOK, SocketOwnsOne
  <2>7. CASE fd # 0 /\ CloseDescriptor /\ UNCHANGED <<m_localAddr, m_remoteAddr>>
    <3>1. /\ m_fd' = 0 /\ fdsClosed' = fdsClosed + 1 /\ kPeer' = NoAddr /\ ~m_isConnectd'
          /\ fd # 0 /\ UNCHANGED <<m_localAddr, m_remoteAddr>>
      BY <2>7, DescriptorClosed
    <3>2. SockTypeOK'
      <4>1. fdsClosed' \in Nat
        <5>1. fdsClosed \in Nat
          BY DEF SockInv, SockTypeOK
        <5>2. fdsClosed' = fdsClosed + 1
          BY <3>1
        <5> QED
          BY <5>1, <5>2
      <4>2. m_fd' \in 0..MaxOpened
        BY <3>1
      <4> QED
        BY <1>0, <2>2, <2>3, <3>1, <4>1, <4>2 DEF SockInv, SockTypeOK
    <3>3. fdsOpened' = fdsClosed'
      BY <2>2, <2>3, <3>1 DEF SockInv, SockTypeOK, SocketOwnsOne
    <3>4. SocketOwnsOne'
      BY <2>2, <2>3, <3>1, <3>3 DEF SockInv, SocketOwnsOne
    <3> QED
      BY <2>2, <2>3, <3>1, <3>2, <3>4 DEF SockInv
  <2> QED
    BY <2>1, <2>4, <2>5, <2>6, <2>7
<1>6. CASE SocketClose
  <2>1. CASE m_fd # 0
    <3>1. /\ m_fd' = 0 /\ fdsClosed' = fdsClosed + 1 /\ kPeer' = NoAddr /\ ~m_isConnectd'
          /\ kind # "none" /\ UNCHANGED <<kind, m_localAddr, m_remoteAddr, fdsOpened, lastCall>>
      BY <1>6, <2>1, DescriptorClosed DEF SocketClose
    <3>2. SockTypeOK'
      <4>1. fdsClosed' \in Nat
        <5>1. fdsClosed \in Nat
          BY DEF SockInv, SockTypeOK
        <5>2. fdsClosed' = fdsClosed + 1
          BY <3>1
        <5> QED
          BY <5>1, <5>2
      <4>2. m_fd' \in 0..MaxOpened
        BY <3>1
      <4> QED
        BY <1>0, <2>1, <3>1, <4>1, <4>2 DEF SockInv, SockTypeOK
    <3>3. fdsOpened' = fdsClosed'
      BY <2>1, <3>1 DEF SockInv, SockTypeOK, SocketOwnsOne
    <3>4. SocketOwnsOne'
      BY <2>1, <3>1, <3>3 DEF SockInv, SocketOwnsOne
    <3> QED
      BY <2>1, <3>1, <3>2, <3>4 DEF SockInv
  <2>2. CASE m_fd = 0
    BY <1>0, <1>6, <2>2 DEF SockInv, SockTypeOK, SocketOwnsOne, SocketClose
  <2> QED
    BY <2>1, <2>2
<1>7. CASE Transfer
  <2>1. /\ UNCHANGED <<kind, m_fd, m_isConnectd, m_localAddr, m_remoteAddr, kBound, kPeer,
                       fdsOpened, fdsClosed>>
        /\ kind # "none" /\ lastCall' \in {"refused", "descriptor", "bad descriptor"}
    BY <1>7 DEF Transfer
  <2>2. lastCall' = "bad descriptor" => m_isConnectd /\ m_fd = 0
    BY <1>7 DEF Transfer
  <2> QED
    BY <2>1, <2>2 DEF SockInv, SockTypeOK, SocketOwnsOne
<1>8. CASE UNCHANGED sockVars
  BY <1>8 DEF SockInv, SockTypeOK, SocketOwnsOne, sockVars
<1> QED
  BY <1>1, <1>2, <1>3, <1>4, <1>5, <1>6, <1>7, <1>8 DEF SockNext

\* However its calls follow each other and fail, a Socket owns at most one
\* descriptor and has closed each of the others once (socket.cpp:221-320).
THEOREM OneDescriptor == SockSpec => []SocketOwnsOne
<1>1. SockInv => SocketOwnsOne
  BY DEF SockInv
<1> QED
  BY <1>1, SockInitInv, SockStep, PTL DEF SockSpec

-----------------------------------------------------------------------------
(* Stream *)

\* The bytes of one more read() or write() follow the earlier ones.
LEMMA BytesAppended ==
    ASSUME NEW s \in Seq(Int), s = [i \in 1..Len(s) |-> i], NEW n \in Nat
    PROVE  LET t == s \o [i \in 1..n |-> Len(s) + i]
           IN  Len(t) = Len(s) + n /\ t = [i \in 1..Len(t) |-> i]
<1> DEFINE more == [i \in 1..n |-> Len(s) + i]
           t    == s \o more
<1>1. Len(s) \in Nat
  BY LenProperties
<1>2. more \in Seq(Int) /\ Len(more) = n
  BY <1>1, IsASeq, LenProperties DEF more
<1>3. t \in Seq(Int) /\ Len(t) = Len(s) + n
  BY <1>2, ConcatProperties
<1>4. ASSUME NEW i \in 1..Len(t) PROVE t[i] = i
  <2>1. t[i] = IF i <= Len(s) THEN s[i] ELSE more[i - Len(s)]
    BY <1>2, <1>3, ConcatProperties
  <2>2. CASE i <= Len(s)
    BY <1>1, <1>3, <2>1, <2>2
  <2>3. CASE ~(i <= Len(s))
    <3>1. i - Len(s) \in 1..n
      BY <1>1, <1>3, <2>3
    <3> QED
      BY <1>1, <1>3, <2>1, <2>3, <3>1 DEF more
  <2> QED
    BY <2>2, <2>3
<1> HIDE DEF t
<1>5. t = [i \in 1..Len(t) |-> t[i]]
  BY <1>3, LenProperties
<1>6. t = [i \in 1..Len(t) |-> i]
  BY <1>4, <1>5
<1> QED
  BY <1>3, <1>6 DEF t

\* What one turn of the loop leaves.
LEMMA LoopTurn ==
    ASSUME NEW f \in FixInfo, NEW r \in Int, f.op \in {"buffer", "bytearray"},
           r <= f.left
    PROVE  /\ Step(f, r) \in FixInfo
           /\ Step(f, r).len = f.len /\ Step(f, r).at = f.at
           /\ Step(f, r).left = f.left - r
           /\ Step(f, r).offset = IF f.op = "buffer" \/ r > 0 THEN f.offset + r ELSE f.offset
           /\ f.left = r => Step(f, r).op = "done" /\ Step(f, r).ret = f.len
           /\ f.left # r => Step(f, r).op = f.op /\ Step(f, r).ret = f.ret
<1> DEFINE o == IF f.op = "buffer" \/ r > 0 THEN f.offset + r ELSE f.offset
           a == [op |-> f.op, len |-> f.len, left |-> f.left - r, offset |-> o,
                 at |-> f.at, ret |-> f.ret]
<1>0. f = [op |-> f.op, len |-> f.len, left |-> f.left, offset |-> f.offset,
           at |-> f.at, ret |-> f.ret]
  BY DEF FixInfo
<1>1. /\ f.op \in FixOp /\ f.len \in 0..MaxLen /\ f.left \in Nat /\ f.offset \in Int
      /\ f.at \in Seq(Int) /\ f.ret \in 0..MaxLen
  BY DEF FixInfo
<1>2. (IF f.op = "buffer" THEN Advanced(f, r) ELSE AdvancedArray(f, r)) = a
  BY <1>0, <1>1 DEF Advanced, AdvancedArray
<1>3. Step(f, r) = Looped(a)
  BY <1>2 DEF Step
<1>4. o \in Int /\ f.left - r \in Nat
  BY <1>1
<1> HIDE DEF o
<1>5. CASE f.left = r
  <2>1. Step(f, r) = [op |-> "done", len |-> f.len, left |-> f.left - r, offset |-> o,
                      at |-> f.at, ret |-> f.len]
    <3>1. a.left = 0 /\ a.len = f.len
      BY <1>1, <1>5
    <3>2. Step(f, r) = [a EXCEPT !.op = "done", !.ret = f.len]
      BY <1>3, <3>1 DEF Looped
    <3> QED
      BY <3>2
  <2>2. Step(f, r) \in FixInfo
    BY <1>1, <1>4, <2>1 DEF FixInfo, FixOp
  <2> QED
    BY <1>5, <2>1, <2>2 DEF o
<1>6. CASE f.left # r
  <2>1. f.left - r # 0
    BY <1>1, <1>6
  <2>2. Step(f, r) = a
    BY <1>3, <2>1 DEF Looped
  <2>3. Step(f, r) \in FixInfo
    BY <1>1, <1>4, <2>2 DEF FixInfo
  <2> QED
    BY <1>6, <2>2, <2>3 DEF o
<1> QED
  BY <1>5, <1>6

\* The counters after n bytes were moved.
LEMMA MovedCounters ==
    ASSUME NEW len \in Nat, NEW left \in Nat, NEW e \in Nat, NEW off \in Int, NEW n \in Nat,
           n <= left, left <= len + e, off >= 0 - e, off + left = len \/ off + left = len + e
    PROVE  /\ left - n <= len + e /\ off + n >= 0 - e /\ off + n <= len + e
           /\ (off + n) + (left - n) = off + left
OBVIOUS

\* A stream starts with its invariant.
LEMMA StreamInitInv == StreamInit => StreamInv
<1> SUFFICES ASSUME StreamInit PROVE StreamInv
  OBVIOUS
<1>1. fix = [op |-> "none", len |-> 0, left |-> 0, offset |-> 0, at |-> <<>>, ret |-> 0]
  BY DEF StreamInit, NoCall
<1>2. fix \in FixInfo
  BY <1>1, StreamAssumption DEF FixInfo, FixOp
<1>3. FixBounds
  BY <1>1 DEF FixBounds, StreamInit
<1>4. Len(fix.at) = 0 /\ fix.at = [i \in 1..0 |-> i]
  BY <1>1
<1>5. FixInPlace
  BY <1>1, <1>4 DEF FixInPlace
<1> QED
  BY <1>2, <1>3, <1>5, StreamAssumption DEF StreamInv, StreamInit

\* Every step of the fixed-size transfers keeps the invariant.
LEMMA StreamStep == StreamInv /\ [StreamNext]_streamVars => StreamInv'
<1> SUFFICES ASSUME StreamInv, [StreamNext]_streamVars PROVE StreamInv'
  OBVIOUS
<1> USE StreamAssumption
<1>0. /\ fix.op \in FixOp /\ fix.len \in 0..MaxLen /\ fix.left \in Nat /\ fix.offset \in Int
      /\ fix.at \in Seq(Int) /\ fix.ret \in 0..MaxLen
      /\ fix \in FixInfo /\ streamErrors \in 0..MaxErrors
  BY DEF StreamInv, FixInfo
<1>1. CASE CallFixSize
  <2>1. PICK op \in {"buffer", "bytearray"}, len \in 1..MaxLen :
          fix' = [NoCall EXCEPT !.op = op, !.len = len, !.left = len]
    BY <1>1 DEF CallFixSize
  <2>2. fix' = [op |-> op, len |-> len, left |-> len, offset |-> 0, at |-> <<>>, ret |-> 0]
    BY <2>1 DEF NoCall
  <2>3. streamErrors' = 0 /\ m_sock' = m_sock
    BY <1>1 DEF CallFixSize
  <2>4. fix' \in FixInfo
    BY <2>2 DEF FixInfo, FixOp
  <2>5. FixBounds'
    BY <2>2, <2>3 DEF FixBounds
  <2>6. Len(fix'.at) = 0 /\ fix'.at = [i \in 1..0 |-> i] /\ fix'.offset = 0 /\ fix'.ret = 0
    BY <2>2
  <2>7. FixInPlace'
    BY <2>6 DEF FixInPlace
  <2> QED
    BY <2>3, <2>4, <2>5, <2>7 DEF StreamInv
<1>2. CASE MoveBytes
  <2>1. PICK n \in 1..fix.left :
          fix' = Step([fix EXCEPT !.at = @ \o [i \in 1..n |-> fix.offset + i]], n)
    BY <1>2 DEF MoveBytes
  <2> DEFINE more == [i \in 1..n |-> fix.offset + i]
             f    == [fix EXCEPT !.at = @ \o more]
  <2>2. fix.op \in {"buffer", "bytearray"} /\ UNCHANGED <<m_sock, streamErrors>>
    BY <1>2 DEF MoveBytes
  <2>3. n \in Nat /\ n > 0 /\ n <= fix.left
    BY <1>0, <2>1
  <2>4. more \in Seq(Int)
    BY <1>0, <2>3, IsASeq
  <2>5. fix.at \o more \in Seq(Int)
    BY <1>0, <2>4, ConcatProperties
  <2> HIDE DEF more
  <2>6. /\ f \in FixInfo /\ f.op = fix.op /\ f.len = fix.len /\ f.left = fix.left
        /\ f.offset = fix.offset /\ f.ret = fix.ret /\ f.at = fix.at \o more
    BY <1>0, <2>5 DEF FixInfo
  <2>7. fix' = Step(f, n)
    BY <2>1 DEF more
  <2> HIDE DEF f
  <2>8. /\ fix' \in FixInfo /\ fix'.len = fix.len /\ fix'.at = fix.at \o more
        /\ fix'.left = fix.left - n /\ fix'.offset = fix.offset + n
        /\ fix.left = n => fix'.op = "done" /\ fix'.ret = fix.len
        /\ fix.left # n => fix'.op = fix.op /\ fix'.ret = fix.ret
    BY <2>2, <2>3, <2>6, <2>7, LoopTurn
  <2>9. FixBounds'
    <3>1. /\ fix.left <= fix.len + streamErrors
          /\ fix.offset >= 0 - streamErrors
          /\ fix.op = "buffer" => fix.offset + fix.left = fix.len
          /\ fix.op = "bytearray" => fix.offset + fix.left = fix.len + streamErrors
          /\ fix.ret = 0
      BY <2>2 DEF StreamInv, FixBounds
    <3>2. /\ fix'.left <= fix'.len + streamErrors
          /\ fix'.offset >= 0 - streamErrors /\ fix'.offset <= fix'.len + streamErrors
      <4>1. fix.len \in Nat /\ streamErrors \in Nat
        BY <1>0
      <4>2. /\ fix.left - n <= fix.len + streamErrors /\ fix.offset + n >= 0 - streamErrors
            /\ fix.offset + n <= fix.len + streamErrors
        BY <1>0, <2>2, <2>3, <3>1, <4>1, MovedCounters, SMTT(30)
      <4> QED
        BY <2>8, <4>2
    <3>3. /\ fix'.op = "buffer" => fix'.offset + fix'.left = fix'.len
          /\ fix'.op = "bytearray" => fix'.offset + fix'.left = fix'.len + streamErrors
      BY <1>0, <2>2, <2>3, <2>8, <3>1
    <3>4. fix'.op \in {"none", "buffer", "bytearray"} => fix'.ret = 0
      BY <2>2, <2>8, <3>1
    <3> QED
      BY <2>2, <3>2, <3>3, <3>4 DEF FixBounds
  <2>10. FixInPlace'
    <3> SUFFICES ASSUME streamErrors = 0
                 PROVE  /\ fix'.at = [i \in 1..Len(fix'.at) |-> i]
                        /\ fix'.offset = Len(fix'.at)
                        /\ fix'.ret > 0 => Len(fix'.at) = fix'.len
      BY <2>2 DEF FixInPlace
    <3>1. fix.at = [i \in 1..Len(fix.at) |-> i] /\ fix.offset = Len(fix.at)
      BY DEF StreamInv, FixInPlace
    <3>2. /\ Len(fix'.at) = Len(fix.at) + n
          /\ fix'.at = [i \in 1..Len(fix'.at) |-> i]
      BY <1>0, <2>3, <2>8, <3>1, BytesAppended DEF more
    <3>3. fix.offset + fix.left = fix.len /\ fix.ret = 0
      BY <1>0, <2>2 DEF StreamInv, FixBounds
    <3>4. fix'.offset = Len(fix'.at)
      BY <2>8, <3>1, <3>2
    <3>5. ASSUME fix'.ret > 0 PROVE Len(fix'.at) = fix'.len
      <4>1. fix.left = n
        BY <2>8, <3>3, <3>5
      <4> QED
        BY <1>0, <2>3, <2>8, <3>3, <3>4, <4>1
    <3> QED
      BY <3>2, <3>4, <3>5
  <2> QED
    BY <2>2, <2>8, <2>9, <2>10 DEF StreamInv
<1>3. CASE TransferEnd
  <2>1. /\ fix' = [fix EXCEPT !.op = "done", !.ret = 0]
        /\ UNCHANGED <<m_sock, streamErrors>>
    BY <1>3 DEF TransferEnd
  <2>2. fix' = [op |-> "done", len |-> fix.len, left |-> fix.left, offset |-> fix.offset,
                at |-> fix.at, ret |-> 0]
    BY <1>0, <2>1 DEF FixInfo
  <2>3. fix' \in FixInfo
    BY <1>0, <2>2 DEF FixInfo, FixOp
  <2>4. FixBounds'
    BY <1>0, <2>1, <2>2 DEF FixBounds, StreamInv
  <2>5. fix'.at = fix.at /\ fix'.offset = fix.offset /\ fix'.ret = 0
    BY <2>2
  <2>6. FixInPlace'
    BY <2>1, <2>5 DEF FixInPlace, StreamInv
  <2> QED
    BY <2>1, <2>3, <2>4, <2>6 DEF StreamInv
<1>4. CASE TransferError
  <2>1. /\ fix.op \in {"buffer", "bytearray"} /\ streamErrors < MaxErrors
        /\ fix' = Step(fix, -1) /\ streamErrors' = streamErrors + 1 /\ m_sock' = m_sock
    BY <1>4 DEF TransferError
  <2>2. /\ fix' \in FixInfo /\ fix'.len = fix.len /\ fix'.left = fix.left + 1
        /\ fix'.offset = IF fix.op = "buffer" THEN fix.offset - 1 ELSE fix.offset
        /\ fix'.op = fix.op /\ fix'.ret = fix.ret
    <3>1. -1 \in Int /\ -1 <= fix.left /\ fix.left # -1
      BY <1>0
    <3> QED
      BY <1>0, <2>1, <3>1, LoopTurn
  <2>3. FixBounds'
    <3>1. /\ fix.left <= fix.len + streamErrors
          /\ fix.offset >= 0 - streamErrors /\ fix.offset <= fix.len + streamErrors
          /\ fix.op = "buffer" => fix.offset + fix.left = fix.len
          /\ fix.op = "bytearray" => fix.offset + fix.left = fix.len + streamErrors
          /\ fix.ret = 0
      BY <2>1 DEF StreamInv, FixBounds
    <3>2. /\ fix.left + 1 <= fix.len + (streamErrors + 1)
          /\ fix.offset >= 0 - (streamErrors + 1) /\ fix.offset <= fix.len + (streamErrors + 1)
          /\ fix.offset - 1 >= 0 - (streamErrors + 1)
          /\ fix.offset - 1 <= fix.len + (streamErrors + 1)
          /\ fix.offset + fix.left = fix.len => (fix.offset - 1) + (fix.left + 1) = fix.len
          /\ fix.offset + fix.left = fix.len + streamErrors
                => fix.offset + (fix.left + 1) = fix.len + (streamErrors + 1)
      <4>1. fix.len \in Nat /\ streamErrors \in Nat /\ fix.left \in Nat /\ fix.offset \in Int
        BY <1>0
      <4>2. /\ fix.left <= fix.len + streamErrors
            /\ fix.offset >= 0 - streamErrors /\ fix.offset <= fix.len + streamErrors
        BY <3>1
      <4> QED
        BY <4>1, <4>2
    <3>3. /\ fix'.left <= fix'.len + streamErrors'
          /\ fix'.offset >= 0 - streamErrors' /\ fix'.offset <= fix'.len + streamErrors'
      <4>1. CASE fix.op = "buffer"
        BY <2>1, <2>2, <3>2, <4>1
      <4>2. CASE fix.op # "buffer"
        BY <2>1, <2>2, <3>2, <4>2
      <4> QED
        BY <4>1, <4>2
    <3>4. fix'.op = "buffer" => fix'.offset + fix'.left = fix'.len
      BY <2>2, <3>1, <3>2
    <3>5. fix'.op = "bytearray" => fix'.offset + fix'.left = fix'.len + streamErrors'
      BY <2>1, <2>2, <3>1, <3>2
    <3> QED
      BY <2>2, <3>1, <3>3, <3>4, <3>5 DEF FixBounds
  <2>4. streamErrors' \in 0..MaxErrors /\ streamErrors' # 0
    BY <1>0, <2>1
  <2>5. FixInPlace'
    BY <2>4 DEF FixInPlace
  <2> QED
    BY <2>1, <2>2, <2>3, <2>4, <2>5 DEF StreamInv
<1>5. CASE CloseStream
  BY <1>5 DEF CloseStream, StreamInv, FixBounds, FixInPlace
<1>6. CASE UNCHANGED streamVars
  BY <1>6 DEF streamVars, StreamInv, FixBounds, FixInPlace
<1> QED
  BY <1>1, <1>2, <1>3, <1>4, <1>5, <1>6 DEF StreamNext

\* However read() and write() divide a transfer of any length, without an error
\* the bytes moved are a prefix of it, each in its place, and a call that
\* returns len has moved them all (stream.cpp:10-99).
THEOREM TransfersAreExact == StreamSpec => []StreamExact
<1>1. ASSUME StreamInv PROVE StreamExact
  <2> SUFFICES ASSUME streamErrors = 0, fix.op # "none"
               PROVE  /\ fix.at = [i \in 1..Len(fix.at) |-> i]
                      /\ fix.ret > 0 => Len(fix.at) = fix.len
                      /\ fix.op # "done" => fix.left = fix.len - Len(fix.at)
    BY DEF StreamExact
  <2>1. /\ fix.at = [i \in 1..Len(fix.at) |-> i] /\ fix.offset = Len(fix.at)
        /\ fix.ret > 0 => Len(fix.at) = fix.len
    BY <1>1 DEF StreamInv, FixInPlace
  <2>2. fix.op \in FixOp /\ fix.left \in Nat /\ fix.len \in Nat /\ fix.offset \in Int
    BY <1>1, StreamAssumption DEF StreamInv, FixInfo
  <2>3. fix.op # "done" => fix.offset + fix.left = fix.len
    BY <1>1, <2>2 DEF StreamInv, FixBounds, FixOp
  <2> QED
    BY <2>1, <2>2, <2>3
<1> QED
  BY <1>1, StreamInitInv, StreamStep, PTL DEF StreamSpec


-----------------------------------------------------------------------------
(* HttpConnectionPool *)

\* Taking the first of a list without repetitions, and putting one at its end.
LEMMA FirstTaken ==
    ASSUME NEW S, NEW s \in Seq(S), s # <<>>, IsInjective(s)
    PROVE  /\ Tail(s) \in Seq(S) /\ Len(Tail(s)) = Len(s) - 1 /\ Len(s) \in Nat \ {0}
           /\ IsInjective(Tail(s))
           /\ s[1] \in S /\ s[1] \notin Range(Tail(s))
           /\ Range(s) = Range(Tail(s)) \cup {s[1]}
<1>1. /\ Tail(s) \in Seq(S) /\ Len(Tail(s)) = Len(s) - 1
      /\ \A i \in 1..Len(Tail(s)) : Tail(s)[i] = s[i + 1]
  BY HeadTailProperties
<1>2. Len(s) \in Nat \ {0} /\ DOMAIN s = 1..Len(s) /\ s \in [1..Len(s) -> S]
  BY EmptySeq, LenProperties
<1>3. DOMAIN Tail(s) = 1..(Len(s) - 1)
  BY <1>1, LenProperties
<1> DEFINE t == Tail(s)
<1>4. \A i \in DOMAIN t : i + 1 \in DOMAIN s /\ t[i] = s[i + 1] /\ i \in Nat
  BY <1>1, <1>2, <1>3
<1>5. \A i \in DOMAIN s : i = 1 \/ (i - 1 \in DOMAIN t /\ t[i - 1] = s[i])
  <2> SUFFICES ASSUME NEW i \in DOMAIN s, i # 1 PROVE i - 1 \in DOMAIN t /\ t[i - 1] = s[i]
    OBVIOUS
  <2>1. i - 1 \in 1..(Len(s) - 1) /\ (i - 1) + 1 = i
    BY <1>2
  <2> QED
    BY <1>1, <1>3, <2>1
<1> HIDE DEF t
<1>6. IsInjective(t)
  <2> SUFFICES ASSUME NEW i \in DOMAIN t, NEW j \in DOMAIN t, t[i] = t[j] PROVE i = j
    BY DEF IsInjective
  <2>1. i + 1 = j + 1
    BY <1>4 DEF IsInjective
  <2> QED
    BY <1>4, <2>1
<1>7. 1 \in DOMAIN s /\ s[1] \in S
  BY <1>2
<1>8. s[1] \notin Range(t)
  <2> SUFFICES ASSUME NEW i \in DOMAIN t, t[i] = s[1] PROVE FALSE
    BY DEF Range
  <2>1. i + 1 = 1
    BY <1>4, <1>7 DEF IsInjective
  <2> QED
    BY <1>3, <2>1 DEF t
<1>9. Range(s) = Range(t) \cup {s[1]}
  <2>1. ASSUME NEW x \in Range(s) PROVE x \in Range(t) \cup {s[1]}
    BY <1>5 DEF Range
  <2>2. ASSUME NEW x \in Range(t) \cup {s[1]} PROVE x \in Range(s)
    BY <1>4, <1>7 DEF Range
  <2> QED
    BY <2>1, <2>2
<1> QED
  BY <1>1, <1>2, <1>6, <1>7, <1>8, <1>9 DEF t

\* Putting an element that is not in the list at its end.
LEMMA LastPut ==
    ASSUME NEW S, NEW s \in Seq(S), NEW x \in S, x \notin Range(s), IsInjective(s)
    PROVE  /\ Append(s, x) \in Seq(S) /\ Len(Append(s, x)) = Len(s) + 1 /\ Len(s) \in Nat
           /\ IsInjective(Append(s, x))
           /\ Range(Append(s, x)) = Range(s) \cup {x}
<1> DEFINE t == Append(s, x)
<1>1. /\ t \in Seq(S) /\ Len(t) = Len(s) + 1
      /\ \A i \in 1..Len(s) : t[i] = s[i]
      /\ t[Len(s) + 1] = x
  BY AppendProperties
<1>2. Len(s) \in Nat /\ DOMAIN s = 1..Len(s) /\ DOMAIN t = 1..Len(t)
  BY <1>1, LenProperties
<1> HIDE DEF t
<1>3. \A i \in DOMAIN t : (i \in DOMAIN s /\ t[i] = s[i]) \/ (i = Len(s) + 1 /\ t[i] = x)
  BY <1>1, <1>2
<1>4. \A i \in DOMAIN s : i \in DOMAIN t /\ t[i] = s[i]
  BY <1>1, <1>2
<1>5. Len(s) + 1 \in DOMAIN t
  BY <1>1, <1>2
<1>6. \A i \in DOMAIN s : s[i] # x
  BY DEF Range
<1>7. IsInjective(t)
  BY <1>3, <1>6 DEF IsInjective
<1>8. Range(t) = Range(s) \cup {x}
  <2>1. ASSUME NEW y \in Range(t) PROVE y \in Range(s) \cup {x}
    BY <1>3 DEF Range
  <2>2. ASSUME NEW y \in Range(s) \cup {x} PROVE y \in Range(t)
    BY <1>1, <1>4, <1>5 DEF Range
  <2> QED
    BY <2>1, <2>2
<1> QED
  BY <1>1, <1>2, <1>7, <1>8 DEF t

\* One more and one less.
LEMMA OneMore ==
    ASSUME NEW S, IsFiniteSet(S), NEW x, x \notin S, NEW T, T = S \cup {x}
    PROVE  Cardinality(T) = Cardinality(S) + 1 /\ Cardinality(S) \in Nat
BY FS_AddElement, FS_CardinalityType

\* The cardinality of a finite set without one of its elements.
LEMMA OneLess ==
    ASSUME NEW S, IsFiniteSet(S), NEW x \in S, NEW T, T = S \ {x}
    PROVE  Cardinality(T) = Cardinality(S) - 1 /\ Cardinality(S) \in Nat
BY FS_RemoveElement, FS_CardinalityType

\* The cardinality of a disjoint union.
LEMMA DisjointSum ==
    ASSUME NEW S, NEW T, IsFiniteSet(S), IsFiniteSet(T), S \cap T = {}
    PROVE  Cardinality(S \cup T) = Cardinality(S) + Cardinality(T)
<1>1. Cardinality(S) \in Nat /\ Cardinality(T) \in Nat
  BY FS_CardinalityType
<1>2. Cardinality(S \cup T) = Cardinality(S) + Cardinality(T) - Cardinality(S \cap T)
  BY FS_Union
<1>3. Cardinality(S \cap T) = 0
  BY FS_EmptySet
<1> QED
  BY <1>1, <1>2, <1>3

\* The sets that are counted are finite.
LEMMA PoolFinite ==
    /\ IsFiniteSet(Counted) /\ IsFiniteSet(Holders) /\ IsFiniteSet(Returning) /\ IsFiniteSet(Live)
    /\ Cardinality(Counted) \in Nat /\ Cardinality(Holders) \in Nat
    /\ Cardinality(Returning) \in Nat /\ Cardinality(Live) \in Nat
<1>1. Counted \in SUBSET Client /\ Holders \in SUBSET Client /\ Returning \in SUBSET Client
  BY DEF Counted, Holders, Returning
<1>2. Live \in SUBSET Conn
  BY DEF Live
<1>3. IsFiniteSet(Counted) /\ IsFiniteSet(Holders) /\ IsFiniteSet(Returning) /\ IsFiniteSet(Live)
  BY <1>1, <1>2, PoolAssumption, FS_Subset
<1> QED
  BY <1>3, FS_CardinalityType

\* getConnection() takes the first idle connection, if there is one.
LEMMA TakesFirst ==
    ASSUME PoolInv, NEW t \in Client, TakeConnection(t)
    PROVE  /\ stale' = stale
           /\ \/ m_connections = <<>> /\ m_connections' = <<>>
                 /\ lent' = [lent EXCEPT ![t] = NoConn]
              \/ m_connections # <<>> /\ m_connections' = Tail(m_connections)
                 /\ lent' = [lent EXCEPT ![t] = m_connections[1]]
<1> DEFINE good == {i \in DOMAIN m_connections : Usable(m_connections[i])}
           n    == IF good = {} THEN Len(m_connections)
                   ELSE CHOOSE i \in good : \A j \in good : i <= j
           bad  == {i \in 1..n : i \notin good}
<1>1. /\ lent' = [lent EXCEPT ![t] = IF good = {} THEN NoConn ELSE m_connections[n]]
      /\ stale' = [stale EXCEPT ![t] = {m_connections[i] : i \in bad}]
      /\ m_connections' = SubSeq(m_connections, n + 1, Len(m_connections))
  BY DEF TakeConnection, Rest
<1>2. m_connections \in Seq(Conn) /\ stale \in [Client -> SUBSET Conn] /\ stale[t] = {}
  BY DEF PoolInv, PoolTypeOK, IdleUsable
<1>3. Len(m_connections) \in Nat /\ DOMAIN m_connections = 1..Len(m_connections)
  BY <1>2, LenProperties
<1>4. good = 1..Len(m_connections)
  BY <1>3 DEF PoolInv, IdleUsable, Range
<1> HIDE DEF good
<1>5. CASE m_connections = <<>>
  <2>1. Len(m_connections) = 0 /\ good = {} /\ n = 0
    BY <1>2, <1>4, <1>5, EmptySeq
  <2>2. bad = {}
    BY <2>1
  <2>3. stale' = stale
    BY <1>1, <1>2, <2>2
  <2>4. m_connections' = <<>>
    BY <1>1, <2>1, SubSeqEmpty
  <2> QED
    BY <1>1, <1>5, <2>1, <2>3, <2>4
<1>6. CASE m_connections # <<>>
  <2>1. Len(m_connections) >= 1
    BY <1>2, <1>6, EmptySeq
  <2>2. good # {} /\ 1 \in good /\ \A i \in good : i \in Nat /\ 1 <= i
    BY <1>3, <1>4, <2>1
  <2>3. n = CHOOSE i \in good : \A j \in good : i <= j
    BY <2>2
  <2>4. n \in good /\ \A j \in good : n <= j
    BY <2>2, <2>3
  <2>5. n = 1
    BY <2>2, <2>4
  <2> HIDE DEF n
  <2>6. bad = {}
    BY <2>2, <2>5
  <2>7. stale' = stale
    BY <1>1, <1>2, <2>6
  <2>8. m_connections' = SubSeq(m_connections, 2, Len(m_connections))
    BY <1>1, <2>5
  <2>9. m_connections' = Tail(m_connections)
    BY <1>2, <1>6, <2>8, TailIsSubSeq
  <2> QED
    BY <1>1, <1>6, <2>2, <2>5, <2>7, <2>9
<1> QED
  BY <1>5, <1>6

\* The pool starts with its invariant.
LEMMA PoolInitInv == PoolInit => PoolInv
<1> SUFFICES ASSUME PoolInit PROVE PoolInv
  OBVIOUS
<1>1. /\ m_connections = <<>> /\ m_total = 0 /\ conns = [c \in Conn |-> NoObject]
      /\ clientPc = [t \in Client |-> "idle"] /\ lent = [t \in Client |-> NoConn]
      /\ stale = [t \in Client |-> {}]
  BY DEF PoolInit
<1>2. PoolTypeOK
  BY <1>1 DEF PoolTypeOK, NoObject, ClientPc
<1>3. Range(m_connections) = {} /\ Len(m_connections) = 0 /\ IsInjective(m_connections)
  BY <1>1 DEF Range, IsInjective
<1>4. IdleUsable /\ LentAt
  BY <1>1, <1>3 DEF IdleUsable, LentAt
<1>5. Owned
  BY <1>1, <1>3, PoolAssumption DEF Owned, NoObject
<1>6. Counted = {} /\ Holders = {} /\ Returning = {}
  BY <1>1 DEF Counted, Holders, Returning
<1>7. Live = {}
  BY <1>1 DEF Live, NoObject
<1>8. TotalExact
  BY <1>1, <1>3, <1>6, <1>7, FS_EmptySet, PoolAssumption DEF TotalExact
<1> QED
  BY <1>2, <1>4, <1>5, <1>8 DEF PoolInv

\* Steps that change no connection's owner.
LEMMA OwnedKept ==
    ASSUME Owned, m_connections' = m_connections, lent' = lent,
           \A c \in Conn : conns'[c].live <=> conns[c].live
    PROVE  Owned' /\ Holders' = Holders /\ Live' = Live
BY DEF Owned, Holders, Live

\* Steps that change no number.
LEMMA TotalKept ==
    ASSUME TotalExact, m_connections' = m_connections, m_total' = m_total,
           Counted' = Counted, Holders' = Holders, Returning' = Returning, Live' = Live
    PROVE  TotalExact'
BY DEF TotalExact

\* Moving a thread on.
LEMMA PcMoved ==
    ASSUME PoolTypeOK, NEW t \in Client, NEW p \in ClientPc,
           clientPc' = [clientPc EXCEPT ![t] = p]
    PROVE  /\ clientPc' \in [Client -> ClientPc]
           /\ clientPc'[t] = p
           /\ \A u \in Client : u # t => clientPc'[u] = clientPc[u]
BY DEF PoolTypeOK

\* A step of one thread on its own connection leaves the others as they are.
LEMMA OthersUsable ==
    ASSUME PoolTypeOK, LentAt, Owned, NEW t \in Client, lent' = lent,
           lent[t] \in Conn, lent[t] # NoConn,
           \A u \in Client : u # t => clientPc'[u] = clientPc[u],
           \A d \in Conn : d # lent[t] => conns'[d] = conns[d],
           clientPc'[t] \in {"release", "destroy", "return"},
           clientPc'[t] = "return" => conns'[lent[t]].connected /\ ~Expired
    PROVE  LentAt'
<1> SUFFICES ASSUME NEW u \in Client
             PROVE  /\ clientPc'[u] \in {"idle", "connect", "forget"} => lent'[u] = NoConn
                    /\ clientPc'[u] \in {"count", "request", "release", "destroy", "return"}
                         => lent'[u] # NoConn
                    /\ clientPc'[u] = "return" => Usable(lent[u])'
  BY DEF LentAt
<1>1. CASE u = t
  BY <1>1 DEF Usable
<1>2. CASE u # t
  <2>1. lent'[u] = lent[u] /\ clientPc'[u] = clientPc[u] /\ lent[u] # lent[t]
    BY <1>2 DEF Owned
  <2>2. lent[u] # NoConn => conns'[lent[u]] = conns[lent[u]]
    BY <2>1 DEF PoolTypeOK
  <2> QED
    BY <2>1, <2>2 DEF LentAt, Usable
<1> QED
  BY <1>1, <1>2

\* Every step of a client keeps the pool's invariant.
LEMMA PoolStep ==
    ASSUME PoolInv, NEW t \in Client,
           \/ TakeConnection(t) \/ DeleteStale(t) \/ SubtractStale(t)
           \/ ConnectFails(t) \/ Connect(t) \/ CountConnection(t)
           \/ DoRequest(t) \/ Release(t)
           \/ DestroyConnection(t) \/ UncountConnection(t) \/ ReturnConnection(t)
    PROVE  PoolInv'
<1>0. /\ PoolTypeOK /\ IdleUsable /\ LentAt /\ Owned /\ TotalExact
      /\ m_connections \in Seq(Conn) /\ m_total \in Int
      /\ conns \in [Conn -> [live : BOOLEAN, connected : BOOLEAN, requests : Nat]]
      /\ clientPc \in [Client -> ClientPc] /\ lent \in [Client -> Conn \cup {NoConn}]
      /\ stale \in [Client -> SUBSET Conn]
  BY DEF PoolInv, PoolTypeOK
<1>1. CASE TakeConnection(t)
  <2>1. stale' = stale /\ UNCHANGED <<m_total, conns>> /\ clientPc[t] = "idle"
    BY <1>1, TakesFirst DEF TakeConnection
  <2>2. /\ clientPc' \in [Client -> ClientPc] /\ clientPc'[t] = "delete"
        /\ \A u \in Client : u # t => clientPc'[u] = clientPc[u]
    BY <1>0, <1>1, PcMoved DEF TakeConnection, ClientPc
  <2>3. lent[t] = NoConn
    BY <1>0, <2>1 DEF LentAt
  <2>4. CASE m_connections = <<>> /\ m_connections' = <<>> /\ lent' = [lent EXCEPT ![t] = NoConn]
    <3>1. lent' = lent /\ m_connections' = m_connections
      BY <1>0, <2>3, <2>4
    <3>2. PoolTypeOK'
      BY <1>0, <2>1, <2>2, <3>1 DEF PoolTypeOK
    <3>3. IdleUsable'
      BY <1>0, <2>1, <3>1 DEF IdleUsable, Usable
    <3>4. LentAt'
      BY <1>0, <2>1, <2>2, <2>3, <3>1 DEF LentAt, Usable
    <3>5. Owned' /\ Holders' = Holders /\ Live' = Live
      BY <1>0, <2>1, <3>1, OwnedKept
    <3>6. Counted' = Counted /\ Returning' = Returning
      BY <2>1, <2>2, <2>3, <3>1 DEF Counted, Returning
    <3> QED
      BY <1>0, <2>1, <3>1, <3>2, <3>3, <3>4, <3>5, <3>6, TotalKept DEF PoolInv
  <2>5. CASE m_connections # <<>> /\ m_connections' = Tail(m_connections)
             /\ lent' = [lent EXCEPT ![t] = m_connections[1]]
    <3> DEFINE c == m_connections[1]
    <3>1. /\ m_connections' \in Seq(Conn) /\ Len(m_connections') = Len(m_connections) - 1
          /\ Len(m_connections) \in Nat /\ IsInjective(m_connections')
          /\ c \in Conn /\ c \notin Range(m_connections')
          /\ Range(m_connections) = Range(m_connections') \cup {c}
      BY <1>0, <2>5, FirstTaken DEF Owned
    <3>2. /\ lent' \in [Client -> Conn \cup {NoConn}] /\ lent'[t] = c
          /\ \A u \in Client : u # t => lent'[u] = lent[u]
      BY <1>0, <2>5, <3>1
    <3> HIDE DEF c
    <3>3. c # NoConn
      BY <3>1, PoolAssumption
    <3>4. PoolTypeOK'
      BY <1>0, <2>1, <2>2, <3>1, <3>2 DEF PoolTypeOK
    <3>5. IdleUsable'
      BY <1>0, <2>1, <3>1 DEF IdleUsable, Usable
    <3>6. LentAt'
      BY <1>0, <2>1, <2>2, <3>2 DEF LentAt, Usable
    <3>7. Owned'
      <4>0. /\ \A u, v \in Client : lent[u] = lent[v] /\ lent[u] # NoConn => u = v
            /\ \A u \in Client : lent[u] \notin Range(m_connections)
            /\ \A d \in Conn : conns[d].live <=> \/ d \in Range(m_connections)
                                                  \/ \E u \in Client : lent[u] = d
        BY <1>0 DEF Owned
      <4>1. \A u \in Client : lent[u] # c
        BY <3>1, <4>0
      <4>2. \A u, v \in Client : lent'[u] = lent'[v] /\ lent'[u] # NoConn => u = v
        BY <3>2, <4>0, <4>1
      <4>3. \A u \in Client : lent'[u] \notin Range(m_connections')
        BY <3>1, <3>2, <4>0
      <4>4. ASSUME NEW d \in Conn
            PROVE  conns'[d].live <=> \/ d \in Range(m_connections')
                                      \/ \E u \in Client : lent'[u] = d
        <5>1. CASE d = c
          BY <2>1, <3>1, <3>2, <4>0, <5>1
        <5>2. CASE d # c
          <6>1. d \in Range(m_connections') <=> d \in Range(m_connections)
            BY <3>1, <5>2
          <6>2. (\E u \in Client : lent'[u] = d) <=> (\E u \in Client : lent[u] = d)
            BY <2>3, <3>2, <5>2, PoolAssumption
          <6> QED
            BY <2>1, <4>0, <6>1, <6>2
        <5> QED
          BY <5>1, <5>2
      <4> QED
        BY <3>1, <4>2, <4>3, <4>4 DEF Owned
    <3>8. Counted' = Counted \cup {t} /\ t \notin Counted
      BY <2>1, <2>2, <2>3, <3>2, <3>3 DEF Counted
    <3>9. Holders' = Holders \cup {t} /\ t \notin Holders
      BY <2>3, <3>2, <3>3 DEF Holders
    <3>10. Returning' = Returning /\ Live' = Live
      BY <2>1, <2>2 DEF Returning, Live
    <3>11. /\ Cardinality(Counted') = Cardinality(Counted) + 1 /\ Cardinality(Counted) \in Nat
           /\ Cardinality(Holders') = Cardinality(Holders) + 1 /\ Cardinality(Holders) \in Nat
      BY <3>8, <3>9, PoolFinite, OneMore
    <3>12. TotalExact'
      <4>1. /\ m_total' = Len(m_connections') + Cardinality(Counted')
            /\ Cardinality(Live') = Len(m_connections') + Cardinality(Holders')
        <5>1. /\ m_total = Len(m_connections) + Cardinality(Counted)
              /\ Cardinality(Live) = Len(m_connections) + Cardinality(Holders)
          BY <1>0 DEF TotalExact
        <5>2. m_total' = m_total /\ Cardinality(Live') = Cardinality(Live)
          BY <2>1, <3>10
        <5>3. Len(m_connections') = Len(m_connections) - 1 /\ Len(m_connections) \in Nat
          BY <3>1
        <5> QED
          BY <3>11, <5>1, <5>2, <5>3
      <4>2. Len(m_connections') + Cardinality(Returning') <= m_maxSize
        <5>1. Len(m_connections) + Cardinality(Returning) <= m_maxSize
          BY <1>0 DEF TotalExact
        <5>2. Cardinality(Returning) \in Nat /\ m_maxSize \in Nat
          BY PoolFinite, PoolAssumption
        <5>3. Cardinality(Returning') = Cardinality(Returning)
          BY <3>10
        <5> QED
          BY <3>1, <5>1, <5>2, <5>3
      <4> QED
        BY <4>1, <4>2 DEF TotalExact
    <3> QED
      BY <3>4, <3>5, <3>6, <3>7, <3>12 DEF PoolInv
  <2> QED
    BY <1>1, <2>4, <2>5, TakesFirst
<1>2. CASE DeleteStale(t)
  <2>1. clientPc[t] = "delete" /\ UNCHANGED <<m_connections, m_total, lent, stale>>
    BY <1>2 DEF DeleteStale
  <2>2. conns' = conns
    <3>1. conns' = [c \in Conn |-> IF c \in stale[t] THEN NoObject ELSE conns[c]] /\ stale[t] = {}
      BY <1>0, <1>2 DEF DeleteStale, IdleUsable
    <3> QED
      BY <1>0, <3>1
  <2>3. /\ clientPc' \in [Client -> ClientPc] /\ clientPc'[t] = "subtract"
        /\ \A u \in Client : u # t => clientPc'[u] = clientPc[u]
    BY <1>0, <1>2, PcMoved DEF DeleteStale, ClientPc
  <2>4. PoolTypeOK'
    BY <1>0, <2>1, <2>2, <2>3 DEF PoolTypeOK
  <2>5. IdleUsable'
    BY <1>0, <2>1, <2>2 DEF IdleUsable, Usable
  <2>6. LentAt'
    BY <1>0, <2>1, <2>2, <2>3 DEF LentAt, Usable
  <2>7. Owned' /\ Holders' = Holders /\ Live' = Live
    BY <1>0, <2>1, <2>2, OwnedKept
  <2>8. Counted' = Counted /\ Returning' = Returning
    BY <2>1, <2>3 DEF Counted, Returning
  <2> QED
    BY <1>0, <2>1, <2>4, <2>5, <2>6, <2>7, <2>8, TotalKept DEF PoolInv
<1>3. CASE SubtractStale(t)
  <2>1. clientPc[t] = "subtract" /\ UNCHANGED <<m_connections, conns, lent>>
    BY <1>3 DEF SubtractStale
  <2>2. stale' = stale /\ m_total' = m_total
    <3>1. /\ m_total' = m_total - Cardinality(stale[t]) /\ stale' = [stale EXCEPT ![t] = {}]
          /\ stale[t] = {}
      BY <1>0, <1>3 DEF SubtractStale, IdleUsable
    <3>2. Cardinality(stale[t]) = 0
      BY <3>1, FS_EmptySet
    <3> QED
      BY <1>0, <3>1, <3>2
  <2>3. /\ clientPc' \in [Client -> ClientPc]
        /\ lent[t] = NoConn => clientPc'[t] = "connect"
        /\ lent[t] # NoConn => clientPc'[t] = "request"
        /\ \A u \in Client : u # t => clientPc'[u] = clientPc[u]
    BY <1>0, <1>3, PcMoved DEF SubtractStale, ClientPc
  <2>4. PoolTypeOK'
    BY <1>0, <2>1, <2>2, <2>3 DEF PoolTypeOK
  <2>5. IdleUsable'
    BY <1>0, <2>1, <2>2 DEF IdleUsable, Usable
  <2>6. LentAt'
    BY <1>0, <2>1, <2>3 DEF LentAt, Usable
  <2>7. Owned' /\ Holders' = Holders /\ Live' = Live
    BY <1>0, <2>1, OwnedKept
  <2>8. Counted' = Counted /\ Returning' = Returning
    BY <2>1, <2>3 DEF Counted, Returning
  <2> QED
    BY <1>0, <2>1, <2>2, <2>4, <2>5, <2>6, <2>7, <2>8, TotalKept DEF PoolInv
<1>4. CASE ConnectFails(t)
  <2>1. clientPc[t] = "connect" /\ UNCHANGED <<m_connections, m_total, conns, lent, stale>>
    BY <1>4 DEF ConnectFails
  <2>2. /\ clientPc' \in [Client -> ClientPc] /\ clientPc'[t] = "idle"
        /\ \A u \in Client : u # t => clientPc'[u] = clientPc[u]
    BY <1>0, <1>4, PcMoved DEF ConnectFails, ClientPc
  <2>3. PoolTypeOK'
    BY <1>0, <2>1, <2>2 DEF PoolTypeOK
  <2>4. IdleUsable'
    BY <1>0, <2>1 DEF IdleUsable, Usable
  <2>5. LentAt'
    BY <1>0, <2>1, <2>2 DEF LentAt, Usable
  <2>6. Owned' /\ Holders' = Holders /\ Live' = Live
    BY <1>0, <2>1, OwnedKept
  <2>7. Counted' = Counted /\ Returning' = Returning
    BY <2>1, <2>2 DEF Counted, Returning
  <2> QED
    BY <1>0, <2>1, <2>3, <2>4, <2>5, <2>6, <2>7, TotalKept DEF PoolInv
<1>5. CASE Connect(t)
  <2>1. PICK c \in Conn : /\ ~conns[c].live
          /\ conns' = [conns EXCEPT ![c] = [live |-> TRUE, connected |-> TRUE, requests |-> 0]]
          /\ lent' = [lent EXCEPT ![t] = c]
    BY <1>5 DEF Connect
  <2>2. clientPc[t] = "connect" /\ UNCHANGED <<m_connections, m_total, stale>>
    BY <1>5 DEF Connect
  <2>3. /\ clientPc' \in [Client -> ClientPc] /\ clientPc'[t] = "count"
        /\ \A u \in Client : u # t => clientPc'[u] = clientPc[u]
    BY <1>0, <1>5, PcMoved DEF Connect, ClientPc
  <2>4. /\ lent' \in [Client -> Conn \cup {NoConn}] /\ lent'[t] = c /\ c # NoConn
        /\ \A u \in Client : u # t => lent'[u] = lent[u]
    BY <1>0, <2>1, PoolAssumption
  <2>5. /\ conns' \in [Conn -> [live : BOOLEAN, connected : BOOLEAN, requests : Nat]]
        /\ conns'[c].live /\ \A d \in Conn : d # c => conns'[d] = conns[d]
    BY <1>0, <2>1
  <2>6. lent[t] = NoConn /\ c \notin Range(m_connections) /\ \A u \in Client : lent[u] # c
    BY <1>0, <2>1, <2>2 DEF LentAt, Owned
  <2>7. Range(m_connections) \subseteq Conn
    BY <1>0, LenProperties DEF Range
  <2>8. PoolTypeOK'
    BY <1>0, <2>2, <2>3, <2>4, <2>5 DEF PoolTypeOK
  <2>9. IdleUsable'
    BY <1>0, <2>2, <2>5, <2>6, <2>7 DEF IdleUsable, Usable
  <2>10. LentAt'
    <3> SUFFICES ASSUME NEW u \in Client
                 PROVE  /\ clientPc'[u] \in {"idle", "connect", "forget"} => lent'[u] = NoConn
                        /\ clientPc'[u] \in {"count", "request", "release", "destroy", "return"}
                             => lent'[u] # NoConn
                        /\ clientPc'[u] = "return" => Usable(lent[u])'
      BY DEF LentAt
    <3>1. CASE u = t
      BY <2>3, <2>4, <3>1
    <3>2. CASE u # t
      <4>1. lent'[u] = lent[u] /\ clientPc'[u] = clientPc[u] /\ lent[u] # c
        BY <2>3, <2>4, <2>6, <3>2
      <4>2. lent[u] # NoConn => conns'[lent[u]] = conns[lent[u]]
        BY <1>0, <2>5, <4>1
      <4> QED
        BY <1>0, <4>1, <4>2 DEF LentAt, Usable
    <3> QED
      BY <3>1, <3>2
  <2>11. Owned'
    <3>0. /\ IsInjective(m_connections)
          /\ \A u, v \in Client : lent[u] = lent[v] /\ lent[u] # NoConn => u = v
          /\ \A u \in Client : lent[u] \notin Range(m_connections)
          /\ \A d \in Conn : conns[d].live <=> \/ d \in Range(m_connections)
                                                \/ \E u \in Client : lent[u] = d
      BY <1>0 DEF Owned
    <3>1. \A u, v \in Client : lent'[u] = lent'[v] /\ lent'[u] # NoConn => u = v
      BY <2>4, <2>6, <3>0
    <3>2. \A u \in Client : lent'[u] \notin Range(m_connections')
      BY <2>2, <2>4, <2>6, <3>0
    <3>3. ASSUME NEW d \in Conn
          PROVE  conns'[d].live <=> \/ d \in Range(m_connections')
                                    \/ \E u \in Client : lent'[u] = d
      <4>1. CASE d = c
        BY <2>4, <2>5, <4>1
      <4>2. CASE d # c
        <5>1. (\E u \in Client : lent'[u] = d) <=> (\E u \in Client : lent[u] = d)
          BY <2>4, <2>6, <4>2, PoolAssumption
        <5> QED
          BY <2>2, <2>5, <3>0, <4>2, <5>1
      <4> QED
        BY <4>1, <4>2
    <3> QED
      BY <2>2, <3>0, <3>1, <3>2, <3>3 DEF Owned
  <2>12. Counted' = Counted /\ Returning' = Returning
    BY <2>2, <2>3, <2>4 DEF Counted, Returning
  <2>13. Holders' = Holders \cup {t} /\ t \notin Holders
    BY <2>4, <2>6 DEF Holders
  <2>14. Live' = Live \cup {c} /\ c \notin Live
    BY <2>1, <2>5 DEF Live
  <2>15. /\ Cardinality(Holders') = Cardinality(Holders) + 1 /\ Cardinality(Holders) \in Nat
         /\ Cardinality(Live') = Cardinality(Live) + 1 /\ Cardinality(Live) \in Nat
    BY <2>13, <2>14, PoolFinite, OneMore
  <2>16. Len(m_connections) \in Nat
    BY <1>0, LenProperties
  <2>17. TotalExact'
    BY <1>0, <2>2, <2>12, <2>15, <2>16 DEF TotalExact
  <2> QED
    BY <2>8, <2>9, <2>10, <2>11, <2>17 DEF PoolInv
<1>6. CASE CountConnection(t)
  <2>1. /\ clientPc[t] = "count" /\ UNCHANGED <<m_connections, conns, lent, stale>>
        /\ m_total' = m_total + 1
    BY <1>6 DEF CountConnection
  <2>2. /\ clientPc' \in [Client -> ClientPc] /\ clientPc'[t] = "request"
        /\ \A u \in Client : u # t => clientPc'[u] = clientPc[u]
    BY <1>0, <1>6, PcMoved DEF CountConnection, ClientPc
  <2>3. PoolTypeOK'
    BY <1>0, <2>1, <2>2 DEF PoolTypeOK
  <2>4. IdleUsable'
    BY <1>0, <2>1 DEF IdleUsable, Usable
  <2>5. LentAt'
    BY <1>0, <2>1, <2>2 DEF LentAt, Usable
  <2>6. Owned' /\ Holders' = Holders /\ Live' = Live
    BY <1>0, <2>1, OwnedKept
  <2>7. Counted' = Counted \cup {t} /\ t \notin Counted /\ Returning' = Returning
    BY <2>1, <2>2 DEF Counted, Returning
  <2>8. Cardinality(Counted') = Cardinality(Counted) + 1 /\ Cardinality(Counted) \in Nat
    BY <2>7, PoolFinite, OneMore
  <2>9. Len(m_connections) \in Nat
    BY <1>0, LenProperties
  <2>10. TotalExact'
    BY <1>0, <2>1, <2>6, <2>7, <2>8, <2>9 DEF TotalExact
  <2> QED
    BY <2>3, <2>4, <2>5, <2>6, <2>10 DEF PoolInv
<1>7. CASE DoRequest(t)
  <2>1. PICK open \in BOOLEAN : conns' = [conns EXCEPT ![lent[t]].connected = open]
    BY <1>7 DEF DoRequest
  <2>2. clientPc[t] = "request" /\ UNCHANGED <<m_connections, m_total, lent, stale>>
    BY <1>7 DEF DoRequest
  <2>3. /\ clientPc' \in [Client -> ClientPc] /\ clientPc'[t] = "release"
        /\ \A u \in Client : u # t => clientPc'[u] = clientPc[u]
    BY <1>0, <1>7, PcMoved DEF DoRequest, ClientPc
  <2>4. lent[t] # NoConn /\ lent[t] \in Conn
    BY <1>0, <2>2 DEF LentAt
  <2>5. /\ conns' \in [Conn -> [live : BOOLEAN, connected : BOOLEAN, requests : Nat]]
        /\ \A d \in Conn : d # lent[t] => conns'[d] = conns[d]
        /\ \A d \in Conn : conns'[d].live <=> conns[d].live
    BY <1>0, <2>1, <2>4
  <2>6. PoolTypeOK'
    BY <1>0, <2>2, <2>3, <2>5 DEF PoolTypeOK
  <2>7. IdleUsable'
    <3>1. \A c \in Range(m_connections) : c \in Conn /\ c # lent[t]
      BY <1>0, LenProperties DEF Range, Owned
    <3> QED
      BY <1>0, <2>2, <2>5, <3>1 DEF IdleUsable, Usable
  <2>8. LentAt'
    BY <1>0, <2>2, <2>3, <2>4, <2>5, OthersUsable
  <2>9. Owned' /\ Holders' = Holders /\ Live' = Live
    BY <1>0, <2>2, <2>5, OwnedKept
  <2>10. Counted' = Counted /\ Returning' = Returning
    BY <2>2, <2>3 DEF Counted, Returning
  <2> QED
    BY <1>0, <2>2, <2>6, <2>7, <2>8, <2>9, <2>10, TotalKept DEF PoolInv
<1>8. CASE Release(t)
  <2> DEFINE c == lent[t]
             n == conns[c].requests + 1
             p == IF ~Usable(c) \/ n > m_maxRequest \/ OverLimit THEN "destroy" ELSE "return"
  <2>1. /\ conns' = [conns EXCEPT ![c].requests = n]
        /\ clientPc' = [clientPc EXCEPT ![t] = p]
    BY <1>8 DEF Release
  <2>2. clientPc[t] = "release" /\ UNCHANGED <<m_connections, m_total, lent, stale>>
    BY <1>8 DEF Release
  <2>3. p \in {"destroy", "return"} /\ (p = "return" => Usable(c) /\ ~OverLimit)
    OBVIOUS
  <2>4. c # NoConn /\ c \in Conn
    BY <1>0, <2>2 DEF LentAt
  <2>5. /\ conns' \in [Conn -> [live : BOOLEAN, connected : BOOLEAN, requests : Nat]]
        /\ \A d \in Conn : d # c => conns'[d] = conns[d]
        /\ \A d \in Conn : conns'[d].live <=> conns[d].live
        /\ conns'[c].connected = conns[c].connected
    <3>1. n \in Nat
      BY <1>0, <2>4
    <3> HIDE DEF n
    <3> QED
      BY <1>0, <2>1, <2>4, <3>1
  <2> HIDE DEF p, n
  <2>6. /\ clientPc' \in [Client -> ClientPc] /\ clientPc'[t] = p
        /\ \A u \in Client : u # t => clientPc'[u] = clientPc[u]
    BY <1>0, <2>1, <2>3, PcMoved DEF ClientPc
  <2>7. PoolTypeOK'
    BY <1>0, <2>2, <2>5, <2>6 DEF PoolTypeOK
  <2>8. IdleUsable'
    <3>1. \A d \in Range(m_connections) : d \in Conn /\ d # c
      BY <1>0, LenProperties DEF Range, Owned
    <3> QED
      BY <1>0, <2>2, <2>5, <3>1 DEF IdleUsable, Usable
  <2>9. LentAt'
    <3>1. p = "return" => conns'[c].connected /\ ~Expired
      BY <2>3, <2>5 DEF Usable
    <3> QED
      BY <1>0, <2>2, <2>3, <2>4, <2>5, <2>6, <3>1, OthersUsable
  <2>10. Owned' /\ Holders' = Holders /\ Live' = Live
    BY <1>0, <2>2, <2>5, OwnedKept
  <2>11. Counted' = Counted /\ t \in Counted /\ t \notin Returning
    BY <2>2, <2>3, <2>6 DEF Counted, Returning
  <2>12. CASE p = "destroy"
    <3>1. Returning' = Returning
      BY <2>2, <2>6, <2>12 DEF Returning
    <3> QED
      BY <1>0, <2>2, <2>7, <2>8, <2>9, <2>10, <2>11, <3>1, TotalKept DEF PoolInv
  <2>13. CASE p = "return"
    <3>1. Returning' = Returning \cup {t}
      BY <2>2, <2>6, <2>13 DEF Returning
    <3>2. Cardinality(Returning') = Cardinality(Returning) + 1
      BY <2>11, <3>1, PoolFinite, OneMore
    <3>3. Returning' \in SUBSET Counted
      BY <2>11, <3>1 DEF Returning, Counted
    <3>4. Cardinality(Returning') <= Cardinality(Counted)
      BY <3>3, PoolFinite, FS_Subset
    <3>5. m_total <= m_maxSize
      BY <1>0, <2>3, <2>13, PoolAssumption DEF OverLimit
    <3>6. Len(m_connections) \in Nat /\ m_total = Len(m_connections) + Cardinality(Counted)
      BY <1>0, LenProperties DEF TotalExact
    <3>7. Cardinality(Counted) \in Nat /\ Cardinality(Returning) \in Nat /\ m_maxSize \in Nat
      BY PoolFinite, PoolAssumption
    <3>8. Len(m_connections) + Cardinality(Returning') <= m_maxSize
      BY <3>2, <3>4, <3>5, <3>6, <3>7
    <3>9. TotalExact'
      BY <1>0, <2>2, <2>10, <2>11, <3>8 DEF TotalExact
    <3> QED
      BY <2>7, <2>8, <2>9, <2>10, <3>9 DEF PoolInv
  <2> QED
    BY <2>3, <2>12, <2>13
<1>9. CASE DestroyConnection(t)
  <2> DEFINE c == lent[t]
  <2>1. /\ conns' = [conns EXCEPT ![c] = NoObject] /\ lent' = [lent EXCEPT ![t] = NoConn]
        /\ clientPc[t] = "destroy" /\ UNCHANGED <<m_connections, m_total, stale>>
    BY <1>9 DEF DestroyConnection
  <2>2. /\ clientPc' \in [Client -> ClientPc] /\ clientPc'[t] = "forget"
        /\ \A u \in Client : u # t => clientPc'[u] = clientPc[u]
    BY <1>0, <1>9, PcMoved DEF DestroyConnection, ClientPc
  <2>3. c # NoConn /\ c \in Conn
    BY <1>0, <2>1 DEF LentAt
  <2>4. /\ conns' \in [Conn -> [live : BOOLEAN, connected : BOOLEAN, requests : Nat]]
        /\ \A d \in Conn : d # c => conns'[d] = conns[d]
        /\ ~conns'[c].live
    BY <1>0, <2>1, <2>3 DEF NoObject
  <2>5. /\ lent' \in [Client -> Conn \cup {NoConn}] /\ lent'[t] = NoConn
        /\ \A u \in Client : u # t => lent'[u] = lent[u]
    BY <1>0, <2>1
  <2>6. /\ IsInjective(m_connections)
        /\ \A u, v \in Client : lent[u] = lent[v] /\ lent[u] # NoConn => u = v
        /\ \A u \in Client : lent[u] \notin Range(m_connections)
        /\ \A d \in Conn : conns[d].live <=> \/ d \in Range(m_connections)
                                              \/ \E u \in Client : lent[u] = d
    BY <1>0 DEF Owned
  <2>7. \A d \in Range(m_connections) : d \in Conn /\ d # c
    BY <1>0, <2>6, LenProperties DEF Range
  <2>8. PoolTypeOK'
    BY <1>0, <2>1, <2>2, <2>4, <2>5 DEF PoolTypeOK
  <2>9. IdleUsable'
    BY <1>0, <2>1, <2>4, <2>7 DEF IdleUsable, Usable
  <2>10. \A u \in Client : u # t => lent[u] # c
    BY <2>3, <2>6
  <2>11. LentAt'
    <3> SUFFICES ASSUME NEW u \in Client
                 PROVE  /\ clientPc'[u] \in {"idle", "connect", "forget"} => lent'[u] = NoConn
                        /\ clientPc'[u] \in {"count", "request", "release", "destroy", "return"}
                             => lent'[u] # NoConn
                        /\ clientPc'[u] = "return" => Usable(lent[u])'
      BY DEF LentAt
    <3>1. CASE u = t
      BY <2>2, <2>5, <3>1
    <3>2. CASE u # t
      <4>1. lent'[u] = lent[u] /\ clientPc'[u] = clientPc[u] /\ lent[u] # c
        BY <2>2, <2>5, <2>10, <3>2
      <4>2. lent[u] # NoConn => conns'[lent[u]] = conns[lent[u]]
        BY <1>0, <2>4, <4>1
      <4> QED
        BY <1>0, <4>1, <4>2 DEF LentAt, Usable
    <3> QED
      BY <3>1, <3>2
  <2>12. Owned'
    <3>1. \A u, v \in Client : lent'[u] = lent'[v] /\ lent'[u] # NoConn => u = v
      BY <2>5, <2>6
    <3>2. \A u \in Client : lent'[u] \notin Range(m_connections')
      BY <2>1, <2>5, <2>6, <2>7, PoolAssumption
    <3>3. ASSUME NEW d \in Conn
          PROVE  conns'[d].live <=> \/ d \in Range(m_connections')
                                    \/ \E u \in Client : lent'[u] = d
      <4>1. CASE d = c
        BY <2>1, <2>3, <2>4, <2>5, <2>7, <2>10, <4>1
      <4>2. CASE d # c
        <5>1. (\E u \in Client : lent'[u] = d) <=> (\E u \in Client : lent[u] = d)
          BY <2>5, <4>2, PoolAssumption
        <5> QED
          BY <2>1, <2>4, <2>6, <4>2, <5>1
      <4> QED
        BY <4>1, <4>2
    <3> QED
      BY <2>1, <2>6, <3>1, <3>2, <3>3 DEF Owned
  <2>13. Counted' = Counted /\ Returning' = Returning
    BY <2>1, <2>2, <2>5 DEF Counted, Returning
  <2>14. Holders' = Holders \ {t} /\ t \in Holders
    BY <2>3, <2>5 DEF Holders
  <2>15. Live' = Live \ {c} /\ c \in Live
    BY <2>3, <2>4, <2>6 DEF Live
  <2>16. /\ Cardinality(Holders') = Cardinality(Holders) - 1 /\ Cardinality(Holders) \in Nat
         /\ Cardinality(Live') = Cardinality(Live) - 1 /\ Cardinality(Live) \in Nat
    BY <2>14, <2>15, PoolFinite, OneLess
  <2>17. Len(m_connections) \in Nat
    BY <1>0, LenProperties
  <2>18. TotalExact'
    BY <1>0, <2>1, <2>13, <2>16, <2>17 DEF TotalExact
  <2> QED
    BY <2>8, <2>9, <2>11, <2>12, <2>18 DEF PoolInv
<1>10. CASE UncountConnection(t)
  <2>1. /\ clientPc[t] = "forget" /\ UNCHANGED <<m_connections, conns, lent, stale>>
        /\ m_total' = m_total - 1
    BY <1>10 DEF UncountConnection
  <2>2. /\ clientPc' \in [Client -> ClientPc] /\ clientPc'[t] = "idle"
        /\ \A u \in Client : u # t => clientPc'[u] = clientPc[u]
    BY <1>0, <1>10, PcMoved DEF UncountConnection, ClientPc
  <2>3. PoolTypeOK'
    BY <1>0, <2>1, <2>2 DEF PoolTypeOK
  <2>4. IdleUsable'
    BY <1>0, <2>1 DEF IdleUsable, Usable
  <2>5. LentAt'
    BY <1>0, <2>1, <2>2 DEF LentAt, Usable
  <2>6. Owned' /\ Holders' = Holders /\ Live' = Live
    BY <1>0, <2>1, OwnedKept
  <2>7. Counted' = Counted \ {t} /\ t \in Counted /\ Returning' = Returning
    BY <2>1, <2>2 DEF Counted, Returning
  <2>8. Cardinality(Counted') = Cardinality(Counted) - 1 /\ Cardinality(Counted) \in Nat
    BY <2>7, PoolFinite, OneLess
  <2>9. Len(m_connections) \in Nat
    BY <1>0, LenProperties
  <2>10. TotalExact'
    BY <1>0, <2>1, <2>6, <2>7, <2>8, <2>9 DEF TotalExact
  <2> QED
    BY <2>3, <2>4, <2>5, <2>6, <2>10 DEF PoolInv
<1>11. CASE ReturnConnection(t)
  <2> DEFINE c == lent[t]
  <2>1. /\ m_connections' = Append(m_connections, c) /\ lent' = [lent EXCEPT ![t] = NoConn]
        /\ clientPc[t] = "return" /\ UNCHANGED <<m_total, conns, stale>>
    BY <1>11 DEF ReturnConnection
  <2>2. /\ clientPc' \in [Client -> ClientPc] /\ clientPc'[t] = "idle"
        /\ \A u \in Client : u # t => clientPc'[u] = clientPc[u]
    BY <1>0, <1>11, PcMoved DEF ReturnConnection, ClientPc
  <2>3. c # NoConn /\ c \in Conn /\ Usable(c)
    BY <1>0, <2>1 DEF LentAt
  <2>4. /\ lent' \in [Client -> Conn \cup {NoConn}] /\ lent'[t] = NoConn
        /\ \A u \in Client : u # t => lent'[u] = lent[u]
    BY <1>0, <2>1
  <2>5. /\ IsInjective(m_connections)
        /\ \A u, v \in Client : lent[u] = lent[v] /\ lent[u] # NoConn => u = v
        /\ \A u \in Client : lent[u] \notin Range(m_connections)
        /\ \A d \in Conn : conns[d].live <=> \/ d \in Range(m_connections)
                                              \/ \E u \in Client : lent[u] = d
    BY <1>0 DEF Owned
  <2>6. /\ m_connections' \in Seq(Conn) /\ Len(m_connections') = Len(m_connections) + 1
        /\ Len(m_connections) \in Nat /\ IsInjective(m_connections')
        /\ Range(m_connections') = Range(m_connections) \cup {c}
    BY <1>0, <2>1, <2>3, <2>5, LastPut
  <2>7. PoolTypeOK'
    BY <1>0, <2>1, <2>2, <2>4, <2>6 DEF PoolTypeOK
  <2>8. IdleUsable'
    BY <1>0, <2>1, <2>3, <2>6 DEF IdleUsable, Usable
  <2>9. LentAt'
    BY <1>0, <2>1, <2>2, <2>4 DEF LentAt, Usable
  <2>10. Owned'
    <3>1. \A u, v \in Client : lent'[u] = lent'[v] /\ lent'[u] # NoConn => u = v
      BY <2>4, <2>5
    <3>2. \A u \in Client : u # t => lent[u] # c
      BY <2>3, <2>5
    <3>3. NoConn \notin Range(m_connections')
      BY <2>6, LenProperties, PoolAssumption DEF Range
    <3>4. \A u \in Client : lent'[u] \notin Range(m_connections')
      BY <2>4, <2>5, <2>6, <3>2, <3>3
    <3>5. ASSUME NEW d \in Conn
          PROVE  conns'[d].live <=> \/ d \in Range(m_connections')
                                    \/ \E u \in Client : lent'[u] = d
      <4>1. CASE d = c
        BY <2>1, <2>5, <2>6, <4>1
      <4>2. CASE d # c
        <5>1. (\E u \in Client : lent'[u] = d) <=> (\E u \in Client : lent[u] = d)
          BY <2>4, <4>2, PoolAssumption
        <5> QED
          BY <2>1, <2>5, <2>6, <4>2, <5>1
      <4> QED
        BY <4>1, <4>2
    <3> QED
      BY <2>6, <3>1, <3>4, <3>5 DEF Owned
  <2>11. Counted' = Counted \ {t} /\ t \in Counted
    BY <2>1, <2>2, <2>4 DEF Counted
  <2>12. Holders' = Holders \ {t} /\ t \in Holders
    BY <2>3, <2>4 DEF Holders
  <2>13. Returning' = Returning \ {t} /\ t \in Returning /\ Live' = Live
    BY <2>1, <2>2 DEF Returning, Live
  <2>14. /\ Cardinality(Counted') = Cardinality(Counted) - 1 /\ Cardinality(Counted) \in Nat
         /\ Cardinality(Holders') = Cardinality(Holders) - 1 /\ Cardinality(Holders) \in Nat
         /\ Cardinality(Returning') = Cardinality(Returning) - 1 /\ Cardinality(Returning) \in Nat
    BY <2>11, <2>12, <2>13, PoolFinite, OneLess
  <2>15. TotalExact'
    <3>1. /\ m_total' = Len(m_connections') + Cardinality(Counted')
          /\ Cardinality(Live') = Len(m_connections') + Cardinality(Holders')
      BY <1>0, <2>1, <2>6, <2>13, <2>14 DEF TotalExact
    <3>2. Len(m_connections') + Cardinality(Returning') <= m_maxSize
      BY <1>0, <2>6, <2>14 DEF TotalExact
    <3> QED
      BY <3>1, <3>2 DEF TotalExact
  <2> QED
    BY <2>7, <2>8, <2>9, <2>10, <2>15 DEF PoolInv
<1> QED
  BY <1>1, <1>2, <1>3, <1>4, <1>5, <1>6, <1>7, <1>8, <1>9, <1>10, <1>11

\* A step that changes nothing keeps it.
LEMMA PoolStutter ==
    ASSUME PoolInv, UNCHANGED poolVars
    PROVE  PoolInv'
<1>1. /\ PoolTypeOK /\ IdleUsable /\ LentAt /\ Owned /\ TotalExact
      /\ m_connections' = m_connections /\ m_total' = m_total /\ conns' = conns
      /\ clientPc' = clientPc /\ lent' = lent /\ stale' = stale
  BY DEF PoolInv, poolVars
<1>2. PoolTypeOK' /\ IdleUsable' /\ LentAt'
  BY <1>1 DEF PoolTypeOK, IdleUsable, LentAt, Usable
<1>3. Owned' /\ Holders' = Holders /\ Live' = Live
  BY <1>1, OwnedKept
<1>4. Counted' = Counted /\ Returning' = Returning
  BY <1>1 DEF Counted, Returning
<1> QED
  BY <1>1, <1>2, <1>3, <1>4, TotalKept DEF PoolInv

\* The counted threads and those about to count hold the connections that are
\* lent, with the threads about to uncount one.
LEMMA PoolInvSound ==
    ASSUME PoolInv
    PROVE  PoolSound
<1>0. /\ PoolTypeOK /\ IdleUsable /\ LentAt /\ Owned /\ TotalExact
      /\ m_connections \in Seq(Conn) /\ m_total \in Int
      /\ clientPc \in [Client -> ClientPc] /\ lent \in [Client -> Conn \cup {NoConn}]
  BY DEF PoolInv, PoolTypeOK
<1>1. OneOwner
  <2> SUFFICES ASSUME NEW c \in Conn
               PROVE  LET owners == {t \in Client :
                                       lent[t] = c \/ (c \in stale[t] /\ clientPc[t] = "delete")}
                          idle   == c \in Range(m_connections)
                      IN  /\ Cardinality(owners) <= 1
                          /\ ~(idle /\ owners # {})
                          /\ conns[c].live <=> (idle \/ owners # {})
    BY <1>0 DEF OneOwner, Owned
  <2> DEFINE owners == {t \in Client : lent[t] = c \/ (c \in stale[t] /\ clientPc[t] = "delete")}
  <2>1. owners = {t \in Client : lent[t] = c}
    BY <1>0 DEF IdleUsable
  <2> HIDE DEF owners
  <2>2. c # NoConn
    BY PoolAssumption
  <2>3. \A t, u \in owners : t = u
    BY <1>0, <2>1, <2>2 DEF Owned
  <2>4. Cardinality(owners) <= 1
    <3>1. CASE owners = {}
      BY <3>1, FS_EmptySet
    <3>2. CASE owners # {}
      <4>1. PICK t \in owners : TRUE
        BY <3>2
      <4>2. owners = {t}
        BY <2>3, <4>1
      <4>3. Cardinality({t}) = 1
        BY FS_Singleton
      <4> QED
        BY <4>2, <4>3
    <3> QED
      BY <3>1, <3>2
  <2>5. ~(c \in Range(m_connections) /\ owners # {})
    BY <1>0, <2>1 DEF Owned
  <2>6. conns[c].live <=> (c \in Range(m_connections) \/ owners # {})
    BY <1>0, <2>1 DEF Owned
  <2> QED
    BY <2>4, <2>5, <2>6 DEF owners
<1>2. WithinLimit
  <2> DEFINE Count  == {t \in Client : clientPc[t] = "count"}
             Forget == {t \in Client : clientPc[t] = "forget"}
  <2>1. Len(m_connections) \in Nat
    BY <1>0, LenProperties
  <2>2. IsFiniteSet(Count) /\ IsFiniteSet(Forget)
    BY PoolAssumption, FS_Subset
  <2>3. Cardinality(Count) \in Nat /\ Cardinality(Forget) \in Nat
    BY <2>2, FS_CardinalityType
  <2>4. Counted \cap Count = {} /\ Holders \cap Forget = {}
    BY <1>0 DEF Counted, Holders, LentAt
  <2>5. Counted \cup Count = Holders \cup Forget
    BY <1>0 DEF Counted, Holders, LentAt, ClientPc
  <2> HIDE DEF Count, Forget
  <2>6. Cardinality(Counted \cup Count) = Cardinality(Counted) + Cardinality(Count)
    BY <2>2, <2>4, PoolFinite, DisjointSum
  <2>7. Cardinality(Holders \cup Forget) = Cardinality(Holders) + Cardinality(Forget)
    BY <2>2, <2>4, PoolFinite, DisjointSum
  <2>8. Cardinality(Counted) + Cardinality(Count) = Cardinality(Holders) + Cardinality(Forget)
    BY <2>5, <2>6, <2>7
  <2>9. /\ m_total = Len(m_connections) + Cardinality(Counted)
        /\ Cardinality(Live) = Len(m_connections) + Cardinality(Holders)
        /\ Len(m_connections) + Cardinality(Returning) <= m_maxSize
    BY <1>0 DEF TotalExact
  <2>10. /\ Cardinality(Counted) \in Nat /\ Cardinality(Holders) \in Nat
         /\ Cardinality(Returning) \in Nat /\ m_maxSize \in Nat
    BY PoolFinite, PoolAssumption
  <2>11. m_total = Cardinality(Live) - Cardinality(Count) + Cardinality(Forget)
    <3>1. Cardinality(Counted) = Cardinality(Holders) + Cardinality(Forget) - Cardinality(Count)
      BY <2>3, <2>8, <2>10
    <3>2. m_total = (Len(m_connections) + Cardinality(Holders)) - Cardinality(Count) + Cardinality(Forget)
      BY <2>1, <2>3, <2>9, <2>10, <3>1
    <3> QED
      BY <2>9, <3>2
  <2>12. Len(m_connections) <= m_maxSize
    BY <2>1, <2>9, <2>10
  <2> QED
    BY <2>11, <2>12 DEF WithinLimit, Live, Count, Forget
<1> QED
  BY <1>1, <1>2 DEF PoolSound

\* For any number of threads and connections and any limits, in every order in
\* which threads take connections, return or delete them and update m_total
\* outside the lock: a connection is idle once or lent to one thread, none is
\* used after its deletion, the counter is exact up to the updates under way,
\* and the list never outgrows m_maxSize (http_connection.cpp:433-456,
\* 642-661).
THEOREM PoolIsSound == PoolSpec => []PoolSound
<1>1. PoolInv /\ [PoolNext]_poolVars => PoolInv'
  <2> SUFFICES ASSUME PoolInv, [PoolNext]_poolVars PROVE PoolInv'
    OBVIOUS
  <2>1. CASE PoolNext
    BY <2>1, PoolStep DEF PoolNext
  <2>2. CASE UNCHANGED poolVars
    BY <2>2, PoolStutter
  <2> QED
    BY <2>1, <2>2
<1>2. PoolInv => PoolSound
  BY PoolInvSound
<1> QED
  BY <1>1, <1>2, PoolInitInv, PTL DEF PoolSpec

-----------------------------------------------------------------------------
(* Config *)

\* A loader that has finished a file is a loader.
LEMMA NextFileType ==
    ASSUME CfgTypeOK, NEW s \in CfgLoad, s.files # <<>>
    PROVE  /\ NextFile(s) \in CfgLoad
           /\ NextFile(s).pc \in {"idle", "stat"}
           /\ NextFile(s).pc # "idle" => NextFile(s).files # <<>> /\ Len(s.files) > 1
<1>1. CfgIdle \in CfgLoad /\ CfgIdle.pc = "idle"
  BY EmptySeq DEF CfgIdle, CfgLoad, CfgTypeOK
<1>2. Len(s.files) \in Nat /\ Tail(s.files) \in Seq(File) /\ Len(Tail(s.files)) = Len(s.files) - 1
  BY HeadTailProperties DEF CfgLoad
<1>3. CASE Len(s.files) > 1
  <2>1. NextFile(s) = [CfgIdle EXCEPT !.pc = "stat", !.files = Tail(s.files)]
    BY <1>3 DEF NextFile
  <2>2. NextFile(s) \in CfgLoad /\ NextFile(s).pc = "stat" /\ NextFile(s).files = Tail(s.files)
    BY <1>1, <1>2, <2>1 DEF CfgIdle, CfgLoad
  <2>3. Tail(s.files) # <<>>
    BY <1>2, <1>3
  <2> QED
    BY <1>3, <2>2, <2>3
<1>4. CASE ~(Len(s.files) > 1)
  BY <1>1, <1>4 DEF NextFile
<1> QED
  BY <1>3, <1>4

\* The history stays one when something is added to it.
CfgHistory == [overlap : BOOLEAN, sameSecond : BOOLEAN, late : BOOLEAN, edits : Nat]

\* The recorded history keeps its type.
LEMMA HistoryType ==
    ASSUME CfgTypeOK, NEW b \in BOOLEAN
    PROVE  /\ cfgHistory \in CfgHistory
           /\ [cfgHistory EXCEPT !.late = @ \/ b] \in CfgHistory
           /\ [cfgHistory EXCEPT !.edits = @ + 1] \in CfgHistory
           /\ [cfgHistory EXCEPT !.edits = @ + 1, !.sameSecond = @ \/ b] \in CfgHistory
<1>1. cfgHistory \in CfgHistory
  BY DEF CfgTypeOK, CfgHistory
<1>2. (cfgHistory.late \/ b) \in BOOLEAN /\ (cfgHistory.sameSecond \/ b) \in BOOLEAN
  OBVIOUS
<1>3. \A p \in BOOLEAN : [cfgHistory EXCEPT !.late = p] \in CfgHistory
  BY <1>1 DEF CfgHistory
<1>4. [cfgHistory EXCEPT !.edits = @ + 1] \in CfgHistory
  BY <1>1 DEF CfgHistory
<1>5. \A p \in BOOLEAN : [[cfgHistory EXCEPT !.edits = @ + 1] EXCEPT !.sameSecond = p] \in CfgHistory
  BY <1>4 DEF CfgHistory
<1>6. \A p \in BOOLEAN : [cfgHistory EXCEPT !.edits = @ + 1, !.sameSecond = p] \in CfgHistory
  BY <1>1, <1>5 DEF CfgHistory
<1> QED
  BY <1>1, <1>2, <1>3, <1>4, <1>6, Zenon

\* What a step of a loader does to it.
Moves(l, s) == cfgLoading' = [cfgLoading EXCEPT ![l] = s]

\* Assigning to one variable keeps the type of all of them.
LEMMA ValueAssigned ==
    ASSUME NEW N, NEW V, NEW C, NEW f \in [N -> [m_val : V, m_cbs : C]], NEW n \in N, NEW v \in V
    PROVE  [f EXCEPT ![n].m_val = v] \in [N -> [m_val : V, m_cbs : C]]
OBVIOUS

\* The variables keep their types.
LEMMA CfgTypeStep ==
    ASSUME CfgTypeOK, LoaderOK, CfgNext
    PROVE  CfgTypeOK'
<1> USE DEF CfgTypeOK
<1>1. CASE LookUp
  <2>1. PICK n \in CfgNames : cfgDatas' = [x \in DOMAIN cfgDatas \cup {n} |->
                       IF x = n THEN [m_val |-> 0, m_cbs |-> {}] ELSE cfgDatas[x]]
    BY <1>1 DEF LookUp
  <2>2. 0 \in CfgVal
    BY DEF CfgVal
  <2>3. DOMAIN cfgDatas' = DOMAIN cfgDatas \cup {n}
    BY <2>1
  <2>4. DOMAIN cfgDatas' \subseteq CfgNames
    BY <2>3
  <2>5. cfgDatas' \in [DOMAIN cfgDatas \cup {n} -> [m_val : CfgVal, m_cbs : SUBSET CfgListener]]
    BY <2>1, <2>2
  <2> QED
    BY <1>1, <2>3, <2>4, <2>5 DEF LookUp, CfgLoad
<1>2. CASE addListener
  <2>1. PICK n \in DOMAIN cfgDatas, c \in CfgListener :
          /\ cfgDatas' = [cfgDatas EXCEPT ![n].m_cbs = @ \cup {c}]
          /\ cfgTold' = [cfgTold EXCEPT ![c] = cfgDatas[n].m_val]
    BY <1>2 DEF addListener
  <2>2. DOMAIN cfgDatas' = DOMAIN cfgDatas /\ cfgTold' \in [CfgListener -> CfgVal]
    BY <2>1
  <2>3. cfgDatas' \in [DOMAIN cfgDatas -> [m_val : CfgVal, m_cbs : SUBSET CfgListener]]
    BY <2>1
  <2>4. cfgHistory' \in CfgHistory
    BY <1>2, HistoryType DEF addListener
  <2> QED
    BY <1>2, <2>2, <2>3, <2>4 DEF addListener, CfgLoad, CfgHistory
<1>3. CASE delListener
  <2>1. PICK n \in DOMAIN cfgDatas : \E c \in cfgDatas[n].m_cbs :
          cfgDatas' = [cfgDatas EXCEPT ![n].m_cbs = @ \ {c}]
    BY <1>3 DEF delListener
  <2>2. DOMAIN cfgDatas' = DOMAIN cfgDatas
    BY <2>1
  <2>3. cfgDatas' \in [DOMAIN cfgDatas -> [m_val : CfgVal, m_cbs : SUBSET CfgListener]]
    BY <2>1
  <2> QED
    BY <1>3, <2>2, <2>3 DEF delListener, CfgLoad
<1>4. CASE EditFile
  <2>1. PICK f \in File, text \in CfgTexts, tick \in 0..1 :
          /\ cfgClock' = cfgClock + tick
          /\ cfgDisk' = [cfgDisk EXCEPT ![f] = [mtime |-> cfgClock + tick, text |-> text, exists |-> TRUE]]
    BY <1>4 DEF EditFile
  <2>2. text \in CfgText /\ cfgClock' \in Nat \ {0} /\ cfgClock <= cfgClock'
    BY <2>1, CfgAssumption
  <2>3. cfgDisk' \in [File -> [mtime : 1..cfgClock', text : CfgText, exists : BOOLEAN]]
    BY <2>1, <2>2
  <2>4. cfgLoading' \in [CfgLoader -> CfgLoad']
    <3>1. CfgLoad \subseteq CfgLoad'
      BY <2>2 DEF CfgLoad
    <3> QED
      BY <1>4, <3>1 DEF EditFile
  <2>5. cfgTimes' \in [File -> 0..cfgClock']
    BY <1>4, <2>2 DEF EditFile
  <2>6. cfgHistory' \in CfgHistory
    BY <1>4, HistoryType DEF EditFile
  <2> QED
    BY <1>4, <2>2, <2>3, <2>4, <2>5, <2>6 DEF EditFile, CfgHistory
<1>5. CASE RemoveFile
  <2>1. cfgHistory' \in CfgHistory
    BY <1>5, HistoryType DEF RemoveFile
  <2>2. cfgDisk' \in [File -> [mtime : 1..cfgClock, text : CfgText, exists : BOOLEAN]]
    <3>1. PICK f \in File : cfgDisk' = [cfgDisk EXCEPT ![f].exists = FALSE]
      BY <1>5 DEF RemoveFile
    <3> QED
      BY <3>1
  <2> QED
    BY <1>5, <2>1, <2>2 DEF RemoveFile, CfgLoad, CfgHistory
<1>6. ASSUME NEW l \in CfgLoader, NEW s \in CfgLoad, Moves(l, s), UNCHANGED <<cfgDatas, cfgDisk, cfgClock>>,
             cfgTimes' \in [File -> 0..cfgClock], cfgTold' \in [CfgListener -> CfgVal],
             cfgScans' \in Nat, cfgHistory' \in [overlap : BOOLEAN, sameSecond : BOOLEAN, late : BOOLEAN, edits : Nat]
      PROVE  CfgTypeOK'
  BY <1>6 DEF Moves, CfgLoad
<1>7. ASSUME NEW l \in CfgLoader, ListAllFile(l) PROVE CfgTypeOK'
  <2>1. CfgFiles \in Seq(File)
    BY CfgAssumption
  <2>2. [CfgIdle EXCEPT !.pc = "stat", !.files = CfgFiles] \in CfgLoad
    <3>1. CfgIdle \in CfgLoad
      BY EmptySeq DEF CfgIdle, CfgLoad
    <3> QED
      BY <2>1, <3>1 DEF CfgLoad
  <2>3. /\ Moves(l, [CfgIdle EXCEPT !.pc = "stat", !.files = CfgFiles])
        /\ cfgScans' \in Nat
        /\ UNCHANGED <<cfgDatas, cfgDisk, cfgTimes, cfgTold, cfgClock, cfgHistory>>
    BY <1>7 DEF ListAllFile, Moves
  <2> QED
    BY <1>6, <2>2, <2>3
<1>8. ASSUME NEW l \in CfgLoader, cfgLoading[l].pc # "idle"
      PROVE  /\ cfgLoading[l] \in CfgLoad /\ cfgLoading[l].files # <<>>
             /\ cfgLoading[l].files \in Seq(File) /\ Head(cfgLoading[l].files) \in File
  <2>1. cfgLoading[l] \in CfgLoad /\ cfgLoading[l].files # <<>>
    BY <1>8 DEF LoaderOK, InHand
  <2>2. cfgLoading[l].files \in Seq(File)
    BY <2>1 DEF CfgLoad
  <2> QED
    BY <2>1, <2>2, HeadTailProperties
<1>9. ASSUME NEW l \in CfgLoader, LstatFile(l) PROVE CfgTypeOK'
  <2> DEFINE f == Head(cfgLoading[l].files)
  <2>1. cfgDisk[f].mtime \in 0..cfgClock
    BY <1>8, <1>9 DEF LstatFile
  <2>2. [cfgLoading[l] EXCEPT !.pc = "mark", !.mtime = cfgDisk[f].mtime] \in CfgLoad
    BY <1>8, <1>9, <2>1 DEF LstatFile, CfgLoad
  <2>3. CfgIdle \in CfgLoad
    BY EmptySeq DEF CfgIdle, CfgLoad
  <2> QED
    BY <1>6, <1>9, <2>2, <2>3 DEF LstatFile, Moves
<1>10. ASSUME NEW l \in CfgLoader, MarkFile(l) PROVE CfgTypeOK'
  <2> DEFINE f == Head(cfgLoading[l].files)
  <2>1. NextFile(cfgLoading[l]) \in CfgLoad
    BY <1>8, <1>10, NextFileType DEF MarkFile
  <2>2. [cfgLoading[l] EXCEPT !.pc = "load"] \in CfgLoad
    BY <1>8, <1>10 DEF MarkFile, CfgLoad
  <2>3. cfgLoading[l].mtime \in 0..cfgClock
    BY <1>8, <1>10 DEF MarkFile, CfgLoad
  <2>4. cfgTimes' \in [File -> 0..cfgClock]
    BY <1>8, <1>10, <2>3 DEF MarkFile
  <2>5. Moves(l, NextFile(cfgLoading[l])) \/ Moves(l, [cfgLoading[l] EXCEPT !.pc = "load"])
    BY <1>10 DEF MarkFile, Moves
  <2> QED
    BY <1>6, <1>10, <2>1, <2>2, <2>4, <2>5 DEF MarkFile
<1>11. ASSUME NEW l \in CfgLoader, LoadFile(l) PROVE CfgTypeOK'
  <2> DEFINE d == cfgDisk[Head(cfgLoading[l].files)]
  <2>1. NextFile(cfgLoading[l]) \in CfgLoad
    BY <1>8, <1>11, NextFileType DEF LoadFile
  <2>2. d.text.nodes \in Seq(CfgNode)
    BY <1>8, <1>11 DEF LoadFile, CfgText
  <2>3. [cfgLoading[l] EXCEPT !.pc = "set", !.nodes = d.text.nodes] \in CfgLoad
    BY <1>8, <1>11, <2>2 DEF LoadFile, CfgLoad
  <2> QED
    BY <1>6, <1>11, <2>1, <2>3 DEF LoadFile, Moves
<1>12. ASSUME NEW l \in CfgLoader, cfgLoading[l].pc \in {"set", "assign"}, cfgLoading[l].nodes # <<>>
       PROVE  /\ Head(cfgLoading[l].nodes)[2] \in CfgVal
              /\ [cfgLoading[l] EXCEPT !.pc = "set", !.nodes = Tail(@)] \in CfgLoad
              /\ [cfgLoading[l] EXCEPT !.nodes = Tail(@)] \in CfgLoad
  <2>1. Head(cfgLoading[l].nodes) \in CfgNode /\ Tail(cfgLoading[l].nodes) \in Seq(CfgNode)
    BY <1>8, <1>12, HeadTailProperties DEF CfgLoad
  <2> QED
    BY <1>8, <1>12, <2>1 DEF CfgLoad, CfgVal
<1>13. ASSUME NEW l \in CfgLoader, SetNode(l) PROVE CfgTypeOK'
  <2> DEFINE s == cfgLoading[l]
  <2>1. NextFile(s) \in CfgLoad
    BY <1>8, <1>13, NextFileType DEF SetNode
  <2>2. [s EXCEPT !.pc = "assign"] \in CfgLoad
    BY <1>8, <1>13 DEF SetNode, CfgLoad
  <2>3. s.nodes # <<>> => [s EXCEPT !.nodes = Tail(@)] \in CfgLoad
    BY <1>12, <1>13 DEF SetNode
  <2>4. PICK z \in CfgLoad : Moves(l, z)
    BY <1>13, <2>1, <2>2, <2>3 DEF SetNode, Moves
  <2>5. cfgTold' \in [CfgListener -> CfgVal]
    BY <1>12, <1>13 DEF SetNode, Notify
  <2>6. cfgHistory' \in [overlap : BOOLEAN, sameSecond : BOOLEAN, late : BOOLEAN, edits : Nat]
    BY <1>13 DEF SetNode
  <2> QED
    BY <1>6, <1>13, <2>4, <2>5, <2>6 DEF SetNode
<1>14. ASSUME NEW l \in CfgLoader, AssignValue(l) PROVE CfgTypeOK'
  <2> DEFINE s == cfgLoading[l]
             n == Head(s.nodes)[1]
  <2>1. s.nodes # <<>> /\ n \in DOMAIN cfgDatas
    BY <1>14 DEF AssignValue, LoaderOK, InHand
  <2>2. Head(s.nodes)[2] \in CfgVal /\ [s EXCEPT !.pc = "set", !.nodes = Tail(@)] \in CfgLoad
    BY <1>12, <1>14, <2>1 DEF AssignValue
  <2>3. cfgDatas' \in [DOMAIN cfgDatas -> [m_val : CfgVal, m_cbs : SUBSET CfgListener]]
    <3>1. cfgDatas' = [cfgDatas EXCEPT ![n].m_val = Head(s.nodes)[2]]
      BY <1>14 DEF AssignValue
    <3>2. cfgDatas \in [DOMAIN cfgDatas -> [m_val : CfgVal, m_cbs : SUBSET CfgListener]]
      OBVIOUS
    <3>3. n \in DOMAIN cfgDatas /\ Head(s.nodes)[2] \in CfgVal
      BY <2>1, <2>2
    <3> HIDE DEF s, n, CfgTypeOK
    <3> QED
      BY <3>1, <3>2, <3>3, ValueAssigned
  <2>4. cfgLoading' \in [CfgLoader -> CfgLoad]
    BY <1>14, <2>2 DEF AssignValue
  <2> QED
    BY <1>14, <2>3, <2>4 DEF AssignValue, CfgLoad
<1> QED
  BY <1>1, <1>2, <1>3, <1>4, <1>5, <1>7, <1>9, <1>10, <1>11, <1>13, <1>14 DEF CfgNext

Fits(s) ==
    /\ s.pc # "idle" => s.files # <<>>
    /\ s.pc = "assign" => /\ s.nodes # <<>> /\ Head(s.nodes)[1] \in DOMAIN cfgDatas
                          /\ Head(s.nodes)[2] # BadValue
    /\ s.pc # "idle" /\ Len(CfgFiles) = 1 => s.files = CfgFiles

\* A loader keeps what it must have in hand.
LEMMA LoaderStep ==
    ASSUME CfgTypeOK, LoaderOK, CfgNext
    PROVE  LoaderOK'
<1>1. ASSUME NEW l \in CfgLoader, NEW s, Moves(l, s), Fits(s),
             DOMAIN cfgDatas' = DOMAIN cfgDatas, UNCHANGED <<cfgDisk, cfgClock>>,
             cfgScans' > 0, cfgScans' \in Nat, cfgScans > 0 \/ cfgScans' = cfgScans + 1
      PROVE  LoaderOK'
  <2>1. ASSUME NEW k \in CfgLoader PROVE InHand(cfgLoading[k])'
    <3>1. CASE k = l
      BY <1>1, <3>1 DEF Moves, CfgTypeOK, Fits, InHand
    <3>2. CASE k # l
      <4>1. cfgLoading'[k] = cfgLoading[k]
        BY <1>1, <3>2 DEF Moves, CfgTypeOK
      <4> QED
        BY <1>1, <4>1 DEF LoaderOK, InHand
    <3> QED
      BY <3>1, <3>2
  <2>2. (Len(CfgFiles) = 1 => \A f \in File : cfgDisk[f].mtime = cfgClock)'
    BY <1>1 DEF LoaderOK
  <2>3. cfgScans' # 0
    BY <1>1
  <2> QED
    BY <2>1, <2>2, <2>3 DEF LoaderOK
<1>2. ASSUME NEW l \in CfgLoader, cfgLoading[l].pc # "idle"
      PROVE  /\ cfgLoading[l] \in CfgLoad /\ cfgLoading[l].files # <<>> /\ cfgScans > 0 /\ cfgScans \in Nat
             /\ Len(CfgFiles) = 1 => cfgLoading[l].files = CfgFiles
             /\ NextFile(cfgLoading[l]).pc \in {"idle", "stat"}
             /\ NextFile(cfgLoading[l]).pc # "idle" => /\ NextFile(cfgLoading[l]).files # <<>>
                                                       /\ Len(cfgLoading[l].files) > 1
  BY <1>2, NextFileType DEF CfgTypeOK, LoaderOK, InHand
<1>3. ASSUME NEW l \in CfgLoader, cfgLoading[l].pc # "idle", UNCHANGED cfgScans
      PROVE  Fits(NextFile(cfgLoading[l]))
  <2> DEFINE z == NextFile(cfgLoading[l])
  <2>1. z.pc \in {"idle", "stat"} /\ (z.pc # "idle" => z.files # <<>> /\ Len(cfgLoading[l].files) > 1)
    BY <1>2, <1>3
  <2>2. ASSUME Len(CfgFiles) = 1 PROVE z.pc = "idle"
    <3>1. Len(cfgLoading[l].files) = 1
      BY <1>2, <1>3, <2>2
    <3>2. ~(Len(cfgLoading[l].files) > 1)
      BY <3>1
    <3> QED
      BY <2>1, <3>2
  <2> HIDE DEF z
  <2>3. Fits(z)
    BY <2>1, <2>2 DEF Fits
  <2> QED
    BY <2>3 DEF z
<1>4. CfgIdle.pc = "idle"
  BY DEF CfgIdle
<1>5. CASE LookUp
  <2>1. DOMAIN cfgDatas \subseteq DOMAIN cfgDatas'
    BY <1>5 DEF LookUp
  <2> QED
    BY <1>5, <2>1 DEF LookUp, LoaderOK, InHand
<1>6. CASE addListener \/ delListener
  <2>1. DOMAIN cfgDatas = DOMAIN cfgDatas'
    BY <1>6 DEF addListener, delListener
  <2> QED
    BY <1>6, <2>1 DEF addListener, delListener, LoaderOK, InHand
<1>7. CASE EditFile
  <2>1. PICK f \in File, text \in CfgTexts, tick \in 0..1 :
          /\ cfgClock' = cfgClock + tick
          /\ cfgDisk' = [cfgDisk EXCEPT ![f] = [mtime |-> cfgClock + tick, text |-> text, exists |-> TRUE]]
    BY <1>7 DEF EditFile
  <2>2. ASSUME Len(CfgFiles) = 1 PROVE \A g \in File : g = f
    BY <2>2, CfgAssumption DEF File, Range
  <2>3. (Len(CfgFiles) = 1 => \A g \in File : cfgDisk[g].mtime = cfgClock)'
    BY <2>1, <2>2 DEF CfgTypeOK
  <2> QED
    BY <1>7, <2>3 DEF EditFile, LoaderOK, InHand
<1>8. CASE RemoveFile
  <2>1. \A g \in File : cfgDisk'[g].mtime = cfgDisk[g].mtime
    BY <1>8 DEF RemoveFile, CfgTypeOK
  <2> QED
    BY <1>8, <2>1 DEF RemoveFile, LoaderOK, InHand
<1>9. ASSUME NEW l \in CfgLoader, ListAllFile(l) PROVE LoaderOK'
  <2> DEFINE z == [CfgIdle EXCEPT !.pc = "stat", !.files = CfgFiles]
  <2>1. z.pc = "stat" /\ z.files = CfgFiles
    BY DEF CfgIdle
  <2>2. Moves(l, z) /\ cfgScans' = cfgScans + 1 /\ UNCHANGED <<cfgDatas, cfgDisk, cfgClock>> /\ cfgScans \in Nat
    BY <1>9 DEF ListAllFile, Moves, CfgTypeOK
  <2> HIDE DEF z
  <2>3. Fits(z)
    BY <2>1, <2>2, CfgAssumption DEF Fits
  <2> QED
    BY <1>1, <2>2, <2>3
<1>10. ASSUME NEW l \in CfgLoader, NEW z, Moves(l, z), Fits(z), cfgLoading[l].pc # "idle",
              DOMAIN cfgDatas' = DOMAIN cfgDatas, UNCHANGED <<cfgDisk, cfgClock, cfgScans>>
       PROVE  LoaderOK'
  BY <1>1, <1>2, <1>10
<1>11. ASSUME NEW l \in CfgLoader, LstatFile(l) PROVE LoaderOK'
  <2> DEFINE z == [cfgLoading[l] EXCEPT !.pc = "mark", !.mtime = cfgDisk[Head(cfgLoading[l].files)].mtime]
  <2>1. cfgLoading[l].pc # "idle" /\ UNCHANGED <<cfgDatas, cfgDisk, cfgClock, cfgScans>>
    BY <1>11 DEF LstatFile
  <2>2. z.pc = "mark" /\ z.files = cfgLoading[l].files
    BY <1>2, <2>1 DEF CfgLoad
  <2>3. Moves(l, z) \/ Moves(l, CfgIdle)
    BY <1>11 DEF LstatFile, Moves
  <2> HIDE DEF z
  <2>4. Fits(z) /\ Fits(CfgIdle)
    BY <1>2, <1>4, <2>1, <2>2 DEF Fits
  <2> QED
    BY <1>10, <2>1, <2>3, <2>4
<1>12. ASSUME NEW l \in CfgLoader, MarkFile(l) PROVE LoaderOK'
  <2> DEFINE z == [cfgLoading[l] EXCEPT !.pc = "load"]
  <2>1. cfgLoading[l].pc # "idle" /\ UNCHANGED <<cfgDatas, cfgDisk, cfgClock, cfgScans>>
    BY <1>12 DEF MarkFile
  <2>2. z.pc = "load" /\ z.files = cfgLoading[l].files
    BY <1>2, <2>1 DEF CfgLoad
  <2>3. Moves(l, z) \/ Moves(l, NextFile(cfgLoading[l]))
    BY <1>12 DEF MarkFile, Moves
  <2> HIDE DEF z
  <2>4. Fits(z) /\ Fits(NextFile(cfgLoading[l]))
    BY <1>2, <1>3, <2>1, <2>2 DEF Fits
  <2> QED
    BY <1>10, <2>1, <2>3, <2>4
<1>13. ASSUME NEW l \in CfgLoader, LoadFile(l) PROVE LoaderOK'
  <2> DEFINE z == [cfgLoading[l] EXCEPT !.pc = "set", !.nodes = cfgDisk[Head(cfgLoading[l].files)].text.nodes]
  <2>1. cfgLoading[l].pc # "idle" /\ UNCHANGED <<cfgDatas, cfgDisk, cfgClock, cfgScans>>
    BY <1>13 DEF LoadFile
  <2>2. z.pc = "set" /\ z.files = cfgLoading[l].files
    BY <1>2, <2>1 DEF CfgLoad
  <2>3. Moves(l, z) \/ Moves(l, NextFile(cfgLoading[l]))
    BY <1>13 DEF LoadFile, Moves
  <2> HIDE DEF z
  <2>4. Fits(z) /\ Fits(NextFile(cfgLoading[l]))
    BY <1>2, <1>3, <2>1, <2>2 DEF Fits
  <2> QED
    BY <1>10, <2>1, <2>3, <2>4
<1>14. ASSUME NEW l \in CfgLoader, SetNode(l) PROVE LoaderOK'
  <2> DEFINE s == cfgLoading[l]
             y == [s EXCEPT !.pc = "assign"]
             z == [s EXCEPT !.nodes = Tail(@)]
  <2>1. s.pc = "set" /\ UNCHANGED <<cfgDatas, cfgDisk, cfgClock, cfgScans>>
    BY <1>14 DEF SetNode
  <2>2. y.pc = "assign" /\ y.files = s.files /\ y.nodes = s.nodes
    BY <1>2, <2>1 DEF CfgLoad
  <2>3. z.pc = "set" /\ z.files = s.files
    BY <1>2, <2>1 DEF CfgLoad
  <2>4. \/ Moves(l, z)
        \/ Moves(l, NextFile(s))
        \/ Moves(l, y) /\ s.nodes # <<>> /\ Head(s.nodes)[1] \in DOMAIN cfgDatas /\ Head(s.nodes)[2] # BadValue
    BY <1>14 DEF SetNode, Moves
  <2> HIDE DEF y, z
  <2>5. /\ Fits(z) /\ Fits(NextFile(s))
        /\ s.nodes # <<>> /\ Head(s.nodes)[1] \in DOMAIN cfgDatas /\ Head(s.nodes)[2] # BadValue => Fits(y)
    BY <1>2, <1>3, <2>1, <2>2, <2>3 DEF Fits
  <2> QED
    BY <1>10, <2>1, <2>4, <2>5
<1>15. ASSUME NEW l \in CfgLoader, AssignValue(l) PROVE LoaderOK'
  <2> DEFINE z == [cfgLoading[l] EXCEPT !.pc = "set", !.nodes = Tail(@)]
  <2>1. cfgLoading[l].pc # "idle" /\ UNCHANGED <<cfgDisk, cfgClock, cfgScans>>
    BY <1>15 DEF AssignValue
  <2>2. DOMAIN cfgDatas' = DOMAIN cfgDatas
    BY <1>15 DEF AssignValue
  <2>3. z.pc = "set" /\ z.files = cfgLoading[l].files
    BY <1>2, <2>1 DEF CfgLoad
  <2>4. Moves(l, z)
    BY <1>15 DEF AssignValue, Moves
  <2> HIDE DEF z
  <2>5. Fits(z)
    BY <1>2, <2>1, <2>3 DEF Fits
  <2> QED
    BY <1>10, <2>1, <2>2, <2>4, <2>5
<1> QED
  BY <1>5, <1>6, <1>7, <1>8, <1>9, <1>11, <1>12, <1>13, <1>14, <1>15 DEF CfgNext

\* A callback is registered where it was not before.
LEMMA OneVariableStep ==
    ASSUME CfgTypeOK, LoaderOK, OneVariable, CfgNext
    PROVE  OneVariable'
<1>1. ASSUME DOMAIN cfgDatas' = DOMAIN cfgDatas,
             \A n \in DOMAIN cfgDatas : cfgDatas'[n].m_cbs \subseteq cfgDatas[n].m_cbs
      PROVE  OneVariable'
  BY <1>1 DEF OneVariable
<1>2. CASE LookUp
  <2>1. PICK n \in CfgNames : cfgDatas' = [x \in DOMAIN cfgDatas \cup {n} |->
                       IF x = n THEN [m_val |-> 0, m_cbs |-> {}] ELSE cfgDatas[x]]
    BY <1>2 DEF LookUp
  <2>2. DOMAIN cfgDatas' = DOMAIN cfgDatas \cup {n} /\ cfgDatas'[n].m_cbs = {}
    BY <2>1
  <2>3. \A x \in DOMAIN cfgDatas : x # n => cfgDatas'[x] = cfgDatas[x]
    BY <2>1
  <2> QED
    BY <2>2, <2>3 DEF OneVariable
<1>3. CASE addListener
  <2>1. PICK n \in DOMAIN cfgDatas, c \in CfgListener :
          /\ \A x \in DOMAIN cfgDatas : c \notin cfgDatas[x].m_cbs
          /\ cfgDatas' = [cfgDatas EXCEPT ![n].m_cbs = @ \cup {c}]
    BY <1>3 DEF addListener
  <2>2. DOMAIN cfgDatas' = DOMAIN cfgDatas
    BY <2>1
  <2>3. cfgDatas'[n].m_cbs = cfgDatas[n].m_cbs \cup {c}
    BY <2>1 DEF CfgTypeOK
  <2>4. \A x \in DOMAIN cfgDatas : x # n => cfgDatas'[x] = cfgDatas[x]
    BY <2>1
  <2> QED
    BY <2>1, <2>2, <2>3, <2>4 DEF OneVariable
<1>4. CASE delListener
  BY <1>1, <1>4 DEF delListener, CfgTypeOK
<1>5. CASE EditFile \/ RemoveFile
  BY <1>5 DEF EditFile, RemoveFile, OneVariable
<1>6. ASSUME NEW l \in CfgLoader, AssignValue(l) PROVE OneVariable'
  <2>1. Head(cfgLoading[l].nodes)[1] \in DOMAIN cfgDatas
    BY <1>6 DEF AssignValue, LoaderOK, InHand
  <2> QED
    BY <1>1, <1>6, <2>1 DEF AssignValue, CfgTypeOK
<1>7. ASSUME NEW l \in CfgLoader,
             ListAllFile(l) \/ LstatFile(l) \/ MarkFile(l) \/ LoadFile(l) \/ SetNode(l)
      PROVE  OneVariable'
  BY <1>7 DEF ListAllFile, LstatFile, MarkFile, LoadFile, SetNode, OneVariable
<1> QED
  BY <1>2, <1>3, <1>4, <1>5, <1>6, <1>7 DEF CfgNext

-----------------------------------------------------------------------------
(* What the steps of a loader do. *)

\* The others do nothing meanwhile.
OthersStay(l) == \A k \in CfgLoader \ {l} : cfgLoading'[k] = cfgLoading[k]

\* A step before a file is read, or after it.
LEMMA QuietShape ==
    ASSUME CfgTypeOK, LoaderOK, NEW l \in CfgLoader, ListAllFile(l) \/ LstatFile(l) \/ MarkFile(l)
    PROVE  /\ OthersStay(l) /\ UNCHANGED <<cfgDatas, cfgDisk, cfgTold, cfgHistory>>
           /\ cfgLoading[l].pc \in {"idle", "stat", "mark"}
           /\ \/ cfgLoading'[l].pc \in {"idle", "stat", "mark"} /\ UNCHANGED cfgTimes
              \/ cfgLoading'[l].pc = "load"
<1>1. cfgLoading[l] \in CfgLoad /\ CfgIdle.pc = "idle"
  BY DEF CfgTypeOK, CfgIdle
<1>2. CASE ListAllFile(l)
  BY <1>2 DEF ListAllFile, OthersStay, CfgTypeOK, CfgIdle
<1>3. CASE LstatFile(l)
  BY <1>1, <1>3 DEF LstatFile, OthersStay, CfgTypeOK, CfgLoad
<1>4. CASE MarkFile(l)
  <2>1. NextFile(cfgLoading[l]).pc \in {"idle", "stat"}
    BY <1>1, <1>4, NextFileType DEF MarkFile, LoaderOK, InHand
  <2> QED
    BY <1>1, <1>4, <2>1 DEF MarkFile, OthersStay, CfgTypeOK, CfgLoad
<1> QED
  BY <1>2, <1>3, <1>4

\* The read of a file.
LEMMA LoadShape ==
    ASSUME CfgTypeOK, LoaderOK, NEW l \in CfgLoader, LoadFile(l)
    PROVE  LET d == cfgDisk[Head(cfgLoading[l].files)]
           IN  /\ OthersStay(l) /\ UNCHANGED <<cfgDatas, cfgDisk, cfgTimes, cfgTold, cfgHistory>>
               /\ cfgLoading[l].pc = "load"
               /\ IF d.exists /\ d.text.ok
                    THEN cfgLoading'[l].pc = "set" /\ cfgLoading'[l].nodes = d.text.nodes
                    ELSE cfgLoading'[l].pc \in {"idle", "stat"}
<1>1. cfgLoading[l] \in CfgLoad
  BY DEF CfgTypeOK
<1>2. NextFile(cfgLoading[l]).pc \in {"idle", "stat"}
  BY <1>1, NextFileType DEF LoadFile, LoaderOK, InHand
<1> QED
  BY <1>1, <1>2 DEF LoadFile, OthersStay, CfgTypeOK, CfgLoad

\* A node, up to the unlock of the read lock in setValue().
SetDone(l) ==
    /\ cfgLoading[l].nodes = <<>>
    /\ cfgLoading'[l].pc \in {"idle", "stat"} /\ cfgTold' = cfgTold
SetSkips(l) ==
    LET s == cfgLoading[l]  node == Head(s.nodes)
    IN  /\ s.nodes # <<>>
        /\ cfgLoading'[l].pc = "set" /\ cfgLoading'[l].nodes = Tail(s.nodes) /\ cfgTold' = cfgTold
        /\ \/ node[1] \notin DOMAIN cfgDatas
           \/ node[2] = BadValue
           \/ node[2] = cfgDatas[node[1]].m_val
SetNotifies(l) ==
    LET s == cfgLoading[l]  node == Head(s.nodes)
    IN  /\ s.nodes # <<>> /\ node[1] \in DOMAIN cfgDatas
        /\ cfgLoading'[l].pc = "assign" /\ cfgLoading'[l].nodes = s.nodes
        /\ cfgTold' = Notify(node[1], node[2])

\* What taking up the next node of a file does to the loader and to the
\* history; the other loaders, the variables and the files stay.
LEMMA SetShape ==
    ASSUME CfgTypeOK, LoaderOK, NEW l \in CfgLoader, SetNode(l)
    PROVE  /\ OthersStay(l) /\ UNCHANGED <<cfgDatas, cfgDisk, cfgTimes>>
           /\ cfgLoading[l].pc = "set"
           /\ cfgHistory'.late = cfgHistory.late /\ cfgHistory'.sameSecond = cfgHistory.sameSecond
           /\ ~cfgHistory'.overlap => /\ ~cfgHistory.overlap
                                      /\ \A k \in CfgLoader \ {l} :
                                            cfgLoading[k].pc \notin {"load", "set", "assign"}
           /\ SetDone(l) \/ SetSkips(l) \/ SetNotifies(l)
<1>1. cfgLoading[l] \in CfgLoad
  BY DEF CfgTypeOK
<1>2. NextFile(cfgLoading[l]).pc \in {"idle", "stat"}
  BY <1>1, NextFileType DEF SetNode, LoaderOK, InHand
<1>3. OthersStay(l) /\ UNCHANGED <<cfgDatas, cfgDisk, cfgTimes>> /\ cfgLoading[l].pc = "set"
  BY DEF SetNode, OthersStay, CfgTypeOK
<1>4. /\ cfgHistory'.late = cfgHistory.late /\ cfgHistory'.sameSecond = cfgHistory.sameSecond
      /\ ~cfgHistory'.overlap => /\ ~cfgHistory.overlap
                                 /\ \A k \in CfgLoader \ {l} :
                                       cfgLoading[k].pc \notin {"load", "set", "assign"}
  BY DEF SetNode, CfgTypeOK
<1>5. CASE cfgLoading[l].nodes = <<>>
  BY <1>1, <1>2, <1>3, <1>4, <1>5 DEF SetNode, SetDone, CfgTypeOK
<1>6. CASE cfgLoading[l].nodes # <<>>
  <2> DEFINE s == cfgLoading[l]
             n == Head(s.nodes)[1]
             v == Head(s.nodes)[2]
             news == n \in DOMAIN cfgDatas /\ v # BadValue /\ v # cfgDatas[n].m_val
  <2>1. CASE news
    <3>1. cfgLoading'[l] = [s EXCEPT !.pc = "assign"] /\ cfgTold' = Notify(n, v)
      BY <1>6, <2>1 DEF SetNode, CfgTypeOK
    <3>2. cfgLoading'[l].pc = "assign" /\ cfgLoading'[l].nodes = s.nodes
      BY <1>1, <3>1 DEF CfgLoad
    <3> QED
      BY <1>3, <1>4, <1>6, <2>1, <3>1, <3>2 DEF SetNotifies
  <2>2. CASE ~news
    <3>1. cfgLoading'[l] = [s EXCEPT !.nodes = Tail(@)] /\ cfgTold' = cfgTold
      BY <1>6, <2>2 DEF SetNode, CfgTypeOK
    <3>2. cfgLoading'[l].pc = "set" /\ cfgLoading'[l].nodes = Tail(s.nodes)
      BY <1>1, <1>3, <3>1 DEF CfgLoad
    <3> QED
      BY <1>3, <1>4, <1>6, <2>2, <3>1, <3>2 DEF SetSkips
  <2> QED
    BY <1>3, <1>4, <2>1, <2>2
<1> QED
  BY <1>3, <1>4, <1>5, <1>6

\* The assignment under the write lock.
LEMMA AssignShape ==
    ASSUME CfgTypeOK, LoaderOK, NEW l \in CfgLoader, AssignValue(l)
    PROVE  LET node == Head(cfgLoading[l].nodes)
           IN  /\ OthersStay(l) /\ UNCHANGED <<cfgDisk, cfgTimes, cfgTold, cfgHistory>>
               /\ cfgLoading[l].pc = "assign" /\ cfgLoading[l].nodes # <<>> /\ node[2] # BadValue
               /\ cfgLoading'[l].pc = "set" /\ cfgLoading'[l].nodes = Tail(cfgLoading[l].nodes)
               /\ node[1] \in DOMAIN cfgDatas /\ DOMAIN cfgDatas' = DOMAIN cfgDatas
               /\ cfgDatas'[node[1]].m_val = node[2]
               /\ \A n \in DOMAIN cfgDatas :
                     /\ cfgDatas'[n].m_cbs = cfgDatas[n].m_cbs
                     /\ n # node[1] => cfgDatas'[n].m_val = cfgDatas[n].m_val
<1> DEFINE n == Head(cfgLoading[l].nodes)[1]
           v == Head(cfgLoading[l].nodes)[2]
<1>1. cfgLoading[l] \in CfgLoad /\ cfgLoading[l].nodes # <<>> /\ n \in DOMAIN cfgDatas /\ v # BadValue
  BY DEF AssignValue, LoaderOK, InHand, CfgTypeOK
<1>2. cfgLoading'[l].pc = "set" /\ cfgLoading'[l].nodes = Tail(cfgLoading[l].nodes)
  BY <1>1 DEF AssignValue, CfgTypeOK, CfgLoad
<1>3. cfgDatas' = [cfgDatas EXCEPT ![n].m_val = v]
  BY DEF AssignValue
<1> HIDE DEF n, v
<1>4. DOMAIN cfgDatas' = DOMAIN cfgDatas /\ cfgDatas'[n].m_val = v /\ cfgDatas'[n].m_cbs = cfgDatas[n].m_cbs
  BY <1>1, <1>3 DEF CfgTypeOK
<1>5. \A x \in DOMAIN cfgDatas : x # n => cfgDatas'[x] = cfgDatas[x]
  BY <1>3
<1>6. OthersStay(l) /\ UNCHANGED <<cfgDisk, cfgTimes, cfgTold, cfgHistory>> /\ cfgLoading[l].pc = "assign"
  BY DEF AssignValue, OthersStay, CfgTypeOK
<1> QED
  BY <1>1, <1>2, <1>4, <1>5, <1>6 DEF n, v

\* What the administrator and the owners of variables leave alone.
LEMMA OwnerShape ==
    ASSUME CfgTypeOK, LoaderOK
    PROVE  /\ LookUp \/ addListener =>
                 /\ UNCHANGED <<cfgDisk, cfgTimes, cfgLoading>>
                 /\ cfgHistory'.overlap = cfgHistory.overlap /\ cfgHistory'.sameSecond = cfgHistory.sameSecond
                 /\ ~cfgHistory'.late => ~cfgHistory.late /\ cfgScans = 0
           /\ EditFile \/ RemoveFile =>
                 /\ UNCHANGED <<cfgDatas, cfgTimes, cfgLoading, cfgTold>>
                 /\ cfgHistory'.overlap = cfgHistory.overlap /\ cfgHistory'.late = cfgHistory.late
                 /\ ~cfgHistory'.sameSecond => ~cfgHistory.sameSecond
           /\ cfgScans = 0 => \A l \in CfgLoader : cfgLoading[l].pc = "idle"
<1>1. LookUp \/ addListener =>
         /\ UNCHANGED <<cfgDisk, cfgTimes, cfgLoading>>
         /\ cfgHistory'.overlap = cfgHistory.overlap /\ cfgHistory'.sameSecond = cfgHistory.sameSecond
         /\ ~cfgHistory'.late => ~cfgHistory.late /\ cfgScans = 0
  <2> SUFFICES ASSUME LookUp \/ addListener
               PROVE  /\ UNCHANGED <<cfgDisk, cfgTimes, cfgLoading>>
                      /\ cfgHistory'.overlap = cfgHistory.overlap
                      /\ cfgHistory'.sameSecond = cfgHistory.sameSecond
                      /\ ~cfgHistory'.late => ~cfgHistory.late /\ cfgScans = 0
    OBVIOUS
  <2>1. UNCHANGED <<cfgDisk, cfgTimes, cfgLoading>>
    BY DEF LookUp, addListener
  <2>2. cfgHistory' = [cfgHistory EXCEPT !.late = @ \/ cfgScans > 0]
    BY DEF LookUp, addListener
  <2>3. /\ cfgHistory'.overlap = cfgHistory.overlap /\ cfgHistory'.sameSecond = cfgHistory.sameSecond
        /\ cfgHistory'.late <=> cfgHistory.late \/ cfgScans > 0
    BY <2>2 DEF CfgTypeOK
  <2>4. ~(cfgScans > 0) => cfgScans = 0
    BY DEF CfgTypeOK
  <2> QED
    BY <2>1, <2>3, <2>4
<1>2. EditFile \/ RemoveFile =>
         /\ UNCHANGED <<cfgDatas, cfgTimes, cfgLoading, cfgTold>>
         /\ cfgHistory'.overlap = cfgHistory.overlap /\ cfgHistory'.late = cfgHistory.late
         /\ ~cfgHistory'.sameSecond => ~cfgHistory.sameSecond
  <2>1. CASE EditFile
    <3>1. PICK b \in BOOLEAN : cfgHistory' = [cfgHistory EXCEPT !.edits = @ + 1, !.sameSecond = @ \/ b]
      BY <2>1 DEF EditFile
    <3> QED
      BY <2>1, <3>1 DEF EditFile, CfgTypeOK
  <2>2. CASE RemoveFile
    BY <2>2 DEF RemoveFile, CfgTypeOK
  <2> QED
    BY <2>1, <2>2
<1>3. cfgScans = 0 => \A l \in CfgLoader : cfgLoading[l].pc = "idle"
  BY DEF LoaderOK, InHand
<1> QED
  BY <1>1, <1>2, <1>3

-----------------------------------------------------------------------------
(* What the listeners know. *)

\* Whatever the steps do, a listener was told the value in effect or the next one.
LEMMA ToldStep ==
    ASSUME CfgTypeOK, LoaderOK, OneVariable, Alone => OneAssigns /\ Told, CfgNext, Alone'
    PROVE  Alone /\ OneAssigns' /\ Told'
<1>1. CASE LookUp
  <2>1. PICK n \in CfgNames : /\ n \notin DOMAIN cfgDatas
                              /\ cfgDatas' = [x \in DOMAIN cfgDatas \cup {n} |->
                                   IF x = n THEN [m_val |-> 0, m_cbs |-> {}] ELSE cfgDatas[x]]
    BY <1>1 DEF LookUp
  <2>2. DOMAIN cfgDatas' = DOMAIN cfgDatas \cup {n} /\ cfgDatas'[n].m_cbs = {}
    BY <2>1
  <2>3. \A x \in DOMAIN cfgDatas : cfgDatas'[x] = cfgDatas[x]
    BY <2>1
  <2>4. Alone /\ UNCHANGED cfgLoading /\ \A l \in CfgLoader : cfgLoading[l].pc = "idle"
    BY <1>1, OwnerShape DEF Alone
  <2>5. UNCHANGED cfgTold
    BY <1>1 DEF LookUp
  <2> QED
    BY <2>2, <2>3, <2>4, <2>5 DEF OneAssigns, Told
<1>2. CASE addListener
  <2>1. PICK n \in DOMAIN cfgDatas, c \in CfgListener :
          /\ \A x \in DOMAIN cfgDatas : c \notin cfgDatas[x].m_cbs
          /\ cfgDatas' = [cfgDatas EXCEPT ![n].m_cbs = @ \cup {c}]
          /\ cfgTold' = [cfgTold EXCEPT ![c] = cfgDatas[n].m_val]
    BY <1>2 DEF addListener
  <2>2. /\ DOMAIN cfgDatas' = DOMAIN cfgDatas
        /\ cfgDatas'[n].m_cbs = cfgDatas[n].m_cbs \cup {c} /\ cfgDatas'[n].m_val = cfgDatas[n].m_val
    BY <2>1 DEF CfgTypeOK
  <2>3. \A x \in DOMAIN cfgDatas : x # n => cfgDatas'[x] = cfgDatas[x]
    BY <2>1
  <2>4. Alone /\ UNCHANGED cfgLoading /\ \A l \in CfgLoader : cfgLoading[l].pc = "idle"
    BY <1>2, OwnerShape DEF Alone
  <2>5. cfgTold'[c] = cfgDatas[n].m_val /\ \A d \in CfgListener : d # c => cfgTold'[d] = cfgTold[d]
    BY <2>1 DEF CfgTypeOK
  <2>6. ASSUME NEW x \in DOMAIN cfgDatas, NEW d \in cfgDatas'[x].m_cbs
        PROVE  cfgTold'[d] = cfgDatas'[x].m_val
    <3>1. CASE x = n /\ d = c
      BY <2>2, <2>5, <3>1
    <3>2. CASE ~(x = n /\ d = c)
      <4>1. d \in cfgDatas[x].m_cbs /\ cfgDatas'[x].m_val = cfgDatas[x].m_val
        BY <2>2, <2>3, <2>6, <3>2
      <4>2. d # c /\ d \in CfgListener
        BY <2>1, <4>1 DEF CfgTypeOK
      <4> QED
        BY <2>4, <2>5, <4>1, <4>2 DEF Told
    <3> QED
      BY <3>1, <3>2
  <2> QED
    BY <2>2, <2>4, <2>6 DEF OneAssigns, Told
<1>3. CASE delListener
  <2>1. PICK n \in DOMAIN cfgDatas : \E c \in cfgDatas[n].m_cbs :
          cfgDatas' = [cfgDatas EXCEPT ![n].m_cbs = @ \ {c}]
    BY <1>3 DEF delListener
  <2>2. /\ DOMAIN cfgDatas' = DOMAIN cfgDatas
        /\ \A x \in DOMAIN cfgDatas : /\ cfgDatas'[x].m_cbs \subseteq cfgDatas[x].m_cbs
                                      /\ cfgDatas'[x].m_val = cfgDatas[x].m_val
    BY <2>1 DEF CfgTypeOK
  <2>3. Alone /\ UNCHANGED <<cfgLoading, cfgTold>>
    BY <1>3 DEF delListener, Alone
  <2>4. \A l \in CfgLoader : cfgLoading[l].pc = "assign" => Head(cfgLoading[l].nodes)[1] \in DOMAIN cfgDatas
    BY DEF LoaderOK, InHand
  <2> QED
    BY <2>2, <2>3, <2>4 DEF OneAssigns, Told
<1>4. CASE EditFile \/ RemoveFile
  <2>1. Alone /\ UNCHANGED <<cfgDatas, cfgLoading, cfgTold>>
    BY <1>4, OwnerShape DEF Alone
  <2> QED
    BY <2>1 DEF OneAssigns, Told
<1>5. ASSUME NEW l \in CfgLoader, OthersStay(l), Alone, UNCHANGED <<cfgDatas, cfgTold>>,
             cfgLoading[l].pc # "assign", cfgLoading'[l].pc # "assign"
      PROVE  Alone /\ OneAssigns' /\ Told'
  <2>1. \A k \in CfgLoader : /\ cfgLoading'[k].pc = "assign" <=> cfgLoading[k].pc = "assign"
                             /\ cfgLoading[k].pc = "assign" => cfgLoading'[k] = cfgLoading[k]
    BY <1>5 DEF OthersStay
  <2> QED
    BY <1>5, <2>1 DEF OneAssigns, Told
<1>6. ASSUME NEW l \in CfgLoader, ListAllFile(l) \/ LstatFile(l) \/ MarkFile(l)
      PROVE  Alone /\ OneAssigns' /\ Told'
  BY <1>5, <1>6, QuietShape DEF Alone
<1>7. ASSUME NEW l \in CfgLoader, LoadFile(l)
      PROVE  Alone /\ OneAssigns' /\ Told'
  <2>1. /\ OthersStay(l) /\ UNCHANGED <<cfgDatas, cfgTold, cfgHistory>>
        /\ cfgLoading[l].pc # "assign" /\ cfgLoading'[l].pc # "assign"
    BY <1>7, LoadShape
  <2> QED
    BY <1>5, <2>1 DEF Alone
<1>8. ASSUME NEW l \in CfgLoader, SetNode(l)
      PROVE  Alone /\ OneAssigns' /\ Told'
  <2>1. Alone /\ \A k \in CfgLoader \ {l} : cfgLoading'[k].pc # "assign"
    BY <1>8, SetShape DEF Alone, OthersStay
  <2>2. /\ OthersStay(l) /\ UNCHANGED cfgDatas /\ cfgLoading[l].pc = "set"
        /\ SetDone(l) \/ SetSkips(l) \/ SetNotifies(l)
    BY <1>8, SetShape
  <2>3. CASE SetDone(l) \/ SetSkips(l)
    BY <1>5, <2>1, <2>2, <2>3 DEF SetDone, SetSkips
  <2>4. CASE SetNotifies(l)
    <3> DEFINE n == Head(cfgLoading[l].nodes)[1]
               v == Head(cfgLoading[l].nodes)[2]
    <3>1. /\ n \in DOMAIN cfgDatas /\ cfgLoading'[l].pc = "assign"
          /\ Head(cfgLoading'[l].nodes)[1] = n /\ Head(cfgLoading'[l].nodes)[2] = v
          /\ cfgTold' = Notify(n, v)
      BY <2>4 DEF SetNotifies
    <3> HIDE DEF n, v
    <3>2. OneAssigns'
      BY <2>1 DEF OneAssigns
    <3>3. \A c \in CfgListener : /\ c \in cfgDatas[n].m_cbs => cfgTold'[c] = v
                                 /\ c \notin cfgDatas[n].m_cbs => cfgTold'[c] = cfgTold[c]
      BY <3>1 DEF Notify
    <3>4. \A x \in DOMAIN cfgDatas : cfgDatas[x].m_cbs \subseteq CfgListener
      BY DEF CfgTypeOK
    <3>5. ASSUME NEW k \in CfgLoader, cfgLoading'[k].pc = "assign"
          PROVE  \A c \in cfgDatas'[Head(cfgLoading'[k].nodes)[1]].m_cbs :
                    cfgTold'[c] = Head(cfgLoading'[k].nodes)[2]
      <4>1. k = l
        BY <2>1, <3>5
      <4> QED
        BY <2>2, <3>1, <3>3, <3>4, <4>1
    <3>6. ASSUME NEW x \in DOMAIN cfgDatas', x # n, NEW c \in cfgDatas'[x].m_cbs
          PROVE  cfgTold'[c] = cfgDatas'[x].m_val
      <4>1. x \in DOMAIN cfgDatas /\ c \in cfgDatas[x].m_cbs /\ cfgDatas'[x] = cfgDatas[x]
        BY <2>2, <3>6
      <4>2. c \in CfgListener /\ c \notin cfgDatas[n].m_cbs
        BY <3>1, <3>4, <3>6, <4>1 DEF OneVariable
      <4>3. \A k \in CfgLoader : cfgLoading[k].pc # "assign"
        BY <2>1, <2>2 DEF OthersStay
      <4>4. cfgTold[c] = cfgDatas[x].m_val
        BY <2>1, <4>1, <4>3 DEF Told
      <4> QED
        BY <3>3, <4>1, <4>2, <4>4
    <3> QED
      BY <2>1, <3>1, <3>2, <3>5, <3>6 DEF Told
  <2> QED
    BY <2>2, <2>3, <2>4
<1>9. ASSUME NEW l \in CfgLoader, AssignValue(l)
      PROVE  Alone /\ OneAssigns' /\ Told'
  <2> DEFINE n == Head(cfgLoading[l].nodes)[1]
             v == Head(cfgLoading[l].nodes)[2]
  <2>1. /\ OthersStay(l) /\ UNCHANGED <<cfgTold, cfgHistory>> /\ cfgLoading[l].pc = "assign"
        /\ cfgLoading'[l].pc = "set" /\ n \in DOMAIN cfgDatas /\ DOMAIN cfgDatas' = DOMAIN cfgDatas
        /\ cfgDatas'[n].m_val = v
        /\ \A x \in DOMAIN cfgDatas : /\ cfgDatas'[x].m_cbs = cfgDatas[x].m_cbs
                                      /\ x # n => cfgDatas'[x].m_val = cfgDatas[x].m_val
    BY <1>9, AssignShape
  <2>2. Alone /\ OneAssigns /\ Told
    BY <2>1 DEF Alone
  <2>3. \A k \in CfgLoader : cfgLoading'[k].pc # "assign" /\ (cfgLoading[k].pc = "assign" => k = l)
    BY <2>1, <2>2 DEF OneAssigns, OthersStay
  <2>4. \A c \in cfgDatas[n].m_cbs : cfgTold[c] = v
    BY <2>1, <2>2 DEF Told
  <2>7. \A k \in CfgLoader : cfgLoading[k].pc = "assign" => Head(cfgLoading[k].nodes)[1] = n
    BY <2>3
  <2> HIDE DEF n, v
  <2>5. ASSUME NEW x \in DOMAIN cfgDatas, x # n, NEW c \in cfgDatas[x].m_cbs
        PROVE  cfgTold[c] = cfgDatas[x].m_val
    <3>1. \A k \in CfgLoader : cfgLoading[k].pc = "assign" => Head(cfgLoading[k].nodes)[1] # x
      BY <2>5, <2>7
    <3>2. \A d \in cfgDatas[x].m_cbs : cfgTold[d] = cfgDatas[x].m_val
      BY <2>2, <3>1, Zenon DEF Told
    <3> QED
      BY <2>5, <3>2
  <2>8. /\ UNCHANGED cfgTold /\ DOMAIN cfgDatas' = DOMAIN cfgDatas /\ cfgDatas'[n].m_val = v
        /\ \A x \in DOMAIN cfgDatas : /\ cfgDatas'[x].m_cbs = cfgDatas[x].m_cbs
                                      /\ x # n => cfgDatas'[x].m_val = cfgDatas[x].m_val
    BY <2>1
  <2>6. ASSUME NEW x \in DOMAIN cfgDatas', NEW c \in cfgDatas'[x].m_cbs
        PROVE  cfgTold'[c] = cfgDatas'[x].m_val
    <3>1. x \in DOMAIN cfgDatas
      BY <2>6, <2>8
    <3>4. cfgDatas'[x].m_cbs = cfgDatas[x].m_cbs /\ (x # n => cfgDatas'[x].m_val = cfgDatas[x].m_val)
      BY <2>8, <3>1
    <3>5. c \in cfgDatas[x].m_cbs
      BY <2>6, <3>4
    <3>6. cfgTold'[c] = cfgTold[c]
      BY <2>8
    <3>2. CASE x = n
      BY <2>4, <2>8, <3>2, <3>5, <3>6
    <3>3. CASE x # n
      BY <2>5, <3>1, <3>3, <3>4, <3>5, <3>6
    <3> QED
      BY <3>2, <3>3
  <2> QED
    BY <2>2, <2>3, <2>6 DEF OneAssigns, Told
<1> QED
  BY <1>1, <1>2, <1>3, <1>4, <1>6, <1>7, <1>8, <1>9 DEF CfgNext

-----------------------------------------------------------------------------
(* What a file says. *)

\* The places in a text that give a variable a value.
LEMMA SaidRange ==
    ASSUME NEW text, NEW n
    PROVE  Said(text, n) \subseteq 1..Len(text.nodes)
  BY DEF Said

\* What the variables hold decides what is in effect.
LEMMA EffectKept ==
    ASSUME NEW text, NEW m, InEffect(text, m), DOMAIN cfgDatas' = DOMAIN cfgDatas,
           \A n \in DOMAIN cfgDatas : cfgDatas'[n].m_val = cfgDatas[n].m_val
    PROVE  InEffect(text, m)'
  BY DEF InEffect, Said

\* One more node is in effect when its value is the variable's, or when it says
\* nothing, and the other variables have kept theirs.
LEMMA EffectGrows ==
    ASSUME NEW text \in CfgText, NEW m \in Nat, m + 1 <= Len(text.nodes),
           m = 0 \/ InEffect(text, m), DOMAIN cfgDatas' = DOMAIN cfgDatas,
           \A n \in DOMAIN cfgDatas :
               IF m + 1 \in Said(text, n) THEN cfgDatas'[n].m_val = text.nodes[m + 1][2]
                                          ELSE cfgDatas'[n].m_val = cfgDatas[n].m_val
    PROVE  InEffect(text, m + 1)'
<1> SUFFICES ASSUME NEW n \in DOMAIN cfgDatas, NEW i \in Said(text, n), i <= m + 1,
                    \A j \in Said(text, n) : j <= m + 1 => j <= i
             PROVE  cfgDatas'[n].m_val = text.nodes[i][2]
  BY DEF InEffect, Said
<1>1. Len(text.nodes) \in Nat /\ \A j \in Said(text, n) : j \in 1..Len(text.nodes)
  BY DEF Said, CfgText
<1>2. CASE m + 1 \in Said(text, n)
  <2>1. i = m + 1
    BY <1>1, <1>2
  <2> QED
    BY <1>2, <2>1
<1>3. CASE m + 1 \notin Said(text, n)
  <2>1. i <= m /\ m # 0
    BY <1>1, <1>3
  <2>2. \A j \in Said(text, n) : j <= m => j <= i
    BY <1>1
  <2>3. cfgDatas[n].m_val = text.nodes[i][2]
    BY <2>1, <2>2 DEF InEffect
  <2> QED
    BY <1>3, <2>3
<1> QED
  BY <1>2, <1>3

\* A loader that works on a text goes on while nothing it relies on changes.
LEMMA WorkKept ==
    ASSUME NEW l \in CfgLoader, NEW text, AtWork(l, text),
           cfgLoading'[l].pc \in {"set", "assign"}, cfgLoading'[l].nodes = cfgLoading[l].nodes,
           DOMAIN cfgDatas' = DOMAIN cfgDatas,
           \A n \in DOMAIN cfgDatas : cfgDatas'[n].m_val = cfgDatas[n].m_val,
           \A k \in CfgLoader \ {l} : cfgLoading[k].pc # "assign" => cfgLoading'[k].pc # "assign"
    PROVE  AtWork(l, text)'
<1>1. ASSUME InEffect(text, Done(l, text)) PROVE InEffect(text, Done(l, text))'
  <2> DEFINE m == Done(l, text)
  <2>1. Done(l, text)' = m
    BY DEF Done
  <2>2. \A n \in DOMAIN cfgDatas : \A i \in Said(text, n) :
           i <= m /\ (\A j \in Said(text, n) : j <= m => j <= i) => cfgDatas'[n].m_val = text.nodes[i][2]
    BY <1>1 DEF InEffect
  <2> HIDE DEF m
  <2> QED
    BY <2>1, <2>2 DEF InEffect, Said
<1> QED
  BY <1>1 DEF AtWork, Done

\* The rest of a sequence, one element further on.
LEMMA RestShrinks ==
    ASSUME NEW S, NEW full \in Seq(S), NEW rest \in Seq(S), rest # <<>>, NEW m \in Nat,
           Len(full) = m + Len(rest), \A j \in 1..Len(rest) : rest[j] = full[m + j]
    PROVE  /\ m + 1 \in 1..Len(full) /\ Head(rest) = full[m + 1]
           /\ Len(full) = (m + 1) + Len(Tail(rest))
           /\ \A j \in 1..Len(Tail(rest)) : Tail(rest)[j] = full[m + 1 + j]
<1>1. Len(rest) \in Nat \ {0} /\ Len(full) \in Nat
  BY EmptySeq
<1>2. Head(rest) = rest[1] /\ Len(Tail(rest)) = Len(rest) - 1
  BY HeadTailProperties
<1>3. Head(rest) = full[m + 1] /\ m + 1 \in 1..Len(full) /\ Len(full) = (m + 1) + Len(Tail(rest))
  BY <1>1, <1>2
<1>4. ASSUME NEW j \in 1..Len(Tail(rest)) PROVE Tail(rest)[j] = full[m + 1 + j]
  <2>1. Tail(rest)[j] = rest[j + 1]
    BY <1>1, <1>2, <1>4, HeadTailProperties
  <2>2. j + 1 \in 1..Len(rest) /\ m + (j + 1) = m + 1 + j
    BY <1>1, <1>2
  <2> QED
    BY <2>1, <2>2
<1> QED
  BY <1>3, <1>4

\* After one more node the loader is still at work, as the only one.
LEMMA WorkGrows ==
    ASSUME CfgTypeOK, NEW l \in CfgLoader, NEW text \in CfgText, AtWork(l, text),
           cfgLoading[l].nodes # <<>>, cfgLoading'[l].pc = "set",
           cfgLoading'[l].nodes = Tail(cfgLoading[l].nodes), DOMAIN cfgDatas' = DOMAIN cfgDatas,
           \A k \in CfgLoader \ {l} : cfgLoading'[k].pc # "assign",
           LET node == Head(cfgLoading[l].nodes)
           IN  \A n \in DOMAIN cfgDatas :
                  IF n = node[1] /\ node[2] # BadValue
                    THEN cfgDatas'[n].m_val = node[2]
                    ELSE cfgDatas'[n].m_val = cfgDatas[n].m_val
    PROVE  AtWork(l, text)'
<1>1. /\ cfgLoading[l].nodes \in Seq(CfgNode) /\ text.nodes \in Seq(CfgNode)
      /\ Len(cfgLoading[l].nodes) \in Nat /\ Len(text.nodes) \in Nat
  BY DEF CfgTypeOK, CfgLoad, CfgText
<1>2. PICK m \in Nat : m = Done(l, text)
  <2>1. Done(l, text) >= 0
    BY DEF AtWork
  <2>2. Done(l, text) \in Int
    BY <1>1 DEF Done
  <2> HIDE DEF Done
  <2> QED
    BY <2>1, <2>2
<1>3. Len(text.nodes) = m + Len(cfgLoading[l].nodes)
  BY <1>1, <1>2 DEF Done
<1>4. /\ \A j \in 1..Len(cfgLoading[l].nodes) : cfgLoading[l].nodes[j] = text.nodes[m + j]
      /\ m = 0 \/ InEffect(text, m)
  BY <1>2 DEF AtWork
<1>5. /\ m + 1 \in 1..Len(text.nodes) /\ Head(cfgLoading[l].nodes) = text.nodes[m + 1]
      /\ Len(text.nodes) = (m + 1) + Len(cfgLoading'[l].nodes)
      /\ \A j \in 1..Len(cfgLoading'[l].nodes) : cfgLoading'[l].nodes[j] = text.nodes[m + 1 + j]
  <2> DEFINE rest == cfgLoading[l].nodes
  <2>1. /\ m + 1 \in 1..Len(text.nodes) /\ Head(rest) = text.nodes[m + 1]
        /\ Len(text.nodes) = (m + 1) + Len(Tail(rest))
        /\ \A j \in 1..Len(Tail(rest)) : Tail(rest)[j] = text.nodes[m + 1 + j]
    <3> HIDE DEF rest
    <3>1. rest \in Seq(CfgNode) /\ rest # <<>> /\ Len(text.nodes) = m + Len(rest)
          /\ \A j \in 1..Len(rest) : rest[j] = text.nodes[m + j]
      BY <1>1, <1>3, <1>4 DEF rest
    <3> QED
      BY <1>1, <3>1, RestShrinks
  <2> QED
    BY <2>1
<1>6. Done(l, text)' = m + 1
  <2>1. Len(cfgLoading'[l].nodes) \in Nat
    BY <1>1, HeadTailProperties
  <2> QED
    BY <1>5, <2>1 DEF Done
<1>7. \A n \in DOMAIN cfgDatas :
         IF m + 1 \in Said(text, n) THEN cfgDatas'[n].m_val = text.nodes[m + 1][2]
                                    ELSE cfgDatas'[n].m_val = cfgDatas[n].m_val
  <2>1. \A n : m + 1 \in Said(text, n) <=> text.nodes[m + 1][1] = n /\ text.nodes[m + 1][2] # BadValue
    BY <1>5 DEF Said
  <2> QED
    BY <1>5, <2>1
<1>8. m + 1 <= Len(text.nodes)
  BY <1>1, <1>5
<1>9. InEffect(text, m + 1)'
  BY <1>4, <1>7, <1>8, EffectGrows
<1>10. cfgLoading'[l].pc \in {"set", "assign"} /\ m + 1 >= 0
  OBVIOUS
<1> QED
  BY <1>5, <1>6, <1>9, <1>10 DEF AtWork

\* With one file there is no other.
LEMMA OnlyFile ==
    ASSUME Len(CfgFiles) = 1
    PROVE  \A f \in File : f = Head(CfgFiles)
  BY CfgAssumption DEF File, Range

\* Recorded or not, nothing changes as long as loaders and values stay.
LEMMA AppliedKept ==
    ASSUME NEW f, Applied(f), cfgDisk'[f] = cfgDisk[f], cfgTimes'[f] = cfgTimes[f],
           DOMAIN cfgDatas' = DOMAIN cfgDatas,
           \A n \in DOMAIN cfgDatas : cfgDatas'[n].m_val = cfgDatas[n].m_val,
           \A l \in CfgLoader : \/ cfgLoading'[l] = cfgLoading[l]
                                \/ /\ cfgLoading[l].pc \notin {"load", "set", "assign"}
                                   /\ cfgLoading'[l].pc \notin {"load", "set", "assign"}
    PROVE  Applied(f)'
<1> SUFFICES ASSUME cfgDisk[f].exists /\ cfgDisk[f].text.ok /\ cfgTimes[f] = cfgDisk[f].mtime,
                    NEW text, text = cfgDisk[f].text
             PROVE  \/ \E l \in CfgLoader : cfgLoading'[l].pc = "load"
                    \/ \E l \in CfgLoader : AtWork(l, text)'
                    \/ /\ InEffect(text, Len(text.nodes))'
                       /\ \A l \in CfgLoader : cfgLoading'[l].pc \notin {"set", "assign"}
  <2>1. PICK text : text = cfgDisk[f].text
    OBVIOUS
  <2>2. cfgDisk'[f].text = text
    BY <2>1
  <2> QED
    BY <2>1, <2>2 DEF Applied
<1>1. \/ \E l \in CfgLoader : cfgLoading[l].pc = "load"
      \/ \E l \in CfgLoader : AtWork(l, text)
      \/ /\ InEffect(text, Len(text.nodes))
         /\ \A l \in CfgLoader : cfgLoading[l].pc \notin {"set", "assign"}
  BY DEF Applied
<1>2. ASSUME NEW l \in CfgLoader, AtWork(l, text) PROVE AtWork(l, text)'
  <2>1. cfgLoading[l].pc \in {"set", "assign"}
    BY <1>2 DEF AtWork
  <2>2. cfgLoading'[l].pc \in {"set", "assign"} /\ cfgLoading'[l].nodes = cfgLoading[l].nodes
    BY <2>1
  <2> QED
    BY <1>2, <2>2, WorkKept
<1>3. ASSUME InEffect(text, Len(text.nodes)) PROVE InEffect(text, Len(text.nodes))'
  BY <1>3, EffectKept
<1> QED
  BY <1>1, <1>2, <1>3

\* A text whose time is recorded is taken care of at every step.
LEMMA AppliedStep ==
    ASSUME CfgTypeOK, LoaderOK, OneVariable, EffectInv, CfgNext,
           Alone', ~cfgHistory'.sameSecond, Len(CfgFiles) = 1, NEW f \in File
    PROVE  Applied(f)'
<1>1. Alone /\ OneAssigns /\ Told /\ OneAssigns'
  BY ToldStep DEF EffectInv
<1>2. ~cfgHistory.sameSecond => Applied(f)
  BY <1>1 DEF EffectInv
<1>3. cfgTimes[f] \in 0..cfgClock /\ cfgDisk[f].mtime \in 1..cfgClock /\ cfgDisk[f].text \in CfgText /\ cfgClock \in Nat
  BY DEF CfgTypeOK
<1>4. CASE LookUp \/ addListener
  <2>1. cfgTimes[f] = 0 /\ UNCHANGED <<cfgDisk, cfgTimes>>
    BY <1>4, OwnerShape DEF Alone, LoaderOK
  <2> QED
    BY <1>3, <2>1 DEF Applied
<1>5. CASE delListener
  <2>1. /\ DOMAIN cfgDatas' = DOMAIN cfgDatas
        /\ \A x \in DOMAIN cfgDatas : cfgDatas'[x].m_val = cfgDatas[x].m_val
    BY <1>5 DEF delListener, CfgTypeOK
  <2>2. UNCHANGED <<cfgDisk, cfgTimes, cfgLoading, cfgHistory>>
    BY <1>5 DEF delListener
  <2> QED
    BY <1>2, <2>1, <2>2, AppliedKept
<1>6. CASE EditFile
  <2>1. PICK g \in File, text \in CfgTexts, tick \in 0..1 :
          /\ cfgDisk' = [cfgDisk EXCEPT ![g] = [mtime |-> cfgClock + tick, text |-> text, exists |-> TRUE]]
          /\ cfgHistory' = [cfgHistory EXCEPT !.edits = @ + 1, !.sameSecond = @ \/ cfgDisk[g].mtime = cfgClock + tick]
          /\ UNCHANGED cfgTimes
    BY <1>6 DEF EditFile
  <2>2. g = f /\ cfgDisk[f].mtime = cfgClock
    BY OnlyFile DEF LoaderOK
  <2>3. cfgHistory'.sameSecond <=> cfgHistory.sameSecond \/ cfgDisk[g].mtime = cfgClock + tick
    BY <2>1 DEF CfgTypeOK
  <2>4. cfgDisk'[f].mtime = cfgClock + 1
    BY <1>3, <2>1, <2>2, <2>3 DEF CfgTypeOK
  <2>5. cfgTimes'[f] # cfgDisk'[f].mtime
    BY <1>3, <2>1, <2>4
  <2> QED
    BY <2>5 DEF Applied
<1>7. CASE RemoveFile
  <2>1. PICK g \in File : cfgDisk' = [cfgDisk EXCEPT ![g].exists = FALSE]
    BY <1>7 DEF RemoveFile
  <2>2. g = f
    BY OnlyFile
  <2>3. ~cfgDisk'[f].exists
    BY <2>1, <2>2 DEF CfgTypeOK
  <2> QED
    BY <2>3 DEF Applied
<1>8. ASSUME NEW l \in CfgLoader, ListAllFile(l) \/ LstatFile(l) \/ MarkFile(l) PROVE Applied(f)'
  <2>1. /\ OthersStay(l) /\ UNCHANGED <<cfgDatas, cfgDisk, cfgHistory>>
        /\ cfgLoading[l].pc \in {"idle", "stat", "mark"}
        /\ \/ cfgLoading'[l].pc \in {"idle", "stat", "mark"} /\ UNCHANGED cfgTimes
           \/ cfgLoading'[l].pc = "load"
    BY <1>8, QuietShape
  <2>2. CASE cfgLoading'[l].pc = "load"
    BY <2>2 DEF Applied
  <2>3. CASE cfgLoading'[l].pc \in {"idle", "stat", "mark"} /\ UNCHANGED cfgTimes
    <3>1. \A k \in CfgLoader : \/ cfgLoading'[k] = cfgLoading[k]
                                \/ /\ cfgLoading[k].pc \notin {"load", "set", "assign"}
                                   /\ cfgLoading'[k].pc \notin {"load", "set", "assign"}
      BY <2>1, <2>3 DEF OthersStay
    <3> QED
      BY <1>2, <2>1, <2>3, <3>1, AppliedKept
  <2> QED
    BY <2>1, <2>2, <2>3
<1>9. ASSUME NEW l \in CfgLoader, LoadFile(l) PROVE Applied(f)'
  <2>1. Head(cfgLoading[l].files) = f
    <3>1. cfgLoading[l].files = CfgFiles
      BY <1>9 DEF LoadFile, LoaderOK, InHand
    <3> QED
      BY <3>1, OnlyFile
  <2>2. /\ UNCHANGED cfgDisk
        /\ IF cfgDisk[f].exists /\ cfgDisk[f].text.ok
             THEN cfgLoading'[l].pc = "set" /\ cfgLoading'[l].nodes = cfgDisk[f].text.nodes
             ELSE cfgLoading'[l].pc \in {"idle", "stat"}
    BY <1>9, <2>1, LoadShape
  <2>3. CASE cfgDisk[f].exists /\ cfgDisk[f].text.ok
    <3>1. Len(cfgDisk[f].text.nodes) \in Nat
      BY <1>3 DEF CfgText
    <3>2. PICK text : text = cfgDisk[f].text
      OBVIOUS
    <3>3. Done(l, text)' = 0
      BY <2>2, <2>3, <3>1, <3>2 DEF Done
    <3>4. Len(text.nodes) \in Nat /\ cfgLoading'[l].nodes = text.nodes /\ cfgLoading'[l].pc = "set"
      BY <2>2, <2>3, <3>1, <3>2
    <3>5. \A j \in 1..Len(text.nodes) : 0 + j = j
      BY <3>4
    <3>6. AtWork(l, text)'
      BY <3>3, <3>4, <3>5 DEF AtWork
    <3> QED
      BY <2>2, <3>2, <3>6 DEF Applied
  <2>4. CASE ~(cfgDisk[f].exists /\ cfgDisk[f].text.ok)
    BY <2>2, <2>4 DEF Applied
  <2> QED
    BY <2>3, <2>4
<1>10. ASSUME NEW l \in CfgLoader, SetNode(l) PROVE Applied(f)'
  <2>1. /\ OthersStay(l) /\ UNCHANGED <<cfgDatas, cfgDisk, cfgTimes>> /\ cfgLoading[l].pc = "set"
        /\ cfgHistory'.sameSecond = cfgHistory.sameSecond
        /\ SetDone(l) \/ SetSkips(l) \/ SetNotifies(l)
    BY <1>10, SetShape
  <2>2. \A k \in CfgLoader \ {l} : cfgLoading[k].pc \notin {"load", "set", "assign"}
    BY <1>10, SetShape DEF Alone
  <2> SUFFICES ASSUME cfgDisk[f].exists /\ cfgDisk[f].text.ok /\ cfgTimes[f] = cfgDisk[f].mtime,
                      NEW text, text = cfgDisk[f].text
               PROVE  \/ AtWork(l, text)'
                      \/ /\ InEffect(text, Len(text.nodes))'
                         /\ \A k \in CfgLoader : cfgLoading'[k].pc \notin {"set", "assign"}
    BY <2>1 DEF Applied
  <2>3. AtWork(l, text) /\ text \in CfgText
    <3>1. \A k \in CfgLoader : AtWork(k, text) => k = l
      BY <2>2 DEF AtWork
    <3> QED
      BY <1>2, <1>3, <2>1, <2>2, <3>1 DEF Applied
  <2>4. \A k \in CfgLoader \ {l} : cfgLoading'[k].pc \notin {"set", "assign"}
    BY <2>1, <2>2 DEF OthersStay
  <2>5. CASE SetDone(l)
    <3>1. Len(text.nodes) \in Nat /\ Len(cfgLoading[l].nodes) = 0
      BY <2>3, <2>5, EmptySeq DEF SetDone, CfgText
    <3>2. Done(l, text) = Len(text.nodes)
      BY <3>1 DEF Done
    <3>3. InEffect(text, Len(text.nodes))
      <4>1. CASE Len(text.nodes) = 0
        BY <4>1, SaidRange DEF InEffect
      <4>2. CASE Len(text.nodes) # 0
        BY <2>3, <3>2, <4>2 DEF AtWork
      <4> QED
        BY <4>1, <4>2
    <3>4. InEffect(text, Len(text.nodes))'
      BY <2>1, <3>3, EffectKept
    <3> QED
      BY <2>4, <2>5, <3>4 DEF SetDone
  <2>6. CASE SetSkips(l)
    BY <2>1, <2>3, <2>4, <2>6, WorkGrows DEF SetSkips
  <2>7. CASE SetNotifies(l)
    BY <2>1, <2>3, <2>4, <2>7, WorkKept DEF SetNotifies
  <2> QED
    BY <2>1, <2>5, <2>6, <2>7
<1>11. ASSUME NEW l \in CfgLoader, AssignValue(l) PROVE Applied(f)'
  <2> DEFINE node == Head(cfgLoading[l].nodes)
  <2>1. /\ OthersStay(l) /\ UNCHANGED <<cfgDisk, cfgTimes, cfgHistory>>
        /\ cfgLoading[l].pc = "assign" /\ cfgLoading[l].nodes # <<>> /\ node[2] # BadValue
        /\ cfgLoading'[l].pc = "set" /\ cfgLoading'[l].nodes = Tail(cfgLoading[l].nodes)
        /\ DOMAIN cfgDatas' = DOMAIN cfgDatas /\ cfgDatas'[node[1]].m_val = node[2]
        /\ \A n \in DOMAIN cfgDatas : n # node[1] => cfgDatas'[n].m_val = cfgDatas[n].m_val
    BY <1>11, AssignShape
  <2>2. \A k \in CfgLoader \ {l} : cfgLoading[k].pc # "assign" /\ cfgLoading'[k].pc # "assign"
    BY <1>1, <2>1 DEF OneAssigns, OthersStay
  <2> SUFFICES ASSUME cfgDisk[f].exists /\ cfgDisk[f].text.ok /\ cfgTimes[f] = cfgDisk[f].mtime,
                      NEW text, text = cfgDisk[f].text
               PROVE  \/ \E k \in CfgLoader : cfgLoading'[k].pc = "load"
                      \/ \E k \in CfgLoader : AtWork(k, text)'
    BY <2>1 DEF Applied
  <2>3. \/ \E k \in CfgLoader : cfgLoading[k].pc = "load"
        \/ \E k \in CfgLoader : AtWork(k, text)
    BY <1>2, <2>1 DEF Applied
  <2>4. ASSUME NEW k \in CfgLoader, cfgLoading[k].pc = "load" PROVE cfgLoading'[k].pc = "load"
    BY <2>1, <2>4 DEF OthersStay
  <2>5. ASSUME AtWork(l, text) PROVE AtWork(l, text)'
    BY <1>3, <2>1, <2>2, <2>5, WorkGrows
  <2>6. ASSUME NEW k \in CfgLoader, k # l, AtWork(k, text) PROVE AtWork(k, text)'
    <3>1. cfgLoading'[k] = cfgLoading[k]
      BY <2>1, <2>6 DEF OthersStay
    <3>2. Done(k, text) = 0
      BY <2>1, <2>6 DEF AtWork
    <3>3. Done(k, text)' = 0
      BY <3>1, <3>2 DEF Done
    <3> QED
      BY <2>6, <3>1, <3>2, <3>3 DEF AtWork
  <2> QED
    BY <2>3, <2>4, <2>5, <2>6
<1> QED
  BY <1>4, <1>5, <1>6, <1>7, <1>8, <1>9, <1>10, <1>11 DEF CfgNext

\* A set of places in a text has a last one.
LEMMA LastPlace ==
    ASSUME NEW m \in Nat, NEW T, T \subseteq 1..m, T # {}
    PROVE  \E i \in T : \A j \in T : j <= i
<1> DEFINE R == OpToRel(<, Nat)
           U == {m - i : i \in T}
<1>1. \A x, y \in Nat : <<y, x>> \in R <=> y < x
  BY DEF OpToRel
<1>2. IsWellFoundedOn(R, Nat)
  BY NatLessThanWellFounded
<1>3. U \subseteq Nat /\ U # {}
  <2>1. \A i \in T : i \in 1..m /\ m - i \in Nat
    OBVIOUS
  <2> QED
    BY <2>1
<1> HIDE DEF R
<1>4. PICK x \in U : \A y \in U : ~ (<<y, x>> \in R)
  BY <1>2, <1>3, WFMin
<1>5. PICK i \in T : x = m - i
  OBVIOUS
<1>6. ASSUME NEW j \in T PROVE j <= i
  <2>1. m - j \in U /\ m - j \in Nat /\ x \in Nat
    BY <1>3
  <2>2. ~(m - j < x)
    BY <1>1, <1>4, <2>1
  <2>3. i \in 1..m /\ j \in 1..m
    OBVIOUS
  <2> QED
    BY <1>5, <2>2, <2>3
<1> QED
  BY <1>6

\* The invariant of the configuration: types, what loaders have in hand, what the
\* listeners know and what becomes of a recorded text (config.h:489-510,
\* config.cpp:129-184).
THEOREM ConfigInvariant == CfgSpec => []CfgInv
<1>1. CfgInit => CfgInv
  <2> SUFFICES ASSUME CfgInit PROVE CfgInv
    OBVIOUS
  <2>1. CfgIdle \in CfgLoad /\ CfgIdle.pc = "idle"
    BY EmptySeq DEF CfgInit, CfgIdle, CfgLoad
  <2>2. <<>> \in Seq(CfgNode)
    BY EmptySeq
  <2>3. cfgDisk \in [File -> [mtime : 1..cfgClock, text : CfgText, exists : BOOLEAN]]
    BY <2>2 DEF CfgInit, CfgText
  <2>4. CfgTypeOK
    BY <2>1, <2>3 DEF CfgInit, CfgTypeOK, CfgVal
  <2>5. LoaderOK
    BY <2>1 DEF CfgInit, LoaderOK, InHand
  <2>6. OneVariable
    BY DEF CfgInit, OneVariable
  <2>7. OneAssigns /\ Told
    BY <2>1 DEF CfgInit, OneAssigns, Told
  <2>8. \A f \in File : Applied(f)
    BY DEF CfgInit, Applied
  <2> QED
    BY <2>4, <2>5, <2>6, <2>7, <2>8 DEF CfgInv, EffectInv
<1>2. CfgInv /\ [CfgNext]_cfgVars => CfgInv'
  <2> SUFFICES ASSUME CfgInv, [CfgNext]_cfgVars PROVE CfgInv'
    OBVIOUS
  <2>1. CASE CfgNext
    <3>1. CfgTypeOK' /\ LoaderOK' /\ OneVariable'
      BY <2>1, CfgTypeStep, LoaderStep, OneVariableStep DEF CfgInv
    <3>2. (Alone => OneAssigns /\ Told)'
      BY <2>1, ToldStep DEF CfgInv, EffectInv
    <3>3. (Alone /\ ~cfgHistory.sameSecond /\ Len(CfgFiles) = 1 => \A f \in File : Applied(f))'
      BY <2>1, AppliedStep DEF CfgInv
    <3> QED
      BY <3>1, <3>2, <3>3 DEF CfgInv, EffectInv
  <2>2. CASE UNCHANGED cfgVars
    <3>1. CfgTypeOK' /\ LoaderOK' /\ OneVariable'
      BY <2>2 DEF CfgInv, CfgTypeOK, LoaderOK, OneVariable, InHand, CfgLoad, cfgVars
    <3>2. Alone' = Alone /\ cfgHistory' = cfgHistory /\ (OneAssigns /\ Told => (OneAssigns /\ Told)')
      BY <2>2 DEF Alone, OneAssigns, Told, cfgVars
    <3>3. ASSUME NEW f, Applied(f) PROVE Applied(f)'
      BY <2>2, <3>3, AppliedKept DEF cfgVars
    <3> QED
      BY <3>1, <3>2, <3>3 DEF CfgInv, EffectInv
  <2> QED
    BY <2>1, <2>2
<1> QED
  BY <1>1, <1>2, PTL DEF CfgSpec

\* When nobody is loading, the listeners know the values in effect and a file whose
\* time is recorded is in effect, for any number of loaders, variables, listeners
\* and texts (config.h:489-510, config.cpp:129-184).
THEOREM ConfigIsInEffect == CfgSpec => []ConfigInEffect
<1>1. CfgInv => ConfigInEffect
  <2> SUFFICES ASSUME CfgInv, Alone, \A l \in CfgLoader : cfgLoading[l].pc = "idle"
               PROVE  /\ \A n \in DOMAIN cfgDatas : \A c \in cfgDatas[n].m_cbs : cfgTold[c] = cfgDatas[n].m_val
                      /\ ~cfgHistory.sameSecond /\ Len(CfgFiles) = 1 =>
                           \A f \in File, n \in DOMAIN cfgDatas :
                              cfgDisk[f].exists /\ cfgDisk[f].text.ok /\ cfgTimes[f] = cfgDisk[f].mtime
                                /\ Said(cfgDisk[f].text, n) # {} =>
                                  cfgDatas[n].m_val =
                                      cfgDisk[f].text.nodes[CHOOSE i \in Said(cfgDisk[f].text, n) :
                                                              \A j \in Said(cfgDisk[f].text, n) : j <= i][2]
    BY DEF ConfigInEffect, Alone
  <2>1. \A n \in DOMAIN cfgDatas : \A c \in cfgDatas[n].m_cbs : cfgTold[c] = cfgDatas[n].m_val
    BY DEF CfgInv, EffectInv, Told
  <2>2. ASSUME ~cfgHistory.sameSecond, Len(CfgFiles) = 1, NEW f \in File, NEW n \in DOMAIN cfgDatas,
               cfgDisk[f].exists, cfgDisk[f].text.ok, cfgTimes[f] = cfgDisk[f].mtime,
               Said(cfgDisk[f].text, n) # {}
        PROVE  cfgDatas[n].m_val =
                   cfgDisk[f].text.nodes[CHOOSE i \in Said(cfgDisk[f].text, n) :
                                           \A j \in Said(cfgDisk[f].text, n) : j <= i][2]
    <3> DEFINE text == cfgDisk[f].text
    <3>1. Applied(f)
      BY <2>2 DEF CfgInv, EffectInv
    <3>2. \A l \in CfgLoader : ~AtWork(l, text)
      BY DEF AtWork
    <3>3. InEffect(text, Len(text.nodes))
      BY <2>2, <3>1, <3>2 DEF Applied
    <3>4. Len(text.nodes) \in Nat
      BY <2>2 DEF CfgInv, CfgTypeOK, CfgText
    <3>5. \E i \in Said(text, n) : \A j \in Said(text, n) : j <= i
      BY <2>2, <3>4, LastPlace, SaidRange
    <3> DEFINE last == CHOOSE i \in Said(text, n) : \A j \in Said(text, n) : j <= i
    <3>6. last \in Said(text, n) /\ \A j \in Said(text, n) : j <= last
      BY <3>5
    <3> HIDE DEF last
    <3>7. last <= Len(text.nodes)
      BY <3>4, <3>6, SaidRange
    <3>8. cfgDatas[n].m_val = text.nodes[last][2]
      BY <3>3, <3>6, <3>7 DEF InEffect
    <3> QED
      BY <3>8 DEF last
  <2> QED
    BY <2>1, <2>2, Zenon
<1> QED
  BY <1>1, ConfigInvariant, PTL

=============================================================================
