------------------------------- MODULE Stream -------------------------------
(***************************************************************************)
(* Stream and SocketStream (stream.cpp, socket_stream.cpp): readFixSize()  *)
(* and writeFixSize() repeat read() or write() until len bytes have been   *)
(* moved.                                                                  *)
(*                                                                         *)
(* The four functions keep the result of read() or write() in a size_t: of *)
(* the results <= 0 only 0 is recognised, and -1 is added like a count.    *)
(* Byte i of the transfer is the number i.                                 *)
(***************************************************************************)
EXTENDS Integers, Sequences, FiniteSets

CONSTANTS
    MaxLen,        \* the longest transfer
    MaxErrors      \* errors of one transfer

ASSUME StreamAssumption == MaxLen \in Nat \ {0} /\ MaxErrors \in Nat

VARIABLES
    fix,           \* the call: its variant, len, left, offset, and where each byte went
    m_sock,        \* "connected" or "closed"
    streamErrors   \* how many calls of read() or write() have failed

streamVars == <<fix, m_sock, streamErrors>>

FixOp == {"none", "buffer", "bytearray", "done"}

StreamTypeOK ==
    /\ fix.op \in FixOp /\ fix.len \in 0..MaxLen
    /\ fix.left \in 0..(MaxLen + MaxErrors) /\ fix.offset \in (-MaxErrors)..(MaxLen + MaxErrors)
    /\ fix.at \in Seq(Int) /\ fix.ret \in -1..MaxLen
    /\ m_sock \in {"connected", "closed"}
    /\ streamErrors \in 0..MaxErrors

NoCall == [op |-> "none", len |-> 0, left |-> 0, offset |-> 0, at |-> <<>>, ret |-> 0]

StreamInit == fix = NoCall /\ m_sock = "connected" /\ streamErrors = 0

-----------------------------------------------------------------------------
(* Faulty variant: the buffer's offset does not move.                      *)

AtStart(f, ret) == [f EXCEPT !.left = @ - ret]

-----------------------------------------------------------------------------
\* readFixSize(buffer, len) and writeFixSize(buffer, len), or the variants for a
\* ByteArray, whose own position is the offset.
CallFixSize == \E op \in {"buffer", "bytearray"}, len \in 1..MaxLen :
    /\ fix.op \in {"none", "done"}
    /\ fix' = [NoCall EXCEPT !.op = op, !.len = len, !.left = len]
    /\ streamErrors' = 0
    /\ UNCHANGED m_sock

\* offset += ret; left -= ret, whatever the sign of ret.
Advanced(f, ret) == [f EXCEPT !.offset = @ + ret, !.left = @ - ret]

\* The position of a ByteArray moves only if ret > 0.
AdvancedArray(f, ret) ==
    [f EXCEPT !.offset = IF ret > 0 THEN @ + ret ELSE @, !.left = @ - ret]

\* The loop ends with left = 0 and returns len.
Looped(f) == IF f.left = 0 THEN [f EXCEPT !.op = "done", !.ret = f.len] ELSE f

Step(f, ret) == Looped(IF f.op = "buffer" THEN Advanced(f, ret) ELSE AdvancedArray(f, ret))

\* read() or write() moves n bytes.
MoveBytes == \E n \in 1..fix.left :
    /\ fix.op \in {"buffer", "bytearray"} /\ m_sock = "connected"
    /\ fix' = Step([fix EXCEPT !.at = @ \o [i \in 1..n |-> fix.offset + i]], n)
    /\ UNCHANGED <<m_sock, streamErrors>>

\* The peer has closed: 0, which is returned.
TransferEnd ==
    /\ fix.op \in {"buffer", "bytearray"} /\ m_sock = "connected"
    /\ fix' = [fix EXCEPT !.op = "done", !.ret = 0]
    /\ UNCHANGED <<m_sock, streamErrors>>

\* An error, or the socket is not connected: -1.
TransferError ==
    /\ fix.op \in {"buffer", "bytearray"} /\ streamErrors < MaxErrors
    /\ fix' = Step(fix, -1)
    /\ streamErrors' = streamErrors + 1
    /\ UNCHANGED m_sock

\* close(): by another coroutine that has the stream.
CloseStream ==
    /\ m_sock = "connected"
    /\ m_sock' = "closed"
    /\ UNCHANGED <<fix, streamErrors>>

StreamNext == CallFixSize \/ MoveBytes \/ TransferEnd \/ TransferError \/ CloseStream

StreamSpec == StreamInit /\ [][StreamNext]_streamVars

-----------------------------------------------------------------------------
(* Properties.                                                             *)

\* Without an error, a call that returns len has moved len bytes, each to its
\* own place and in order, however read() or write() divided them; and a call
\* under way has that prefix (stream.cpp:10-99).
StreamExact ==
    (streamErrors = 0 /\ fix.op # "none") =>
        /\ fix.at = [i \in 1..Len(fix.at) |-> i]
        /\ fix.ret > 0 => Len(fix.at) = fix.len
        /\ fix.op # "done" => fix.left = fix.len - Len(fix.at)

\* "An error must return" (stream.cpp:88): a call that met an error does not
\* come back as a transfer of len bytes.
StreamErrorReturned == streamErrors > 0 => fix.ret <= 0

\* What is left and where the next byte goes, with the errors counted in.
FixInfo == [op : FixOp, len : 0..MaxLen, left : Nat, offset : Int, at : Seq(Int), ret : 0..MaxLen]

FixBounds ==
    /\ fix.left <= fix.len + streamErrors
    /\ fix.offset >= 0 - streamErrors /\ fix.offset <= fix.len + streamErrors
    /\ fix.op = "buffer" => fix.offset + fix.left = fix.len
    /\ fix.op = "bytearray" => fix.offset + fix.left = fix.len + streamErrors
    /\ fix.op \in {"none", "buffer", "bytearray"} => fix.ret = 0

\* Without an error the next byte goes behind the last one.
FixInPlace == streamErrors = 0 =>
    /\ fix.at = [i \in 1..Len(fix.at) |-> i]
    /\ fix.offset = Len(fix.at)
    /\ fix.ret > 0 => Len(fix.at) = fix.len

StreamInv ==
    /\ fix \in FixInfo /\ m_sock \in {"connected", "closed"} /\ streamErrors \in 0..MaxErrors
    /\ FixBounds /\ FixInPlace

=============================================================================
