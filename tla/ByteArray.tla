----------------------------- MODULE ByteArray -----------------------------
(***************************************************************************)
(* ByteArray (bytearray.h, bytearray.cpp): a list of memory nodes of one   *)
(* size with a cursor, and the encodings of integers and strings.          *)
(*                                                                         *)
(* The nodes are one sequence of bytes, m_baseSize of them to a node; the  *)
(* node m_cur points to is its index, and the null pointer is the index    *)
(* behind the last node.  The groups of a varint have Group values (128 in *)
(* the code), so a byte has 2 * Group, and words are two bytes.  As in the *)
(* code (words of 32 and 64 bits) the last group of a varint is not full.  *)
(***************************************************************************)
EXTENDS Integers, Sequences, FiniteSetsExt

CONSTANTS
    m_baseSize,    \* bytes of a node
    Group,         \* values of a varint's group: half of a byte's
    BaItems,       \* what the user writes: [kind, value of a number, text of a string]
    BaMaxItems     \* bound: items between two clear()

Byte   == 2 * Group
BaWord == Byte * Byte

\* A number in its type's range, or a text whose length fits in front of it.
NumberKinds == {"fixed", "varint", "zigzag"}
TextKinds   == {"stringF", "stringVint"}
ValueOf(k)  == IF k = "zigzag" THEN (-(BaWord \div 2))..(BaWord \div 2 - 1) ELSE 0..(BaWord - 1)
IsItem(item) ==
    \/ item.kind \in NumberKinds /\ item.value \in ValueOf(item.kind) /\ item.text = <<>>
    \/ item.kind \in TextKinds /\ item.text \in Seq(0..(Byte - 1)) /\ Len(item.text) < BaWord

ASSUME BaAssumption ==
    /\ m_baseSize \in Nat \ {0} /\ Group \in Nat /\ Group >= 4 /\ BaMaxItems \in Nat
    /\ \A item \in BaItems : IsItem(item)

VARIABLES
    ba,            \* the object
    baItems,       \* the items written since the last clear()
    baAt,          \* the position each of them was written at
    baNext,        \* the item the reader is at
    baRead         \* the item read last came back as it was written

baVars == <<ba, baItems, baAt, baNext, baRead>>

-----------------------------------------------------------------------------
(* The memory.  fate is "ok", "thrown" (std::out_of_range) or "crashed" (a *)
(* null pointer is followed).                                              *)

NewArray == [mem |-> [i \in 1..m_baseSize |-> 0], m_position |-> 0, m_size |-> 0, m_cur |-> 0,
             m_endian |-> "big", fate |-> "ok"]
Capacity(a)    == Len(a.mem)
Nodes(a)       == Capacity(a) \div m_baseSize
getReadSize(a) == a.m_size - a.m_position
getRemainCapacity(a) == Capacity(a) - a.m_position
\* The byte the cursor is on: an offset in the node m_cur points to.
Cursor(a) == a.m_cur * m_baseSize + (a.m_position % m_baseSize)

clear(a) == [NewArray EXCEPT !.m_endian = a.m_endian]

\* addCapacity(): when nothing was left, the cursor goes to the first new node.
addCapacity(a, size) ==
    LET remain == getRemainCapacity(a)
        count  == (size - remain + m_baseSize - 1) \div m_baseSize
    IN  IF size = 0 \/ remain >= size THEN a
        ELSE [a EXCEPT !.mem = @ \o [i \in 1..(count * m_baseSize) |-> 0],
                       !.m_cur = IF remain = 0 THEN Nodes(a) ELSE @]

\* Faulty variant of NodeBehind: a node that is exactly full is not left.
NodeOfLast(end) == (end - 1) \div m_baseSize
\* Where m_cur points after the bytes up to end were used: the next node when
\* the last one is exactly full.
NodeBehind(end) == end \div m_baseSize

\* The memory with bytes from the cursor on.
Filled(b, bytes) ==
    LET at == Cursor(b)
    IN  [i \in 1..Len(b.mem) |-> IF i \in (at + 1)..(at + Len(bytes)) THEN bytes[i - at] ELSE b.mem[i]]

write(a, bytes) ==
    LET b == addCapacity(a, Len(bytes))
    IN  IF bytes = <<>> THEN a
        ELSE [b EXCEPT !.mem = Filled(b, bytes), !.m_position = @ + Len(bytes),
                       !.m_cur = NodeBehind(Cursor(b) + Len(bytes)),
                       !.m_size = Max({@, b.m_position + Len(bytes)})]

\* read(): the size of the node is looked up before it is known whether there is
\* anything to read.
read(a, size) ==
    LET at == Cursor(a)
    IN  IF a.fate # "ok" THEN [a |-> a, bytes |-> <<>>]
        ELSE IF size > getReadSize(a) THEN [a |-> [a EXCEPT !.fate = "thrown"], bytes |-> <<>>]
        ELSE IF a.m_cur = Nodes(a) THEN [a |-> [a EXCEPT !.fate = "crashed"], bytes |-> <<>>]
        ELSE [a |-> [a EXCEPT !.m_position = @ + size,
                              !.m_cur = IF size = 0 THEN @ ELSE NodeBehind(at + size)],
              bytes |-> SubSeq(a.mem, at + 1, at + size)]

\* The const read() of size bytes at m_position, and toString().
peek(a, size) == SubSeq(a.mem, Cursor(a) + 1, Cursor(a) + size)
toString(a) == IF getReadSize(a) = 0 THEN <<>> ELSE peek(a, getReadSize(a))

\* setPosition(): the walk that looks for the node follows the last one's next.
setPosition(a, val) ==
    IF val > Capacity(a) THEN [a EXCEPT !.fate = "thrown"]
    ELSE [a EXCEPT !.m_position = val, !.m_size = Max({@, val}), !.m_cur = val \div m_baseSize,
                   !.fate = IF val = Capacity(a) THEN "crashed" ELSE @]

\* getReadBuf(): the buffers and whether the walk stays inside the list.  When a
\* node is used up, the next one is followed even if nothing is left to read.
getReadBuf(a, len) ==
    LET n == Min({len, getReadSize(a)})
    IN  [bytes |-> IF n = 0 THEN <<>> ELSE peek(a, n), safe |-> n = 0 \/ Cursor(a) + n < Capacity(a)]
getReadBufAt(a, len, position) ==
    LET n == Min({len, getReadSize(a)})
    IN  [bytes |-> SubSeq(a.mem, position + 1, position + n), safe |-> n = 0 \/ position + n < Capacity(a)]

\* getWriteBuf(): room for len bytes from the cursor on, which the caller fills.
getWriteBuf(a, bytes) ==
    LET b == addCapacity(a, Len(bytes)) IN [b EXCEPT !.mem = Filled(b, bytes)]

\* writeToFile(): one piece per node.  The offset in the node is taken from the
\* shorter of what is left and the node's size, so a piece may be empty or
\* negative; <<-1>> stands for a file that is then wrong.
WritePiece(a, f, node) ==
    LET diff == f.pos % m_baseSize
        len  == Min({f.remain, m_baseSize}) - diff
        at   == node * m_baseSize + diff
    IN  IF f.remain <= 0 \/ f.out = <<-1>> THEN f
        ELSE IF len <= 0 THEN [f EXCEPT !.out = <<-1>>]
        ELSE [out |-> f.out \o SubSeq(a.mem, at + 1, at + len), pos |-> f.pos + len,
              remain |-> f.remain - len]
writeToFile(a) ==
    LET piece[k \in 0..Nodes(a)] ==
            IF k = 0 THEN [out |-> <<>>, pos |-> a.m_position, remain |-> getReadSize(a)]
            ELSE WritePiece(a, piece[k - 1], a.m_cur + k - 1)
    IN  piece[Nodes(a)].out

\* readFromFile(): the file is written to the array a node's size at a time.
ReadPart(file, k) == SubSeq(file, (k - 1) * m_baseSize + 1, Min({k * m_baseSize, Len(file)}))
readFromFile(a, file) ==
    LET chunks == (Len(file) + m_baseSize - 1) \div m_baseSize
        done[k \in 0..chunks] == IF k = 0 THEN a ELSE write(done[k - 1], ReadPart(file, k))
    IN  done[chunks]

-----------------------------------------------------------------------------
(* The encodings.  The machine is little endian.                           *)

Fixed(v, endian) ==
    IF endian = "small" THEN <<v % Byte, v \div Byte>> ELSE <<v \div Byte, v % Byte>>
FromFixed(b, endian) == IF endian = "small" THEN b[1] + Byte * b[2] ELSE b[2] + Byte * b[1]

EncodeZigzag(v) == IF v < 0 THEN (2 * (-v) - 1) % BaWord ELSE 2 * v
DecodeZigzag(v) == IF v % 2 = 0 THEN v \div 2 ELSE -((v + 1) \div 2)

\* writeUint32, writeUint64: the low bits first, a mark on all bytes but the last.
varint[v \in 0..(BaWord - 1)] ==
    IF v < Group THEN <<v>> ELSE <<(v % Group) + Group>> \o varint[v \div Group]
\* readUint32, readUint64: up to an unmarked byte, and no more of them than a word
\* may need, which is three; last is the byte read last.
VarintRound(g) ==
    LET r == read(g.a, 1)
    IN  IF g.last < Group \/ g.a.fate # "ok" THEN g
        ELSE IF r.a.fate # "ok" THEN [g EXCEPT !.a = r.a]
        ELSE [a |-> r.a, last |-> r.bytes[1], scale |-> g.scale * Group,
              v |-> (g.v + (r.bytes[1] % Group) * g.scale) % BaWord]
readVarint(a) ==
    VarintRound(VarintRound(VarintRound([a |-> a, last |-> Group, scale |-> 1, v |-> 0])))

\* writeF..., writeInt..., writeString...: the bytes of an item.
Encoded(item, endian) ==
    CASE item.kind = "fixed"      -> Fixed(item.value, endian)
      [] item.kind = "varint"     -> varint[item.value]
      [] item.kind = "zigzag"     -> varint[EncodeZigzag(item.value)]
      [] item.kind = "stringF"    -> Fixed(Len(item.text), endian) \o item.text
      [] item.kind = "stringVint" -> varint[Len(item.text)] \o item.text

\* writeString... write the length first, then the text.
writeItem(a, item) ==
    LET bytes == Encoded(item, a.m_endian)
    IN  write(write(a, SubSeq(bytes, 1, Len(bytes) - Len(item.text))), item.text)

\* readString...: the length, then the text.
readText(lengthRead) ==
    LET r == read(lengthRead.a, lengthRead.v) IN [a |-> r.a, v |-> r.bytes]
readFixed(a) ==
    LET r == read(a, 2) IN [a |-> r.a, v |-> IF r.bytes = <<>> THEN 0 ELSE FromFixed(r.bytes, a.m_endian)]
readItem(a, k) ==
    CASE k = "fixed"      -> readFixed(a)
      [] k = "varint"     -> readVarint(a)
      [] k = "zigzag"     -> LET r == readVarint(a) IN [a |-> r.a, v |-> DecodeZigzag(r.v)]
      [] k = "stringF"    -> readText(readFixed(a))
      [] k = "stringVint" -> readText(readVarint(a))

-----------------------------------------------------------------------------
(* A user appends items, goes back and reads them in order.                *)

Arrays == [mem : Seq(0..(Byte - 1)), m_position : Nat, m_size : Nat, m_cur : Nat,
           m_endian : {"big", "small"}, fate : {"ok", "thrown", "crashed"}]

BaTypeOK ==
    /\ ba \in Arrays /\ Capacity(ba) = Nodes(ba) * m_baseSize
    /\ baItems \in Seq(BaItems) /\ baAt \in Seq(Nat) /\ Len(baAt) = Len(baItems)
    /\ baNext \in 1..(Len(baItems) + 1) /\ baRead \in BOOLEAN

BaInit == ba = NewArray /\ baItems = <<>> /\ baAt = <<>> /\ baNext = 1 /\ baRead = TRUE

setSmallEndian ==
    /\ ba.fate = "ok" /\ baItems = <<>> /\ ba.m_endian = "big"
    /\ ba' = [ba EXCEPT !.m_endian = "small"]
    /\ UNCHANGED <<baItems, baAt, baNext, baRead>>

WriteItem == \E item \in BaItems :
    /\ ba.fate = "ok" /\ Len(baItems) < BaMaxItems /\ ba.m_position = ba.m_size
    /\ ba' = writeItem(ba, item)
    /\ baItems' = Append(baItems, item) /\ baAt' = Append(baAt, ba.m_position)
    /\ baNext' = Len(baItems) + 2
    /\ UNCHANGED baRead

\* The bytes of an item arrive from a socket in the buffers of getWriteBuf().
ReceiveItem == \E item \in BaItems :
    LET bytes == Encoded(item, ba.m_endian)
    IN  /\ ba.fate = "ok" /\ Len(baItems) < BaMaxItems /\ ba.m_position = ba.m_size
        /\ ba' = setPosition(getWriteBuf(ba, bytes), ba.m_position + Len(bytes))
        /\ baItems' = Append(baItems, item) /\ baAt' = Append(baAt, ba.m_position)
        /\ baNext' = Len(baItems) + 2
        /\ UNCHANGED baRead

Rewind ==
    /\ ba.fate = "ok" /\ ba.m_position > 0
    /\ ba' = setPosition(ba, 0) /\ baNext' = 1
    /\ UNCHANGED <<baItems, baAt, baRead>>

AsWritten(item) == IF item.kind \in TextKinds THEN item.text ELSE item.value

ReadItem ==
    /\ ba.fate = "ok" /\ baNext <= Len(baItems)
    /\ LET r == readItem(ba, baItems[baNext].kind)
       IN  ba' = r.a /\ baRead' = (r.v = AsWritten(baItems[baNext]))
    /\ baNext' = baNext + 1
    /\ UNCHANGED <<baItems, baAt>>

\* The array is saved to a file, cleared and loaded again.
Reload ==
    /\ ba.fate = "ok" /\ ba.m_position = 0 /\ baItems # <<>>
    /\ ba' = readFromFile(clear(ba), writeToFile(ba)) /\ baNext' = Len(baItems) + 1
    /\ UNCHANGED <<baItems, baAt, baRead>>

Clear ==
    /\ ba.fate = "ok" /\ Len(baItems) = BaMaxItems
    /\ ba' = clear(ba) /\ baItems' = <<>> /\ baAt' = <<>> /\ baNext' = 1
    /\ UNCHANGED baRead

\* send() of what is left, from the buffers of getReadBuf().
Send ==
    /\ ba.fate = "ok" /\ getReadSize(ba) > 0
    /\ ~getReadBuf(ba, getReadSize(ba)).safe
    /\ ba' = [ba EXCEPT !.fate = "crashed"]
    /\ UNCHANGED <<baItems, baAt, baNext, baRead>>

BaNext == setSmallEndian \/ WriteItem \/ ReceiveItem \/ Rewind \/ ReadItem \/ Reload \/ Clear \/ Send

BaSpec == BaInit /\ [][BaNext]_baVars

-----------------------------------------------------------------------------
(* The inductive invariant.                                                *)

\* An array that nothing was wrong with: the node pointer is where the position
\* says, and what is used is there.
Sound(a) ==
    /\ a \in Arrays /\ a.fate = "ok" /\ Len(a.mem) = Nodes(a) * m_baseSize
    /\ a.m_cur = a.m_position \div m_baseSize
    /\ a.m_position <= a.m_size /\ a.m_size <= Len(a.mem)

\* Bytes that are in a memory behind a position.
LaidAt(mem, p, bytes) == \A i \in 1..Len(bytes) : mem[p + i] = bytes[i]

\* Where an item starts; behind the last one, where the next is written.
StartOf(k) == IF k <= Len(baItems) THEN baAt[k] ELSE ba.m_size

\* The items' encodings lie one behind the other from the begin on, and the
\* position is where the next item to read starts.
ItemsLaid ==
    /\ StartOf(1) = 0 /\ ba.m_position = StartOf(baNext)
    /\ \A k \in 1..Len(baItems) :
          LET bytes == Encoded(baItems[k], ba.m_endian)
          IN  /\ StartOf(k + 1) = StartOf(k) + Len(bytes) /\ StartOf(k + 1) <= ba.m_size
              /\ LaidAt(ba.mem, StartOf(k), bytes)

BaInv ==
    /\ BaTypeOK /\ ba.fate # "thrown" /\ baRead = TRUE
    /\ ba.fate = "ok" => Sound(ba) /\ ItemsLaid

-----------------------------------------------------------------------------
(* The properties.                                                         *)

\* What is left to read is the encodings of the items not yet read, one behind the
\* other, wherever the nodes end; the node pointer agrees with the position; and
\* reading gives back the value written and never throws (bytearray.cpp:86-175,
\* :240-260, :319-360).
BaFaithful ==
    /\ ba.fate # "thrown"
    /\ ba.fate = "ok" =>
        /\ ba.m_cur = ba.m_position \div m_baseSize /\ ba.m_position <= ba.m_size
        /\ ba.m_position = StartOf(baNext) /\ Len(toString(ba)) = ba.m_size - ba.m_position
        /\ \A k \in baNext..Len(baItems) :
              LET bytes == Encoded(baItems[k], ba.m_endian)
                  from  == StartOf(k) - ba.m_position
              IN  /\ StartOf(k + 1) = StartOf(k) + Len(bytes)
                  /\ SubSeq(toString(ba), from + 1, from + Len(bytes)) = bytes
        /\ baRead

\* setPosition() throws for a position behind the capacity and reaches every
\* other one (bytearray.cpp:243 "设置内存指针位置超出了当前总容量大小 抛出异常"), and a
\* node's end is no other place to read than its middle: no null pointer is
\* followed.
BaNoCrash == ba.fate # "crashed"

=============================================================================
