-------------------------- MODULE ByteArrayProofs ---------------------------
(***************************************************************************)
(* Proofs about ByteArray, for any size of the nodes, of a byte and of the *)
(* texts: the memory and the node pointer, the encodings of the items, and *)
(* that items come back as they were written.                              *)
(***************************************************************************)
EXTENDS ByteArray, SequenceTheorems, WellFoundedInduction, TLAPS

-----------------------------------------------------------------------------
(* Numbers *)

\* A product of naturals is one, and a factor that is bounded bounds it.
LEMMA Products ==
    ASSUME NEW x \in Nat, NEW y \in Nat, NEW z \in Nat, x <= y
    PROVE  x * z \in Nat /\ x * z <= y * z /\ z * x = x * z
  OBVIOUS

\* A sum's product.
LEMMA SumProduct ==
    ASSUME NEW x \in Nat, NEW y \in Nat, NEW z \in Nat
    PROVE  (x + y) * z = x * z + y * z
  OBVIOUS

\* A number is its quotient and its remainder.
LEMMA DivMod ==
    ASSUME NEW p \in Nat, NEW b \in Nat \ {0}
    PROVE  /\ p \div b \in Nat /\ p % b \in 0..(b - 1)
           /\ p = b * (p \div b) + (p % b) /\ p = (p \div b) * b + (p % b)
  OBVIOUS

\* Quotient and remainder are determined.
LEMMA DivUnique ==
    ASSUME NEW b \in Nat \ {0}, NEW q \in Nat, NEW r \in 0..(b - 1)
    PROVE  /\ (b * q + r) \div b = q /\ (b * q + r) % b = r
           /\ (q * b + r) \div b = q /\ (q * b + r) % b = r
  OBVIOUS

\* The quotient of a number below a product.
LEMMA DivBelow ==
    ASSUME NEW b \in Nat \ {0}, NEW c \in Nat \ {0}, NEW p \in 0..(b * c - 1)
    PROVE  p \div b \in 0..(c - 1)
<1> DEFINE q == p \div b
<1>1. q \in Nat /\ p % b \in 0..(b - 1) /\ p = b * q + (p % b)
  BY DivMod
<1>2. b * c \in Nat
  OBVIOUS
<1>3. ASSUME q >= c PROVE FALSE
  <2>1. c * b <= q * b
    BY <1>1, <1>3, Products
  <2>2. c * b = b * c /\ q * b = b * q
    BY <1>1
  <2>3. b * q \in Nat
    BY <1>1
  <2> HIDE DEF q
  <2> QED
    BY <1>1, <1>2, <2>1, <2>2, <2>3
<1> QED
  BY <1>1, <1>3

\* The maximum of two numbers.
LEMMA MaxTwo ==
    ASSUME NEW x \in Int, NEW y \in Int
    PROVE  Max({x, y}) = IF x >= y THEN x ELSE y
  BY DEF Max

\* The minimum of two numbers.
LEMMA MinTwo ==
    ASSUME NEW x \in Int, NEW y \in Int
    PROVE  Min({x, y}) = IF x <= y THEN x ELSE y
  BY DEF Min

-----------------------------------------------------------------------------
(* The memory *)

\* The bytes.
ByteValue == 0..(Byte - 1)

\* The constants' types.
LEMMA BaConstants ==
    /\ m_baseSize \in Nat \ {0} /\ Group \in Nat \ {0} /\ Group >= 4
    /\ Byte \in Nat \ {0} /\ Byte = 2 * Group /\ BaWord \in Nat \ {0} /\ BaWord = Byte * Byte
  BY BaAssumption DEF Byte, BaWord

\* The types of an array's parts.
LEMMA SoundTypes ==
    ASSUME NEW a, Sound(a)
    PROVE  /\ a \in Arrays /\ a.fate = "ok" /\ a.mem \in Seq(ByteValue) /\ Len(a.mem) \in Nat
           /\ a.m_position \in Nat /\ a.m_size \in Nat /\ a.m_cur \in Nat
           /\ a.m_endian \in {"big", "small"}
           /\ Len(a.mem) = Nodes(a) * m_baseSize /\ Nodes(a) \in Nat
           /\ a.m_position <= a.m_size /\ a.m_size <= Len(a.mem)
           /\ a.m_cur = a.m_position \div m_baseSize
<1>1. Nodes(a) \in Nat
  <2>1. Len(a.mem) \in Nat
    BY DEF Sound, Arrays
  <2> QED
    BY <2>1, BaConstants, DivMod DEF Nodes, Capacity
<1> QED
  BY <1>1 DEF Sound, Arrays, ByteValue

\* The cursor is at the position.
LEMMA CursorAt ==
    ASSUME NEW a, Sound(a)
    PROVE  Cursor(a) = a.m_position
<1> DEFINE p == a.m_position
<1>1. p \in Nat /\ a.m_cur = p \div m_baseSize
  BY SoundTypes
<1> HIDE DEF p
<1>2. p = (p \div m_baseSize) * m_baseSize + (p % m_baseSize)
  BY <1>1, BaConstants, DivMod
<1> QED
  BY <1>1, <1>2 DEF Cursor, p

\* A memory of whole nodes, seen from its length.
LEMMA WholeNodes ==
    ASSUME NEW n \in Nat, NEW a, Len(a.mem) = n * m_baseSize
    PROVE  Nodes(a) = n /\ Len(a.mem) = Nodes(a) * m_baseSize
<1>1. (n * m_baseSize + 0) \div m_baseSize = n
  BY BaConstants, DivUnique
<1>2. n * m_baseSize \in Nat
  BY BaConstants
<1> QED
  BY <1>1, <1>2 DEF Nodes, Capacity

\* Rounding up leaves no byte without a node.
LEMMA RoundUp ==
    ASSUME NEW n \in Nat
    PROVE  /\ (n + m_baseSize - 1) \div m_baseSize \in Nat
           /\ ((n + m_baseSize - 1) \div m_baseSize) * m_baseSize \in Nat
           /\ ((n + m_baseSize - 1) \div m_baseSize) * m_baseSize >= n
<1> DEFINE p == n + m_baseSize - 1
           q == p \div m_baseSize
<1>1. p \in Nat
  BY BaConstants
<1>2. /\ q \in Nat /\ p % m_baseSize \in 0..(m_baseSize - 1)
      /\ p = q * m_baseSize + (p % m_baseSize)
  BY <1>1, BaConstants, DivMod
<1>3. q * m_baseSize \in Nat
  BY <1>2, BaConstants
<1> HIDE DEF q
<1> QED
  BY <1>2, <1>3, BaConstants DEF q

\* addCapacity() adds whole nodes behind the old ones until the bytes fit, and
\* the cursor stays where it was.
LEMMA AddCapacityFacts ==
    ASSUME NEW a, Sound(a), NEW n \in Nat, NEW b, b = addCapacity(a, n)
    PROVE  /\ Sound(b) /\ b.m_position = a.m_position /\ b.m_size = a.m_size
           /\ b.m_endian = a.m_endian /\ b.m_position + n <= Len(b.mem)
           /\ Len(a.mem) <= Len(b.mem)
           /\ \A i \in 1..Len(a.mem) : b.mem[i] = a.mem[i]
<1> DEFINE remain == Len(a.mem) - a.m_position
           count  == (n - remain + m_baseSize - 1) \div m_baseSize
           more   == [i \in 1..(count * m_baseSize) |-> 0]
<1>0. /\ a.mem \in Seq(ByteValue) /\ Len(a.mem) \in Nat /\ a.m_position \in Nat
      /\ a.m_size \in Nat
      /\ a.m_position <= a.m_size /\ a.m_size <= Len(a.mem) /\ remain \in Nat
      /\ a.m_cur \in Nat
      /\ Nodes(a) \in Nat /\ Len(a.mem) = Nodes(a) * m_baseSize
      /\ a.m_cur = a.m_position \div m_baseSize
  BY SoundTypes
<1>1. CASE n = 0 \/ remain >= n
  <2>1. b = a
    BY <1>1 DEF addCapacity, getRemainCapacity, Capacity
  <2> QED
    BY <1>0, <1>1, <2>1
<1>2. CASE ~(n = 0 \/ remain >= n)
  <2>1. n - remain \in Nat
    BY <1>0, <1>2
  <2>2. count \in Nat /\ count * m_baseSize \in Nat /\ count * m_baseSize >= n - remain
    BY <2>1, RoundUp
  <2>3. b = [a EXCEPT !.mem = a.mem \o more, !.m_cur = IF remain = 0 THEN Nodes(a)
                                                       ELSE a.m_cur]
    BY <1>2 DEF addCapacity, getRemainCapacity, Capacity
  <2>4. more \in Seq(ByteValue) /\ Len(more) = count * m_baseSize
    BY <2>2, BaConstants DEF ByteValue
  <2> HIDE DEF more, count
  <2>5. /\ a.mem \o more \in Seq(ByteValue)
        /\ Len(a.mem \o more) = Len(a.mem) + count * m_baseSize
    <3>1. a.mem \o more \in Seq(ByteValue) /\ Len(a.mem \o more) = Len(a.mem) + Len(more)
      BY <1>0, <2>4, ConcatProperties
    <3> QED
      BY <2>4, <3>1
  <2>6. \A i \in 1..Len(a.mem) : (a.mem \o more)[i] = a.mem[i]
    BY <1>0, <2>4
  <2>7. (IF remain = 0 THEN Nodes(a) ELSE a.m_cur) = a.m_cur
    <3>1. ASSUME remain = 0 PROVE Nodes(a) = a.m_cur
      BY <1>0, <3>1 DEF Nodes, Capacity
    <3> QED
      BY <3>1
  <2>8. /\ b \in Arrays /\ b.mem = a.mem \o more /\ b.m_cur = a.m_cur
        /\ b.m_position = a.m_position
        /\ b.m_size = a.m_size /\ b.m_endian = a.m_endian /\ b.fate = a.fate
    <3> DEFINE m == a.mem \o more
    <3>1. b = [a EXCEPT !.mem = m, !.m_cur = a.m_cur]
      BY <2>3, <2>7
    <3>2. a \in Arrays /\ m \in Seq(ByteValue)
      BY <2>5 DEF Sound
    <3> HIDE DEF m
    <3>3. /\ b.mem = m /\ b.m_cur = a.m_cur /\ b.m_position = a.m_position
          /\ b.m_size = a.m_size /\ b.m_endian = a.m_endian /\ b.fate = a.fate
      BY <3>1, <3>2 DEF Arrays
    <3>4. b \in Arrays
      BY <3>1, <3>2 DEF Arrays, ByteValue
    <3> QED
      BY <3>3, <3>4 DEF m
  <2>9. Len(b.mem) = (Nodes(a) + count) * m_baseSize
    <3> DEFINE k == Nodes(a)
    <3>1. k \in Nat /\ count \in Nat /\ m_baseSize \in Nat
      BY <1>0, <2>2, BaConstants
    <3>2. Len(b.mem) = k * m_baseSize + count * m_baseSize
      BY <1>0, <2>5, <2>8
    <3> HIDE DEF k
    <3>3. (k + count) * m_baseSize = k * m_baseSize + count * m_baseSize
      BY <3>1, SumProduct
    <3> QED
      BY <3>2, <3>3 DEF k
  <2>10. Nodes(a) + count \in Nat
    <3> DEFINE k == Nodes(a)
    <3>1. k \in Nat /\ count \in Nat
      BY <1>0, <2>2, Zenon
    <3> HIDE DEF k
    <3>2. k + count \in Nat
      BY <3>1
    <3> QED
      BY <3>2 DEF k
  <2>11. Len(b.mem) = Nodes(b) * m_baseSize
    <3> DEFINE k == Nodes(a) + count
    <3>1. k \in Nat /\ Len(b.mem) = k * m_baseSize
      BY <2>9, <2>10
    <3> HIDE DEF k
    <3> QED
      BY <3>1, WholeNodes
  <2>12. /\ a.m_position + n <= Len(b.mem) /\ Len(a.mem) <= Len(b.mem)
         /\ b.m_size <= Len(b.mem)
    <3> DEFINE added == count * m_baseSize
    <3>1. added \in Nat /\ added >= n - (Len(a.mem) - a.m_position)
      BY <2>2
    <3>2. Len(b.mem) = Len(a.mem) + added /\ b.m_size = a.m_size
      BY <2>5, <2>8
    <3>3. /\ Len(a.mem) \in Nat /\ a.m_position \in Nat /\ a.m_size \in Nat
          /\ a.m_size <= Len(a.mem)
      BY <1>0
    <3> HIDE DEF added, remain
    <3> QED
      BY <3>1, <3>2, <3>3
  <2> QED
    BY <1>0, <2>6, <2>8, <2>11, <2>12 DEF Sound
<1> QED
  BY <1>1, <1>2

\* An array of the same nodes that is at another place.
LEMMA SoundAt ==
    ASSUME NEW a, Sound(a), NEW b \in Arrays, Len(b.mem) = Len(a.mem), b.fate = "ok",
           b.m_cur = b.m_position \div m_baseSize,
           b.m_position <= b.m_size, b.m_size <= Len(b.mem)
    PROVE  Sound(b)
  BY SoundTypes, WholeNodes DEF Sound

\* The memory with bytes at the position has what was before it.
LEMMA FilledFacts ==
    ASSUME NEW b, Sound(b), NEW bytes \in Seq(ByteValue),
           b.m_position + Len(bytes) <= Len(b.mem),
           NEW mem, mem = Filled(b, bytes)
    PROVE  /\ mem \in Seq(ByteValue) /\ Len(mem) = Len(b.mem)
           /\ \A i \in 1..b.m_position : mem[i] = b.mem[i]
           /\ \A i \in 1..Len(bytes) : mem[b.m_position + i] = bytes[i]
<1> DEFINE at  == b.m_position
           n   == Len(bytes)
           end == at + n
<1>1. /\ b.mem \in Seq(ByteValue) /\ Len(b.mem) \in Nat /\ at \in Nat /\ n \in Nat
      /\ end \in Nat
      /\ end <= Len(b.mem)
  BY SoundTypes
<1>2. mem = [i \in 1..Len(b.mem) |-> IF i \in (at + 1)..end THEN bytes[i - at] ELSE b.mem[i]]
  BY CursorAt DEF Filled
<1>3. mem \in Seq(ByteValue) /\ Len(mem) = Len(b.mem)
  <2>1. ASSUME NEW i \in 1..Len(b.mem)
        PROVE  (IF i \in (at + 1)..end THEN bytes[i - at] ELSE b.mem[i]) \in ByteValue
    <3>1. CASE i \in (at + 1)..end
      <4>1. i - at \in 1..Len(bytes)
        BY <1>1, <3>1
      <4> QED
        BY <3>1, <4>1
    <3>2. CASE i \notin (at + 1)..end
      BY <1>1, <3>2
    <3> QED
      BY <3>1, <3>2
  <2> QED
    BY <1>1, <1>2, <2>1
<1>4. ASSUME NEW i \in 1..at PROVE mem[i] = b.mem[i]
  <2>1. i \in 1..Len(b.mem) /\ i \notin (at + 1)..end
    BY <1>1
  <2> HIDE DEF at, end
  <2> QED
    BY <1>2, <2>1
<1>5. ASSUME NEW i \in 1..n PROVE mem[at + i] = bytes[i]
  <2>1. at + i \in 1..Len(b.mem) /\ at + i \in (at + 1)..end /\ (at + i) - at = i
    BY <1>1
  <2> HIDE DEF at, end
  <2> QED
    BY <1>2, <2>1
<1> QED
  BY <1>3, <1>4, <1>5

\* getWriteBuf() makes room at the position, which the caller fills.
LEMMA BufferFacts ==
    ASSUME NEW a, Sound(a), NEW bytes \in Seq(ByteValue), NEW r, r = getWriteBuf(a, bytes)
    PROVE  /\ Sound(r) /\ r.m_position = a.m_position /\ r.m_size = a.m_size
           /\ r.m_endian = a.m_endian /\ a.m_position + Len(bytes) <= Len(r.mem)
           /\ \A i \in 1..a.m_position : r.mem[i] = a.mem[i]
           /\ \A i \in 1..Len(bytes) : r.mem[a.m_position + i] = bytes[i]
<1> DEFINE n   == Len(bytes)
           b   == addCapacity(a, n)
           at  == a.m_position
           mem == Filled(b, bytes)
<1>0. /\ at \in Nat /\ a.m_size \in Nat /\ at <= a.m_size /\ a.m_size <= Len(a.mem)
      /\ Len(a.mem) \in Nat
  BY SoundTypes
<1>1. n \in Nat /\ b = addCapacity(a, n)
  OBVIOUS
<1>2. /\ Sound(b) /\ b.m_position = at /\ b.m_size = a.m_size
      /\ b.m_endian = a.m_endian /\ at + n <= Len(b.mem)
      /\ \A i \in 1..Len(a.mem) : b.mem[i] = a.mem[i]
  <2> HIDE DEF b, n
  <2> QED
    BY <1>1, AddCapacityFacts
<1>3. r = [b EXCEPT !.mem = mem]
  BY DEF getWriteBuf
<1> HIDE DEF b
<1>4. /\ mem \in Seq(ByteValue) /\ Len(mem) = Len(b.mem)
      /\ \A i \in 1..at : mem[i] = b.mem[i]
      /\ \A i \in 1..n : mem[at + i] = bytes[i]
  <2>1. b.m_position + Len(bytes) <= Len(b.mem) /\ mem = Filled(b, bytes)
    BY <1>2
  <2> HIDE DEF mem
  <2> QED
    BY <1>2, <2>1, FilledFacts
<1>5. \A i \in 1..at : b.mem[i] = a.mem[i]
  BY <1>0, <1>2
<1> HIDE DEF mem
<1>6. b \in Arrays /\ b.fate = "ok"
  BY <1>2, SoundTypes
<1>7. /\ r \in Arrays /\ r.mem = mem /\ r.m_position = b.m_position /\ r.m_cur = b.m_cur
      /\ r.m_size = b.m_size /\ r.m_endian = b.m_endian /\ r.fate = "ok"
  BY <1>3, <1>4, <1>6 DEF Arrays, ByteValue
<1>8. Sound(r)
  <2>1. /\ b.m_cur = b.m_position \div m_baseSize /\ b.m_position <= b.m_size
        /\ b.m_size <= Len(b.mem)
    BY <1>2, SoundTypes
  <2> QED
    BY <1>2, <1>4, <1>7, <2>1, SoundAt
<1> QED
  BY <1>2, <1>4, <1>5, <1>7, <1>8

\* setPosition() to a place in the memory goes there, or follows a null pointer.
LEMMA PositionFacts ==
    ASSUME NEW a, Sound(a), NEW val \in Nat, val <= Len(a.mem), NEW r, r = setPosition(a,
           val)
    PROVE  /\ r \in Arrays /\ r.mem = a.mem /\ r.m_endian = a.m_endian /\ r.fate # "thrown"
           /\ r.fate = "ok" =>
                 /\ Sound(r) /\ r.m_position = val
                 /\ r.m_size = IF a.m_size >= val THEN a.m_size ELSE val
<1> DEFINE size == IF a.m_size >= val THEN a.m_size ELSE val
           cur  == val \div m_baseSize
           fate == IF val = Capacity(a) THEN "crashed" ELSE "ok"
<1>1. /\ a \in Arrays /\ a.fate = "ok" /\ a.m_size \in Nat /\ a.m_size <= Len(a.mem)
      /\ Len(a.mem) \in Nat
  BY SoundTypes
<1>2. cur \in Nat /\ size \in Nat /\ val <= size /\ size <= Len(a.mem)
      /\ fate \in {"ok", "crashed"}
  <2>1. cur \in Nat
    BY BaConstants, DivMod
  <2> HIDE DEF cur
  <2> QED
    BY <1>1, <2>1
<1>3. Max({a.m_size, val}) = size
  BY <1>1, MaxTwo
<1>4. r = [a EXCEPT !.m_position = val, !.m_size = size, !.m_cur = cur, !.fate = fate]
  <2>1. ~(val > Capacity(a))
    BY <1>1 DEF Capacity
  <2> QED
    BY <1>1, <1>3, <2>1 DEF setPosition
<1> HIDE DEF size, cur, fate
<1>5. /\ r \in Arrays /\ r.mem = a.mem /\ r.m_position = val /\ r.m_cur = cur
      /\ r.m_size = size /\ r.m_endian = a.m_endian /\ r.fate = fate
  BY <1>1, <1>2, <1>4 DEF Arrays
<1>6. ASSUME fate = "ok" PROVE Sound(r)
  BY <1>1, <1>2, <1>5, <1>6, SoundAt DEF cur
<1> QED
  BY <1>2, <1>5, <1>6 DEF size

\* write() puts the bytes behind the position and leaves what is before it.
LEMMA WriteFacts ==
    ASSUME NEW a, Sound(a), NEW bytes \in Seq(ByteValue), NEW r, r = write(a, bytes)
    PROVE  /\ Sound(r) /\ r.m_position = a.m_position + Len(bytes) /\ r.m_endian = a.m_endian
           /\ r.m_size = IF a.m_size >= a.m_position + Len(bytes) THEN a.m_size
                         ELSE a.m_position + Len(bytes)
           /\ \A i \in 1..a.m_position : r.mem[i] = a.mem[i]
           /\ \A i \in 1..Len(bytes) : r.mem[a.m_position + i] = bytes[i]
<1> DEFINE n  == Len(bytes)
           at == a.m_position
<1>0. at \in Nat /\ a.m_size \in Nat /\ at <= a.m_size /\ n \in Nat
      /\ a.m_size <= Len(a.mem) /\ Len(a.mem) \in Nat
  BY SoundTypes
<1>1. CASE bytes = <<>>
  <2>1. r = a /\ n = 0
    BY <1>1 DEF write
  <2> QED
    BY <1>0, <1>1, <2>1
<1>2. CASE bytes # <<>>
  <2> DEFINE g    == getWriteBuf(a, bytes)
             end  == at + n
             cur  == end \div m_baseSize
             size == IF a.m_size >= end THEN a.m_size ELSE end
             b    == addCapacity(a, n)
             mem  == Filled(b, bytes)
  <2>1. /\ Sound(g) /\ g.m_position = at /\ g.m_size = a.m_size
        /\ g.m_endian = a.m_endian /\ end <= Len(g.mem)
        /\ \A i \in 1..at : g.mem[i] = a.mem[i]
        /\ \A i \in 1..n : g.mem[at + i] = bytes[i]
    <3>1. g = getWriteBuf(a, bytes)
      OBVIOUS
    <3> HIDE DEF g
    <3> QED
      BY <3>1, BufferFacts
  <2>2. /\ cur \in Nat /\ size \in Nat /\ end \in Nat /\ end <= size
        /\ Max({a.m_size, end}) = size
    <3>1. end \in Nat
      BY <1>0
    <3> HIDE DEF end
    <3>2. cur \in Nat
      BY <3>1, BaConstants, DivMod
    <3> HIDE DEF cur
    <3>3. size \in Nat /\ end <= size
      BY <1>0, <3>1
    <3>4. Max({a.m_size, end}) = size
      BY <1>0, <3>1, MaxTwo
    <3> QED
      BY <3>1, <3>2, <3>3, <3>4
  <2>3. g = [b EXCEPT !.mem = mem] /\ Sound(b) /\ b.m_position = at /\ b.m_size = a.m_size
    <3>1. n \in Nat /\ b = addCapacity(a, n) /\ g = [b EXCEPT !.mem = mem]
      BY <1>0 DEF getWriteBuf
    <3> HIDE DEF b, n, g, mem
    <3> QED
      BY <3>1, AddCapacityFacts
  <2>4. Cursor(b) = at
    <3> HIDE DEF b
    <3> QED
      BY <2>3, CursorAt
  <2>5. r = [b EXCEPT !.mem = mem, !.m_position = end, !.m_cur = cur, !.m_size = size]
    <3>1. r = [b EXCEPT !.mem = mem, !.m_position = b.m_position + n,
                        !.m_cur = NodeBehind(Cursor(b) + n),
                        !.m_size = Max({b.m_size, b.m_position + n})]
      BY <1>2 DEF write
    <3> HIDE DEF b, mem, n
    <3> QED
      BY <2>2, <2>3, <2>4, <3>1 DEF NodeBehind
  <2> HIDE DEF b, mem, end, cur, size, g
  <2>6. r = [g EXCEPT !.m_position = end, !.m_cur = cur, !.m_size = size]
    <3>1. b \in Arrays
      BY <2>3, SoundTypes
    <3> QED
      BY <2>3, <2>5, <3>1 DEF Arrays
  <2>7. g \in Arrays /\ g.fate = "ok"
    BY <2>1, SoundTypes
  <2>8. /\ r \in Arrays /\ r.mem = g.mem /\ r.m_position = end /\ r.m_cur = cur
        /\ r.m_size = size /\ r.m_endian = g.m_endian /\ r.fate = g.fate
    BY <2>2, <2>6, <2>7 DEF Arrays
  <2>9. size <= Len(g.mem)
    <3>1. g.m_size <= Len(g.mem)
      BY <2>1, SoundTypes
    <3> QED
      BY <2>1, <3>1 DEF size
  <2>10. Sound(r)
    BY <2>1, <2>2, <2>7, <2>8, <2>9, SoundAt DEF cur
  <2> QED
    BY <2>1, <2>8, <2>10 DEF size, end
<1> QED
  BY <1>1, <1>2

\* What an array is after n bytes were read: a null pointer was followed, or the
\* position is behind the bytes.
Moved(a, b, n) ==
    /\ b \in Arrays /\ b.mem = a.mem /\ b.m_size = a.m_size /\ b.m_endian = a.m_endian
    /\ b.fate = "crashed" \/ (Sound(b) /\ b.m_position = a.m_position + n)

\* read() returns the bytes at the position.
LEMMA ReadFacts ==
    ASSUME NEW a, Sound(a), NEW n \in Nat, a.m_position + n <= a.m_size, NEW r,
           r = read(a, n)
    PROVE  /\ r.bytes \in Seq(ByteValue) /\ Len(r.bytes) = n
           /\ \A i \in 1..n : r.bytes[i] = a.mem[a.m_position + i]
           /\ Moved(a, r.a, n) /\ (n > 0 => r.a.fate = "ok")
<1> DEFINE p == a.m_position
<1>0. /\ a \in Arrays /\ a.fate = "ok" /\ a.mem \in Seq(ByteValue) /\ Len(a.mem) \in Nat
      /\ p \in Nat /\ a.m_size \in Nat /\ a.m_size <= Len(a.mem) /\ p + n <= a.m_size
      /\ a.m_cur \in Nat /\ Nodes(a) \in Nat
  BY SoundTypes
<1>1. ~(n > getReadSize(a)) /\ Cursor(a) = p
  BY <1>0, CursorAt DEF getReadSize
<1>2. CASE a.m_cur = Nodes(a)
  <2>1. n = 0
    <3>1. /\ Len(a.mem) = Nodes(a) * m_baseSize /\ a.m_cur = p \div m_baseSize
      BY SoundTypes
    <3> HIDE DEF p
    <3>2. /\ p = (p \div m_baseSize) * m_baseSize + (p % m_baseSize)
          /\ p % m_baseSize \in 0..(m_baseSize - 1)
      BY <1>0, BaConstants, DivMod
    <3>3. p >= Len(a.mem)
      BY <1>0, <1>2, <3>1, <3>2, BaConstants
    <3> QED
      BY <1>0, <3>3
  <2>2. r = [a |-> [a EXCEPT !.fate = "crashed"], bytes |-> <<>>]
    BY <1>0, <1>1, <1>2 DEF read
  <2>3. r.bytes = <<>> /\ r.a = [a EXCEPT !.fate = "crashed"]
    BY <2>2
  <2>4. /\ r.a \in Arrays /\ r.a.mem = a.mem /\ r.a.m_size = a.m_size
        /\ r.a.m_endian = a.m_endian /\ r.a.fate = "crashed"
    BY <1>0, <2>3 DEF Arrays
  <2>5. r.bytes \in Seq(ByteValue) /\ Len(r.bytes) = 0
    BY <2>3
  <2>6. Moved(a, r.a, n)
    BY <2>4 DEF Moved
  <2> QED
    BY <2>1, <2>5, <2>6
<1>3. CASE a.m_cur # Nodes(a)
  <2> DEFINE cur == IF n = 0 THEN a.m_cur ELSE NodeBehind(p + n)
             b   == [a EXCEPT !.m_position = p + n, !.m_cur = cur]
             s   == SubSeq(a.mem, p + 1, p + n)
  <2>1. r = [a |-> b, bytes |-> s]
    BY <1>0, <1>1, <1>3 DEF read
  <2>2. r.a = b /\ r.bytes = SubSeq(a.mem, p + 1, p + n)
    <3> HIDE DEF b, s
    <3>1. r.a = b /\ r.bytes = s
      BY <2>1
    <3> QED
      BY <3>1 DEF s
  <2>3. /\ r.bytes \in Seq(ByteValue) /\ Len(r.bytes) = n
        /\ \A i \in 1..n : r.bytes[i] = a.mem[p + i]
    <3> HIDE DEF p, b
    <3> QED
      BY <1>0, <2>2
  <2>4. cur = (p + n) \div m_baseSize /\ cur \in Nat
    <3>1. a.m_cur = p \div m_baseSize
      BY SoundTypes
    <3>2. p + n \in Nat
      BY <1>0
    <3>3. (p + n) \div m_baseSize \in Nat
      BY <3>2, BaConstants, DivMod
    <3>4. CASE n = 0
      BY <1>0, <3>1, <3>3, <3>4
    <3>5. CASE n # 0
      BY <3>3, <3>5 DEF NodeBehind
    <3> QED
      BY <3>4, <3>5
  <2> HIDE DEF cur
  <2>5. /\ b \in Arrays /\ b.mem = a.mem /\ b.m_size = a.m_size /\ b.m_endian = a.m_endian
        /\ b.fate = "ok" /\ b.m_position = p + n /\ b.m_cur = cur
    <3> DEFINE q == p + n
    <3>1. q \in Nat /\ b = [a EXCEPT !.m_position = q, !.m_cur = cur]
      BY <1>0
    <3>2. a \in Arrays /\ a.fate = "ok" /\ cur \in Nat
      BY <1>0, <2>4
    <3> HIDE DEF b, q, p
    <3>3. /\ b \in Arrays /\ b.mem = a.mem /\ b.m_size = a.m_size /\ b.m_endian = a.m_endian
          /\ b.fate = "ok" /\ b.m_position = q /\ b.m_cur = cur
      BY <3>1, <3>2 DEF Arrays
    <3> QED
      BY <3>3 DEF q
  <2> HIDE DEF b
  <2>6. Sound(b)
    BY <1>0, <2>4, <2>5, SoundAt
  <2> QED
    BY <2>2, <2>3, <2>5, <2>6 DEF Moved
<1> QED
  BY <1>2, <1>3

-----------------------------------------------------------------------------
(* The encodings *)

\* The groups of a word: it has at most three.
LEMMA Groups ==
    ASSUME NEW v \in 0..(BaWord - 1)
    PROVE  /\ v % Group \in 0..(Group - 1) /\ v \div Group \in 0..(BaWord - 1)
           /\ (v \div Group) % Group \in 0..(Group - 1)
           /\ (v \div Group) \div Group \in 0..(Group - 1)
           /\ v = Group * (v \div Group) + (v % Group)
           /\ v \div Group = Group * ((v \div Group) \div Group) + ((v \div Group) % Group)
<1> DEFINE q == v \div Group
<1>1. Group \in Nat \ {0} /\ Group >= 4 /\ BaWord = Group * (4 * Group) /\ BaWord \in Nat
  <2>1. (2 * Group) * (2 * Group) = Group * (4 * Group)
    BY BaConstants
  <2> QED
    BY <2>1, BaConstants
<1>2. q \in 0..(4 * Group - 1)
  <2> DEFINE c == 4 * Group
  <2>1. c \in Nat \ {0} /\ v \in 0..(Group * c - 1)
    BY <1>1
  <2> HIDE DEF c
  <2>2. q \in 0..(c - 1)
    BY <1>1, <2>1, DivBelow
  <2> QED
    BY <2>2 DEF c
<1>3. 4 * Group <= Group * Group /\ Group * Group \in Nat /\ 4 * Group <= BaWord
  <2>1. 4 * Group <= Group * Group
    BY <1>1, Products
  <2>2. 1 * (4 * Group) <= Group * (4 * Group)
    <3> DEFINE z == 4 * Group
    <3>1. z \in Nat
      BY <1>1
    <3> HIDE DEF z
    <3>2. 1 * z <= Group * z
      BY <1>1, <3>1, Products
    <3> QED
      BY <3>2 DEF z
  <2> QED
    BY <1>1, <2>1, <2>2
<1>4. q \in 0..(Group * Group - 1) /\ q \in 0..(BaWord - 1) /\ q \in Nat
  BY <1>1, <1>2, <1>3
<1>5. v \in Nat
  BY <1>1
<1>6. v % Group \in 0..(Group - 1) /\ v = Group * q + (v % Group)
  BY <1>1, <1>5, DivMod
<1> HIDE DEF q
<1>7. q \div Group \in 0..(Group - 1)
  BY <1>1, <1>4, DivBelow
<1>8. q % Group \in 0..(Group - 1) /\ q = Group * (q \div Group) + (q % Group)
  BY <1>1, <1>4, DivMod
<1> QED
  BY <1>4, <1>6, <1>7, <1>8 DEF q

\* A sequence that has the elements of two sequences is their concatenation.
LEMMA JoinedIs ==
    ASSUME NEW S, NEW s \in Seq(S), NEW t \in Seq(S), NEW st \in Seq(S),
           Len(st) = Len(s) + Len(t),
           \A i \in 1..Len(s) : st[i] = s[i],
           \A i \in 1..Len(t) : st[Len(s) + i] = t[i]
    PROVE  s \o t = st
<1>1. /\ s \o t \in Seq(S) /\ Len(s \o t) = Len(s) + Len(t)
      /\ \A i \in 1..(Len(s) + Len(t)) :
            (s \o t)[i] = IF i <= Len(s) THEN s[i] ELSE t[i - Len(s)]
  BY ConcatProperties
<1>2. ASSUME NEW i \in 1..Len(st) PROVE st[i] = (s \o t)[i]
  <2>1. CASE i <= Len(s)
    BY <1>1, <2>1
  <2>2. CASE i > Len(s)
    <3>1. i - Len(s) \in 1..Len(t) /\ i = Len(s) + (i - Len(s))
      BY <2>2
    <3> QED
      BY <1>1, <2>2, <3>1
  <2> QED
    BY <2>1, <2>2
<1> QED
  BY <1>1, <1>2, SeqEqual

\* A first element before one or two.
LEMMA TupleJoined ==
    ASSUME NEW x, NEW y, NEW z
    PROVE  <<x>> \o <<y>> = <<x, y>> /\ <<x>> \o <<y, z>> = <<x, y, z>>
<1> DEFINE S == {x, y, z}
           s == <<x>>
           t == <<y>>
           u == <<y, z>>
           st == <<x, y>>
           su == <<x, y, z>>
<1>1. /\ s \in Seq(S) /\ Len(s) = 1 /\ s[1] = x
      /\ t \in Seq(S) /\ Len(t) = 1 /\ t[1] = y
      /\ u \in Seq(S) /\ Len(u) = 2 /\ u[1] = y /\ u[2] = z
      /\ st \in Seq(S) /\ Len(st) = 2 /\ st[1] = x /\ st[2] = y
      /\ su \in Seq(S) /\ Len(su) = 3 /\ su[1] = x /\ su[2] = y /\ su[3] = z
  OBVIOUS
<1> HIDE DEF S, s, t, u, st, su
<1>2. /\ Len(st) = Len(s) + Len(t) /\ Len(su) = Len(s) + Len(u)
      /\ Len(s) + 1 = 2 /\ Len(s) + 2 = 3
      /\ \A i \in 1..Len(s) : i = 1
      /\ \A i \in 1..Len(t) : i = 1
      /\ \A i \in 1..Len(u) : i = 1 \/ i = 2
  BY <1>1
<1>3. s \o t = st
  <2>1. \A i \in 1..Len(s) : st[i] = s[i]
    BY <1>1, <1>2
  <2>2. \A i \in 1..Len(t) : st[Len(s) + i] = t[i]
    BY <1>1, <1>2
  <2> QED
    BY <1>1, <1>2, <2>1, <2>2, JoinedIs
<1>4. s \o u = su
  <2>1. \A i \in 1..Len(s) : su[i] = s[i]
    BY <1>1, <1>2
  <2>2. \A i \in 1..Len(u) : su[Len(s) + i] = u[i]
    BY <1>1, <1>2
  <2> QED
    BY <1>1, <1>2, <2>1, <2>2, JoinedIs
<1> QED
  BY <1>3, <1>4 DEF s, t, u, st, su

\* The bytes of a varint, written out.
Bytes1(v) == <<v>>
Bytes2(v) == <<(v % Group) + Group, v \div Group>>
Bytes3(v) == <<(v % Group) + Group, ((v \div Group) % Group) + Group, (v \div Group) \div Group>>
BytesOf(v) == IF v < Group THEN Bytes1(v)
              ELSE IF v \div Group < Group THEN Bytes2(v) ELSE Bytes3(v)

\* A varint marks its bytes but the last.
LEMMA VarintBytes ==
    ASSUME NEW v \in 0..(BaWord - 1)
    PROVE  varint[v] = BytesOf(v) /\ varint[v] \in Seq(ByteValue)
<1> DEFINE f == [w \in 0..(BaWord - 1) |-> BytesOf(w)]
<1>1. f = [w \in 0..(BaWord - 1) |->
             IF w < Group THEN <<w>> ELSE <<(w % Group) + Group>> \o f[w \div Group]]
  <2>1. ASSUME NEW w \in 0..(BaWord - 1)
        PROVE  BytesOf(w) = IF w < Group THEN <<w>>
                            ELSE <<(w % Group) + Group>> \o f[w \div Group]
    <3> DEFINE q == w \div Group
    <3>1. q \in 0..(BaWord - 1) /\ q \div Group \in 0..(Group - 1)
      BY Groups
    <3>2. f[q] = BytesOf(q)
      BY <3>1
    <3>3. CASE w < Group
      BY <3>3 DEF BytesOf, Bytes1
    <3>4. CASE w >= Group /\ q < Group
      <4>1. f[q] = <<q>>
        BY <3>2, <3>4 DEF BytesOf, Bytes1
      <4>2. BytesOf(w) = <<(w % Group) + Group, q>>
        BY <3>4, BaConstants DEF BytesOf, Bytes2
      <4> HIDE DEF q, f
      <4>3. ~(w < Group)
        BY <3>4, BaConstants
      <4> QED
        BY <4>1, <4>2, <4>3, TupleJoined DEF q
    <3>5. CASE w >= Group /\ q >= Group
      <4>1. f[q] = <<(q % Group) + Group, q \div Group>>
        <5> HIDE DEF f
        <5> QED
          BY <3>1, <3>2, <3>5, BaConstants DEF BytesOf, Bytes2
      <4>2. BytesOf(w) = <<(w % Group) + Group, (q % Group) + Group, q \div Group>>
        BY <3>1, <3>5, BaConstants DEF BytesOf, Bytes3
      <4> HIDE DEF q, f
      <4>3. ~(w < Group)
        BY <3>5, BaConstants
      <4> QED
        BY <4>1, <4>2, <4>3, TupleJoined DEF q
    <3> QED
      BY <3>1, <3>3, <3>4, <3>5, BaConstants
  <2> HIDE DEF f
  <2>2. f = [w \in 0..(BaWord - 1) |-> BytesOf(w)]
    BY DEF f
  <2> QED
    BY <2>1, <2>2
<1> HIDE DEF f
<1>2. varint = [w \in 0..(BaWord - 1) |->
                  IF w < Group THEN <<w>>
                  ELSE <<(w % Group) + Group>> \o varint[w \div Group]]
  BY <1>1 DEF varint
<1>3. ASSUME NEW w \in 0..(BaWord - 1)
      PROVE  varint[w] = IF w < Group THEN <<w>>
                         ELSE <<(w % Group) + Group>> \o varint[w \div Group]
  BY <1>2
<1> DEFINE q == v \div Group
           p == q \div Group
<1>4. /\ v % Group \in 0..(Group - 1) /\ q \in 0..(BaWord - 1)
      /\ q % Group \in 0..(Group - 1)
      /\ p \in 0..(Group - 1) /\ p \in 0..(BaWord - 1)
  <2>1. /\ v % Group \in 0..(Group - 1) /\ q \in 0..(BaWord - 1)
        /\ q % Group \in 0..(Group - 1)
        /\ p \in 0..(Group - 1)
    BY Groups
  <2> QED
    BY <2>1, Groups
<1>5. varint[p] = <<p>>
  <2> HIDE DEF p
  <2>1. p < Group
    BY <1>4, BaConstants
  <2> QED
    BY <1>3, <1>4, <2>1
<1>6. varint[q] = IF q < Group THEN <<q>> ELSE <<(q % Group) + Group>> \o varint[p]
  BY <1>3, <1>4
<1>7. varint[v] = IF v < Group THEN <<v>> ELSE <<(v % Group) + Group>> \o varint[q]
  BY <1>3
<1> HIDE DEF p
<1>8. varint[q] = IF q < Group THEN <<q>> ELSE <<(q % Group) + Group, p>>
  BY <1>5, <1>6, TupleJoined
<1> HIDE DEF q
<1>9. varint[v] = IF v < Group THEN <<v>> ELSE
                  IF q < Group THEN <<(v % Group) + Group, q>>
                  ELSE <<(v % Group) + Group, (q % Group) + Group, p>>
  <2> DEFINE x == (v % Group) + Group
             y == (q % Group) + Group
  <2>1. varint[v] = IF v < Group THEN <<v>> ELSE <<x>> \o varint[q]
    BY <1>7
  <2>2. varint[q] = IF q < Group THEN <<q>> ELSE <<y, p>>
    BY <1>8
  <2> HIDE DEF x, y
  <2>3. <<x>> \o <<q>> = <<x, q>> /\ <<x>> \o <<y, p>> = <<x, y, p>>
    BY TupleJoined
  <2>4. varint[v] = IF v < Group THEN <<v>> ELSE IF q < Group THEN <<x, q>> ELSE <<x, y, p>>
    BY <2>1, <2>2, <2>3
  <2> QED
    BY <2>4 DEF x, y
<1>10. varint[v] = BytesOf(v)
  BY <1>9 DEF BytesOf, Bytes1, Bytes2, Bytes3, p, q
<1>11. varint[v] \in Seq(ByteValue)
  <2>1. /\ (v % Group) + Group \in ByteValue /\ (q % Group) + Group \in ByteValue
        /\ p \in ByteValue
        /\ (v < Group => v \in ByteValue) /\ (q < Group => q \in ByteValue)
    BY <1>4, BaConstants DEF ByteValue
  <2> QED
    BY <1>9, <2>1
<1> QED
  BY <1>10, <1>11

\* The remainders that decoding takes.
LEMMA Remainders ==
    /\ \A r \in 0..(Group - 1) : r % Group = r /\ (r + Group) % Group = r
    /\ \A w \in 0..(BaWord - 1) : w % BaWord = w
<1>1. ASSUME NEW b \in Nat \ {0}, NEW r \in 0..(b - 1) PROVE r % b = r
  <2>1. (b * 0 + r) % b = r /\ b * 0 + r = r
    BY DivUnique
  <2> QED
    BY <2>1
<1>2. ASSUME NEW r \in 0..(Group - 1) PROVE (r + Group) % Group = r
  <2>1. (Group * 1 + r) % Group = r /\ Group * 1 + r = r + Group
    BY BaConstants, DivUnique
  <2> QED
    BY <2>1
<1> QED
  BY <1>1, <1>2, BaConstants

\* A round of readVarint() behind a marked byte takes the next byte.
LEMMA RoundTakes ==
    ASSUME NEW g, Sound(g.a), ~(g.last < Group), g.a.m_position + 1 <= g.a.m_size,
           NEW h, h = VarintRound(g)
    PROVE  /\ Moved(g.a, h.a, 1) /\ Sound(h.a) /\ h.a.m_position = g.a.m_position + 1
           /\ h.last = g.a.mem[g.a.m_position + 1] /\ h.scale = g.scale * Group
           /\ h.v = (g.v + (g.a.mem[g.a.m_position + 1] % Group) * g.scale) % BaWord
<1> DEFINE a == g.a
           r == read(a, 1)
           b == r.bytes[1]
<1>1. /\ Moved(a, r.a, 1) /\ r.a.fate = "ok" /\ b = a.mem[a.m_position + 1]
  <2> HIDE DEF a
  <2>1. Sound(a) /\ a.m_position + 1 <= a.m_size
    BY DEF a
  <2> DEFINE one == 1
  <2>2. /\ one \in Nat /\ one > 0 /\ one \in 1..one /\ a.m_position + one <= a.m_size
        /\ r = read(a, one)
    BY <2>1
  <2> HIDE DEF one, r
  <2>3. Moved(a, r.a, one) /\ r.a.fate = "ok" /\ r.bytes[one] = a.mem[a.m_position + one]
    BY <2>1, <2>2, ReadFacts
  <2> QED
    BY <2>3 DEF one
<1>2. g.a.fate = "ok"
  BY DEF Sound
<1> DEFINE w == (g.v + (b % Group) * g.scale) % BaWord
           k == g.scale * Group
           c == r.a
<1>3. h = [a |-> c, last |-> b, scale |-> k, v |-> w]
  BY <1>1, <1>2 DEF VarintRound
<1>4. Sound(c) /\ c.m_position = a.m_position + 1
  BY <1>1 DEF Moved
<1> HIDE DEF c, b, k, w
<1>5. h.a = c /\ h.last = b /\ h.scale = k /\ h.v = w
  BY <1>3
<1> QED
  BY <1>1, <1>4, <1>5 DEF k, w, c

\* Another one does nothing.
LEMMA RoundDone ==
    ASSUME NEW g, g.last < Group
    PROVE  VarintRound(g) = g
  BY DEF VarintRound

\* Moving twice.
LEMMA MovedTwice ==
    ASSUME NEW a, NEW b, NEW c, NEW m \in Nat, NEW n \in Nat, Sound(a), Sound(b),
           Moved(a, b, m), b.m_position = a.m_position + m, Moved(b, c, n)
    PROVE  Moved(a, c, m + n)
<1>1. a.m_position \in Nat
  BY SoundTypes
<1> QED
  BY <1>1 DEF Moved

\* readVarint() returns what was written.
LEMMA VarintRead ==
    ASSUME NEW a, Sound(a), NEW v \in 0..(BaWord - 1), NEW n \in Nat, n = Len(varint[v]),
           a.m_position + n <= a.m_size,
           \A i \in 1..n : a.mem[a.m_position + i] = varint[v][i],
           NEW r, r = readVarint(a)
    PROVE  Moved(a, r.a, n) /\ Sound(r.a) /\ r.a.m_position = a.m_position + n /\ r.v = v
<1> DEFINE g0 == [a |-> a, last |-> Group, scale |-> 1, v |-> 0]
           g1 == VarintRound(g0)
           g2 == VarintRound(g1)
           g3 == VarintRound(g2)
           at == a.m_position
           q  == v \div Group
           p  == q \div Group
           r0 == v % Group
           r1 == q % Group
<1>0. r = g3 /\ at \in Nat /\ a.m_size \in Nat
  BY SoundTypes DEF readVarint
<1>1. g0.a = a /\ g0.last = Group /\ g0.scale = 1 /\ g0.v = 0
  OBVIOUS
<1>2. /\ v \in Nat /\ r0 \in 0..(Group - 1) /\ q \in Nat /\ r1 \in 0..(Group - 1)
      /\ p \in 0..(Group - 1)
      /\ v = Group * q + r0 /\ q = Group * p + r1
  <2>1. BaWord \in Nat
    BY BaConstants
  <2>2. /\ r0 \in 0..(Group - 1) /\ q \in 0..(BaWord - 1) /\ r1 \in 0..(Group - 1)
        /\ p \in 0..(Group - 1) /\ v = Group * q + r0 /\ q = Group * p + r1
    BY Groups
  <2> QED
    BY <2>1, <2>2
<1>3. varint[v] = BytesOf(v)
  BY VarintBytes
<1> HIDE DEF g0
<1>4. varint[v] = IF v < Group THEN <<v>> ELSE
                  IF q < Group THEN <<r0 + Group, q>> ELSE <<r0 + Group, r1 + Group, p>>
  BY <1>3 DEF BytesOf, Bytes1, Bytes2, Bytes3
<1> HIDE DEF g1, g2, g3, q, p, r0, r1
<1>5. CASE v < Group
  <2>1. n = 1 /\ a.mem[at + 1] = v
    BY <1>4, <1>5
  <2>2. /\ Moved(a, g1.a, 1) /\ Sound(g1.a) /\ g1.a.m_position = at + 1 /\ g1.last = v
        /\ g1.v = (0 + (v % Group) * 1) % BaWord
    BY <1>1, <2>1, BaConstants, RoundTakes DEF g1
  <2>3. g1.v = v
    <3>1. v % Group = v /\ v % BaWord = v
      <4>1. v \in 0..(Group - 1)
        BY <1>2, <1>5, BaConstants
      <4> QED
        BY <4>1, Remainders
    <3> QED
      BY <1>2, <2>2, <3>1
  <2>4. g2 = g1
    BY <1>5, <2>2, RoundDone DEF g2
  <2>5. g3 = g1
    BY <1>5, <2>2, <2>4, RoundDone DEF g3
  <2> QED
    BY <1>0, <2>1, <2>2, <2>3, <2>5
<1>6. CASE v >= Group
  <2>1. n >= 2 /\ a.mem[at + 1] = r0 + Group
    BY <1>4, <1>6, BaConstants
  <2>2. /\ Moved(a, g1.a, 1) /\ Sound(g1.a) /\ g1.a.m_position = at + 1
        /\ g1.last = r0 + Group
        /\ g1.v = (0 + ((r0 + Group) % Group) * 1) % BaWord /\ g1.scale = 1 * Group
    <3>1. at + 1 <= a.m_size
      BY <1>0, <2>1
    <3> QED
      BY <1>1, <2>1, <3>1, BaConstants, RoundTakes DEF g1
  <2>3. g1.v = r0 /\ g1.scale = Group /\ ~(g1.last < Group)
    <3>1. (r0 + Group) % Group = r0 /\ r0 \in 0..(BaWord - 1) /\ r0 \in Nat
      BY <1>2, Remainders, BaConstants
    <3>2. r0 % BaWord = r0
      BY <3>1, Remainders
    <3> QED
      BY <2>2, <3>1, <3>2, BaConstants
  <2>4. /\ g1.a.mem = a.mem /\ g1.a.m_size = a.m_size
    BY <2>2 DEF Moved
  <2>5. /\ Moved(g1.a, g2.a, 1) /\ Sound(g2.a) /\ g2.a.m_position = (at + 1) + 1
        /\ g2.last = a.mem[(at + 1) + 1] /\ g2.scale = Group * Group
        /\ g2.v = (r0 + (a.mem[(at + 1) + 1] % Group) * Group) % BaWord
    <3>1. g1.a.m_position + 1 <= g1.a.m_size
      BY <1>0, <2>1, <2>2, <2>4
    <3> QED
      BY <2>2, <2>3, <2>4, <3>1, RoundTakes DEF g2
  <2>6. Moved(a, g2.a, 2)
    <3> DEFINE one == 1
    <3>1. one \in Nat /\ one + one = 2 /\ Moved(a, g1.a, one) /\ Moved(g1.a, g2.a, one)
          /\ g1.a.m_position = a.m_position + one
      BY <2>2, <2>5
    <3> HIDE DEF one
    <3> QED
      BY <2>2, <3>1, MovedTwice
  <2>7. CASE q < Group
    <3>1. n = 2 /\ a.mem[at + 2] = q
      BY <1>4, <1>6, <2>7, BaConstants
    <3>2. (at + 1) + 1 = at + 2
      BY <1>0
    <3>3. g2.last = q /\ g2.v = (r0 + (q % Group) * Group) % BaWord
      BY <2>5, <3>1, <3>2
    <3>4. g2.v = v
      <4>1. q % Group = q
        BY <1>2, <2>7, Remainders, BaConstants
      <4>2. r0 + q * Group = v
        BY <1>2, BaConstants
      <4>3. v % BaWord = v
        BY Remainders
      <4> QED
        BY <3>3, <4>1, <4>2, <4>3
    <3>5. g3 = g2
      BY <2>7, <3>3, RoundDone DEF g3
    <3> QED
      BY <1>0, <2>5, <2>6, <3>1, <3>2, <3>4, <3>5
  <2>8. CASE q >= Group
    <3>1. n = 3 /\ a.mem[at + 2] = r1 + Group /\ a.mem[at + 3] = p
      <4> DEFINE x == r0 + Group
                 y == r1 + Group
      <4>1. varint[v] = <<x, y, p>>
        BY <1>2, <1>4, <1>6, <2>8, BaConstants
      <4> HIDE DEF x, y
      <4>2. n = 3 /\ varint[v][2] = y /\ varint[v][3] = p
        BY <4>1
      <4> QED
        BY <4>2 DEF y
    <3>2. (at + 1) + 1 = at + 2 /\ ((at + 1) + 1) + 1 = at + 3
      BY <1>0
    <3>3. /\ g2.last = r1 + Group /\ ~(g2.last < Group)
          /\ g2.v = (r0 + ((r1 + Group) % Group) * Group) % BaWord
      <4> DEFINE y == r1 + Group
      <4>1. ~(y < Group)
        BY <1>2, BaConstants
      <4>2. a.mem[(at + 1) + 1] = y
        BY <3>1, <3>2
      <4> HIDE DEF y
      <4>3. g2.last = y /\ g2.v = (r0 + (y % Group) * Group) % BaWord
        BY <2>5, <4>2
      <4> QED
        BY <4>1, <4>3 DEF y
    <3>4. g2.a.mem = a.mem /\ g2.a.m_size = a.m_size /\ g2.a.m_position = at + 2
      BY <2>5, <2>6, <3>2 DEF Moved
    <3>5. /\ Moved(g2.a, g3.a, 1) /\ Sound(g3.a) /\ g3.a.m_position = at + 3
          /\ g3.v = (g2.v + (p % Group) * (Group * Group)) % BaWord
      <4>1. g2.a.m_position + 1 <= g2.a.m_size
        BY <1>0, <3>1, <3>4
      <4>2. g2.a.m_position + 1 = at + 3
        BY <1>0, <3>4
      <4> QED
        BY <2>5, <3>1, <3>3, <3>4, <4>1, <4>2, RoundTakes DEF g3
    <3>6. Moved(a, g3.a, 3)
      <4> DEFINE two == 2
                 one == 1
      <4>1. /\ two \in Nat /\ one \in Nat /\ two + one = 3 /\ Moved(a, g2.a, two)
            /\ Moved(g2.a, g3.a, one)
            /\ g2.a.m_position = a.m_position + two
        BY <2>6, <3>4, <3>5
      <4> HIDE DEF two, one
      <4> QED
        BY <2>5, <4>1, MovedTwice
    <3>7. v = r0 + r1 * Group + p * (Group * Group) /\ r0 + r1 * Group \in 0..v
      <4>1. Group * q = Group * (Group * p) + Group * r1
        BY <1>2, BaConstants
      <4>2. /\ Group * (Group * p) = p * (Group * Group) /\ Group * r1 = r1 * Group
            /\ r1 * Group \in Nat /\ p * (Group * Group) \in Nat
        BY <1>2, BaConstants
      <4> DEFINE high == p * (Group * Group)
                 mid  == r1 * Group
                 gq   == Group * q
      <4>3. gq = high + mid /\ v = gq + r0 /\ high \in Nat /\ mid \in Nat
        BY <1>2, <4>1, <4>2
      <4>4. r0 \in Nat
        BY <1>2, BaConstants
      <4> HIDE DEF high, mid, gq
      <4>5. v = r0 + mid + high /\ r0 + mid \in 0..v
        BY <4>3, <4>4
      <4> QED
        BY <4>5 DEF high, mid
    <3>8. g2.v = r0 + r1 * Group
      <4>1. (r1 + Group) % Group = r1
        BY <1>2, Remainders
      <4>2. r0 + r1 * Group \in 0..(BaWord - 1)
        BY <3>7, BaConstants
      <4>3. (r0 + r1 * Group) % BaWord = r0 + r1 * Group
        BY <4>2, Remainders
      <4> QED
        BY <3>3, <4>1, <4>3
    <3>9. g3.v = v
      <4>1. p % Group = p /\ v % BaWord = v
        BY <1>2, Remainders
      <4> QED
        BY <3>5, <3>7, <3>8, <4>1
    <3> QED
      BY <1>0, <3>1, <3>5, <3>6, <3>9
  <2> QED
    BY <1>2, <2>7, <2>8, BaConstants
<1> QED
  BY <1>2, <1>5, <1>6, BaConstants

-----------------------------------------------------------------------------
(* The items *)

\* A number of two bytes comes back in the order it was written in.
LEMMA FixedBytes ==
    ASSUME NEW v \in 0..(BaWord - 1), NEW endian \in {"big", "small"}
    PROVE  /\ Fixed(v, endian) \in Seq(ByteValue) /\ Len(Fixed(v, endian)) = 2
           /\ \A b : b[1] = Fixed(v, endian)[1] /\ b[2] = Fixed(v, endian)[2]
                        => FromFixed(b, endian) = v
<1> DEFINE lo == v % Byte
           hi == v \div Byte
<1>1. v \in Nat /\ Byte \in Nat \ {0} /\ v \in 0..(Byte * Byte - 1)
  BY BaConstants
<1>2. lo \in 0..(Byte - 1) /\ hi \in 0..(Byte - 1) /\ v = Byte * hi + lo
  BY <1>1, DivMod, DivBelow
<1> HIDE DEF lo, hi
<1>3. Fixed(v, endian) = IF endian = "small" THEN <<lo, hi>> ELSE <<hi, lo>>
  BY DEF Fixed, lo, hi
<1>4. lo \in ByteValue /\ hi \in ByteValue
  BY <1>2 DEF ByteValue
<1>5. lo + Byte * hi = v
  BY <1>1, <1>2
<1> DEFINE x == Fixed(v, endian)
<1> HIDE DEF x
<1>6. CASE endian = "small"
  <2>1. x = <<lo, hi>>
    BY <1>3, <1>6 DEF x
  <2>2. x \in Seq(ByteValue) /\ Len(x) = 2 /\ x[1] = lo /\ x[2] = hi
    BY <1>4, <2>1
  <2>3. \A b : b[1] = lo /\ b[2] = hi => FromFixed(b, endian) = v
    BY <1>5, <1>6 DEF FromFixed
  <2> QED
    BY <2>2, <2>3 DEF x
<1>7. CASE endian # "small"
  <2>1. x = <<hi, lo>>
    BY <1>3, <1>7 DEF x
  <2>2. x \in Seq(ByteValue) /\ Len(x) = 2 /\ x[1] = hi /\ x[2] = lo
    BY <1>4, <2>1
  <2>3. \A b : b[1] = hi /\ b[2] = lo => FromFixed(b, endian) = v
    BY <1>5, <1>7 DEF FromFixed
  <2> QED
    BY <2>2, <2>3 DEF x
<1> QED
  BY <1>6, <1>7

\* The zigzag code of a number in its range is a word, and decodes to it.
LEMMA Zigzag ==
    ASSUME NEW v \in (-(BaWord \div 2))..(BaWord \div 2 - 1)
    PROVE  EncodeZigzag(v) \in 0..(BaWord - 1) /\ DecodeZigzag(EncodeZigzag(v)) = v
<1>1. BaWord \in Nat \ {0} /\ BaWord \div 2 \in Nat /\ 2 * (BaWord \div 2) <= BaWord
  BY BaConstants
<1> DEFINE half == BaWord \div 2
<1> HIDE DEF half
<1>2. v \in (-half)..(half - 1) /\ half \in Nat /\ 2 * half <= BaWord
  BY <1>1 DEF half
<1>3. CASE v < 0
  <2>1. 2 * (-v) - 1 \in 0..(BaWord - 1)
    BY <1>1, <1>2, <1>3
  <2>2. (2 * (-v) - 1) % BaWord = 2 * (-v) - 1
    BY <2>1, Remainders
  <2>3. EncodeZigzag(v) = 2 * (-v) - 1
    BY <1>3, <2>2 DEF EncodeZigzag
  <2>4. (2 * (-v) - 1) % 2 = 1 /\ -(((2 * (-v) - 1) + 1) \div 2) = v
    BY <1>2, <1>3
  <2> QED
    BY <2>1, <2>3, <2>4 DEF DecodeZigzag
<1>4. CASE v >= 0
  <2>1. 2 * v \in 0..(BaWord - 1) /\ (2 * v) % 2 = 0 /\ (2 * v) \div 2 = v
    BY <1>1, <1>2, <1>4
  <2>2. EncodeZigzag(v) = 2 * v
    BY <1>2, <1>4 DEF EncodeZigzag
  <2> QED
    BY <2>1, <2>2 DEF DecodeZigzag
<1> QED
  BY <1>2, <1>3, <1>4

\* What stands in front of an item's text: the number or the text's length.
HeadOf(item, endian) ==
    CASE item.kind = "fixed"      -> Fixed(item.value, endian)
      [] item.kind = "varint"     -> varint[item.value]
      [] item.kind = "zigzag"     -> varint[EncodeZigzag(item.value)]
      [] item.kind = "stringF"    -> Fixed(Len(item.text), endian)
      [] item.kind = "stringVint" -> varint[Len(item.text)]

\* Bytes that are a head and a text behind it.
Parts(bytes, head, text) ==
    /\ head \in Seq(ByteValue) /\ text \in Seq(ByteValue) /\ bytes \in Seq(ByteValue)
    /\ Len(bytes) = Len(head) + Len(text)
    /\ \A i \in 1..Len(head) : bytes[i] = head[i]
    /\ \A i \in 1..Len(text) : bytes[Len(head) + i] = text[i]
    /\ SubSeq(bytes, 1, Len(bytes) - Len(text)) = head

\* An item's encoding is its head and its text.
LEMMA ItemParts ==
    ASSUME NEW item \in BaItems, NEW endian \in {"big", "small"},
           NEW bytes, bytes = Encoded(item, endian), NEW head, head = HeadOf(item, endian)
    PROVE  Parts(bytes, head, item.text)
<1>1. IsItem(item)
  BY BaAssumption
<1>0. item.kind \in NumberKinds \/ item.kind \in TextKinds
  BY <1>1 DEF IsItem
<1>2. head \in Seq(ByteValue)
  <2>1. CASE item.kind = "fixed"
    BY <1>1, <2>1, FixedBytes DEF IsItem, HeadOf, NumberKinds, TextKinds, ValueOf
  <2>2. CASE item.kind = "varint"
    BY <1>1, <2>2, VarintBytes DEF IsItem, HeadOf, NumberKinds, TextKinds, ValueOf
  <2>3. CASE item.kind = "zigzag"
    BY <1>1, <2>3, VarintBytes, Zigzag DEF IsItem, HeadOf, NumberKinds, TextKinds, ValueOf
  <2>4. CASE item.kind \in TextKinds
    <3>1. Len(item.text) \in 0..(BaWord - 1)
      BY <1>1, <2>4, BaConstants DEF IsItem, NumberKinds, TextKinds
    <3> QED
      BY <2>4, <3>1, FixedBytes, VarintBytes DEF HeadOf, TextKinds
  <2> QED
    BY <1>0, <2>1, <2>2, <2>3, <2>4 DEF NumberKinds
<1>3. item.text \in Seq(ByteValue)
  <2> DEFINE text == item.text
  <2>1. text = <<>> \/ text \in Seq(ByteValue)
    BY <1>1 DEF IsItem, ByteValue
  <2> HIDE DEF text
  <2>2. text \in Seq(ByteValue)
    BY <2>1, EmptySeq
  <2> QED
    BY <2>2 DEF text
<1>4. bytes = head \o item.text
  <2>1. CASE item.kind \in NumberKinds
    <3>1. bytes = head
      BY <2>1 DEF Encoded, HeadOf, NumberKinds
    <3>2. item.text = <<>>
      BY <1>1, <2>1 DEF IsItem, NumberKinds, TextKinds
    <3> QED
      BY <1>2, <3>1, <3>2, ConcatEmptySeq
  <2>2. CASE item.kind \in TextKinds
    BY <2>2 DEF Encoded, HeadOf, TextKinds
  <2> QED
    BY <1>1, <2>1, <2>2 DEF IsItem
<1> DEFINE text == item.text
<1> HIDE DEF text
<1>5. /\ bytes \in Seq(ByteValue) /\ Len(bytes) = Len(head) + Len(text)
      /\ \A i \in 1..(Len(head) + Len(text)) :
            bytes[i] = IF i <= Len(head) THEN head[i] ELSE text[i - Len(head)]
  <2>1. head \in Seq(ByteValue) /\ text \in Seq(ByteValue) /\ bytes = head \o text
    BY <1>2, <1>3, <1>4 DEF text
  <2> QED
    BY <2>1, ConcatProperties
<1>6. text \in Seq(ByteValue) /\ Len(head) \in Nat /\ Len(text) \in Nat
  BY <1>2, <1>3 DEF text
<1>7. \A i \in 1..Len(head) : bytes[i] = head[i]
  BY <1>5, <1>6
<1>8. \A i \in 1..Len(text) : bytes[Len(head) + i] = text[i]
  <2>1. ASSUME NEW i \in 1..Len(text) PROVE bytes[Len(head) + i] = text[i]
    <3>1. /\ Len(head) + i \in 1..(Len(head) + Len(text)) /\ ~(Len(head) + i <= Len(head))
          /\ (Len(head) + i) - Len(head) = i
      BY <1>6
    <3> QED
      BY <1>5, <3>1
  <2> QED
    BY <2>1
<1>9. SubSeq(bytes, 1, Len(bytes) - Len(text)) = head
  <2> DEFINE s == SubSeq(bytes, 1, Len(head))
  <2>1. s \in Seq(ByteValue) /\ Len(s) = Len(head) /\ \A i \in 1..Len(head) : s[i] = bytes[i]
    BY <1>5, <1>6
  <2>2. Len(bytes) - Len(text) = Len(head)
    BY <1>5, <1>6
  <2> HIDE DEF s
  <2>3. s = head
    BY <1>2, <1>7, <2>1, SeqEqual
  <2> QED
    BY <2>2, <2>3 DEF s
<1>10. Parts(bytes, head, text)
  BY <1>2, <1>5, <1>6, <1>7, <1>8, <1>9 DEF Parts
<1> QED
  BY <1>10 DEF text

\* Writing an item behind everything puts its encoding there.
LEMMA WriteItemFacts ==
    ASSUME NEW a, Sound(a), a.m_position = a.m_size, NEW item \in BaItems,
           NEW bytes, bytes = Encoded(item, a.m_endian), NEW r, r = writeItem(a, item)
    PROVE  /\ Sound(r) /\ r.m_position = a.m_position + Len(bytes) /\ r.m_size = r.m_position
           /\ r.m_endian = a.m_endian
           /\ \A i \in 1..a.m_position : r.mem[i] = a.mem[i]
           /\ \A i \in 1..Len(bytes) : r.mem[a.m_position + i] = bytes[i]
<1> DEFINE head == HeadOf(item, a.m_endian)
           text == item.text
           b == write(a, head)
           at == a.m_position
<1>0. at \in Nat /\ a.m_size \in Nat /\ a.m_endian \in {"big", "small"}
  BY SoundTypes
<1>1. /\ head \in Seq(ByteValue) /\ text \in Seq(ByteValue) /\ bytes \in Seq(ByteValue)
      /\ Len(bytes) = Len(head) + Len(text)
      /\ \A i \in 1..Len(head) : bytes[i] = head[i]
      /\ \A i \in 1..Len(text) : bytes[Len(head) + i] = text[i]
      /\ SubSeq(bytes, 1, Len(bytes) - Len(text)) = head
  <2> DEFINE endian == a.m_endian
  <2>1. /\ endian \in {"big", "small"} /\ bytes = Encoded(item, endian)
        /\ head = HeadOf(item, endian)
    BY <1>0
  <2> HIDE DEF endian, head
  <2>2. Parts(bytes, head, text)
    BY <2>1, ItemParts
  <2> HIDE DEF text
  <2> QED
    BY <2>2 DEF Parts
<1>2. r = write(b, text)
  BY <1>1 DEF writeItem
<1> HIDE DEF head, text
<1>3. /\ Sound(b) /\ b.m_position = at + Len(head) /\ b.m_endian = a.m_endian
      /\ b.m_size = at + Len(head)
      /\ \A i \in 1..at : b.mem[i] = a.mem[i]
      /\ \A i \in 1..Len(head) : b.mem[at + i] = head[i]
  <2>1. /\ Sound(b) /\ b.m_position = at + Len(head) /\ b.m_endian = a.m_endian
        /\ b.m_size = IF a.m_size >= at + Len(head) THEN a.m_size ELSE at + Len(head)
        /\ \A i \in 1..at : b.mem[i] = a.mem[i]
        /\ \A i \in 1..Len(head) : b.mem[at + i] = head[i]
    <3> HIDE DEF b
    <3>1. b = write(a, head) /\ head \in Seq(ByteValue) /\ Sound(a)
      BY <1>1 DEF b
    <3> QED
      BY <3>1, WriteFacts
  <2>2. Len(head) \in Nat
    BY <1>1
  <2> HIDE DEF b
  <2> QED
    BY <1>0, <2>1, <2>2
<1> HIDE DEF b
<1>4. /\ Sound(r) /\ r.m_position = b.m_position + Len(text) /\ r.m_endian = b.m_endian
      /\ r.m_size = IF b.m_size >= b.m_position + Len(text) THEN b.m_size
                    ELSE b.m_position + Len(text)
      /\ \A i \in 1..b.m_position : r.mem[i] = b.mem[i]
      /\ \A i \in 1..Len(text) : r.mem[b.m_position + i] = text[i]
  <2>1. r = write(b, text) /\ text \in Seq(ByteValue) /\ Sound(b)
    BY <1>1, <1>2, <1>3
  <2> QED
    BY <2>1, WriteFacts
<1>5. Len(head) \in Nat /\ Len(text) \in Nat
  BY <1>1
<1>6. r.m_position = at + Len(bytes) /\ r.m_size = at + Len(bytes)
  <2> DEFINE m == at + Len(head)
             z == m + Len(text)
  <2>1. m \in Nat /\ z \in Nat /\ z >= m /\ z = at + Len(bytes)
    BY <1>0, <1>1, <1>5
  <2>2. b.m_position = m /\ b.m_size = m
    BY <1>3
  <2>3. r.m_position = z /\ r.m_size = IF m >= z THEN m ELSE z
    BY <1>4, <2>2
  <2> HIDE DEF m, z
  <2> QED
    BY <2>1, <2>3
<1>7. ASSUME NEW i \in 1..at PROVE r.mem[i] = a.mem[i]
  <2>1. i \in 1..b.m_position
    BY <1>0, <1>3, <1>5
  <2>2. r.mem[i] = b.mem[i] /\ b.mem[i] = a.mem[i]
    BY <1>3, <1>4, <2>1
  <2> QED
    BY <2>2
<1>8. ASSUME NEW i \in 1..Len(bytes) PROVE r.mem[at + i] = bytes[i]
  <2>1. CASE i <= Len(head)
    <3>1. i \in 1..Len(head) /\ at + i \in 1..b.m_position
      BY <1>0, <1>1, <1>3, <1>5, <2>1
    <3>2. r.mem[at + i] = b.mem[at + i] /\ b.mem[at + i] = head[i] /\ bytes[i] = head[i]
      BY <1>1, <1>3, <1>4, <3>1
    <3> QED
      BY <3>2
  <2>2. CASE i > Len(head)
    <3> DEFINE j == i - Len(head)
    <3>1. /\ j \in 1..Len(text) /\ Len(head) + j = i
          /\ b.m_position + j = at + i
      BY <1>0, <1>1, <1>3, <1>5, <2>2
    <3> HIDE DEF j
    <3>2. r.mem[b.m_position + j] = text[j] /\ bytes[Len(head) + j] = text[j]
      BY <1>1, <1>4, <3>1
    <3> QED
      BY <3>1, <3>2
  <2> QED
    BY <1>1, <1>5, <2>1, <2>2
<1> QED
  BY <1>3, <1>4, <1>6, <1>7, <1>8

\* An array that has bytes to read at its position.
Ready(a, bytes) ==
    /\ Sound(a) /\ Len(bytes) \in Nat /\ a.m_position + Len(bytes) <= a.m_size
    /\ LaidAt(a.mem, a.m_position, bytes)
\* A result that is the value and leaves the position behind n bytes.
Came(a, r, n, v) ==
    Moved(a, r.a, n) /\ Sound(r.a) /\ r.a.m_position = a.m_position + n /\ r.v = v

\* readVarint() returns what was written.
LEMMA VarintCame ==
    ASSUME NEW a, NEW v \in 0..(BaWord - 1), Ready(a, varint[v]), NEW r, r = readVarint(a)
    PROVE  Came(a, r, Len(varint[v]), v)
  BY VarintRead DEF Ready, LaidAt, Came

\* readFixed() returns what was written.
LEMMA FixedCame ==
    ASSUME NEW a, NEW v \in 0..(BaWord - 1), Ready(a, Fixed(v, a.m_endian)),
           NEW r, r = readFixed(a)
    PROVE  Came(a, r, Len(Fixed(v, a.m_endian)), v)
<1> DEFINE f == Fixed(v, a.m_endian)
           s == read(a, 2)
           e == a.m_endian
           n == 2
<1>1. Sound(a) /\ e \in {"big", "small"} /\ a.m_position \in Nat
  BY SoundTypes DEF Ready
<1>2. f = Fixed(v, e) /\ Len(f) = n /\ n \in Nat /\ n > 0 /\ s = read(a, n)
  <2> HIDE DEF e
  <2>1. Len(Fixed(v, e)) = 2
    BY <1>1, FixedBytes
  <2> QED
    BY <2>1 DEF e
<1>3. /\ a.m_position + n <= a.m_size
      /\ \A i \in 1..n : a.mem[a.m_position + i] = f[i]
  BY <1>2 DEF Ready, LaidAt
<1>4. r = [a |-> s.a, v |-> IF s.bytes = <<>> THEN 0 ELSE FromFixed(s.bytes, a.m_endian)]
  BY DEF readFixed
<1> HIDE DEF f, s, e
<1>5. 1 \in 1..n /\ 2 \in 1..n
  OBVIOUS
<1> HIDE DEF n
<1>6. /\ s.bytes \in Seq(ByteValue) /\ Len(s.bytes) = n
      /\ \A i \in 1..n : s.bytes[i] = a.mem[a.m_position + i]
      /\ Moved(a, s.a, n) /\ s.a.fate = "ok"
  BY <1>1, <1>2, <1>3, ReadFacts
<1>7. s.bytes[1] = f[1] /\ s.bytes[2] = f[2] /\ s.bytes # <<>>
  <2>1. Len(s.bytes) > 0
    BY <1>2, <1>6
  <2> QED
    BY <1>3, <1>5, <1>6, <2>1
<1>8. FromFixed(s.bytes, e) = v
  BY <1>1, <1>2, <1>7, FixedBytes
<1>9. r.a = s.a /\ r.v = v
  <2> DEFINE c == s.a
             w == IF s.bytes = <<>> THEN 0 ELSE FromFixed(s.bytes, a.m_endian)
  <2>1. w = v
    BY <1>7, <1>8 DEF e
  <2> HIDE DEF c, w
  <2>2. r = [a |-> c, v |-> w]
    BY <1>4 DEF c, w
  <2>3. r.a = c /\ r.v = w
    BY <2>2
  <2> QED
    BY <2>1, <2>3 DEF c
<1>10. Sound(s.a) /\ s.a.m_position = a.m_position + n
  BY <1>6 DEF Moved
<1> QED
  BY <1>2, <1>6, <1>9, <1>10 DEF Came, f

\* A text comes back behind its length.
LEMMA TextCame ==
    ASSUME NEW a, NEW text \in Seq(ByteValue), Ready(a, text),
           NEW g, g.a = a, g.v = Len(text), NEW r, r = readText(g)
    PROVE  Moved(a, r.a, Len(text)) /\ r.v = text
<1> DEFINE n == Len(text)
           s == read(a, n)
<1>1. /\ Sound(a) /\ n \in Nat /\ a.m_position + n <= a.m_size
      /\ \A i \in 1..n : a.mem[a.m_position + i] = text[i]
  BY DEF Ready, LaidAt
<1>2. r = [a |-> s.a, v |-> s.bytes]
  BY DEF readText
<1>3. r.a = s.a /\ r.v = s.bytes
  <2> DEFINE c == s.a
             w == s.bytes
  <2> HIDE DEF s
  <2>1. r = [a |-> c, v |-> w]
    BY <1>2
  <2> HIDE DEF c, w
  <2>2. r.a = c /\ r.v = w
    BY <2>1
  <2> QED
    BY <2>2 DEF c, w
<1>4. s = read(a, n)
  OBVIOUS
<1> HIDE DEF s, n
<1>5. /\ s.bytes \in Seq(ByteValue) /\ Len(s.bytes) = n
      /\ \A i \in 1..n : s.bytes[i] = a.mem[a.m_position + i]
      /\ Moved(a, s.a, n)
  BY <1>1, <1>4, ReadFacts
<1>6. s.bytes = text
  <2> DEFINE b == s.bytes
  <2>1. /\ b \in Seq(ByteValue) /\ Len(b) = Len(text)
        /\ \A i \in 1..Len(b) : b[i] = text[i]
    BY <1>1, <1>5 DEF n
  <2> HIDE DEF b
  <2>2. b = text
    BY <2>1, SeqEqual
  <2> QED
    BY <2>2 DEF b
<1> QED
  BY <1>3, <1>5, <1>6 DEF n

\* An item whose encoding is at the position is read as it was written.
LEMMA ReadItemFacts ==
    ASSUME NEW a, NEW item \in BaItems, NEW bytes, bytes = Encoded(item, a.m_endian),
           Ready(a, bytes), NEW r, r = readItem(a, item.kind)
    PROVE  Moved(a, r.a, Len(bytes)) /\ r.v = AsWritten(item)
<1> DEFINE e == a.m_endian
           head == HeadOf(item, e)
           text == item.text
<1>1. Sound(a) /\ e \in {"big", "small"} /\ a.m_position \in Nat /\ a.m_size \in Nat
  BY SoundTypes DEF Ready
<1>2. IsItem(item)
  BY BaAssumption
<1>3. Parts(bytes, head, text)
  <2>1. bytes = Encoded(item, e) /\ head = HeadOf(item, e)
    OBVIOUS
  <2> HIDE DEF e, head
  <2> QED
    BY <1>1, <2>1, ItemParts
<1>4. /\ text \in Seq(ByteValue) /\ Len(head) \in Nat /\ Len(text) \in Nat
      /\ Len(bytes) = Len(head) + Len(text)
  <2> HIDE DEF head, text
  <2> QED
    BY <1>3 DEF Parts
<1>5. Ready(a, head)
  <2> HIDE DEF head, text
  <2>1. a.m_position + Len(head) <= a.m_size
    BY <1>1, <1>4 DEF Ready
  <2>2. ASSUME NEW i \in 1..Len(head) PROVE a.mem[a.m_position + i] = head[i]
    <3>1. i \in 1..Len(bytes) /\ bytes[i] = head[i]
      BY <1>3, <1>4 DEF Parts
    <3> QED
      BY <3>1 DEF Ready, LaidAt
  <2> QED
    BY <1>1, <1>4, <2>1, <2>2 DEF Ready, LaidAt
<1>6. ASSUME NEW c, Moved(a, c, Len(head)), Sound(c), c.m_position = a.m_position + Len(head)
      PROVE  Ready(c, text)
  <2> HIDE DEF head, text
  <2>1. c.mem = a.mem /\ c.m_size = a.m_size
    BY <1>6 DEF Moved
  <2>2. c.m_position + Len(text) <= c.m_size
    BY <1>1, <1>4, <1>6, <2>1 DEF Ready
  <2>3. ASSUME NEW i \in 1..Len(text) PROVE c.mem[c.m_position + i] = text[i]
    <3> DEFINE j == Len(head) + i
    <3>1. j \in 1..Len(bytes) /\ c.m_position + i = a.m_position + j
      BY <1>1, <1>4, <1>6
    <3>2. bytes[j] = text[i]
      BY <1>3 DEF Parts
    <3> HIDE DEF j
    <3> QED
      BY <2>1, <3>1, <3>2 DEF Ready, LaidAt
  <2> QED
    BY <1>4, <1>6, <2>2, <2>3 DEF Ready, LaidAt
<1>7. CASE item.kind = "fixed"
  <2>1. /\ item.value \in 0..(BaWord - 1) /\ text = <<>>
        /\ head = Fixed(item.value, a.m_endian)
        /\ r = readFixed(a) /\ AsWritten(item) = item.value
    BY <1>2, <1>7 DEF IsItem, NumberKinds, TextKinds, ValueOf, HeadOf, readItem, AsWritten
  <2>2. Came(a, r, Len(head), item.value)
    BY <1>5, <2>1, FixedCame
  <2>3. Len(head) = Len(bytes)
    BY <1>4, <2>1
  <2> QED
    BY <2>1, <2>2, <2>3 DEF Came
<1>8. CASE item.kind = "varint"
  <2>1. /\ item.value \in 0..(BaWord - 1) /\ text = <<>> /\ head = varint[item.value]
        /\ r = readVarint(a) /\ AsWritten(item) = item.value
    BY <1>2, <1>8 DEF IsItem, NumberKinds, TextKinds, ValueOf, HeadOf, readItem, AsWritten
  <2>2. Came(a, r, Len(head), item.value)
    BY <1>5, <2>1, VarintCame
  <2>3. Len(head) = Len(bytes)
    BY <1>4, <2>1
  <2> QED
    BY <2>1, <2>2, <2>3 DEF Came
<1>9. CASE item.kind = "zigzag"
  <2> DEFINE z == EncodeZigzag(item.value)
             g == readVarint(a)
             c == g.a
             w == DecodeZigzag(g.v)
  <2>1. /\ item.value \in (-(BaWord \div 2))..(BaWord \div 2 - 1) /\ text = <<>>
        /\ head = varint[z] /\ r = [a |-> c, v |-> w] /\ AsWritten(item) = item.value
    BY <1>2, <1>9 DEF IsItem, NumberKinds, TextKinds, ValueOf, HeadOf, readItem, AsWritten
  <2>2. z \in 0..(BaWord - 1) /\ DecodeZigzag(z) = item.value
    BY <2>1, Zigzag
  <2>3. Came(a, g, Len(head), z)
    <3>1. g = readVarint(a)
      OBVIOUS
    <3> HIDE DEF g, z
    <3> QED
      BY <1>5, <2>1, <2>2, <3>1, VarintCame
  <2>4. Len(head) = Len(bytes)
    BY <1>4, <2>1
  <2>5. w = item.value
    BY <2>2, <2>3 DEF Came
  <2> HIDE DEF c, w
  <2>6. r.a = c /\ r.v = w
    BY <2>1
  <2> QED
    BY <2>1, <2>3, <2>4, <2>5, <2>6 DEF Came, c
<1>10. CASE item.kind \in TextKinds
  <2> DEFINE n == Len(text)
             g == IF item.kind = "stringF" THEN readFixed(a) ELSE readVarint(a)
  <2>1. /\ n \in 0..(BaWord - 1) /\ r = readText(g) /\ AsWritten(item) = text
        /\ head = IF item.kind = "stringF" THEN Fixed(n, a.m_endian) ELSE varint[n]
    <3>1. n < BaWord
      BY <1>2, <1>10 DEF IsItem, NumberKinds, TextKinds
    <3>2. n \in 0..(BaWord - 1)
      <4> HIDE DEF text
      <4> QED
        BY <1>4, <3>1, BaConstants
    <3>3. r = readText(g)
      BY <1>10 DEF TextKinds, readItem
    <3>4. AsWritten(item) = text
      BY <1>10 DEF AsWritten
    <3>5. head = IF item.kind = "stringF" THEN Fixed(n, a.m_endian) ELSE varint[n]
      BY <1>10 DEF TextKinds, HeadOf
    <3> QED
      BY <3>2, <3>3, <3>4, <3>5
  <2>2. Came(a, g, Len(head), n)
    <3>1. CASE item.kind = "stringF"
      <4>1. g = readFixed(a) /\ head = Fixed(n, a.m_endian)
        BY <2>1, <3>1
      <4> HIDE DEF g, n, head
      <4> QED
        BY <1>5, <2>1, <4>1, FixedCame
    <3>2. CASE item.kind # "stringF"
      <4>1. g = readVarint(a) /\ head = varint[n]
        BY <2>1, <3>2
      <4> HIDE DEF g, n, head
      <4> QED
        BY <1>5, <2>1, <4>1, VarintCame
    <3> QED
      BY <3>1, <3>2
  <2> HIDE DEF g, head, text
  <2>3. /\ Moved(a, g.a, Len(head)) /\ Sound(g.a)
        /\ g.a.m_position = a.m_position + Len(head)
        /\ g.v = n
    BY <2>2 DEF Came
  <2>4. Ready(g.a, text)
    BY <1>6, <2>3
  <2>5. Moved(g.a, r.a, n) /\ r.v = text
    <3> DEFINE c == g.a
    <3>1. c = g.a
      OBVIOUS
    <3> HIDE DEF c
    <3>2. Moved(c, r.a, n) /\ r.v = text
      BY <1>4, <2>1, <2>3, <2>4, <3>1, TextCame
    <3> QED
      BY <3>2 DEF c
  <2>6. Moved(a, r.a, Len(head) + n)
    BY <1>1, <1>4, <2>3, <2>5, MovedTwice
  <2> QED
    BY <1>4, <2>1, <2>5, <2>6
<1> QED
  BY <1>2, <1>7, <1>8, <1>9, <1>10 DEF IsItem, NumberKinds

-----------------------------------------------------------------------------
(* Files *)

\* A set that has 0 and with a number the next one has them all.
LEMMA SetInduction ==
    ASSUME NEW N \in Nat, NEW S, 0 \in S, \A k \in 1..N : k - 1 \in S => k \in S
    PROVE  \A k \in 0..N : k \in S
<1> DEFINE R == OpToRel(<, Nat)
           U == (0..N) \ S
<1> SUFFICES ASSUME U # {} PROVE FALSE
  OBVIOUS
<1>1. \A x, y \in Nat : <<y, x>> \in R <=> y < x
  BY DEF OpToRel
<1>2. IsWellFoundedOn(R, Nat)
  BY NatLessThanWellFounded
<1>3. U \subseteq Nat
  OBVIOUS
<1> HIDE DEF R
<1>4. PICK k \in U : \A y \in U : ~(<<y, k>> \in R)
  BY <1>2, <1>3, WFMin
<1>5. k \in 1..N /\ k - 1 \notin S
  OBVIOUS
<1>6. k - 1 \in U /\ k - 1 \in Nat /\ k \in Nat /\ k - 1 < k
  BY <1>5
<1> QED
  BY <1>1, <1>4, <1>6

\* How much of n bytes k nodes hold.
UpTo(k, n) == Min({k * m_baseSize, n})
LEMMA UpToFacts ==
    ASSUME NEW k \in Nat, NEW n \in Nat
    PROVE  /\ k * m_baseSize \in Nat /\ UpTo(k, n) \in Nat /\ UpTo(k, n) <= n
           /\ UpTo(k, n) = IF k * m_baseSize <= n THEN k * m_baseSize ELSE n
           /\ (k + 1) * m_baseSize = k * m_baseSize + m_baseSize /\ UpTo(0, n) = 0
<1>1. k * m_baseSize \in Nat /\ (k + 1) * m_baseSize = k * m_baseSize + m_baseSize
      /\ 0 * m_baseSize = 0
  BY BaConstants
<1>2. UpTo(k, n) = IF k * m_baseSize <= n THEN k * m_baseSize ELSE n
  BY <1>1, MinTwo DEF UpTo
<1>3. UpTo(0, n) = 0
  BY <1>1, MinTwo DEF UpTo
<1> QED
  BY <1>1, <1>2, <1>3

\* What was written after k nodes.
WrittenAfter(a, k) ==
    [out |-> SubSeq(a.mem, 1, UpTo(k, a.m_size)), pos |-> UpTo(k, a.m_size),
     remain |-> a.m_size - UpTo(k, a.m_size)]

\* A node's piece, when writing starts at a node's begin.
LEMMA PieceWritten ==
    ASSUME NEW a, Sound(a), a.m_position = 0, NEW k \in Nat
    PROVE  WritePiece(a, WrittenAfter(a, k), k) = WrittenAfter(a, k + 1)
<1> DEFINE n == a.m_size
           t == k * m_baseSize
           m == UpTo(k, n)
           o == SubSeq(a.mem, 1, m)
           f == WrittenAfter(a, k)
<1>1. /\ n \in Nat /\ n <= Len(a.mem) /\ a.mem \in Seq(ByteValue) /\ Len(a.mem) \in Nat
  BY SoundTypes
<1>2. /\ t \in Nat /\ m \in Nat /\ m <= n /\ m = IF t <= n THEN t ELSE n
      /\ (k + 1) * m_baseSize = t + m_baseSize
      /\ UpTo(k + 1, n) = IF t + m_baseSize <= n THEN t + m_baseSize ELSE n
  <2> DEFINE k1 == k + 1
             t1 == k1 * m_baseSize
  <2>1. k1 \in Nat
    OBVIOUS
  <2>2. /\ t \in Nat /\ m \in Nat /\ m <= n /\ m = IF t <= n THEN t ELSE n
        /\ t1 = t + m_baseSize
    <3> HIDE DEF n
    <3> QED
      BY <1>1, UpToFacts
  <2> HIDE DEF k1
  <2>3. UpTo(k1, n) = IF t1 <= n THEN t1 ELSE n
    <3> HIDE DEF n
    <3> QED
      BY <1>1, <2>1, UpToFacts
  <2> HIDE DEF t1, m, n, t
  <2>4. UpTo(k1, n) = IF t + m_baseSize <= n THEN t + m_baseSize ELSE n
    BY <2>2, <2>3
  <2> QED
    BY <2>2, <2>4 DEF k1, t1
<1>3. f.out = o /\ f.pos = m /\ f.remain = n - m
  <2> DEFINE left == n - m
  <2> HIDE DEF o, m, left
  <2>1. f = [out |-> o, pos |-> m, remain |-> left]
    BY DEF WrittenAfter, o, m, left
  <2> HIDE DEF f
  <2>2. f.out = o /\ f.pos = m /\ f.remain = left
    BY <2>1
  <2> QED
    BY <2>2 DEF left
<1>4. o \in Seq(ByteValue) /\ Len(o) = m
  <2> HIDE DEF m
  <2> QED
    BY <1>1, <1>2
<1>5. o # <<-1>>
  <2> HIDE DEF o
  <2>1. ASSUME o = <<-1>> PROVE FALSE
    <3>1. o[1] = -1 /\ 1 \in 1..Len(o)
      BY <2>1
    <3>2. o[1] \in ByteValue
      BY <1>4, <3>1
    <3> QED
      BY <3>1, <3>2, BaConstants DEF ByteValue
  <2> QED
    BY <2>1
<1> HIDE DEF f, o, m, t, n
<1>6. CASE n - m <= 0
  <2>1. WritePiece(a, f, k) = f
    BY <1>3, <1>6 DEF WritePiece
  <2>2. UpTo(k + 1, n) = m
    BY <1>1, <1>2, <1>6, BaConstants
  <2> QED
    BY <2>1, <2>2 DEF WrittenAfter, f, m, n
<1>7. CASE n - m > 0
  <2> DEFINE rest == n - m
             least == Min({rest, m_baseSize})
             s == SubSeq(a.mem, t + 1, t + least)
  <2>1. m = t /\ rest \in Nat /\ t < n
    BY <1>1, <1>2, <1>7
  <2>2. m % m_baseSize = 0
    <3>1. (m_baseSize * k + 0) % m_baseSize = 0
      BY BaConstants, DivUnique
    <3>2. m_baseSize * k + 0 = t
      BY BaConstants DEF t
    <3> QED
      BY <2>1, <3>1, <3>2
  <2>3. least \in Nat /\ least > 0 /\ UpTo(k + 1, n) = t + least /\ t + least <= n
    <3>1. least = IF rest <= m_baseSize THEN rest ELSE m_baseSize
      BY <2>1, BaConstants, MinTwo
    <3>2. /\ m_baseSize \in Nat /\ m_baseSize > 0 /\ t \in Nat /\ n \in Nat /\ rest \in Nat
          /\ rest = n - t /\ rest > 0
          /\ UpTo(k + 1, n) = IF t + m_baseSize <= n THEN t + m_baseSize ELSE n
      BY <1>1, <1>2, <1>7, <2>1, BaConstants
    <3> HIDE DEF least, rest
    <3> QED
      BY <3>1, <3>2
  <2>4. WritePiece(a, f, k) = [out |-> o \o s, pos |-> m + least, remain |-> rest - least]
    <3>1. least - 0 = least /\ ~(least <= 0) /\ ~(rest <= 0) /\ k * m_baseSize + 0 = t
      <4>1. k * m_baseSize + 0 = t
        <5>1. t \in Nat
          BY <1>2
        <5>2. t + 0 = t
          BY <5>1
        <5> QED
          BY <5>2 DEF t
      <4>2. ~(rest <= 0)
        <5>1. rest \in Nat /\ rest > 0
          BY <1>7, <2>1
        <5> HIDE DEF rest
        <5> QED
          BY <5>1
      <4>3. least \in Nat /\ least > 0
        BY <2>3
      <4> HIDE DEF least, rest
      <4> QED
        BY <4>1, <4>2, <4>3
    <3> HIDE DEF least, rest
    <3>2. f.remain = rest
      BY <1>3 DEF rest
    <3> QED
      BY <1>3, <1>5, <2>2, <3>1, <3>2 DEF WritePiece, least
  <2>5. o \o s = SubSeq(a.mem, 1, t + least)
    <3> DEFINE q == SubSeq(a.mem, 1, t + least)
               u == t + least
    <3>1. u \in Nat /\ t <= u /\ u <= Len(a.mem) /\ u - t = least
      BY <1>1, <1>2, <2>3
    <3>2. /\ q \in Seq(ByteValue) /\ Len(q) = u /\ \A i \in 1..u : q[i] = a.mem[i]
      <4> HIDE DEF u
      <4>1. q = SubSeq(a.mem, 1, u)
        BY DEF u
      <4> HIDE DEF q
      <4> QED
        BY <1>1, <3>1, <4>1
    <3>3. s \in Seq(ByteValue) /\ Len(s) = least /\ \A i \in 1..least : s[i] = a.mem[t + i]
      <4>1. s = SubSeq(a.mem, t + 1, t + least)
        OBVIOUS
      <4> HIDE DEF s, u, least
      <4> QED
        BY <1>1, <1>2, <2>3, <4>1
    <3>4. o \in Seq(ByteValue) /\ Len(o) = t /\ \A i \in 1..t : o[i] = a.mem[i]
      <4>1. o = SubSeq(a.mem, 1, t)
        BY <2>1 DEF o
      <4> QED
        BY <1>1, <1>2, <1>4, <2>1, <4>1
    <3> HIDE DEF q, s, u
    <3>5. Len(q) = Len(o) + Len(s)
      BY <1>2, <2>3, <3>1, <3>2, <3>3, <3>4
    <3>6. \A i \in 1..Len(o) : q[i] = o[i]
      BY <1>2, <3>1, <3>2, <3>4
    <3>7. ASSUME NEW i \in 1..Len(s) PROVE q[Len(o) + i] = s[i]
      <4>1. i \in 1..least /\ t + i \in 1..u
        BY <1>2, <2>3, <3>1, <3>3
      <4> QED
        BY <3>2, <3>3, <3>4, <4>1
    <3>8. o \o s = q
      BY <3>2, <3>3, <3>4, <3>5, <3>6, <3>7, JoinedIs
    <3> QED
      BY <3>8 DEF q
  <2>6. m + least = t + least /\ rest - least = n - (t + least)
    BY <1>1, <1>2, <2>1, <2>3
  <2> HIDE DEF least
  <2>7. WrittenAfter(a, k + 1) = [out |-> SubSeq(a.mem, 1, t + least), pos |-> t + least,
                             remain |-> n - (t + least)]
    BY <2>3 DEF WrittenAfter, n
  <2> HIDE DEF rest, s
  <2> QED
    BY <2>4, <2>5, <2>6, <2>7 DEF f
<1> QED
  BY <1>1, <1>2, <1>6, <1>7

\* writeToFile() from the begin writes what is used.
LEMMA FileWritten ==
    ASSUME NEW a, Sound(a), a.m_position = 0
    PROVE  writeToFile(a) = SubSeq(a.mem, 1, a.m_size)
<1> DEFINE N == Nodes(a)
           w == [k \in 0..N |-> WrittenAfter(a, k)]
           none == [out |-> <<>>, pos |-> a.m_position, remain |-> getReadSize(a)]
           all == CHOOSE piece : piece =
                    [k \in 0..N |-> IF k = 0 THEN none
                                    ELSE WritePiece(a, piece[k - 1], a.m_cur + k - 1)]
<1>1. /\ N \in Nat /\ a.m_size \in Nat /\ a.m_size <= Len(a.mem) /\ a.mem \in Seq(ByteValue)
      /\ Len(a.mem) = N * m_baseSize
  BY SoundTypes
<1>2. a.m_cur = 0
  <2>1. (m_baseSize * 0 + 0) \div m_baseSize = 0 /\ m_baseSize * 0 + 0 = 0
    BY BaConstants, DivUnique
  <2> QED
    BY <2>1, SoundTypes
<1>3. WrittenAfter(a, 0) = none
  <2>1. UpTo(0, a.m_size) = 0
    BY <1>1, UpToFacts
  <2>2. SubSeq(a.mem, 1, 0) = <<>>
    BY <1>1, SubSeqEmpty
  <2>3. getReadSize(a) = a.m_size - 0
    BY DEF getReadSize
  <2> QED
    BY <2>1, <2>2, <2>3 DEF WrittenAfter
<1> HIDE DEF N, none
<1>4. ASSUME NEW k \in 1..N
      PROVE  WritePiece(a, WrittenAfter(a, k - 1), a.m_cur + k - 1) = WrittenAfter(a, k)
  <2> DEFINE j == k - 1
  <2>1. j \in Nat /\ k = j + 1 /\ a.m_cur + k - 1 = j
    BY <1>1, <1>2
  <2> HIDE DEF j
  <2>2. WritePiece(a, WrittenAfter(a, j), j) = WrittenAfter(a, j + 1)
    BY <2>1, PieceWritten
  <2> QED
    BY <2>1, <2>2 DEF j
<1>5. w = [k \in 0..N |-> IF k = 0 THEN none ELSE WritePiece(a, w[k - 1], a.m_cur + k - 1)]
  <2>1. ASSUME NEW k \in 0..N
        PROVE  WrittenAfter(a, k) = IF k = 0 THEN none
                                    ELSE WritePiece(a, w[k - 1], a.m_cur + k - 1)
    <3>1. CASE k = 0
      BY <1>3, <3>1
    <3>2. CASE k # 0
      <4>1. k \in 1..N /\ k - 1 \in 0..N
        BY <1>1, <3>2
      <4>2. w[k - 1] = WrittenAfter(a, k - 1)
        BY <4>1
      <4> QED
        BY <1>4, <3>2, <4>1, <4>2
    <3> QED
      BY <3>1, <3>2
  <2> HIDE DEF w
  <2>2. w = [k \in 0..N |-> WrittenAfter(a, k)]
    BY DEF w
  <2> QED
    BY <2>1, <2>2
<1> HIDE DEF w
<1>6. all = [k \in 0..N |-> IF k = 0 THEN none
                            ELSE WritePiece(a, all[k - 1], a.m_cur + k - 1)]
  BY <1>5
<1>7. writeToFile(a) = all[N].out
  BY DEF writeToFile, N, none
<1> HIDE DEF all
<1> DEFINE S == {k \in 0..N : all[k] = WrittenAfter(a, k)}
<1>8. 0 \in S
  BY <1>1, <1>3, <1>6
<1>9. ASSUME NEW k \in 1..N, k - 1 \in S PROVE k \in S
  <2>1. k \in 0..N /\ k # 0 /\ all[k - 1] = WrittenAfter(a, k - 1)
    BY <1>1, <1>9
  <2>2. all[k] = WritePiece(a, all[k - 1], a.m_cur + k - 1)
    BY <1>6, <2>1
  <2> QED
    BY <1>4, <2>1, <2>2
<1>10. N \in S
  <2> HIDE DEF S
  <2>1. \A k \in 0..N : k \in S
    BY <1>1, <1>8, <1>9, SetInduction
  <2> QED
    BY <1>1, <2>1
<1>11. UpTo(N, a.m_size) = a.m_size
  <2> DEFINE all1 == N * m_baseSize
             n == a.m_size
  <2>1. n \in Nat /\ n <= all1 /\ all1 \in Nat
    BY <1>1
  <2> HIDE DEF n
  <2>2. UpTo(N, n) = IF all1 <= n THEN all1 ELSE n
    BY <1>1, <2>1, UpToFacts
  <2> HIDE DEF all1
  <2>3. UpTo(N, n) = n
    BY <2>1, <2>2
  <2> QED
    BY <2>3 DEF n
<1>12. WrittenAfter(a, N).out = SubSeq(a.mem, 1, a.m_size)
  <2> DEFINE o == SubSeq(a.mem, 1, UpTo(N, a.m_size))
             p == UpTo(N, a.m_size)
             q == a.m_size - UpTo(N, a.m_size)
  <2> HIDE DEF o, p, q
  <2>1. WrittenAfter(a, N) = [out |-> o, pos |-> p, remain |-> q]
    BY DEF WrittenAfter, o, p, q
  <2>2. WrittenAfter(a, N).out = o
    BY <2>1
  <2> QED
    BY <1>11, <2>2 DEF o
<1> QED
  BY <1>7, <1>10, <1>12

\* A file's part, and an array that has the file up to a node's end.
LEMMA PartOfFile ==
    ASSUME NEW file \in Seq(ByteValue), NEW k \in Nat, NEW n, n = Len(file)
    PROVE  /\ ReadPart(file, k + 1) \in Seq(ByteValue)
           /\ UpTo(k, n) + Len(ReadPart(file, k + 1)) = UpTo(k + 1, n)
           /\ \A i \in 1..Len(ReadPart(file, k + 1)) :
                 ReadPart(file, k + 1)[i] = file[UpTo(k, n) + i]
<1> DEFINE t == k * m_baseSize
           k1 == k + 1
           u == UpTo(k1, n)
           m == UpTo(k, n)
           s == ReadPart(file, k + 1)
<1>1. n \in Nat /\ k1 \in Nat
  OBVIOUS
<1>2. /\ t \in Nat /\ m \in Nat /\ m <= n /\ m = IF t <= n THEN t ELSE n
      /\ k1 * m_baseSize = t + m_baseSize
  <2> HIDE DEF k1
  <2>1. k1 = k + 1
    BY DEF k1
  <2> QED
    BY <1>1, <2>1, UpToFacts
<1>3. u \in Nat /\ u <= n /\ u = IF t + m_baseSize <= n THEN t + m_baseSize ELSE n
  <2> DEFINE t1 == k1 * m_baseSize
  <2> HIDE DEF k1, t, m
  <2>1. UpTo(k1, n) \in Nat /\ UpTo(k1, n) <= n /\ UpTo(k1, n) = IF t1 <= n THEN t1 ELSE n
    BY <1>1, UpToFacts
  <2>2. t1 = t + m_baseSize
    BY <1>2
  <2> HIDE DEF t1
  <2> QED
    BY <2>1, <2>2
<1>4. s = SubSeq(file, t + 1, u)
  <2>1. k1 - 1 = k
    OBVIOUS
  <2> QED
    BY <2>1 DEF ReadPart, UpTo
<1> HIDE DEF t, k1, u, m, s
<1>5. CASE t < n
  <2>1. m = t /\ t < u
    <3>1. m_baseSize \in Nat /\ m_baseSize > 0
      BY BaConstants
    <3> QED
      BY <1>1, <1>2, <1>3, <1>5, <3>1
  <2>2. s \in Seq(ByteValue) /\ Len(s) = u - t /\ \A i \in 1..(u - t) : s[i] = file[t + i]
    <3> DEFINE l == u - t
    <3>1. t \in Nat /\ l \in Nat /\ u = t + l /\ t + l <= Len(file)
      BY <1>2, <1>3, <2>1
    <3> HIDE DEF l
    <3>2. s = SubSeq(file, t + 1, t + l)
      BY <1>4, <3>1
    <3>3. s \in Seq(ByteValue) /\ Len(s) = l /\ \A i \in 1..l : s[i] = file[t + i]
      BY <3>1, <3>2
    <3> QED
      BY <3>3 DEF l
  <2>3. m + Len(s) = u /\ \A i \in 1..Len(s) : s[i] = file[m + i]
    BY <1>2, <1>3, <2>1, <2>2
  <2> QED
    BY <2>2, <2>3 DEF s, u, m, k1
<1>6. CASE t >= n
  <2>1. m = n /\ u = n
    BY <1>1, <1>2, <1>3, <1>6, BaConstants
  <2>2. s = <<>>
    BY <1>1, <1>2, <1>3, <1>4, <1>6, <2>1, SubSeqEmpty
  <2>3. s \in Seq(ByteValue) /\ Len(s) = 0
    BY <2>2
  <2> QED
    BY <1>1, <2>1, <2>3 DEF s, u, m, k1
<1> QED
  BY <1>1, <1>2, <1>5, <1>6

\* An array that has the first m bytes of a file and nothing else.
Loaded(a, file, m, endian) ==
    /\ Sound(a) /\ a.m_position = m /\ a.m_size = m /\ a.m_endian = endian
    /\ \A i \in 1..m : a.mem[i] = file[i]

\* One more part.
LEMMA PartLoaded ==
    ASSUME NEW file \in Seq(ByteValue), NEW k \in Nat, NEW n, n = Len(file), NEW endian,
           NEW a, Loaded(a, file, UpTo(k, n), endian)
    PROVE  Loaded(write(a, ReadPart(file, k + 1)), file, UpTo(k + 1, n), endian)
<1> DEFINE s == ReadPart(file, k + 1)
           m == UpTo(k, n)
           u == UpTo(k + 1, n)
           b == write(a, s)
<1>1. s \in Seq(ByteValue) /\ m + Len(s) = u /\ \A i \in 1..Len(s) : s[i] = file[m + i]
  <2>1. s \in Seq(ByteValue)
    BY PartOfFile
  <2>2. m + Len(s) = u
    BY PartOfFile
  <2>3. ASSUME NEW i \in 1..Len(s) PROVE s[i] = file[m + i]
    BY PartOfFile
  <2> QED
    BY <2>1, <2>2, <2>3
<1>2. m \in Nat /\ Len(s) \in Nat /\ u \in Nat
  <2>1. n \in Nat
    OBVIOUS
  <2>2. m \in Nat
    BY <2>1, UpToFacts
  <2> HIDE DEF s, m, u
  <2> QED
    BY <1>1, <2>2
<1>3. b = write(a, s)
  OBVIOUS
<1> HIDE DEF s, m, u, b
<1>4. /\ Sound(a) /\ a.m_position = m /\ a.m_size = m /\ a.m_endian = endian
      /\ \A i \in 1..m : a.mem[i] = file[i]
  BY DEF Loaded, m
<1>5. /\ Sound(b) /\ b.m_position = a.m_position + Len(s) /\ b.m_endian = a.m_endian
      /\ b.m_size = IF a.m_size >= a.m_position + Len(s) THEN a.m_size
                    ELSE a.m_position + Len(s)
      /\ \A i \in 1..a.m_position : b.mem[i] = a.mem[i]
      /\ \A i \in 1..Len(s) : b.mem[a.m_position + i] = s[i]
  BY <1>1, <1>3, <1>4, WriteFacts
<1>6. b.m_position = u /\ b.m_size = u
  BY <1>1, <1>2, <1>4, <1>5
<1>7. ASSUME NEW i \in 1..u PROVE b.mem[i] = file[i]
  <2>1. CASE i <= m
    BY <1>2, <1>4, <1>5, <2>1
  <2>2. CASE i > m
    <3> DEFINE j == i - m
    <3>1. j \in 1..Len(s) /\ i = m + j
      BY <1>1, <1>2, <2>2
    <3> HIDE DEF j
    <3> QED
      BY <1>1, <1>4, <1>5, <3>1
  <2> QED
    BY <1>2, <2>1, <2>2
<1>8. Loaded(b, file, u, endian)
  BY <1>4, <1>5, <1>6, <1>7 DEF Loaded
<1> QED
  BY <1>8 DEF b, u, s

\* readFromFile() into an empty array leaves the file in it.
LEMMA FileRead ==
    ASSUME NEW a, Sound(a), a.m_position = 0, a.m_size = 0, NEW file \in Seq(ByteValue)
    PROVE  Loaded(readFromFile(a, file), file, Len(file), a.m_endian)
<1> DEFINE n == Len(file)
           C == (n + m_baseSize - 1) \div m_baseSize
           Fills(f, m) == f = [k \in 0..m |-> IF k = 0 THEN a
                                              ELSE write(f[k - 1], ReadPart(file, k))]
           all == CHOOSE done : done =
                    [k \in 0..C |-> IF k = 0 THEN a
                                    ELSE write(done[k - 1], ReadPart(file, k))]
           S == {m \in 0..C : \E f : Fills(f, m)}
           T == {k \in 0..C : Loaded(all[k], file, UpTo(k, n), a.m_endian)}
<1>1. n \in Nat /\ C \in Nat /\ C * m_baseSize \in Nat /\ C * m_baseSize >= n
  <2>1. n \in Nat
    OBVIOUS
  <2> HIDE DEF n
  <2> QED
    BY <2>1, RoundUp
<1>2. readFromFile(a, file) = all[C]
  BY DEF readFromFile
<1> HIDE DEF n, C
<1>3. 0 \in S
  <2> DEFINE f == [k \in 0..0 |-> a]
  <2>1. f = [k \in 0..0 |-> IF k = 0 THEN a ELSE write(f[k - 1], ReadPart(file, k))]
    <3>1. \A k \in 0..0 : k = 0
      OBVIOUS
    <3> QED
      BY <3>1
  <2>2. Fills(f, 0)
    BY <2>1
  <2> HIDE DEF Fills, f
  <2> QED
    BY <1>1, <2>2
<1>4. ASSUME NEW m \in 1..C, m - 1 \in S PROVE m \in S
  <2>1. m \in Nat /\ m - 1 \in Nat /\ m \in 0..C
    BY <1>1
  <2>2. PICK f : Fills(f, m - 1)
    BY <1>4
  <2> DEFINE h == [k \in 0..m |-> IF k = m THEN write(f[m - 1], ReadPart(file, m)) ELSE f[k]]
  <2>3. ASSUME NEW k \in 0..m
        PROVE  h[k] = IF k = 0 THEN a ELSE write(h[k - 1], ReadPart(file, k))
    <3>1. CASE k = 0
      <4>1. 0 \in 0..(m - 1) /\ k # m
        BY <2>1, <3>1
      <4>2. h[k] = f[k]
        BY <4>1
      <4>3. f[0] = a
        BY <2>2, <4>1
      <4> QED
        BY <3>1, <4>2, <4>3
    <3>2. CASE k # 0
      <4>1. k - 1 \in 0..m /\ k - 1 # m /\ k - 1 \in 0..(m - 1)
        BY <2>1, <3>2
      <4>2. h[k - 1] = f[k - 1]
        BY <4>1
      <4>3. CASE k = m
        BY <3>2, <4>2, <4>3
      <4>4. CASE k # m
        <5>1. k \in 0..(m - 1)
          BY <2>1, <4>4
        <5>2. f[k] = write(f[k - 1], ReadPart(file, k))
          BY <2>2, <3>2, <5>1
        <5>3. h[k] = f[k]
          BY <4>4
        <5> HIDE DEF h
        <5> QED
          BY <3>2, <4>2, <5>2, <5>3
      <4> QED
        BY <4>3, <4>4
    <3> QED
      BY <3>1, <3>2
  <2>4. h = [k \in 0..m |-> h[k]]
    OBVIOUS
  <2> HIDE DEF h
  <2>5. Fills(h, m)
    BY <2>3, <2>4
  <2> HIDE DEF Fills
  <2> QED
    BY <2>1, <2>5
<1>5. C \in S
  <2> HIDE DEF S
  <2>1. \A k \in 0..C : k \in S
    BY <1>1, <1>3, <1>4, SetInduction
  <2> QED
    BY <1>1, <2>1
<1>6. all = [k \in 0..C |-> IF k = 0 THEN a ELSE write(all[k - 1], ReadPart(file, k))]
  BY <1>5
<1> HIDE DEF all, S
<1>7. 0 \in T
  <2>1. all[0] = a /\ 0 \in 0..C
    BY <1>1, <1>6
  <2>2. UpTo(0, n) = 0
    BY <1>1, UpToFacts
  <2>3. Loaded(a, file, 0, a.m_endian)
    BY DEF Loaded
  <2> QED
    BY <2>1, <2>2, <2>3
<1>8. ASSUME NEW k \in 1..C, k - 1 \in T PROVE k \in T
  <2> DEFINE j == k - 1
             e == a.m_endian
             b == all[j]
  <2>1. j \in Nat /\ k = j + 1 /\ k \in 0..C /\ k # 0 /\ Loaded(b, file, UpTo(j, n), e)
    BY <1>1, <1>8
  <2>2. all[k] = write(b, ReadPart(file, k))
    BY <1>6, <2>1
  <2> HIDE DEF j, e, b
  <2>3. Loaded(write(b, ReadPart(file, j + 1)), file, UpTo(j + 1, n), e)
    BY <2>1, PartLoaded DEF n
  <2>4. Loaded(all[k], file, UpTo(k, n), e)
    BY <2>1, <2>2, <2>3
  <2> QED
    BY <2>1, <2>4 DEF e
<1>9. C \in T
  <2> HIDE DEF T
  <2>1. \A k \in 0..C : k \in T
    BY <1>1, <1>7, <1>8, SetInduction
  <2> QED
    BY <1>1, <2>1
<1>10. UpTo(C, n) = n
  <2> DEFINE most == C * m_baseSize
  <2>1. UpTo(C, n) = IF most <= n THEN most ELSE n
    BY <1>1, UpToFacts
  <2>2. most >= n /\ most \in Nat
    BY <1>1
  <2> HIDE DEF most
  <2> QED
    BY <1>1, <2>1, <2>2
<1> QED
  BY <1>2, <1>9, <1>10 DEF n

-----------------------------------------------------------------------------
(* The items lie where they were written *)

\* clear() leaves an empty array of one node, with the endian it had.
LEMMA NewSound ==
    ASSUME NEW a, Sound(a), NEW r, r = clear(a)
    PROVE  Sound(r) /\ r.m_position = 0 /\ r.m_size = 0 /\ r.m_endian = a.m_endian
<1> DEFINE mem == [i \in 1..m_baseSize |-> 0]
           e   == a.m_endian
<1>1. mem \in Seq(ByteValue) /\ Len(mem) = m_baseSize
  BY BaConstants DEF ByteValue
<1>2. e \in {"big", "small"}
  BY SoundTypes
<1>3. r = [NewArray EXCEPT !.m_endian = e]
  BY DEF clear
<1>4. NewArray = [mem |-> mem, m_position |-> 0, m_size |-> 0, m_cur |-> 0,
                  m_endian |-> "big", fate |-> "ok"]
  BY DEF NewArray
<1> HIDE DEF mem
<1>5. /\ r \in Arrays /\ r.mem = mem /\ r.m_position = 0 /\ r.m_size = 0 /\ r.m_cur = 0
      /\ r.m_endian = e /\ r.fate = "ok"
  BY <1>1, <1>2, <1>3, <1>4 DEF Arrays, ByteValue
<1>6. Len(r.mem) = Nodes(r) * m_baseSize
  <2> DEFINE one == 1
  <2>1. one \in Nat /\ Len(r.mem) = one * m_baseSize
    BY <1>1, <1>5, BaConstants
  <2> HIDE DEF one
  <2> QED
    BY <2>1, WholeNodes
<1>7. 0 \div m_baseSize = 0
  <2>1. (0 * m_baseSize + 0) \div m_baseSize = 0 /\ 0 * m_baseSize + 0 = 0
    BY BaConstants, DivUnique
  <2> QED
    BY <2>1
<1>8. 0 <= Len(r.mem)
  BY <1>1, <1>5, BaConstants
<1> QED
  BY <1>5, <1>6, <1>7, <1>8 DEF Sound

\* The object as it is created.
LEMMA FirstSound == Sound(NewArray) /\ NewArray.m_position = 0 /\ NewArray.m_size = 0
<1> DEFINE mem == [i \in 1..m_baseSize |-> 0]
           a   == NewArray
<1>1. mem \in Seq(ByteValue) /\ Len(mem) = m_baseSize
  BY BaConstants DEF ByteValue
<1>2. a = [mem |-> mem, m_position |-> 0, m_size |-> 0, m_cur |-> 0,
           m_endian |-> "big", fate |-> "ok"]
  BY DEF NewArray
<1> HIDE DEF mem, a
<1>3. /\ a \in Arrays /\ a.mem = mem /\ a.m_position = 0 /\ a.m_size = 0 /\ a.m_cur = 0
      /\ a.m_endian = "big" /\ a.fate = "ok"
  BY <1>1, <1>2 DEF Arrays, ByteValue
<1>4. Len(a.mem) = Nodes(a) * m_baseSize
  <2> DEFINE one == 1
  <2>1. one \in Nat /\ Len(a.mem) = one * m_baseSize
    BY <1>1, <1>3, BaConstants
  <2> HIDE DEF one
  <2> QED
    BY <2>1, WholeNodes
<1>5. 0 \div m_baseSize = 0
  <2>1. (0 * m_baseSize + 0) \div m_baseSize = 0 /\ 0 * m_baseSize + 0 = 0
    BY BaConstants, DivUnique
  <2> QED
    BY <2>1
<1>6. 0 <= Len(a.mem)
  BY <1>1, <1>3, BaConstants
<1>7. Sound(a)
  BY <1>3, <1>4, <1>5, <1>6 DEF Sound
<1> QED
  BY <1>3, <1>7 DEF a

\* toString() is what is left behind the position.
LEMMA StringBytes ==
    ASSUME NEW a, Sound(a), NEW s, s = toString(a)
    PROVE  /\ s \in Seq(ByteValue) /\ Len(s) = a.m_size - a.m_position
           /\ \A i \in 1..(a.m_size - a.m_position) : s[i] = a.mem[a.m_position + i]
<1> DEFINE p == a.m_position
           z == a.m_size
           m == a.mem
<1>1. /\ p \in Nat /\ z \in Nat /\ p <= z /\ z <= Len(m) /\ m \in Seq(ByteValue)
      /\ Len(m) \in Nat
  BY SoundTypes
<1>2. s = IF z - p = 0 THEN <<>> ELSE SubSeq(m, p + 1, p + (z - p))
  BY CursorAt DEF toString, peek, getReadSize
<1> HIDE DEF p, z, m
<1>3. CASE z - p = 0
  BY <1>1, <1>2, <1>3 DEF p, z, m
<1>4. CASE z - p # 0
  <2>1. s = SubSeq(m, p + 1, z)
    BY <1>1, <1>2, <1>4
  <2>2. s \in Seq(ByteValue) /\ Len(s) = z - p /\ \A i \in 1..(z - p) : s[i] = m[p + i]
    BY <1>1, <1>4, <2>1
  <2> QED
    BY <2>2 DEF p, z, m
<1> QED
  BY <1>3, <1>4

\* The encoding of an item of the user's.
LEMMA EncodedBytes ==
    ASSUME NEW item \in BaItems, NEW endian \in {"big", "small"}
    PROVE  Encoded(item, endian) \in Seq(ByteValue) /\ Len(Encoded(item, endian)) \in Nat
<1> DEFINE bytes == Encoded(item, endian)
           head  == HeadOf(item, endian)
<1>1. bytes = Encoded(item, endian) /\ head = HeadOf(item, endian)
  OBVIOUS
<1> HIDE DEF bytes, head
<1>2. Parts(bytes, head, item.text)
  BY <1>1, ItemParts
<1>3. bytes \in Seq(ByteValue)
  BY <1>2 DEF Parts
<1> QED
  BY <1>1, <1>3

\* An item is laid from its start to the next one's.
LaidItem(k) ==
    /\ StartOf(k + 1) = StartOf(k) + Len(Encoded(baItems[k], ba.m_endian))
    /\ StartOf(k + 1) <= ba.m_size
    /\ LaidAt(ba.mem, StartOf(k), Encoded(baItems[k], ba.m_endian))

\* The types of the items, their encodings and their starts.
LEMMA ItemTypes ==
    ASSUME BaTypeOK, Sound(ba), NEW k \in 1..(Len(baItems) + 1)
    PROVE  /\ StartOf(k) \in Nat /\ Len(baItems) \in Nat /\ k \in Nat
           /\ k \in 1..Len(baItems) =>
                 /\ baItems[k] \in BaItems
                 /\ Encoded(baItems[k], ba.m_endian) \in Seq(ByteValue)
                 /\ Len(Encoded(baItems[k], ba.m_endian)) \in Nat
                 /\ StartOf(k + 1) \in Nat
<1>1. /\ ba.m_size \in Nat /\ ba.m_endian \in {"big", "small"}
  BY SoundTypes
<1>2. /\ baItems \in Seq(BaItems) /\ Len(baItems) \in Nat /\ baAt \in Seq(Nat)
      /\ Len(baAt) = Len(baItems)
  BY DEF BaTypeOK
<1>3. ASSUME NEW j \in 1..(Len(baItems) + 1) PROVE StartOf(j) \in Nat
  BY <1>1, <1>2, <1>3 DEF StartOf
<1>4. ASSUME k \in 1..Len(baItems)
      PROVE  /\ baItems[k] \in BaItems /\ Encoded(baItems[k], ba.m_endian) \in Seq(ByteValue)
             /\ Len(Encoded(baItems[k], ba.m_endian)) \in Nat
             /\ StartOf(k + 1) \in Nat
  <2> DEFINE item == baItems[k]
             e    == ba.m_endian
  <2>1. item \in BaItems /\ e \in {"big", "small"} /\ k + 1 \in 1..(Len(baItems) + 1)
    BY <1>1, <1>2, <1>4
  <2> HIDE DEF item, e
  <2>2. Encoded(item, e) \in Seq(ByteValue) /\ Len(Encoded(item, e)) \in Nat
    BY <2>1, EncodedBytes
  <2> QED
    BY <1>3, <2>1, <2>2 DEF item, e
<1> QED
  BY <1>2, <1>3, <1>4

\* An item that is put behind the last one lies there, and the others stay.
LEMMA ItemAdded ==
    ASSUME BaTypeOK, Sound(ba), ItemsLaid, ba.m_position = ba.m_size, NEW item \in BaItems,
           NEW bytes, bytes = Encoded(item, ba.m_endian),
           Sound(ba'), ba'.m_position = ba.m_position + Len(bytes),
           ba'.m_size = ba'.m_position,
           ba'.m_endian = ba.m_endian,
           \A i \in 1..ba.m_position : ba'.mem[i] = ba.mem[i],
           \A i \in 1..Len(bytes) : ba'.mem[ba.m_position + i] = bytes[i],
           baItems' = Append(baItems, item), baAt' = Append(baAt, ba.m_position),
           baNext' = Len(baItems) + 2
    PROVE  ItemsLaid'
<1> DEFINE n == Len(baItems)
           e == ba.m_endian
           p == ba.m_position
<1>1. /\ p \in Nat /\ ba.m_size = p /\ e \in {"big", "small"} /\ n \in Nat
      /\ baItems \in Seq(BaItems) /\ baAt \in Seq(Nat) /\ Len(baAt) = n
  BY SoundTypes DEF BaTypeOK
<1>2. bytes \in Seq(ByteValue) /\ Len(bytes) \in Nat
  BY <1>1, EncodedBytes
<1>3. /\ Len(baItems') = n + 1 /\ baItems'[n + 1] = item /\ baAt'[n + 1] = p
      /\ \A k \in 1..n : baItems'[k] = baItems[k] /\ baAt'[k] = baAt[k]
  BY <1>1
<1>4. ASSUME NEW k \in 1..(n + 1) PROVE StartOf(k)' = StartOf(k)
  <2>1. CASE k \in 1..n
    BY <1>1, <1>3, <2>1 DEF StartOf
  <2>2. CASE k = n + 1
    BY <1>1, <1>3, <2>2 DEF StartOf
  <2> QED
    BY <1>1, <2>1, <2>2
<1>5. StartOf(n + 1) = p /\ StartOf(n + 2)' = p + Len(bytes)
  BY <1>1, <1>3 DEF StartOf
<1>6. StartOf(1)' = 0
  <2>1. 1 \in 1..(n + 1)
    BY <1>1
  <2>2. StartOf(1)' = StartOf(1)
    <3> DEFINE one == 1
    <3>1. one \in 1..(n + 1)
      BY <2>1
    <3> HIDE DEF one
    <3>2. StartOf(one)' = StartOf(one)
      BY <1>4, <3>1
    <3> QED
      BY <3>2 DEF one
  <2> QED
    BY <2>2 DEF ItemsLaid
<1>7. ASSUME NEW k \in 1..(n + 1) PROVE LaidItem(k)'
  <2>1. CASE k \in 1..n
    <3> DEFINE c == Encoded(baItems[k], e)
               o == StartOf(k)
    <3>1. /\ k + 1 \in 1..(n + 1) /\ o \in Nat /\ Len(c) \in Nat
      BY <1>1, <2>1, ItemTypes
    <3>2. /\ StartOf(k + 1) = o + Len(c) /\ StartOf(k + 1) <= p
          /\ \A i \in 1..Len(c) : ba.mem[o + i] = c[i]
      BY <1>1, <2>1 DEF ItemsLaid, LaidAt
    <3>3. StartOf(k)' = o /\ StartOf(k + 1)' = o + Len(c)
      BY <1>4, <3>1, <3>2
    <3>4. c = Encoded(baItems'[k], ba'.m_endian)
      BY <1>3, <2>1
    <3> HIDE DEF c, o
    <3>5. ASSUME NEW i \in 1..Len(c) PROVE ba'.mem[o + i] = c[i]
      <4>1. o + i \in 1..p
        <5>1. p \in Nat /\ o \in Nat /\ Len(c) \in Nat /\ o + Len(c) <= p
          BY <1>1, <3>1, <3>2
        <5> HIDE DEF p
        <5> QED
          BY <5>1
      <4> QED
        BY <3>2, <4>1
    <3>6. StartOf(k + 1)' <= ba'.m_size
      <4>1. p \in Nat /\ o + Len(c) \in Nat /\ o + Len(c) <= p /\ ba'.m_size = p + Len(bytes)
        BY <1>1, <3>1, <3>2
      <4> HIDE DEF p
      <4> QED
        BY <1>2, <3>3, <4>1
    <3> QED
      BY <3>3, <3>4, <3>5, <3>6 DEF LaidItem, LaidAt
  <2>2. CASE k = n + 1
    <3>1. StartOf(k)' = p /\ StartOf(k + 1)' = p + Len(bytes)
      <4>1. StartOf(k)' = p
        BY <1>4, <1>5, <2>2
      <4>2. k + 1 = n + 2 /\ ~(k + 1 <= n + 1)
        BY <1>1, <2>2
      <4>3. StartOf(k + 1)' = p + Len(bytes)
        BY <1>1, <1>3, <4>2 DEF StartOf
      <4> QED
        BY <4>1, <4>3
    <3>2. bytes = Encoded(baItems'[k], ba'.m_endian)
      BY <1>3, <2>2
    <3>3. StartOf(k + 1)' <= ba'.m_size
      BY <1>1, <1>2, <3>1
    <3> QED
      BY <3>1, <3>2, <3>3 DEF LaidItem, LaidAt
  <2> QED
    BY <1>1, <2>1, <2>2
<1>8. ba'.m_position = StartOf(baNext)'
  <2>1. ~(n + 2 <= n + 1)
    BY <1>1
  <2> QED
    BY <1>3, <2>1 DEF StartOf
<1> HIDE DEF n, e, p
<1> QED
  BY <1>3, <1>6, <1>7, <1>8 DEF ItemsLaid, LaidItem

\* The items stay where they are when the array keeps what is used of it.
LEMMA ItemsKept ==
    ASSUME BaTypeOK, Sound(ba), ItemsLaid, UNCHANGED <<baItems, baAt>>,
           ba'.m_size = ba.m_size, ba'.m_endian = ba.m_endian,
           \A i \in 1..ba.m_size : ba'.mem[i] = ba.mem[i],
           ba'.m_position = StartOf(baNext)'
    PROVE  ItemsLaid'
<1> DEFINE n == Len(baItems)
           z == ba.m_size
<1>1. z \in Nat /\ n \in Nat
  BY SoundTypes DEF BaTypeOK
<1>2. \A k : StartOf(k)' = StartOf(k)
  BY DEF StartOf
<1>3. StartOf(1)' = 0
  BY <1>2 DEF ItemsLaid
<1>4. ASSUME NEW k \in 1..n PROVE LaidItem(k)'
  <2> DEFINE c == Encoded(baItems[k], ba.m_endian)
             o == StartOf(k)
  <2>1. k \in 1..(n + 1) /\ o \in Nat /\ Len(c) \in Nat
    BY <1>1, ItemTypes
  <2>2. /\ StartOf(k + 1) = o + Len(c) /\ StartOf(k + 1) <= z
        /\ \A i \in 1..Len(c) : ba.mem[o + i] = c[i]
    BY <1>1 DEF ItemsLaid, LaidAt
  <2>3. StartOf(k)' = o /\ StartOf(k + 1)' = o + Len(c)
    BY <1>2, <2>2
  <2>4. c = Encoded(baItems'[k], ba'.m_endian)
    OBVIOUS
  <2> HIDE DEF c, o
  <2>5. ASSUME NEW i \in 1..Len(c) PROVE ba'.mem[o + i] = c[i]
    <3>1. o + i \in 1..z
      BY <1>1, <2>1, <2>2
    <3> QED
      BY <2>2, <3>1
  <2>6. StartOf(k + 1)' <= ba'.m_size
    BY <2>2, <2>3
  <2> QED
    BY <2>3, <2>4, <2>5, <2>6 DEF LaidItem, LaidAt
<1> QED
  BY <1>3, <1>4 DEF ItemsLaid, LaidItem

\* A step's result when the array is sound, and when a null pointer was followed.
LEMMA SoundStep ==
    ASSUME Sound(ba'), ItemsLaid', baItems' \in Seq(BaItems), baAt' \in Seq(Nat),
           Len(baAt') = Len(baItems'), baNext' \in 1..(Len(baItems') + 1), baRead' = TRUE
    PROVE  BaInv'
<1>1. ba' \in Arrays /\ Capacity(ba') = Nodes(ba') * m_baseSize /\ ba'.fate = "ok"
  BY SoundTypes DEF Capacity
<1>2. BaTypeOK'
  BY <1>1 DEF BaTypeOK
<1> QED
  BY <1>1, <1>2 DEF BaInv

\* A step on which a null pointer is followed leaves a typed array.
LEMMA CrashedStep ==
    ASSUME ba' \in Arrays, Len(ba'.mem) = Nodes(ba') * m_baseSize, ba'.fate = "crashed",
           baItems' \in Seq(BaItems), baAt' \in Seq(Nat), Len(baAt') = Len(baItems'),
           baNext' \in 1..(Len(baItems') + 1), baRead' = TRUE
    PROVE  BaInv'
<1>1. BaTypeOK'
  BY DEF BaTypeOK, Capacity
<1> QED
  BY <1>1 DEF BaInv

\* What the invariant says before a step.
LEMMA BaBefore ==
    ASSUME BaInv, ba.fate = "ok"
    PROVE  /\ BaTypeOK /\ Sound(ba) /\ ItemsLaid /\ baRead = TRUE
           /\ baItems \in Seq(BaItems) /\ Len(baItems) \in Nat /\ baAt \in Seq(Nat)
           /\ Len(baAt) = Len(baItems) /\ baNext \in 1..(Len(baItems) + 1)
           /\ ba.m_endian \in {"big", "small"} /\ ba.m_position \in Nat /\ ba.m_size \in Nat
<1>1. BaTypeOK /\ Sound(ba) /\ ItemsLaid /\ baRead = TRUE
  BY DEF BaInv
<1> QED
  BY <1>1, SoundTypes DEF BaTypeOK

\* setSmallEndian, on an array without items.
LEMMA EndianStep == ASSUME BaInv, setSmallEndian PROVE BaInv'
<1>1. ba.fate = "ok" /\ baItems = <<>> /\ ba' = [ba EXCEPT !.m_endian = "small"]
      /\ UNCHANGED <<baItems, baAt, baNext, baRead>>
  BY DEF setSmallEndian
<1>2. ba \in Arrays /\ Sound(ba)
  BY <1>1, BaBefore, SoundTypes
<1>3. /\ ba' \in Arrays /\ ba'.mem = ba.mem /\ ba'.m_position = ba.m_position
      /\ ba'.m_size = ba.m_size /\ ba'.m_cur = ba.m_cur /\ ba'.fate = ba.fate
  BY <1>1, <1>2 DEF Arrays
<1>4. Sound(ba')
  <2> DEFINE b == ba'
  <2>1. /\ ba.m_cur = ba.m_position \div m_baseSize /\ ba.m_position <= ba.m_size
        /\ ba.m_size <= Len(ba.mem) /\ ba.fate = "ok"
    BY <1>2, SoundTypes
  <2>2. /\ b \in Arrays /\ Len(b.mem) = Len(ba.mem) /\ b.fate = "ok"
        /\ b.m_cur = b.m_position \div m_baseSize /\ b.m_position <= b.m_size
        /\ b.m_size <= Len(b.mem)
    BY <1>3, <2>1
  <2> HIDE DEF b
  <2>3. Sound(b)
    BY <1>2, <2>2, SoundAt
  <2> QED
    BY <2>3 DEF b
<1>5. ItemsLaid'
  <2>1. Len(baItems) = 0
    BY <1>1
  <2>2. ItemsLaid
    BY <1>1, BaBefore
  <2> QED
    BY <1>1, <1>3, <2>1, <2>2 DEF ItemsLaid, StartOf
<1> QED
  BY <1>1, <1>4, <1>5, BaBefore, SoundStep

\* The lists grow by one item.
LEMMA ListsGrow ==
    ASSUME baItems \in Seq(BaItems), baAt \in Seq(Nat), Len(baAt) = Len(baItems),
           NEW item \in BaItems, NEW p \in Nat,
           baItems' = Append(baItems, item), baAt' = Append(baAt, p),
           baNext' = Len(baItems) + 2
    PROVE  /\ baItems' \in Seq(BaItems) /\ baAt' \in Seq(Nat)
           /\ Len(baAt') = Len(baItems') /\ baNext' \in 1..(Len(baItems') + 1)
  OBVIOUS

\* Writing an item behind the others.
LEMMA WriteStep == ASSUME BaInv, WriteItem PROVE BaInv'
<1> PICK item \in BaItems :
        /\ ba.fate = "ok" /\ ba.m_position = ba.m_size /\ ba' = writeItem(ba, item)
        /\ baItems' = Append(baItems, item) /\ baAt' = Append(baAt, ba.m_position)
        /\ baNext' = Len(baItems) + 2 /\ baRead' = baRead
  BY DEF WriteItem
<1> DEFINE bytes == Encoded(item, ba.m_endian)
           b == ba'
<1>1. BaTypeOK /\ Sound(ba) /\ ItemsLaid /\ baRead = TRUE /\ ba.m_position \in Nat
  BY BaBefore
<1>2. bytes = Encoded(item, ba.m_endian) /\ b = writeItem(ba, item)
  OBVIOUS
<1>3. /\ Sound(b) /\ b.m_position = ba.m_position + Len(bytes) /\ b.m_size = b.m_position
      /\ b.m_endian = ba.m_endian
      /\ \A i \in 1..ba.m_position : b.mem[i] = ba.mem[i]
      /\ \A i \in 1..Len(bytes) : b.mem[ba.m_position + i] = bytes[i]
  <2>1. Sound(ba) /\ ba.m_position = ba.m_size
    BY <1>1
  <2> HIDE DEF b, bytes
  <2> QED
    BY <1>2, <2>1, WriteItemFacts
<1>4. ItemsLaid'
  <2> HIDE DEF bytes
  <2> QED
    BY <1>1, <1>2, <1>3, ItemAdded
<1>5. /\ baItems' \in Seq(BaItems) /\ baAt' \in Seq(Nat)
      /\ Len(baAt') = Len(baItems') /\ baNext' \in 1..(Len(baItems') + 1)
  BY <1>1, ListsGrow, BaBefore
<1> QED
  BY <1>1, <1>3, <1>4, <1>5, SoundStep

\* The bytes of an item arriving in the buffers behind the others.
LEMMA ReceiveStep == ASSUME BaInv, ReceiveItem PROVE BaInv'
<1> PICK item \in BaItems :
        /\ ba.fate = "ok" /\ ba.m_position = ba.m_size
        /\ ba' = setPosition(getWriteBuf(ba, Encoded(item, ba.m_endian)),
                             ba.m_position + Len(Encoded(item, ba.m_endian)))
        /\ baItems' = Append(baItems, item) /\ baAt' = Append(baAt, ba.m_position)
        /\ baNext' = Len(baItems) + 2 /\ baRead' = baRead
  BY DEF ReceiveItem
<1> DEFINE bytes == Encoded(item, ba.m_endian)
           p == ba.m_position
           w == getWriteBuf(ba, bytes)
           val == p + Len(bytes)
           b == ba'
<1>1. /\ BaTypeOK /\ Sound(ba) /\ ItemsLaid /\ baRead = TRUE /\ p \in Nat
      /\ ba.m_endian \in {"big", "small"}
  BY BaBefore
<1>2. bytes = Encoded(item, ba.m_endian) /\ bytes \in Seq(ByteValue) /\ Len(bytes) \in Nat
  BY <1>1, EncodedBytes
<1>3. /\ w = getWriteBuf(ba, bytes) /\ b = setPosition(w, val) /\ val \in Nat
      /\ val = p + Len(bytes)
  BY <1>1, <1>2
<1> HIDE DEF bytes, w, val, b
<1>4. /\ Sound(w) /\ w.m_position = p /\ w.m_size = p
      /\ w.m_endian = ba.m_endian /\ p + Len(bytes) <= Len(w.mem)
      /\ \A i \in 1..p : w.mem[i] = ba.mem[i]
      /\ \A i \in 1..Len(bytes) : w.mem[p + i] = bytes[i]
  <2>1. Sound(ba) /\ bytes \in Seq(ByteValue) /\ w = getWriteBuf(ba, bytes) /\ ba.m_size = p
    BY <1>1, <1>2, <1>3
  <2> QED
    BY <2>1, BufferFacts
<1>5. /\ b \in Arrays /\ b.mem = w.mem /\ b.m_endian = w.m_endian /\ b.fate # "thrown"
      /\ b.fate = "ok" =>
           /\ Sound(b) /\ b.m_position = val
           /\ b.m_size = IF w.m_size >= val THEN w.m_size ELSE val
  <2>1. val <= Len(w.mem)
    BY <1>3, <1>4
  <2> QED
    BY <1>3, <1>4, <2>1, PositionFacts
<1>6. /\ baItems' \in Seq(BaItems) /\ baAt' \in Seq(Nat)
      /\ Len(baAt') = Len(baItems') /\ baNext' \in 1..(Len(baItems') + 1) /\ baRead' = TRUE
  BY <1>1, ListsGrow, BaBefore
<1>7. CASE b.fate = "ok"
  <2>1. b.m_size = b.m_position
    BY <1>1, <1>2, <1>3, <1>4, <1>5, <1>7
  <2>2. /\ Sound(ba') /\ ba'.m_position = ba.m_position + Len(bytes)
        /\ ba'.m_size = ba'.m_position /\ ba'.m_endian = ba.m_endian
        /\ \A i \in 1..ba.m_position : ba'.mem[i] = ba.mem[i]
        /\ \A i \in 1..Len(bytes) : ba'.mem[ba.m_position + i] = bytes[i]
    BY <1>3, <1>4, <1>5, <1>7, <2>1 DEF b
  <2>3. ItemsLaid'
    BY <1>1, <1>2, <2>2, ItemAdded
  <2> QED
    BY <1>6, <2>2, <2>3, SoundStep
<1>8. CASE b.fate # "ok"
  <2>1. b.fate = "crashed"
    BY <1>5, <1>8 DEF Arrays
  <2>2. Len(b.mem) = Nodes(b) * m_baseSize
    <3>1. Nodes(w) \in Nat /\ Len(w.mem) = Nodes(w) * m_baseSize
      BY <1>4, SoundTypes
    <3> QED
      BY <1>5, <3>1, WholeNodes
  <2> QED
    BY <1>5, <1>6, <2>1, <2>2, CrashedStep DEF b
<1> QED
  BY <1>7, <1>8

\* Going back to the begin.
LEMMA RewindStep == ASSUME BaInv, Rewind PROVE BaInv'
<1>1. /\ ba.fate = "ok" /\ ba' = setPosition(ba, 0) /\ baNext' = 1
      /\ UNCHANGED <<baItems, baAt, baRead>>
  BY DEF Rewind
<1> DEFINE b == ba'
           val == 0
<1>2. /\ BaTypeOK /\ Sound(ba) /\ ItemsLaid /\ baRead = TRUE /\ ba.m_size \in Nat
      /\ baItems \in Seq(BaItems) /\ Len(baItems) \in Nat /\ baAt \in Seq(Nat)
      /\ Len(baAt) = Len(baItems)
  BY <1>1, BaBefore
<1>3. b = setPosition(ba, val) /\ val \in Nat /\ val <= Len(ba.mem) /\ ba.m_size >= val
  BY <1>1, <1>2, SoundTypes
<1>4. baItems' \in Seq(BaItems) /\ baAt' \in Seq(Nat) /\ Len(baAt') = Len(baItems')
      /\ baNext' \in 1..(Len(baItems') + 1) /\ baRead' = TRUE
  BY <1>1, <1>2
<1> HIDE DEF b, val
<1>5. /\ b \in Arrays /\ b.mem = ba.mem /\ b.m_endian = ba.m_endian /\ b.fate # "thrown"
      /\ b.fate = "ok" =>
           /\ Sound(b) /\ b.m_position = val
           /\ b.m_size = IF ba.m_size >= val THEN ba.m_size ELSE val
  BY <1>2, <1>3, PositionFacts
<1>6. CASE b.fate = "ok"
  <2>1. /\ Sound(ba') /\ ba'.m_position = 0 /\ ba'.m_size = ba.m_size
        /\ ba'.m_endian = ba.m_endian /\ ba'.mem = ba.mem
    BY <1>3, <1>5, <1>6 DEF b, val
  <2>2. StartOf(baNext)' = 0
    <3>1. (IF 1 <= Len(baItems) THEN baAt[1] ELSE ba.m_size) = 0
      BY <1>2 DEF ItemsLaid, StartOf
    <3> QED
      BY <1>1, <2>1, <3>1 DEF StartOf
  <2>3. ItemsLaid'
    BY <1>1, <1>2, <2>1, <2>2, ItemsKept
  <2> QED
    BY <1>4, <2>1, <2>3, SoundStep
<1>7. CASE b.fate # "ok"
  <2>1. b.fate = "crashed"
    BY <1>5, <1>7 DEF Arrays
  <2>2. Len(b.mem) = Nodes(b) * m_baseSize
    <3>1. Nodes(ba) \in Nat /\ Len(ba.mem) = Nodes(ba) * m_baseSize
      BY <1>2, SoundTypes
    <3> QED
      BY <1>5, <3>1, WholeNodes
  <2> QED
    BY <1>4, <1>5, <2>1, <2>2, CrashedStep DEF b
<1> QED
  BY <1>6, <1>7

\* Reading the next item, which is at the position.
LEMMA ReadStep == ASSUME BaInv, ReadItem PROVE BaInv'
<1> DEFINE item  == baItems[baNext]
           bytes == Encoded(item, ba.m_endian)
           r     == readItem(ba, item.kind)
           b     == ba'
           n     == Len(bytes)
<1>1. /\ ba.fate = "ok" /\ baNext <= Len(baItems) /\ b = r.a
      /\ baRead' = (r.v = AsWritten(item)) /\ baNext' = baNext + 1
      /\ UNCHANGED <<baItems, baAt>>
  BY DEF ReadItem
<1>2. /\ BaTypeOK /\ Sound(ba) /\ ItemsLaid /\ ba.m_size \in Nat /\ ba.m_position \in Nat
      /\ baItems \in Seq(BaItems) /\ Len(baItems) \in Nat /\ baAt \in Seq(Nat)
      /\ Len(baAt) = Len(baItems) /\ baNext \in 1..Len(baItems)
      /\ baNext \in 1..(Len(baItems) + 1)
  BY <1>1, BaBefore
<1>3. item \in BaItems /\ bytes \in Seq(ByteValue) /\ n \in Nat
  BY <1>2, ItemTypes
<1>4. /\ ba.m_position = StartOf(baNext) /\ StartOf(baNext + 1) = StartOf(baNext) + n
      /\ StartOf(baNext + 1) <= ba.m_size /\ LaidAt(ba.mem, StartOf(baNext), bytes)
  BY <1>2 DEF ItemsLaid
<1>5. Ready(ba, bytes)
  <2> HIDE DEF bytes
  <2> QED
    BY <1>2, <1>3, <1>4 DEF Ready
<1>6. Moved(ba, b, n) /\ r.v = AsWritten(item)
  <2>1. bytes = Encoded(item, ba.m_endian) /\ r = readItem(ba, item.kind)
    OBVIOUS
  <2> HIDE DEF item, bytes, r, b
  <2>2. Moved(ba, r.a, Len(bytes)) /\ r.v = AsWritten(item)
    BY <1>3, <1>5, <2>1, ReadItemFacts
  <2> QED
    BY <1>1, <2>2
<1>7. baRead' = TRUE
  BY <1>1, <1>6, Zenon
<1>8. /\ b \in Arrays /\ b.mem = ba.mem /\ b.m_size = ba.m_size /\ b.m_endian = ba.m_endian
      /\ b.fate = "crashed" \/ (Sound(b) /\ b.m_position = ba.m_position + n)
  BY <1>6 DEF Moved
<1>9. baItems' \in Seq(BaItems) /\ baAt' \in Seq(Nat) /\ Len(baAt') = Len(baItems')
      /\ baNext' \in 1..(Len(baItems') + 1)
  BY <1>1, <1>2
<1> HIDE DEF r, item, bytes, n
<1>10. CASE b.fate = "crashed"
  <2>1. Len(b.mem) = Nodes(b) * m_baseSize
    <3>1. Nodes(ba) \in Nat /\ Len(ba.mem) = Nodes(ba) * m_baseSize
      BY <1>2, SoundTypes
    <3> HIDE DEF b
    <3> QED
      BY <1>8, <3>1, WholeNodes
  <2> QED
    BY <1>7, <1>8, <1>9, <1>10, <2>1, CrashedStep
<1>11. CASE Sound(b) /\ b.m_position = ba.m_position + n
  <2>1. ba'.m_position = StartOf(baNext)'
    <3>1. StartOf(baNext)' = IF baNext + 1 <= Len(baItems) THEN baAt[baNext + 1]
                             ELSE ba.m_size
      BY <1>1, <1>8 DEF StartOf
    <3>2. StartOf(baNext + 1) = IF baNext + 1 <= Len(baItems) THEN baAt[baNext + 1]
                                ELSE ba.m_size
      BY DEF StartOf
    <3>3. StartOf(baNext)' = StartOf(baNext + 1)
      BY <3>1, <3>2
    <3>4. ba'.m_position = ba.m_position + n
      BY <1>11
    <3> QED
      BY <1>4, <3>3, <3>4
  <2>2. ItemsLaid'
    <3>1. /\ ba'.m_size = ba.m_size /\ ba'.m_endian = ba.m_endian /\ ba'.mem = ba.mem
          /\ UNCHANGED <<baItems, baAt>>
      BY <1>1, <1>8
    <3> HIDE DEF b
    <3> QED
      BY <1>2, <2>1, <3>1, ItemsKept
  <2> QED
    BY <1>7, <1>9, <1>11, <2>2, SoundStep
<1> QED
  BY <1>8, <1>10, <1>11

\* Saving to a file, clearing and loading again brings the bytes back.
LEMMA ReloadStep == ASSUME BaInv, Reload PROVE BaInv'
<1> DEFINE c    == clear(ba)
           file == writeToFile(ba)
           z    == ba.m_size
           e    == ba.m_endian
           b    == ba'
<1>1. /\ ba.fate = "ok" /\ ba.m_position = 0 /\ b = readFromFile(c, file)
      /\ baNext' = Len(baItems) + 1 /\ UNCHANGED <<baItems, baAt, baRead>>
  BY DEF Reload
<1>2. /\ BaTypeOK /\ Sound(ba) /\ ItemsLaid /\ z \in Nat /\ baRead = TRUE
      /\ baItems \in Seq(BaItems) /\ Len(baItems) \in Nat /\ baAt \in Seq(Nat)
      /\ Len(baAt) = Len(baItems) /\ z <= Len(ba.mem) /\ ba.mem \in Seq(ByteValue)
      /\ Len(ba.mem) \in Nat
  BY <1>1, BaBefore, SoundTypes
<1>3. file = SubSeq(ba.mem, 1, z)
  BY <1>1, <1>2, FileWritten
<1>4. Sound(c) /\ c.m_position = 0 /\ c.m_size = 0 /\ c.m_endian = e
  <2>1. c = clear(ba)
    OBVIOUS
  <2> HIDE DEF c
  <2> QED
    BY <1>2, <2>1, NewSound
<1> HIDE DEF c, file, b
<1>5. file \in Seq(ByteValue) /\ Len(file) = z /\ \A i \in 1..z : file[i] = ba.mem[i]
  <2> DEFINE m == ba.mem
  <2>1. m \in Seq(ByteValue) /\ Len(m) \in Nat /\ z <= Len(m) /\ file = SubSeq(m, 1, z)
    BY <1>2, <1>3
  <2> HIDE DEF m, z
  <2>2. file \in Seq(ByteValue) /\ Len(file) = z /\ \A i \in 1..z : file[i] = m[i]
    BY <1>2, <2>1
  <2> QED
    BY <2>2 DEF m
<1>6. Loaded(b, file, z, e)
  BY <1>1, <1>4, <1>5, FileRead
<1>7. /\ Sound(b) /\ b.m_position = z /\ b.m_size = z /\ b.m_endian = e
      /\ \A i \in 1..z : b.mem[i] = ba.mem[i]
  BY <1>5, <1>6 DEF Loaded
<1>8. /\ Sound(ba') /\ ba'.m_position = ba.m_size /\ ba'.m_size = ba.m_size
      /\ ba'.m_endian = ba.m_endian /\ \A i \in 1..ba.m_size : ba'.mem[i] = ba.mem[i]
  BY <1>7 DEF b
<1>9. StartOf(baNext)' = ba'.m_position
  <2>1. ~(Len(baItems) + 1 <= Len(baItems))
    BY <1>2
  <2> QED
    BY <1>1, <1>8, <2>1 DEF StartOf
<1>10. ItemsLaid'
  BY <1>1, <1>2, <1>8, <1>9, ItemsKept
<1>11. baItems' \in Seq(BaItems) /\ baAt' \in Seq(Nat) /\ Len(baAt') = Len(baItems')
       /\ baNext' \in 1..(Len(baItems') + 1) /\ baRead' = TRUE
  BY <1>1, <1>2
<1> QED
  BY <1>8, <1>10, <1>11, SoundStep

\* Clearing.
LEMMA ClearStep == ASSUME BaInv, Clear PROVE BaInv'
<1> DEFINE b == ba'
<1>1. /\ ba.fate = "ok" /\ b = clear(ba) /\ baItems' = <<>> /\ baAt' = <<>>
      /\ baNext' = 1 /\ baRead' = baRead
  BY DEF Clear
<1>2. Sound(ba) /\ baRead = TRUE
  BY <1>1, BaBefore
<1>3. Sound(b) /\ b.m_position = 0 /\ b.m_size = 0
  <2> HIDE DEF b
  <2> QED
    BY <1>1, <1>2, NewSound
<1>4. Len(baItems') = 0 /\ Len(baAt') = 0
  BY <1>1
<1>5. ItemsLaid'
  BY <1>1, <1>3, <1>4 DEF ItemsLaid, StartOf
<1>6. baItems' \in Seq(BaItems) /\ baAt' \in Seq(Nat) /\ baNext' \in 1..(Len(baItems') + 1)
  BY <1>1
<1> QED
  BY <1>1, <1>2, <1>3, <1>4, <1>5, <1>6, SoundStep

\* A send() that follows the last node's next.
LEMMA SendStep == ASSUME BaInv, Send PROVE BaInv'
<1>1. ba.fate = "ok" /\ ba' = [ba EXCEPT !.fate = "crashed"]
      /\ UNCHANGED <<baItems, baAt, baNext, baRead>>
  BY DEF Send
<1>2. /\ ba \in Arrays /\ Nodes(ba) \in Nat /\ Len(ba.mem) = Nodes(ba) * m_baseSize
      /\ baRead = TRUE
  BY <1>1, BaBefore, SoundTypes
<1>3. ba' \in Arrays /\ ba'.mem = ba.mem /\ ba'.fate = "crashed"
  BY <1>1, <1>2 DEF Arrays
<1>4. Len(ba'.mem) = Nodes(ba') * m_baseSize
  <2> DEFINE b == ba'
  <2>1. Len(b.mem) = Nodes(ba) * m_baseSize
    BY <1>2, <1>3
  <2> HIDE DEF b
  <2>2. Len(b.mem) = Nodes(b) * m_baseSize
    BY <1>2, <2>1, WholeNodes
  <2> QED
    BY <2>2 DEF b
<1> QED
  BY <1>1, <1>2, <1>3, <1>4, BaBefore, CrashedStep

\* A new array has no items.
LEMMA BaStart == ASSUME BaInit PROVE BaInv
<1>1. /\ ba = NewArray /\ baItems = <<>> /\ baAt = <<>> /\ baNext = 1 /\ baRead = TRUE
  BY DEF BaInit
<1>2. Sound(ba) /\ ba.m_position = 0 /\ ba.m_size = 0 /\ ba.fate = "ok"
  BY <1>1, FirstSound, SoundTypes
<1>3. ba \in Arrays /\ Capacity(ba) = Nodes(ba) * m_baseSize
  BY <1>2, SoundTypes DEF Capacity
<1>4. BaTypeOK
  BY <1>1, <1>3 DEF BaTypeOK
<1>5. ItemsLaid
  <2>1. Len(baItems) = 0
    BY <1>1
  <2> QED
    BY <1>1, <1>2, <2>1 DEF ItemsLaid, StartOf
<1> QED
  BY <1>1, <1>2, <1>4, <1>5 DEF BaInv

\* Every step keeps the items where they are.
LEMMA BaStep == ASSUME BaInv, [BaNext]_baVars PROVE BaInv'
<1>1. CASE setSmallEndian
  BY <1>1, EndianStep
<1>2. CASE WriteItem
  BY <1>2, WriteStep
<1>3. CASE ReceiveItem
  BY <1>3, ReceiveStep
<1>4. CASE Rewind
  BY <1>4, RewindStep
<1>5. CASE ReadItem
  BY <1>5, ReadStep
<1>6. CASE Reload
  BY <1>6, ReloadStep
<1>7. CASE Clear
  BY <1>7, ClearStep
<1>8. CASE Send
  BY <1>8, SendStep
<1>9. CASE UNCHANGED baVars
  BY <1>9 DEF baVars, BaInv, BaTypeOK, ItemsLaid, StartOf
<1> QED
  BY <1>1, <1>2, <1>3, <1>4, <1>5, <1>6, <1>7, <1>8, <1>9 DEF BaNext

\* The starts do not go back.
LEMMA StartsGrow ==
    ASSUME BaTypeOK, Sound(ba), ItemsLaid, NEW j \in 1..(Len(baItems) + 1),
           NEW k \in j..(Len(baItems) + 1)
    PROVE  StartOf(j) <= StartOf(k)
<1> DEFINE N == Len(baItems) + 1 - j
           S == {i \in 0..N : StartOf(j) <= StartOf(j + i)}
<1>1. Len(baItems) \in Nat /\ N \in Nat /\ j \in Nat /\ k - j \in 0..N /\ j + (k - j) = k
  BY DEF BaTypeOK
<1>2. StartOf(j) \in Nat
  BY ItemTypes
<1>3. 0 \in S
  <2>1. j + 0 = j /\ 0 \in 0..N
    BY <1>1
  <2> QED
    BY <1>2, <2>1
<1>4. ASSUME NEW i \in 1..N, i - 1 \in S PROVE i \in S
  <2> DEFINE h == j + (i - 1)
             n == Len(Encoded(baItems[h], ba.m_endian))
  <2>1. h \in 1..Len(baItems) /\ h \in 1..(Len(baItems) + 1) /\ h + 1 = j + i /\ i \in 0..N
    BY <1>1
  <2>2. StartOf(h) \in Nat /\ n \in Nat
    <3> HIDE DEF h
    <3> QED
      BY <2>1, ItemTypes
  <2>3. StartOf(h + 1) = StartOf(h) + n
    <3> HIDE DEF h
    <3> QED
      BY <2>1 DEF ItemsLaid
  <2>4. StartOf(j) <= StartOf(h)
    BY <1>4
  <2>5. StartOf(j + i) = StartOf(h) + n
    BY <2>1, <2>3
  <2>6. StartOf(j) <= StartOf(j + i)
    <3> HIDE DEF h, n
    <3> QED
      BY <1>2, <2>2, <2>4, <2>5
  <2> QED
    BY <2>1, <2>6
<1>5. k - j \in S
  <2> HIDE DEF S, N
  <2>1. \A i \in 0..N : i \in S
    BY <1>1, <1>3, <1>4, SetInduction
  <2> QED
    BY <1>1, <2>1
<1> QED
  BY <1>1, <1>5

\* A part of a sequence of bytes.
LEMMA PartBytes ==
    ASSUME NEW s \in Seq(ByteValue), NEW f \in Nat, NEW n \in Nat, f + n <= Len(s),
           NEW t, t = SubSeq(s, f + 1, f + n)
    PROVE  t \in Seq(ByteValue) /\ Len(t) = n /\ \A i \in 1..n : t[i] = s[f + i]
<1>1. Len(s) \in Nat /\ f + n \in Nat
  OBVIOUS
<1>2. t \in Seq(ByteValue) /\ Len(t) = n
  BY <1>1
<1>3. ASSUME NEW i \in 1..n PROVE t[i] = s[f + i]
  BY <1>1
<1> QED
  BY <1>2, <1>3

\* Bytes that lie behind the position are a part of toString().
LEMMA StringPart ==
    ASSUME NEW a, Sound(a), NEW f \in Nat, NEW bytes \in Seq(ByteValue),
           f + Len(bytes) <= a.m_size - a.m_position,
           \A i \in 1..Len(bytes) : a.mem[a.m_position + (f + i)] = bytes[i]
    PROVE  SubSeq(toString(a), f + 1, f + Len(bytes)) = bytes
<1> DEFINE s == toString(a)
           n == Len(bytes)
           m == a.m_size - a.m_position
           t == SubSeq(s, f + 1, f + n)
<1>1. n \in Nat /\ m \in Nat /\ f + n <= m
  BY SoundTypes
<1>2. s \in Seq(ByteValue) /\ Len(s) = m /\ \A i \in 1..m : s[i] = a.mem[a.m_position + i]
  <2>1. s = toString(a)
    OBVIOUS
  <2> HIDE DEF s
  <2> QED
    BY <2>1, StringBytes
<1>3. t = SubSeq(s, f + 1, f + n)
  OBVIOUS
<1> HIDE DEF s, t, m
<1>4. ASSUME NEW i \in 1..n PROVE s[f + i] = bytes[i]
  <2>1. f + i \in 1..m
    BY <1>1
  <2> QED
    BY <1>2, <2>1
<1> HIDE DEF n
<1>5. t \in Seq(ByteValue) /\ Len(t) = n /\ \A i \in 1..n : t[i] = s[f + i]
  BY <1>1, <1>2, <1>3, PartBytes
<1>6. \A i \in 1..n : t[i] = bytes[i]
  BY <1>4, <1>5
<1>7. t = bytes
  BY <1>5, <1>6, SeqEqual DEF n
<1> QED
  BY <1>7 DEF t, n, s

\* The invariant says what is left to read, item by item.
LEMMA BaInvGives == ASSUME BaInv PROVE BaFaithful
<1>1. ba.fate # "thrown" /\ baRead
  BY DEF BaInv
<1>2. ASSUME ba.fate = "ok"
      PROVE  /\ ba.m_cur = ba.m_position \div m_baseSize /\ ba.m_position <= ba.m_size
             /\ ba.m_position = StartOf(baNext)
             /\ Len(toString(ba)) = ba.m_size - ba.m_position
  <2>1. Sound(ba) /\ ItemsLaid
    BY <1>2, BaBefore
  <2>2. Len(toString(ba)) = ba.m_size - ba.m_position
    BY <2>1, StringBytes
  <2> QED
    BY <2>1, <2>2, SoundTypes DEF ItemsLaid
<1>3. ASSUME ba.fate = "ok", NEW k \in baNext..Len(baItems), NEW bytes, NEW from,
             bytes = Encoded(baItems[k], ba.m_endian), from = StartOf(k) - ba.m_position
      PROVE  /\ StartOf(k + 1) = StartOf(k) + Len(bytes)
             /\ SubSeq(toString(ba), from + 1, from + Len(bytes)) = bytes
  <2> DEFINE p == ba.m_position
             z == ba.m_size
             s == toString(ba)
             n == Len(bytes)
             o == StartOf(k)
  <2>1. /\ BaTypeOK /\ Sound(ba) /\ ItemsLaid /\ p \in Nat /\ z \in Nat /\ p <= z
        /\ Len(baItems) \in Nat /\ baNext \in 1..(Len(baItems) + 1)
    BY <1>3, BaBefore, SoundTypes
  <2>2. /\ k \in 1..Len(baItems) /\ k \in 1..(Len(baItems) + 1)
        /\ k \in baNext..(Len(baItems) + 1)
    BY <2>1
  <2>3. o \in Nat /\ bytes \in Seq(ByteValue) /\ n \in Nat
    BY <1>3, <2>1, <2>2, ItemTypes
  <2>4. /\ StartOf(k + 1) = o + n /\ o + n <= z /\ p = StartOf(baNext)
        /\ \A i \in 1..n : ba.mem[o + i] = bytes[i]
    <3>1. /\ StartOf(k + 1) = o + n /\ StartOf(k + 1) <= z /\ p = StartOf(baNext)
          /\ \A i \in 1..n : ba.mem[o + i] = bytes[i]
      BY <1>3, <2>1, <2>2 DEF ItemsLaid, LaidAt
    <3> QED
      BY <3>1
  <2>5. p <= o
    <3>1. StartOf(baNext) <= StartOf(k)
      BY <2>1, <2>2, StartsGrow
    <3> QED
      BY <2>4, <3>1
  <2>6. /\ s \in Seq(ByteValue) /\ Len(s) = z - p
        /\ \A i \in 1..(z - p) : s[i] = ba.mem[p + i]
    <3>1. s = toString(ba)
      OBVIOUS
    <3> HIDE DEF s
    <3> QED
      BY <2>1, <3>1, StringBytes
  <2> HIDE DEF s, p, z, o
  <2>7. from \in Nat /\ from = o - p /\ from + n <= Len(s)
    <3>1. from = o - p
      BY <1>3 DEF o, p
    <3>2. o + n <= z /\ Len(s) = z - p
      BY <2>4, <2>6
    <3> HIDE DEF n
    <3> QED
      BY <2>1, <2>3, <2>5, <3>1, <3>2
  <2>8. ASSUME NEW i \in 1..n PROVE ba.mem[p + (from + i)] = bytes[i]
    <3>1. p + (from + i) = o + i
      BY <2>1, <2>3, <2>7
    <3> QED
      BY <2>4, <3>1
  <2>9. SubSeq(s, from + 1, from + n) = bytes
    <3>1. from \in Nat /\ from + Len(bytes) <= ba.m_size - ba.m_position
      BY <2>6, <2>7 DEF p, z
    <3>2. \A i \in 1..Len(bytes) : ba.mem[ba.m_position + (from + i)] = bytes[i]
      BY <2>8 DEF p
    <3> QED
      BY <2>1, <2>3, <3>1, <3>2, StringPart DEF s
  <2> QED
    BY <2>4, <2>9 DEF s, o
<1> QED
  BY <1>1, <1>2, <1>3 DEF BaFaithful

\* The inductive invariant: while no null pointer was followed, the array is sound
\* and the encodings of its items lie one behind the other where they were written
\* (bytearray.cpp:86-260).
THEOREM BaInvariant == BaSpec => []BaInv
<1>1. BaInit => BaInv
  BY BaStart
<1>2. BaInv /\ [BaNext]_baVars => BaInv'
  BY BaStep
<1> QED
  BY <1>1, <1>2, PTL DEF BaSpec

\* Items come back as they were written, for every size of the nodes, of a byte
\* and of the texts, in both byte orders, through buffers and files
\* (bytearray.cpp:86-175, :240-260, :319-360).
THEOREM ItemsComeBack == BaSpec => []BaFaithful
<1>1. BaInv => BaFaithful
  BY BaInvGives
<1> QED
  BY <1>1, BaInvariant, PTL

=============================================================================
