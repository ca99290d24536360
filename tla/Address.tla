------------------------------ MODULE Address ------------------------------
(***************************************************************************)
(* Addresses (address.h, address.cpp): the parts of a host text, the       *)
(* lookup, the networks of IPv4 and IPv6 addresses, and the text insert()  *)
(* writes.                                                                 *)
(*                                                                         *)
(* An address keeps its bytes as they lie in memory (network order).  An   *)
(* IPv6 address is followed by the first byte of its scope, which an index *)
(* one past the end reaches.  The number of bytes and their width are      *)
(* parameters; int has four bytes.                                         *)
(***************************************************************************)
EXTENDS Integers, Sequences, SequencesExt, Bitwise

CONSTANTS
    AddrBits,        \* bits of a byte
    AddrGroups,      \* the groups of two bytes of an IPv6 address
    AddrBytes,       \* the values of bytes an address is made of
    AddrNodes,       \* names of hosts
    AddrServices     \* names of services

ASSUME AddressAssumption ==
    AddrBits \in Nat \ {0} /\ AddrGroups \in Nat \ {0} /\ AddrBytes \subseteq 0..(2^AddrBits - 1)

VARIABLES
    ip,              \* [family, bytes, scope]: the address at hand
    answer           \* what the last operation returned, and its arguments

addrVars == <<ip, answer>>

AllOnes == 2^AddrBits - 1
V6Bytes == 2 * AddrGroups
SizeOf(family) == IF family = "IPv4" THEN 4 ELSE V6Bytes
Addresses(family) == {[family |-> family, bytes |-> b, scope |-> 0] : b \in [1..SizeOf(family) -> AddrBytes]}

NetOp == {"broadcast", "subnet", "mask"}

\* The ":" in the text of an address, whose other elements are numbers.
Colon == -1

AddrTypeOK ==
    /\ ip.family \in {"IPv4", "IPv6"} /\ ip.bytes \in [1..SizeOf(ip.family) -> 0..AllOnes]
    /\ ip.scope \in 0..AllOnes
    /\ answer.op \in NetOp \cup {"new", "none", "text", "lookup"}

\* IPv4Address(): INADDR_ANY.
AddrInit ==
    /\ ip = [family |-> "IPv4", bytes |-> [b \in 1..4 |-> 0], scope |-> 0]
    /\ answer = [op |-> "new"]

\* IPAddress::Create() and the constructors from socket addresses.
CreateAddress ==
    /\ answer.op = "new" /\ answer' = [op |-> "none"]
    /\ ip' \in Addresses("IPv4") \cup Addresses("IPv6")

-----------------------------------------------------------------------------
(* Faulty variant: every group of zeros before the first gap is left out,  *)
(* and the gap is not written at the end.                                  *)

NoGapAtEnd(g, used) == <<>>

-----------------------------------------------------------------------------
(* Masks and networks.                                                     *)

\* (1 << (width - bits)) - 1 in int, converted to width bits.  A shift by the
\* width of int is undefined: it comes out as a shift by 0 or as 0.
CreateHostMask(width, bits) ==
    IF width - bits = 4 * AddrBits THEN {0, 2^width - 1} ELSE {2^(width - bits) - 1}

\* How many bits of val are 1.
CountBytes(val) == FoldLeft(LAMBDA n, b : n + ((val \div 2^b) % 2), 0, [b \in 1..AddrBits |-> b - 1])

\* byteswapOnSmallEndian() of a 32-bit number: its bytes as they lie in memory.
InMemory(word) == [i \in 1..4 |-> (word \div 2^(AddrBits * (4 - i))) % 2^AddrBits]

Complement(byte) == AllOnes - byte

\* IPv4Address: all four bytes are combined with the mask at once.
V4Network(op, bytes, len) ==
    {[i \in 1..4 |-> CASE op = "broadcast" -> bytes[i] | m[i]
                       [] op = "subnet"    -> bytes[i] & Complement(m[i])
                       [] OTHER            -> Complement(m[i])]
        : m \in {InMemory(w) : w \in CreateHostMask(4 * AddrBits, len)}}

\* IPv6Address: the byte with index len / 8 with the mask, and the bytes behind
\* it (for the mask itself: before it).  bytes has the scope as its last element.
V6Network(op, bytes, len) ==
    LET at == len \div AddrBits + 1
    IN  {[i \in DOMAIN bytes |->
            CASE op = "broadcast" -> IF i = at THEN bytes[i] | m ELSE IF i \in (at + 1)..V6Bytes THEN AllOnes ELSE bytes[i]
              [] op = "subnet"    -> IF i = at THEN bytes[i] & Complement(m) ELSE IF i \in (at + 1)..V6Bytes THEN 0 ELSE bytes[i]
              [] OTHER            -> IF i = at THEN Complement(m) ELSE IF i < at THEN AllOnes ELSE 0]
            : m \in CreateHostMask(AddrBits, len % AddrBits)}

\* broadcastAddress(len), subnetAddress(len) and subnetMask(len).
Network == \E op \in NetOp, len \in 0..(SizeOf(ip.family) * AddrBits) :
    /\ \/ /\ ip.family = "IPv4"
          /\ \E b \in V4Network(op, ip.bytes, len) : answer' = [op |-> op, len |-> len, bytes |-> b, scope |-> 0]
       \/ /\ ip.family = "IPv6"
          /\ \E b \in V6Network(op, Append(ip.bytes, ip.scope), len) :
                answer' = [op |-> op, len |-> len, bytes |-> SubSeq(b, 1, V6Bytes), scope |-> b[V6Bytes + 1]]
    /\ UNCHANGED ip

-----------------------------------------------------------------------------
(* Text.                                                                   *)

Groups(bytes) == [k \in 1..AddrGroups |-> bytes[2 * k - 1] * 2^AddrBits + bytes[2 * k]]

\* One turn of the loop of insert(): zeros are passed over until the one "::"
\* has been written.
InsertGroup(g, acc, k) ==
    IF g[k] = 0 /\ ~acc.used THEN acc
    ELSE LET gap == k > 1 /\ g[k - 1] = 0 /\ ~acc.used
         IN  [used |-> acc.used \/ gap,
              text |-> acc.text \o (IF gap THEN <<Colon>> ELSE <<>>) \o (IF k > 1 THEN <<Colon>> ELSE <<>>) \o <<g[k]>>]

\* Behind the loop: the address ends with zeros that were passed over.
GapAtEnd(g, used) == IF ~used /\ g[AddrGroups] = 0 THEN <<Colon, Colon>> ELSE <<>>

InsertV6(g) ==
    LET all == FoldLeft(LAMBDA acc, k : InsertGroup(g, acc, k), [used |-> FALSE, text |-> <<>>],
                        [k \in 1..AddrGroups |-> k])
    IN  all.text \o GapAtEnd(g, all.used)

\* insert(): the dotted bytes of an IPv4 address are those in memory.
Insert ==
    /\ answer' = [op |-> "text",
                  text |-> IF ip.family = "IPv4" THEN ip.bytes ELSE InsertV6(Groups(ip.bytes))]
    /\ UNCHANGED ip

-----------------------------------------------------------------------------
(* Lookup.                                                                 *)

\* The position of the first c in host from position i on, 0 if there is none.
Find(host, c, i) == SelectInSubSeq(host, i, Len(host), LAMBDA x : x = c)

\* LookUp(): node and service of a host text; service is <<>> for a null pointer.
HostParts(host) ==
    LET close == IF Len(host) > 0 /\ host[1] = "[" THEN Find(host, "]", 2) ELSE 0
        v6    == IF close = 0 THEN <<>> ELSE SubSeq(host, 2, close - 1)
        colon == Find(host, ":", 1)
    IN  IF v6 # <<>>
        THEN <<v6, IF close < Len(host) /\ host[close + 1] = ":" THEN SubSeq(host, close + 2, Len(host)) ELSE <<>> >>
        ELSE IF colon = 0 THEN <<host, <<>> >>
        ELSE IF Find(host, ":", colon + 1) # 0 THEN <<host, SubSeq(host, colon, Len(host))>>
        ELSE <<IF colon = 1 THEN host ELSE SubSeq(host, 1, colon - 1), SubSeq(host, colon + 1, Len(host))>>

\* The text of a host with or without brackets, and with or without a service.
HostText(p) ==
    (IF p.bracket THEN <<"[">> \o p.node \o <<"]">> ELSE p.node) \o (IF p.service = <<>> THEN <<>> ELSE <<":">> \o p.service)

\* LookUpAny() and LookUpAnyIPAddress() hand (type, protocol) on as (family,
\* type): the family is 0, so getaddrinfo() answers with any families.
LookUpHost == \E node \in AddrNodes, service \in AddrServices \cup {<<>>}, bracket \in BOOLEAN,
             families \in {<<>>, <<"IPv4">>, <<"IPv6", "IPv4">>} :
    /\ LET p == [node |-> node, service |-> service, bracket |-> bracket]
           h == HostParts(HostText(p))
       IN  answer' = [op |-> "lookup", parts |-> p, node |-> h[1], service |-> h[2], families |-> families]
    /\ UNCHANGED ip

\* No operation changes the address: one of them is enough.
AddrNext == CreateAddress \/ (answer.op = "none" /\ (Network \/ Insert \/ LookUpHost))

-----------------------------------------------------------------------------
(* Properties.                                                             *)

\* Bit b of an address, counted from the first bit of its first byte.
Bit(bytes, b) == (bytes[b \div AddrBits + 1] \div 2^(AddrBits - 1 - (b % AddrBits))) % 2

\* The first len bits of a network are those of the address (all ones in a
\* mask), the others are 0, or 1 in a broadcast address; the code's undefined
\* shift for IPv4 and length 0 is left out (address.cpp:28).
NetworkExact ==
    (answer.op \in NetOp /\ (ip.family = "IPv6" \/ answer.len > 0)) =>
        \A b \in 0..(SizeOf(ip.family) * AddrBits - 1) :
            Bit(answer.bytes, b) = IF b < answer.len THEN (IF answer.op = "mask" THEN 1 ELSE Bit(ip.bytes, b))
                                ELSE IF answer.op = "broadcast" THEN 1 ELSE 0

\* The mask's length is what GetInertfaceAddresses() counts in it.
LengthCounted ==
    (answer.op = "mask" /\ (ip.family = "IPv6" \/ answer.len > 0)) =>
        answer.len = FoldLeft(LAMBDA n, byte : n + CountBytes(byte), 0, answer.bytes)

Joined(g) == FlattenSeq([k \in DOMAIN g |-> IF k = 1 THEN <<g[k]>> ELSE <<Colon, g[k]>>])

\* text is a way to write the groups g: in full, or with "::" for one run of zeros.
Writes(text, g) ==
    \/ text = Joined(g)
    \/ \E a \in 0..(Len(g) - 1) : \E z \in (a + 1)..Len(g) :
        /\ \A k \in (a + 1)..z : g[k] = 0
        /\ text = Joined(SubSeq(g, 1, a)) \o <<Colon, Colon>> \o Joined(SubSeq(g, z + 1, Len(g)))

\* The text of an address means that address: "::" is written once at most, for
\* a run of zeros wherever it lies (address.cpp:580-618).
TextMeansAddress ==
    answer.op = "text" =>
        IF ip.family = "IPv4" THEN answer.text = ip.bytes ELSE Writes(answer.text, Groups(ip.bytes))

\* A host text with a plain node or a bracketed one gives its node and service
\* back (address.cpp:151-192).
HostSplit ==
    (answer.op = "lookup" /\ (answer.parts.bracket \/ Find(answer.parts.node, ":", 1) = 0)) =>
        answer.node = answer.parts.node /\ answer.service = answer.parts.service

\* Networks, texts and host parts are what they should be (address.cpp:25-44,
\* 135-217, 446-503, 579-670).
AddressExact == NetworkExact /\ LengthCounted /\ TextMeansAddress /\ HostSplit

=============================================================================
