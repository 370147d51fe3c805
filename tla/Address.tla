-------------------------------- MODULE Address --------------------------------
(***************************************************************************)
(* The algorithms of net/address.cpp and net/address.h: how a host is      *)
(* split into node and service, the addresses and the mask of a prefix,    *)
(* the prefix of a mask, and the text of an IPv6 address.  Bytes and       *)
(* addresses are shorter than the program's; the text has its 8 groups.    *)
(***************************************************************************)
EXTENDS Integers, SequencesExt, Bitwise

CONSTANTS
    ByteBits,      \* bits of a byte (8)
    V4Bytes,       \* bytes of an IPv4 address (4)
    V6Bytes,       \* bytes of an IPv6 address (16)
    MaxHost        \* bound: characters of a host

ASSUME AddressAssumption ==
    /\ ByteBits \in Nat \ {0} /\ V4Bytes \in Nat \ {0} /\ V6Bytes \in Nat \ {0} /\ MaxHost \in Nat

VARIABLE
    call           \* the last call of a function of Address, with its result

NoCall == [op |-> "none"]      \* no function of Address is called
Pending == [op |-> "pending"]  \* one is about to be

Byte == 0 .. 2 ^ ByteBits - 1
Width == ByteBits * V4Bytes
IPv4 == 0 .. 2 ^ Width - 1
IPv6 == [1 .. V6Bytes -> Byte]

-----------------------------------------------------------------------------
(* Address::parse(): a host is a sequence of "[", "]", ":" and names "n".  *)

NoService == <<"none">>
From(h, i) == SubSeq(h, i, Len(h))

\* memchr(): the first c at or after position i, or 0.
Find(h, c, i) ==
    LET at == {j \in i .. Len(h) : h[j] = c} IN
    IF at = {} THEN 0 ELSE CHOOSE j \in at : \A k \in at : j <= k

ParseHost(h) ==
    LET end == IF h # <<>> /\ h[1] = "[" THEN Find(h, "]", 2) ELSE 0
        colon == Find(h, ":", 1)
        single == colon > 0 /\ Find(h, ":", colon + 1) = 0
    IN
    IF end > 0
    THEN [node |-> SubSeq(h, 1, end - 1),
          service |-> IF end < Len(h) /\ h[end + 1] = ":" THEN From(h, end + 2) ELSE NoService]
    ELSE [node |-> IF single /\ colon > 1 THEN SubSeq(h, 1, colon - 1) ELSE h,
          service |-> IF colon = 0 THEN NoService
                      ELSE From(h, IF single THEN colon + 1 ELSE colon)]

-----------------------------------------------------------------------------
(* Prefixes.                                                               *)

\* (1 << bits of T - bits) - 1; a shift by the width of int is undefined.
CreateMask(width, bits) ==
    CASE bits \in 1 .. width -> {2 ^ (width - bits) - 1}
      [] bits = 0 /\ width = ByteBits -> {2 ^ width - 1}
      [] OTHER -> {0, 2 ^ width - 1}

\* The loop runs once for each bit that is set.
CountBytes(val) ==
    LET count[v \in 0 .. val] == IF v = 0 THEN 0 ELSE 1 + count[v & (v - 1)] IN count[val]

\* byteswapToBigEndian() of an IPv4 address.
Byteswap(x) ==
    LET digit(v, i) == (v \div 2 ^ (ByteBits * i)) % 2 ^ ByteBits IN
    FoldLeft(LAMBDA sum, i : sum * 2 ^ ByteBits + digit(x, i), 0, [i \in 1 .. V4Bytes |-> i - 1])

Complement(width, v) == 2 ^ width - 1 - v

\* Mutant: the mask is not in the order of the bytes of the address.
Broadcast4Unswapped(s, mask) == s | mask

Broadcast4(s, mask) == s | Byteswap(mask)
SubnetMask4(mask)   == Complement(Width, Byteswap(mask))

\* The functions of IPv6 write byte prefix / 8.  For a prefix of all bits that is
\* the first byte of sin6_scope_id, which follows the bytes of the address.
Index(prefix) == prefix \div ByteBits + 1

Broadcast6(b, prefix, mask) ==
    [i \in 1 .. V6Bytes |-> CASE i < Index(prefix) -> b[i]
                              [] i = Index(prefix) -> b[i] | mask
                              [] OTHER -> 2 ^ ByteBits - 1]

SubnetMask6(prefix, mask) ==
    [i \in 1 .. V6Bytes |-> CASE i < Index(prefix) -> 2 ^ ByteBits - 1
                              [] i = Index(prefix) -> Complement(ByteBits, mask)
                              [] OTHER -> 0]

\* The prefix of an interface, from its mask.
PrefixLen6(mask) == FoldLeft(LAMBDA sum, b : sum + CountBytes(b), 0, mask)

-----------------------------------------------------------------------------
(* IPv6Address::insert(), for the 8 groups g.                              *)

InsertGroup(acc, i, g) ==
    LET skips == g[i] = 0 /\ ~ acc.use_zeros
        after == i > 1 /\ g[i - 1] = 0 /\ ~ acc.use_zeros     \* the first group after zeros
        sep == (IF after THEN <<":">> ELSE <<>>) \o (IF i > 1 THEN <<":">> ELSE <<>>)
    IN
    IF skips THEN acc
    ELSE [text |-> acc.text \o sep \o <<ToString(g[i])>>, use_zeros |-> acc.use_zeros \/ after]

Insert(g) ==
    LET acc == FoldLeft(LAMBDA a, i : InsertGroup(a, i, g), [text |-> <<>>, use_zeros |-> FALSE],
                        [i \in 1 .. 8 |-> i])
    IN IF ~ acc.use_zeros /\ g[8] = 0 THEN acc.text \o <<":", ":">> ELSE acc.text

-----------------------------------------------------------------------------
Hosts == UNION {[1 .. n -> {"[", "]", ":", "n"}] : n \in 0 .. MaxHost}

CallParse ==
    /\ call = Pending
    /\ \E h \in Hosts : call' = [op |-> "parse", host |-> h, result |-> ParseHost(h)]

\* The address a is stored in network order.
CallPrefix4 ==
    /\ call = Pending
    /\ \E a \in IPv4, prefix \in 0 .. Width : \E mask \in CreateMask(Width, prefix) :
       call' = [op |-> "prefix4", address |-> a, prefix |-> prefix,
                broadcast |-> Byteswap(Broadcast4(Byteswap(a), mask)),
                mask |-> Byteswap(SubnetMask4(mask)),
                len |-> CountBytes(SubnetMask4(mask))]

CallPrefix6 ==
    /\ call = Pending
    /\ \E a \in IPv6, prefix \in 0 .. ByteBits * V6Bytes :
       \E mask \in CreateMask(ByteBits, prefix % ByteBits) :
          call' = [op |-> "prefix6", address |-> a, prefix |-> prefix,
                   broadcast |-> Broadcast6(a, prefix, mask),
                   mask |-> SubnetMask6(prefix, mask),
                   len |-> PrefixLen6(SubnetMask6(prefix, mask))]

CallInsert ==
    /\ call = Pending
    /\ \E g \in [1 .. 8 -> {0, 1}] : call' = [op |-> "insert", groups |-> g, text |-> Insert(g)]

-----------------------------------------------------------------------------
\* Address::parse() splits a host where a service begins (address.cpp:48-80):
\* after the only ":", or after "]:" for a host in brackets; with several
\* colons and no brackets, or without any, the whole of it is the node.  What
\* the node of a host in brackets is, and the service of one with several
\* colons, is not stated: the program gets them wrong (README, defects).
SplitExact ==
    call.op = "parse" =>
        LET h == call.host  r == call.result
            colons == {i \in DOMAIN h : h[i] = ":"}
            close == {i \in DOMAIN h : h[i] = "]"}
            bracketed == h # <<>> /\ h[1] = "[" /\ close # {}
        IN
        /\ bracketed => \E i \in close : /\ \A j \in close : i <= j
                                         /\ IF i < Len(h) /\ h[i + 1] = ":"
                                            THEN r.service # NoService /\ SubSeq(h, 1, i + 1) \o r.service = h
                                            ELSE r.service = NoService
        /\ ~ bracketed /\ colons = {} => r.node = h /\ r.service = NoService
        /\ ~ bracketed /\ Cardinality(colons) = 1 /\ h[1] # ":" => r.node \o <<":">> \o r.service = h
        /\ ~ bracketed /\ Cardinality(colons) > 1 => r.node = h

Number6(b) == FoldLeft(LAMBDA sum, x : sum * 2 ^ ByteBits + x, 0, b)

\* The broadcast address has every bit after the prefix set and the mask every
\* bit of it, in the order of the bytes on the wire, and the length that
\* getInterfaceAddresses() counts is the prefix again (address.cpp:459, 570).
\* A prefix of 0 shifts an int by its width for IPv4, which is undefined.
PrefixExact ==
    /\ call.op = "prefix4" /\ call.prefix > 0 =>
          LET host == 2 ^ (Width - call.prefix) IN
          /\ call.broadcast = (call.address - (call.address % host)) + host - 1
          /\ call.mask = 2 ^ Width - host
          /\ call.len = call.prefix
    /\ call.op = "prefix6" =>
          LET host == 2 ^ (ByteBits * V6Bytes - call.prefix)  a == Number6(call.address) IN
          /\ Number6(call.broadcast) = (a - (a % host)) + host - 1
          /\ Number6(call.mask) = 2 ^ (ByteBits * V6Bytes) - host
          /\ call.len = call.prefix

\* The text of an IPv6 address denotes it (address.cpp:535): groups between
\* single colons, and one "::" at most for the groups that are missing.
TextDenotes ==
    call.op = "insert" =>
        LET t == call.text
            double == {i \in 1 .. Len(t) - 1 : t[i] = ":" /\ t[i + 1] = ":"}
            groups(s) == SelectSeq(s, LAMBDA x : x # ":")
            want == [i \in 1 .. 8 |-> ToString(call.groups[i])]
        IN
        /\ \A i \in 1 .. Len(t) - 1 : t[i] = ":" \/ t[i + 1] = ":"
        /\ Cardinality(double) <= 1
        /\ double = {} => t[1] # ":" /\ t[Len(t)] # ":" /\ groups(t) = want
        /\ \A i \in double :
              LET left == groups(SubSeq(t, 1, i))  right == groups(SubSeq(t, i, Len(t))) IN
              /\ Len(left) + Len(right) < 8
              /\ want = left \o [j \in 1 .. 8 - Len(left) - Len(right) |-> "0"] \o right

\* A host is split where its service begins, the broadcast address and the mask
\* of a prefix are those of the prefix, and the text of an IPv6 address denotes
\* it (address.cpp:48, 459, 535, 570).
AddressExact == SplitExact /\ PrefixExact /\ TextDenotes
=============================================================================
