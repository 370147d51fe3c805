------------------------------- MODULE ByteArray -------------------------------
(***************************************************************************)
(* The byte array of util/serializer.cpp: a list of nodes of one size, a   *)
(* cursor into it that is null at the end of the last node, and the        *)
(* encodings of numbers and strings on top of it.                          *)
(*                                                                         *)
(* A byte has Group + 1 bits and a wide number Width bits, which scales    *)
(* the 8 and 32 or 64 bits of the code down.  The loops over the nodes are *)
(* summarised by the cells they visit.                                     *)
(***************************************************************************)
EXTENDS Integers, Sequences, SequencesExt

CONSTANTS
    m_node_size,
    MaxNodes,       \* bound: length of the list
    MaxCalls,       \* bound: calls
    Group, Width,   \* bits of a varint group (7) and of a number (32, 64)
    LittleMachine,  \* LON_ENDIAN
    Strings,        \* the strings that are written
    Numbers,        \* the unsigned numbers that are written
    Fresh           \* what bytes of memory that nobody wrote may hold

ASSUME ByteArrayAssumption ==
    /\ m_node_size \in Nat \ {0} /\ MaxNodes \in Nat \ {0} /\ MaxCalls \in Nat
    /\ Group \in Nat \ {0} /\ Width \in Nat \ {0} /\ Width % (Group + 1) = 0
    /\ Numbers \subseteq 0 .. 2^Width - 1
    /\ LittleMachine \in BOOLEAN
    \* addTotalSize() computes in float, which is exact up to here.
    /\ m_node_size * MaxNodes <= 2^24

\* What the proofs use of powers, which the provers do not know.
ASSUME PowerAssumption ==
    2^0 = 1 /\ \A n \in 0 .. Group * Width : 2^(n + 1) = 2 * 2^n

Byte == 0 .. 2^(Group + 1) - 1
ASSUME StringAssumption ==
    /\ Strings \subseteq Seq(Byte)
    \* The length of a string is one of the numbers.
    /\ \A s \in Strings : Len(s) < 2^Width
    /\ Fresh # {} /\ Fresh \subseteq Byte
Null == 0
\* An exception instead of bytes.
Throw == <<-1>>

VARIABLES
    nodes,          \* the list from m_root, as the bytes of each node
    m_cur,          \* the index of the current node, or Null
    m_position, m_data_size, m_total_size,
    m_little,       \* m_ba_endian = LON_LITTLE_ENDIAN
    ret,            \* the bytes the last call moved, or Throw
    last,           \* history: the last number that was written
    calls           \* history: how many calls were made

arrayVars == <<nodes, m_cur, m_position, m_data_size, m_total_size>>
vars == <<arrayVars, m_little, ret, last, calls>>

NewNode(j) == [i \in 1 .. m_node_size |-> j]
Nothing == [kind |-> "none", at |-> 0, end |-> 0, val |-> 0, little |-> FALSE]

Init ==
    /\ \E j \in Fresh : nodes = <<NewNode(j)>>
    /\ m_cur = 1
    /\ m_position = 0 /\ m_data_size = 0 /\ m_total_size = m_node_size
    /\ m_little = FALSE
    /\ ret = <<>> /\ last = Nothing /\ calls = 0

-----------------------------------------------------------------------------
(* ZigZag, Varint and the byte order.                                      *)

Signed(n) == IF n < 2^(Width - 1) THEN n ELSE n - 2^Width
Inverted(n) == 2^Width - 1 - n

\* (n << 1) ^ (n >> (bits - 1))
ZigZagEncode(n) ==
    LET shifted == (2 * n) % 2^Width IN IF n < 0 THEN Inverted(shifted) ELSE shifted

\* (n >> 1) ^ -(n & 1)
ZigZagDecode(n) ==
    Signed(IF n % 2 = 1 THEN Inverted(n \div 2) ELSE n \div 2)

VarintLen(n) == CHOOSE k \in 1 .. Width : /\ n < 2^(Group * k)
                                          /\ \A j \in 1 .. k - 1 : n >= 2^(Group * j)

\* Mutant of VarintEncode: the last byte is marked as well.
VarintAllMarked(n) ==
    [i \in 1 .. VarintLen(n) |-> ((n \div 2^(Group * (i - 1))) % 2^Group) + 2^Group]

\* Seven bits a byte, the lowest first, all but the last one marked.
VarintEncode(n) ==
    [i \in 1 .. VarintLen(n) |->
        ((n \div 2^(Group * (i - 1))) % 2^Group) + (IF i < VarintLen(n) THEN 2^Group ELSE 0)]

\* The loop of readUInt32(): at most as many bytes as the width has groups.
MaxVarint == (Width + Group - 1) \div Group
VarintDecode(s) ==
    FoldRight(LAMBDA b, acc : (b % 2^Group) + 2^Group * acc, s, 0) % 2^Width

\* How many of the bytes s the loop consumes; more than there are when it
\* runs into the end.
VarintTaken(s) ==
    IF \E k \in 1 .. MaxVarint : k > Len(s) \/ s[k] < 2^Group
    THEN CHOOSE k \in 1 .. MaxVarint :
             /\ k > Len(s) \/ s[k] < 2^Group
             /\ \A j \in 1 .. k - 1 : s[j] >= 2^Group
    ELSE MaxVarint

Digits(n, count) == [i \in 1 .. count |-> (n \div 2^((Group + 1) * (i - 1))) % 2^(Group + 1)]
\* A number in the memory of the machine, and byteswap().
Image(n, count) == IF LittleMachine THEN Digits(n, count) ELSE Reverse(Digits(n, count))
Fixed(n, count) ==
    IF m_little = LittleMachine THEN Image(n, count) ELSE Reverse(Image(n, count))
FixedDecode(s, little) ==
    FoldRight(LAMBDA b, acc : b + 2^(Group + 1) * acc, IF little THEN s ELSE Reverse(s), 0)

WideBytes == Width \div (Group + 1)

-----------------------------------------------------------------------------
(* The list of nodes.                                                      *)

\* The k-th byte from offset off of node cur on.
Cell(cur, off, k) == <<cur + (off + k - 1) \div m_node_size, ((off + k - 1) % m_node_size) + 1>>
NodeOrNull(i, ns) == IF i \in 1 .. Len(ns) THEN i ELSE Null

Load(ns, cur, off, size) ==
    [k \in 1 .. size |-> LET c == Cell(cur, off, k) IN ns[c[1]][c[2]]]
Store(ns, cur, off, s) ==
    [i \in 1 .. Len(ns) |-> [j \in 1 .. m_node_size |->
        LET k == (i - cur) * m_node_size + j - off IN IF k \in 1 .. Len(s) THEN s[k] ELSE ns[i][j]]]

Offset == m_position % m_node_size
GetReadSize == m_data_size - m_position
GetRemainSize == m_total_size - m_position
Larger(a, b) == IF a > b THEN a ELSE b

\* addTotalSize(): the list and the cursor afterwards.
NewNodes(size) ==
    IF GetRemainSize >= size THEN 0
    ELSE (size - GetRemainSize + m_node_size - 1) \div m_node_size
Grown(size, j) == nodes \o [i \in 1 .. NewNodes(size) |-> NewNode(j)]

CurGrown(size) ==
    IF NewNodes(size) > 0 /\ GetRemainSize = 0 THEN Len(nodes) + 1 ELSE m_cur

\* Room for size more bytes, and within the bound on the list.
AddTotalSize(size, j) ==
    /\ Len(nodes) + NewNodes(size) <= MaxNodes
    /\ m_total_size' = m_total_size + m_node_size * NewNodes(size)
    /\ NewNodes(size) = 0 => j = CHOOSE x \in Fresh : TRUE

\* Mutant of Write: what is behind the bytes is cut off.
WriteTruncates(s) ==
    \E j \in Fresh :
        LET ns  == Grown(Len(s), j)
            cur == CurGrown(Len(s))
        IN  /\ AddTotalSize(Len(s), j)
            /\ nodes' = Store(ns, cur, Offset, s)
            /\ m_cur' = NodeOrNull(cur + (Offset + Len(s)) \div m_node_size, ns)
            /\ m_position' = m_position + Len(s)
            /\ m_data_size' = m_position + Len(s)
            /\ ret' = s

\* write()
Write(s) ==
    \E j \in Fresh :
        LET ns  == Grown(Len(s), j)
            cur == CurGrown(Len(s))
        IN  /\ AddTotalSize(Len(s), j)
            /\ nodes' = Store(ns, cur, Offset, s)
            /\ m_cur' = NodeOrNull(cur + (Offset + Len(s)) \div m_node_size, ns)
            /\ m_position' = m_position + Len(s)
            /\ m_data_size' = Larger(m_data_size, m_position + Len(s))
            /\ ret' = s

\* The bytes that can be read, and reading n of them.
Ahead == Load(nodes, m_cur, Offset, GetReadSize)

\* Mutant of Skip: at the end of a node the cursor stays.
SkipStays(n) ==
    /\ m_position' = m_position + n
    /\ m_cur' = IF n = 0 THEN m_cur ELSE NodeOrNull(m_cur + (Offset + n - 1) \div m_node_size, nodes)
    /\ UNCHANGED <<nodes, m_data_size, m_total_size>>

Skip(n) ==
    /\ m_position' = m_position + n
    /\ m_cur' = IF n = 0 THEN m_cur ELSE NodeOrNull(m_cur + (Offset + n) \div m_node_size, nodes)
    /\ UNCHANGED <<nodes, m_data_size, m_total_size>>

\* read()
Read(n) ==
    IF n > GetReadSize
    THEN ret' = Throw /\ UNCHANGED arrayVars
    ELSE Skip(n) /\ ret' = SubSeq(Ahead, 1, n)

\* setPosition(): the walk from m_root.
Seek(pos) ==
    /\ m_position' = pos
    /\ m_cur' = NodeOrNull((pos \div m_node_size) + 1, nodes)
    /\ m_data_size' = Larger(m_data_size, pos)
    /\ UNCHANGED <<nodes, m_total_size>>

-----------------------------------------------------------------------------
(* The operations.  A number is written in one of four forms, a string     *)
(* with its length in one of three forms in front of it, or without.       *)

Forms == {"uint", "int", "fixed", "byte"}
Lengths == {"uint", "fixed", "byte"}

Encoded(form, n) ==
    CASE form = "uint"  -> VarintEncode(n)
      [] form = "int"   -> VarintEncode(ZigZagEncode(Signed(n)))
      [] form = "fixed" -> Fixed(n, WideBytes)
      [] form = "byte"  -> Fixed(n, 1)

\* How many of the bytes s a read of the form takes, and what it makes of them.
Taken(form, s) ==
    CASE form \in {"uint", "int"} -> VarintTaken(s)
      [] form = "fixed" -> WideBytes
      [] form = "byte"  -> 1
Decoded(form, s, little) ==
    CASE form = "uint" -> VarintDecode(s)
      [] form = "int"  -> ZigZagDecode(VarintDecode(s))
      [] form \in {"fixed", "byte"} -> FixedDecode(s, little)

\* What was remembered is forgotten when it is written over.
Forget(at, end) == last' = IF at < last.end /\ last.at < end THEN Nothing ELSE last
Remember(kind, size, val) ==
    last' = [kind |-> kind, at |-> m_position, end |-> m_position + size, val |-> val,
             little |-> m_little]

WriteNumber(form, n) ==
    /\ Write(Encoded(form, n))
    /\ Remember(form, Len(Encoded(form, n)), IF form = "int" THEN Signed(n) ELSE n)
    /\ UNCHANGED m_little

\* writeStringF...(), writeStringVInt(): the length, then the bytes.
WriteString(form, s) ==
    LET all == Encoded(form, Len(s)) \o s IN
    /\ Write(all)
    /\ last' = Nothing
    /\ UNCHANGED m_little

\* write(), writeString() and the chunks of readFromFile().
WriteRaw(s) ==
    /\ s # <<>> /\ Write(s)
    /\ Forget(m_position, m_position + Len(s))
    /\ UNCHANGED m_little

ReadRaw(n) == Read(n) /\ UNCHANGED <<m_little, last>>

\* A fixed number is read at once, a varint byte by byte up to the end.
ReadNumber(form) ==
    LET n == Taken(form, Ahead) IN
    /\ IF n <= GetReadSize
       THEN Read(n)
       ELSE /\ ret' = Throw
            /\ Skip(IF form = "fixed" THEN 0 ELSE GetReadSize)
    /\ UNCHANGED <<m_little, last>>

\* readStringF...(), readStringVInt(): the read of the length may throw, or the
\* read of the bytes.
ReadString(form) ==
    LET n == Taken(form, Ahead) IN
    \/ n > GetReadSize /\ ReadNumber(form)
    \/ /\ n <= GetReadSize
       /\ \E size \in {Decoded(form, SubSeq(Ahead, 1, n), m_little)} \cap 0 .. 2^Width - 1 :
             IF n + size <= GetReadSize
             THEN Read(n + size)
             ELSE ret' = Throw /\ Skip(n)
       /\ UNCHANGED <<m_little, last>>

SetPosition(pos) ==
    /\ IF pos > m_total_size
       THEN ret' = Throw /\ UNCHANGED arrayVars
       ELSE ret' = <<>> /\ Seek(pos)
    /\ UNCHANGED <<m_little, last>>

\* clear(): the bytes of m_root stay as they are.
Clear ==
    /\ nodes' = SubSeq(nodes, 1, 1) /\ m_cur' = 1
    /\ m_position' = 0 /\ m_data_size' = 0 /\ m_total_size' = m_node_size
    /\ ret' = <<>> /\ last' = Nothing
    /\ UNCHANGED m_little

\* getWriteBuffers(): the list grows, the position stays.
Reserve(size) ==
    \E j \in Fresh :
        /\ AddTotalSize(size, j)
        /\ nodes' = Grown(size, j) /\ m_cur' = CurGrown(size)
        /\ ret' = <<>>
        /\ UNCHANGED <<m_position, m_data_size>>

GetWriteBuffers(size) == size > 0 /\ Reserve(size) /\ UNCHANGED <<m_little, last>>

SetLittleEndian(b) ==
    /\ m_little' = b /\ ret' = <<>>
    /\ UNCHANGED <<arrayVars, last>>

-----------------------------------------------------------------------------
(* The calls that only look.                                               *)

\* getReadBuffers(), getWriteBuffers(): the pieces from offset off of node cur.
Buffers(cur, off, len) ==
    [i \in 1 .. (IF len = 0 THEN 0 ELSE ((off + len - 1) \div m_node_size) + 1) |->
        LET from == IF i = 1 THEN off ELSE 0
            done == IF i = 1 THEN 0 ELSE i * m_node_size - m_node_size - off
        IN  [node |-> cur + i - 1, from |-> from,
             len |-> IF m_node_size - from >= len - done THEN len - done ELSE m_node_size - from]]

BytesOf(bufs) ==
    FlattenSeq([i \in 1 .. Len(bufs) |->
        SubSeq(nodes[bufs[i].node], bufs[i].from + 1, bufs[i].from + bufs[i].len)])

\* writeToFile(): the loop after k rounds.
FileLoop[k \in 0 .. MaxNodes] ==
    IF k = 0 THEN [cur |-> m_cur, pos |-> m_position, left |-> GetReadSize, out |-> <<>>]
    ELSE LET s   == FileLoop[k - 1]
             off == s.pos % m_node_size
             len == (IF s.left > m_node_size THEN m_node_size ELSE s.left) - off
         IN  IF s.left = 0 THEN s
             ELSE [cur |-> s.cur + 1, pos |-> s.pos + len, left |-> s.left - len,
                   out |-> s.out \o Load(nodes, s.cur, off, len)]

Call ==
    \/ \E form \in Forms, n \in Numbers : WriteNumber(form, n)
    \/ \E form \in Lengths, s \in Strings : WriteString(form, s)
    \/ \E s \in Strings : WriteRaw(s)
    \/ \E n \in 1 .. m_total_size : ReadRaw(n)
    \/ \E form \in Forms : ReadNumber(form)
    \/ \E form \in Lengths : ReadString(form)
    \/ \E pos \in 0 .. m_total_size + 1 : SetPosition(pos)
    \/ Clear
    \/ \E size \in 1 .. m_node_size + 1 : GetWriteBuffers(size)
    \/ \E b \in BOOLEAN : SetLittleEndian(b)

Next == calls < MaxCalls /\ calls' = calls + 1 /\ Call

Spec == Init /\ [][Next]_vars

-----------------------------------------------------------------------------
Content == SubSeq(FlattenSeq(nodes), 1, m_data_size)

TypeOK ==
    /\ nodes \in Seq([1 .. m_node_size -> Byte]) /\ Len(nodes) \in 1 .. MaxNodes
    /\ m_cur \in {Null} \cup 1 .. MaxNodes
    /\ m_position \in Nat /\ m_data_size \in Nat /\ m_total_size \in Nat
    /\ m_little \in BOOLEAN /\ calls \in 0 .. MaxCalls
    /\ ret \in Seq(Byte) \cup {Throw}

\* The three sizes are in order, and the cursor is the node of the position,
\* null when and only when the position is behind the last byte of the list:
\* the next write allocates in exactly that case (serializer.cpp:757).
CursorAgrees ==
    /\ TypeOK
    /\ m_total_size = m_node_size * Len(nodes)
    /\ m_position <= m_data_size /\ m_data_size <= m_total_size
    /\ m_cur = IF m_position = m_total_size THEN Null ELSE (m_position \div m_node_size) + 1

\* A number is read back, whatever was written beside it, wherever the nodes
\* end and whatever the byte order is by now.
NumberBack ==
    last.kind # "none" =>
        LET s == SubSeq(Content, last.at + 1, m_data_size)
            n == Taken(last.kind, s)
        IN  /\ n = last.end - last.at
            /\ last.kind = "byte" \/ Decoded(last.kind, SubSeq(s, 1, n), last.little) = last.val

\* The calls that do not move the position, toString() and read(.., position)
\* within the current node, getReadBuffers(), and writeToFile() from the start
\* of a node, show the bytes that a read would return.
ViewsAgree ==
    m_position < m_total_size =>
        \A len \in 0 .. GetReadSize :
            LET want == SubSeq(Content, m_position + 1, m_position + len) IN
            /\ Load(nodes, m_cur, Offset, len) = want
            /\ BytesOf(Buffers(m_cur, Offset, len)) = want
            /\ Offset = 0 /\ len = GetReadSize =>
                   FileLoop[MaxNodes].left = 0 /\ FileLoop[MaxNodes].out = want

\* What was written is read back: readUInt32() takes exactly the bytes that
\* writeUInt32() left (serializer.cpp:145, 259), and no view of the array shows
\* anything else (serializer.cpp:452, 540, 584, 611).
ReadBack == NumberBack /\ ViewsAgree

Flat == INSTANCE ByteBuffer WITH bytes <- Content, pos <- m_position

\* The array of nodes is the plain buffer of module ByteBuffer: no write, read,
\* growth or seek (serializer.cpp:368-520, 724) shows where a node ends.
IsBuffer == Flat!Spec
=============================================================================
